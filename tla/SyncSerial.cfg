SPECIFICATION FairSpec
CONSTANTS
  i1 = i1
  i2 = i2
  a1 = a1
  a2 = a2
  t1 = t1
  t2 = t2
  Users = {u1}
  Items = {i1, i2}
  Accounts = {a1, a2}
  Transactions = {t1, t2}
  AccountItem <- OneItem
  TxAccount <- TwoTx
  Requests = {r1}
  PageSize = 2
  MaxUpdates = 3
  MaxFailures = 2
INVARIANTS
  PendingNotBehindCursor
  SkippedOnlyIfBroken
PROPERTIES
  CursorMonotone
  CaughtUp
