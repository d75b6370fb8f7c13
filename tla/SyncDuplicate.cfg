SPECIFICATION Spec
CONSTANTS
  i1 = i1
  i2 = i2
  a1 = a1
  a2 = a2
  t1 = t1
  t2 = t2
  Users = {u1}
  Items = {i1}
  Accounts = {a1, a2}
  Transactions = {t1, t2}
  AccountItem <- OneItem
  TxAccount <- TwoTx
  Requests = {r1}
  PageSize = 2
  MaxUpdates = 2
  MaxFailures = 1
PROPERTIES
  DuplicateTolerated
