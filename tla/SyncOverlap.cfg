SPECIFICATION Spec
CONSTANTS
  i1 = i1
  i2 = i2
  a1 = a1
  a2 = a2
  t1 = t1
  t2 = t2
  Users = {u1, u2}
  Items = {i1}
  Accounts = {a1, a2}
  Transactions = {t1, t2}
  AccountItem <- OneItem
  TxAccount <- TwoTx
  Requests = {r1, r2}
  PageSize = 1
  MaxUpdates = 3
  MaxFailures = 2
SYMMETRY Same
VIEW Unflagged
INVARIANTS
  TypeOK
  CursorCovers
  CreatorAheadOfCursor
  OwnerConsistent
PROPERTIES
  BrokenIsFinal
  CompleteIsFinal
  HalfImportIsFinal
  ISpec
