SPECIFICATION Spec
CONSTANTS
  Users = {u1, u2}
  Wallets = {w1, w2}
  Transactions = {t1, t2}
  Requests = {r1, r2}
  MaxFailures = 1
SYMMETRY Same
INVARIANTS
  TypeOK
  OwnerDecides
  AcceptedIsStored
  NothingHidden
PROPERTIES
  DSpec
