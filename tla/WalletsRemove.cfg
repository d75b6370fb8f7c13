SPECIFICATION Spec
CONSTANTS
  Users = {u1, u2}
  Wallets = {w1}
  Requests = {r1, r2}
  MaxFailures = 0
INVARIANTS
  RemoverHasAccess
