SPECIFICATION Spec
CONSTANTS
  Users = {u1, u2, u3}
  Wallets = {w1, w2}
  Requests = {r1, r2}
  MaxFailures = 1
SYMMETRY Same
INVARIANTS
  TypeOK
  CreatorJoinsFirst
PROPERTIES
  DesertedIsFinal
  MSpec
