SPECIFICATION Spec
CONSTANTS
  Users = {u1, u2}
  Wallets = {w1, w2}
  Requests = {r1}
  MaxFailures = 0
INVARIANTS
  AddsToNamedWallet
