SPECIFICATION Spec
CONSTANTS
  Browsers = {b1, b2}
  Emails = {e1, e2}
  Tokens = {k1, k2}
  NoToken = NoToken
  Requests = {r1, r2}
  MaxFaults = 1
SYMMETRY Same
INVARIANTS
  TypeOK
  SignedInAsOneself
  CookieIsGood
PROPERTIES
  OnlySignInsRevive
  SSpec
