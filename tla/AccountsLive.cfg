SPECIFICATION FairSpec
CONSTANTS
  Browsers = {b1}
  Emails = {e1}
  Tokens = {k1, k2, k3}
  NoToken = NoToken
  Requests = {r1}
  MaxFaults = 2
PROPERTIES
  GetsIn
