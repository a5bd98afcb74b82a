SPECIFICATION FairSpec
CONSTANTS
  a1 = a1  a2 = a2  p1 = p1  junk = junk  c1 = c1  c2 = c2
  Client = {a1, a2}
  Proxy = {p1}
  Junk = {junk}
  Header <- Headers
  Call = {c1, c2}
  Limit = 2
  Window = 3
  MaxKeys = 2
  Lag = 1
  Watched = {a1}
INVARIANTS TwiceLimit
PROPERTIES SilentKeyForgotten
