SPECIFICATION Spec
CONSTANTS
  u1 = u1  u2 = u2  t1 = t1  t2 = t2  n1 = n1  n2 = n2
  User = {u1, u2}
  Token = {t1, t2}
  Device <- Devices
  Notice = {n1, n2}
  Audience <- Readers
  Invite = {n2}
  Mortal = {t1}
  Misfit <- Misfits
  Timeout = 2
  Lifetimes = {3}
  Margin = 2
  Tries = 2
INVARIANTS AccessTokenLive CopiesCounted
PROPERTIES LiveTokenKept EveryTokenTried
