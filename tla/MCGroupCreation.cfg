SPECIFICATION Spec
CONSTANTS
  q1 = q1  q2 = q2  c1 = c1  c2 = c2  c3 = c3  a1 = a1
  Request = {q1}
  Call = {c1, c2, c3}
  Account = {a1}
  SuperPhones = {a1}
  PlatformPhones = {a1}
  Attempts = 2
  None = None
SYMMETRY Symmetric
CHECK_DEADLOCK FALSE
INVARIANTS NoticeFaithful LastNoticeCurrent RevokedAtLogin
PROPERTIES DecidedOnce
