SPECIFICATION SessionSpec
CONSTANTS
  t1 = t1  t2 = t2  t3 = t3  t4 = t4
  c1 = c1  c2 = c2  c3 = c3  l1 = l1 
  Token = {t1, t2, t3, t4}
  Refresher = {c1, c2, c3}
  Leaver = {l1}
  None = None
SYMMETRY Symmetric
CHECK_DEADLOCK FALSE
INVARIANT OneSuccessor
PROPERTIES LogoutStopsRotation OneTokenAtATime
