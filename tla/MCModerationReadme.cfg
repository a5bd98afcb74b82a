SPECIFICATION Spec
CONSTANTS
  p1 = p1  p2 = p2  p3 = p3  p4 = p4  m1 = m1  m2 = m2
  Post = {p1}
  Edits <- AllNew
  Legacy = {}
  Moderator = {m1}
  Threshold = 2
  None = None
CHECK_DEADLOCK FALSE
INVARIANTS ReviewBeforePublication
