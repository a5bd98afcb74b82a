SPECIFICATION Spec
CONSTANTS
  p1 = p1  p2 = p2  p3 = p3  p4 = p4  m1 = m1  m2 = m2
  Post = {p1, p2, p3}
  Edits <- EditsOfFirst
  Legacy = {p3}
  Moderator = {m1, m2}
  Threshold = 2
  None = None
SYMMETRY Symmetric
CHECK_DEADLOCK FALSE
INVARIANTS RejectedGone MuteEarned
PROPERTIES ReviewerIsModerator AutoMuteApplied ReviewsAtomic
