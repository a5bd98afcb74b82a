SPECIFICATION Spec
CONSTANTS
  o = o  u = u  w = w  c1 = c1  c2 = c2  c3 = c3
  User = {o, u, w}
  Owner = o
  SuperAdmin = {w}
  Talkers = {u}
  Call = {c1, c2, c3}
  Jobs <- Mixes
  None = None
CHECK_DEADLOCK FALSE
INVARIANTS PostingJustified ModeratingJustified TallyExact
PROPERTY CommentsReviewed
