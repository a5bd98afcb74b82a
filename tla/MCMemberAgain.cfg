SPECIFICATION Spec
CONSTANTS
  o = o  u1 = u1  u2 = u2  i1 = i1  i2 = i2
  n1 = n1  n2 = n2  a1 = a1  p1 = p1  p2 = p2  r1 = r1  r2 = r2
  User = {o, u1, u2}
  Owner = o
  Invite = {i1, i2}
  Inviting = {n1, n2}
  Adding = {}
  Accepting = {p1, p2}
  Removing = {}
  Mixes <- Answers
  None = None
SYMMETRY Symmetric
CHECK_DEADLOCK FALSE
INVARIANT InvitationLetsIn
