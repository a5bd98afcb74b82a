--------------------------- MODULE MCMembership ----------------------------
(* Small instances of one group's membership for TLC.  Invitations are
   interchangeable, and so are the users other than the owner and calls of a
   kind. *)
EXTENDS Membership, TLC

CONSTANTS o, u1, u2, i1, i2, n1, n2, a1, p1, p2, r1, r2

\* Two removals; an addition and a removal; invitations and answers; an
\* invitation and an answer with an addition or a removal.
Blends ==
  {Removing, Inviting \cup Accepting}
  \cup {{a, r} : a \in Adding, r \in Removing}
  \cup {{n, p, c} : n \in Inviting, p \in Accepting, c \in Adding \cup Removing}

Answers == {Inviting \cup Accepting}

Symmetric == Permutations(User \ {Owner}) \cup Permutations(Invite) \cup Permutations(Accepting)
             \cup Permutations(Inviting) \cup Permutations(Removing)
============================================================================
