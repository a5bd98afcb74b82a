---------------------------- MODULE MCModeration ----------------------------
(* Small instances of the moderation queue for TLC. *)
EXTENDS Moderation, TLC

CONSTANTS p1, p2, p3, p4, m1, m2

\* p2 is an edit of p1; the others are new posts.
EditsOfFirst == [p \in Post |-> IF p = p2 THEN p1 ELSE None]
AllNew == [p \in Post |-> None]

Symmetric == Permutations(Moderator)
============================================================================
