-------------------------- MODULE MCGroupCreation --------------------------
(* Small instances of the group creation requests for TLC. *)
EXTENDS GroupCreation, TLC

CONSTANTS q1, q2, c1, c2, c3, a1

Symmetric == Permutations(Call)
============================================================================
