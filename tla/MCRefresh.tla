----------------------------- MODULE MCRefresh -----------------------------
(* Small instances of the refresh tokens for TLC.  Tokens are interchangeable,
   and so are calls of Refresh. *)
EXTENDS RefreshSessions, TLC

CONSTANTS t1, t2, t3, t4, c1, c2, c3, l1

Symmetric == Permutations(Token) \cup Permutations(Refresher)
============================================================================
