---------------------------- MODULE MCPhoneAuth ----------------------------
(* Small instances of the phone login for TLC.  Calls are interchangeable. *)
EXTENDS PhoneAuth, TLC

CONSTANTS r1, r2, r3, v1, v2

Symmetric == Permutations(Request) \cup Permutations(Verifier)
============================================================================
