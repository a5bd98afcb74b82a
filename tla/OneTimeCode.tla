---------------------------- MODULE OneTimeCode ----------------------------
(***************************************************************************)
(* What a login code promises: it can be used until it is spent or dies,   *)
(* it is spent once and by one holder, and neither a spent nor a dead code *)
(* is ever of use again.  PhoneAuth implements it.                         *)
(***************************************************************************)
CONSTANTS Code, Holder

VARIABLES
  life,         \* "none", "live", "spent", "dead"
  users         \* who was let in with the code

cvars == <<life, users>>

Init ==
  /\ life = [c \in Code |-> "none"]
  /\ users = [c \in Code |-> {}]

\* A code may be late on its way and dead when it is made.
Make(c) ==
  /\ life[c] = "none"
  /\ \E l \in {"live", "dead"} : life' = [life EXCEPT ![c] = l]
  /\ UNCHANGED users

Spend(c, h) ==
  /\ life[c] = "live"
  /\ life' = [life EXCEPT ![c] = "spent"]
  /\ users' = [users EXCEPT ![c] = {h}]

\* Time may kill several codes at once.
Die ==
  /\ \E dying \in SUBSET {c \in Code : life[c] = "live"} :
       life' = [c \in Code |-> IF c \in dying THEN "dead" ELSE life[c]]
  /\ UNCHANGED users

Next == Die \/ \E c \in Code : Make(c) \/ \E h \in Holder : Spend(c, h)

Spec == Init /\ [][Next]_cvars
=============================================================================
