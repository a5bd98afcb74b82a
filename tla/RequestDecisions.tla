-------------------------- MODULE RequestDecisions --------------------------
(***************************************************************************)
(* What the review of group creation requests promises: a request is       *)
(* decided once, and a group comes into being for it exactly when it is    *)
(* granted, one group, made for no other request.  GroupCreation           *)
(* implements it.                                                          *)
(***************************************************************************)
CONSTANTS Request, Group

VARIABLES
  outcome,      \* "absent", "open", "granted", "refused"
  granted       \* the groups ever made for a request

dvars == <<outcome, granted>>

Init ==
  /\ outcome = [r \in Request |-> "absent"]
  /\ granted = [r \in Request |-> {}]

Submit(r) ==
  /\ outcome[r] = "absent"
  /\ outcome' = [outcome EXCEPT ![r] = "open"]
  /\ UNCHANGED granted

Grant(r, g) ==
  /\ outcome[r] = "open"
  /\ \A q \in Request : g \notin granted[q]
  /\ outcome' = [outcome EXCEPT ![r] = "granted"]
  /\ granted' = [granted EXCEPT ![r] = {g}]

Refuse(r) ==
  /\ outcome[r] = "open"
  /\ outcome' = [outcome EXCEPT ![r] = "refused"]
  /\ UNCHANGED granted

Next == \E r \in Request : Submit(r) \/ Refuse(r) \/ \E g \in Group : Grant(r, g)

Spec == Init /\ [][Next]_dvars
=============================================================================
