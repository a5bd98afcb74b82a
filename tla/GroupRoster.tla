---------------------------- MODULE GroupRoster ----------------------------
(***************************************************************************)
(* What a group promises about its members: people come in through an open *)
(* door, by the hand of a member or by accepting their invitation; a user  *)
(* has one invitation to answer at a time and answers it once; only the    *)
(* end of the group takes its owner away.  Membership implements it.       *)
(***************************************************************************)
CONSTANTS
  Person, Founder,
  Letter,       \* invitations
  Nobody        \* the person no letter has been written to

VARIABLES
  open,         \* whoever knows the way may come in
  place,        \* of a person: "owner", "admin", "member", "none"
  answer,       \* of a letter: "none" (not written), "pending", "accepted", "declined"
  addressee,    \* of a letter
  vouched       \* whom somebody brought in

gvars == <<open, place, answer, addressee, vouched>>

Init ==
  /\ open \in BOOLEAN
  /\ place = [p \in Person |-> IF p = Founder THEN "owner" ELSE "none"]
  /\ answer = [l \in Letter |-> "none"]
  /\ addressee = [l \in Letter |-> Nobody]
  /\ vouched = {}

Exists == place[Founder] = "owner"

Move(p, from, to) == place[p] \in from /\ place' = [place EXCEPT ![p] = to]

OpenDoor ==
  /\ Exists /\ open' = TRUE
  /\ UNCHANGED <<place, answer, addressee, vouched>>

ComeIn(p) ==
  /\ Exists /\ open
  /\ Move(p, {"none"}, "member")
  /\ UNCHANGED <<open, answer, addressee, vouched>>

Vouch(p) ==
  /\ Exists
  /\ Move(p, {"none"}, "member")
  /\ vouched' = vouched \cup {p}
  /\ UNCHANGED <<open, answer, addressee>>

Appoint(p, r) ==
  /\ Exists
  /\ Move(p, {"admin", "member"}, r)
  /\ UNCHANGED <<open, answer, addressee, vouched>>

Depart(p) ==
  /\ Move(p, {"admin", "member"}, "none")
  /\ UNCHANGED <<open, answer, addressee, vouched>>

Write(l, p) ==
  /\ Exists
  /\ answer[l] = "none"
  /\ \A k \in Letter : addressee[k] = p => answer[k] # "pending"
  /\ answer' = [answer EXCEPT ![l] = "pending"]
  /\ addressee' = [addressee EXCEPT ![l] = p]
  /\ UNCHANGED <<open, place, vouched>>

Decide(l, a) ==
  /\ answer[l] = "pending"
  /\ answer' = [answer EXCEPT ![l] = a]
  /\ UNCHANGED <<open, addressee, vouched>>

\* Whoever was in when the acceptance began may have left before it counts.
Accept(l) ==
  /\ Exists
  /\ Decide(l, "accepted")
  /\ Move(addressee[l], {"none"}, "member") \/ UNCHANGED place

Decline(l) == Decide(l, "declined") /\ UNCHANGED place

Dissolve ==
  /\ Exists
  /\ place' = [p \in Person |-> "none"]
  /\ answer' = [l \in Letter |-> "none"]
  /\ open' \in {open, FALSE}
  /\ UNCHANGED <<addressee, vouched>>

Next ==
  \/ OpenDoor \/ Dissolve
  \/ \E p \in Person : ComeIn(p) \/ Vouch(p) \/ Depart(p)
  \/ \E p \in Person, r \in {"admin", "member"} : Appoint(p, r)
  \/ \E l \in Letter, p \in Person : Write(l, p)
  \/ \E l \in Letter : Accept(l) \/ Decline(l)

Spec == Init /\ [][Next]_gvars
=============================================================================
