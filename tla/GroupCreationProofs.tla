------------------------ MODULE GroupCreationProofs ------------------------
(* Proofs about GroupCreation, for any number of requests, reviews and
   accounts.  Inv, defined in GroupCreation, is the inductive invariant. *)
EXTENDS GroupCreation, TLAPS

\* The two halves of the invariant: requests with their reviews, and roles.
ReviewTypes ==
  /\ status \in [Request -> {"none", "pending"} \cup Verdict]
  /\ link \in [Request -> Call \cup {None}]
  /\ groups \subseteq Call /\ born \subseteq Call
  /\ stage \in [Call -> {"idle", "authorized", "read", "decided", "done",
                         "unheard", "refused", "failed"}]
  /\ on \in [Call -> Request \cup {None}]
  /\ verdict \in [Call -> Verdict]
  /\ tries \in [Call -> 0..(Attempts - 1)]
  /\ last \in [Request -> {"none"} \cup Verdict]
  /\ blurred \subseteq Request

RoleTypes ==
  /\ listed \in [Account -> Role] /\ role \in [Account -> Role]
  /\ arriving \subseteq Account \X Role /\ todo \subseteq Account \X Role
  /\ cut \subseteq Account /\ struck \subseteq Account

Reviews == ReviewTypes /\ ReviewsReal /\ GroupsGranted /\ VerdictsStand /\ NoticeFaithful
Roles == RoleTypes /\ CutOff /\ RevokedAtLogin

LEMMA Halves == Inv <=> Reviews /\ Roles
  BY DEF Inv, Reviews, Roles, TypeOK, ReviewTypes, RoleTypes

\* The initial state satisfies the invariant.
LEMMA InitInv == Init => Inv
<1>1. Init => Reviews
  BY GroupCreationAssumption
     DEF Init, Reviews, ReviewTypes, ReviewsReal, GroupsGranted, VerdictsStand, NoticeFaithful,
         Verdict
<1>2. Init => Roles
  BY DEF Init, Roles, RoleTypes, CutOff, RevokedAtLogin, Role
<1> QED
  BY <1>1, <1>2, Halves

----------------------------------------------------------------------------
(* Requests and reviews.                                                   *)

\* What a review does without deciding: it moves on, or back to a failure.
LEMMA MoveInv ==
  ASSUME Reviews, NEW c \in Call,
         NEW s \in {"authorized", "read", "done", "unheard", "refused", "failed"}, Goto(c, s),
         stage[c] # "idle",
         s = "authorized" => stage[c] = "authorized",
         s = "read" => stage[c] \in {"authorized", "read"} /\ verdict[c] = "approved"
                       /\ status[on[c]] # "none",
         s \in {"done", "unheard"} => stage[c] = "decided",
         tries' \in [Call -> 0..(Attempts - 1)], last' \in [Request -> {"none"} \cup Verdict],
         UNCHANGED <<requests, on, verdict, blurred>>
  PROVE  Reviews'
<1>1. /\ stage'[c] = s /\ \A d \in Call \ {c} : stage'[d] = stage[d]
      /\ stage' \in [Call -> {"idle", "authorized", "read", "decided", "done",
                              "unheard", "refused", "failed"}]
  BY DEF Reviews, ReviewTypes, Goto
<1>2. UNCHANGED <<status, link, groups, born>>
  BY DEF requests
<1>3. ReviewTypes'
  BY <1>1, <1>2 DEF Reviews, ReviewTypes
<1>4. ReviewsReal'
  BY <1>1, <1>2 DEF Reviews, ReviewsReal
<1>5. GroupsGranted' /\ VerdictsStand'
  BY <1>1, <1>2 DEF Reviews, ReviewTypes, GroupsGranted, VerdictsStand
<1>6. NoticeFaithful'
  BY <1>1, <1>2 DEF Reviews, VerdictsStand, NoticeFaithful
<1> QED
  BY <1>3, <1>4, <1>5, <1>6 DEF Reviews

LEMMA SubmitInv == ASSUME Reviews, NEW r \in Request, Submit(r) PROVE Reviews'
<1>1. /\ status[r] = "none" /\ status'[r] = "pending"
      /\ \A q \in Request \ {r} : status'[q] = status[q]
      /\ UNCHANGED <<link, groups, born, stage, on, verdict, tries, last, blurred>>
  BY DEF Submit, Reviews, ReviewTypes, notices
<1>2. ReviewTypes'
  BY DEF Submit, Reviews, ReviewTypes, notices
<1>3. ReviewsReal'
  BY <1>1 DEF Reviews, ReviewsReal, Verdict
<1>4. GroupsGranted'
  BY <1>1 DEF Reviews, ReviewTypes, GroupsGranted, ReviewsReal
<1>5. VerdictsStand' /\ NoticeFaithful'
  BY <1>1 DEF Reviews, VerdictsStand, NoticeFaithful, ReviewsReal, Verdict
<1> QED
  BY <1>2, <1>3, <1>4, <1>5 DEF Reviews

LEMMA AuthorizeInv ==
  ASSUME Reviews, NEW c \in Call, NEW r \in Request, NEW v \in Verdict, Authorize(c, r, v)
  PROVE  Reviews'
<1>1. /\ stage[c] = "idle" /\ stage'[c] \in {"authorized", "refused"}
      /\ on'[c] = r /\ verdict'[c] = v
      /\ \A d \in Call \ {c} : stage'[d] = stage[d] /\ on'[d] = on[d] /\ verdict'[d] = verdict[d]
      /\ UNCHANGED <<status, link, groups, born, tries, last, blurred>>
  BY DEF Authorize, Goto, Reviews, ReviewTypes, requests, notices
<1>2. ReviewTypes'
  <2>1. stage' \in [Call -> {"idle", "authorized", "read", "decided", "done",
                             "unheard", "refused", "failed"}]
    BY DEF Authorize, Goto, Reviews, ReviewTypes
  <2> QED
    BY <1>1, <2>1 DEF Authorize, Reviews, ReviewTypes
<1>3. c \notin born
  BY <1>1 DEF Reviews, ReviewsReal
<1>4. ReviewsReal'
  BY <1>1, <1>3 DEF Reviews, ReviewsReal
<1>5. GroupsGranted'
  BY <1>1, <1>3 DEF Reviews, GroupsGranted, ReviewTypes
<1>6. VerdictsStand' /\ NoticeFaithful'
  BY <1>1 DEF Reviews, VerdictsStand, NoticeFaithful
<1> QED
  BY <1>2, <1>4, <1>5, <1>6 DEF Reviews

\* A decision is made on a request that has none yet, and made for good.
LEMMA CommitInv ==
  ASSUME Reviews, NEW c \in Call, Commit(c), Reviewable(on[c]),
         stage[c] \in {"read", "authorized"},
         \/ /\ verdict[c] = "approved" /\ born' = born \cup {c}
            /\ groups' \subseteq Call /\ link' \in [Request -> Call \cup {None}]
         \/ verdict[c] # "approved" /\ UNCHANGED <<link, groups, born>>
  PROVE  Reviews'
<1>1. PICK r \in Request : r = on[c]
  BY DEF Reviews, ReviewsReal
<1>2. /\ status[r] \in {"pending", "needs_more_info"} /\ status'[r] = verdict[c]
      /\ \A q \in Request \ {r} : status'[q] = status[q]
      /\ stage'[c] = "decided" /\ \A d \in Call \ {c} : stage'[d] = stage[d]
      /\ UNCHANGED <<on, verdict, last>>
  BY <1>1 DEF Commit, Goto, Reviews, ReviewTypes, Reviewable
<1>3. ReviewTypes'
  <2>1. stage' \in [Call -> {"idle", "authorized", "read", "decided", "done",
                             "unheard", "refused", "failed"}]
    BY DEF Commit, Goto, Reviews, ReviewTypes
  <2>2. status' \in [Request -> {"none", "pending"} \cup Verdict] /\ blurred' \subseteq Request
    BY <1>1 DEF Commit, Reviews, ReviewTypes
  <2>3. tries' \in [Call -> 0..(Attempts - 1)]
    BY GroupCreationAssumption DEF Commit, Reviews, ReviewTypes
  <2>4. born' \subseteq Call /\ groups' \subseteq Call /\ link' \in [Request -> Call \cup {None}]
    BY DEF Reviews, ReviewTypes
  <2> QED
    BY <1>2, <2>1, <2>2, <2>3, <2>4 DEF Reviews, ReviewTypes
<1>4. verdict[c] \in Verdict /\ verdict \in [Call -> Verdict]
  BY DEF Reviews, ReviewTypes
<1>5. ReviewsReal'
  <2>1. \A d \in Call \ {c} : d \in born' <=> d \in born
    OBVIOUS
  <2>2. \A d \in Call : on[d] \in Request =>
          /\ status[on[d]] # "none" => status'[on[d]] # "none"
          /\ status[on[d]] \in Verdict => status'[on[d]] \in Verdict
    BY <1>2, <1>4 DEF Verdict
  <2> QED
    BY <1>1, <1>2, <1>4, <2>1, <2>2 DEF Reviews, ReviewsReal
<1>6. GroupsGranted'
  <2>1. \A d \in born : on[d] \in Request /\ on[d] # r /\ d # c
    BY <1>1, <1>2 DEF Reviews, ReviewsReal, GroupsGranted, ReviewTypes
  <2>2. ASSUME NEW d \in born' PROVE stage'[d] # "idle" /\ status'[on[d]] = "approved"
    BY <1>1, <1>2, <2>1, <2>2 DEF Reviews, GroupsGranted, ReviewTypes
  <2>3. ASSUME NEW q \in Request, status'[q] = "approved" PROVE \E d \in born' : on[d] = q
    BY <1>1, <1>2, <2>3 DEF Reviews, GroupsGranted
  <2> QED
    BY <1>2, <2>2, <2>3 DEF GroupsGranted
<1>7. VerdictsStand' /\ NoticeFaithful'
  BY <1>1, <1>2, <1>4 DEF Reviews, ReviewsReal, VerdictsStand, NoticeFaithful, Verdict
<1> QED
  BY <1>3, <1>5, <1>6, <1>7 DEF Reviews

LEMMA ReviewInv == ASSUME Reviews, NEW c \in Call, Review(c) PROVE Reviews'
<1> USE GroupCreationAssumption
<1>1. tries \in [Call -> 0..(Attempts - 1)] /\ last \in [Request -> {"none"} \cup Verdict]
  BY DEF Reviews, ReviewTypes
<1>2. CASE \E r \in Request, v \in Verdict : Authorize(c, r, v)
  BY <1>2, AuthorizeInv
<1>3. CASE ReadRequest(c)
  BY <1>1, <1>3, MoveInv DEF ReadRequest, notices
<1>4. CASE Approve(c)
  <2>1. link' \in [Request -> Call \cup {None}] /\ groups' \subseteq Call
    BY <1>4 DEF Approve, Reviews, ReviewTypes
  <2>2. verdict[c] = "approved"
    BY <1>4 DEF Approve, Reviews, ReviewsReal
  <2> QED
    BY <1>4, <2>1, <2>2, CommitInv DEF Approve
<1>5. CASE CodeTaken(c)
  <2>1. CASE Goto(c, "failed") /\ tries' = [tries EXCEPT ![c] = 0]
    <3>1. tries' \in [Call -> 0..(Attempts - 1)]
      BY <1>1, <2>1
    <3> QED
      BY <1>1, <1>5, <2>1, <3>1, MoveInv DEF CodeTaken, notices
  <2>2. CASE tries[c] + 1 # Attempts /\ tries' = [tries EXCEPT ![c] = @ + 1] /\ UNCHANGED stage
    <3>1. tries' \in [Call -> 0..(Attempts - 1)]
      BY <1>1, <2>2
    <3>2. Goto(c, "read")
      BY <1>5, <2>2 DEF CodeTaken, Goto, Reviews, ReviewTypes
    <3>3. stage[c] = "read" /\ verdict[c] = "approved" /\ status[on[c]] # "none"
      BY <1>5 DEF CodeTaken, Reviews, ReviewsReal
    <3> QED
      BY <1>1, <1>5, <3>1, <3>2, <3>3, MoveInv DEF CodeTaken, notices
  <2> QED
    BY <1>5, <2>1, <2>2 DEF CodeTaken
<1>6. CASE Mark(c)
  BY <1>6, CommitInv DEF Mark
<1>7. CASE TooLate(c)
  <2>1. tries' \in [Call -> 0..(Attempts - 1)]
    BY <1>1, <1>7 DEF TooLate
  <2> QED
    BY <1>1, <1>7, <2>1, MoveInv DEF TooLate, notices
<1>8. CASE Tell(c)
  <2>1. last' \in [Request -> {"none"} \cup Verdict]
    BY <1>8 DEF Tell, Reviews, ReviewTypes
  <2> QED
    BY <1>1, <1>8, <2>1, MoveInv DEF Tell
<1>9. CASE CallFails(c)
  <2>1. tries' \in [Call -> 0..(Attempts - 1)]
    BY <1>1, <1>9 DEF CallFails
  <2> QED
    BY <1>1, <1>9, <2>1, MoveInv DEF CallFails, notices
<1> QED
  BY <1>2, <1>3, <1>4, <1>5, <1>6, <1>7, <1>8, <1>9 DEF Review

LEMMA DeleteInv == ASSUME Reviews, NEW g \in Call, DeleteGroup(g) PROVE Reviews'
<1>1. ReviewTypes'
  BY DEF DeleteGroup, Reviews, ReviewTypes, notices
<1> QED
  BY <1>1 DEF DeleteGroup, Reviews, ReviewsReal, GroupsGranted, VerdictsStand, NoticeFaithful,
     notices

----------------------------------------------------------------------------
(* Roles.                                                                  *)

\* Writing a row of the list.
LEMMA EnlistInv ==
  ASSUME Roles, NEW a \in Account, NEW r \in Role, Enlist(a, r), todo' \subseteq Account \X Role
  PROVE  Roles'
<1>1. /\ listed' = [listed EXCEPT ![a] = r] /\ UNCHANGED <<role, arriving>>
  BY DEF Enlist
<1>2. CASE r = "user"
  <2>1. /\ cut' = cut \cup {b \in {a} : \A s \in Role : <<b, s>> \notin arriving}
        /\ UNCHANGED struck
    BY <1>2 DEF Enlist
  <2>2. RoleTypes'
    BY <1>1, <2>1 DEF Roles, RoleTypes
  <2>3. CutOff' /\ RevokedAtLogin'
    BY <1>1, <1>2, <2>1 DEF Roles, RoleTypes, CutOff, RevokedAtLogin
  <2> QED
    BY <2>2, <2>3 DEF Roles
<1>3. CASE r # "user"
  <2>1. cut' = cut \ {a} /\ struck' = struck \ {a}
    BY <1>3 DEF Enlist
  <2>2. RoleTypes'
    BY <1>1, <2>1 DEF Roles, RoleTypes
  <2>3. CutOff' /\ RevokedAtLogin'
    BY <1>1, <2>1 DEF Roles, RoleTypes, CutOff, RevokedAtLogin
  <2> QED
    BY <2>2, <2>3 DEF Roles
<1> QED
  BY <1>2, <1>3

LEMMA AdministrationInv == ASSUME Roles, Administration PROVE Roles'
<1>1. ASSUME NEW a \in Account, NEW r \in Role, EndLogin(a, r) PROVE Roles'
  <2>1. /\ <<a, r>> \in arriving /\ arriving' \subseteq arriving
        /\ role' = [role EXCEPT ![a] = r] /\ struck' = struck \cup (cut \cap {a})
        /\ UNCHANGED <<listed, todo, cut>>
    BY <1>1 DEF EndLogin
  <2>2. RoleTypes'
    BY <2>1 DEF Roles, RoleTypes
  <2>3. CutOff' /\ RevokedAtLogin'
    BY <2>1 DEF Roles, RoleTypes, CutOff, RevokedAtLogin
  <2> QED
    BY <2>2, <2>3 DEF Roles
<1>2. ASSUME NEW a \in Account, NEW r \in Role, EditList(a, r) PROVE Roles'
  BY <1>2, EnlistInv DEF EditList, Roles, RoleTypes
<1>3. ASSUME NEW a \in Account, NEW r \in Role, SyncPhone(a, r) PROVE Roles'
  BY <1>3, EnlistInv DEF SyncPhone, Roles, RoleTypes
<1>4. ASSUME NEW a \in Account, BeginLogin(a) PROVE Roles'
  <2>1. /\ arriving' = arriving \cup {<<a, listed[a]>>} /\ listed[a] \in Role
        /\ UNCHANGED <<listed, role, todo, cut, struck>>
    BY <1>4 DEF BeginLogin, Roles, RoleTypes
  <2>2. RoleTypes'
    BY <2>1 DEF Roles, RoleTypes
  <2>3. CutOff' /\ RevokedAtLogin'
    BY <2>1 DEF Roles, CutOff, RevokedAtLogin
  <2> QED
    BY <2>2, <2>3 DEF Roles
<1>5. CASE StartSync
  <2>1. (PlatformPhones \X {"platform_admin"}) \cup (SuperPhones \X {"super_admin"})
           \subseteq Account \X Role
    BY GroupCreationAssumption DEF Role
  <2> QED
    BY <1>5, <2>1 DEF StartSync, Roles, RoleTypes, CutOff, RevokedAtLogin
<1>6. CASE SyncFails
  BY <1>6 DEF SyncFails, Roles, RoleTypes, CutOff, RevokedAtLogin
<1> QED
  BY <1>1, <1>2, <1>3, <1>4, <1>5, <1>6 DEF Administration

----------------------------------------------------------------------------
\* Neither half disturbs the other.
LEMMA NextInv == ASSUME Inv, [Next]_vars PROVE Inv'
<1>0. Reviews' /\ Roles' => Inv'
  BY DEF Inv, Reviews, Roles, TypeOK, ReviewTypes, RoleTypes
<1>1. Reviews /\ Roles
  BY Halves
<1>2. ASSUME UNCHANGED <<requests, stage, on, verdict, tries, notices>> PROVE Reviews'
  BY <1>0, <1>1, <1>2 DEF requests, notices, Reviews, ReviewTypes, ReviewsReal, GroupsGranted,
     VerdictsStand, NoticeFaithful
<1>3. ASSUME UNCHANGED roles PROVE Roles'
  BY <1>0, <1>1, <1>3 DEF roles, Roles, RoleTypes, CutOff, RevokedAtLogin
<1>4. CASE UNCHANGED vars
  BY <1>0, <1>2, <1>3, <1>4 DEF vars
<1>5. ASSUME NEW r \in Request, Submit(r) PROVE Inv'
  BY <1>0, <1>1, <1>3, <1>5, SubmitInv DEF Submit, roles
<1>6. ASSUME NEW c \in Call, Review(c) PROVE Inv'
  <2>1. UNCHANGED roles
    BY <1>6 DEF Review, Authorize, ReadRequest, Approve, CodeTaken, Mark, TooLate, Tell, CallFails,
       Commit
  <2> QED
    BY <1>0, <1>1, <1>3, <1>6, <2>1, ReviewInv
<1>7. ASSUME NEW c \in Call, DeleteGroup(c) PROVE Inv'
  BY <1>0, <1>1, <1>3, <1>7, DeleteInv DEF DeleteGroup
<1>8. CASE Administration
  <2>1. UNCHANGED <<requests, stage, on, verdict, tries, notices>>
    BY <1>8 DEF Administration, EndLogin, EditList, SyncPhone, BeginLogin, StartSync, SyncFails,
       Enlist
  <2> QED
    BY <1>0, <1>1, <1>2, <1>8, <2>1, AdministrationInv
<1> QED
  BY <1>4, <1>5, <1>6, <1>7, <1>8 DEF Next

LEMMA Inductive == Spec => []Inv
  BY InitInv, NextInv, PTL DEF Spec

\* Every variable keeps its type.
THEOREM TypeCorrect == Spec => []TypeOK
<1>1. Inv => TypeOK
  BY DEF Inv
<1> QED
  BY <1>1, Inductive, PTL

\* What a requester heard of a final decision is the status for good.
THEOREM NoticesFaithful == Spec => []NoticeFaithful
<1>1. Inv => NoticeFaithful
  BY DEF Inv
<1> QED
  BY <1>1, Inductive, PTL

\* An account off the list is an ordinary user from its next login on.
THEOREM RolesRevoked == Spec => []RevokedAtLogin
<1>1. Inv => RevokedAtLogin
  BY DEF Inv
<1> QED
  BY <1>1, Inductive, PTL

----------------------------------------------------------------------------
\* The notices of the reviews that overlap with no other one keep the requester
\* up to date.
LEMMA NoticesInv ==
  ASSUME Inv, NoticeDue, LastNoticeCurrent, [Next]_vars
  PROVE  NoticeDue' /\ LastNoticeCurrent'
<1>1. Reviews
  BY Halves
<1>2. CASE UNCHANGED <<status, stage, on, verdict, last, blurred>>
  BY <1>2 DEF NoticeDue, LastNoticeCurrent
<1>3. ASSUME NEW r \in Request, Submit(r) PROVE NoticeDue' /\ LastNoticeCurrent'
  <2>1. /\ status[r] = "none" /\ status'[r] = "pending"
        /\ \A q \in Request \ {r} : status'[q] = status[q]
        /\ UNCHANGED <<stage, on, verdict, last, blurred>>
    BY <1>1, <1>3 DEF Submit, Reviews, ReviewTypes, notices
  <2>2. \A c \in Call : stage[c] = "decided" => on[c] # r /\ on[c] \in Request
    BY <1>1, <2>1 DEF Reviews, ReviewsReal, Verdict
  <2> QED
    BY <2>1, <2>2 DEF NoticeDue, LastNoticeCurrent, Verdict
<1>4. ASSUME NEW c \in Call, NEW r \in Request, NEW v \in Verdict, Authorize(c, r, v)
      PROVE  NoticeDue' /\ LastNoticeCurrent'
  <2>1. /\ stage[c] = "idle" /\ stage'[c] \in {"authorized", "refused"}
        /\ \A d \in Call \ {c} : stage'[d] = stage[d] /\ on'[d] = on[d] /\ verdict'[d] = verdict[d]
        /\ UNCHANGED <<status, last, blurred>>
    BY <1>1, <1>4 DEF Authorize, Goto, Reviews, ReviewTypes, requests, notices
  <2> QED
    BY <2>1 DEF NoticeDue, LastNoticeCurrent
<1>5. ASSUME NEW c \in Call, Commit(c), stage[c] \in {"read", "authorized"}
      PROVE  NoticeDue' /\ LastNoticeCurrent'
  <2>1. PICK r \in Request : r = on[c]
    BY <1>1, <1>5 DEF Reviews, ReviewsReal
  <2>2. /\ status'[r] = verdict[c] /\ \A q \in Request \ {r} : status'[q] = status[q]
        /\ stage'[c] = "decided" /\ \A d \in Call \ {c} : stage'[d] = stage[d]
        /\ blurred \subseteq blurred' /\ (Untold(r) => r \in blurred')
        /\ UNCHANGED <<on, verdict, last>>
    BY <1>1, <1>5, <2>1 DEF Commit, Goto, Reviews, ReviewTypes
  <2>3. NoticeDue'
    BY <1>1, <2>1, <2>2 DEF NoticeDue, Untold, Reviews, ReviewsReal
  <2>4. LastNoticeCurrent'
    BY <2>1, <2>2 DEF LastNoticeCurrent
  <2> QED
    BY <2>3, <2>4
<1>6. ASSUME NEW c \in Call, Tell(c) PROVE NoticeDue' /\ LastNoticeCurrent'
  <2>1. PICK r \in Request : r = on[c]
    BY <1>1, <1>6 DEF Tell, Reviews, ReviewsReal
  <2>2. /\ last'[r] = verdict[c] /\ \A q \in Request \ {r} : last'[q] = last[q]
        /\ stage[c] = "decided" /\ stage'[c] = "done"
        /\ \A d \in Call \ {c} : stage'[d] = stage[d]
        /\ UNCHANGED <<status, on, verdict, blurred>>
    BY <1>1, <1>6, <2>1 DEF Tell, Goto, Reviews, ReviewTypes, requests
  <2>3. r \notin blurred => last'[r] = status[r]
    BY <2>1, <2>2 DEF NoticeDue
  <2> QED
    BY <2>1, <2>2, <2>3 DEF NoticeDue, LastNoticeCurrent
<1>7. ASSUME NEW c \in Call, ReadRequest(c) \/ CodeTaken(c) \/ TooLate(c) \/ CallFails(c)
      PROVE  NoticeDue' /\ LastNoticeCurrent'
  <2>1. UNCHANGED <<status, on, verdict, last, blurred>>
    BY <1>7 DEF ReadRequest, CodeTaken, TooLate, CallFails, requests, notices
  <2>2. \A d \in Call :
          \/ stage'[d] = stage[d]
          \/ stage[d] = "decided" /\ stage'[d] = "unheard"
          \/ stage[d] \notin {"decided", "unheard"} /\ stage'[d] # "decided"
    BY <1>1, <1>7 DEF ReadRequest, CodeTaken, TooLate, CallFails, Goto, Reviews, ReviewTypes
  <2> QED
    BY <2>1, <2>2 DEF NoticeDue, LastNoticeCurrent
<1>8. CASE Administration \/ UNCHANGED vars \/ \E g \in Call : DeleteGroup(g)
  BY <1>2, <1>8 DEF Administration, EndLogin, EditList, SyncPhone, BeginLogin, StartSync, SyncFails,
     Enlist, requests, notices, vars, DeleteGroup
<1>9. ASSUME NEW c \in Call, Approve(c) \/ Mark(c) PROVE NoticeDue' /\ LastNoticeCurrent'
  BY <1>5, <1>9 DEF Approve, Mark
<1> QED
  BY <1>3, <1>4, <1>6, <1>7, <1>8, <1>9 DEF Next, Review

\* The last notice tells the status, unless it is on its way, lost or overtaken.
THEOREM NoticesCurrent == Spec => []LastNoticeCurrent
<1>1. Init => NoticeDue /\ LastNoticeCurrent
  BY DEF Init, NoticeDue, LastNoticeCurrent, Verdict
<1>2. Inv /\ NoticeDue /\ LastNoticeCurrent /\ [Next]_vars => NoticeDue' /\ LastNoticeCurrent'
  BY NoticesInv
<1> QED
  BY <1>1, <1>2, Inductive, PTL DEF Spec

----------------------------------------------------------------------------
(* The refinement of RequestDecisions.                                     *)

\* Every step of the reviews is one of the decisions, or none.
LEMMA DecisionStep == ASSUME Inv, [Next]_vars PROVE [Decisions!Next]_Decisions!dvars
<1> DEFINE outcome == [r \in Request |-> Outcome(status[r])]
           granted == [r \in Request |-> {c \in born : on[c] = r}]
<1>1. Reviews
  BY Halves
<1>2. ASSUME UNCHANGED <<status, born>>, \A c \in born : on'[c] = on[c]
      PROVE  UNCHANGED Decisions!dvars
  BY <1>2 DEF Decisions!dvars, Outcome
<1>3. ASSUME NEW r \in Request, Submit(r) PROVE [Decisions!Next]_Decisions!dvars
  <2>1. /\ status[r] = "none" /\ status'[r] = "pending"
        /\ \A q \in Request \ {r} : status'[q] = status[q]
        /\ UNCHANGED <<born, on>>
    BY <1>1, <1>3 DEF Submit, Reviews, ReviewTypes
  <2>2. outcome[r] = "absent" /\ outcome' = [outcome EXCEPT ![r] = "open"] /\ granted' = granted
    BY <2>1 DEF Outcome
  <2> HIDE DEF outcome, granted
  <2>3. Decisions!Submit(r)
    BY <2>2 DEF Decisions!Submit, outcome, granted
  <2> QED
    BY <2>3 DEF Decisions!Next
<1>4. ASSUME NEW c \in Call, Commit(c), Reviewable(on[c]), stage[c] \in {"read", "authorized"}
      PROVE  \E r \in Request :
               /\ r = on[c] /\ status[r] \in {"pending", "needs_more_info"}
               /\ outcome[r] = "open" /\ outcome' = [outcome EXCEPT ![r] = Outcome(verdict[c])]
               /\ granted[r] = {} /\ c \notin born /\ UNCHANGED on
  <2>1. PICK r \in Request : r = on[c]
    BY <1>1, <1>4 DEF Reviews, ReviewsReal
  <2>2. /\ status[r] \in {"pending", "needs_more_info"} /\ status'[r] = verdict[c]
        /\ \A q \in Request \ {r} : status'[q] = status[q]
        /\ UNCHANGED on
    BY <1>1, <1>4, <2>1 DEF Commit, Reviews, ReviewTypes, Reviewable
  <2>3. granted[r] = {} /\ c \notin born
    BY <1>1, <1>4, <2>2 DEF Reviews, ReviewsReal, GroupsGranted
  <2> QED
    BY <2>1, <2>2, <2>3 DEF Outcome
<1>5. ASSUME NEW c \in Call, Approve(c) PROVE [Decisions!Next]_Decisions!dvars
  <2>1. verdict[c] = "approved"
    BY <1>1, <1>5 DEF Approve, Reviews, ReviewsReal
  <2>2. PICK r \in Request :
          /\ r = on[c] /\ outcome[r] = "open"
          /\ outcome' = [outcome EXCEPT ![r] = Outcome(verdict[c])]
          /\ granted[r] = {} /\ c \notin born /\ UNCHANGED on
    BY <1>4, <1>5 DEF Approve
  <2>3. born' = born \cup {c}
    BY <1>5 DEF Approve
  <2>4. granted' = [granted EXCEPT ![r] = {c}] /\ \A q \in Request : c \notin granted[q]
    <3>1. \A d \in born : on[d] # r
      BY <2>2
    <3>2. \A q \in Request : granted'[q] = IF q = r THEN {c} ELSE granted[q]
      BY <2>2, <2>3, <3>1
    <3>3. granted = [q \in Request |-> granted[q]] /\ granted' = [q \in Request |-> granted'[q]]
      OBVIOUS
    <3>4. \A q \in Request : c \notin granted[q]
      BY <2>2
    <3> HIDE DEF granted
    <3> QED
      BY <3>2, <3>3, <3>4
  <2>5. outcome' = [outcome EXCEPT ![r] = "granted"]
    BY <2>1, <2>2 DEF Outcome
  <2>6. outcome[r] = "open"
    BY <2>2
  <2> HIDE DEF outcome, granted
  <2>7. Decisions!Grant(r, c)
    BY <2>4, <2>5, <2>6 DEF Decisions!Grant, outcome, granted
  <2> QED
    BY <2>7 DEF Decisions!Next
<1>6. ASSUME NEW c \in Call, Mark(c) PROVE [Decisions!Next]_Decisions!dvars
  <2>1. PICK r \in Request :
          /\ r = on[c] /\ outcome[r] = "open"
          /\ outcome' = [outcome EXCEPT ![r] = Outcome(verdict[c])]
          /\ UNCHANGED on
    BY <1>4, <1>6 DEF Mark
  <2>2. verdict[c] \in {"rejected", "needs_more_info"} /\ granted' = granted
    BY <1>1, <1>6, <2>1 DEF Mark, Reviews, ReviewTypes, Verdict
  <2>3. CASE verdict[c] = "rejected"
    <3>1. outcome[r] = "open" /\ outcome' = [outcome EXCEPT ![r] = "refused"] /\ granted' = granted
      BY <2>1, <2>2, <2>3 DEF Outcome
    <3> HIDE DEF outcome, granted
    <3>2. Decisions!Refuse(r)
      BY <3>1 DEF Decisions!Refuse, outcome, granted
    <3> QED
      BY <3>2 DEF Decisions!Next
  <2>4. CASE verdict[c] = "needs_more_info"
    <3>1. outcome' = outcome /\ granted' = granted
      BY <2>1, <2>2, <2>4 DEF Outcome
    <3> HIDE DEF outcome, granted
    <3> QED
      BY <3>1 DEF Decisions!dvars, outcome, granted
  <2> QED
    BY <2>2, <2>3, <2>4
<1>7. ASSUME NEW c \in Call, Review(c), ~Approve(c), ~Mark(c) PROVE UNCHANGED Decisions!dvars
  <2>1. UNCHANGED <<status, born>>
    BY <1>7 DEF Review, Authorize, ReadRequest, CodeTaken, TooLate, Tell, CallFails, requests
  <2>2. \A d \in born : on'[d] = on[d]
    <3>1. CASE \E r \in Request, v \in Verdict : Authorize(c, r, v)
      BY <1>1, <3>1 DEF Authorize, Reviews, ReviewTypes, ReviewsReal
    <3>2. CASE UNCHANGED on
      BY <3>2
    <3> QED
      BY <1>7, <3>1, <3>2 DEF Review, ReadRequest, CodeTaken, TooLate, Tell, CallFails
  <2> QED
    BY <1>2, <2>1, <2>2
<1>8. CASE Administration \/ UNCHANGED vars \/ \E g \in Call : DeleteGroup(g)
  <2>1. UNCHANGED <<status, born, on>>
    BY <1>8 DEF Administration, EndLogin, EditList, SyncPhone, BeginLogin, StartSync, SyncFails,
       Enlist, requests, vars, DeleteGroup
  <2> QED
    BY <1>2, <2>1
<1> QED
  BY <1>3, <1>5, <1>6, <1>7, <1>8 DEF Next

\* A request is decided once, and the groups made for it are the one of its
\* approval.
THEOREM DecisionsOnce == Spec => DecidedOnce
<1>1. Init => Decisions!Init
  BY DEF Init, Decisions!Init, Outcome
<1>2. Inv /\ [Next]_vars => [Decisions!Next]_Decisions!dvars
  BY DecisionStep
<1> QED
  BY <1>1, <1>2, Inductive, PTL DEF Spec, DecidedOnce, Decisions!Spec
=============================================================================
