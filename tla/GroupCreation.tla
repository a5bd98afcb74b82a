--------------------------- MODULE GroupCreation ---------------------------
(***************************************************************************)
(* Requests for official groups and their review by platform               *)
(* administrators (internal/service/group_creation_requests_service.go,    *)
(* internal/storage/group_creation_requests.go and _review.go,             *)
(* internal/httpapi/group_creation_requests.go), with the roles that admit *)
(* a reviewer (internal/storage/admin_roles.go).                           *)
(*                                                                         *)
(* Grain.  A review reads the reviewer's role, perhaps the request, then   *)
(* runs one transaction that locks the request's row by its first          *)
(* statement and keeps it to the commit, so that the transaction is one    *)
(* step; its notices come after the commit.  A review that fails before    *)
(* its commit leaves nothing; the one that fails after it, because the     *)
(* answer of the commit is lost or the process stops, tells nobody.  The   *)
(* administrators' events and the push repeat the requester's event.       *)
(*                                                                         *)
(* A group is named by the review that makes it; a login in flight is the  *)
(* account with the role it has resolved.                                  *)
(***************************************************************************)
EXTENDS Naturals

CONSTANTS
  Request,         \* requests for a group
  Call,            \* reviews of them
  Account,         \* accounts that review, or used to
  SuperPhones,     \* accounts whose numbers SUPER_ADMIN_PHONES lists
  PlatformPhones,  \* and PLATFORM_ADMIN_PHONES
  Attempts,        \* invite codes an approval tries
  None             \* no group, no request

ASSUME GroupCreationAssumption ==
  /\ None \notin Call /\ None \notin Request
  /\ SuperPhones \subseteq Account /\ PlatformPhones \subseteq Account
  /\ Attempts \in Nat \ {0}

VARIABLES
  status,       \* of a request: "none" before it is submitted
  link,         \* created_group_id
  groups,       \* groups that exist
  stage,        \* of a review
  on, verdict,  \* its request, and the status it wants to set
  tries,        \* codes a running approval has tried in vain
  last,         \* the status the requester heard last
  born,         \* history: reviews that made a group
  blurred,      \* history: requests decided while an earlier notice was due
  listed,       \* admin_phone_allowlist: "user" without an enabled row
  role,         \* the role stored with the account
  arriving,     \* logins in flight: <<account, resolved role>>
  todo,         \* rows a starting server has yet to upsert
  cut, struck   \* history: accounts taken off the list with no login in
                \* flight, and those of them that logged in since

roles == <<listed, role, arriving, todo, cut, struck>>
requests == <<status, link, groups, born>>
notices == <<last, blurred>>
vars == <<requests, stage, on, verdict, tries, notices, roles>>

Role == {"user", "platform_admin", "super_admin"}
Verdict == {"approved", "rejected", "needs_more_info"}

----------------------------------------------------------------------------
\* CanReviewGroupCreationRequests.
MayReview(a) == role[a] \in {"platform_admin", "super_admin"}

\* Mutant of Reviewable: the status is not looked at under the lock.
Submitted(r) == status[r] # "none"

\* The status check of both transactions.
Reviewable(r) == status[r] \in {"pending", "needs_more_info"}

\* A review that has committed and not told the requester yet.
Untold(r) == \E c \in Call : stage[c] = "decided" /\ on[c] = r

----------------------------------------------------------------------------
Init ==
  /\ status = [r \in Request |-> "none"]
  /\ link = [r \in Request |-> None]
  /\ groups = {}
  /\ stage = [c \in Call |-> "idle"]
  /\ on = [c \in Call |-> None]
  /\ verdict = [c \in Call |-> "approved"]
  /\ tries = [c \in Call |-> 0]
  /\ last = [r \in Request |-> "none"]
  /\ born = {}
  /\ blurred = {}
  /\ listed = [a \in Account |-> "user"]
  /\ role = [a \in Account |-> "user"]
  /\ arriving = {}
  /\ todo = {}
  /\ cut = {}
  /\ struck = {}

Goto(c, s) == stage' = [stage EXCEPT ![c] = s]

\* CreateGroupCreationRequest; the administrators hear of it.
Submit(r) ==
  /\ status[r] = "none"
  /\ status' = [status EXCEPT ![r] = "pending"]
  /\ UNCHANGED <<link, groups, born, stage, on, verdict, tries, notices, roles>>

\* The role was read with the account when the call was authenticated.
Authorize(c, r, v) ==
  /\ stage[c] = "idle"
  /\ \E a \in Account : Goto(c, IF MayReview(a) THEN "authorized" ELSE "refused")
  /\ on' = [on EXCEPT ![c] = r]
  /\ verdict' = [verdict EXCEPT ![c] = v]
  /\ UNCHANGED <<requests, tries, notices, roles>>

\* An approval reads the request for the title and the owner of the group.
ReadRequest(c) ==
  /\ stage[c] = "authorized" /\ verdict[c] = "approved"
  /\ Goto(c, IF status[on[c]] = "none" THEN "refused" ELSE "read")
  /\ UNCHANGED <<requests, on, verdict, tries, notices, roles>>

\* What every decision that commits writes.
Commit(c) ==
  /\ status' = [status EXCEPT ![on[c]] = verdict[c]]
  /\ blurred' = IF Untold(on[c]) THEN blurred \cup {on[c]} ELSE blurred
  /\ Goto(c, "decided")
  /\ tries' = [tries EXCEPT ![c] = 0]
  /\ UNCHANGED <<on, verdict, last, roles>>

\* ApproveGroupCreationRequest: the group, its owner and the status.
Approve(c) ==
  /\ stage[c] = "read" /\ Reviewable(on[c])
  /\ groups' = groups \cup {c}
  /\ born' = born \cup {c}
  /\ link' = [link EXCEPT ![on[c]] = c]
  /\ Commit(c)

\* The invite code exists: the transaction is rolled back and tried again.
CodeTaken(c) ==
  /\ stage[c] = "read" /\ Reviewable(on[c])
  /\ IF tries[c] + 1 = Attempts
       THEN Goto(c, "failed") /\ tries' = [tries EXCEPT ![c] = 0]
       ELSE tries' = [tries EXCEPT ![c] = @ + 1] /\ UNCHANGED stage
  /\ UNCHANGED <<requests, on, verdict, notices, roles>>

\* updateGroupCreationRequestReview.
Mark(c) ==
  /\ stage[c] = "authorized" /\ verdict[c] # "approved" /\ Reviewable(on[c])
  /\ Commit(c)
  /\ UNCHANGED <<link, groups, born>>

\* ErrForbidden of an approval, ErrNotFound of another review.
TooLate(c) ==
  /\ stage[c] = IF verdict[c] = "approved" THEN "read" ELSE "authorized"
  /\ ~Reviewable(on[c])
  /\ Goto(c, "refused")
  /\ tries' = [tries EXCEPT ![c] = 0]
  /\ UNCHANGED <<requests, on, verdict, notices, roles>>

\* Mutant of Tell: the handler goes on after an error of the service.
TellAnyway(c) ==
  /\ stage[c] \in {"decided", "refused"} /\ on[c] # None
  /\ last' = [last EXCEPT ![on[c]] = verdict[c]]
  /\ Goto(c, "done")
  /\ UNCHANGED <<requests, on, verdict, tries, blurred, roles>>

\* Mutant of Tell: without a list of administrators nobody is told.
TellWithAdmins(c) ==
  /\ stage[c] = "decided"
  /\ last' \in {last, [last EXCEPT ![on[c]] = verdict[c]]}
  /\ Goto(c, "done")
  /\ UNCHANGED <<requests, on, verdict, tries, blurred, roles>>

\* The handler's notices: the request as the transaction read it back.
Tell(c) ==
  /\ stage[c] = "decided"
  /\ last' = [last EXCEPT ![on[c]] = verdict[c]]
  /\ Goto(c, "done")
  /\ UNCHANGED <<requests, on, verdict, tries, blurred, roles>>

\* A statement fails, the commit's answer is lost, or the process stops.
CallFails(c) ==
  /\ stage[c] \in {"authorized", "read", "decided"}
  /\ Goto(c, IF stage[c] = "decided" THEN "unheard" ELSE "failed")
  /\ tries' = [tries EXCEPT ![c] = 0]
  /\ UNCHANGED <<requests, on, verdict, notices, roles>>

\* DeleteGroupAsPlatformAdmin, by a super_admin: the foreign key sets
\* created_group_id to NULL.
DeleteGroup(g) ==
  /\ g \in groups
  /\ groups' = groups \ {g}
  /\ link' = [r \in Request |-> IF link[r] = g THEN None ELSE link[r]]
  /\ UNCHANGED <<status, born, stage, on, verdict, tries, notices, roles>>

----------------------------------------------------------------------------
(* Roles.                                                                  *)

\* UpsertUserRoleFromAllowlist reads the list ...
BeginLogin(a) ==
  /\ arriving' = arriving \cup {<<a, listed[a]>>}
  /\ UNCHANGED <<requests, stage, on, verdict, tries, notices, listed, role, todo, cut, struck>>

\* Mutant of EndLogin: a login never takes a role away.
EndLoginKeeps(a, r) ==
  /\ <<a, r>> \in arriving
  /\ arriving' \in {arriving, arriving \ {<<a, r>>}}
  /\ role' = IF r = "user" THEN role ELSE [role EXCEPT ![a] = r]
  /\ struck' = struck \cup (cut \cap {a})
  /\ UNCHANGED <<requests, stage, on, verdict, tries, notices, listed, todo, cut>>

\* ... and stores the role with the account; a second login that read the same
\* may still be on its way.
EndLogin(a, r) ==
  /\ <<a, r>> \in arriving
  /\ arriving' \in {arriving, arriving \ {<<a, r>>}}
  /\ role' = [role EXCEPT ![a] = r]
  /\ struck' = struck \cup (cut \cap {a})
  /\ UNCHANGED <<requests, stage, on, verdict, tries, notices, listed, todo, cut>>

\* A row of the list is written; cut and struck speak of rows that are off.
Enlist(a, r) ==
  /\ listed' = [listed EXCEPT ![a] = r]
  /\ IF r = "user"
       THEN /\ cut' = cut \cup {b \in {a} : \A s \in Role : <<b, s>> \notin arriving}
            /\ UNCHANGED struck
       ELSE cut' = cut \ {a} /\ struck' = struck \ {a}
  /\ UNCHANGED <<requests, stage, on, verdict, tries, notices, role, arriving>>

\* The operator edits the list by SQL.
EditList(a, r) ==
  /\ listed[a] # r
  /\ Enlist(a, r)
  /\ UNCHANGED todo

\* SyncAdminPhoneAllowlist of a server that starts, perhaps while another one
\* still serves: the platform administrators' numbers, then the owners'.
StartSync ==
  /\ todo = {}
  /\ todo' = (PlatformPhones \X {"platform_admin"}) \cup (SuperPhones \X {"super_admin"})
  /\ UNCHANGED <<requests, stage, on, verdict, tries, notices, listed, role, arriving, cut, struck>>

SyncPhone(a, r) ==
  /\ <<a, r>> \in todo
  /\ r = "super_admin" => \A b \in Account : <<b, "platform_admin">> \notin todo
  /\ Enlist(a, r)
  /\ todo' = todo \ {<<a, r>>}

SyncFails ==
  /\ todo # {}
  /\ todo' = {}
  /\ UNCHANGED <<requests, stage, on, verdict, tries, notices, listed, role, arriving, cut, struck>>

----------------------------------------------------------------------------
Review(c) ==
  \/ \E r \in Request, v \in Verdict : Authorize(c, r, v)
  \/ ReadRequest(c) \/ Approve(c) \/ CodeTaken(c) \/ Mark(c) \/ TooLate(c)
  \/ Tell(c) \/ CallFails(c)

Administration ==
  \/ \E a \in Account, r \in Role : EndLogin(a, r) \/ EditList(a, r) \/ SyncPhone(a, r)
  \/ \E a \in Account : BeginLogin(a)
  \/ StartSync \/ SyncFails

Next ==
  \/ \E r \in Request : Submit(r)
  \/ \E c \in Call : Review(c) \/ DeleteGroup(c)
  \/ Administration

Spec == Init /\ [][Next]_vars

----------------------------------------------------------------------------
TypeOK ==
  /\ status \in [Request -> {"none", "pending"} \cup Verdict]
  /\ link \in [Request -> Call \cup {None}]
  /\ groups \subseteq Call /\ born \subseteq Call
  /\ stage \in [Call -> {"idle", "authorized", "read", "decided", "done",
                         "unheard", "refused", "failed"}]
  /\ on \in [Call -> Request \cup {None}]
  /\ verdict \in [Call -> Verdict]
  /\ tries \in [Call -> 0..(Attempts - 1)]
  /\ last \in [Request -> {"none"} \cup Verdict]
  /\ blurred \subseteq Request
  /\ listed \in [Account -> Role] /\ role \in [Account -> Role]
  /\ arriving \subseteq Account \X Role /\ todo \subseteq Account \X Role
  /\ cut \subseteq Account /\ struck \subseteq Account

\* How RequestDecisions sees a status.
Outcome(s) ==
  CASE s = "none" -> "absent" [] s = "approved" -> "granted" [] s = "rejected" -> "refused"
    [] OTHER -> "open"

Decisions == INSTANCE RequestDecisions WITH
  Group <- Call,
  outcome <- [r \in Request |-> Outcome(status[r])],
  granted <- [r \in Request |-> {c \in born : on[c] = r}]

\* However many administrators review one request, and whatever is retried or
\* fails, it is decided once, and an approval makes the one group of its request
\* (group_creation_requests_review.go:20-71).
DecidedOnce == Decisions!Spec

\* A requester who hears "approved" or "rejected" hears what stays true, although
\* the notice is sent after the lock is gone (group_creation_requests.go:52-98).
NoticeFaithful ==
  \A c \in Call :
    stage[c] = "done" /\ verdict[c] \in {"approved", "rejected"} => status[on[c]] = verdict[c]

\* The last thing the requester heard is the status of the request, unless the
\* notice of that status is on its way or was lost, or two notices were due at
\* once and came in the wrong order (group_creation_requests.go:61-64).
LastNoticeCurrent ==
  \A r \in Request :
    status[r] \in Verdict /\ last[r] # status[r] =>
      \/ r \in blurred
      \/ \E c \in Call : on[c] = r /\ verdict[c] = status[r] /\ stage[c] \in {"decided", "unheard"}

\* An account taken off the list between its logins is an ordinary user from its
\* next login on, whatever the order in which logins read and write
\* (admin_roles.go:13-38; docs/group_creation_requests.md:54).
RevokedAtLogin == \A a \in struck : role[a] = "user"

----------------------------------------------------------------------------
(* What makes the properties inductive (GroupCreationProofs).              *)

\* A review that got as far as its commit has a request that was submitted.
ReviewsReal ==
  /\ \A c \in Call :
       /\ stage[c] = "idle" => c \notin born
       /\ stage[c] \notin {"idle"} => on[c] \in Request
       /\ stage[c] = "read" => verdict[c] = "approved" /\ status[on[c]] # "none" /\ c \notin born
       /\ stage[c] = "authorized" => c \notin born
       /\ stage[c] \in {"decided", "unheard", "done"} => status[on[c]] \in Verdict

\* A group was made for a request exactly when it is approved.
GroupsGranted ==
  /\ \A c \in born : stage[c] # "idle" /\ status[on[c]] = "approved"
  /\ \A r \in Request : status[r] = "approved" => \E c \in born : on[c] = r

\* A final verdict that committed is the status.
VerdictsStand ==
  \A c \in Call :
    stage[c] = "decided" /\ verdict[c] \in {"approved", "rejected"} => status[on[c]] = verdict[c]

\* A notice that is due alone says what the status is.
NoticeDue ==
  \A c \in Call : stage[c] = "decided" /\ on[c] \notin blurred => verdict[c] = status[on[c]]

\* Off the list means no role to resolve any more.
CutOff ==
  /\ struck \subseteq cut
  /\ \A a \in cut : listed[a] = "user" /\ \A r \in Role : <<a, r>> \in arriving => r = "user"

Inv == TypeOK /\ ReviewsReal /\ GroupsGranted /\ VerdictsStand /\ CutOff
       /\ NoticeFaithful /\ RevokedAtLogin
=============================================================================
