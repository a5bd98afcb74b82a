----------------------------- MODULE Membership -----------------------------
(***************************************************************************)
(* The members, roles and invitations of one group                         *)
(* (internal/storage/repository.go, repository_members.go,                 *)
(* repository_invites.go, group_membership.go, admin_groups.go and their   *)
(* methods in internal/service).                                           *)
(*                                                                         *)
(* Grain.  Every operation is one READ COMMITTED transaction that ends     *)
(* with the insertion of an audit event.  Roles are read without a lock,   *)
(* so these reads are steps of their own.  The last statement that writes  *)
(* keeps its row locks to the commit and is one step with it; so is an     *)
(* operation whose reads lock what they read, or read what never changes   *)
(* (owner_id, visibility and, once set, invite_code).  Accepting an        *)
(* invitation is two steps, since it may find the member row in place and  *)
(* then does not lock it.  A statement that waits for a lock is a step     *)
(* that is not enabled.  Answers that write nothing and follow from the    *)
(* first read alone are left out, except where a later step depends on it. *)
(***************************************************************************)
EXTENDS Naturals

CONSTANTS
  User,
  Owner,        \* groups.owner_id
  Invite,       \* rows of group_invite_requests
  Inviting,     \* calls of CreateInviteRequest
  Adding,       \* calls of InviteUserByID
  Accepting,    \* calls of AcceptInviteRequest
  Removing,     \* calls of RemoveMember
  Mixes,        \* bound: the sets of calls that are made together
  None          \* no user, no invitation

Call == Inviting \cup Adding \cup Accepting \cup Removing

ASSUME MembershipAssumption ==
  /\ Owner \in User
  /\ None \notin User \cup Invite
  /\ Inviting \cap (Adding \cup Accepting \cup Removing) = {}
  /\ Adding \cap (Accepting \cup Removing) = {}
  /\ Accepting \cap Removing = {}

VARIABLES
  public,       \* groups.visibility is "public", as it was created
  made,         \* the calls that are made
  alive,        \* the row of groups exists
  code,         \* it has an invite_code
  role,         \* of the row of group_members, "none" without one
  status,       \* of an invitation, "none" without a row
  target,       \* its target_user_id
  inviter,      \* its inviter_id
  stage,        \* of a call
  by,           \* the user who makes a call
  on,           \* the user it is about
  held,         \* a role the call has read
  which,        \* the invitation it answers
  raced,        \* history: calls during which one of the two changed roles
  added         \* history: users somebody added directly

setting == <<public, made>>
rows == <<setting, alive, code, role>>
invites == <<status, target, inviter>>
calls == <<stage, by, on, held, which>>
vars == <<rows, invites, calls, raced, added>>

Roles == {"owner", "admin", "member", "none"}
Stages == {"idle", "vetted", "half", "cleared", "taken", "conflict", "done", "refused", "failed"}

----------------------------------------------------------------------------
\* May invite, add and remove others.
Strong(r) == r \in {"owner", "admin"}

\* a may remove somebody with role t: an owner anybody else, an admin members.
Outranks(a, t) == \/ a = "owner" /\ t \in {"admin", "member"}
                  \/ a = "admin" /\ t = "member"

\* Calls that have read a role and not yet written.
Open(c) == stage[c] \in {"vetted", "half", "cleared"}

\* An open transaction holds invitation i; one has inserted u's member row.
Held(i) == \E c \in Accepting : stage[c] = "taken" /\ which[c] = i
Entering(u) == \E c \in Accepting : stage[c] = "taken" /\ on[c] = u /\ held[c] = "none"

\* The roles become r: open calls about somebody whose role changes have raced.
ChangeRoles(r) ==
  /\ role' = r
  /\ raced' = raced \cup
       {c \in Call : Open(c) /\ (r[by[c]] # role[by[c]] \/ r[on[c]] # role[on[c]])}

Goto(c, s) == stage' = [stage EXCEPT ![c] = s]

----------------------------------------------------------------------------
\* CreateGroup and ApproveGroupCreationRequest, which also sets a code.
Init ==
  /\ alive = TRUE
  /\ public \in BOOLEAN /\ code \in BOOLEAN
  /\ made \in Mixes
  /\ role = [u \in User |-> IF u = Owner THEN "owner" ELSE "none"]
  /\ status = [i \in Invite |-> "none"]
  /\ target = [i \in Invite |-> None]
  /\ inviter = [i \in Invite |-> None]
  /\ stage = [c \in Call |-> "idle"]
  /\ by = [c \in Call |-> None]
  /\ on = [c \in Call |-> None]
  /\ held = [c \in Call |-> "none"]
  /\ which = [c \in Call |-> None]
  /\ raced = {}
  /\ added = {}

\* INSERT ... ON CONFLICT DO NOTHING; the foreign key needs the group.
Enroll(u) ==
  /\ alive
  /\ role[u] = "none" /\ ~Entering(u)
  /\ ChangeRoles([role EXCEPT ![u] = "member"])

JoinPublicGroup(u) ==
  /\ public
  /\ Enroll(u)
  /\ UNCHANGED <<setting, alive, code, invites, calls, added>>

JoinByInviteCode(u) ==
  /\ code
  /\ Enroll(u)
  /\ UNCHANGED <<setting, alive, code, invites, calls, added>>

\* Any member gets the code, which is made when there is none.
EnsureGroupInviteCode(u) ==
  /\ alive /\ role[u] # "none" /\ ~code
  /\ code' = TRUE
  /\ UNCHANGED <<setting, alive, role, invites, calls, raced, added>>

SetMemberRole(u, r) ==
  /\ alive
  /\ role[u] \notin {"none", "owner"}
  /\ ChangeRoles([role EXCEPT ![u] = r])
  /\ UNCHANGED <<setting, alive, code, invites, calls, added>>

LeaveGroup(u) ==
  /\ role[u] \notin {"none", "owner"}
  /\ ChangeRoles([role EXCEPT ![u] = "none"])
  /\ UNCHANGED <<setting, alive, code, invites, calls, added>>

\* Members and invitations go with the group; the cascade waits for those who
\* hold an invitation.
DeleteGroupAsPlatformAdmin ==
  /\ alive /\ \A c \in Accepting : stage[c] # "taken"
  /\ alive' = FALSE /\ code' = FALSE
  /\ ChangeRoles([u \in User |-> "none"])
  /\ status' = [i \in Invite |-> "none"]
  /\ UNCHANGED <<setting, target, inviter, calls, added>>

----------------------------------------------------------------------------
\* Mutant of CanInviteToGroup: any member may invite.
AnyMemberInvites(c) ==
  /\ c \in made /\ stage[c] = "idle"
  /\ \E a, t \in User :
       /\ by' = [by EXCEPT ![c] = a] /\ on' = [on EXCEPT ![c] = t]
       /\ IF role[a] # "none" THEN Goto(c, "vetted") ELSE Goto(c, "refused")
  /\ UNCHANGED <<rows, invites, held, which, raced, added>>

\* The reads of CreateInviteRequest and of InviteUserByID.
CanInviteToGroup(c) ==
  /\ c \in made /\ stage[c] = "idle"
  /\ \E a, t \in User :
       /\ by' = [by EXCEPT ![c] = a] /\ on' = [on EXCEPT ![c] = t]
       /\ IF Strong(role[a]) THEN Goto(c, "vetted") ELSE Goto(c, "refused")
  /\ UNCHANGED <<rows, invites, held, which, raced, added>>

\* A pending invitation of the same user is kept, with the inviter it has.
CreateInviteRequest(c) ==
  /\ stage[c] = "vetted"
  /\ alive
  /\ \A i \in Invite : target[i] = on[c] => ~Held(i)
  /\ IF \E i \in Invite : status[i] = "pending" /\ target[i] = on[c]
       THEN UNCHANGED invites
       ELSE \E i \in Invite :
              /\ status[i] = "none"
              /\ status' = [status EXCEPT ![i] = "pending"]
              /\ target' = [target EXCEPT ![i] = on[c]]
              /\ inviter' = [inviter EXCEPT ![i] = by[c]]
  /\ Goto(c, "done")
  /\ UNCHANGED <<rows, by, on, held, which, raced, added>>

InviteUserByID(c) ==
  /\ stage[c] = "vetted"
  /\ IF role[on[c]] # "none"
       THEN UNCHANGED <<rows, raced, added>>
       ELSE /\ Enroll(on[c])
            /\ added' = added \cup {on[c]}
            /\ UNCHANGED <<setting, alive, code>>
  /\ Goto(c, "done")
  /\ UNCHANGED <<invites, by, on, held, which>>

\* UNIQUE (group_id, target_user_id, status): another row of i's user has s.
Duplicate(i, s) == \E j \in Invite \ {i} : target[j] = target[i] /\ status[j] = s

\* Mutant of AcceptInvite: somebody else than the target accepts.
AcceptForeign(c) ==
  /\ c \in made /\ stage[c] = "idle"
  /\ \E i \in Invite, u \in User :
       /\ status[i] = "pending" /\ ~Held(i) /\ ~Entering(u)
       /\ by' = [by EXCEPT ![c] = u] /\ on' = [on EXCEPT ![c] = u]
       /\ held' = [held EXCEPT ![c] = role[u]]
       /\ which' = [which EXCEPT ![c] = i]
       /\ IF Duplicate(i, "accepted") THEN Goto(c, "conflict") ELSE Goto(c, "taken")
  /\ UNCHANGED <<rows, invites, raced, added>>

\* AcceptInviteRequestInTransaction: the invitation is locked and the member
\* row inserted, unless it exists; a violated constraint ends the transaction.
AcceptInvite(c) ==
  /\ c \in made /\ stage[c] = "idle"
  /\ \E i \in Invite, u \in User :
       /\ status[i] = "pending" /\ target[i] = u /\ ~Held(i)
       /\ by' = [by EXCEPT ![c] = u] /\ on' = [on EXCEPT ![c] = u]
       /\ held' = [held EXCEPT ![c] = role[u]]
       /\ which' = [which EXCEPT ![c] = i]
       /\ IF Duplicate(i, "accepted") THEN Goto(c, "conflict") ELSE Goto(c, "taken")
  /\ UNCHANGED <<rows, invites, raced, added>>

CommitAccept(c) ==
  /\ stage[c] = "taken"
  /\ status' = [status EXCEPT ![which[c]] = "accepted"]
  /\ IF held[c] = "none" THEN ChangeRoles([role EXCEPT ![on[c]] = "member"])
                         ELSE UNCHANGED <<role, raced>>
  /\ Goto(c, "done")
  /\ UNCHANGED <<setting, alive, code, target, inviter, by, on, held, which, added>>

\* Mutant of DeclineInvite: an invitation in any state is declined.
DeclineAny(i) ==
  /\ status[i] # "none" /\ ~Held(i) /\ ~Duplicate(i, "declined")
  /\ status' = [status EXCEPT ![i] = "declined"]
  /\ UNCHANGED <<rows, target, inviter, calls, raced, added>>

\* By its target; a second row that is declined violates the constraint.
DeclineInvite(i) ==
  /\ status[i] = "pending" /\ ~Held(i) /\ ~Duplicate(i, "declined")
  /\ status' = [status EXCEPT ![i] = "declined"]
  /\ UNCHANGED <<rows, target, inviter, calls, raced, added>>

----------------------------------------------------------------------------
\* RemoveGroupMember, first GetMemberRole; one may always remove oneself.
ReadActorRole(c) ==
  /\ c \in made /\ stage[c] = "idle"
  /\ \E a, t \in User :
       /\ by' = [by EXCEPT ![c] = a] /\ on' = [on EXCEPT ![c] = t]
       /\ held' = [held EXCEPT ![c] = role[a]]
       /\ \/ role[a] # "none" /\ a = t /\ Goto(c, "cleared")
          \/ Strong(role[a]) /\ a # t /\ Goto(c, "half")
          \/ role[a] = "none" /\ Goto(c, "refused")
          \/ role[a] = "member" /\ a # t /\ Goto(c, "refused")
  /\ UNCHANGED <<rows, invites, which, raced, added>>

\* Mutant of ReadTargetRole: admins may remove each other.
ReadTargetLoosely(c) ==
  /\ stage[c] = "half"
  /\ IF role[on[c]] \in {"admin", "member"} THEN Goto(c, "cleared") ELSE Goto(c, "refused")
  /\ UNCHANGED <<rows, invites, by, on, held, which, raced, added>>

\* RemoveGroupMember, second GetMemberRole.
ReadTargetRole(c) ==
  /\ stage[c] = "half"
  /\ IF Outranks(held[c], role[on[c]]) THEN Goto(c, "cleared") ELSE Goto(c, "refused")
  /\ UNCHANGED <<rows, invites, by, on, held, which, raced, added>>

\* Mutant of RemoveGroupMember: the DELETE does not spare the owner.
RemoveAnybody(c) ==
  /\ stage[c] = "cleared"
  /\ IF role[on[c]] = "none"
       THEN Goto(c, "refused") /\ UNCHANGED <<role, raced>>
       ELSE Goto(c, "done") /\ ChangeRoles([role EXCEPT ![on[c]] = "none"])
  /\ UNCHANGED <<setting, alive, code, invites, by, on, held, which, added>>

\* Its DELETE, which spares the owner.
RemoveGroupMember(c) ==
  /\ stage[c] = "cleared"
  /\ IF role[on[c]] \in {"none", "owner"}
       THEN Goto(c, "refused") /\ UNCHANGED <<role, raced>>
       ELSE Goto(c, "done") /\ ChangeRoles([role EXCEPT ![on[c]] = "none"])
  /\ UNCHANGED <<setting, alive, code, invites, by, on, held, which, added>>

\* A statement, the audit event or the commit fails; nothing is written.
CallFails(c) ==
  /\ stage[c] \in {"vetted", "half", "cleared", "taken"}
  /\ Goto(c, "failed")
  /\ UNCHANGED <<rows, invites, by, on, held, which, raced, added>>

----------------------------------------------------------------------------
MemberStep(u) ==
  \/ JoinPublicGroup(u) \/ JoinByInviteCode(u) \/ EnsureGroupInviteCode(u) \/ LeaveGroup(u)
  \/ \E r \in {"admin", "member"} : SetMemberRole(u, r)

Next ==
  \/ \E u \in User : MemberStep(u)
  \/ DeleteGroupAsPlatformAdmin
  \/ \E i \in Invite : DeclineInvite(i)
  \/ \E c \in Inviting : CanInviteToGroup(c) \/ CreateInviteRequest(c)
  \/ \E c \in Adding : CanInviteToGroup(c) \/ InviteUserByID(c)
  \/ \E c \in Accepting : AcceptInvite(c) \/ CommitAccept(c)
  \/ \E c \in Removing : ReadActorRole(c) \/ ReadTargetRole(c) \/ RemoveGroupMember(c)
  \/ \E c \in Call : CallFails(c)

Spec == Init /\ [][Next]_vars

----------------------------------------------------------------------------
TypeOK ==
  /\ public \in BOOLEAN /\ made \in Mixes
  /\ alive \in BOOLEAN /\ code \in BOOLEAN
  /\ role \in [User -> Roles]
  /\ status \in [Invite -> {"none", "pending", "accepted", "declined"}]
  /\ target \in [Invite -> User \cup {None}]
  /\ inviter \in [Invite -> User \cup {None}]
  /\ stage \in [Call -> Stages]
  /\ by \in [Call -> User \cup {None}]
  /\ on \in [Call -> User \cup {None}]
  /\ held \in [Call -> Roles]
  /\ which \in [Call -> Invite \cup {None}]
  /\ raced \subseteq Call
  /\ added \subseteq User

\* A group has its owner, and no other, whoever is removed, leaves, is
\* invited or changes roles at the same time, the owner included
\* (repository_members.go:51-103, group_membership.go:12-31).
OneOwner == alive => \A u \in User : role[u] = "owner" <=> u = Owner

\* Nobody is in a private group without a code who was not added by somebody
\* or accepted an invitation (repository.go:261-333, repository_invites.go:69-85).
InvitedIn ==
  ~public /\ ~code =>
    \A u \in User \ {Owner} :
      role[u] # "none" => u \in added \/ \E i \in Invite : target[i] = u /\ status[i] = "accepted"

\* An invitation is answered once, also when its target accepts and declines it
\* at the same time (repository_invites.go:69-100).
AnswerFinal ==
  [][alive' => \A i \in Invite : status[i] \in {"accepted", "declined"} => status'[i] = status[i]]_vars

Acts(c, s) == stage[c] = s /\ stage'[c] = "done"

\* Who removes another outranks them, or a role changed while the call ran
\* (repository_members.go:78-103).
RemovalJustified ==
  [][\A c \in Removing : Acts(c, "cleared") /\ by[c] # on[c] =>
       c \in raced \/ Outranks(role[by[c]], role[on[c]])]_vars

\* Who invites or adds somebody is the owner or an admin, or a role changed
\* while the call ran (repository_invites.go:102-114, repository.go:317-333).
InviteJustified ==
  [][\A c \in Inviting \cup Adding : Acts(c, "vetted") => c \in raced \/ Strong(role[by[c]])]_vars

\* docs/PROJECT_PROMPT.md:12: "Support private groups joinable by invite code or
\* admin invitation."  Whoever is not a member and accepts a pending invitation
\* is let in (migrations/0002_production_features.sql:21).
InvitationLetsIn == \A c \in Accepting : stage[c] = "conflict" => held[c] # "none"

Roster == INSTANCE GroupRoster WITH
  Person <- User, Founder <- Owner, Letter <- Invite, Nobody <- None,
  open <- public \/ code, place <- role, answer <- status, addressee <- target,
  vouched <- added

\* Calls that read roles and write later, accepts that hold an invitation, and
\* statements that fail keep a roster in which everything happens at once: one
\* invitation to answer per user, one answer, and an owner nobody removes
\* (repository_invites.go:69-114, repository_members.go:51-103).
RosterKept == Roster!Spec

----------------------------------------------------------------------------
(* What makes the properties inductive (MembershipProofs).                 *)

\* A deleted group has no members or invitations; one that exists has its owner.
Membered ==
  /\ ~alive => (\A u \in User : role[u] = "none") /\ (\A i \in Invite : status[i] = "none")
  /\ OneOwner

\* What a call has read holds until a role changes.
Readings ==
  \A c \in Call :
    /\ Open(c) => by[c] \in User /\ on[c] \in User
    /\ stage[c] = "vetted" => c \in raced \/ Strong(role[by[c]])
    /\ stage[c] = "half" => c \in raced \/ role[by[c]] = held[c]
    /\ stage[c] = "cleared" /\ by[c] # on[c] => c \in raced \/ Outranks(role[by[c]], role[on[c]])

\* An open accept holds a pending invitation of its caller, and is not about to
\* insert the owner.
Takings ==
  \A c \in Accepting :
    stage[c] = "taken" =>
      /\ alive
      /\ on[c] \in User /\ which[c] \in Invite
      /\ status[which[c]] = "pending" /\ target[which[c]] = on[c]
      /\ held[c] = "none" => on[c] # Owner

\* No two of them hold one invitation.
TakenOnce ==
  \A c, d \in Accepting :
    stage[c] = "taken" /\ stage[d] = "taken" /\ which[c] = which[d] => c = d

Inv == TypeOK /\ Membered /\ Readings /\ Takings /\ TakenOnce /\ InvitedIn

\* A user has one invitation to answer at a time.
OnePending ==
  \A i, j \in Invite :
    status[i] = "pending" /\ status[j] = "pending" /\ target[i] = target[j] => i = j

\* Whom an open accept is about to insert is still no member.
StillOut ==
  \A c \in Accepting : stage[c] = "taken" /\ held[c] = "none" => role[on[c]] = "none"

RosterInv == Inv /\ OnePending /\ StillOut
=============================================================================
