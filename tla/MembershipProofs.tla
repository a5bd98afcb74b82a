------------------------- MODULE MembershipProofs --------------------------
(* Proofs about Membership, for any number of users, invitations and calls.
   Inv, defined in Membership, is the inductive invariant. *)
EXTENDS Membership, TLAPS

USE DEF setting

\* The initial state satisfies the invariant.
LEMMA InitInv == Init => Inv
<1> SUFFICES ASSUME Init PROVE Inv
  OBVIOUS
<1> USE MembershipAssumption
<1>1. TypeOK
  BY DEF Init, TypeOK, Roles, Stages
<1>2. Membered /\ InvitedIn
  BY DEF Init, Membered, OneOwner, InvitedIn
<1>3. Readings /\ Takings /\ TakenOnce
  BY DEF Init, Readings, Open, Takings, TakenOnce, Call
<1> QED
  BY <1>1, <1>2, <1>3 DEF Inv

\* Whatever changes roles marks the open calls it concerns; a call that ends is
\* not among those that rely on what they read.
LEMMA RolesChange ==
  ASSUME Inv, NEW r \in [User -> Roles], ChangeRoles(r), UNCHANGED <<by, on, held>>,
         stage' \in [Call -> Stages],
         \A c \in Call : stage'[c] = stage[c] \/ stage'[c] \in {"taken", "done", "refused", "failed"}
  PROVE  Readings' /\ raced' \subseteq Call /\ role' \in [User -> Roles]
<1>1. role' = r /\ raced' \subseteq Call
  BY DEF ChangeRoles, Inv, TypeOK
<1>2. ASSUME NEW c \in Call, Open(c)', c \notin raced'
      PROVE  /\ stage'[c] = stage[c] /\ Open(c) /\ c \notin raced
             /\ role'[by[c]] = role[by[c]] /\ role'[on[c]] = role[on[c]]
  <2>1. stage'[c] = stage[c] /\ Open(c)
    BY <1>2 DEF Open
  <2> QED
    BY <1>2, <2>1 DEF ChangeRoles
<1>3. Readings'
  <2> SUFFICES ASSUME NEW c \in Call
               PROVE  /\ Open(c)' => by'[c] \in User /\ on'[c] \in User
                      /\ stage'[c] = "vetted" => c \in raced' \/ Strong(role'[by'[c]])
                      /\ stage'[c] = "half" => c \in raced' \/ role'[by'[c]] = held'[c]
                      /\ stage'[c] = "cleared" /\ by'[c] # on'[c]
                           => c \in raced' \/ Outranks(role'[by'[c]], role'[on'[c]])
    BY DEF Readings
  <2>1. Open(c)' => stage'[c] = stage[c] /\ Open(c)
    BY DEF Open
  <2>2. Open(c)' => by'[c] \in User /\ on'[c] \in User
    BY <2>1 DEF Inv, Readings
  <2>3. stage'[c] \in {"vetted", "half", "cleared"} <=> Open(c)'
    BY DEF Open
  <2>4. CASE c \notin raced' /\ Open(c)'
    BY <1>2, <2>2, <2>3, <2>4 DEF Inv, Readings
  <2> QED
    BY <2>2, <2>3, <2>4
<1> QED
  BY <1>1, <1>3

\* Somebody enters: the row of a user who has none becomes a member's.
LEMMA EnrollInv ==
  ASSUME Inv, NEW u \in User, Enroll(u),
         ~public /\ ~code => u \in added', added \subseteq added', added' \subseteq User,
         UNCHANGED <<public, made, alive, code, status, target, inviter, by, on, held, which>>,
         stage' \in [Call -> Stages],
         \A c \in Call : stage'[c] = stage[c] \/ stage'[c] \in {"done", "refused", "failed"}
  PROVE  Inv'
<1> USE MembershipAssumption
<1> DEFINE r == [role EXCEPT ![u] = "member"]
<1>1. r \in [User -> Roles] /\ ChangeRoles(r) /\ role' = r /\ alive /\ role[u] = "none"
  BY DEF Enroll, ChangeRoles, Inv, TypeOK, Roles
<1>2. Readings' /\ raced' \subseteq Call /\ role' \in [User -> Roles]
  BY <1>1, RolesChange
<1>3. TypeOK'
  BY <1>2 DEF Inv, TypeOK
<1>4. \A w \in User \ {u} : role'[w] = role[w]
  BY <1>1
<1>5. Membered'
  BY <1>1, <1>4 DEF Inv, Membered, OneOwner, TypeOK
<1>6. InvitedIn'
  BY <1>1, <1>4 DEF Inv, InvitedIn
<1>7. \A c \in Accepting : stage'[c] = "taken" => stage[c] = "taken"
  BY DEF Call
<1>8. Takings' /\ TakenOnce'
  BY <1>7 DEF Inv, Takings, TakenOnce
<1> QED
  BY <1>2, <1>3, <1>5, <1>6, <1>8 DEF Inv

\* A member gets another role than the owner's, or none.
LEMMA RoleInv ==
  ASSUME Inv, NEW u \in User, NEW s \in {"admin", "member", "none"},
         role[u] \notin {"none", "owner"}, ChangeRoles([role EXCEPT ![u] = s]),
         UNCHANGED <<public, made, alive, code, status, target, inviter, by, on, held, which, added>>,
         stage' \in [Call -> Stages],
         \A c \in Call : stage'[c] = stage[c] \/ stage'[c] \in {"done", "refused", "failed"}
  PROVE  Inv'
<1> USE MembershipAssumption
<1> DEFINE r == [role EXCEPT ![u] = s]
<1>1. r \in [User -> Roles] /\ ChangeRoles(r) /\ role' = r
  BY DEF ChangeRoles, Inv, TypeOK, Roles
<1>2. Readings' /\ raced' \subseteq Call /\ role' \in [User -> Roles]
  BY <1>1, RolesChange
<1>3. TypeOK'
  BY <1>2 DEF Inv, TypeOK
<1>4. role'[u] = s /\ \A w \in User \ {u} : role'[w] = role[w]
  BY <1>1 DEF Inv, TypeOK
<1>5. alive
  BY DEF Inv, Membered
<1>6. Membered'
  BY <1>4, <1>5 DEF Inv, Membered, OneOwner
<1>7. InvitedIn'
  BY <1>4 DEF Inv, InvitedIn
<1>8. \A c \in Accepting : stage'[c] = "taken" => stage[c] = "taken"
  BY DEF Call
<1>9. Takings' /\ TakenOnce'
  BY <1>8 DEF Inv, Takings, TakenOnce
<1> QED
  BY <1>2, <1>3, <1>6, <1>7, <1>9 DEF Inv

\* The steps of the group's row and of invitations that run no call.
LEMMA GroupInv ==
  ASSUME Inv,
         \/ \E u \in User : EnsureGroupInviteCode(u)
         \/ DeleteGroupAsPlatformAdmin
         \/ \E i \in Invite : DeclineInvite(i)
  PROVE  Inv'
<1> USE MembershipAssumption
<1>1. ASSUME NEW u \in User, EnsureGroupInviteCode(u) PROVE Inv'
  BY <1>1 DEF EnsureGroupInviteCode, invites, calls, Inv, TypeOK, Membered, OneOwner, Readings,
              Open, Takings, TakenOnce, InvitedIn
<1>2. CASE DeleteGroupAsPlatformAdmin
  <2> DEFINE r == [u \in User |-> "none"]
  <2>1. /\ r \in [User -> Roles] /\ ChangeRoles(r) /\ role' = r /\ alive' = FALSE /\ code' = FALSE
        /\ status' = [i \in Invite |-> "none"]
        /\ UNCHANGED <<public, made, target, inviter, stage, by, on, held, which, added>>
        /\ \A c \in Accepting : stage[c] # "taken"
    BY <1>2 DEF DeleteGroupAsPlatformAdmin, ChangeRoles, calls, Roles
  <2>2. Readings' /\ raced' \subseteq Call /\ role' \in [User -> Roles]
    <3>1. stage' \in [Call -> Stages]
      BY <2>1 DEF Inv, TypeOK
    <3> QED
      BY <2>1, <3>1, RolesChange
  <2>3. TypeOK'
    BY <2>1, <2>2 DEF Inv, TypeOK
  <2>4. Membered' /\ InvitedIn' /\ Takings' /\ TakenOnce'
    BY <2>1 DEF Membered, OneOwner, InvitedIn, Takings, TakenOnce
  <2> QED
    BY <2>2, <2>3, <2>4 DEF Inv
<1>3. ASSUME NEW i \in Invite, DeclineInvite(i) PROVE Inv'
  <2>1. /\ status[i] = "pending" /\ ~Held(i) /\ status' = [status EXCEPT ![i] = "declined"]
        /\ UNCHANGED <<public, made, alive, code, role, target, inviter, stage, by,
                       on, held, which, raced, added>>
    BY <1>3 DEF DeclineInvite, rows, calls
  <2>2. TypeOK'
    BY <2>1 DEF Inv, TypeOK
  <2>3. Membered' /\ Readings' /\ TakenOnce'
    BY <2>1 DEF Inv, TypeOK, Membered, OneOwner, Readings, Open, TakenOnce
  <2>4. \A j \in Invite : status[j] = "accepted" => status'[j] = "accepted"
    BY <2>1 DEF Inv, TypeOK
  <2>5. InvitedIn'
    BY <2>1, <2>4 DEF Inv, InvitedIn
  <2>6. Takings'
    BY <2>1 DEF Inv, TypeOK, Takings, Held
  <2> QED
    BY <2>2, <2>3, <2>5, <2>6 DEF Inv
<1> QED
  BY <1>1, <1>2, <1>3

\* The steps that only read, or fail.
LEMMA ReadInv ==
  ASSUME Inv, NEW c \in Call,
         \/ CanInviteToGroup(c) /\ c \notin Accepting
         \/ ReadActorRole(c) /\ c \notin Accepting
         \/ ReadTargetRole(c) /\ c \notin Accepting
         \/ CallFails(c)
  PROVE  Inv'
<1> USE MembershipAssumption
<1>1. /\ UNCHANGED <<public, made, alive, code, role, status, target, inviter, which, raced, added>>
      /\ \A d \in Call \ {c} : stage'[d] = stage[d] /\ by'[d] = by[d] /\ on'[d] = on[d] /\ held'[d] = held[d]
  BY DEF CanInviteToGroup, ReadActorRole, ReadTargetRole, CallFails, Goto, rows, invites, Inv, TypeOK
<1>2. TypeOK'
  <2>1. CASE CanInviteToGroup(c)
    BY <1>1, <2>1 DEF Inv, TypeOK, CanInviteToGroup, Goto, Stages
  <2>2. CASE ReadActorRole(c)
    BY <1>1, <2>2 DEF Inv, TypeOK, ReadActorRole, Goto, Stages
  <2>3. CASE ReadTargetRole(c) \/ CallFails(c)
    BY <1>1, <2>3 DEF Inv, TypeOK, ReadTargetRole, CallFails, Goto, Stages
  <2> QED
    BY <2>1, <2>2, <2>3
<1>3. c \in Accepting => stage'[c] # "taken"
  BY DEF CallFails, Goto, Inv, TypeOK
<1>4. Takings' /\ TakenOnce'
  BY <1>1, <1>3 DEF Inv, Takings, TakenOnce, Call
<1>5. Membered' /\ InvitedIn'
  BY <1>1 DEF Inv, Membered, OneOwner, InvitedIn
<1>6. /\ Open(c)' => by'[c] \in User /\ on'[c] \in User
      /\ stage'[c] = "vetted" => c \in raced \/ Strong(role[by'[c]])
      /\ stage'[c] = "half" => c \in raced \/ role[by'[c]] = held'[c]
      /\ stage'[c] = "cleared" /\ by'[c] # on'[c] => c \in raced \/ Outranks(role[by'[c]], role[on'[c]])
  <2>1. CASE CanInviteToGroup(c)
    BY <2>1 DEF CanInviteToGroup, Goto, Open, Inv, TypeOK
  <2>2. CASE ReadActorRole(c)
    BY <2>2 DEF ReadActorRole, Goto, Open, Inv, TypeOK
  <2>3. CASE ReadTargetRole(c)
    BY <2>3 DEF ReadTargetRole, Goto, Open, Inv, TypeOK, Readings
  <2>4. CASE CallFails(c)
    BY <2>4 DEF CallFails, Goto, Open, Inv, TypeOK
  <2> QED
    BY <2>1, <2>2, <2>3, <2>4
<1>7. Readings'
  BY <1>1, <1>6 DEF Inv, Readings, Open
<1> QED
  BY <1>2, <1>4, <1>5, <1>7 DEF Inv

\* An invitation is made, or one is pending already.
LEMMA CreateInv == ASSUME Inv, NEW c \in Inviting, CreateInviteRequest(c) PROVE Inv'
<1> USE MembershipAssumption
<1>1. /\ UNCHANGED <<public, made, alive, code, role, by, on, held, which, raced, added>> /\ alive
      /\ stage[c] = "vetted" /\ stage' = [stage EXCEPT ![c] = "done"] /\ c \in Call
  BY DEF CreateInviteRequest, Goto, rows, Call
<1>2. by[c] \in User /\ on[c] \in User
  BY <1>1 DEF Inv, Readings, Open
<1>3. TypeOK'
  BY <1>1, <1>2 DEF CreateInviteRequest, invites, Inv, TypeOK, Stages
<1>4. \A j \in Invite : status[j] # "none" => status'[j] = status[j] /\ target'[j] = target[j]
  BY DEF CreateInviteRequest, invites, Inv, TypeOK
<1>5. \A d \in Call : stage'[d] = stage[d] \/ (d = c /\ stage'[d] = "done")
  BY <1>1 DEF Inv, TypeOK
<1>6. Readings'
  BY <1>1, <1>5 DEF Inv, Readings, Open
<1>7. Takings' /\ TakenOnce'
  BY <1>1, <1>4, <1>5 DEF Inv, Takings, TakenOnce, Call
<1>8. Membered' /\ InvitedIn'
  BY <1>1, <1>4 DEF Inv, Membered, OneOwner, InvitedIn
<1> QED
  BY <1>3, <1>6, <1>7, <1>8 DEF Inv

\* An accept takes a pending invitation of a group that exists.
LEMMA TakeInv == ASSUME Inv, NEW c \in Accepting, AcceptInvite(c) PROVE Inv'
<1> USE MembershipAssumption
<1>1. /\ UNCHANGED <<public, made, alive, code, role, status, target, inviter, raced, added>>
      /\ stage[c] = "idle" /\ c \in Call
  BY DEF AcceptInvite, rows, invites, Call
<1>2. PICK i \in Invite, u \in User :
        /\ status[i] = "pending" /\ target[i] = u /\ ~Held(i)
        /\ by' = [by EXCEPT ![c] = u] /\ on' = [on EXCEPT ![c] = u]
        /\ held' = [held EXCEPT ![c] = role[u]]
        /\ which' = [which EXCEPT ![c] = i]
        /\ IF Duplicate(i, "accepted") THEN Goto(c, "conflict") ELSE Goto(c, "taken")
  BY DEF AcceptInvite
<1>3. PICK s \in {"conflict", "taken"} : stage' = [stage EXCEPT ![c] = s]
  BY <1>2 DEF Goto
<1>4. TypeOK'
  BY <1>1, <1>2, <1>3 DEF Inv, TypeOK, Stages
<1>5. alive /\ (role[u] = "none" => u # Owner)
  BY <1>2 DEF Inv, Membered, OneOwner
<1>6. /\ stage'[c] = s /\ on'[c] = u /\ held'[c] = role[u] /\ which'[c] = i
      /\ \A d \in Call \ {c} : /\ stage'[d] = stage[d] /\ by'[d] = by[d] /\ on'[d] = on[d]
                               /\ held'[d] = held[d] /\ which'[d] = which[d]
  BY <1>1, <1>2, <1>3 DEF Inv, TypeOK
<1>7. Readings'
  BY <1>1, <1>6 DEF Inv, Readings, Open
<1>8. Takings'
  BY <1>1, <1>2, <1>5, <1>6 DEF Inv, Takings, Call
<1>9. TakenOnce'
  BY <1>2, <1>6 DEF Inv, TakenOnce, Held, Call
<1>10. Membered' /\ InvitedIn'
  BY <1>1 DEF Inv, Membered, OneOwner, InvitedIn
<1> QED
  BY <1>4, <1>7, <1>8, <1>9, <1>10 DEF Inv

\* Its commit: the invitation is accepted, its target a member.
LEMMA CommitInv == ASSUME Inv, NEW c \in Accepting, CommitAccept(c) PROVE Inv'
<1> USE MembershipAssumption
<1>1. /\ UNCHANGED <<public, made, alive, code, target, inviter, by, on, held, which, added>>
      /\ stage[c] = "taken" /\ stage' = [stage EXCEPT ![c] = "done"] /\ c \in Call
      /\ status' = [status EXCEPT ![which[c]] = "accepted"]
  BY DEF CommitAccept, Goto, Call
<1>2. PICK u \in User, i \in Invite :
        /\ u = on[c] /\ i = which[c] /\ alive /\ status[i] = "pending" /\ target[i] = u
        /\ held[c] = "none" => u # Owner
  BY <1>1 DEF Inv, Takings
<1>3. PICK r \in [User -> Roles] :
        /\ role' = r /\ \A w \in User : r[w] = role[w] \/ (w = u /\ w # Owner /\ r[w] = "member")
        /\ ChangeRoles(r) \/ UNCHANGED <<role, raced>>
  <2>1. CASE held[c] = "none"
    <3> DEFINE r0 == [role EXCEPT ![u] = "member"]
    <3>1. ChangeRoles(r0) /\ role' = r0
      BY <1>2, <2>1 DEF CommitAccept, ChangeRoles
    <3>2. r0 \in [User -> Roles] /\ \A w \in User : r0[w] = role[w] \/ (w = u /\ r0[w] = "member")
      BY DEF Inv, TypeOK, Roles
    <3> QED
      BY <1>2, <2>1, <3>1, <3>2
  <2>2. CASE held[c] # "none"
    BY <1>2, <2>2 DEF CommitAccept, Inv, TypeOK
  <2> QED
    BY <2>1, <2>2
<1>4. /\ stage' \in [Call -> Stages] /\ stage'[c] = "done"
      /\ \A d \in Call \ {c} : stage'[d] = stage[d]
  BY <1>1 DEF Inv, TypeOK, Stages
<1>5. Readings' /\ raced' \subseteq Call
  <2>1. CASE ChangeRoles(r)
    BY <1>1, <1>4, <2>1, RolesChange
  <2>2. CASE UNCHANGED <<role, raced>>
    BY <1>1, <1>4, <2>2 DEF Inv, TypeOK, Readings, Open
  <2> QED
    BY <1>3, <2>1, <2>2
<1>6. TypeOK'
  BY <1>1, <1>2, <1>3, <1>4, <1>5 DEF Inv, TypeOK
<1>7. status'[i] = "accepted" /\ \A j \in Invite \ {i} : status'[j] = status[j]
  BY <1>1, <1>2 DEF Inv, TypeOK
<1>8. Membered'
  BY <1>1, <1>2, <1>3 DEF Inv, Membered, OneOwner
<1>9. InvitedIn'
  BY <1>1, <1>2, <1>3, <1>7 DEF Inv, InvitedIn
<1>10. Takings' /\ TakenOnce'
  BY <1>1, <1>2, <1>4, <1>7 DEF Inv, Takings, TakenOnce, Call
<1> QED
  BY <1>5, <1>6, <1>8, <1>9, <1>10 DEF Inv

\* The steps of one user that run no call.
LEMMA MemberInv == ASSUME Inv, NEW u \in User, MemberStep(u) PROVE Inv'
<1> USE MembershipAssumption
<1>1. stage \in [Call -> Stages] /\ added \subseteq User
  BY DEF Inv, TypeOK
<1>2. CASE JoinPublicGroup(u)
  BY <1>1, <1>2, EnrollInv DEF JoinPublicGroup, invites, calls
<1>3. CASE JoinByInviteCode(u)
  BY <1>1, <1>3, EnrollInv DEF JoinByInviteCode, invites, calls
<1>4. CASE EnsureGroupInviteCode(u)
  BY <1>4, GroupInv
<1>5. CASE LeaveGroup(u)
  BY <1>1, <1>5, RoleInv DEF LeaveGroup, invites, calls
<1>6. ASSUME NEW r \in {"admin", "member"}, SetMemberRole(u, r) PROVE Inv'
  BY <1>1, <1>6, RoleInv DEF SetMemberRole, invites, calls
<1> QED
  BY <1>2, <1>3, <1>4, <1>5, <1>6 DEF MemberStep

\* A direct addition changes nothing for somebody who is a member.
LEMMA AddInv == ASSUME Inv, NEW c \in Adding, InviteUserByID(c) PROVE Inv'
<1> USE MembershipAssumption
<1>1. /\ UNCHANGED <<status, target, inviter, by, on, held, which>>
      /\ stage[c] = "vetted" /\ stage' = [stage EXCEPT ![c] = "done"]
      /\ c \in Call /\ c \notin Accepting /\ on[c] \in User
  BY DEF InviteUserByID, Goto, invites, Inv, Readings, Open, Call
<1>2. stage' \in [Call -> Stages] /\ \A d \in Call : stage'[d] = stage[d] \/ (d = c /\ stage'[d] = "done")
  BY <1>1 DEF Inv, TypeOK, Stages
<1>3. CASE role[on[c]] = "none"
  <2>1. Enroll(on[c]) /\ added' = added \cup {on[c]} /\ UNCHANGED <<public, made, alive, code>>
    BY <1>3 DEF InviteUserByID
  <2>2. added' \subseteq User
    BY <1>1, <2>1 DEF Inv, TypeOK
  <2> QED
    BY <1>1, <1>2, <2>1, <2>2, EnrollInv
<1>4. CASE role[on[c]] # "none"
  <2>1. UNCHANGED <<public, made, alive, code, role, raced, added>>
    BY <1>4 DEF InviteUserByID, rows
  <2>2. TypeOK' /\ Membered' /\ InvitedIn'
    BY <1>1, <1>2, <2>1 DEF Inv, TypeOK, Membered, OneOwner, InvitedIn
  <2>3. Readings'
    BY <1>1, <1>2, <2>1 DEF Inv, Readings, Open
  <2>4. Takings' /\ TakenOnce'
    BY <1>1, <1>2, <2>1 DEF Inv, Takings, TakenOnce, Call
  <2> QED
    BY <2>2, <2>3, <2>4 DEF Inv
<1> QED
  BY <1>3, <1>4

\* A removal deletes a row that is not the owner's, or nothing.
LEMMA RemoveInv == ASSUME Inv, NEW c \in Removing, RemoveGroupMember(c) PROVE Inv'
<1> USE MembershipAssumption
<1>1. /\ UNCHANGED <<public, made, alive, code, status, target, inviter, by, on, held, which, added>>
      /\ stage[c] = "cleared" /\ c \in Call /\ c \notin Accepting /\ on[c] \in User
  BY DEF RemoveGroupMember, invites, Inv, Readings, Open, Call
<1>2. stage' \in [Call -> Stages]
      /\ \A d \in Call : stage'[d] = stage[d] \/ (d = c /\ stage'[d] \in {"done", "refused"})
  BY <1>1 DEF RemoveGroupMember, Goto, Inv, TypeOK, Stages
<1>3. CASE role[on[c]] \notin {"none", "owner"}
  <2>1. ChangeRoles([role EXCEPT ![on[c]] = "none"])
    BY <1>3 DEF RemoveGroupMember
  <2> QED
    BY <1>1, <1>2, <1>3, <2>1, RoleInv
<1>4. CASE role[on[c]] \in {"none", "owner"}
  <2>1. UNCHANGED <<role, raced>>
    BY <1>4 DEF RemoveGroupMember
  <2>2. TypeOK' /\ Membered' /\ InvitedIn'
    BY <1>1, <1>2, <2>1 DEF Inv, TypeOK, Membered, OneOwner, InvitedIn
  <2>3. Readings'
    BY <1>1, <1>2, <2>1 DEF Inv, Readings, Open
  <2>4. Takings' /\ TakenOnce'
    BY <1>1, <1>2, <2>1 DEF Inv, Takings, TakenOnce, Call
  <2> QED
    BY <2>2, <2>3, <2>4 DEF Inv
<1> QED
  BY <1>3, <1>4

\* Every step preserves the invariant.
LEMMA StepInv == Inv /\ [Next]_vars => Inv'
<1> SUFFICES ASSUME Inv, [Next]_vars PROVE Inv'
  OBVIOUS
<1> USE MembershipAssumption
<1>1. ASSUME NEW u \in User, MemberStep(u) PROVE Inv'
  BY <1>1, MemberInv
<1>2. CASE DeleteGroupAsPlatformAdmin \/ \E i \in Invite : DeclineInvite(i)
  BY <1>2, GroupInv
<1>3. ASSUME NEW c \in Inviting, CanInviteToGroup(c) \/ CreateInviteRequest(c) PROVE Inv'
  BY <1>3, ReadInv, CreateInv DEF Call
<1>4. ASSUME NEW c \in Adding, CanInviteToGroup(c) \/ InviteUserByID(c) PROVE Inv'
  BY <1>4, ReadInv, AddInv DEF Call
<1>5. ASSUME NEW c \in Accepting, AcceptInvite(c) \/ CommitAccept(c) PROVE Inv'
  BY <1>5, TakeInv, CommitInv
<1>6. ASSUME NEW c \in Removing, ReadActorRole(c) \/ ReadTargetRole(c) \/ RemoveGroupMember(c)
      PROVE  Inv'
  BY <1>6, ReadInv, RemoveInv DEF Call
<1>7. ASSUME NEW c \in Call, CallFails(c) PROVE Inv'
  BY <1>7, ReadInv
<1>8. CASE UNCHANGED vars
  BY <1>8 DEF vars, rows, invites, calls, Inv, TypeOK, Membered, OneOwner, Readings, Open,
              Takings, TakenOnce, InvitedIn
<1> QED
  BY <1>1, <1>2, <1>3, <1>4, <1>5, <1>6, <1>7, <1>8 DEF Next

\* The invariant holds in every reachable state.
LEMMA Inductive == Spec => []Inv
<1> QED
  BY InitInv, StepInv, PTL DEF Spec

\* Rows and calls keep their types (migrations/0001_init.sql:12-29).
THEOREM TypeCorrect == Spec => []TypeOK
<1>1. Inv => TypeOK
  BY DEF Inv
<1> QED
  BY <1>1, Inductive, PTL

\* A group has its owner and no other (repository_members.go:51-103).
THEOREM OwnerKept == Spec => []OneOwner
<1>1. Inv => OneOwner
  BY DEF Inv, Membered
<1> QED
  BY <1>1, Inductive, PTL

\* Nobody is in a private group without a code who was not let in
\* (repository.go:261-333, repository_invites.go:69-85).
THEOREM EntryByInvitation == Spec => []InvitedIn
<1>1. Inv => InvitedIn
  BY DEF Inv
<1> QED
  BY <1>1, Inductive, PTL

\* An invitation is answered once (repository_invites.go:69-100).
THEOREM AnsweredOnce == Spec => AnswerFinal
<1> DEFINE Kept == alive' => \A i \in Invite : status[i] \in {"accepted", "declined"} => status'[i] = status[i]
<1>1. Inv /\ [Next]_vars => [Kept]_vars
  <2> SUFFICES ASSUME Inv, Next, alive', NEW i \in Invite, status[i] \in {"accepted", "declined"}
               PROVE  status'[i] = status[i]
    OBVIOUS
  <2> USE MembershipAssumption
  <2>1. ASSUME NEW c \in Inviting, CreateInviteRequest(c) PROVE status'[i] = status[i]
    BY <2>1 DEF CreateInviteRequest, invites, Inv, TypeOK
  <2>2. ASSUME NEW c \in Accepting, CommitAccept(c) PROVE status'[i] = status[i]
    BY <2>2 DEF CommitAccept, Inv, TypeOK, Takings
  <2>3. ASSUME NEW j \in Invite, DeclineInvite(j) PROVE status'[i] = status[i]
    BY <2>3 DEF DeclineInvite, Inv, TypeOK
  <2>4. CASE UNCHANGED status
    BY <2>4
  <2>5. ASSUME NEW u \in User, MemberStep(u) PROVE UNCHANGED status
    BY <2>5 DEF MemberStep, JoinPublicGroup, JoinByInviteCode, EnsureGroupInviteCode, LeaveGroup,
                SetMemberRole, invites
  <2>6. ASSUME NEW c \in Call,
               \/ CanInviteToGroup(c) \/ InviteUserByID(c) \/ AcceptInvite(c) \/ ReadActorRole(c)
               \/ ReadTargetRole(c) \/ RemoveGroupMember(c) \/ CallFails(c)
        PROVE  UNCHANGED status
    BY <2>6 DEF CanInviteToGroup, InviteUserByID, AcceptInvite, ReadActorRole, ReadTargetRole,
                RemoveGroupMember, CallFails, invites
  <2>7. ~DeleteGroupAsPlatformAdmin
    BY DEF DeleteGroupAsPlatformAdmin
  <2> QED
    BY <2>1, <2>2, <2>3, <2>4, <2>5, <2>6, <2>7 DEF Next, Call
<1> QED
  BY <1>1, Inductive, PTL DEF Spec, AnswerFinal

\* A removal keeps to the order of roles, unless a role changed while it ran
\* (repository_members.go:78-103).
THEOREM RemovalByRank == Spec => RemovalJustified
<1> DEFINE Just == \A c \in Removing : Acts(c, "cleared") /\ by[c] # on[c] =>
                     c \in raced \/ Outranks(role[by[c]], role[on[c]])
<1>1. Inv => Just
  BY DEF Inv, Readings, Acts, Call
<1>2. Inv /\ [Next]_vars => [Just]_vars
  BY <1>1
<1> QED
  BY <1>2, Inductive, PTL DEF Spec, RemovalJustified

\* Who invites or adds is the owner or an admin, unless a role changed meanwhile
\* (repository_invites.go:102-114, repository.go:317-333).
THEOREM InviteByRank == Spec => InviteJustified
<1> DEFINE Just == \A c \in Inviting \cup Adding : Acts(c, "vetted") => c \in raced \/ Strong(role[by[c]])
<1>1. Inv => Just
  BY DEF Inv, Readings, Acts, Call
<1>2. Inv /\ [Next]_vars => [Just]_vars
  BY <1>1
<1> QED
  BY <1>2, Inductive, PTL DEF Spec, InviteJustified

----------------------------------------------------------------------------
(* The refinement of GroupRoster.                                          *)

\* Steps that neither write nor answer an invitation, and the steps that do.
LEMMA InvitesChange ==
  ASSUME [Next]_vars
  PROVE  \/ UNCHANGED <<status, target>>
         \/ DeleteGroupAsPlatformAdmin
         \/ \E i \in Invite : DeclineInvite(i)
         \/ \E c \in Inviting : CreateInviteRequest(c)
         \/ \E c \in Accepting : CommitAccept(c)
  BY DEF Next, MemberStep, JoinPublicGroup, JoinByInviteCode, EnsureGroupInviteCode, LeaveGroup,
         SetMemberRole, CanInviteToGroup, InviteUserByID, AcceptInvite, ReadActorRole,
         ReadTargetRole, RemoveGroupMember, CallFails, invites, vars

LEMMA OnePendingStep == ASSUME Inv, OnePending, [Next]_vars PROVE OnePending'
<1>1. TypeOK
  BY DEF Inv
<1>2. CASE UNCHANGED <<status, target>>
  BY <1>2 DEF OnePending
<1>3. CASE DeleteGroupAsPlatformAdmin
  BY <1>3 DEF DeleteGroupAsPlatformAdmin, OnePending
<1>4. ASSUME NEW i \in Invite, NEW s \in {"accepted", "declined"},
             status' = [status EXCEPT ![i] = s], target' = target
      PROVE  OnePending'
  BY <1>1, <1>4 DEF OnePending, TypeOK
<1>5. ASSUME NEW i \in Invite, DeclineInvite(i) PROVE OnePending'
  BY <1>4, <1>5 DEF DeclineInvite
<1>6. ASSUME NEW c \in Accepting, CommitAccept(c) PROVE OnePending'
  BY <1>4, <1>6 DEF CommitAccept, Inv, Takings
<1>7. ASSUME NEW c \in Inviting, CreateInviteRequest(c) PROVE OnePending'
  <2>1. CASE \E i \in Invite : status[i] = "pending" /\ target[i] = on[c]
    BY <1>7, <2>1 DEF CreateInviteRequest, invites, OnePending
  <2>2. CASE ~\E i \in Invite : status[i] = "pending" /\ target[i] = on[c]
    <3>1. PICK i \in Invite : /\ status' = [status EXCEPT ![i] = "pending"]
                              /\ target' = [target EXCEPT ![i] = on[c]]
      BY <1>7, <2>2 DEF CreateInviteRequest
    <3>2. \A j \in Invite : status'[j] = "pending" /\ target'[j] = on[c] => j = i
      BY <1>1, <2>2, <3>1 DEF TypeOK
    <3>3. \A j \in Invite \ {i} : status'[j] = status[j] /\ target'[j] = target[j]
      BY <1>1, <3>1 DEF TypeOK
    <3>4. target'[i] = on[c]
      BY <1>1, <3>1 DEF TypeOK
    <3> QED
      BY <3>2, <3>3, <3>4 DEF OnePending
  <2> QED
    BY <2>1, <2>2
<1> QED
  BY <1>2, <1>3, <1>5, <1>6, <1>7, InvitesChange

\* Who holds an invitation holds the only one its target has to answer.
LEMMA OneTaker ==
  ASSUME Inv, OnePending, NEW c \in Accepting, NEW d \in Accepting,
         stage[c] = "taken", stage[d] = "taken", on[c] = on[d]
  PROVE  c = d
  BY DEF Inv, OnePending, Takings, TakenOnce

LEMMA StillOutStep == ASSUME Inv, OnePending, StillOut, [Next]_vars PROVE StillOut'
<1> USE MembershipAssumption
<1>1. TypeOK /\ Takings /\ Accepting \subseteq Call
  BY DEF Inv, Call
<1>2. ASSUME UNCHANGED <<role, on, held>>,
             \A c \in Accepting : stage'[c] = "taken" => stage[c] = "taken"
      PROVE  StillOut'
  BY <1>2 DEF StillOut
<1>3. ASSUME NEW u \in User, Enroll(u), UNCHANGED <<on, held>>,
             \A c \in Accepting : stage'[c] = stage[c]
      PROVE  StillOut'
  BY <1>1, <1>3 DEF Enroll, ChangeRoles, Entering, StillOut, TypeOK
<1>4. ASSUME NEW u \in User, MemberStep(u) PROVE StillOut'
  <2>1. CASE JoinPublicGroup(u) \/ JoinByInviteCode(u)
    BY <1>3, <2>1 DEF JoinPublicGroup, JoinByInviteCode, calls
  <2>2. CASE EnsureGroupInviteCode(u)
    BY <1>2, <2>2 DEF EnsureGroupInviteCode, calls
  <2>3. CASE LeaveGroup(u) \/ \E r \in {"admin", "member"} : SetMemberRole(u, r)
    <3>1. PICK r \in Roles : role' = [role EXCEPT ![u] = r] /\ role[u] # "none"
      BY <2>3 DEF LeaveGroup, SetMemberRole, ChangeRoles, Roles
    <3>2. UNCHANGED <<stage, on, held>>
      BY <2>3 DEF LeaveGroup, SetMemberRole, calls
    <3> QED
      BY <1>1, <3>1, <3>2 DEF StillOut, TypeOK
  <2> QED
    BY <1>4, <2>1, <2>2, <2>3 DEF MemberStep
<1>5. CASE DeleteGroupAsPlatformAdmin
  BY <1>1, <1>5 DEF DeleteGroupAsPlatformAdmin, ChangeRoles, calls, StillOut
<1>6. CASE \E i \in Invite : DeclineInvite(i)
  BY <1>2, <1>6 DEF DeclineInvite, rows, calls
<1>7. ASSUME NEW c \in Inviting \cup Adding \cup Removing,
             \/ CanInviteToGroup(c) \/ CreateInviteRequest(c)
             \/ ReadActorRole(c) \/ ReadTargetRole(c)
      PROVE  StillOut'
  <2>1. c \in Call /\ c \notin Accepting
    BY <1>7 DEF Call
  <2>2. role' = role /\ \A d \in Accepting :
          stage'[d] = stage[d] /\ on'[d] = on[d] /\ held'[d] = held[d]
    BY <1>1, <1>7, <2>1
       DEF CanInviteToGroup, CreateInviteRequest, ReadActorRole, ReadTargetRole, Goto, rows, TypeOK
  <2> QED
    BY <2>2 DEF StillOut
<1>8. ASSUME NEW c \in Adding, InviteUserByID(c) PROVE StillOut'
  <2>1. c \in Call /\ \A d \in Accepting : stage'[d] = stage[d]
    BY <1>1, <1>8 DEF InviteUserByID, Goto, TypeOK, Call
  <2>2. on[c] \in User
    BY <1>8, <2>1 DEF InviteUserByID, Inv, Readings, Open
  <2> QED
    BY <1>2, <1>3, <1>8, <2>1, <2>2 DEF InviteUserByID, rows
<1>9. ASSUME NEW c \in Accepting, AcceptInvite(c) PROVE StillOut'
  <2>1. PICK u \in User, s \in Stages :
          /\ on' = [on EXCEPT ![c] = u] /\ held' = [held EXCEPT ![c] = role[u]]
          /\ stage' = [stage EXCEPT ![c] = s]
    BY <1>9 DEF AcceptInvite, Goto, Stages
  <2>2. role' = role
    BY <1>9 DEF AcceptInvite, rows
  <2> QED
    BY <1>1, <2>1, <2>2 DEF StillOut, TypeOK
<1>10. ASSUME NEW c \in Accepting, CommitAccept(c) PROVE StillOut'
  <2>1. /\ stage[c] = "taken" /\ stage' = [stage EXCEPT ![c] = "done"] /\ UNCHANGED <<on, held>>
        /\ \/ role' = [role EXCEPT ![on[c]] = "member"]
           \/ role' = role
    BY <1>10 DEF CommitAccept, Goto, ChangeRoles
  <2>2. ASSUME NEW d \in Accepting, stage'[d] = "taken" PROVE stage[d] = "taken" /\ on[d] # on[c]
    BY <1>1, <2>1, <2>2, OneTaker DEF TypeOK
  <2>3. on[c] \in User /\ \A d \in Accepting : stage[d] = "taken" => on[d] \in User
    BY <1>1, <2>1 DEF Takings
  <2> QED
    BY <1>1, <2>1, <2>2, <2>3 DEF StillOut, TypeOK
<1>11. ASSUME NEW c \in Removing, RemoveGroupMember(c) PROVE StillOut'
  <2>1. c \in Call /\ c \notin Accepting
    BY <1>11 DEF Call
  <2>2. UNCHANGED <<on, held>> /\ \A d \in Accepting : stage'[d] = stage[d]
    BY <1>1, <1>11, <2>1 DEF RemoveGroupMember, Goto, TypeOK
  <2>3. role' = role \/ role' = [role EXCEPT ![on[c]] = "none"]
    BY <1>11 DEF RemoveGroupMember, ChangeRoles
  <2>4. \A d \in Accepting : stage[d] = "taken" => on[d] \in User
    BY <1>1 DEF Takings
  <2> QED
    BY <1>1, <2>2, <2>3, <2>4 DEF StillOut, TypeOK
<1>12. CASE \E c \in Call : CallFails(c)
  BY <1>1, <1>2, <1>12 DEF CallFails, Goto, rows, TypeOK
<1>13. CASE UNCHANGED vars
  BY <1>2, <1>13 DEF vars, rows, calls
<1>14. ASSUME NEW c \in Call,
              \/ c \in Inviting /\ (CanInviteToGroup(c) \/ CreateInviteRequest(c))
              \/ c \in Adding /\ (CanInviteToGroup(c) \/ InviteUserByID(c))
              \/ c \in Accepting /\ (AcceptInvite(c) \/ CommitAccept(c))
              \/ c \in Removing /\ (ReadActorRole(c) \/ ReadTargetRole(c) \/ RemoveGroupMember(c))
       PROVE  StillOut'
  BY <1>7, <1>8, <1>9, <1>10, <1>11, <1>14
<1> QED
  BY <1>4, <1>5, <1>6, <1>12, <1>13, <1>14 DEF Next, Call

LEMMA RosterInductive == Spec => []RosterInv
<1>1. Init => OnePending /\ StillOut
  BY MembershipAssumption DEF Init, OnePending, StillOut, Call
<1>2. Inv /\ OnePending /\ StillOut /\ [Next]_vars => OnePending' /\ StillOut'
  BY OnePendingStep, StillOutStep
<1> QED
  BY <1>1, <1>2, Inductive, PTL DEF Spec, RosterInv

\* What nobody but the steps of the roster changes.
RosterSame == UNCHANGED <<public, code, role, status, target, added>>

LEMMA StutterRoster == ASSUME RosterSame PROVE UNCHANGED Roster!gvars
  BY DEF RosterSame, Roster!gvars

\* A group that exists has its owner.
LEMMA AliveExists == ASSUME Inv, alive PROVE Roster!Exists
  BY MembershipAssumption DEF Inv, Membered, OneOwner, Roster!Exists

LEMMA MemberRoster ==
  ASSUME Inv, NEW u \in User, MemberStep(u) PROVE Roster!Next
<1>1. TypeOK
  BY DEF Inv
<1>2. CASE JoinPublicGroup(u) \/ JoinByInviteCode(u)
  <2>1. alive /\ (public \/ code) /\ role[u] = "none" /\ role' = [role EXCEPT ![u] = "member"]
    BY <1>2 DEF JoinPublicGroup, JoinByInviteCode, Enroll, ChangeRoles
  <2>2. UNCHANGED <<public, code, status, target, added>>
    BY <1>2 DEF JoinPublicGroup, JoinByInviteCode, invites
  <2>3. Roster!ComeIn(u)
    BY <2>1, <2>2, AliveExists DEF Roster!ComeIn, Roster!Move
  <2> QED
    BY <2>3 DEF Roster!Next
<1>3. CASE EnsureGroupInviteCode(u)
  <2>1. alive /\ code' = TRUE /\ UNCHANGED <<public, role, status, target, added>>
    BY <1>3 DEF EnsureGroupInviteCode, invites
  <2>2. Roster!OpenDoor
    BY <2>1, AliveExists DEF Roster!OpenDoor
  <2> QED
    BY <2>2 DEF Roster!Next
<1>4. CASE LeaveGroup(u)
  <2>1. /\ role[u] \in {"admin", "member"} /\ role' = [role EXCEPT ![u] = "none"]
        /\ UNCHANGED <<public, code, status, target, added>>
    BY <1>1, <1>4 DEF LeaveGroup, ChangeRoles, invites, TypeOK, Roles
  <2>2. Roster!Depart(u)
    BY <2>1 DEF Roster!Depart, Roster!Move
  <2> QED
    BY <2>2 DEF Roster!Next
<1>5. ASSUME NEW r \in {"admin", "member"}, SetMemberRole(u, r) PROVE Roster!Next
  <2>1. /\ alive /\ role[u] \in {"admin", "member"} /\ role' = [role EXCEPT ![u] = r]
        /\ UNCHANGED <<public, code, status, target, added>>
    BY <1>1, <1>5 DEF SetMemberRole, ChangeRoles, invites, TypeOK, Roles
  <2>2. Roster!Appoint(u, r)
    BY <2>1, AliveExists DEF Roster!Appoint, Roster!Move
  <2> QED
    BY <2>2 DEF Roster!Next
<1> QED
  BY <1>2, <1>3, <1>4, <1>5 DEF MemberStep

\* The invitations: written at the commit of the call that found none, answered
\* at the commit of the accept or by the one statement of the refusal.
LEMMA InviteRoster ==
  ASSUME Inv, NEW c \in Inviting, CreateInviteRequest(c)
  PROVE  Roster!Next \/ UNCHANGED Roster!gvars
<1>1. /\ alive /\ stage[c] = "vetted" /\ UNCHANGED <<public, code, role, added>>
      /\ on[c] \in User
  BY DEF CreateInviteRequest, rows, Inv, Readings, Open, Call
<1>2. CASE \E i \in Invite : status[i] = "pending" /\ target[i] = on[c]
  BY <1>1, <1>2, StutterRoster DEF CreateInviteRequest, invites, RosterSame
<1>3. CASE ~\E i \in Invite : status[i] = "pending" /\ target[i] = on[c]
  <2>1. PICK p \in User : on[c] = p
    BY <1>1
  <2>2. PICK i \in Invite : /\ status[i] = "none"
                            /\ status' = [status EXCEPT ![i] = "pending"]
                            /\ target' = [target EXCEPT ![i] = p]
    BY <1>3, <2>1 DEF CreateInviteRequest
  <2>3. Roster!Write(i, p)
    BY <1>1, <1>3, <2>1, <2>2, AliveExists DEF Roster!Write
  <2> QED
    BY <2>3 DEF Roster!Next
<1> QED
  BY <1>2, <1>3

LEMMA AcceptRoster ==
  ASSUME RosterInv, NEW c \in Accepting, CommitAccept(c) PROVE Roster!Next
<1>1. Inv /\ StillOut
  BY DEF RosterInv
<1>2. PICK i \in Invite : which[c] = i
  BY <1>1 DEF CommitAccept, Inv, Takings
<1>3. /\ alive /\ status[i] = "pending" /\ target[i] = on[c]
      /\ status' = [status EXCEPT ![i] = "accepted"]
      /\ UNCHANGED <<public, code, target, added>>
  BY <1>1, <1>2 DEF CommitAccept, Inv, Takings
<1>4. \/ role[on[c]] = "none" /\ role' = [role EXCEPT ![on[c]] = "member"]
      \/ UNCHANGED role
  BY <1>1 DEF CommitAccept, ChangeRoles, StillOut
<1>5. Roster!Accept(i)
  BY <1>1, <1>3, <1>4, AliveExists DEF Roster!Accept, Roster!Decide, Roster!Move
<1> QED
  BY <1>5 DEF Roster!Next

LEMMA DeclineRoster ==
  ASSUME NEW i \in Invite, DeclineInvite(i) PROVE Roster!Next
<1>1. Roster!Decline(i)
  BY DEF DeclineInvite, rows, Roster!Decline, Roster!Decide
<1> QED
  BY <1>1 DEF Roster!Next

LEMMA DissolveRoster == ASSUME Inv, DeleteGroupAsPlatformAdmin PROVE Roster!Next
<1>1. Roster!Dissolve
  BY AliveExists DEF DeleteGroupAsPlatformAdmin, ChangeRoles, Roster!Dissolve, Inv, TypeOK
<1> QED
  BY <1>1 DEF Roster!Next

\* The two calls of the service that write a role after they have read others.
LEMMA AddRoster ==
  ASSUME Inv, NEW c \in Adding, InviteUserByID(c)
  PROVE  Roster!Next \/ UNCHANGED Roster!gvars
<1>1. PICK u \in User : on[c] = u
  BY DEF InviteUserByID, Inv, Readings, Open, Call
<1>2. UNCHANGED <<public, code, status, target>>
  BY DEF InviteUserByID, rows, invites
<1>3. CASE role[u] # "none"
  BY <1>1, <1>2, <1>3, StutterRoster DEF InviteUserByID, rows, RosterSame
<1>4. CASE role[u] = "none"
  <2>1. alive /\ role' = [role EXCEPT ![u] = "member"] /\ added' = added \cup {u}
    BY <1>1, <1>4 DEF InviteUserByID, Enroll, ChangeRoles
  <2>2. Roster!Vouch(u)
    BY <1>2, <1>4, <2>1, AliveExists DEF Roster!Vouch, Roster!Move
  <2> QED
    BY <2>2 DEF Roster!Next
<1> QED
  BY <1>3, <1>4

LEMMA RemoveRoster ==
  ASSUME Inv, NEW c \in Removing, RemoveGroupMember(c)
  PROVE  Roster!Next \/ UNCHANGED Roster!gvars
<1>1. PICK u \in User : on[c] = u
  BY DEF RemoveGroupMember, Inv, Readings, Open, Call
<1>2. UNCHANGED <<public, code, status, target, added>>
  BY DEF RemoveGroupMember, invites
<1>3. CASE role[u] \in {"none", "owner"}
  BY <1>1, <1>2, <1>3, StutterRoster DEF RemoveGroupMember, RosterSame
<1>4. CASE role[u] \notin {"none", "owner"}
  <2>1. role[u] \in {"admin", "member"} /\ role' = [role EXCEPT ![u] = "none"]
    BY <1>1, <1>4 DEF RemoveGroupMember, ChangeRoles, Inv, TypeOK, Roles
  <2>2. Roster!Depart(u)
    BY <1>2, <2>1 DEF Roster!Depart, Roster!Move
  <2> QED
    BY <2>2 DEF Roster!Next
<1> QED
  BY <1>3, <1>4

LEMMA StepRoster == ASSUME RosterInv, [Next]_vars PROVE [Roster!Next]_(Roster!gvars)
<1>1. Inv
  BY DEF RosterInv
<1>2. ASSUME NEW c \in Call,
             \/ CanInviteToGroup(c) \/ AcceptInvite(c) \/ ReadActorRole(c) \/ ReadTargetRole(c)
             \/ CallFails(c)
      PROVE  UNCHANGED Roster!gvars
  BY <1>2, StutterRoster
     DEF CanInviteToGroup, AcceptInvite, ReadActorRole, ReadTargetRole, CallFails, rows, invites,
         RosterSame
<1>3. CASE UNCHANGED vars
  BY <1>3, StutterRoster DEF vars, rows, invites, RosterSame
<1>4. ASSUME NEW c \in Call,
             \/ c \in Inviting /\ CreateInviteRequest(c)
             \/ c \in Adding /\ InviteUserByID(c)
             \/ c \in Accepting /\ CommitAccept(c)
             \/ c \in Removing /\ RemoveGroupMember(c)
      PROVE  [Roster!Next]_(Roster!gvars)
  BY <1>1, <1>4, InviteRoster, AddRoster, AcceptRoster, RemoveRoster
<1> QED
  BY <1>1, <1>2, <1>3, <1>4, MemberRoster, DeclineRoster, DissolveRoster DEF Next, Call

\* Calls that read and write in separate statements implement a roster in which
\* everything happens at once (AcceptInviteRequest, CreateInviteRequest,
\* RemoveGroupMember, DeclineInviteRequest).
THEOREM RosterIsKept == Spec => RosterKept
<1>1. Init => Roster!Init
  BY DEF Init, Roster!Init
<1>2. RosterInv /\ [Next]_vars => [Roster!Next]_(Roster!gvars)
  BY StepRoster
<1> QED
  BY <1>1, <1>2, RosterInductive, PTL DEF Spec, RosterKept, Roster!Spec
=============================================================================
