----------------------------- MODULE Moderation -----------------------------
(***************************************************************************)
(* Content moderation of what one author posts to one group: new messages  *)
(* or requests, and edits of a message                                     *)
(* (internal/service/content_moderation.go, service_core.go,               *)
(* messages_mutation.go, public_requests_service.go and                    *)
(* internal/storage/content_moderation.go, group_comment_mutes.go).        *)
(*                                                                         *)
(* Grain.  The reads a request makes outside a transaction are steps of    *)
(* their own.  A transaction that counts rejected items is two steps, its  *)
(* last read and its commit: PostgreSQL runs it READ COMMITTED, so it does *)
(* not see what others commit in between.  The statements before the read  *)
(* take row locks, kept to the commit: the item's, the reviewer's role's,  *)
(* the removed resource's, and the author's membership once a mute is due. *)
(* A rolled back transaction leaves nothing behind.                        *)
(*                                                                         *)
(* The author is not the owner, who is never muted automatically, and does *)
(* not join again.  What a moderator says of a text is any verdict.        *)
(***************************************************************************)
EXTENDS Naturals, FiniteSets

CONSTANTS
  Post,         \* posts of the author, each with its moderation item
  Edits,        \* the post an edit changes, None for a post that is new
  Legacy,       \* items queued before items named a published resource
  Moderator,    \* who may review: group role or platform role
  Threshold,    \* moderationRejectThreshold
  None          \* no post

ASSUME ModerationAssumption ==
  /\ IsFiniteSet(Post) /\ None \notin Post
  /\ Edits \in [Post -> Post \cup {None}]
  /\ \A p \in Post : Edits[p] # None => Edits[Edits[p]] = None
  /\ Legacy \subseteq {p \in Post : Edits[p] = None}
  /\ Threshold \in Nat \ {0}

VARIABLES
  stage,        \* of the request that posts p
  item,         \* status of p's item, "none" without one
  linked,       \* items with a published_resource_id
  aged,         \* rejected items that left the 15 minute window
  res,          \* the message or request: "none", "live", "gone"
  member,       \* the author is a member
  mute,         \* the author's row of mutes, which expires by itself:
                \*   "none" (or cleared), "auto", "manual"
  mods,         \* who may review now
  task,         \* the item a moderator's open transaction holds, or None
  ruling,       \* what that transaction decides
  counted       \* the rejected items p's open transaction has counted

review == <<task, ruling>>
vars == <<stage, item, linked, aged, res, member, mute, mods, task, ruling, counted>>

----------------------------------------------------------------------------
\* The resource an item is about.
Target(p) == IF Edits[p] = None THEN p ELSE Edits[p]

\* CountRecentRejectedContentModerationItems, of what is committed.
Recent == {p \in Post : item[p] = "rejected"} \ aged

\* Mutant of Counts: the rejection at hand is not among those counted.
CountsOthers(p) == Recent \ {p}

\* The same in the transaction that rejects p, which sees its own write.
Counts(p) == Recent \cup {p}

\* Mutant of MuteDue: the mute comes one rejection early.
MuteDueEarly(p) == Cardinality(counted[p]) + 1 >= Threshold

\* Enough rejections for a mute (moderationRejectThreshold).
MuteDue(p) == Cardinality(counted[p]) >= Threshold

\* Transactions that reject p and have counted.
Rejecting(p) ==
  \/ stage[p] = "blocking"
  \/ \E m \in Moderator : task[m] = p /\ ruling[m] = "reject"

\* A review has deleted the resource and not committed.
Removes(m) == task[m] # None /\ ruling[m] = "reject" /\ task[m] \in linked
Removing(r) == \E m \in Moderator : Removes(m) /\ Target(task[m]) = r

\* The rows an open transaction has locked FOR SHARE.
MembershipHeld == member /\ \E p \in Post : Rejecting(p) /\ MuteDue(p)
RoleHeld(m) == task[m] # None

----------------------------------------------------------------------------
Init ==
  /\ stage = [p \in Post |-> IF p \in Legacy THEN "done" ELSE "idle"]
  /\ item = [p \in Post |-> IF p \in Legacy THEN "pending" ELSE "none"]
  /\ linked = {}
  /\ aged = {}
  /\ res = [p \in Post |-> "none"]
  /\ member = TRUE
  /\ mute = "none"
  /\ mods = Moderator
  /\ task = [m \in Moderator |-> None]
  /\ ruling = [m \in Moderator |-> "approve"]
  /\ counted = [p \in Post |-> {}]

Goto(p, s) == stage' = [stage EXCEPT ![p] = s]

\* The membership check (none for an edit) and the rate limit, which lets the
\* request pass when the count cannot be read.
Enter(p) ==
  /\ stage[p] = "idle"
  /\ IF Edits[p] = None /\ ~member
       THEN Goto(p, "refused")
       ELSE \/ Cardinality(Recent) >= Threshold /\ Goto(p, "refused")
            \/ Goto(p, "judged")
  /\ UNCHANGED <<item, linked, aged, res, member, mute, mods, review, counted>>

\* Learned rules and providers; a learned deny rule or a block becomes
\* "denied", an error of the provider refuses the post.
Judge(p) ==
  /\ stage[p] = "judged"
  /\ \E s \in {"allowed", "doubtful", "denied", "refused"} : Goto(p, s)
  /\ UNCHANGED <<item, linked, aged, res, member, mute, mods, review, counted>>

\* CreateMessage and CreatePublicRequest read the membership again, in a
\* statement of their own; UpdateMessage reads none.
Admit(p) ==
  /\ stage[p] \in {"allowed", "doubtful"}
  /\ IF Edits[p] # None \/ member
       THEN Goto(p, IF stage[p] = "allowed" THEN "publishing" ELSE "queueing")
       ELSE Goto(p, "refused")
  /\ UNCHANGED <<item, linked, aged, res, member, mute, mods, review, counted>>

\* CreateContentModerationItem, which is called with an item that waits for its
\* review or with one that was rejected at once.
Store(p, s) == item' = [item EXCEPT ![p] = s]

\* The resource is inserted; an edit updates a message that is not deleted.
Land(p) ==
  IF Edits[p] = None
    THEN res' = [res EXCEPT ![p] = "live"]
    ELSE res[Target(p)] = "live" /\ ~Removing(Target(p)) /\ UNCHANGED res

Publish(p) ==
  /\ stage[p] = "publishing"
  /\ Land(p)
  /\ Goto(p, "done")
  /\ UNCHANGED <<item, linked, aged, member, mute, mods, review, counted>>

\* Mutant of Queue: the item is stored without the id of what it published.
QueueUnlinked(p) ==
  /\ stage[p] = "queueing"
  /\ Land(p)
  /\ Store(p, "pending")
  /\ Goto(p, "done")
  /\ UNCHANGED <<linked, aged, member, mute, mods, review, counted>>

\* persistPublication: the resource and its pending item in one transaction.
Queue(p) ==
  /\ stage[p] = "queueing"
  /\ Land(p)
  /\ Store(p, "pending")
  /\ linked' = linked \cup {p}
  /\ Goto(p, "done")
  /\ UNCHANGED <<aged, member, mute, mods, review, counted>>

\* handleModerationDecision on a block: insert a rejected item, count, ...
BeginBlock(p) ==
  /\ stage[p] = "denied"
  /\ counted' = [counted EXCEPT ![p] = Counts(p)]
  /\ Goto(p, "blocking")
  /\ UNCHANGED <<item, linked, aged, res, member, mute, mods, review>>

\* applyModerationAutoMuteInTransaction, when the transaction that counted commits.
AutoMute(p) == mute' = IF MuteDue(p) /\ member THEN "auto" ELSE mute

\* ... and commit.
CommitBlock(p) ==
  /\ stage[p] = "blocking"
  /\ Store(p, "rejected")
  /\ AutoMute(p)
  /\ Goto(p, "refused")
  /\ counted' = [counted EXCEPT ![p] = {}]
  /\ UNCHANGED <<linked, aged, res, member, mods, review>>

\* A statement fails, the target of an edit is gone, or the process stops.
PostFails(p) ==
  /\ stage[p] \in {"judged", "allowed", "doubtful", "denied", "publishing", "queueing", "blocking"}
  /\ Goto(p, "refused")
  /\ counted' = [counted EXCEPT ![p] = {}]
  /\ UNCHANGED <<item, linked, aged, res, member, mute, mods, review>>

----------------------------------------------------------------------------
\* Mutant of Unreviewed: the status is not looked at under the lock.
EverQueued(p) == item[p] # "none"

\* The status check of ApproveContentModerationItem and RejectContentModerationItem.
Unreviewed(p) == item[p] = "pending"

\* LockContentModerationItem, the status check, LockGroupModerator.
Claim(m, p, r) ==
  /\ task[m] = None
  /\ \A n \in Moderator : task[n] # p
  /\ Unreviewed(p)
  /\ m \in mods
  /\ task' = [task EXCEPT ![m] = p]
  /\ ruling' = [ruling EXCEPT ![m] = r]

\* ApproveContentModerationItem; an item without a resource gets one, for
\* which the author has to be a member.
BeginApprove(m, p) ==
  /\ p \in linked \/ member
  /\ Claim(m, p, "approve")
  /\ UNCHANGED <<stage, item, linked, aged, res, member, mute, mods, counted>>

CommitApprove(m, p) ==
  /\ task[m] = p /\ ruling[m] = "approve"
  /\ item' = [item EXCEPT ![p] = "approved"]
  /\ linked' = linked \cup {p}
  /\ res' = IF p \in linked THEN res ELSE [res EXCEPT ![p] = "live"]
  /\ task' = [task EXCEPT ![m] = None]
  /\ UNCHANGED <<stage, aged, member, mute, mods, ruling, counted>>

\* RejectContentModerationItem: deletes what the item published, which fails
\* when that is gone already, marks the item, and counts.
BeginReject(m, p) ==
  /\ p \in linked => res[Target(p)] = "live" /\ ~Removing(Target(p))
  /\ Claim(m, p, "reject")
  /\ counted' = [counted EXCEPT ![p] = Counts(p)]
  /\ UNCHANGED <<stage, item, linked, aged, res, member, mute, mods>>

CommitReject(m, p) ==
  /\ task[m] = p /\ ruling[m] = "reject"
  /\ item' = [item EXCEPT ![p] = "rejected"]
  /\ res' = IF p \in linked THEN [res EXCEPT ![Target(p)] = "gone"] ELSE res
  /\ AutoMute(p)
  /\ task' = [task EXCEPT ![m] = None]
  /\ counted' = [counted EXCEPT ![p] = {}]
  /\ UNCHANGED <<stage, linked, aged, member, mods, ruling>>

\* A review is rolled back.
AbortReview(m, p) ==
  /\ task[m] = p
  /\ task' = [task EXCEPT ![m] = None]
  /\ counted' = [counted EXCEPT ![p] = {}]
  /\ UNCHANGED <<stage, item, linked, aged, res, member, mute, mods, ruling>>

----------------------------------------------------------------------------
\* DeleteMessage or HidePublicRequest, by the author or a moderator.
DeleteResource(r) ==
  /\ res[r] = "live"
  /\ ~Removing(r)
  /\ res' = [res EXCEPT ![r] = "gone"]
  /\ UNCHANGED <<stage, item, linked, aged, member, mute, mods, review, counted>>

\* LeaveGroup, or removed; the row may not be locked FOR SHARE by a mute.
LeaveGroup ==
  /\ member
  /\ ~MembershipHeld
  /\ member' = FALSE
  /\ UNCHANGED <<stage, item, linked, aged, res, mute, mods, review, counted>>

\* Mutant of LoseRole: the reviewer's role is read without FOR SHARE.
LoseRoleAnytime(m) ==
  /\ m \in mods
  /\ mods' = mods \ {m}
  /\ UNCHANGED <<stage, item, linked, aged, res, member, mute, review, counted>>

\* A moderator is demoted, removed or leaves; a review holds the row.
LoseRole(m) ==
  /\ m \in mods
  /\ ~RoleHeld(m)
  /\ mods' = mods \ {m}
  /\ UNCHANGED <<stage, item, linked, aged, res, member, mute, review, counted>>

\* SetGroupCommentMute and ClearGroupCommentMute of a moderator of the group;
\* both need the author to be a member.
SetMute(s) ==
  /\ member
  /\ mute' = s
  /\ UNCHANGED <<stage, item, linked, aged, res, member, mods, review, counted>>

\* Fifteen minutes after its decision an item no longer counts.
Age(p) ==
  /\ item[p] = "rejected"
  /\ aged' = aged \cup {p}
  /\ UNCHANGED <<stage, item, linked, res, member, mute, mods, review, counted>>

----------------------------------------------------------------------------
Posting(p) ==
  \/ Enter(p) \/ Judge(p) \/ Admit(p)
  \/ Publish(p) \/ Queue(p) \/ BeginBlock(p) \/ CommitBlock(p)
  \/ PostFails(p)

Reviewing(m, p) ==
  \/ BeginApprove(m, p) \/ CommitApprove(m, p)
  \/ BeginReject(m, p) \/ CommitReject(m, p)
  \/ AbortReview(m, p)

Next ==
  \/ \E p \in Post : Posting(p) \/ DeleteResource(p) \/ Age(p)
  \/ \E m \in Moderator, p \in Post : Reviewing(m, p)
  \/ \E m \in Moderator : LoseRole(m)
  \/ \E s \in {"none", "manual"} : SetMute(s)
  \/ LeaveGroup

Spec == Init /\ [][Next]_vars

----------------------------------------------------------------------------
Stage == {"idle", "judged", "allowed", "doubtful", "denied", "publishing",
          "queueing", "blocking", "done", "refused"}

TypeOK ==
  /\ stage \in [Post -> Stage]
  /\ item \in [Post -> {"none", "pending", "approved", "rejected"}]
  /\ linked \subseteq Post
  /\ aged \subseteq Post
  /\ res \in [Post -> {"none", "live", "gone"}]
  /\ member \in BOOLEAN
  /\ mute \in {"none", "auto", "manual"}
  /\ mods \subseteq Moderator
  /\ task \in [Moderator -> Post \cup {None}]
  /\ ruling \in [Moderator -> {"approve", "reject"}]
  /\ counted \in [Post -> SUBSET Post]

\* What was rejected is not visible, and never becomes visible again, whatever
\* deletes, edits and other reviews of the same message do meanwhile; a blocked
\* edit alone leaves the message it wanted to change
\* (content_moderation.go:116-171 and 352-413, messages_mutation.go:12-41).
RejectedGone ==
  \A p \in Post :
    item[p] = "rejected" /\ (Edits[p] = None \/ p \in linked) => res[Target(p)] # "live"

\* A decision is never replaced by another one, however reviewers race
\* (content_moderation.go:250-252 and 368-370).
DecisionFinal ==
  [][\A p \in Post : item[p] \in {"approved", "rejected"} => item'[p] = item[p]]_vars

\* Whoever decides may still moderate when the decision commits: nobody loses
\* the role in the middle of a review (storage/content_moderation.go:184-207).
ReviewerIsModerator ==
  [][\A m \in Moderator :
       task[m] # None /\ item'[task[m]] # item[task[m]] => m \in mods']_vars

\* An automatic mute rests on enough rejected items that are committed; no
\* rolled back rejection counts (content_moderation.go:184-201).
MuteEarned ==
  mute = "auto" => Cardinality({p \in Post : item[p] = "rejected"}) >= Threshold

\* The rejection that reaches the threshold mutes the author, unless another
\* one committed between its count and its own commit, or the author has left
\* (content_moderation.go:184-201, group_comment_mutes.go:58-78).
AutoMuteApplied ==
  [][\A p \in Post :
       (/\ item[p] # "rejected" /\ item'[p] = "rejected"
        /\ Recent \subseteq counted[p]
        /\ Cardinality(Recent') >= Threshold
        /\ member) => mute' = "auto"]_vars

Reviewed == INSTANCE ReviewedContent WITH
  Item <- Post, About <- [p \in Post |-> Target(p)],
  verdict <- item, content <- res, published <- linked

\* Posts, reviews, edits and deletions act as if each were one step: whoever
\* decides finds the item undecided and its content there, and what a decision
\* takes away stays away (content_moderation.go:116-171, 239-270 and 352-413).
ReviewsAtomic == Reviewed!Spec

\* README.md:9, "The backend moderates user-generated content before it is
\* published", and README.md:36, "Approved items are published": content that
\* waits for a review is not visible.  persistPublication publishes it first.
ReviewBeforePublication ==
  \A p \in Post : item[p] = "pending" /\ Edits[p] = None => res[p] # "live"

----------------------------------------------------------------------------
(* What makes the properties inductive (ModerationProofs).                 *)

\* A resource exists from the moment its request or review says so.
Resources ==
  /\ \A p \in Post : res[p] # "none" => stage[p] = "done"
  /\ \A p \in linked : res[Target(p)] # "none" /\ stage[p] = "done"
  /\ \A p \in Post : item[p] = "pending" /\ p \notin linked => p \in Legacy
  /\ \A p \in Post :
       item[p] # "none" /\ p \notin linked /\ Edits[p] = None => res[p] = "none"
  /\ \A p \in Legacy : stage[p] = "done"

\* A review holds its item, its role and the resource it removes, alone.
Locks ==
  /\ \A m \in Moderator : task[m] # None => item[task[m]] = "pending" /\ m \in mods
  /\ \A m, n \in Moderator : task[m] = task[n] /\ task[m] # None => m = n
  /\ \A m \in Moderator : Removes(m) => res[Target(task[m])] = "live"
  /\ \A m, n \in Moderator :
       Removes(m) /\ Removes(n) /\ Target(task[m]) = Target(task[n]) => m = n

\* What a transaction counted is rejected, but for its own item.
Tallies ==
  /\ \A p \in Post : \A q \in counted[p] : q = p \/ item[q] = "rejected"
  /\ \A p \in Post : stage[p] \notin {"done", "refused"} => item[p] = "none"
  /\ \A p \in linked : item[p] # "none"

\* A transaction that rejects has counted its own rejection.
OwnCounted == \A p \in Post : Rejecting(p) => p \in counted[p]

Inv == TypeOK /\ Resources /\ Locks /\ Tallies /\ RejectedGone /\ MuteEarned
=============================================================================
