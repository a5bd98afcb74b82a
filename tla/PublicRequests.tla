--------------------------- MODULE PublicRequests ---------------------------
(***************************************************************************)
(* What happens to one public request of a group: votes, comments with     *)
(* their moderation items and mutes, read marks, and what moderators do to *)
(* it (internal/service/public_requests_service.go,                        *)
(* group_comment_mutes_service.go, internal/storage/                       *)
(* repository_public_requests.go, group_comment_mutes.go,                  *)
(* internal/httpapi/public_requests_handlers.go).                          *)
(*                                                                         *)
(* Grain.  Each statement that reads is a step of its own: PostgreSQL runs *)
(* the transactions READ COMMITTED and the reads take no locks.  What a    *)
(* transaction writes becomes visible at its commit; for a vote, which     *)
(* counts between its write and its commit, these are two steps, and its   *)
(* own row stays locked in between.  A review locks its item and the       *)
(* reviewer's role, and is one step.  The owner of a group never changes.  *)
(*                                                                         *)
(* A comment is named by the call that posts it.                           *)
(***************************************************************************)
EXTENDS Naturals, FiniteSets

CONSTANTS
  User, Owner,   \* of the group: members, former members, the owner
  SuperAdmin,    \* users whose platform role may moderate any group
  Talkers,       \* bound: users whom rejections elsewhere may mute
  Call,          \* HTTP calls about the request
  Jobs,          \* bound: what the calls may ask for, together
  None           \* a job that is about nothing but the request

Votes == {"support", "oppose", "clear"}
Op == Votes \cup {"comment", "mark", "delete", "hide", "status", "mute", "unmute",
                  "approve", "reject"}
Job == [op : Op, by : User, on : Call \cup User \cup {None}]

ASSUME PublicRequestsAssumption ==
  /\ IsFiniteSet(User) /\ Owner \in User /\ SuperAdmin \subseteq User /\ Talkers \subseteq User
  /\ Jobs \subseteq [Call -> Job]
  /\ \A job \in Jobs, c \in Call :
       /\ job[c].op \in {"delete", "approve", "reject"} => job[c].on \in Call
       /\ job[c].op \in {"mute", "unmute"} => job[c].on \in User

VARIABLES
  job,          \* what each call asks for; never changes
  mode,         \* interaction_mode; never changes
  hidden,       \* hidden_at is set
  status,       \* status of the request
  role,         \* of a user in the group, "out" without a row
  mute,         \* "none" (never or cleared), "timed", "permanent", or "over"
                \* (a timed one that has expired: its row is still open)
  vote,         \* row of public_request_votes, "none" without one
  comment,      \* of the call that posts it: "none", "live", "deleted"
  item,         \* moderation item of the comment
  marked,       \* users with a row of public_request_reads
  stage,        \* of a call
  flagged,      \* comments in the making that need a review
  tally,        \* the counts a voting call has read
  shown,        \* the counts the group was told last
  blurred,      \* history: the counts shown may be old, see TallyExact
  lacks         \* history: what a call needs and has not had since it began

calls == <<stage, flagged, tally>>
told == <<shown, blurred>>
vars == <<job, mode, hidden, status, role, mute, vote, comment, item, marked,
          calls, told, lacks>>

op(c) == job[c].op
by(c) == job[c].by
on(c) == job[c].on

----------------------------------------------------------------------------
Manages(u) == role[u] \in {"owner", "admin"}

\* ensureGroupModerator.
Moderates(u) == Manages(u) \/ u \in SuperAdmin

\* GetActiveCommentMuteForRequest: a mute that is open and has not expired.
Muted(u) == mute[u] \in {"timed", "permanent"}

\* Whom a manager may mute: SetGroupCommentMute.
MayMute(u, t) ==
  t # u /\ (role[t] = "member" \/ (role[u] = "owner" /\ role[t] = "admin"))

\* Whose mute a manager may end: ClearGroupCommentMute.
MayUnmute(u, t) == role[t] # "out" /\ (role[u] = "owner" \/ role[t] = "member")

\* What the code asks of a call, each at some moment while the call runs.
Needs(c) ==
  CASE op(c) \in Votes -> {"open", "mode", "member"}
    [] op(c) = "comment" -> {"open", "mode", "member", "unmuted"}
    [] op(c) = "mark" -> {"member"}
    [] op(c) \in {"delete", "hide", "reject"} -> {"open", "moderator"}
    [] op(c) = "approve" -> {"moderator"}
    [] op(c) = "status" -> {"open", "manager"}
    [] op(c) \in {"mute", "unmute"} -> {"manager", "rank"}

Has(c, x) ==
  CASE x = "open" -> ~hidden
    [] x = "mode" -> IF op(c) = "comment" THEN mode = "discussion" ELSE mode # "read_only"
    [] x = "member" -> role[by(c)] # "out"
    [] x = "unmuted" -> ~Muted(by(c))
    [] x = "moderator" -> Moderates(by(c))
    [] x = "manager" -> Manages(by(c))
    [] x = "rank" -> IF op(c) = "mute" THEN MayMute(by(c), on(c)) ELSE MayUnmute(by(c), on(c))

\* Counts of a table of votes.
Count(votes) ==
  <<Cardinality({u \in User : votes[u] = "support"}),
    Cardinality({u \in User : votes[u] = "oppose"})>>

\* The vote a call leaves behind.
Choice(c) == IF op(c) = "clear" THEN "none" ELSE op(c)

\* Voting calls whose counts are read and not shown yet.
Counting == {c \in Call : op(c) \in Votes /\ stage[c] \in {"counted", "missed", "decided"}}

\* A voting call holds the row of u.
RowHeld(u) == \E c \in Call : stage[c] = "counted" /\ by(c) = u

----------------------------------------------------------------------------
Init ==
  /\ job \in Jobs
  /\ mode \in {"read_only", "vote_only", "discussion"}
  /\ hidden = FALSE
  /\ status = "new"
  /\ role = [u \in User |-> IF u = Owner THEN "owner" ELSE "member"]
  /\ mute = [u \in User |-> "none"]
  /\ vote = [u \in User |-> "none"]
  /\ comment = [c \in Call |-> "none"]
  /\ item = [c \in Call |-> "none"]
  /\ marked = {}
  /\ stage = [c \in Call |-> "idle"]
  /\ flagged = {}
  /\ tally = [c \in Call |-> <<0, 0>>]
  /\ shown = <<0, 0>>
  /\ blurred = FALSE
  /\ lacks = [c \in Call |-> Needs(c)]

\* Whatever happens, the calls that run see the state as it is.
Watch ==
  /\ lacks' = [c \in Call |->
                 CASE stage[c] = "idle" -> lacks[c]
                   [] stage[c] = "refused" -> {}
                   [] OTHER -> {x \in lacks[c] : ~Has(c, x)}]
  /\ UNCHANGED <<job, mode>>

Goto(c, s) == stage' = [stage EXCEPT ![c] = s] /\ Watch

\* One more read, after which the call goes on or is refused.
Check(c, from, condition, to) ==
  /\ stage[c] = from
  /\ Goto(c, IF condition THEN to ELSE "refused")
  /\ UNCHANGED <<hidden, status, role, mute, vote, comment, item, marked, flagged, tally, told>>

Begin(c) == Check(c, "idle", TRUE, "asked")

----------------------------------------------------------------------------
(* Comments before their transaction.                                      *)

\* Mutant of CheckMute: only mutes that end are looked at.
CheckTimedMute(c) ==
  op(c) = "comment" /\ Check(c, "asked", hidden \/ mute[by(c)] # "timed", "heard")

\* ensureCanCommentPublicRequest: of a hidden request no mute is found.
CheckMute(c) ==
  op(c) = "comment" /\ Check(c, "asked", hidden \/ ~Muted(by(c)), "heard")

\* GetPublicRequestRealtimeContext, then moderateContent with any verdict.
Judge(c) ==
  /\ op(c) = "comment" /\ stage[c] = "heard"
  /\ \/ Goto(c, "refused") /\ UNCHANGED flagged
     \/ ~hidden /\ Goto(c, "judged") /\ flagged' \in {flagged, flagged \cup {c}}
  /\ UNCHANGED <<hidden, status, role, mute, vote, comment, item, marked, tally, told>>

----------------------------------------------------------------------------
(* The reads of the transactions.                                          *)

\* publicRequestGroupID, publicRequestInteractionMode, or the join with the comment.
Found(c) ==
  /\ ~hidden
  /\ op(c) \in Votes => mode # "read_only"
  /\ op(c) = "comment" => mode = "discussion"
  /\ op(c) = "delete" => comment[on(c)] = "live"

ReadRequest(c) ==
  /\ op(c) \in Votes \cup {"comment", "delete", "hide", "status"}
  /\ Check(c, IF op(c) = "comment" THEN "judged" ELSE "asked", Found(c), "read")

\* GetMemberRole of the one who mutes.
ReadActor(c) ==
  op(c) \in {"mute", "unmute"} /\ Check(c, "asked", Manages(by(c)), "read")

\* Mutant of Admitted: a moderator has to be a member, no more.
AdmittedMembers(c) == role[by(c)] # "out"

\* IsGroupMember, ensureGroupModerator, or a role of this group.
Admitted(c) ==
  CASE op(c) \in Votes \cup {"comment", "mark"} -> role[by(c)] # "out"
    [] op(c) \in {"delete", "hide"} -> Moderates(by(c))
    [] op(c) = "status" -> Manages(by(c))
    [] op(c) = "mute" -> MayMute(by(c), on(c))
    [] op(c) = "unmute" -> MayUnmute(by(c), on(c))
    [] OTHER -> FALSE

ReadRole(c) ==
  /\ op(c) \notin {"approve", "reject"}
  /\ Check(c, IF op(c) = "mark" THEN "asked" ELSE "read", Admitted(c), "admitted")

----------------------------------------------------------------------------
(* What they write.                                                        *)

\* Mutant of CountVotes: the votes are counted before the vote is written.
CountVotesFirst(c) ==
  /\ op(c) \in Votes /\ stage[c] = "admitted"
  /\ IF op(c) = "clear" /\ vote[by(c)] = "none"
       THEN Goto(c, "missed")
       ELSE ~RowHeld(by(c)) /\ Goto(c, "counted")
  /\ tally' = [tally EXCEPT ![c] = Count(vote)]
  /\ blurred' = (Counting # {})
  /\ UNCHANGED <<hidden, status, role, mute, vote, comment, item, marked, flagged, shown>>

\* The vote is written, or deleted, and the votes are counted.  The row stays
\* locked, unless there was none to delete.
CountVotes(c) ==
  /\ op(c) \in Votes /\ stage[c] = "admitted"
  /\ IF op(c) = "clear" /\ vote[by(c)] = "none"
       THEN Goto(c, "missed")
       ELSE ~RowHeld(by(c)) /\ Goto(c, "counted")
  /\ tally' = [tally EXCEPT ![c] = Count([vote EXCEPT ![by(c)] = Choice(c)])]
  /\ blurred' = (Counting # {})
  /\ UNCHANGED <<hidden, status, role, mute, vote, comment, item, marked, flagged, shown>>

CommitVote(c) ==
  /\ stage[c] \in {"counted", "missed"}
  /\ vote' = IF stage[c] = "missed" THEN vote ELSE [vote EXCEPT ![by(c)] = Choice(c)]
  /\ Goto(c, "decided")
  /\ UNCHANGED <<hidden, status, role, mute, comment, item, marked, flagged, tally, told>>

\* The comment and, when it needs one, its moderation item.
PostComment(c) ==
  /\ op(c) = "comment" /\ stage[c] = "admitted"
  /\ comment' = [comment EXCEPT ![c] = "live"]
  /\ item' = IF c \in flagged THEN [item EXCEPT ![c] = "pending"] ELSE item
  /\ Goto(c, "decided")
  /\ UNCHANGED <<hidden, status, role, mute, vote, marked, flagged, tally, told>>

\* MarkPublicRequestsRead.
MarkRead(c) ==
  /\ op(c) = "mark" /\ stage[c] = "admitted"
  /\ marked' = marked \cup {by(c)}
  /\ Goto(c, "done")
  /\ UNCHANGED <<hidden, status, role, mute, vote, comment, item, flagged, tally, told>>

\* A write whose last condition fails is refused; the others stay as they are.
DeleteComment(c) ==
  /\ op(c) = "delete" /\ stage[c] = "admitted"
  /\ IF comment[on(c)] = "live"
       THEN comment' = [comment EXCEPT ![on(c)] = "deleted"] /\ Goto(c, "decided")
       ELSE Goto(c, "refused") /\ UNCHANGED comment
  /\ UNCHANGED <<hidden, status, role, mute, vote, item, marked, flagged, tally, told>>

\* Nobody is told that a request is hidden.
Hide(c) ==
  /\ op(c) = "hide" /\ stage[c] = "admitted"
  /\ hidden' = TRUE
  /\ Goto(c, IF hidden THEN "refused" ELSE "done")
  /\ UNCHANGED <<status, role, mute, vote, comment, item, marked, flagged, tally, told>>

UpdateStatus(c) ==
  /\ op(c) = "status" /\ stage[c] = "admitted"
  /\ IF hidden
       THEN Goto(c, "refused") /\ UNCHANGED status
       ELSE Goto(c, "decided") /\ status' \in {"new", "resolved"}
  /\ UNCHANGED <<hidden, role, mute, vote, comment, item, marked, flagged, tally, told>>

\* SetGroupCommentMute replaces any mute; ClearGroupCommentMute needs an open
\* one, which may have expired.
SetMute(c) ==
  /\ op(c) = "mute" /\ stage[c] = "admitted"
  /\ \E m \in {"timed", "permanent"} : mute' = [mute EXCEPT ![on(c)] = m]
  /\ Goto(c, "done")
  /\ UNCHANGED <<hidden, status, role, vote, comment, item, marked, flagged, tally, told>>

ClearMute(c) ==
  /\ op(c) = "unmute" /\ stage[c] = "admitted"
  /\ mute' = [mute EXCEPT ![on(c)] = "none"]
  /\ Goto(c, IF mute[on(c)] = "none" THEN "refused" ELSE "done")
  /\ UNCHANGED <<hidden, status, role, vote, comment, item, marked, flagged, tally, told>>

\* ApproveContentModerationItem, for a comment.
ApproveComment(c) ==
  /\ op(c) = "approve" /\ stage[c] = "asked"
  /\ IF item[on(c)] = "pending" /\ Moderates(by(c))
       THEN item' = [item EXCEPT ![on(c)] = "approved"] /\ Goto(c, "done")
       ELSE Goto(c, "refused") /\ UNCHANGED item
  /\ UNCHANGED <<hidden, status, role, mute, vote, comment, marked, flagged, tally, told>>

\* Mutant of RejectComment: a comment that cannot be deleted is no obstacle.
RejectCommentAnyway(c) ==
  /\ op(c) = "reject" /\ stage[c] = "asked"
  /\ IF item[on(c)] = "pending" /\ Moderates(by(c))
       THEN /\ item' = [item EXCEPT ![on(c)] = "rejected"]
            /\ comment' = IF hidden THEN comment ELSE [comment EXCEPT ![on(c)] = "deleted"]
            /\ Goto(c, "done")
       ELSE Goto(c, "refused") /\ UNCHANGED <<item, comment>>
  /\ UNCHANGED <<hidden, status, role, mute, vote, marked, flagged, tally, told>>

\* RejectContentModerationItem deletes the comment as a moderator would, and
\* fails with it: when the request is hidden, the item can only be approved.
RejectComment(c) ==
  /\ op(c) = "reject" /\ stage[c] = "asked"
  /\ IF item[on(c)] = "pending" /\ Moderates(by(c)) /\ comment[on(c)] = "live" /\ ~hidden
       THEN /\ item' = [item EXCEPT ![on(c)] = "rejected"]
            /\ comment' = [comment EXCEPT ![on(c)] = "deleted"]
            /\ Goto(c, "done")
       ELSE Goto(c, "refused") /\ UNCHANGED <<item, comment>>
  /\ UNCHANGED <<hidden, status, role, mute, vote, marked, flagged, tally, told>>

\* broadcastPublicRequestRefresh reads the request again; nobody is told what
\* happened to one that was hidden meanwhile.
Broadcast(c) ==
  /\ stage[c] = "decided"
  /\ shown' = IF op(c) \in Votes /\ ~hidden THEN tally[c] ELSE shown
  /\ Goto(c, "done")
  /\ UNCHANGED <<hidden, status, role, mute, vote, comment, item, marked, flagged, tally, blurred>>

\* A statement fails, or the process stops; after the commit only the event is lost.
CallFails(c) ==
  /\ stage[c] \notin {"idle", "done", "refused"}
  /\ Goto(c, IF stage[c] = "decided" THEN "done" ELSE "refused")
  /\ blurred' = (blurred \/ c \in Counting)
  /\ UNCHANGED <<hidden, status, role, mute, vote, comment, item, marked, flagged, tally, shown>>

----------------------------------------------------------------------------
(* What others do meanwhile.                                               *)

\* Joining, leaving, being removed, promoted or demoted (Membership).
ChangeRole(u, r) ==
  /\ u # Owner /\ role[u] # r
  /\ role' = [role EXCEPT ![u] = r]
  /\ Watch
  /\ UNCHANGED <<hidden, status, mute, vote, comment, item, marked, calls, told>>

\* SetGroupCommentAutoMute, after a rejection (Moderation).
AutoMute(u) ==
  /\ u \in Talkers /\ role[u] \notin {"out", "owner"}
  /\ mute' = [mute EXCEPT ![u] = "timed"]
  /\ Watch
  /\ UNCHANGED <<hidden, status, role, vote, comment, item, marked, calls, told>>

Expire(u) ==
  /\ mute[u] = "timed"
  /\ mute' = [mute EXCEPT ![u] = "over"]
  /\ Watch
  /\ UNCHANGED <<hidden, status, role, vote, comment, item, marked, calls, told>>

----------------------------------------------------------------------------
Serve(c) ==
  \/ Begin(c) \/ CheckMute(c) \/ Judge(c)
  \/ ReadRequest(c) \/ ReadActor(c) \/ ReadRole(c)
  \/ CountVotes(c) \/ CommitVote(c) \/ PostComment(c) \/ MarkRead(c)
  \/ DeleteComment(c) \/ Hide(c) \/ UpdateStatus(c) \/ SetMute(c) \/ ClearMute(c)
  \/ ApproveComment(c) \/ RejectComment(c)
  \/ Broadcast(c) \/ CallFails(c)

Others(u) ==
  \/ \E r \in {"out", "member", "admin"} : ChangeRole(u, r)
  \/ AutoMute(u) \/ Expire(u)

Next == (\E c \in Call : Serve(c)) \/ (\E u \in User : Others(u))

Spec == Init /\ [][Next]_vars

----------------------------------------------------------------------------
TypeOK ==
  /\ job \in Jobs
  /\ mode \in {"read_only", "vote_only", "discussion"}
  /\ hidden \in BOOLEAN /\ status \in {"new", "resolved"}
  /\ role \in [User -> {"out", "member", "admin", "owner"}]
  /\ mute \in [User -> {"none", "timed", "permanent", "over"}]
  /\ vote \in [User -> {"none", "support", "oppose"}]
  /\ comment \in [Call -> {"none", "live", "deleted"}]
  /\ item \in [Call -> {"none", "pending", "approved", "rejected"}]
  /\ marked \subseteq User
  /\ stage \in [Call -> {"idle", "asked", "heard", "judged", "read", "admitted",
                         "counted", "missed", "decided", "done", "refused"}]
  /\ flagged \subseteq Call
  /\ tally \in [Call -> Nat \X Nat] /\ shown \in Nat \X Nat
  /\ blurred \in BOOLEAN
  /\ lacks \in [Call -> SUBSET {"open", "mode", "member", "unmuted", "moderator", "manager", "rank"}]

Written(c) == stage[c] \in {"decided", "done"}

\* Nobody votes, comments or marks a request read who was at no moment of the call
\* a member, or while the request was hidden, in a mode that forbids it, or the
\* author muted all along; the checks are separate statements
\* (repository_public_requests.go:108-213, group_comment_mutes.go:109-134).
PostingJustified ==
  \A c \in Call :
    op(c) \in Votes \cup {"comment", "mark"} /\ Written(c) => lacks[c] = {}

\* Nothing is deleted, hidden, reviewed, muted or marked resolved by a user without
\* the right to it at some moment of the call
\* (repository_public_requests.go:259-324, group_comment_mutes.go:15-107).
ModeratingJustified ==
  \A c \in Call :
    op(c) \notin Votes \cup {"comment", "mark"} /\ Written(c) => lacks[c] = {}

\* Once no voting call is under way the counts shown last are those of the table,
\* unless two voting calls overlapped or an event was lost and no vote has been
\* cast alone since (repository_public_requests.go:127-134 and 163-179).
TallyExact ==
  Counting = {} /\ ~blurred /\ ~hidden => shown = Count(vote)

\* A comment whose item was rejected is deleted, whatever was deleted, hidden or
\* reviewed meanwhile (content_moderation.go:363-413).
RejectedCommentGone ==
  \A c \in Call : item[c] = "rejected" => comment[c] = "deleted"

Comments == INSTANCE ReviewedContent WITH
  Item <- Call, About <- [c \in Call |-> c],
  verdict <- item, published <- {c \in Call : item[c] # "none"},
  content <- [c \in Call |-> IF comment[c] = "deleted" THEN "gone" ELSE comment[c]]

\* Comments keep the promise of all moderated content: a review decides once, takes
\* the comment away in the same step, and fails where somebody else has deleted it
\* (content_moderation.go:239-270 and 352-413, repository_public_requests.go:282-305).
CommentsReviewed == Comments!Spec

----------------------------------------------------------------------------
(* What makes the properties inductive (PublicRequestsProofs).             *)

\* How far a call got tells what it has had: missing, at a stage.
Passed(c, at, missing) ==
  /\ missing \subseteq Needs(c)
  /\ op(c) = "comment" /\ at = "heard" => "unmuted" \notin missing \/ hidden
  /\ op(c) = "comment" /\ at \in {"judged", "read", "admitted"} => "unmuted" \notin missing
  /\ at = "read" => missing \cap (IF op(c) \in {"mute", "unmute"} THEN {"manager"}
                                                                    ELSE {"open", "mode"}) = {}
  /\ at \in {"admitted", "counted", "missed", "decided", "done"} => missing = {}
  /\ at \in {"counted", "missed"} => op(c) \in Votes

ChecksPassed == \A c \in Call : Passed(c, stage[c], lacks[c])

\* Only a call that has written has a comment, or an item for one.
CommentsPosted == \A c \in Call : comment[c] # "none" \/ item[c] # "none" => Written(c)

Inv == TypeOK /\ ChecksPassed /\ CommentsPosted /\ RejectedCommentGone

\* A vote that is counted alone has the counts of what it leaves behind.
TallyTrue ==
  ~blurred =>
    /\ \A c, d \in Counting : c = d
    /\ \A c \in Counting :
         tally[c] = Count(IF stage[c] = "counted" THEN [vote EXCEPT ![by(c)] = Choice(c)] ELSE vote)
=============================================================================
