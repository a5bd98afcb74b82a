------------------------ MODULE PublicRequestsProofs ------------------------
(* Proofs about PublicRequests, for any number of users and calls and any
   jobs.  Inv, defined in PublicRequests, is the inductive invariant. *)
EXTENDS PublicRequests, FiniteSetTheorems, TLAPS

Needed == {"open", "mode", "member", "unmuted", "moderator", "manager", "rank"}
Stages == {"idle", "asked", "heard", "judged", "read", "admitted",
           "counted", "missed", "decided", "done", "refused"}

\* The types of what the calls write, all but the stages and what calls lack.
DataOK ==
  /\ hidden \in BOOLEAN /\ status \in {"new", "resolved"}
  /\ role \in [User -> {"out", "member", "admin", "owner"}]
  /\ mute \in [User -> {"none", "timed", "permanent", "over"}]
  /\ vote \in [User -> {"none", "support", "oppose"}]
  /\ comment \in [Call -> {"none", "live", "deleted"}]
  /\ item \in [Call -> {"none", "pending", "approved", "rejected"}]
  /\ marked \subseteq User
  /\ flagged \subseteq Call
  /\ tally \in [Call -> Nat \X Nat] /\ shown \in Nat \X Nat
  /\ blurred \in BOOLEAN

CallsOK ==
  /\ job \in Jobs /\ mode \in {"read_only", "vote_only", "discussion"}
  /\ stage \in [Call -> Stages]
  /\ lacks \in [Call -> SUBSET Needed]

LEMMA Types == TypeOK <=> DataOK /\ CallsOK
  BY DEF TypeOK, DataOK, CallsOK, Needed, Stages

\* What a call asks for, and by whom.
LEMMA Jobs1 ==
  ASSUME CallsOK, NEW c \in Call
  PROVE  /\ op(c) \in Op /\ by(c) \in User
         /\ op(c) \in {"delete", "approve", "reject"} => on(c) \in Call
         /\ op(c) \in {"mute", "unmute"} => on(c) \in User
<1>1. job \in [Call -> Job] /\ job[c] \in Job
  BY PublicRequestsAssumption DEF CallsOK
<1> QED
  BY <1>1, PublicRequestsAssumption DEF CallsOK, Job, op, by, on

\* What a call needs is among the known needs.
LEMMA NeedsKnown == ASSUME CallsOK, NEW c \in Call PROVE Needs(c) \subseteq Needed
  BY Jobs1 DEF Needs, Needed, Op, Votes

LEMMA CountType ==
  ASSUME NEW votes \in [User -> {"none", "support", "oppose"}] PROVE Count(votes) \in Nat \X Nat
<1>1. /\ IsFiniteSet({u \in User : votes[u] = "support"})
      /\ IsFiniteSet({u \in User : votes[u] = "oppose"})
  BY FS_Subset, PublicRequestsAssumption
<1> QED
  BY <1>1, FS_CardinalityType DEF Count

\* The initial state satisfies the invariant.
LEMMA InitInv == Init => Inv
<1> SUFFICES ASSUME Init PROVE Inv
  OBVIOUS
<1>1. CallsOK
  <2>1. job \in [Call -> Job]
    BY PublicRequestsAssumption DEF Init
  <2>2. \A c \in Call : op(c) \in Op
    BY <2>1 DEF op, Job
  <2>3. \A c \in Call : Needs(c) \subseteq Needed
    BY <2>2 DEF Needs, Needed, Op, Votes
  <2> QED
    BY <2>3 DEF Init, CallsOK, Stages
<1>2. DataOK
  BY PublicRequestsAssumption DEF Init, DataOK
<1>3. ChecksPassed
  BY DEF Init, ChecksPassed, Passed
<1>4. CommentsPosted /\ RejectedCommentGone
  BY DEF Init, CommentsPosted, RejectedCommentGone
<1> QED
  BY <1>1, <1>2, <1>3, <1>4, Types DEF Inv

----------------------------------------------------------------------------
(* The calls go on.                                                        *)

\* A call that waits loses none of what it has had.
LEMMA WatchInv ==
  ASSUME CallsOK, Watch
  PROVE  /\ UNCHANGED <<job, mode>> /\ lacks' \in [Call -> SUBSET Needed]
         /\ \A c \in Call :
              /\ lacks'[c] \subseteq lacks[c]
              /\ stage[c] \notin {"idle", "refused"} =>
                   \A x \in lacks'[c] : ~Has(c, x)
<1>1. UNCHANGED <<job, mode>>
  BY DEF Watch
<1>2. \A c \in Call :
        lacks'[c] = CASE stage[c] = "idle" -> lacks[c]
                      [] stage[c] = "refused" -> {}
                      [] OTHER -> {x \in lacks[c] : ~Has(c, x)}
  BY DEF Watch
<1>3. \A c \in Call : lacks'[c] \subseteq lacks[c] /\ lacks[c] \in SUBSET Needed
  BY <1>2 DEF CallsOK
<1>4. lacks' = [c \in Call |-> lacks'[c]]
  BY DEF Watch
<1>5. \A c \in Call : stage[c] \notin {"idle", "refused"} => \A x \in lacks'[c] : ~Has(c, x)
  BY <1>2
<1>6. lacks' \in [Call -> SUBSET Needed]
  BY <1>3, <1>4
<1> QED
  BY <1>1, <1>3, <1>5, <1>6

\* What a call has passed stays passed when it lacks less.
LEMMA PassedKept ==
  ASSUME NEW c \in Call, NEW s, NEW before, NEW after, after \subseteq before,
         UNCHANGED job, hidden => hidden', Passed(c, s, before)
  PROVE  Passed(c, s, after)'
  BY DEF Passed, Needs, op

\* A call moves; the others stay where they are.
LEMMA MoveInv ==
  ASSUME CallsOK, ChecksPassed, NEW c \in Call, NEW s \in Stages, Goto(c, s), hidden => hidden',
         Passed(c, s, lacks'[c])
  PROVE  /\ CallsOK' /\ ChecksPassed' /\ stage'[c] = s
         /\ \A d \in Call \ {c} : stage'[d] = stage[d]
<1>1. /\ stage' \in [Call -> Stages] /\ stage'[c] = s
      /\ \A d \in Call \ {c} : stage'[d] = stage[d]
  BY DEF CallsOK, Goto
<1>2. /\ UNCHANGED <<job, mode>> /\ lacks' \in [Call -> SUBSET Needed]
      /\ \A d \in Call : lacks'[d] \subseteq lacks[d]
  BY WatchInv DEF Goto
<1>3. CallsOK'
  BY <1>1, <1>2 DEF CallsOK
<1>4. ASSUME NEW d \in Call PROVE Passed(d, stage[d], lacks[d])'
  <2>1. CASE d = c
    <3>1. PICK m : m = lacks'[c]
      OBVIOUS
    <3>2. m \subseteq m /\ Passed(c, s, m)
      BY <3>1
    <3>3. Passed(c, s, m)'
      BY <1>2, <3>2, PassedKept
    <3> QED
      BY <1>1, <2>1, <3>1, <3>3 DEF Passed, Needs, op
  <2>2. CASE d # c
    <3>1. PICK m : m = lacks'[d]
      OBVIOUS
    <3>2. m \subseteq lacks[d] /\ Passed(d, stage[d], lacks[d])
      BY <1>2, <3>1 DEF ChecksPassed
    <3>3. PICK k : k = stage[d]
      OBVIOUS
    <3>4. Passed(d, k, m)'
      BY <1>2, <3>2, <3>3, PassedKept
    <3> QED
      BY <1>1, <2>2, <3>1, <3>3, <3>4 DEF Passed, Needs, op
  <2> QED
    BY <2>1, <2>2
<1> QED
  BY <1>1, <1>3, <1>4 DEF ChecksPassed

\* What refusing a call needs: nothing.
LEMMA RefusedPasses ==
  ASSUME NEW c \in Call, NEW m, m \subseteq Needs(c), NEW s \in {"refused", "asked"}
  PROVE  Passed(c, s, m)
  BY DEF Passed

\* A call that moves without touching comments and items.
LEMMA QuietInv ==
  ASSUME Inv, NEW c \in Call, NEW s \in Stages, Goto(c, s), stage[c] # "done",
         stage[c] = "decided" => s = "done", Passed(c, s, lacks'[c]),
         UNCHANGED <<comment, item>>, hidden => hidden', DataOK'
  PROVE  Inv'
<1>1. CallsOK /\ ChecksPassed /\ CommentsPosted /\ RejectedCommentGone
  BY Types DEF Inv
<1>2. /\ CallsOK' /\ ChecksPassed' /\ stage'[c] = s
      /\ \A d \in Call \ {c} : stage'[d] = stage[d]
  BY <1>1, MoveInv
<1>3. CommentsPosted' /\ RejectedCommentGone'
  BY <1>1, <1>2 DEF CommentsPosted, RejectedCommentGone, Written
<1>4. TypeOK'
  BY <1>2 DEF TypeOK, DataOK, CallsOK, Needed, Stages
<1> QED
  BY <1>2, <1>3, <1>4 DEF Inv

\* What is known of a call that moves.
LEMMA Known ==
  ASSUME Inv, NEW c \in Call, Watch
  PROVE  /\ DataOK /\ CallsOK /\ lacks'[c] \subseteq lacks[c] /\ lacks'[c] \subseteq Needs(c)
         /\ Passed(c, stage[c], lacks'[c])
         /\ stage[c] \notin {"idle", "refused"} => \A x \in lacks'[c] : ~Has(c, x)
         /\ op(c) \in Op
<1>1. DataOK /\ CallsOK /\ Passed(c, stage[c], lacks[c])
  BY Types DEF Inv, ChecksPassed
<1>2. /\ lacks'[c] \subseteq lacks[c]
      /\ stage[c] \notin {"idle", "refused"} => \A x \in lacks'[c] : ~Has(c, x)
  BY <1>1, WatchInv
<1>3. lacks'[c] \subseteq Needs(c) /\ Passed(c, stage[c], lacks'[c])
  BY <1>1, <1>2 DEF Passed
<1> QED
  BY <1>1, <1>2, <1>3, Jobs1

\* One more read.
LEMMA CheckInv ==
  ASSUME Inv, NEW c \in Call, NEW s \in Stages, Goto(c, s), stage[c] \notin {"decided", "done"},
         s # "refused" => Passed(c, s, lacks'[c]),
         UNCHANGED <<hidden, status, role, mute, vote, comment, item, marked, tally, told>>,
         flagged' \subseteq Call
  PROVE  Inv'
<1>1. DataOK /\ lacks'[c] \subseteq Needs(c)
  BY Known DEF Goto
<1>2. DataOK'
  BY <1>1 DEF DataOK, told
<1>3. Passed(c, s, lacks'[c])
  BY <1>1 DEF Passed
<1> QED
  BY <1>2, <1>3, QuietInv

LEMMA ReadInv ==
  ASSUME Inv, NEW c \in Call,
         Begin(c) \/ CheckMute(c) \/ Judge(c) \/ ReadRequest(c) \/ ReadActor(c) \/ ReadRole(c)
  PROVE  Inv'
<1>1. Watch /\ flagged \subseteq Call
  BY Types DEF Begin, CheckMute, Judge, ReadRequest, ReadActor, ReadRole, Check, Goto, Inv, DataOK
<1>2. /\ DataOK /\ lacks'[c] \subseteq Needs(c) /\ Passed(c, stage[c], lacks'[c])
      /\ stage[c] \notin {"idle", "refused"} => \A x \in lacks'[c] : ~Has(c, x)
      /\ op(c) \in Op
  BY <1>1, Known
<1>3. CASE Begin(c)
  <2>1. Goto(c, "asked") /\ Passed(c, "asked", lacks'[c])
    BY <1>2, <1>3 DEF Begin, Check, Passed
  <2> QED
    BY <1>1, <1>3, <2>1, CheckInv DEF Begin, Check, Stages
<1>4. CASE CheckMute(c)
  <2>1. op(c) = "comment" /\ stage[c] = "asked"
    BY <1>4 DEF CheckMute, Check
  <2>2. hidden \/ ~Muted(by(c)) => Passed(c, "heard", lacks'[c])
    BY <1>2, <2>1 DEF Passed, Has
  <2>3. \/ Goto(c, "refused")
        \/ Goto(c, "heard") /\ Passed(c, "heard", lacks'[c])
    BY <1>4, <2>2 DEF CheckMute, Check
  <2> QED
    BY <1>1, <1>4, <2>1, <2>3, CheckInv DEF CheckMute, Check, Stages
<1>5. CASE Judge(c)
  <2>1. ~hidden => Passed(c, "judged", lacks'[c])
    BY <1>2, <1>5 DEF Passed, Judge
  <2>2. \/ Goto(c, "refused")
        \/ Goto(c, "judged") /\ Passed(c, "judged", lacks'[c])
    BY <1>5, <2>1 DEF Judge
  <2>3. flagged' \subseteq Call
    BY <1>1, <1>5 DEF Judge
  <2> QED
    BY <1>5, <2>2, <2>3, CheckInv DEF Judge, Stages
<1>6. CASE ReadRequest(c)
  <2>1. /\ op(c) \in Votes \cup {"comment", "delete", "hide", "status"}
        /\ stage[c] = IF op(c) = "comment" THEN "judged" ELSE "asked"
    BY <1>6 DEF ReadRequest, Check
  <2>2. Found(c) => \A x \in lacks'[c] : x \notin {"open", "mode"}
    <3>1. CASE op(c) \in {"delete", "hide", "status"}
      BY <1>2, <2>1, <3>1 DEF Found, Has, Needs, Votes
    <3>2. CASE op(c) \in Votes \cup {"comment"}
      BY <1>2, <2>1, <3>2 DEF Found, Has, Votes
    <3> QED
      BY <2>1, <3>1, <3>2
  <2>3. Found(c) => Passed(c, "read", lacks'[c])
    BY <1>2, <2>1, <2>2 DEF Passed, Votes
  <2>4. \/ Goto(c, "refused")
        \/ Goto(c, "read") /\ Passed(c, "read", lacks'[c])
    BY <1>6, <2>3 DEF ReadRequest, Check
  <2> QED
    BY <1>1, <1>6, <2>1, <2>4, CheckInv DEF ReadRequest, Check, Stages
<1>7. CASE ReadActor(c)
  <2>1. op(c) \in {"mute", "unmute"} /\ stage[c] = "asked"
    BY <1>7 DEF ReadActor, Check
  <2>2. Manages(by(c)) => Passed(c, "read", lacks'[c])
    BY <1>2, <2>1 DEF Passed, Has
  <2>3. \/ Goto(c, "refused")
        \/ Goto(c, "read") /\ Passed(c, "read", lacks'[c])
    BY <1>7, <2>2 DEF ReadActor, Check
  <2> QED
    BY <1>1, <1>7, <2>1, <2>3, CheckInv DEF ReadActor, Check, Stages
<1>8. CASE ReadRole(c)
  <2>1. /\ op(c) \notin {"approve", "reject"}
        /\ stage[c] = IF op(c) = "mark" THEN "asked" ELSE "read"
    BY <1>8 DEF ReadRole, Check
  <2>2. Admitted(c) => lacks'[c] = {}
    <3>1. CASE op(c) \in Votes \cup {"comment", "mark"}
      BY <1>2, <2>1, <3>1 DEF Passed, Admitted, Has, Needs, Votes
    <3>2. CASE op(c) \in {"delete", "hide"}
      BY <1>2, <2>1, <3>2 DEF Passed, Admitted, Has, Needs, Votes
    <3>3. CASE op(c) = "status"
      BY <1>2, <2>1, <3>3 DEF Passed, Admitted, Has, Needs, Votes
    <3>4. CASE op(c) \in {"mute", "unmute"}
      BY <1>2, <2>1, <3>4 DEF Passed, Admitted, Has, Needs, Votes
    <3> QED
      BY <1>2, <2>1, <3>1, <3>2, <3>3, <3>4 DEF Op
  <2>3. Admitted(c) => Passed(c, "admitted", lacks'[c])
    BY <2>2 DEF Passed
  <2>4. \/ Goto(c, "refused")
        \/ Goto(c, "admitted") /\ Passed(c, "admitted", lacks'[c])
    BY <1>8, <2>3 DEF ReadRole, Check
  <2> QED
    BY <1>1, <1>8, <2>1, <2>4, CheckInv DEF ReadRole, Check, Stages
<1> QED
  BY <1>3, <1>4, <1>5, <1>6, <1>7, <1>8

----------------------------------------------------------------------------
(* What the calls write.                                                   *)

\* A call that has what it needs has it to its end.
LEMMA FullPasses ==
  ASSUME Inv, NEW c \in Call, Watch,
         stage[c] \in {"admitted", "counted", "missed", "decided"},
         NEW s \in {"counted", "missed", "decided", "done", "refused"},
         s \in {"counted", "missed"} => op(c) \in Votes
  PROVE  Passed(c, s, lacks'[c])
<1>1. Passed(c, stage[c], lacks[c]) /\ lacks'[c] \subseteq lacks[c]
  BY Known DEF Inv, ChecksPassed
<1> QED
  BY <1>1 DEF Passed

LEMMA VoteInv ==
  ASSUME Inv, NEW c \in Call,
         CountVotes(c) \/ CommitVote(c) \/ MarkRead(c) \/ Broadcast(c) \/ CallFails(c)
  PROVE  Inv'
<1>1. Watch
  BY DEF CountVotes, CommitVote, MarkRead, Broadcast, CallFails, Goto
<1>2. DataOK /\ CallsOK /\ by(c) \in User /\ lacks'[c] \subseteq Needs(c)
  BY <1>1, Known, Jobs1
<1>3. op(c) \in Votes => Choice(c) \in {"none", "support", "oppose"}
  BY DEF Choice, Votes
<1>4. CASE CountVotes(c)
  <2>1. PICK s \in {"counted", "missed"} : Goto(c, s) /\ stage[c] = "admitted" /\ op(c) \in Votes
    BY <1>4 DEF CountVotes
  <2>2. Count([vote EXCEPT ![by(c)] = Choice(c)]) \in Nat \X Nat
    BY <1>2, <1>3, <2>1, CountType DEF DataOK
  <2>3. DataOK'
    BY <1>2, <1>4, <2>2 DEF CountVotes, DataOK
  <2>4. Passed(c, s, lacks'[c])
    BY <1>1, <2>1, FullPasses
  <2> QED
    BY <1>4, <2>1, <2>3, <2>4, QuietInv DEF CountVotes, Stages
<1>5. CASE CommitVote(c)
  <2>1. Goto(c, "decided") /\ stage[c] \in {"counted", "missed"}
    BY <1>5 DEF CommitVote
  <2>2. stage[c] = "counted" => op(c) \in Votes
    BY <2>1 DEF Inv, ChecksPassed, Passed
  <2>3. DataOK'
    BY <1>2, <1>3, <1>5, <2>2 DEF CommitVote, DataOK, told
  <2>4. Passed(c, "decided", lacks'[c])
    BY <1>1, <2>1, FullPasses
  <2> QED
    BY <1>5, <2>1, <2>3, <2>4, QuietInv DEF CommitVote, Stages
<1>6. CASE MarkRead(c)
  <2>1. DataOK'
    BY <1>2, <1>6 DEF MarkRead, DataOK, told
  <2>2. Passed(c, "done", lacks'[c])
    BY <1>1, <1>6, FullPasses DEF MarkRead
  <2> QED
    BY <1>6, <2>1, <2>2, QuietInv DEF MarkRead, Stages
<1>7. CASE Broadcast(c)
  <2>1. DataOK'
    BY <1>2, <1>7 DEF Broadcast, DataOK
  <2>2. Passed(c, "done", lacks'[c])
    BY <1>1, <1>7, FullPasses DEF Broadcast
  <2> QED
    BY <1>7, <2>1, <2>2, QuietInv DEF Broadcast, Stages
<1>8. CASE CallFails(c)
  <2>1. DataOK'
    BY <1>2, <1>8 DEF CallFails, DataOK
  <2>2. CASE stage[c] = "decided"
    <3>1. Goto(c, "done") /\ Passed(c, "done", lacks'[c])
      BY <1>1, <1>8, <2>2, FullPasses DEF CallFails
    <3> QED
      BY <1>8, <2>1, <2>2, <3>1, QuietInv DEF CallFails, Stages
  <2>3. CASE stage[c] # "decided"
    <3>1. Goto(c, "refused") /\ Passed(c, "refused", lacks'[c])
      BY <1>2, <1>8, <2>3 DEF CallFails, Passed
    <3> QED
      BY <1>8, <2>1, <2>3, <3>1, QuietInv DEF CallFails, Stages
  <2> QED
    BY <2>2, <2>3
<1> QED
  BY <1>4, <1>5, <1>6, <1>7, <1>8

LEMMA ManageInv ==
  ASSUME Inv, NEW c \in Call, Hide(c) \/ UpdateStatus(c) \/ SetMute(c) \/ ClearMute(c)
  PROVE  Inv'
<1>1. Watch /\ stage[c] = "admitted"
  BY DEF Hide, UpdateStatus, SetMute, ClearMute, Goto
<1>2. DataOK /\ CallsOK /\ (op(c) \in {"mute", "unmute"} => on(c) \in User)
  BY <1>1, Known, Jobs1
<1>3. PICK s \in {"done", "decided", "refused"} : Goto(c, s)
  BY DEF Hide, UpdateStatus, SetMute, ClearMute
<1>4. DataOK' /\ UNCHANGED <<comment, item>> /\ (hidden => hidden')
  <2>1. CASE Hide(c)
    BY <1>2, <2>1 DEF Hide, DataOK, told
  <2>2. CASE UpdateStatus(c)
    BY <1>2, <2>2 DEF UpdateStatus, DataOK, told
  <2>3. CASE SetMute(c)
    <3>1. PICK m \in {"timed", "permanent"} : mute' = [mute EXCEPT ![on(c)] = m]
      BY <2>3 DEF SetMute
    <3>2. mute' \in [User -> {"none", "timed", "permanent", "over"}]
      BY <1>2, <3>1 DEF DataOK
    <3> QED
      BY <1>2, <2>3, <3>2 DEF SetMute, DataOK, told
  <2>4. CASE ClearMute(c)
    BY <1>2, <2>4 DEF ClearMute, DataOK, told
  <2> QED
    BY <2>1, <2>2, <2>3, <2>4
<1>5. Passed(c, s, lacks'[c])
  BY <1>1, FullPasses
<1> QED
  BY <1>1, <1>3, <1>4, <1>5, QuietInv DEF Stages

\* A call that writes comments and items; an item belongs to a posted comment.
LEMMA CommentInv ==
  ASSUME Inv, NEW c \in Call,
         PostComment(c) \/ DeleteComment(c) \/ ApproveComment(c) \/ RejectComment(c)
  PROVE  Inv'
<1>1. Watch /\ UNCHANGED hidden
  BY DEF PostComment, DeleteComment, ApproveComment, RejectComment, Goto
<1>2. /\ DataOK /\ CallsOK /\ lacks'[c] \subseteq Needs(c)
      /\ op(c) \in {"delete", "approve", "reject"} => on(c) \in Call
      /\ stage[c] \notin {"idle", "refused"} => \A x \in lacks'[c] : ~Has(c, x)
  BY <1>1, Known, Jobs1
<1>3. ChecksPassed /\ CommentsPosted /\ RejectedCommentGone
  BY DEF Inv
<1>4. CASE PostComment(c)
  <2>1. Goto(c, "decided") /\ stage[c] = "admitted" /\ Passed(c, "decided", lacks'[c])
    BY <1>1, <1>4, FullPasses DEF PostComment
  <2>2. /\ CallsOK' /\ ChecksPassed' /\ stage'[c] = "decided"
        /\ \A d \in Call \ {c} : stage'[d] = stage[d]
    BY <1>1, <1>2, <1>3, <2>1, MoveInv DEF Stages
  <2>3. item[c] = "none" /\ item'[c] # "rejected"
    BY <1>2, <1>3, <1>4, <2>1 DEF CommentsPosted, Written, PostComment, DataOK
  <2>4. DataOK' /\ \A d \in Call \ {c} : item'[d] = item[d] /\ comment'[d] = comment[d]
    BY <1>2, <1>4 DEF DataOK, PostComment, told
  <2>5. CommentsPosted' /\ RejectedCommentGone'
    BY <1>3, <2>2, <2>3, <2>4 DEF CommentsPosted, RejectedCommentGone, Written
  <2> QED
    BY <2>2, <2>4, <2>5 DEF Inv, TypeOK, DataOK, CallsOK, Needed, Stages
<1>5. CASE ~PostComment(c)
  <2>1. PICK s \in Stages :
          /\ Goto(c, s) /\ stage[c] \in {"admitted", "asked"} /\ Passed(c, s, lacks'[c])
    <3>1. CASE DeleteComment(c)
      <4>1. PICK s \in {"decided", "refused"} : Goto(c, s) /\ stage[c] = "admitted"
        BY <3>1 DEF DeleteComment
      <4> QED
        BY <1>1, <4>1, FullPasses DEF Stages
    <3>2. CASE ApproveComment(c)
      <4>1. \/ Goto(c, "refused")
            \/ Goto(c, "done") /\ Moderates(by(c))
        BY <3>2 DEF ApproveComment
      <4>2. Moderates(by(c)) => lacks'[c] = {}
        BY <1>2, <3>2 DEF ApproveComment, Needs, Has, Votes
      <4> QED
        BY <1>2, <3>2, <4>1, <4>2 DEF ApproveComment, Passed, Stages
    <3>3. CASE RejectComment(c)
      <4>1. \/ Goto(c, "refused")
            \/ Goto(c, "done") /\ Moderates(by(c)) /\ ~hidden
        BY <3>3 DEF RejectComment
      <4>2. Moderates(by(c)) /\ ~hidden => lacks'[c] = {}
        BY <1>2, <3>3 DEF RejectComment, Needs, Has, Votes
      <4> QED
        BY <1>2, <3>3, <4>1, <4>2 DEF RejectComment, Passed, Stages
    <3> QED
      BY <1>5, <3>1, <3>2, <3>3
  <2>2. /\ CallsOK' /\ ChecksPassed' /\ stage'[c] = s
        /\ \A d \in Call \ {c} : stage'[d] = stage[d]
    BY <1>1, <1>2, <1>3, <2>1, MoveInv
  <2>3. DataOK'
    BY <1>2, <1>5 DEF DataOK, DeleteComment, ApproveComment, RejectComment, told
  <2>4. \A d \in Call :
          /\ item'[d] # "none" => item[d] # "none"
          /\ comment'[d] # "none" => comment[d] # "none"
          /\ comment[d] = "deleted" => comment'[d] = "deleted"
          /\ item'[d] = "rejected" => item[d] = "rejected" \/ comment'[d] = "deleted"
    BY <1>2, <1>5 DEF DataOK, DeleteComment, ApproveComment, RejectComment
  <2>5. CommentsPosted' /\ RejectedCommentGone'
    BY <1>3, <2>1, <2>2, <2>4 DEF CommentsPosted, RejectedCommentGone, Written
  <2> QED
    BY <2>2, <2>3, <2>5 DEF Inv, TypeOK, DataOK, CallsOK, Needed, Stages
<1> QED
  BY <1>4, <1>5

\* What happens besides: no call moves.
LEMMA OthersInv == ASSUME Inv, NEW u \in User, Others(u) PROVE Inv'
<1>1. Watch /\ UNCHANGED <<hidden, status, vote, comment, item, marked, stage, flagged, tally, told>>
  BY DEF Others, ChangeRole, AutoMute, Expire, calls
<1>2. DataOK /\ CallsOK /\ ChecksPassed /\ CommentsPosted /\ RejectedCommentGone
  BY Types DEF Inv
<1>3. DataOK'
  BY <1>1, <1>2 DEF DataOK, Others, ChangeRole, AutoMute, Expire, told
<1>4. /\ UNCHANGED <<job, mode>> /\ lacks' \in [Call -> SUBSET Needed]
      /\ \A c \in Call : lacks'[c] \subseteq lacks[c]
  BY <1>1, <1>2, WatchInv
<1>5. CallsOK'
  BY <1>1, <1>2, <1>4 DEF CallsOK
<1>6. ChecksPassed'
  BY <1>1, <1>2, <1>4 DEF ChecksPassed, Passed, Needs, op
<1>7. CommentsPosted' /\ RejectedCommentGone'
  BY <1>1, <1>2 DEF CommentsPosted, RejectedCommentGone, Written
<1> QED
  BY <1>3, <1>5, <1>6, <1>7 DEF Inv, TypeOK, DataOK, CallsOK, Needed, Stages

\* Every step keeps the invariant.
LEMMA NextInv == ASSUME Inv, [Next]_vars PROVE Inv'
<1>1. CASE UNCHANGED vars
  BY <1>1 DEF vars, calls, told, Inv, TypeOK, ChecksPassed, Passed, Needs, op, CommentsPosted, Written,
     RejectedCommentGone
<1>2. ASSUME NEW c \in Call, Serve(c) PROVE Inv'
  BY <1>2, ReadInv, VoteInv, ManageInv, CommentInv DEF Serve
<1>3. ASSUME NEW u \in User, Others(u) PROVE Inv'
  BY <1>3, OthersInv
<1> QED
  BY <1>1, <1>2, <1>3 DEF Next

LEMMA Inductive == Spec => []Inv
  BY InitInv, NextInv, PTL DEF Spec

\* Every variable keeps its type.
THEOREM TypeCorrect == Spec => []TypeOK
<1>1. Inv => TypeOK
  BY DEF Inv
<1> QED
  BY <1>1, Inductive, PTL

\* Votes, comments and read marks come from those who could make them.
THEOREM PostsJustified == Spec => []PostingJustified
<1>1. Inv => PostingJustified
  BY DEF Inv, ChecksPassed, Passed, PostingJustified, Written
<1> QED
  BY <1>1, Inductive, PTL

\* Moderators' acts come from those who could do them.
THEOREM ActsJustified == Spec => []ModeratingJustified
<1>1. Inv => ModeratingJustified
  BY DEF Inv, ChecksPassed, Passed, ModeratingJustified, Written
<1> QED
  BY <1>1, Inductive, PTL

\* A rejected comment is a deleted comment.
THEOREM RejectedIsGone == Spec => []RejectedCommentGone
<1>1. Inv => RejectedCommentGone
  BY DEF Inv
<1> QED
  BY <1>1, Inductive, PTL

----------------------------------------------------------------------------
(* The refinement of ReviewedContent.                                      *)

\* A call that writes posts, deletes or decides one comment, in one step.
LEMMA ServeReviewed ==
  ASSUME Inv, NEW c \in Call, Serve(c)
  PROVE  [Comments!Next]_(Comments!rvars)
<1> DEFINE Content == [d \in Call |-> IF comment[d] = "deleted" THEN "gone" ELSE comment[d]]
           Out == {d \in Call : item[d] # "none"}
<1>1. /\ DataOK /\ CallsOK /\ CommentsPosted
      /\ op(c) \in {"delete", "approve", "reject"} => on(c) \in Call
  BY Types, Jobs1 DEF Inv
<1>2. ASSUME NEW d \in Call PROVE [e \in Call |-> e][d] = d
  OBVIOUS
<1>3. CASE PostComment(c)
  <2>1. item[c] = "none" /\ comment[c] = "none"
    BY <1>1, <1>3 DEF PostComment, CommentsPosted, Written
  <2>2. Content' = [Content EXCEPT ![c] = "live"] /\ Content[c] = "none"
    BY <1>1, <1>3, <2>1 DEF PostComment, DataOK
  <2>3. CASE c \in flagged
    <3>1. item' = [item EXCEPT ![c] = "pending"]
      BY <1>3, <2>3 DEF PostComment
    <3>2. Out' = Out \cup {c}
      BY <1>1, <3>1 DEF DataOK
    <3>3. Comments!Submit(c)
      BY <1>2, <2>1, <2>2, <3>1, <3>2
         DEF Comments!Submit, Comments!Decide, Comments!New, Comments!Appear
    <3> QED
      BY <3>3 DEF Comments!Next
  <2>4. CASE c \notin flagged
    <3>1. item' = item /\ Out' = Out
      BY <1>3, <2>4 DEF PostComment
    <3>2. Comments!Pass(c)
      BY <1>2, <2>1, <2>2, <3>1 DEF Comments!Pass, Comments!New, Comments!Appear
    <3> QED
      BY <3>2 DEF Comments!Next
  <2> QED
    BY <2>3, <2>4
<1>4. CASE DeleteComment(c)
  <2>1. PICK r \in Call : on(c) = r /\ item' = item
    BY <1>1, <1>4 DEF DeleteComment
  <2>2. CASE comment[r] = "live"
    <3>1. comment' = [comment EXCEPT ![r] = "deleted"]
      BY <1>4, <2>1, <2>2 DEF DeleteComment
    <3>2. Content' = [Content EXCEPT ![r] = "gone"] /\ Content[r] = "live"
      BY <1>1, <2>1, <2>2, <3>1 DEF DataOK
    <3>3. Comments!TakeAway(r)
      BY <2>1, <3>2 DEF Comments!TakeAway
    <3> QED
      BY <2>1, <3>3 DEF Comments!Next
  <2>3. CASE comment[r] # "live"
    BY <1>4, <2>1, <2>3 DEF DeleteComment, Comments!rvars
  <2> QED
    BY <2>2, <2>3
<1>5. CASE ApproveComment(c)
  <2>1. PICK r \in Call : on(c) = r /\ comment' = comment
    BY <1>1, <1>5 DEF ApproveComment
  <2>2. CASE item' # item
    <3>1. item[r] = "pending" /\ item' = [item EXCEPT ![r] = "approved"]
      BY <1>5, <2>1, <2>2 DEF ApproveComment
    <3>2. r \in Out /\ Out' = Out \cup {r}
      BY <1>1, <2>1, <3>1 DEF DataOK
    <3>3. Comments!Approve(r)
      BY <2>1, <3>1, <3>2 DEF Comments!Approve, Comments!Decide
    <3> QED
      BY <2>1, <3>3 DEF Comments!Next
  <2> QED
    BY <2>1, <2>2 DEF Comments!rvars
<1>6. CASE RejectComment(c)
  <2>1. PICK r \in Call : on(c) = r
    BY <1>1, <1>6 DEF RejectComment
  <2>2. CASE item' # item
    <3>1. /\ item[r] = "pending" /\ item' = [item EXCEPT ![r] = "rejected"]
          /\ comment[r] = "live" /\ comment' = [comment EXCEPT ![r] = "deleted"]
      BY <1>6, <2>1, <2>2 DEF RejectComment
    <3>2. r \in Out /\ Out' = Out
      BY <1>1, <2>1, <3>1 DEF DataOK
    <3>3. Content' = [Content EXCEPT ![r] = "gone"] /\ Content[r] = "live"
      BY <1>1, <2>1, <3>1 DEF DataOK
    <3>4. Comments!Reject(r)
      BY <1>2, <2>1, <3>1, <3>2, <3>3 DEF Comments!Reject, Comments!Decide
    <3> QED
      BY <2>1, <3>4 DEF Comments!Next
  <2>3. CASE item' = item
    <3>1. comment' = comment
      BY <1>1, <1>6, <2>1, <2>3 DEF RejectComment, DataOK
    <3> QED
      BY <2>3, <3>1 DEF Comments!rvars
  <2> QED
    BY <2>2, <2>3
<1>7. CASE ~(PostComment(c) \/ DeleteComment(c) \/ ApproveComment(c) \/ RejectComment(c))
  <2>1. UNCHANGED <<item, comment>>
    BY <1>7 DEF Serve, Begin, Check, CheckMute, Judge, ReadRequest, ReadActor, ReadRole,
                CountVotes, CommitVote, MarkRead, Hide, UpdateStatus, SetMute, ClearMute,
                Broadcast, CallFails
  <2> QED
    BY <2>1 DEF Comments!rvars
<1> QED
  BY <1>3, <1>4, <1>5, <1>6, <1>7

\* Comments, with calls that overlap, implement content whose reviews and
\* deletions are single steps (CreatePublicRequestComment,
\* ReviewContentModerationItem, DeletePublicRequestComment).
THEOREM CommentsAreReviewed == Spec => CommentsReviewed
<1>1. Init => Comments!Init
  BY DEF Init, Comments!Init
<1>2. Inv /\ [Next]_vars => [Comments!Next]_(Comments!rvars)
  <2> SUFFICES ASSUME Inv, [Next]_vars PROVE [Comments!Next]_(Comments!rvars)
    OBVIOUS
  <2>1. ASSUME (\E u \in User : Others(u)) \/ UNCHANGED vars
        PROVE  [Comments!Next]_(Comments!rvars)
    BY <2>1 DEF Others, ChangeRole, AutoMute, Expire, vars, Comments!rvars
  <2> QED
    BY <2>1, ServeReviewed DEF Next
<1> QED
  BY <1>1, <1>2, Inductive, PTL DEF Spec, CommentsReviewed, Comments!Spec

----------------------------------------------------------------------------
(* The counts shown.                                                       *)

\* A step that touches neither votes nor counts, nor who is counting.
LEMMA TallyKept ==
  ASSUME TallyTrue, TallyExact, UNCHANGED <<job, vote, tally, shown, blurred>>, hidden => hidden',
         \A c \in Call :
           \/ stage'[c] = stage[c]
           \/ c \notin Counting /\ stage'[c] \notin {"counted", "missed", "decided"}
           \/ op(c) \notin Votes
  PROVE  TallyTrue' /\ TallyExact'
<1>1. /\ \A c \in Call : op(c)' = op(c) /\ by(c)' = by(c) /\ Choice(c)' = Choice(c)
      /\ \A votes : Count(votes)' = Count(votes)
  BY DEF op, by, Choice, Count
<1>2. Counting' = Counting /\ \A c \in Counting : stage'[c] = stage[c]
  BY <1>1 DEF Counting
<1>3. ASSUME ~blurred', NEW c \in Counting', NEW d \in Counting'
      PROVE  c = d
  BY <1>2, <1>3 DEF TallyTrue
<1>4. ASSUME ~blurred', NEW c \in Counting'
      PROVE  tally'[c] = Count(IF stage'[c] = "counted"
                               THEN [vote' EXCEPT ![by(c)'] = Choice(c)']
                               ELSE vote')
  <2>1. /\ tally'[c] = tally[c]
        /\ stage'[c] = stage[c]
        /\ [vote' EXCEPT ![by(c)'] = Choice(c)'] = [vote EXCEPT ![by(c)] = Choice(c)]
    BY <1>1, <1>2, <1>4 DEF Counting
  <2> QED
    BY <1>2, <1>4, <2>1 DEF TallyTrue
<1>5. TallyTrue'
  <2>1. \A c \in Counting' :
          tally'[c] = Count(IF stage[c]' = "counted"
                            THEN [vote EXCEPT ![by(c)] = Choice(c)]'
                            ELSE vote') \/ blurred'
    BY <1>4
  <2> QED
    BY <1>1, <1>3, <2>1, Zenon DEF TallyTrue
<1>6. TallyExact'
  BY <1>1, <1>2 DEF TallyExact
<1> QED
  BY <1>5, <1>6

\* One call at a time between the count and the event is what the counts need.
LEMMA TallyStep ==
  ASSUME Inv, TallyTrue, TallyExact, [Next]_vars
  PROVE  TallyTrue' /\ TallyExact'
<1>1. DataOK /\ CallsOK
  BY Types DEF Inv
<1>2. ASSUME UNCHANGED job PROVE \A c \in Call : op(c)' = op(c) /\ by(c)' = by(c) /\ Choice(c)' = Choice(c)
  BY <1>2 DEF op, by, Choice
<1>3. ASSUME NEW c \in Call, CountVotes(c) PROVE TallyTrue' /\ TallyExact'
  <2>1. PICK s \in {"counted", "missed"} :
          /\ Goto(c, s) /\ (s = "missed" => op(c) = "clear" /\ vote[by(c)] = "none")
          /\ op(c) \in Votes
    BY <1>3 DEF CountVotes
  <2>2. /\ stage'[c] = s /\ \A d \in Call \ {c} : stage'[d] = stage[d]
        /\ tally'[c] = Count([vote EXCEPT ![by(c)] = Choice(c)])
        /\ UNCHANGED <<job, vote>> /\ blurred' = (Counting # {}) /\ stage[c] = "admitted"
    BY <1>1, <1>3, <2>1 DEF CountVotes, Goto, Watch, CallsOK, DataOK
  <2>3. Counting' = Counting \cup {c}
    BY <1>2, <2>1, <2>2 DEF Counting
  <2>4. s = "missed" => [vote EXCEPT ![by(c)] = Choice(c)] = vote
    BY <1>1, <2>1 DEF Choice, DataOK
  <2>5. Count([vote EXCEPT ![by(c)] = Choice(c)])' = Count([vote EXCEPT ![by(c)] = Choice(c)])
        /\ Count(vote)' = Count(vote)
    BY <1>2, <2>2 DEF Count
  <2> HIDE DEF Counting
  <2>6. TallyTrue'
    BY <2>2, <2>3, <2>4, <2>5 DEF TallyTrue
  <2>7. TallyExact'
    BY <2>3 DEF TallyExact
  <2> QED
    BY <2>6, <2>7
<1>4. ASSUME NEW c \in Call, CommitVote(c) PROVE TallyTrue' /\ TallyExact'
  <2>1. /\ stage[c] \in {"counted", "missed"} /\ op(c) \in Votes
        /\ stage'[c] = "decided" /\ \A d \in Call \ {c} : stage'[d] = stage[d]
        /\ vote' = IF stage[c] = "missed" THEN vote ELSE [vote EXCEPT ![by(c)] = Choice(c)]
        /\ UNCHANGED <<job, tally, blurred>>
    BY <1>1, <1>4 DEF CommitVote, Goto, Watch, CallsOK, Inv, ChecksPassed, Passed, told
  <2>2. Counting' = Counting /\ c \in Counting
    BY <1>2, <2>1 DEF Counting
  <2>3. ~blurred => tally'[c] = Count(vote)' /\ \A d \in Counting : d = c
    BY <2>1, <2>2 DEF TallyTrue, Count
  <2>4. TallyTrue'
    BY <2>1, <2>2, <2>3 DEF TallyTrue
  <2>5. TallyExact'
    BY <2>2 DEF TallyExact
  <2> QED
    BY <2>4, <2>5
<1>5. ASSUME NEW c \in Call, Broadcast(c) PROVE TallyTrue' /\ TallyExact'
  <2>1. /\ stage[c] = "decided" /\ stage'[c] = "done" /\ \A d \in Call \ {c} : stage'[d] = stage[d]
        /\ UNCHANGED <<job, hidden, vote, tally, blurred>>
        /\ shown' = IF op(c) \in Votes /\ ~hidden THEN tally[c] ELSE shown
    BY <1>1, <1>5 DEF Broadcast, Goto, Watch, CallsOK
  <2>2. CASE op(c) \notin Votes
    BY <1>5, <2>1, <2>2, TallyKept DEF Broadcast
  <2>3. CASE op(c) \in Votes
    <3>1. Counting' = Counting \ {c} /\ c \in Counting
      BY <1>2, <2>1, <2>3 DEF Counting
    <3>2. ~blurred => Counting' = {} /\ tally[c] = Count(vote)
      BY <2>1, <3>1 DEF TallyTrue
    <3>3. Count(vote)' = Count(vote)
      BY <2>1 DEF Count
    <3> HIDE DEF Counting
    <3>4. TallyTrue'
      BY <2>1, <3>2 DEF TallyTrue
    <3>5. TallyExact'
      BY <2>1, <2>3, <3>2, <3>3 DEF TallyExact
    <3> QED
      BY <3>4, <3>5
  <2> QED
    BY <2>2, <2>3
<1>6. ASSUME NEW c \in Call, CallFails(c) PROVE TallyTrue' /\ TallyExact'
  <2>1. PICK s \in {"done", "refused"} : Goto(c, s)
    BY <1>6 DEF CallFails
  <2>2. /\ stage'[c] = s /\ \A d \in Call \ {c} : stage'[d] = stage[d]
        /\ UNCHANGED <<job, hidden, vote, tally, shown>> /\ blurred' = (blurred \/ c \in Counting)
    BY <1>1, <1>6, <2>1 DEF CallFails, Goto, Watch, CallsOK
  <2>3. CASE blurred'
    BY <2>3 DEF TallyTrue, TallyExact
  <2>4. CASE ~blurred'
    BY <1>1, <2>2, <2>4, TallyKept DEF Counting, DataOK
  <2> QED
    BY <2>3, <2>4
<1>7. ASSUME NEW c \in Call,
             Begin(c) \/ CheckMute(c) \/ Judge(c) \/ ReadRequest(c) \/ ReadActor(c) \/ ReadRole(c)
      PROVE  TallyTrue' /\ TallyExact'
  <2>1. PICK s \in {"asked", "heard", "judged", "read", "admitted", "refused"} :
          /\ Goto(c, s) /\ stage[c] \in {"idle", "asked", "heard", "judged", "read"}
    BY <1>7 DEF Begin, CheckMute, Judge, ReadRequest, ReadActor, ReadRole, Check
  <2>2. UNCHANGED <<job, hidden, vote, tally, shown, blurred>>
    BY <1>7 DEF Begin, CheckMute, Judge, ReadRequest, ReadActor, ReadRole, Check, told, Goto, Watch
  <2>3. stage'[c] = s /\ \A d \in Call \ {c} : stage'[d] = stage[d]
    BY <1>1, <2>1 DEF Goto, CallsOK
  <2> QED
    BY <2>1, <2>2, <2>3, TallyKept DEF Counting
<1>8. ASSUME NEW c \in Call,
             \/ PostComment(c) \/ MarkRead(c) \/ DeleteComment(c) \/ Hide(c) \/ UpdateStatus(c)
             \/ SetMute(c) \/ ClearMute(c) \/ ApproveComment(c) \/ RejectComment(c)
      PROVE  TallyTrue' /\ TallyExact'
  <2>1. /\ op(c) \notin Votes /\ UNCHANGED <<job, vote, tally, shown, blurred>> /\ (hidden => hidden')
    BY <1>8 DEF PostComment, MarkRead, DeleteComment, Hide, UpdateStatus, SetMute, ClearMute,
       ApproveComment, RejectComment, told, Goto, Watch, Votes
  <2>2. \E s \in Stages : Goto(c, s)
    BY <1>8 DEF PostComment, MarkRead, DeleteComment, Hide, UpdateStatus, SetMute, ClearMute,
       ApproveComment, RejectComment, Stages
  <2>3. \A d \in Call \ {c} : stage'[d] = stage[d]
    BY <1>1, <2>2 DEF Goto, CallsOK
  <2> QED
    BY <2>1, <2>3, TallyKept
<1>9. ASSUME NEW u \in User, Others(u) PROVE TallyTrue' /\ TallyExact'
  BY <1>9, TallyKept DEF Others, ChangeRole, AutoMute, Expire, calls, told, Watch
<1>10. CASE UNCHANGED vars
  BY <1>10, TallyKept DEF vars, calls, told
<1> QED
  BY <1>3, <1>4, <1>5, <1>6, <1>7, <1>8, <1>9, <1>10 DEF Next, Serve

\* The counts shown last are right, unless calls overlapped or an event was lost.
THEOREM TalliesExact == Spec => []TallyExact
<1>1. Init => TallyTrue /\ TallyExact
  <2>1. ASSUME Init PROVE Counting = {} /\ shown = <<0, 0>> /\ Count(vote) = <<0, 0>>
    <3>1. {u \in User : vote[u] = "support"} = {} /\ {u \in User : vote[u] = "oppose"} = {}
      BY <2>1 DEF Init
    <3> QED
      BY <2>1, <3>1, FS_EmptySet DEF Init, Counting, Count
  <2> QED
    BY <2>1 DEF TallyTrue, TallyExact
<1>2. Inv /\ TallyTrue /\ TallyExact /\ [Next]_vars => TallyTrue' /\ TallyExact'
  BY TallyStep
<1> QED
  BY <1>1, <1>2, Inductive, PTL DEF Spec
=============================================================================
