-------------------------- MODULE ModerationProofs --------------------------
(* Proofs about Moderation, for any number of posts and moderators and any
   threshold.  Inv, defined in Moderation, is the inductive invariant. *)
EXTENDS Moderation, FiniteSetTheorems, TLAPS

\* What an edit changes is a new post.
LEMMA TargetOfPost ==
  \A p \in Post : Target(p) \in Post /\ Edits[Target(p)] = None
  BY ModerationAssumption DEF Target

\* A larger set of posts has at least as many members.
LEMMA CardinalityGrows ==
  ASSUME NEW S, NEW T, S \subseteq T, T \subseteq Post
  PROVE  /\ IsFiniteSet(T) /\ Cardinality(S) \in Nat /\ Cardinality(T) \in Nat
         /\ Cardinality(S) <= Cardinality(T)
  BY FS_Subset, FS_CardinalityType, ModerationAssumption

\* The initial state satisfies the invariant.
LEMMA InitInv == Init => Inv
<1> SUFFICES ASSUME Init PROVE Inv
  OBVIOUS
<1> USE ModerationAssumption DEF Init
<1>1. TypeOK
  BY DEF TypeOK, Stage
<1>2. Resources
  BY DEF Resources
<1>3. Locks /\ Tallies
  BY DEF Locks, Removes, Tallies
<1>4. RejectedGone /\ MuteEarned
  BY DEF RejectedGone, MuteEarned
<1> QED
  BY <1>1, <1>2, <1>3, <1>4 DEF Inv

\* An item is decided from pending, or born rejected.
LEMMA Decided ==
  ASSUME Inv, [Next]_vars, NEW p \in Post, item[p] \in {"approved", "rejected"}
  PROVE  item'[p] = item[p]
<1>1. TypeOK /\ \A q \in Post : stage[q] \notin {"done", "refused"} => item[q] = "none"
  BY DEF Inv, Tallies
<1>2. \A m \in Moderator : task[m] # None => item[task[m]] = "pending"
  BY DEF Inv, Locks
<1>3. ASSUME NEW q \in Post, Posting(q) PROVE item'[p] = item[p]
  <2>1. CASE Queue(q)
    BY <2>1, <1>1 DEF Queue, Store, TypeOK
  <2>2. CASE CommitBlock(q)
    BY <2>2, <1>1 DEF CommitBlock, Store, TypeOK
  <2> QED
    BY <1>3, <2>1, <2>2 DEF Posting, Enter, Judge, Admit, Publish, BeginBlock, PostFails
<1>4. ASSUME NEW m \in Moderator, NEW q \in Post, Reviewing(m, q) PROVE item'[p] = item[p]
  <2>1. CASE CommitApprove(m, q)
    BY <2>1, <1>1, <1>2, ModerationAssumption DEF CommitApprove, TypeOK
  <2>2. CASE CommitReject(m, q)
    BY <2>2, <1>1, <1>2, ModerationAssumption DEF CommitReject, TypeOK
  <2> QED
    BY <1>4, <2>1, <2>2 DEF Reviewing, BeginApprove, BeginReject, AbortReview
<1>5. CASE \E q \in Post : DeleteResource(q) \/ Age(q)
  BY <1>5 DEF DeleteResource, Age
<1>6. CASE \E m \in Moderator : LoseRole(m)
  BY <1>6 DEF LoseRole
<1>7. CASE LeaveGroup \/ \E s \in {"none", "manual"} : SetMute(s)
  BY <1>7 DEF LeaveGroup, SetMute
<1>8. CASE UNCHANGED vars
  BY <1>8 DEF vars
<1> QED
  BY <1>3, <1>4, <1>5, <1>6, <1>7, <1>8 DEF Next

\* A mute that was earned stays earned, since no rejection is taken back.
LEMMA EarnedStays ==
  ASSUME Inv, [Next]_vars, mute' = "auto" => mute = "auto"
  PROVE  MuteEarned'
<1> DEFINE R == {p \in Post : item[p] = "rejected"}
           Q == {p \in Post : item'[p] = "rejected"}
<1>1. R \subseteq Q /\ Q \subseteq Post
  BY Decided
<1>2. Cardinality(R) \in Nat /\ Cardinality(Q) \in Nat /\ Cardinality(R) <= Cardinality(Q)
  <2> HIDE DEF R, Q
  <2> QED
    BY <1>1, CardinalityGrows
<1>3. mute = "auto" => Cardinality(R) >= Threshold
  BY DEF Inv, MuteEarned
<1>4. mute' = "auto" => Cardinality(Q) >= Threshold
  <2> HIDE DEF R, Q
  <2> QED
    BY <1>2, <1>3, ModerationAssumption
<1> QED
  BY <1>4 DEF MuteEarned

\* A transaction mutes for items that are rejected once it commits.
LEMMA EarnedAtCommit ==
  ASSUME Inv, [Next]_vars, NEW p \in Post, AutoMute(p), item'[p] = "rejected"
  PROVE  MuteEarned'
<1>1. CASE mute' = "auto" => mute = "auto"
  BY <1>1, EarnedStays
<1>2. CASE mute' = "auto" /\ mute # "auto"
  <2> DEFINE Q == {q \in Post : item'[q] = "rejected"}
  <2>1. MuteDue(p)
    BY <1>2 DEF AutoMute
  <2>2. counted[p] \subseteq Q /\ Q \subseteq Post
    BY Decided DEF Inv, Tallies, TypeOK
  <2>3. Cardinality(counted[p]) >= Threshold
    BY <2>1 DEF MuteDue
  <2>4. Cardinality(Q) >= Threshold
    <3> HIDE DEF Q
    <3> QED
      BY <2>2, <2>3, CardinalityGrows, ModerationAssumption
  <2> QED
    BY <2>4 DEF MuteEarned
<1> QED
  BY <1>1, <1>2

\* A request moves on without touching anything another actor sees.
LEMMA RequestInv ==
  ASSUME Inv, [Next]_vars, NEW p \in Post, NEW s \in Stage,
         stage[p] \notin {"done", "refused"}, s # "done",
         stage' = [stage EXCEPT ![p] = s],
         UNCHANGED <<item, linked, aged, res, member, mute, mods, task, ruling>>,
         \/ UNCHANGED counted
         \/ counted' = [counted EXCEPT ![p] = {}]
         \/ counted' = [counted EXCEPT ![p] = Counts(p)]
  PROVE  Inv'
<1>1. TypeOK /\ Counts(p) \subseteq Post
  BY DEF Inv, Counts, Recent
<1>2. TypeOK'
  BY <1>1 DEF TypeOK
<1>3. \A q \in Post : q # p => stage'[q] = stage[q]
  BY <1>1 DEF TypeOK
<1>4. stage'[p] # "done" /\ item[p] = "none"
  BY <1>1 DEF Inv, Tallies, TypeOK
<1>5. Resources'
  BY <1>3 DEF Inv, Resources
<1>6. Locks'
  BY DEF Inv, Locks, Removes
<1>7. Tallies'
  <2>1. \A q \in Post : \A r \in counted'[q] : r = q \/ item[r] = "rejected"
    BY <1>1 DEF Inv, Tallies, TypeOK, Counts, Recent
  <2>2. \A q \in Post : stage'[q] \notin {"done", "refused"} => item[q] = "none"
    BY <1>3, <1>4 DEF Inv, Tallies
  <2> QED
    BY <2>1, <2>2 DEF Inv, Tallies
<1>8. RejectedGone'
  BY DEF Inv, RejectedGone
<1>9. MuteEarned'
  BY DEF Inv, MuteEarned
<1> QED
  BY <1>2, <1>5, <1>6, <1>7, <1>8, <1>9 DEF Inv

\* What a published post adds: a live resource of its own, or nothing.
LEMMA LandEffect ==
  ASSUME Inv, NEW p \in Post, Land(p), stage[p] \in {"publishing", "queueing"}
  PROVE  /\ res' \in [Post -> {"none", "live", "gone"}]
         /\ res[p] = "none" /\ item[p] = "none" /\ p \notin linked /\ p \notin Legacy
         /\ \A q \in Post : q # p => res'[q] = res[q]
         /\ Edits[p] # None => res'[p] = "none"
         /\ res'[Target(p)] = "live"
<1>1. TypeOK /\ Resources /\ Tallies
  BY DEF Inv
<1>2. res[p] = "none" /\ item[p] = "none" /\ p \notin linked /\ p \notin Legacy
  BY <1>1 DEF TypeOK, Resources, Tallies
<1>3. CASE Edits[p] = None
  BY <1>1, <1>2, <1>3 DEF Land, TypeOK, Target
<1>4. CASE Edits[p] # None
  BY <1>1, <1>2, <1>4 DEF Land, TypeOK
<1> QED
  BY <1>2, <1>3, <1>4

\* A post is published; queued with an item when q holds.
LEMMA PublishInv ==
  ASSUME Inv, [Next]_vars, NEW p \in Post, Publish(p) \/ Queue(p)
  PROVE  Inv'
<1>1. /\ UNCHANGED <<aged, member, mute, mods, task, ruling, counted>>
      /\ stage' = [stage EXCEPT ![p] = "done"]
      /\ stage[p] \in {"publishing", "queueing"} /\ Land(p)
  BY DEF Publish, Queue, Store, Goto, review
<1>2. \/ item' = item /\ linked' = linked
      \/ item' = [item EXCEPT ![p] = "pending"] /\ linked' = linked \cup {p}
  BY DEF Publish, Queue, Store
<1>3. TypeOK
  BY DEF Inv
<1>4. /\ res' \in [Post -> {"none", "live", "gone"}]
      /\ res[p] = "none" /\ item[p] = "none" /\ p \notin linked /\ p \notin Legacy
      /\ \A q \in Post : q # p => res'[q] = res[q]
      /\ Edits[p] # None => res'[p] = "none"
      /\ res'[Target(p)] = "live"
  BY <1>1, LandEffect
<1>5. TypeOK'
  BY <1>1, <1>2, <1>3, <1>4 DEF TypeOK, Stage
<1>6. /\ stage'[p] = "done" /\ \A q \in Post : q # p => stage'[q] = stage[q]
      /\ \A q \in Post : q # p => item'[q] = item[q]
      /\ \A q \in Post : q # p => (q \in linked' <=> q \in linked)
      /\ item'[p] \in {"none", "pending"} /\ (p \in linked' <=> item'[p] = "pending")
  BY <1>1, <1>2, <1>3, <1>4 DEF TypeOK
<1>7. \A q \in Post : Target(q) = p => res[Target(q)] = "none"
  BY <1>4
<1>8. Resources'
  <2>1. \A q \in Post : res'[q] # "none" => stage'[q] = "done"
    BY <1>4, <1>6 DEF Inv, Resources
  <2>2. \A q \in linked' : res'[Target(q)] # "none" /\ stage'[q] = "done"
    BY <1>3, <1>4, <1>5, <1>6, TargetOfPost DEF Inv, Resources, TypeOK
  <2>3. \A q \in Post : item'[q] = "pending" /\ q \notin linked' => q \in Legacy
    BY <1>6 DEF Inv, Resources
  <2>4. \A q \in Post :
          item'[q] # "none" /\ q \notin linked' /\ Edits[q] = None => res'[q] = "none"
    BY <1>4, <1>6 DEF Inv, Resources
  <2>5. \A q \in Legacy : stage'[q] = "done"
    BY <1>6, ModerationAssumption DEF Inv, Resources
  <2> QED
    BY <2>1, <2>2, <2>3, <2>4, <2>5 DEF Resources
<1>9. Locks'
  <2>1. \A m \in Moderator : task[m] # None => task[m] \in Post /\ task[m] # p
    BY <1>3, <1>4 DEF Inv, Locks, TypeOK
  <2>2. \A m \in Moderator : Removes(m)' <=> Removes(m)
    BY <1>1, <1>6, <2>1 DEF Removes
  <2>3. \A m \in Moderator : Removes(m) => task[m] \in Post /\ Target(task[m]) # p
    BY <1>4, <2>1 DEF Inv, Resources, Removes
  <2>4. \A m \in Moderator : Removes(m) => res'[Target(task[m])] = "live"
    BY <1>4, <2>3, TargetOfPost DEF Inv, Locks
  <2>5. \A m \in Moderator : task[m] # None => item'[task[m]] = "pending" /\ m \in mods
    BY <1>6, <2>1 DEF Inv, Locks
  <2> QED
    BY <1>1, <2>2, <2>4, <2>5 DEF Inv, Locks, Target
<1>10. Tallies'
  <2>1. \A q \in Post : item[q] = "rejected" => item'[q] = "rejected"
    BY <1>4, <1>6
  <2>2. \A q \in Post : \A r \in counted[q] : r \in Post
    BY <1>3 DEF TypeOK
  <2>3. \A q \in Post : \A r \in counted'[q] : r = q \/ item'[r] = "rejected"
    BY <1>1, <2>1, <2>2 DEF Inv, Tallies
  <2>4. \A q \in Post : stage'[q] \notin {"done", "refused"} => item'[q] = "none"
    BY <1>6 DEF Inv, Tallies
  <2>5. \A q \in linked' : item'[q] # "none"
    BY <1>5, <1>6 DEF Inv, Tallies, TypeOK
  <2> QED
    BY <2>3, <2>4, <2>5 DEF Tallies
<1>11. RejectedGone'
  <2> SUFFICES ASSUME NEW q \in Post, item'[q] = "rejected", Edits[q] = None \/ q \in linked'
               PROVE  res'[Target(q)] # "live"
    BY DEF RejectedGone
  <2>1. q # p /\ item[q] = "rejected" /\ (Edits[q] = None \/ q \in linked)
    BY <1>6
  <2>2. res[Target(q)] # "live" /\ Target(q) \in Post
    BY <2>1, TargetOfPost DEF Inv, RejectedGone
  <2>3. Target(q) # p
    BY <1>4, <2>1 DEF Inv, Resources, Target
  <2> QED
    BY <1>4, <2>2, <2>3
<1>12. MuteEarned'
  BY <1>1, EarnedStays
<1> QED
  BY <1>5, <1>8, <1>9, <1>10, <1>11, <1>12 DEF Inv

\* A blocked post gets an item and no resource.
LEMMA BlockInv ==
  ASSUME Inv, [Next]_vars, NEW p \in Post, CommitBlock(p)
  PROVE  Inv'
<1>1. /\ UNCHANGED <<linked, aged, res, member, mods, task, ruling>>
      /\ stage[p] = "blocking" /\ stage' = [stage EXCEPT ![p] = "refused"]
      /\ item' = [item EXCEPT ![p] = "rejected"]
      /\ counted' = [counted EXCEPT ![p] = {}] /\ AutoMute(p)
  BY DEF CommitBlock, Store, Goto, review
<1>2. TypeOK /\ Resources /\ Locks /\ Tallies /\ RejectedGone
  BY DEF Inv
<1>3. TypeOK'
  BY <1>1, <1>2 DEF TypeOK, Stage, AutoMute
<1>4. item[p] = "none" /\ res[p] = "none" /\ p \notin linked /\ p \notin Legacy
  BY <1>1, <1>2 DEF TypeOK, Resources, Tallies
<1>5. /\ stage'[p] = "refused" /\ item'[p] = "rejected" /\ counted'[p] = {}
      /\ \A q \in Post : q # p => stage'[q] = stage[q] /\ item'[q] = item[q]
      /\ \A q \in Post : q # p => counted'[q] = counted[q]
  BY <1>1, <1>2 DEF TypeOK
<1>6. Resources'
  <2>1. \A q \in linked : q \in Post /\ q # p
    BY <1>2, <1>4 DEF TypeOK
  <2>2. \A q \in Legacy : q \in Post /\ q # p
    BY <1>4, ModerationAssumption
  <2> QED
    BY <1>1, <1>2, <1>4, <1>5, <2>1, <2>2 DEF Resources
<1>7. Locks'
  <2>1. \A m \in Moderator : task[m] # None => task[m] \in Post /\ task[m] # p
    BY <1>2, <1>4 DEF Locks, TypeOK
  <2> QED
    BY <1>1, <1>2, <1>5, <2>1 DEF Locks, Removes
<1>8. Tallies'
  <2>1. \A q \in Post : \A r \in counted[q] : r \in Post
    BY <1>2 DEF TypeOK
  <2>2. \A q \in Post : \A r \in counted'[q] : r = q \/ item'[r] = "rejected"
    BY <1>2, <1>5, <2>1 DEF Tallies
  <2>3. \A q \in Post : stage'[q] \notin {"done", "refused"} => item'[q] = "none"
    BY <1>2, <1>5 DEF Tallies
  <2>4. \A q \in linked : item'[q] # "none"
    BY <1>2, <1>5 DEF Tallies, TypeOK
  <2> QED
    BY <1>1, <2>2, <2>3, <2>4 DEF Tallies
<1>9. RejectedGone'
  BY <1>1, <1>2, <1>4, <1>5 DEF RejectedGone, Target
<1>10. MuteEarned'
  BY <1>1, <1>5, EarnedAtCommit
<1> QED
  BY <1>3, <1>6, <1>7, <1>8, <1>9, <1>10 DEF Inv

\* A review takes its locks; a rejection has counted and found its resource.
LEMMA ClaimInv ==
  ASSUME Inv, [Next]_vars, NEW m \in Moderator, NEW p \in Post,
         BeginApprove(m, p) \/ BeginReject(m, p)
  PROVE  Inv'
<1>1. UNCHANGED <<stage, item, linked, aged, res, member, mute, mods>>
  BY DEF BeginApprove, BeginReject
<1>2. PICK r \in {"approve", "reject"} :
        /\ Claim(m, p, r)
        /\ r = "reject" /\ p \in linked => res[Target(p)] = "live" /\ ~Removing(Target(p))
  BY DEF BeginApprove, BeginReject
<1>3. counted' = counted \/ counted' = [counted EXCEPT ![p] = Counts(p)]
  BY DEF BeginApprove, BeginReject
<1>4. /\ task[m] = None /\ \A n \in Moderator : task[n] # p
      /\ item[p] = "pending" /\ m \in mods
      /\ task' = [task EXCEPT ![m] = p] /\ ruling' = [ruling EXCEPT ![m] = r]
  BY <1>2 DEF Claim, Unreviewed
<1>5. TypeOK /\ Locks /\ Counts(p) \subseteq Post
  BY DEF Inv, Counts, Recent
<1>6. TypeOK'
  BY <1>1, <1>3, <1>4, <1>5 DEF TypeOK
<1>7. /\ task'[m] = p /\ ruling'[m] = r
      /\ \A n \in Moderator : n # m => task'[n] = task[n] /\ ruling'[n] = ruling[n]
  BY <1>4, <1>5 DEF TypeOK
<1>8. Resources' /\ RejectedGone' /\ MuteEarned'
  BY <1>1 DEF Inv, Resources, RejectedGone, MuteEarned
<1>9. Locks'
  <2>1. \A n \in Moderator : task'[n] # None => item'[task'[n]] = "pending" /\ n \in mods'
    BY <1>1, <1>4, <1>5, <1>7 DEF Locks
  <2>2. \A n, k \in Moderator : task'[n] = task'[k] /\ task'[n] # None => n = k
    BY <1>4, <1>5, <1>7 DEF Locks
  <2>3. \A n \in Moderator : n # m => (Removes(n)' <=> Removes(n))
    BY <1>1, <1>7 DEF Removes
  <2>4. Removes(m)' => res[Target(p)] = "live" /\ ~Removing(Target(p))
    BY <1>1, <1>2, <1>7 DEF Removes
  <2>5. \A n \in Moderator : Removes(n)' => res'[Target(task'[n])] = "live"
    BY <1>1, <1>5, <1>7, <2>3, <2>4 DEF Locks
  <2>6. \A n \in Moderator : n # m /\ Removes(n)' /\ Removes(m)' => Target(task[n]) # Target(p)
    BY <2>3, <2>4 DEF Removing
  <2>7. \A n, k \in Moderator :
          Removes(n)' /\ Removes(k)' /\ Target(task'[n]) = Target(task'[k]) => n = k
    BY <1>5, <1>7, <2>3, <2>6 DEF Locks
  <2> QED
    BY <2>1, <2>2, <2>5, <2>7 DEF Locks, Target
<1>10. Tallies'
  <2>1. \A q \in Post : \A s \in counted'[q] : s = q \/ item[s] = "rejected"
    BY <1>3, <1>5 DEF Inv, Tallies, TypeOK, Counts, Recent
  <2> QED
    BY <1>1, <2>1 DEF Inv, Tallies
<1> QED
  BY <1>6, <1>8, <1>9, <1>10 DEF Inv

\* An approval publishes what had no resource yet.
LEMMA ApproveInv ==
  ASSUME Inv, [Next]_vars, NEW m \in Moderator, NEW p \in Post, CommitApprove(m, p)
  PROVE  Inv'
<1>1. /\ UNCHANGED <<stage, aged, member, mute, mods, ruling, counted>>
      /\ task[m] = p /\ ruling[m] = "approve" /\ task' = [task EXCEPT ![m] = None]
      /\ item' = [item EXCEPT ![p] = "approved"] /\ linked' = linked \cup {p}
      /\ res' = IF p \in linked THEN res ELSE [res EXCEPT ![p] = "live"]
  BY DEF CommitApprove
<1>2. TypeOK /\ Resources /\ Locks /\ Tallies /\ RejectedGone
  BY DEF Inv
<1>3. TypeOK'
  BY <1>1, <1>2 DEF TypeOK
<1>4. item[p] = "pending" /\ \A n \in Moderator : n # m => task[n] # p
  BY <1>1, <1>2, ModerationAssumption DEF Locks
<1>5. /\ task'[m] = None /\ item'[p] = "approved"
      /\ \A n \in Moderator : n # m => task'[n] = task[n]
      /\ \A q \in Post : q # p => item'[q] = item[q]
      /\ \A q \in Post : q # p => res'[q] = res[q]
  BY <1>1, <1>2 DEF TypeOK
<1>6. p \notin linked =>
        /\ p \in Legacy /\ Edits[p] = None /\ Target(p) = p /\ stage[p] = "done"
        /\ res[p] = "none" /\ res'[p] = "live"
  BY <1>1, <1>2, <1>4, ModerationAssumption DEF Resources, Target, TypeOK
<1>7. \A q \in Post : res[q] # "none" => res'[q] = res[q]
  BY <1>1, <1>5, <1>6
<1>8. Resources'
  <2>1. \A q \in Post : res'[q] # "none" => stage[q] = "done"
    BY <1>1, <1>2, <1>5, <1>6 DEF Resources
  <2>2. \A q \in linked : res'[Target(q)] # "none" /\ stage[q] = "done"
    BY <1>2, <1>7, TargetOfPost DEF Resources, TypeOK
  <2>3. res'[Target(p)] # "none" /\ stage[p] = "done"
    BY <1>6, <2>2
  <2>4. \A q \in Post : item'[q] = "pending" /\ q \notin linked' => q \in Legacy
    BY <1>1, <1>2, <1>5 DEF Resources
  <2>5. \A q \in Post :
          item'[q] # "none" /\ q \notin linked' /\ Edits[q] = None => res'[q] = "none"
    BY <1>1, <1>2, <1>5 DEF Resources
  <2> QED
    BY <1>1, <1>2, <2>1, <2>2, <2>3, <2>4, <2>5 DEF Resources
<1>9. Locks'
  <2>1. \A n \in Moderator : Removes(n)' => n # m /\ Removes(n) /\ task'[n] = task[n]
    BY <1>1, <1>4, <1>5 DEF Removes
  <2>2. \A n \in Moderator : Removes(n) => res'[Target(task[n])] = "live"
    BY <1>2, <1>7, TargetOfPost DEF Locks, Removes, TypeOK
  <2>3. \A n \in Moderator : task'[n] # None => item'[task'[n]] = "pending" /\ n \in mods
    BY <1>2, <1>4, <1>5 DEF Locks, TypeOK
  <2>4. \A n, k \in Moderator : task'[n] = task'[k] /\ task'[n] # None => n = k
    BY <1>2, <1>5 DEF Locks
  <2> QED
    BY <1>1, <1>2, <2>1, <2>2, <2>3, <2>4 DEF Locks, Target
<1>10. Tallies'
  <2>1. \A q \in Post : \A r \in counted[q] : r \in Post
    BY <1>2 DEF TypeOK
  <2>2. \A q \in Post : \A r \in counted'[q] : r = q \/ item'[r] = "rejected"
    BY <1>1, <1>2, <1>4, <1>5, <2>1 DEF Tallies
  <2>3. \A q \in linked' : item'[q] # "none"
    BY <1>1, <1>2, <1>5 DEF Tallies, TypeOK
  <2>4. \A q \in Post : stage[q] \notin {"done", "refused"} => item'[q] = "none"
    BY <1>2, <1>4, <1>5 DEF Tallies
  <2> QED
    BY <1>1, <2>2, <2>3, <2>4 DEF Tallies
<1>11. RejectedGone'
  <2> SUFFICES ASSUME NEW q \in Post, item'[q] = "rejected", Edits[q] = None \/ q \in linked'
               PROVE  res'[Target(q)] # "live"
    BY DEF RejectedGone
  <2>1. q # p /\ item[q] = "rejected" /\ (Edits[q] = None \/ q \in linked)
    BY <1>1, <1>5
  <2>2. res[Target(q)] # "live" /\ Target(q) \in Post
    BY <1>2, <2>1, TargetOfPost DEF RejectedGone
  <2>3. CASE Target(q) # p
    BY <1>5, <2>2, <2>3
  <2>4. CASE p \in linked
    BY <1>1, <2>2, <2>4
  <2>5. CASE Target(q) = p /\ p \notin linked
    <3>1. Edits[q] # None
      BY <2>1, <2>5 DEF Target
    <3>2. res[p] # "none"
      BY <1>2, <2>1, <2>5, <3>1 DEF Resources
    <3> QED
      BY <1>6, <2>5, <3>2
  <2> QED
    BY <2>3, <2>4, <2>5
<1>12. MuteEarned'
  BY <1>1, EarnedStays
<1> QED
  BY <1>3, <1>8, <1>9, <1>10, <1>11, <1>12 DEF Inv

\* A rejection removes the one resource its transaction holds.
LEMMA RejectInv ==
  ASSUME Inv, [Next]_vars, NEW m \in Moderator, NEW p \in Post, CommitReject(m, p)
  PROVE  Inv'
<1>1. /\ UNCHANGED <<stage, linked, aged, member, mods, ruling>>
      /\ task[m] = p /\ ruling[m] = "reject" /\ task' = [task EXCEPT ![m] = None]
      /\ item' = [item EXCEPT ![p] = "rejected"] /\ AutoMute(p)
      /\ res' = IF p \in linked THEN [res EXCEPT ![Target(p)] = "gone"] ELSE res
      /\ counted' = [counted EXCEPT ![p] = {}]
  BY DEF CommitReject
<1>2. TypeOK /\ Resources /\ Locks /\ Tallies /\ RejectedGone
  BY DEF Inv
<1>3. Target(p) \in Post
  BY TargetOfPost
<1>4. TypeOK'
  BY <1>1, <1>2, <1>3 DEF TypeOK, AutoMute
<1>5. item[p] = "pending" /\ \A n \in Moderator : n # m => task[n] # p
  BY <1>1, <1>2, ModerationAssumption DEF Locks
<1>6. /\ task'[m] = None /\ item'[p] = "rejected" /\ counted'[p] = {}
      /\ \A n \in Moderator : n # m => task'[n] = task[n]
      /\ \A q \in Post : q # p => item'[q] = item[q] /\ counted'[q] = counted[q]
  BY <1>1, <1>2 DEF TypeOK
<1>7. /\ p \in linked => res'[Target(p)] = "gone"
      /\ p \notin linked => res' = res
      /\ \A q \in Post : q # Target(p) => res'[q] = res[q]
      /\ \A q \in Post : res'[q] = res[q] \/ (res[q] # "none" /\ res'[q] = "gone")
  BY <1>1, <1>2, <1>3 DEF TypeOK, Resources
<1>8. Resources'
  <2>1. \A q \in Post : res'[q] # "none" => stage[q] = "done"
    BY <1>2, <1>7 DEF Resources
  <2>2. \A q \in linked : res'[Target(q)] # "none" /\ stage[q] = "done"
    BY <1>2, <1>7, TargetOfPost DEF Resources, TypeOK
  <2>3. \A q \in Post : item'[q] = "pending" /\ q \notin linked => q \in Legacy
    BY <1>2, <1>6 DEF Resources
  <2>4. \A q \in Post :
          item'[q] # "none" /\ q \notin linked /\ Edits[q] = None => res'[q] = "none"
    BY <1>2, <1>5, <1>6, <1>7 DEF Resources
  <2> QED
    BY <1>1, <1>2, <2>1, <2>2, <2>3, <2>4 DEF Resources
<1>9. Locks'
  <2>1. \A n \in Moderator : Removes(n)' => n # m /\ Removes(n) /\ task'[n] = task[n]
    BY <1>1, <1>6 DEF Removes
  <2>2. \A n \in Moderator :
          n # m /\ Removes(n) => Target(task[n]) \in Post /\ res[Target(task[n])] = "live"
    BY <1>2, TargetOfPost DEF Locks, Removes, TypeOK
  <2>3. p \in linked => Removes(m)
    BY <1>1, ModerationAssumption DEF Removes
  <2>4. \A n \in Moderator : n # m /\ Removes(n) => res'[Target(task[n])] = "live"
    BY <1>1, <1>2, <1>7, <2>2, <2>3 DEF Locks
  <2>5. \A n \in Moderator : task'[n] # None => item'[task'[n]] = "pending" /\ n \in mods
    BY <1>2, <1>5, <1>6 DEF Locks, TypeOK
  <2>6. \A n, k \in Moderator : task'[n] = task'[k] /\ task'[n] # None => n = k
    BY <1>2, <1>6 DEF Locks
  <2>7. \A n \in Moderator : Removes(n)' => res'[Target(task'[n])] = "live"
    BY <2>1, <2>4
  <2>8. \A n, k \in Moderator :
          Removes(n)' /\ Removes(k)' /\ Target(task'[n]) = Target(task'[k]) => n = k
    BY <1>2, <2>1 DEF Locks
  <2> QED
    BY <1>1, <2>5, <2>6, <2>7, <2>8 DEF Locks, Target
<1>10. Tallies'
  <2>1. \A q \in Post : \A r \in counted[q] : r \in Post
    BY <1>2 DEF TypeOK
  <2>2. \A q \in Post : \A r \in counted'[q] : r = q \/ item'[r] = "rejected"
    BY <1>2, <1>6, <2>1 DEF Tallies
  <2>3. \A q \in linked : item'[q] # "none"
    BY <1>2, <1>6 DEF Tallies, TypeOK
  <2>4. \A q \in Post : stage[q] \notin {"done", "refused"} => item'[q] = "none"
    BY <1>2, <1>5, <1>6 DEF Tallies
  <2> QED
    BY <1>1, <2>2, <2>3, <2>4 DEF Tallies
<1>11. RejectedGone'
  <2> SUFFICES ASSUME NEW q \in Post, item'[q] = "rejected", Edits[q] = None \/ q \in linked
               PROVE  res'[Target(q)] # "live"
    BY <1>1 DEF RejectedGone
  <2>1. CASE q # p
    BY <1>2, <1>6, <1>7, <2>1, TargetOfPost DEF RejectedGone
  <2>2. CASE q = p /\ p \in linked
    BY <1>7, <2>2
  <2>3. CASE q = p /\ p \notin linked
    BY <1>2, <1>5, <1>7, <2>3 DEF Resources, Target
  <2> QED
    BY <2>1, <2>2, <2>3
<1>12. MuteEarned'
  BY <1>1, <1>6, EarnedAtCommit
<1> QED
  BY <1>4, <1>8, <1>9, <1>10, <1>11, <1>12 DEF Inv

\* A rollback releases the locks.
LEMMA AbortInv ==
  ASSUME Inv, NEW m \in Moderator, NEW p \in Post, AbortReview(m, p)
  PROVE  Inv'
<1>1. /\ UNCHANGED <<stage, item, linked, aged, res, member, mute, mods, ruling>>
      /\ task' = [task EXCEPT ![m] = None] /\ counted' = [counted EXCEPT ![p] = {}]
  BY DEF AbortReview
<1>2. TypeOK
  BY DEF Inv
<1>3. TypeOK'
  BY <1>1, <1>2 DEF TypeOK
<1>4. task'[m] = None /\ \A n \in Moderator : n # m => task'[n] = task[n]
  BY <1>1, <1>2 DEF TypeOK
<1>5. Resources' /\ RejectedGone' /\ MuteEarned'
  BY <1>1 DEF Inv, Resources, RejectedGone, MuteEarned
<1>6. Locks'
  <2>1. \A n \in Moderator : Removes(n)' => n # m /\ Removes(n) /\ task'[n] = task[n]
    BY <1>1, <1>4 DEF Removes
  <2> QED
    BY <1>1, <1>4, <2>1 DEF Inv, Locks, Target
<1>7. Tallies'
  BY <1>1, <1>2 DEF Inv, Tallies, TypeOK
<1> QED
  BY <1>3, <1>5, <1>6, <1>7 DEF Inv

\* Deleting elsewhere never touches what a review is removing.
LEMMA DeleteInv ==
  ASSUME Inv, NEW r \in Post, DeleteResource(r)
  PROVE  Inv'
<1>1. /\ UNCHANGED <<stage, item, linked, aged, member, mute, mods, task, ruling, counted>>
      /\ res[r] = "live" /\ ~Removing(r) /\ res' = [res EXCEPT ![r] = "gone"]
  BY DEF DeleteResource, review
<1>2. TypeOK /\ Resources /\ Locks /\ RejectedGone
  BY DEF Inv
<1>3. TypeOK'
  BY <1>1, <1>2 DEF TypeOK
<1>4. res'[r] = "gone" /\ \A q \in Post : q # r => res'[q] = res[q]
  BY <1>1, <1>2 DEF TypeOK
<1>5. Resources'
  <2>1. \A q \in linked : res'[Target(q)] # "none"
    BY <1>2, <1>4, TargetOfPost DEF Resources, TypeOK
  <2> QED
    BY <1>1, <1>2, <1>4, <2>1 DEF Resources
<1>6. Locks'
  <2>1. \A n \in Moderator : Removes(n) => Target(task[n]) \in Post /\ Target(task[n]) # r
    BY <1>1, <1>2, TargetOfPost DEF Removing, Removes, TypeOK
  <2> QED
    BY <1>1, <1>2, <1>4, <2>1 DEF Locks, Removes, Target
<1>7. RejectedGone'
  BY <1>1, <1>2, <1>4, TargetOfPost DEF RejectedGone
<1>8. Tallies' /\ MuteEarned'
  BY <1>1 DEF Inv, Tallies, MuteEarned
<1> QED
  BY <1>3, <1>5, <1>6, <1>7, <1>8 DEF Inv

\* Roles, membership, manual mutes and time leave items and resources alone.
LEMMA SurroundingsInv ==
  ASSUME Inv, [Next]_vars,
         \/ LeaveGroup
         \/ \E m \in Moderator : LoseRole(m)
         \/ \E s \in {"none", "manual"} : SetMute(s)
         \/ \E p \in Post : Age(p)
         \/ UNCHANGED vars
  PROVE  Inv'
<1>1. /\ UNCHANGED <<stage, item, linked, res, task, ruling, counted>>
      /\ mute' = "auto" => mute = "auto"
  BY DEF LeaveGroup, LoseRole, SetMute, Age, vars, review
<1>2. /\ TypeOK'
      /\ \A m \in Moderator : m \in mods /\ m \notin mods' => task[m] = None
  BY DEF LeaveGroup, LoseRole, SetMute, Age, vars, review, RoleHeld, Inv, TypeOK
<1>3. Resources' /\ Tallies' /\ RejectedGone'
  BY <1>1 DEF Inv, Resources, Tallies, RejectedGone
<1>4. Locks'
  BY <1>1, <1>2 DEF Inv, Locks, Removes
<1>5. MuteEarned'
  BY <1>1, EarnedStays
<1> QED
  BY <1>2, <1>3, <1>4, <1>5 DEF Inv

\* Every step preserves the invariant.
LEMMA NextInv == Inv /\ [Next]_vars => Inv'
<1> SUFFICES ASSUME Inv, [Next]_vars PROVE Inv'
  OBVIOUS
<1>1. ASSUME NEW p \in Post, Posting(p) PROVE Inv'
  <2> DEFINE Others == UNCHANGED <<item, linked, aged, res, member, mute, mods, task, ruling>>
  <2>1. CASE Enter(p) \/ Judge(p) \/ Admit(p)
    <3>1. /\ stage[p] \in {"idle", "judged", "allowed", "doubtful"} /\ Others
          /\ UNCHANGED counted
      BY <2>1 DEF Enter, Judge, Admit, review
    <3>2. PICK s \in Stage \ {"done"} : stage' = [stage EXCEPT ![p] = s]
      BY <2>1 DEF Enter, Judge, Admit, Goto, Stage
    <3> QED
      BY <3>1, <3>2, RequestInv
  <2>2. CASE BeginBlock(p)
    BY <2>2, RequestInv DEF BeginBlock, Goto, Stage, review
  <2>3. CASE PostFails(p)
    BY <2>3, RequestInv DEF PostFails, Goto, Stage, review
  <2>4. CASE Publish(p) \/ Queue(p)
    BY <2>4, PublishInv
  <2>5. CASE CommitBlock(p)
    BY <2>5, BlockInv
  <2> QED
    BY <1>1, <2>1, <2>2, <2>3, <2>4, <2>5 DEF Posting
<1>2. ASSUME NEW m \in Moderator, NEW p \in Post, Reviewing(m, p) PROVE Inv'
  BY <1>2, ClaimInv, ApproveInv, RejectInv, AbortInv DEF Reviewing
<1>3. CASE \E p \in Post : DeleteResource(p)
  BY <1>3, DeleteInv
<1>4. CASE \/ LeaveGroup
           \/ \E m \in Moderator : LoseRole(m)
           \/ \E s \in {"none", "manual"} : SetMute(s)
           \/ \E p \in Post : Age(p)
           \/ UNCHANGED vars
  BY <1>4, SurroundingsInv
<1> QED
  BY <1>1, <1>2, <1>3, <1>4 DEF Next

\* The invariant holds in every behaviour of the queue.
THEOREM Invariance == Spec => []Inv
  BY InitInv, NextInv, PTL DEF Spec

\* Every variable keeps its type (Init and all the actions).
THEOREM TypeCorrect == Spec => []TypeOK
<1>1. Inv => TypeOK
  BY DEF Inv
<1> QED
  BY <1>1, Invariance, PTL

\* What was rejected is never visible (RejectContentModerationItem,
\* persistPublication).
THEOREM RejectedStaysGone == Spec => []RejectedGone
<1>1. Inv => RejectedGone
  BY DEF Inv
<1> QED
  BY <1>1, Invariance, PTL

\* No mute without enough committed rejections
\* (applyModerationAutoMuteInTransaction).
THEOREM MutesAreEarned == Spec => []MuteEarned
<1>1. Inv => MuteEarned
  BY DEF Inv
<1> QED
  BY <1>1, Invariance, PTL

\* No review replaces the decision of another (ReviewContentModerationItem).
THEOREM DecisionsAreFinal == Spec => DecisionFinal
<1>1. Inv /\ [Next]_vars
        => [\A p \in Post : item[p] \in {"approved", "rejected"} => item'[p] = item[p]]_vars
  BY Decided
<1> QED
  BY <1>1, Invariance, PTL DEF Spec, DecisionFinal

\* A reviewer holds the role up to the commit (LockGroupModerator).
THEOREM ReviewersHoldTheRole == Spec => ReviewerIsModerator
<1> DEFINE A == \A m \in Moderator :
                  task[m] # None /\ item'[task[m]] # item[task[m]] => m \in mods'
<1>1. Inv /\ [Next]_vars => [A]_vars
  <2> SUFFICES ASSUME Inv, [Next]_vars,
                      NEW m \in Moderator, task[m] # None, m \notin mods'
               PROVE  FALSE
    OBVIOUS
  <2>1. m \in mods
    BY DEF Inv, Locks
  <2>2. mods' = mods \/ \E n \in Moderator : LoseRole(n)
    BY DEF Next, vars, Posting, Reviewing, Enter, Judge, Admit, Publish, Queue, BeginBlock,
           CommitBlock, Store, PostFails, BeginApprove, CommitApprove, BeginReject, CommitReject,
           AbortReview, DeleteResource, LeaveGroup, SetMute, Age
  <2> QED
    BY <2>1, <2>2 DEF LoseRole, RoleHeld
<1> QED
  BY <1>1, Invariance, PTL DEF Spec, ReviewerIsModerator

----------------------------------------------------------------------------
(* The automatic mute: the transaction that rejects knows its own rejection
   and those that were committed when it counted.                          *)

LEMMA OwnCountedInit == Init => OwnCounted
  BY ModerationAssumption DEF Init, OwnCounted, Rejecting

\* A post that is blocked has no pending item, so no review has it.
LEMMA OneRejection ==
  ASSUME Inv, NEW p \in Post
  PROVE  /\ stage[p] \notin {"done", "refused"} => \A m \in Moderator : task[m] # p
         /\ \A m, n \in Moderator : task[m] = p /\ task[n] = p => m = n
  BY ModerationAssumption DEF Inv, Locks, Tallies

LEMMA OwnCountedStep == ASSUME Inv, OwnCounted, [Next]_vars PROVE OwnCounted'
<1>1. TypeOK
  BY DEF Inv
<1>2. ASSUME UNCHANGED <<stage, review, counted>> PROVE OwnCounted'
  BY <1>2 DEF OwnCounted, Rejecting, review
<1>3. ASSUME NEW p \in Post, NEW s \in Stage \ {"blocking"}, Goto(p, s),
             UNCHANGED <<review, counted>>
      PROVE  OwnCounted'
  BY <1>1, <1>3 DEF OwnCounted, Rejecting, review, Goto, TypeOK
<1>4. ASSUME NEW p \in Post, BeginBlock(p) PROVE OwnCounted'
  BY <1>1, <1>4 DEF BeginBlock, Goto, Counts, OwnCounted, Rejecting, review, TypeOK
<1>5. ASSUME NEW p \in Post, CommitBlock(p) \/ PostFails(p) PROVE OwnCounted'
  <2>1. /\ stage' = [stage EXCEPT ![p] = "refused"]
        /\ counted' = [counted EXCEPT ![p] = {}]
        /\ UNCHANGED review /\ stage[p] \notin {"done", "refused"}
    BY <1>5 DEF CommitBlock, PostFails, Goto
  <2>2. \A m \in Moderator : task[m] # p
    BY <2>1, OneRejection
  <2> QED
    BY <1>1, <2>1, <2>2 DEF OwnCounted, Rejecting, review, TypeOK
<1>6. ASSUME NEW m \in Moderator, NEW p \in Post, BeginApprove(m, p) PROVE OwnCounted'
  BY <1>1, <1>6 DEF BeginApprove, Claim, OwnCounted, Rejecting, TypeOK
<1>7. ASSUME NEW m \in Moderator, NEW p \in Post, BeginReject(m, p) PROVE OwnCounted'
  <2>1. /\ task' = [task EXCEPT ![m] = p] /\ ruling' = [ruling EXCEPT ![m] = "reject"]
        /\ counted' = [counted EXCEPT ![p] = Counts(p)] /\ UNCHANGED stage
    BY <1>7 DEF BeginReject, Claim
  <2> QED
    BY <1>1, <2>1 DEF OwnCounted, Rejecting, Counts, TypeOK
<1>8. ASSUME NEW m \in Moderator, NEW p \in Post, CommitApprove(m, p) PROVE OwnCounted'
  BY <1>1, <1>8, ModerationAssumption DEF CommitApprove, OwnCounted, Rejecting, TypeOK
<1>9. ASSUME NEW m \in Moderator, NEW p \in Post, CommitReject(m, p) \/ AbortReview(m, p)
      PROVE  OwnCounted'
  <2>1. /\ task[m] = p /\ task' = [task EXCEPT ![m] = None]
        /\ counted' = [counted EXCEPT ![p] = {}] /\ UNCHANGED <<stage, ruling>>
    BY <1>9 DEF CommitReject, AbortReview
  <2>2. stage[p] # "blocking" /\ \A n \in Moderator : task[n] = p => n = m
    BY <2>1, OneRejection
  <2>3. \A n \in Moderator : task'[n] = IF n = m THEN None ELSE task[n]
    BY <1>1, <2>1 DEF TypeOK
  <2>4. ~Rejecting(p)' /\ \A q \in Post \ {p} : Rejecting(q)' => Rejecting(q)
    BY <2>1, <2>2, <2>3, ModerationAssumption DEF Rejecting
  <2> QED
    BY <1>1, <2>1, <2>4 DEF OwnCounted, TypeOK
<1>10. ASSUME NEW p \in Post, Enter(p) \/ Judge(p) \/ Admit(p) PROVE OwnCounted'
  <2>1. PICK s \in Stage \ {"blocking"} : Goto(p, s)
    BY <1>10 DEF Enter, Judge, Admit, Stage
  <2> QED
    BY <1>3, <1>10, <2>1 DEF Enter, Judge, Admit
<1>11. ASSUME NEW p \in Post, Publish(p) \/ Queue(p) PROVE OwnCounted'
  BY <1>3, <1>11 DEF Publish, Queue, Stage
<1>12. ASSUME \/ LeaveGroup
              \/ \E m \in Moderator : LoseRole(m)
              \/ \E s \in {"none", "manual"} : SetMute(s)
              \/ \E p \in Post : Age(p) \/ DeleteResource(p)
              \/ UNCHANGED vars
       PROVE  OwnCounted'
  BY <1>2, <1>12 DEF LeaveGroup, LoseRole, SetMute, Age, DeleteResource, vars, review
<1> QED
  BY <1>4, <1>5, <1>6, <1>7, <1>8, <1>9, <1>10, <1>11, <1>12 DEF Next, Posting, Reviewing

\* Who commits a rejection has counted, and decides on the mute by its count.
LEMMA RejectionCommits ==
  ASSUME Inv, NEW p \in Post, Next, item[p] # "rejected", item'[p] = "rejected"
  PROVE  Rejecting(p) /\ AutoMute(p) /\ aged' = aged /\ item' = [item EXCEPT ![p] = "rejected"]
<1>1. TypeOK
  BY DEF Inv
<1>2. PICK q \in Post : \/ CommitBlock(q)
                        \/ \E m \in Moderator : CommitReject(m, q)
  BY <1>1 DEF Next, Posting, Reviewing, Enter, Judge, Admit, Publish, Queue, Store, BeginBlock,
              PostFails, BeginApprove, CommitApprove, BeginReject, AbortReview, DeleteResource,
              LeaveGroup, LoseRole, SetMute, Age, TypeOK
<1>3. item' = [item EXCEPT ![q] = "rejected"]
  BY <1>2 DEF CommitBlock, CommitReject, Store
<1>4. q = p
  BY <1>1, <1>3 DEF TypeOK
<1> QED
  BY <1>2, <1>3, <1>4 DEF CommitBlock, CommitReject, Rejecting

\* The rejection that reaches the threshold mutes the author, unless another one
\* committed between its count and its own commit, or the author has left
\* (applyModerationAutoMuteInTransaction, lockGroupMembership).
THEOREM ThresholdMutes == Spec => AutoMuteApplied
<1> DEFINE Mutes ==
      \A p \in Post :
        (/\ item[p] # "rejected" /\ item'[p] = "rejected"
         /\ Recent \subseteq counted[p]
         /\ Cardinality(Recent') >= Threshold
         /\ member) => mute' = "auto"
<1>1. Inv /\ OwnCounted /\ [Next]_vars => [Mutes]_vars
  <2> SUFFICES ASSUME Inv, OwnCounted, Next, NEW p \in Post,
                      item[p] # "rejected", item'[p] = "rejected", Recent \subseteq counted[p],
                      Cardinality(Recent') >= Threshold, member
               PROVE  mute' = "auto"
    OBVIOUS
  <2>1. /\ Rejecting(p) /\ AutoMute(p) /\ aged' = aged
        /\ item' = [item EXCEPT ![p] = "rejected"]
    BY RejectionCommits
  <2>2. p \in counted[p]
    BY <2>1 DEF OwnCounted
  <2>3. Recent' \subseteq Recent \cup {p}
    BY <2>1 DEF Recent, Inv, TypeOK
  <2>4. Recent' \subseteq counted[p] /\ counted[p] \subseteq Post
    BY <2>2, <2>3 DEF Inv, TypeOK
  <2>5. Cardinality(Recent') <= Cardinality(counted[p])
    BY <2>4, ModerationAssumption, CardinalityGrows
  <2>6. MuteDue(p)
    BY <2>4, <2>5, ModerationAssumption, FS_Subset, FS_CardinalityType DEF MuteDue
  <2> QED
    BY <2>1, <2>6 DEF AutoMute
<1>2. Inv /\ OwnCounted /\ [Next]_vars => OwnCounted'
  BY OwnCountedStep
<1> QED
  BY <1>1, <1>2, Invariance, OwnCountedInit, PTL DEF Spec, AutoMuteApplied

----------------------------------------------------------------------------
(* The refinement of ReviewedContent.                                      *)

\* Content comes out with its item, or without one.
LEMMA PostingReviewed ==
  ASSUME Inv, [Next]_vars, NEW p \in Post, Posting(p)
  PROVE  \/ Reviewed!Pass(p) \/ Reviewed!Submit(p) \/ Reviewed!Block(p)
         \/ UNCHANGED <<item, res, linked>>
<1>1. TypeOK /\ Resources /\ Tallies
  BY DEF Inv
<1>2. [q \in Post |-> Target(q)][p] = Target(p)
  OBVIOUS
<1>3. Edits[p] = None <=> Target(p) = p
  BY ModerationAssumption DEF Target
<1>4. CASE Publish(p)
  <2>1. Land(p) /\ UNCHANGED <<item, linked>> /\ stage[p] = "publishing"
    BY <1>4 DEF Publish
  <2>2. res[p] = "none" /\ item[p] = "none"
    BY <2>1, LandEffect
  <2>3. CASE Edits[p] = None
    BY <1>2, <1>3, <2>1, <2>2, <2>3
       DEF Land, Reviewed!Pass, Reviewed!New, Reviewed!Appear
  <2>4. CASE Edits[p] # None
    BY <2>1, <2>4 DEF Land
  <2> QED
    BY <2>3, <2>4
<1>5. CASE Queue(p)
  <2>1. /\ Land(p) /\ stage[p] = "queueing" /\ linked' = linked \cup {p}
        /\ item' = [item EXCEPT ![p] = "pending"]
    BY <1>5 DEF Queue, Store
  <2>2. res[p] = "none" /\ item[p] = "none"
    BY <2>1, LandEffect
  <2> QED
    BY <1>2, <1>3, <2>1, <2>2
       DEF Land, Reviewed!Submit, Reviewed!Decide, Reviewed!New, Reviewed!Appear
<1>6. CASE CommitBlock(p)
  <2>1. /\ item' = [item EXCEPT ![p] = "rejected"] /\ UNCHANGED <<linked, res>>
        /\ stage[p] = "blocking"
    BY <1>6 DEF CommitBlock, Store
  <2>2. item[p] = "none" /\ p \notin linked
    BY <1>1, <2>1 DEF Tallies
  <2> QED
    BY <2>1, <2>2 DEF Reviewed!Block, Reviewed!Decide
<1> QED
  BY <1>4, <1>5, <1>6, Zenon
     DEF Posting, Enter, Judge, Admit, BeginBlock, PostFails

\* A review decides and shows or takes away at its commit, in one step.
LEMMA ReviewingReviewed ==
  ASSUME Inv, [Next]_vars, NEW m \in Moderator, NEW p \in Post, Reviewing(m, p)
  PROVE  \/ Reviewed!Approve(p) \/ Reviewed!Reject(p)
         \/ UNCHANGED <<item, res, linked>>
<1>1. TypeOK /\ Resources /\ Locks
  BY DEF Inv
<1>2. [q \in Post |-> Target(q)][p] = Target(p)
  OBVIOUS
<1>3. task[m] = p => item[p] = "pending"
  BY <1>1, ModerationAssumption DEF Locks
<1>4. CASE CommitApprove(m, p)
  <2>1. /\ task[m] = p /\ linked' = linked \cup {p}
        /\ item' = [item EXCEPT ![p] = "approved"]
        /\ res' = IF p \in linked THEN res ELSE [res EXCEPT ![p] = "live"]
    BY <1>4 DEF CommitApprove
  <2>2. p \notin linked => res[p] = "none"
    BY <1>1, <1>3, <2>1, ModerationAssumption DEF Resources
  <2> QED
    BY <1>3, <2>1, <2>2 DEF Reviewed!Approve, Reviewed!Decide, Reviewed!Appear
<1>5. CASE CommitReject(m, p)
  <2>1. /\ task[m] = p /\ ruling[m] = "reject" /\ linked' = linked
        /\ item' = [item EXCEPT ![p] = "rejected"]
        /\ res' = IF p \in linked THEN [res EXCEPT ![Target(p)] = "gone"] ELSE res
    BY <1>5 DEF CommitReject
  <2>2. p \in linked => res[Target(p)] = "live"
    BY <1>1, <2>1, ModerationAssumption DEF Locks, Removes
  <2> QED
    BY <1>2, <1>3, <2>1, <2>2 DEF Reviewed!Reject, Reviewed!Decide
<1> QED
  BY <1>4, <1>5, Zenon DEF Reviewing, BeginApprove, BeginReject, AbortReview

LEMMA StepReviewed == ASSUME Inv, [Next]_vars PROVE [Reviewed!Next]_(Reviewed!rvars)
<1>1. ASSUME NEW p \in Post, Posting(p) PROVE [Reviewed!Next]_(Reviewed!rvars)
  BY <1>1, PostingReviewed DEF Reviewed!Next, Reviewed!rvars
<1>2. ASSUME NEW m \in Moderator, NEW p \in Post, Reviewing(m, p)
      PROVE  [Reviewed!Next]_(Reviewed!rvars)
  BY <1>2, ReviewingReviewed DEF Reviewed!Next, Reviewed!rvars
<1>3. ASSUME NEW p \in Post, DeleteResource(p) PROVE [Reviewed!Next]_(Reviewed!rvars)
  <2>1. Reviewed!TakeAway(p)
    BY <1>3 DEF DeleteResource, Reviewed!TakeAway
  <2> QED
    BY <2>1 DEF Reviewed!Next
<1>4. ASSUME \/ LeaveGroup
             \/ \E m \in Moderator : LoseRole(m)
             \/ \E s \in {"none", "manual"} : SetMute(s)
             \/ \E p \in Post : Age(p)
             \/ UNCHANGED vars
      PROVE  [Reviewed!Next]_(Reviewed!rvars)
  BY <1>4 DEF LeaveGroup, LoseRole, SetMute, Age, vars, Reviewed!rvars
<1> QED
  BY <1>1, <1>2, <1>3, <1>4 DEF Next

\* The queue, with its transactions that overlap, implements a queue whose
\* decisions are single steps (persistPublication, ReviewContentModerationItem,
\* handleModerationDecision, DeleteMessage).
THEOREM ReviewsAreAtomic == Spec => ReviewsAtomic
<1>1. Init => Reviewed!Init
  BY ModerationAssumption DEF Init, Reviewed!Init
<1>2. Inv /\ [Next]_vars => [Reviewed!Next]_(Reviewed!rvars)
  BY StepReviewed
<1> QED
  BY <1>1, <1>2, Invariance, PTL DEF Spec, ReviewsAtomic, Reviewed!Spec
=============================================================================
