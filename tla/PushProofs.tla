----------------------------- MODULE PushProofs -----------------------------
(* Proofs about Push, for any number of accounts, devices and notices and any
   durations that satisfy PushAssumption.  IInv, defined in Push, is the
   inductive invariant. *)
EXTENDS Push, TLAPS

\* The initial state satisfies the invariant.
LEMMA InitInv == Init => IInv
  BY PushAssumption
     DEF Init, IInv, TypeOK, Phases, AccessEnough, RefusalsReal, CopiesCounted, Waiting, Stage, Fate

\* Registrations touch nothing a notice holds.
LEMMA RowsInv ==
  ASSUME IInv, rows' \subseteq User \X Token, dead' \subseteq Token, dead \subseteq dead',
         UNCHANGED <<cache, stage, left, cancelled, access, granted, fate, tried, copies, lost>>
  PROVE  IInv'
  BY DEF IInv, TypeOK, Phases, AccessEnough, RefusalsReal, CopiesCounted, Waiting

\* A notice that is over keeps nothing the invariant speaks of.
LEMMA EndInv ==
  ASSUME IInv, NEW n \in Notice, NEW s \in {"done", "denied"}, End(n, s),
         rows' \subseteq rows, UNCHANGED <<dead, cache>>
  PROVE  IInv'
<1>1. TypeOK
  BY DEF IInv
<1>2. TypeOK'
  <2>1. stage' \in [Notice -> Stage]
    BY <1>1 DEF TypeOK, End, Goto, Stage
  <2>2. fate' \in [Notice -> [Token -> Fate]]
    BY <1>1 DEF TypeOK, End, Fate
  <2>3. /\ left' \in [Notice -> 0..Timeout] /\ access' \in [Notice -> Nat]
        /\ granted' \in [Notice -> Nat] /\ cancelled' \subseteq Invite
        /\ tried' \in [Notice -> 0..Tries] /\ copies' \in [Notice -> 0..Tries]
        /\ lost' \in [Notice -> 0..Tries]
    BY <1>1, PushAssumption DEF TypeOK, End
  <2> QED
    BY <1>1, <2>1, <2>2, <2>3 DEF TypeOK
<1>3. /\ stage'[n] = s /\ left'[n] = 0 /\ copies'[n] = 0 /\ lost'[n] = 0
      /\ granted'[n] = 0 /\ fate'[n] = [t \in Token |-> "unlisted"]
  BY <1>1 DEF TypeOK, End, Goto
<1>4. \A m \in Notice \ {n} :
        /\ stage'[m] = stage[m] /\ left'[m] = left[m] /\ access'[m] = access[m]
        /\ fate'[m] = fate[m] /\ tried'[m] = tried[m] /\ copies'[m] = copies[m]
        /\ lost'[m] = lost[m] /\ granted'[m] = granted[m]
  BY <1>1 DEF TypeOK, End, Goto
<1>5. Phases'
  BY <1>3, <1>4 DEF IInv, Phases, Waiting
<1>6. AccessEnough'
  BY <1>3, <1>4 DEF IInv, AccessEnough
<1>7. CopiesCounted'
  BY <1>3, <1>4 DEF IInv, CopiesCounted
<1>8. RefusalsReal'
  BY <1>3, <1>4 DEF IInv, RefusalsReal
<1> QED
  BY <1>2, <1>5, <1>6, <1>7, <1>8 DEF IInv

\* Starting, being cancelled, listing, and getting the access token.
LEMMA AccessInv ==
  ASSUME IInv, NEW n \in Notice,
         \/ Start(n) \/ Cancel(n) \/ List(n) \/ ReadCache(n) \/ Issue(n) \/ StoreAccess(n)
  PROVE  IInv'
<1> USE PushAssumption
<1>1. TypeOK
  BY DEF IInv
<1>2. CASE Start(n)
  <2>1. TypeOK'
    BY <1>1, <1>2 DEF TypeOK, Start, Goto, Stage
  <2>2. Phases' /\ RefusalsReal' /\ CopiesCounted'
    BY <1>1, <1>2 DEF IInv, TypeOK, Phases, RefusalsReal, CopiesCounted, Start, Goto, Waiting
  <2>3. AccessEnough'
    BY <1>1, <1>2 DEF IInv, TypeOK, AccessEnough, Start, Goto
  <2> QED
    BY <2>1, <2>2, <2>3 DEF IInv
<1>3. CASE Cancel(n)
  <2>1. TypeOK'
    BY <1>1, <1>3 DEF TypeOK, Cancel
  <2>2. Phases' /\ RefusalsReal' /\ CopiesCounted'
    BY <1>1, <1>3 DEF IInv, TypeOK, Phases, RefusalsReal, CopiesCounted, Cancel, Waiting
  <2>3. AccessEnough'
    BY <1>1, <1>3 DEF IInv, TypeOK, AccessEnough, Cancel
  <2> QED
    BY <2>1, <2>2, <2>3 DEF IInv
<1>4. CASE List(n)
  <2>1. CASE End(n, "done")
    BY <1>4, <2>1, EndInv DEF List
  <2>2. CASE Goto(n, "access") /\ UNCHANGED <<left, cancelled, access, granted, tried, copies, lost>>
             /\ \E found \in SUBSET Token :
                  fate' = [fate EXCEPT ![n] =
                             [t \in Token |-> IF t \in found THEN "todo" ELSE "unlisted"]]
    <3>1. TypeOK'
      <4>1. fate' \in [Notice -> [Token -> Fate]]
        BY <1>1, <2>2 DEF TypeOK, Fate
      <4> QED
        BY <1>1, <1>4, <2>2, <4>1 DEF TypeOK, List, Goto, Stage
    <3>2. \A m \in Notice \ {n} : stage'[m] = stage[m] /\ fate'[m] = fate[m]
      BY <1>1, <2>2 DEF TypeOK, Goto
    <3>3. stage'[n] = "access"
      BY <1>1, <2>2 DEF TypeOK, Goto
    <3>4. Phases' /\ RefusalsReal' /\ CopiesCounted' /\ AccessEnough'
      BY <1>4, <2>2, <3>2, <3>3
         DEF IInv, Phases, RefusalsReal, CopiesCounted, AccessEnough, Waiting, List
    <3> QED
      BY <3>1, <3>4 DEF IInv
  <2> QED
    BY <1>4, <2>1, <2>2 DEF List
<1>5. CASE ReadCache(n)
  <2>1. /\ UNCHANGED <<rows, dead, cache, left, cancelled, granted, fate, tried, copies, lost>>
        /\ \/ Fresh /\ access' = [access EXCEPT ![n] = cache.real] /\ Goto(n, "send")
           \/ UNCHANGED access /\ Goto(n, "asking")
    BY <1>5 DEF ReadCache
  <2>2. TypeOK'
    BY <1>1, <2>1 DEF TypeOK, Goto, Stage
  <2>3. Phases' /\ RefusalsReal' /\ CopiesCounted'
    <3>1. /\ stage[n] = "access" /\ stage'[n] \in {"send", "asking"}
          /\ \A m \in Notice \ {n} : stage'[m] = stage[m]
      BY <1>1, <1>5, <2>1 DEF ReadCache, TypeOK, Goto
    <3>2. Phases'
      BY <2>1, <3>1 DEF IInv, Phases, Waiting
    <3> QED
      BY <2>1, <3>2 DEF IInv, RefusalsReal, CopiesCounted
  <2>4. Fresh => cache.real >= left[n]
    BY <1>1 DEF IInv, TypeOK, AccessEnough, Fresh
  <2>5. AccessEnough'
    BY <1>1, <2>1, <2>4 DEF IInv, TypeOK, AccessEnough, Goto
  <2> QED
    BY <2>2, <2>3, <2>5 DEF IInv
<1>6. CASE Issue(n)
  <2>1. TypeOK'
    BY <1>1, <1>6 DEF TypeOK, Issue, Goto, Stage
  <2>2. Phases' /\ RefusalsReal' /\ CopiesCounted'
    BY <1>1, <1>6 DEF IInv, TypeOK, Phases, RefusalsReal, CopiesCounted, Issue, Goto, Waiting
  <2>3. AccessEnough'
    BY <1>1, <1>6 DEF IInv, TypeOK, AccessEnough, Issue, Goto
  <2> QED
    BY <2>1, <2>2, <2>3 DEF IInv
<1>7. CASE StoreAccess(n)
  <2>1. TypeOK'
    BY <1>1, <1>7 DEF TypeOK, StoreAccess, Goto, Stage
  <2>2. Phases' /\ RefusalsReal' /\ CopiesCounted'
    BY <1>1, <1>7 DEF IInv, TypeOK, Phases, RefusalsReal, CopiesCounted, StoreAccess, Goto, Waiting
  <2>3. /\ left[n] > 0 /\ access[n] + Timeout >= granted[n] + left[n]
        /\ left[n] \in 0..Timeout /\ access[n] \in Nat /\ granted[n] \in Nat
    BY <1>1, <1>7 DEF IInv, TypeOK, AccessEnough, StoreAccess, Over
  <2>4. cache' = [real |-> access[n], believed |-> granted[n]]
    BY <1>7 DEF StoreAccess
  <2>5. AccessEnough'
    <3>1. granted[n] > Timeout
      BY <1>7 DEF IInv, Phases, StoreAccess
    <3>2. access[n] >= left[n] /\ granted[n] < access[n] + Timeout
      BY <2>3, <3>1
    <3>3. stage'[n] = "send" /\ \A m \in Notice \ {n} : stage'[m] = stage[m] /\ granted'[m] = granted[m]
      BY <1>1, <1>7 DEF TypeOK, StoreAccess, Goto
    <3>4. cache'.believed < cache'.real + Timeout
      BY <2>4, <3>2
    <3>5. UNCHANGED <<access, left>>
      BY <1>7 DEF StoreAccess
    <3> QED
      BY <3>2, <3>3, <3>4, <3>5 DEF IInv, AccessEnough
  <2> QED
    BY <2>1, <2>2, <2>5 DEF IInv
<1> QED
  BY <1>2, <1>3, <1>4, <1>5, <1>6, <1>7

\* At most one token of the notice changes its fate, and is refused only with
\* a reason.
Marks(n) ==
  \/ fate' = fate
  \/ \E t \in Token, f \in Fate :
       /\ f = "refused" => t \in dead \/ <<n, t>> \in Misfit
       /\ fate' = [fate EXCEPT ![n][t] = f]

\* One attempt for the token in hand, and what comes of it.
LEMMA HandInv ==
  ASSUME IInv, NEW n \in Notice, NEW s \in {"send", "wait", "backoff"},
         NEW x \in 0..Tries, NEW y \in 0..Tries, NEW z \in 0..Tries,
         stage[n] \in {"send", "wait", "backoff"}, Goto(n, s),
         tried' = [tried EXCEPT ![n] = x],
         copies' = [copies EXCEPT ![n] = y], lost' = [lost EXCEPT ![n] = z],
         y <= 1 + z,
         s = "wait" => y <= z /\ z < x,
         s = "backoff" => y <= z /\ z <= x /\ x < Tries,
         Marks(n), UNCHANGED <<rows, dead, cache, left, cancelled, access, granted>>
  PROVE  IInv'
<1> USE PushAssumption
<1>1. TypeOK
  BY DEF IInv
<1>2. /\ fate' \in [Notice -> [Token -> Fate]] /\ \A m \in Notice \ {n} : fate'[m] = fate[m]
      /\ RefusalsReal'
  <2>1. CASE fate' = fate
    BY <1>1, <2>1 DEF IInv, TypeOK, RefusalsReal
  <2>2. ASSUME NEW t \in Token, NEW f \in Fate, fate' = [fate EXCEPT ![n][t] = f],
               f = "refused" => t \in dead \/ <<n, t>> \in Misfit
        PROVE  /\ fate' \in [Notice -> [Token -> Fate]]
               /\ \A m \in Notice \ {n} : fate'[m] = fate[m]
               /\ RefusalsReal'
    <3>1. /\ fate' \in [Notice -> [Token -> Fate]]
          /\ \A m \in Notice \ {n} : fate'[m] = fate[m]
          /\ fate'[n][t] = f /\ \A r \in Token \ {t} : fate'[n][r] = fate[n][r]
      BY <1>1, <2>2 DEF TypeOK
    <3>2. RefusalsReal'
      BY <2>2, <3>1 DEF IInv, RefusalsReal
    <3> QED
      BY <3>1, <3>2
  <2> QED
    BY <2>1, <2>2 DEF Marks
<1>3. TypeOK'
  BY <1>1, <1>2 DEF TypeOK, Goto, Stage
<1>4. /\ stage'[n] = s /\ tried'[n] = x /\ copies'[n] = y /\ lost'[n] = z
      /\ \A m \in Notice \ {n} :
           /\ stage'[m] = stage[m] /\ tried'[m] = tried[m]
           /\ copies'[m] = copies[m] /\ lost'[m] = lost[m]
  BY <1>1 DEF TypeOK, Goto
<1>5. Phases'
  BY <1>2, <1>4 DEF IInv, Phases, Waiting
<1>6. AccessEnough'
  BY <1>4 DEF IInv, AccessEnough
<1>7. CopiesCounted'
  BY <1>4 DEF IInv, CopiesCounted
<1> QED
  BY <1>2, <1>3, <1>5, <1>6, <1>7 DEF IInv

\* All that sendOneWithRetry does for one token.
LEMMA SendInv ==
  ASSUME IInv, NEW n \in Notice,
         \/ Send(n) \/ SendFails(n) \/ Accepted(n) \/ RefusedToken(n) \/ RefusedCall(n)
         \/ Unavailable(n) \/ AnswerLost(n) \/ Retry(n) \/ RetryOver(n)
  PROVE  IInv'
<1> USE PushAssumption
<1>1. TypeOK
  BY DEF IInv
<1>2. tried[n] \in 0..Tries /\ copies[n] \in 0..Tries /\ lost[n] \in 0..Tries
  BY <1>1 DEF TypeOK
<1>3. /\ tried = [tried EXCEPT ![n] = tried[n]] /\ copies = [copies EXCEPT ![n] = copies[n]]
      /\ lost = [lost EXCEPT ![n] = lost[n]] /\ stage = [stage EXCEPT ![n] = stage[n]]
  BY <1>1 DEF TypeOK
<1>4. /\ stage[n] = "wait" => copies[n] <= lost[n] /\ lost[n] < tried[n]
      /\ stage[n] = "backoff" =>
           copies[n] <= lost[n] /\ lost[n] <= tried[n] /\ tried[n] < Tries
      /\ copies[n] <= 1 + lost[n]
  BY DEF IInv, Phases, CopiesCounted
<1>5. \A f \in {"sent", "failed"} :
        Settle(n, f) => Goto(n, "send") /\ Marks(n)
  BY DEF Settle, InHand, Fate, Marks
<1>6. Transient(n) =>
        /\ Marks(n)
        /\ \/ tried[n] < Tries /\ Goto(n, "backoff")
           \/ Goto(n, "send")
  BY <1>5 DEF Transient, Marks
<1>7. CASE Send(n)
  <2>1. Marks(n)
    BY <1>7 DEF Send, Waiting, Fate, Marks
  <2>2. 0 \in 0..Tries /\ 1 \in 0..Tries /\ 0 <= 1 + 0 /\ 0 <= 0 /\ 0 < 1
    OBVIOUS
  <2>3. /\ stage[n] = "send" /\ Goto(n, "wait")
        /\ UNCHANGED <<rows, dead, cache, left, cancelled, access, granted>>
        /\ tried' = [tried EXCEPT ![n] = 1] /\ copies' = [copies EXCEPT ![n] = 0]
        /\ lost' = [lost EXCEPT ![n] = 0]
    BY <1>7 DEF Send
  <2> QED
    BY <2>1, <2>2, <2>3, HandInv
<1>8. CASE SendFails(n)
  <2>1. Marks(n)
    BY <1>8 DEF SendFails, Waiting, Fate, Marks
  <2>2. Goto(n, "send")
    BY <1>3, <1>8 DEF SendFails, Goto
  <2> QED
    BY <1>2, <1>3, <1>4, <1>8, <2>1, <2>2, HandInv DEF SendFails
<1>9. CASE Accepted(n)
  <2>1. copies[n] + 1 \in 0..Tries /\ copies[n] + 1 <= 1 + lost[n]
    BY <1>2, <1>4, <1>9 DEF Accepted
  <2> QED
    BY <1>2, <1>3, <1>5, <1>9, <2>1, HandInv DEF Accepted
<1>10. CASE RefusedToken(n) \/ RefusedCall(n)
  <2>1. CASE RefusedToken(n)
    <3>1. Goto(n, "send") /\ Marks(n)
      BY <2>1 DEF RefusedToken, Unwelcome, InHand, Settle, Marks, Fate
    <3> QED
      BY <1>2, <1>3, <1>4, <2>1, <3>1, HandInv DEF RefusedToken
  <2>2. CASE RefusedCall(n)
    BY <1>2, <1>3, <1>4, <1>5, <2>2, HandInv DEF RefusedCall
  <2> QED
    BY <1>10, <2>1, <2>2
<1>11. CASE Unavailable(n)
  BY <1>2, <1>3, <1>4, <1>6, <1>11, HandInv DEF Unavailable
<1>12. CASE AnswerLost(n)
  <2>1. PICK taken \in {0, 1} : copies' = [copies EXCEPT ![n] = copies[n] + taken]
    BY <1>1, <1>12 DEF AnswerLost, TypeOK
  <2>2. lost' = [lost EXCEPT ![n] = lost[n] + 1]
    BY <1>1, <1>12 DEF AnswerLost, TypeOK
  <2>3. /\ copies[n] + taken \in 0..Tries /\ lost[n] + 1 \in 0..Tries
        /\ copies[n] + taken <= lost[n] + 1 /\ lost[n] + 1 <= tried[n]
    BY <1>2, <1>4, <1>12 DEF AnswerLost
  <2>4. stage[n] = "wait" /\ Transient(n)
        /\ UNCHANGED <<rows, dead, cache, left, cancelled, access, granted, tried>>
    BY <1>12 DEF AnswerLost
  <2>5. copies[n] + taken <= 1 + (lost[n] + 1)
    BY <1>2, <2>3
  <2> QED
    BY <1>2, <1>3, <1>6, <2>1, <2>2, <2>3, <2>4, <2>5, HandInv
<1>13. CASE Retry(n)
  <2>1. tried[n] + 1 \in 0..Tries /\ lost[n] < tried[n] + 1
    BY <1>2, <1>4, <1>13 DEF Retry
  <2>2. Marks(n)
    BY <1>13 DEF Retry, Marks
  <2> QED
    BY <1>2, <1>3, <1>4, <1>13, <2>1, <2>2, HandInv DEF Retry
<1>14. CASE RetryOver(n)
  BY <1>2, <1>3, <1>4, <1>5, <1>14, HandInv DEF RetryOver
<1> QED
  BY <1>7, <1>8, <1>9, <1>10, <1>11, <1>12, <1>13, <1>14

\* The loop ends: nothing waits, and the access token is not used any more.
LEMMA LoopInv == ASSUME IInv, NEW n \in Notice, LoopEnds(n) PROVE IInv'
<1>1. CASE End(n, "done")
  BY <1>1, EndInv DEF LoopEnds
<1>2. CASE /\ Waiting(n) = {} /\ Goto(n, "cleanup") /\ access' = [access EXCEPT ![n] = 0]
           /\ UNCHANGED <<rows, dead, cache, left, cancelled, granted, fate, tried, copies, lost>>
  <2>1. TypeOK'
    BY <1>2, PushAssumption DEF IInv, TypeOK, Goto, Stage
  <2>2. /\ stage'[n] = "cleanup"
        /\ \A m \in Notice \ {n} : stage'[m] = stage[m] /\ access'[m] = access[m]
    BY <1>2 DEF IInv, TypeOK, Goto
  <2>3. Phases' /\ AccessEnough' /\ RefusalsReal' /\ CopiesCounted'
    BY <1>2, <2>2 DEF IInv, Phases, AccessEnough, RefusalsReal, CopiesCounted, Waiting, LoopEnds
  <2> QED
    BY <2>1, <2>3 DEF IInv
<1> QED
  BY <1>1, <1>2 DEF LoopEnds

\* A unit of time takes from every life alike.
LEMMA TickInv == ASSUME IInv, Tick PROVE IInv'
<1> USE PushAssumption
<1>1. TypeOK
  BY DEF IInv
<1>2. /\ \A k \in Nat : Less(k) \in 0..k /\ k - 1 <= Less(k) /\ (k > 0 => Less(k) = k - 1)
      /\ \A j, k \in Nat : j <= k => Less(j) <= Less(k)
  BY DEF Less
<1>3. TypeOK'
  BY <1>1, <1>2 DEF TypeOK, Tick
<1>4. Phases' /\ RefusalsReal' /\ CopiesCounted'
  BY DEF IInv, Phases, RefusalsReal, CopiesCounted, Tick, Waiting
<1>5. cache'.believed < cache'.real + Timeout
  <2>1. cache.believed < cache.real + Timeout /\ cache.believed \in Nat /\ cache.real \in Nat
    BY <1>1 DEF IInv, TypeOK, AccessEnough
  <2>2. cache'.believed = Less(cache.believed) /\ cache'.real = Less(cache.real)
    BY DEF Tick
  <2> QED
    BY <2>1, <2>2 DEF Less
<1>6. ASSUME NEW n \in Notice
      PROVE  /\ stage'[n] \in {"send", "wait", "backoff"} => access'[n] >= left'[n]
             /\ stage'[n] = "issued" /\ left'[n] > 0 => access'[n] + Timeout >= granted'[n] + left'[n]
  <2>1. /\ left[n] \in Nat /\ access[n] \in Nat /\ stage'[n] = stage[n]
        /\ left'[n] = Less(left[n]) /\ access'[n] = Less(access[n])
        /\ granted[n] \in Nat /\ granted'[n] = granted[n] /\ left[n] <= Timeout
    BY <1>1 DEF TypeOK, Tick
  <2>2. stage[n] = "issued" /\ left[n] > 0 => access[n] + Timeout >= granted[n] + left[n]
    BY DEF IInv, AccessEnough
  <2>3. stage[n] \in {"send", "wait", "backoff"} => access[n] >= left[n]
    BY DEF IInv, AccessEnough
  <2> QED
    BY <2>1, <2>2, <2>3 DEF Less
<1> QED
  BY <1>3, <1>4, <1>5, <1>6 DEF IInv, AccessEnough

\* Every step keeps the invariant.
LEMMA NextInv == ASSUME IInv, [Next]_vars PROVE IInv'
<1>1. CASE UNCHANGED vars
  BY <1>1, RowsInv DEF vars, IInv, TypeOK
<1>2. CASE Tick
  BY <1>2, TickInv
<1>3. ASSUME NEW u \in User, NEW t \in Token, Register(u, t) \/ Unregister(u, t) PROVE IInv'
  BY <1>3, RowsInv DEF Register, Unregister, IInv, TypeOK
<1>5. ASSUME NEW t \in Mortal, Uninstall(t) PROVE IInv'
  BY <1>5, PushAssumption, RowsInv DEF Uninstall, IInv, TypeOK
<1>4. ASSUME NEW n \in Notice, Start(n) \/ Cancel(n) \/ Run(n) \/ Fail(n) \/ Answer(n) PROVE IInv'
  <2>1. CASE Start(n) \/ Cancel(n) \/ List(n) \/ ReadCache(n) \/ Issue(n) \/ StoreAccess(n)
    BY <2>1, AccessInv
  <2>2. CASE \/ Send(n) \/ SendFails(n) \/ Accepted(n) \/ RefusedToken(n) \/ RefusedCall(n)
             \/ Unavailable(n) \/ AnswerLost(n) \/ Retry(n) \/ RetryOver(n)
    BY <2>2, SendInv
  <2>3. CASE LoopEnds(n)
    BY <2>3, LoopInv
  <2>4. CASE ListFails(n) \/ Denied(n) \/ Cleanup(n) \/ CleanupFails(n)
    BY <2>4, EndInv DEF ListFails, Denied, Cleanup, CleanupFails
  <2> QED
    BY <1>4, <2>1, <2>2, <2>3, <2>4 DEF Run, Fail, Answer
<1> QED
  BY <1>1, <1>2, <1>3, <1>4, <1>5 DEF Next

LEMMA Inductive == Spec => []IInv
  BY InitInv, NextInv, PTL DEF Spec

\* Every variable keeps its type; in particular nothing outlives its bounds.
THEOREM TypeCorrect == Spec => []TypeOK
<1>1. IInv => TypeOK
  BY DEF IInv
<1> QED
  BY <1>1, Inductive, PTL

\* No request goes out with an access token that has run out.
THEOREM AccessLive == Spec => []AccessTokenLive
<1>1. IInv => AccessTokenLive
  BY DEF IInv, TypeOK, AccessEnough, AccessTokenLive, Over
<1> QED
  BY <1>1, Inductive, PTL

\* A second copy of a notice needs a lost answer.
THEOREM CopiesNeedLoss == Spec => []CopiesCounted
<1>1. IInv => CopiesCounted
  BY DEF IInv
<1> QED
  BY <1>1, Inductive, PTL

\* Only what isInvalidTokenError takes for the death of a token drops its rows,
\* in whatever order answers are lost, attempts repeated and contexts over.
LEMMA DropJustified ==
  ASSUME IInv, [Next]_vars, NEW u \in User, NEW t \in Token, <<u, t>> \in rows \ rows'
  PROVE  \/ Unregister(u, t)
         \/ t \in dead
         \/ \E n \in Notice : <<n, t>> \in Misfit /\ fate[n][t] = "refused"
<1>1. CASE \E n \in Notice : Cleanup(n)
  <2>1. PICK n \in Notice : Cleanup(n)
    BY <1>1
  <2>2. fate[n][t] = "refused"
    BY <2>1 DEF Cleanup, Dropped, Refused
  <2> QED
    BY <2>2 DEF IInv, RefusalsReal
<1>2. CASE \E v \in User, s \in Token : Unregister(v, s)
  BY <1>2 DEF Unregister
<1>3. CASE UNCHANGED rows \/ rows \subseteq rows'
  BY <1>3
<1>4. ASSUME NEW n \in Notice, Start(n) \/ Cancel(n) \/ Run(n) \/ Fail(n) \/ Answer(n),
             ~Cleanup(n)
      PROVE  UNCHANGED rows
  BY <1>4 DEF Run, Fail, Answer, Start, Cancel, List, ReadCache, StoreAccess, Send, SendFails,
              Retry, RetryOver, LoopEnds, ListFails, Denied, AnswerLost, CleanupFails, Issue,
              Accepted, RefusedToken, RefusedCall, Unavailable
<1> QED
  BY <1>1, <1>2, <1>3, <1>4 DEF Next, vars, Tick, Register, Uninstall

\* No failure of a notice takes a registration from a live token, except the
\* refusals that isInvalidTokenError mistakes for its death.
THEOREM RegistrationsKept == Spec => LiveTokenKept
<1>1. IInv /\ [Next]_vars =>
        [\A u \in User, t \in Token :
           <<u, t>> \in rows \ rows' =>
             \/ Unregister(u, t)
             \/ t \in dead
             \/ \E n \in Notice : <<n, t>> \in Misfit /\ fate[n][t] = "refused"]_vars
  BY DropJustified
<1> QED
  BY <1>1, Inductive, PTL DEF Spec, LiveTokenKept

\* A step of a notice takes a token out of "todo" only to try it, unless its
\* time is over, its request cancelled or there is no access token.
LEMMA TodoKept ==
  ASSUME IInv, NEW n \in Notice, NEW m \in Notice, NEW t \in Token,
         Start(n) \/ Cancel(n) \/ Run(n) \/ Fail(n) \/ Answer(n),
         fate[m][t] = "todo", fate'[m][t] # "todo"
  PROVE  \/ fate'[m][t] = "hand" \/ left[m] = 0 \/ stage'[m] = "denied"
         \/ m \in Invite /\ m \in cancelled
<1>1. TypeOK /\ fate[m] \in [Token -> Fate] /\ fate \in [Notice -> [Token -> Fate]]
  BY DEF IInv, TypeOK
<1>2. ASSUME NEW s \in {"done", "denied"}, End(n, s) PROVE m = n /\ stage'[n] = s
  BY <1>1, <1>2 DEF TypeOK, End, Goto
<1>3. stage[m] \notin {"list", "cleanup"}
  BY DEF IInv, Phases, Waiting
<1>4. ASSUME NEW f \in Fate, Settle(n, f) PROVE FALSE
  BY <1>1, <1>4 DEF Settle, InHand
<1>5. CASE Start(n) \/ Cancel(n) \/ ReadCache(n) \/ Issue(n) \/ StoreAccess(n) \/ Retry(n)
  BY <1>5 DEF Start, Cancel, ReadCache, Issue, StoreAccess, Retry
<1>6. CASE List(n)
  <2>1. m # n
    BY <1>3, <1>6 DEF List
  <2>2. fate'[m] = fate[m]
    BY <1>1, <1>2, <1>6, <2>1 DEF List
  <2> QED
    BY <2>2
<1>7. CASE ListFails(n) \/ Cleanup(n) \/ CleanupFails(n)
  BY <1>2, <1>3, <1>7 DEF ListFails, Cleanup, CleanupFails
<1>8. CASE Denied(n)
  BY <1>2, <1>8 DEF Denied
<1>9. CASE Send(n)
  <2>1. PICK s \in Token : fate' = [fate EXCEPT ![n][s] = "hand"]
    BY <1>9 DEF Send, Waiting
  <2> QED
    BY <1>1, <2>1
<1>10. CASE SendFails(n)
  <2>1. PICK s \in Token : fate' = [fate EXCEPT ![n][s] = "failed"]
    BY <1>10 DEF SendFails, Waiting
  <2>2. m = n
    BY <1>1, <2>1
  <2> QED
    BY <1>1, <1>10, <2>2 DEF SendFails, Over, TypeOK
<1>11. CASE Accepted(n) \/ RefusedToken(n) \/ RefusedCall(n) \/ RetryOver(n)
  BY <1>4, <1>11 DEF Accepted, RefusedToken, RefusedCall, RetryOver, Fate
<1>12. CASE Unavailable(n) \/ AnswerLost(n)
  BY <1>4, <1>12 DEF Unavailable, AnswerLost, Transient, Fate
<1>13. CASE LoopEnds(n)
  BY <1>1, <1>2, <1>13 DEF LoopEnds, Waiting
<1> QED
  BY <1>5, <1>6, <1>7, <1>8, <1>9, <1>10, <1>11, <1>12, <1>13 DEF Run, Fail, Answer

\* No listed token is passed over because of another one or of another request.
THEOREM NoTokenSkipped == Spec => EveryTokenTried
<1>1. ASSUME IInv, [Next]_vars, NEW m \in Notice, NEW t \in Token,
             fate[m][t] = "todo", fate'[m][t] # "todo"
      PROVE  \/ fate'[m][t] = "hand" \/ left[m] = 0 \/ stage'[m] = "denied"
             \/ m \in Invite /\ m \in cancelled
  <2>1. ASSUME UNCHANGED fate PROVE FALSE
    BY <1>1, <2>1
  <2>2. CASE UNCHANGED vars \/ Tick \/ (\E s \in Mortal : Uninstall(s))
             \/ (\E u \in User, s \in Token : Register(u, s) \/ Unregister(u, s))
    BY <2>1, <2>2 DEF vars, Tick, Register, Unregister, Uninstall
  <2>3. CASE \E n \in Notice : Start(n) \/ Cancel(n) \/ Run(n) \/ Fail(n) \/ Answer(n)
    BY <1>1, <2>3, TodoKept
  <2> QED
    BY <1>1, <2>2, <2>3 DEF Next
<1>2. IInv /\ [Next]_vars =>
        [\A n \in Notice, t \in Token :
           fate[n][t] = "todo" /\ fate'[n][t] # "todo" =>
             \/ fate'[n][t] = "hand" \/ left[n] = 0 \/ stage'[n] = "denied"
             \/ n \in Invite /\ n \in cancelled]_vars
  BY <1>1
<1> QED
  BY <1>2, Inductive, PTL DEF Spec, EveryTokenTried
=============================================================================
