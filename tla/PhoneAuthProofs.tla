-------------------------- MODULE PhoneAuthProofs --------------------------
(* Proofs about PhoneAuth: the types, the two limits on issuing codes, the
   refinement of the one-time codes, the exhaustion of a code, and what a
   login can be lost to, for every value of the constants.  Inv, defined in
   PhoneAuth, is the inductive invariant.  The second half is about the tokens
   of RefreshSessions, the other half of the service. *)
EXTENDS PhoneAuth, RefreshSessions, FiniteSetTheorems, TLAPS

\* The initial state satisfies the invariant.
LEMMA InitInv == Init => Inv
<1> SUFFICES ASSUME Init PROVE Inv
  OBVIOUS
<1> USE PhoneAssumption
<1>1. Issued = {}
  BY DEF Init, Issued
<1>2. TypeOK
  <2>1. 0 \in Time /\ 0 \in 0..MaxAttempts
    BY DEF Time
  <2> QED
    BY <2>1 DEF Init, TypeOK
<1>3. ClocksOrdered
  BY DEF Init, ClocksOrdered
<1>4. Reading
  BY DEF Init, Reading
<1>5. WrongsCounted
  BY DEF Init, WrongsCounted
<1>6. CodesSpaced /\ WindowQuota
  BY <1>1 DEF CodesSpaced, WindowQuota
<1>7. OneLoginPerCode
  BY DEF Init, OneLoginPerCode
<1> QED
  BY <1>2, <1>3, <1>4, <1>5, <1>6, <1>7 DEF Inv

\* The limits depend on the issued codes and their creation times alone.
LEMMA SameCodes ==
  ASSUME CodesSpaced, WindowQuota, Issued' = Issued,
         \A k \in Issued : created'[k] = created[k]
  PROVE  CodesSpaced' /\ WindowQuota'
<1>1. CodesSpaced'
  BY DEF CodesSpaced
<1>2. WindowQuota'
  <2> SUFFICES ASSUME NEW k \in Issued
               PROVE  Cardinality({l \in Issued : created'[l] <= created'[k]
                                                  /\ created'[k] <= created'[l] + Window})
                        <= MaxRequests
    BY DEF WindowQuota
  <2>1. {l \in Issued : created'[l] <= created'[k] /\ created'[k] <= created'[l] + Window}
          = {l \in Issued : created[l] <= created[k] /\ created[k] <= created[l] + Window}
    OBVIOUS
  <2> QED
    BY <2>1 DEF WindowQuota
<1> QED
  BY <1>1, <1>2

----------------------------------------------------------------------------
\* Time only kills codes.
LEMMA TickInv == Inv /\ Tick => Inv'
<1> SUFFICES ASSUME Inv, Tick PROVE Inv'
  OBVIOUS
<1> USE PhoneAssumption
<1>1. UNCHANGED <<testPhone, req, asked, created, attempts, consumed, wrong, ver, seen, user,
                  taken, newcomers, faulted>>
  BY DEF Tick, requests, verifiers
<1>2. now < MaxTime /\ now' = now + 1
  BY DEF Tick
<1>3. TypeOK /\ now \in Time
  BY DEF Inv, TypeOK
<1>4. TypeOK'
  BY <1>1, <1>2, <1>3 DEF TypeOK, Time
<1>5. Issued' = Issued
  BY <1>1 DEF Issued
<1>6. ClocksOrdered'
  BY <1>1, <1>2, <1>3 DEF Inv, ClocksOrdered, TypeOK, Time
<1>7. Reading'
  BY <1>1, <1>5 DEF Inv, Reading
<1>8. WrongsCounted'
  <2>1. \A k \in Request : ~Usable(k) => ~Usable(k)'
    BY <1>1, <1>2, <1>3 DEF Usable, Expires, TypeOK, Time
  <2> QED
    BY <1>1, <1>5, <2>1 DEF Inv, WrongsCounted
<1>9. CodesSpaced' /\ WindowQuota'
  BY <1>1, <1>5, SameCodes DEF Inv
<1>10. OneLoginPerCode'
  BY <1>1 DEF Inv, OneLoginPerCode
<1> QED
  BY <1>4, <1>6, <1>7, <1>8, <1>9, <1>10 DEF Inv

\* A call that has not issued its code changes no code.
LEMMA AskInv ==
  ASSUME Inv, NEW r \in Request,
         ReadClock(r) \/ BeginTx(r) \/ TooMany(r) \/ RequestFails(r)
  PROVE  Inv'
<1> USE PhoneAssumption
<1>1. UNCHANGED <<testPhone, now, attempts, consumed, wrong, ver, seen, user, taken,
                  newcomers, faulted>>
  BY DEF ReadClock, BeginTx, TooMany, RequestFails, NoRow, verifiers
<1>2. TypeOK /\ r \notin Issued
  BY DEF Inv, ReadClock, BeginTx, TooMany, RequestFails, Issued
<1>3. /\ req' = [req EXCEPT ![r] = req'[r]]
      /\ req'[r] \in {"asked", "begun", "refused", "failed"}
      /\ asked' \in [Request -> Time] /\ created' \in [Request -> Time]
      /\ \A k \in Request \ {r} : asked'[k] = asked[k] /\ created'[k] = created[k]
  <2>1. 0 \in Time
    BY DEF Time
  <2>2. CASE ReadClock(r)
    BY <1>2, <2>2 DEF ReadClock, TypeOK
  <2>3. CASE BeginTx(r)
    BY <1>2, <2>3 DEF BeginTx, TypeOK
  <2>4. CASE TooMany(r) \/ RequestFails(r)
    BY <1>2, <2>1, <2>4 DEF TooMany, RequestFails, NoRow, TypeOK
  <2> QED
    BY <2>2, <2>3, <2>4
<1>4. Issued' = Issued
  BY <1>2, <1>3 DEF Issued, TypeOK
<1>5. TypeOK'
  BY <1>1, <1>2, <1>3 DEF TypeOK
<1>6. ClocksOrdered'
  <2>1. \A k \in Request \ {r} : req'[k] = req[k]
    BY <1>2, <1>3 DEF TypeOK
  <2>2. /\ req'[r] # "idle" => asked'[r] <= now
        /\ req'[r] \in {"begun", "issued", "sent"} => asked'[r] <= created'[r] /\ created'[r] <= now
    <3>1. CASE ReadClock(r)
      BY <1>2, <3>1 DEF ReadClock, TypeOK, Time
    <3>2. CASE BeginTx(r)
      BY <1>2, <3>2 DEF BeginTx, TypeOK, Time, Inv, ClocksOrdered
    <3>3. CASE TooMany(r) \/ RequestFails(r)
      BY <1>2, <3>3 DEF TooMany, RequestFails, NoRow, TypeOK, Time
    <3> QED
      BY <3>1, <3>2, <3>3
  <2> QED
    BY <1>1, <1>3, <2>1, <2>2 DEF Inv, ClocksOrdered
<1>7. Reading'
  BY <1>1, <1>4 DEF Inv, Reading
<1>8. WrongsCounted'
  <2>1. wrong[r] = 0 /\ attempts[r] \in Nat
    BY <1>2 DEF Inv, WrongsCounted, TypeOK
  <2>2. \A k \in Request \ {r} : Usable(k)' <=> Usable(k)
    BY <1>1, <1>3 DEF Usable, Expires
  <2> QED
    BY <1>1, <1>4, <2>1, <2>2 DEF Inv, WrongsCounted
<1>9. CodesSpaced' /\ WindowQuota'
  BY <1>2, <1>3, <1>4, SameCodes DEF Inv, Issued
<1>10. OneLoginPerCode'
  BY <1>1 DEF Inv, OneLoginPerCode
<1> QED
  BY <1>5, <1>6, <1>7, <1>8, <1>9, <1>10 DEF Inv

\* Sending a code changes nothing but the stage of the call.
LEMMA SendInv == ASSUME Inv, NEW r \in Request, SendCode(r) PROVE Inv'
<1>1. UNCHANGED <<testPhone, now, asked, created, attempts, consumed, wrong, ver, seen, user,
                  taken, newcomers, faulted>>
  BY DEF SendCode, verifiers
<1>2. req[r] = "issued" /\ req' = [req EXCEPT ![r] = "sent"]
  BY DEF SendCode
<1>3. TypeOK'
  BY <1>1, <1>2 DEF Inv, TypeOK
<1>4. Issued' = Issued
  BY <1>2 DEF Issued, Inv, TypeOK
<1>5. ClocksOrdered'
  BY <1>1, <1>2 DEF Inv, ClocksOrdered, TypeOK
<1>6. Reading'
  BY <1>1, <1>4 DEF Inv, Reading
<1>7. WrongsCounted'
  BY <1>1, <1>4 DEF Inv, WrongsCounted, Usable, Expires
<1>8. CodesSpaced' /\ WindowQuota'
  BY <1>1, <1>4, SameCodes DEF Inv
<1>9. OneLoginPerCode'
  BY <1>1 DEF Inv, OneLoginPerCode
<1> QED
  BY <1>3, <1>5, <1>6, <1>7, <1>8, <1>9 DEF Inv

\* The code that is issued is the youngest by at least the gap: for every older
\* code the window is as before, and its own window was counted under the lock.
LEMMA IssueInv == ASSUME Inv, NEW r \in Request, Issue(r) PROVE Inv'
<1> USE PhoneAssumption
<1>1. UNCHANGED <<testPhone, now, asked, created, attempts, consumed, wrong, ver, seen, user,
                  taken, newcomers, faulted>>
  BY DEF Issue, verifiers
<1>2. /\ req[r] = "begun" /\ WithinQuota(r)
      /\ req' = [req EXCEPT ![r] = "issued"]
  BY DEF Issue
<1>3. TypeOK /\ r \notin Issued
  BY <1>2 DEF Inv, Issued
<1>4. TypeOK'
  BY <1>1, <1>2, <1>3 DEF TypeOK
<1>5. Issued' = Issued \cup {r}
  BY <1>2, <1>3 DEF Issued, TypeOK
<1>6. ClocksOrdered'
  BY <1>1, <1>2, <1>3 DEF Inv, ClocksOrdered, TypeOK
<1>7. Reading'
  BY <1>1, <1>5 DEF Inv, Reading
<1>8. WrongsCounted'
  BY <1>1, <1>5 DEF Inv, WrongsCounted, Usable, Expires
<1>9. CodesSpaced' /\ WindowQuota'
  <2>1. /\ \A k \in Request : created[k] \in Nat /\ asked[k] \in Nat
        /\ asked[r] <= created[r]
    BY <1>2, <1>3 DEF Inv, TypeOK, Time, ClocksOrdered
  <2>2. \A k \in Issued : k \in Request /\ created[k] + Gap <= created[r]
    BY <1>2, <2>1 DEF WithinQuota, Issued
  <2>3. CodesSpaced'
    BY <1>1, <1>5, <2>2 DEF Inv, CodesSpaced
  <2>4. WindowQuota'
    <3> DEFINE Span(S, k) == {l \in S : created[l] <= created[k]
                                        /\ created[k] <= created[l] + Window}
    <3>1. \A k \in Issued : Span(Issued \cup {r}, k) = Span(Issued, k)
      BY <2>1, <2>2
    <3>2. Cardinality(Span(Issued \cup {r}, r)) <= MaxRequests
      <4> DEFINE Recent == {k \in Issued : created[k] + Window >= asked[r]}
      <4>1. IsFiniteSet(Recent) /\ r \notin Recent
        BY <1>3, FS_Subset DEF Issued
      <4>2. Cardinality(Recent) < MaxRequests
        BY <1>2 DEF WithinQuota
      <4>3. /\ IsFiniteSet(Recent \cup {r})
            /\ Cardinality(Recent \cup {r}) = Cardinality(Recent) + 1
        BY <4>1, FS_AddElement
      <4>4. Span(Issued \cup {r}, r) \subseteq Recent \cup {r}
        BY <2>1, <2>2
      <4>5. /\ Cardinality(Recent) \in Nat
            /\ Cardinality(Span(Issued \cup {r}, r)) \in Nat
            /\ Cardinality(Span(Issued \cup {r}, r)) <= Cardinality(Recent \cup {r})
        <5> HIDE DEF Span, Recent
        <5> QED
          BY <4>1, <4>3, <4>4, FS_Subset, FS_CardinalityType
      <4> HIDE DEF Span, Recent
      <4> QED
        BY <4>2, <4>3, <4>5
    <3>3. \A k \in Issued : Cardinality(Span(Issued, k)) <= MaxRequests
      BY DEF Inv, WindowQuota
    <3>4. \A k \in Issued \cup {r} : Cardinality(Span(Issued \cup {r}, k)) <= MaxRequests
      <4> HIDE DEF Span
      <4> QED
        BY <3>1, <3>2, <3>3
    <3> QED
      BY <1>1, <1>5, <3>4 DEF WindowQuota
  <2> QED
    BY <2>3, <2>4
<1>10. OneLoginPerCode'
  BY <1>1 DEF Inv, OneLoginPerCode
<1> QED
  BY <1>4, <1>6, <1>7, <1>8, <1>9, <1>10 DEF Inv

----------------------------------------------------------------------------
\* The steps of a verifier that change no code.
LEMMA VerifierInv ==
  ASSUME Inv, NEW v \in Verifier,
         TestLogin(v) \/ RejectEarly(v) \/ ReadCode(v) \/ CheckName(v)
           \/ CompleteLogin(v) \/ VerifyFails(v)
  PROVE  Inv'
<1>1. UNCHANGED <<testPhone, now, req, asked, created, attempts, consumed, wrong, taken>>
  BY DEF TestLogin, RejectEarly, ReadCode, CheckName, CompleteLogin, FindUser, CreateUser,
         OpenSession, VerifyFails, requests
<1>2. TypeOK
  BY DEF Inv
<1>3. /\ ver' = [ver EXCEPT ![v] = ver'[v]]
      /\ ver'[v] \in {"right", "wrong", "named", "entered", "creating", "account",
                      "session", "rejected", "failed"}
      /\ user' \in BOOLEAN /\ newcomers' \subseteq Verifier /\ faulted' \subseteq Verifier
  <2>1. user' \in BOOLEAN /\ newcomers' \subseteq Verifier /\ faulted' \subseteq Verifier
    BY <1>2 DEF TestLogin, RejectEarly, ReadCode, CheckName, CompleteLogin, FindUser, CreateUser,
         OpenSession, VerifyFails, Goto, LetIn, TypeOK
  <2>2. PICK s \in {"right", "wrong", "named", "entered", "creating", "account",
                      "session", "rejected", "failed"} : ver' = [ver EXCEPT ![v] = s]
    BY DEF TestLogin, RejectEarly, ReadCode, CheckName, CompleteLogin, FindUser, CreateUser,
         OpenSession, VerifyFails, Goto, LetIn
  <2> QED
    BY <1>2, <2>1, <2>2 DEF TypeOK
<1>4. \/ seen' = seen /\ (ver'[v] \in {"right", "wrong", "named"} => ver[v] = "right")
      \/ ver[v] = "idle" /\ \E k \in Issued : seen' = [seen EXCEPT ![v] = k]
  <2>1. CASE ReadCode(v)
    BY <2>1 DEF ReadCode, Latest
  <2>2. CASE CheckName(v)
    BY <2>2 DEF CheckName
  <2>3. CASE TestLogin(v) \/ RejectEarly(v) \/ CompleteLogin(v) \/ VerifyFails(v)
    BY <1>2, <2>3 DEF TestLogin, RejectEarly, CompleteLogin, FindUser, CreateUser, OpenSession,
       VerifyFails, Goto, LetIn, TypeOK
  <2> QED
    BY <2>1, <2>2, <2>3
<1>5. Issued \subseteq Request /\ Issued' = Issued
  BY <1>1 DEF Issued
<1>6. TypeOK'
  <2>1. seen' \in [Verifier -> Request \cup {NoCode}]
    BY <1>2, <1>4, <1>5 DEF TypeOK
  <2>2. ver' \in [Verifier -> {"idle", "right", "wrong", "named", "entered", "creating",
                              "account", "session", "rejected", "failed"}]
    BY <1>2, <1>3 DEF TypeOK
  <2> QED
    BY <1>1, <1>2, <1>3, <2>1, <2>2 DEF TypeOK
<1>7. ClocksOrdered'
  BY <1>1 DEF Inv, ClocksOrdered
<1>8. \A w \in taken : w \in Verifier /\ seen'[w] = seen[w]
  BY <1>2, <1>4 DEF Inv, Reading, TypeOK
<1>9. Reading'
  <2>1. \A w \in Verifier \ {v} : ver'[w] = ver[w] /\ seen'[w] = seen[w]
    BY <1>2, <1>3, <1>4 DEF TypeOK
  <2>2. ver'[v] \in {"right", "wrong", "named"} => seen'[v] \in Issued /\ v \notin taken
    BY <1>2, <1>4 DEF Inv, Reading, TypeOK
  <2> QED
    BY <1>1, <1>3, <1>5, <1>8, <2>1, <2>2 DEF Inv, Reading
<1>10. WrongsCounted'
  BY <1>1, <1>5 DEF Inv, WrongsCounted, Usable, Expires
<1>11. CodesSpaced' /\ WindowQuota'
  BY <1>1, <1>5, SameCodes DEF Inv
<1>12. OneLoginPerCode'
  BY <1>1, <1>8 DEF Inv, OneLoginPerCode
<1> QED
  BY <1>6, <1>7, <1>9, <1>10, <1>11, <1>12 DEF Inv

\* A wrong answer reaches the attempts, unless the code is dead already.
LEMMA CountWrongInv == ASSUME Inv, NEW v \in Verifier, CountWrong(v) PROVE Inv'
<1> USE PhoneAssumption
<1>1. UNCHANGED <<testPhone, now, req, asked, created, consumed, seen, user, taken, newcomers, faulted>>
  BY DEF CountWrong, requests
<1>2. /\ ver[v] = "wrong" /\ ver' = [ver EXCEPT ![v] = "rejected"]
      /\ attempts' = [attempts EXCEPT ![seen[v]] = IF Usable(seen[v]) THEN @ + 1 ELSE @]
      /\ wrong' = [wrong EXCEPT ![seen[v]] = @ + 1]
  BY DEF CountWrong, Goto
<1>3. TypeOK /\ seen[v] \in Issued /\ seen[v] \in Request
  BY <1>2 DEF Inv, Reading, Issued
<1>4. TypeOK'
  BY <1>1, <1>2, <1>3 DEF TypeOK, Usable
<1>5. Issued' = Issued
  BY <1>1 DEF Issued
<1>6. ClocksOrdered'
  BY <1>1 DEF Inv, ClocksOrdered
<1>7. Reading'
  BY <1>1, <1>2, <1>3, <1>5 DEF Inv, Reading, TypeOK
<1>8. WrongsCounted'
  <2>1. \A k \in Request \ {seen[v]} :
          wrong'[k] = wrong[k] /\ attempts'[k] = attempts[k] /\ (Usable(k)' <=> Usable(k))
    BY <1>1, <1>2, <1>3 DEF TypeOK, Usable, Expires
  <2>2. wrong'[seen[v]] <= attempts'[seen[v]] \/ ~Usable(seen[v])'
    <3>1. CASE Usable(seen[v])
      <4>1. wrong[seen[v]] <= attempts[seen[v]]
        BY <1>3, <3>1 DEF Inv, WrongsCounted
      <4> QED
        BY <1>2, <1>3, <3>1, <4>1 DEF TypeOK
    <3>2. CASE ~Usable(seen[v])
      BY <1>1, <1>2, <1>3, <3>2 DEF TypeOK, Usable, Expires
    <3> QED
      BY <3>1, <3>2
  <2>3. \A k \in Request : wrong'[k] > 0 => k \in Issued
    BY <1>3, <2>1 DEF Inv, WrongsCounted
  <2>4. \A k \in Request : wrong'[k] <= attempts'[k] \/ ~Usable(k)'
    <3> SUFFICES ASSUME NEW k \in Request PROVE wrong'[k] <= attempts'[k] \/ ~Usable(k)'
      OBVIOUS
    <3>1. CASE k = seen[v]
      BY <1>1, <2>2, <3>1 DEF Usable, Expires
    <3>2. CASE k # seen[v]
      BY <2>1, <3>2 DEF Inv, WrongsCounted
    <3> QED
      BY <3>1, <3>2
  <2> QED
    BY <1>5, <2>3, <2>4 DEF WrongsCounted
<1>9. CodesSpaced' /\ WindowQuota'
  BY <1>1, <1>5, SameCodes DEF Inv
<1>10. OneLoginPerCode'
  BY <1>1 DEF Inv, OneLoginPerCode
<1> QED
  BY <1>4, <1>6, <1>7, <1>8, <1>9, <1>10 DEF Inv

\* The update that consumes a code finds it unconsumed, so no one was let in by it.
LEMMA ConsumeInv == ASSUME Inv, NEW v \in Verifier, Consume(v) PROVE Inv'
<1> USE PhoneAssumption
<1>1. UNCHANGED <<testPhone, now, req, asked, created, attempts, wrong, seen, user, faulted>>
  BY DEF Consume, requests
<1>2. TypeOK /\ ver[v] = "named" /\ seen[v] \in Issued /\ seen[v] \in Request /\ v \notin taken
  BY DEF Consume, Inv, Reading, Issued
<1>3. \/ /\ Usable(seen[v]) /\ ver' = [ver EXCEPT ![v] = "entered"]
         /\ consumed' = [consumed EXCEPT ![seen[v]] = TRUE] /\ taken' = taken \cup {v}
      \/ ver' = [ver EXCEPT ![v] = "rejected"] /\ UNCHANGED <<consumed, taken>>
  BY DEF Consume, Goto, LetIn
<1>4. newcomers' \subseteq Verifier
  BY <1>2 DEF Consume, LetIn, TypeOK
<1>5. Issued' = Issued
  BY <1>1 DEF Issued
<1>6. TypeOK'
  BY <1>1, <1>2, <1>3, <1>4 DEF TypeOK
<1>7. ClocksOrdered'
  BY <1>1 DEF Inv, ClocksOrdered
<1>8. Reading'
  BY <1>1, <1>2, <1>3, <1>5 DEF Inv, Reading, TypeOK
<1>9. WrongsCounted'
  <2>1. \A k \in Request : ~Usable(k) => ~Usable(k)'
    BY <1>1, <1>2, <1>3 DEF Usable, Expires, TypeOK
  <2> QED
    BY <1>1, <1>5, <2>1 DEF Inv, WrongsCounted
<1>10. CodesSpaced' /\ WindowQuota'
  BY <1>1, <1>5, SameCodes DEF Inv
<1>11. OneLoginPerCode'
  <2>1. CASE UNCHANGED <<consumed, taken>>
    BY <1>1, <2>1 DEF Inv, OneLoginPerCode
  <2>2. CASE /\ Usable(seen[v]) /\ taken' = taken \cup {v}
             /\ consumed' = [consumed EXCEPT ![seen[v]] = TRUE]
    <3>1. \A w \in taken : seen[w] # seen[v]
      BY <1>2, <2>2 DEF Usable, Inv, OneLoginPerCode
    <3>2. \A k \in Request : consumed'[k] <=> k = seen[v] \/ consumed[k]
      BY <1>2, <2>2 DEF TypeOK
    <3> QED
      BY <1>1, <1>2, <2>2, <3>1, <3>2 DEF Inv, OneLoginPerCode
  <2> QED
    BY <1>3, <2>1, <2>2
<1> QED
  BY <1>6, <1>7, <1>8, <1>9, <1>10, <1>11 DEF Inv

----------------------------------------------------------------------------
\* Every step preserves the invariant.
LEMMA StepInv == Inv /\ [Next]_vars => Inv'
<1> SUFFICES ASSUME Inv, [Next]_vars PROVE Inv'
  OBVIOUS
<1>1. CASE Tick
  BY <1>1, TickInv
<1>2. CASE \E r \in Request : RequestCode(r)
  BY <1>2, AskInv, IssueInv, SendInv DEF RequestCode
<1>3. CASE \E v \in Verifier : VerifyCode(v)
  BY <1>3, VerifierInv, CountWrongInv, ConsumeInv DEF VerifyCode
<1>4. CASE UNCHANGED vars
  BY <1>4 DEF vars, Inv, TypeOK, ClocksOrdered, Reading, WrongsCounted, CodesSpaced,
              WindowQuota, OneLoginPerCode, Issued, Usable, Expires
<1> QED
  BY <1>1, <1>2, <1>3, <1>4 DEF Next

\* The invariant holds in every reachable state.
LEMMA Inductive == Spec => []Inv
<1> QED
  BY InitInv, StepInv, PTL DEF Spec

\* Every variable keeps its type; no code's attempts pass the maximum, although
\* verifiers compare with attempts they read earlier (phone_auth_service.go:121-136).
THEOREM TypeCorrect == Spec => []TypeOK
<1>1. Inv => TypeOK
  BY DEF Inv
<1> QED
  BY <1>1, Inductive, PTL

\* Codes of a number are created at least the minimum gap apart
\* (repository_phone_auth.go:25-60).
THEOREM GapKept == Spec => []CodesSpaced
<1>1. Inv => CodesSpaced
  BY DEF Inv
<1> QED
  BY <1>1, Inductive, PTL

\* No window of time holds more codes of a number than the limit
\* (repository_phone_auth.go:25-60).
THEOREM QuotaKept == Spec => []WindowQuota
<1>1. Inv => WindowQuota
  BY DEF Inv
<1> QED
  BY <1>1, Inductive, PTL

\* A step from a state of the invariant is one of the abstract codes, or none
\* that they can see.
LEMMA CodeStep ==
  ASSUME Inv, Inv', [Next]_vars
  PROVE  [Codes!Next]_Codes!cvars
<1> USE PhoneAssumption
<1> DEFINE life == [k \in Request |-> Life(k)]
           users == [k \in Request |-> {v \in taken : seen[v] = k}]
<1>1. \A k \in Request :
        Life(k) = IF k \notin Issued THEN "none"
                  ELSE IF consumed[k] THEN "spent" ELSE IF Usable(k) THEN "live" ELSE "dead"
  BY DEF Life
<1>2. \A k \in Request :
        Life(k)' = IF k \notin Issued' THEN "none"
                   ELSE IF consumed'[k] THEN "spent" ELSE IF Usable(k)' THEN "live" ELSE "dead"
  BY DEF Life
<1>3. TypeOK
  BY DEF Inv
<1>4. ASSUME UNCHANGED <<taken, consumed>>, Issued' = Issued,
             \A v \in taken : seen'[v] = seen[v],
             \A k \in Issued : Usable(k)' => Usable(k)
      PROVE  [Codes!Next]_Codes!cvars
  <2> DEFINE dying == {k \in Request : life[k] = "live" /\ life'[k] # "live"}
  <2>1. users' = users
    BY <1>4
  <2>2. \A k \in Request : life'[k] = IF k \in dying THEN "dead" ELSE life[k]
    BY <1>1, <1>2, <1>4
  <2>3. life' = [k \in Request |-> IF k \in dying THEN "dead" ELSE life[k]]
    BY <2>2
  <2>4. dying \in SUBSET {k \in Request : life[k] = "live"}
    OBVIOUS
  <2> HIDE DEF dying
  <2>5. Codes!Die
    BY <2>1, <2>3, <2>4 DEF Codes!Die
  <2> QED
    BY <2>5 DEF Codes!Next
<1>5. CASE Tick
  <2>1. \A k \in Issued : Usable(k)' => Usable(k)
    BY <1>3, <1>5 DEF Tick, Usable, Expires, Issued, TypeOK, Time, requests, verifiers
  <2> QED
    BY <1>4, <1>5, <2>1 DEF Tick, Issued, requests, verifiers
<1>6. CASE \E r \in Request : RequestCode(r)
  <2>1. PICK r \in Request : RequestCode(r)
    BY <1>6
  <2>2. CASE Issue(r)
    <3>1. /\ r \notin Issued /\ Issued' = Issued \cup {r}
          /\ UNCHANGED <<now, asked, attempts, consumed, taken, seen>>
      BY <1>3, <2>2 DEF Issue, Issued, TypeOK, verifiers
    <3>2. ~consumed[r]
      BY <1>3, <3>1 DEF Inv, OneLoginPerCode, Reading
    <3>3. \A k \in Request \ {r} : life'[k] = life[k]
      BY <1>1, <1>2, <3>1 DEF Usable, Expires
    <3>4. life[r] = "none" /\ life'[r] \in {"live", "dead"}
      BY <1>1, <1>2, <3>1, <3>2
    <3>5. life' = [life EXCEPT ![r] = life'[r]] /\ users' = users
      BY <3>1, <3>3
    <3> HIDE DEF life, users
    <3>6. Codes!Make(r)
      BY <3>4, <3>5 DEF Codes!Make, life, users
    <3> QED
      BY <3>6 DEF Codes!Next
  <2>3. CASE SendCode(r)
    <3>1. Issued' = Issued
      BY <1>3, <2>3 DEF SendCode, Issued, TypeOK
    <3> QED
      BY <1>4, <2>3, <3>1 DEF SendCode, Usable, Expires, verifiers
  <2>4. CASE ReadClock(r) \/ BeginTx(r) \/ TooMany(r) \/ RequestFails(r)
    <3>1. /\ Issued' = Issued /\ r \notin Issued
          /\ \A k \in Request \ {r} : asked'[k] = asked[k]
          /\ UNCHANGED <<now, attempts, consumed, taken, seen>>
      BY <1>3, <2>4 DEF ReadClock, BeginTx, TooMany, RequestFails, NoRow, Issued, TypeOK, verifiers
    <3>2. \A k \in Issued : Usable(k)' => Usable(k)
      BY <3>1 DEF Usable, Expires, Issued
    <3> QED
      BY <1>4, <3>1, <3>2
  <2> QED
    BY <2>1, <2>2, <2>3, <2>4 DEF RequestCode
<1>7. CASE \E v \in Verifier : VerifyCode(v)
  <2>1. PICK v \in Verifier : VerifyCode(v)
    BY <1>7
  <2>2. UNCHANGED <<now, req, asked>> /\ Issued' = Issued
    BY <2>1 DEF VerifyCode, TestLogin, RejectEarly, ReadCode, CountWrong, CheckName, Consume,
       CompleteLogin, FindUser, CreateUser, OpenSession, VerifyFails, requests, Issued
  <2>3. CASE Consume(v) /\ Usable(seen[v])
    <3>0. PICK k \in Request : k = seen[v]
      BY <1>3, <2>3 DEF Consume, Inv, Reading, Issued
    <3>1. /\ k \in Issued /\ v \notin taken
          /\ consumed' = [consumed EXCEPT ![k] = TRUE] /\ taken' = taken \cup {v}
          /\ UNCHANGED <<attempts, seen>>
      BY <1>3, <2>3, <3>0 DEF Consume, Inv, Reading, Issued
    <3>2. \A w \in taken : seen[w] # k
      BY <2>3, <3>0, <3>1 DEF Usable, Inv, OneLoginPerCode
    <3>3. life[k] = "live" /\ life'[k] = "spent"
      BY <1>1, <1>2, <1>3, <2>2, <2>3, <3>0, <3>1 DEF TypeOK, Usable
    <3>4. \A l \in Request \ {k} : life'[l] = life[l]
      BY <1>1, <1>2, <1>3, <2>2, <3>1 DEF TypeOK, Usable, Expires
    <3>5. users' = [users EXCEPT ![k] = {v}]
      BY <3>0, <3>1, <3>2
    <3>6. life' = [life EXCEPT ![k] = "spent"]
      BY <3>3, <3>4
    <3> HIDE DEF life, users
    <3>7. Codes!Spend(k, v)
      BY <3>3, <3>5, <3>6 DEF Codes!Spend, life, users
    <3> QED
      BY <3>7 DEF Codes!Next
  <2>4. CASE ~(Consume(v) /\ Usable(seen[v]))
    <3>1. UNCHANGED <<consumed, taken>>
      BY <2>1, <2>4 DEF VerifyCode, TestLogin, RejectEarly, ReadCode, CountWrong, CheckName,
         Consume, CompleteLogin, FindUser, CreateUser, OpenSession, VerifyFails
    <3>2. \A w \in taken : seen'[w] = seen[w]
      <4>1. CASE ReadCode(v)
        <5>1. v \notin taken
          BY <4>1 DEF ReadCode, Inv, Reading
        <5> QED
          BY <1>3, <4>1, <5>1 DEF ReadCode, TypeOK
      <4>2. CASE ~ReadCode(v)
        BY <2>1, <4>2 DEF VerifyCode, TestLogin, RejectEarly, CountWrong, CheckName,
           Consume, CompleteLogin, FindUser, CreateUser, OpenSession, VerifyFails
      <4> QED
        BY <4>1, <4>2
    <3>3. \A k \in Issued : Usable(k)' => Usable(k)
      <4>1. \A k \in Request : attempts[k] \in Nat /\ attempts'[k] \in Nat
                               /\ attempts[k] <= attempts'[k]
        <5>1. CASE CountWrong(v)
          BY <1>3, <5>1 DEF CountWrong, Inv, TypeOK
        <5>2. CASE ~CountWrong(v)
          BY <1>3, <2>1, <5>2 DEF VerifyCode, TestLogin, RejectEarly, ReadCode, CheckName,
             Consume, CompleteLogin, FindUser, CreateUser, OpenSession, VerifyFails, TypeOK
        <5> QED
          BY <5>1, <5>2
      <4> QED
        BY <2>2, <3>1, <4>1 DEF Usable, Expires, Issued
    <3> QED
      BY <1>4, <2>2, <3>1, <3>2, <3>3
  <2> QED
    BY <2>3, <2>4
<1>8. CASE UNCHANGED vars
  <2>1. Issued' = Issued /\ \A k \in Issued : Usable(k)' => Usable(k)
    BY <1>8 DEF vars, Issued, Usable, Expires
  <2> QED
    BY <1>4, <1>8, <2>1 DEF vars
<1> QED
  BY <1>5, <1>6, <1>7, <1>8 DEF Next

\* The codes of a number live the life of one-time codes: each is spent by one
\* verifier at most, and never after it expired or its attempts were used up
\* (phone_auth_service.go:121-150, repository_phone_auth.go:80-102).
THEOREM CodesAreOneTime == Spec => OneTimeCodes
<1>1. Init => Codes!Init
  BY DEF Init, Codes!Init, Life, Issued
<1>2. Inv /\ Inv' /\ [Next]_vars => [Codes!Next]_Codes!cvars
  BY CodeStep
<1> QED
  BY <1>1, <1>2, Inductive, PTL DEF Spec, OneTimeCodes, Codes!Spec

----------------------------------------------------------------------------
\* A verifier that creates the account was let in while there was none.
Admission ==
  /\ \A v \in Verifier :
       ver[v] = "creating" \/ (ver[v] = "entered" /\ ~user) => v \in newcomers
  /\ LoginLostOnlyToRace

\* Every step keeps it.
LEMMA AdmissionStep == ASSUME Inv, Admission, [Next]_vars PROVE Admission'
<1>1. TypeOK
  BY DEF Inv
<1>2. CASE UNCHANGED <<ver, newcomers, faulted, user>>
  BY <1>2 DEF Admission, LoginLostOnlyToRace
<1>3. CASE \E v \in Verifier : VerifyCode(v)
  <2>1. PICK v \in Verifier : VerifyCode(v)
    BY <1>3
  <2>2. /\ newcomers \subseteq newcomers' /\ faulted \subseteq faulted'
        /\ user => user'
        /\ \A w \in Verifier \ {v} : ver'[w] = ver[w]
    BY <1>1, <2>1 DEF VerifyCode, TestLogin, RejectEarly, ReadCode, CountWrong, CheckName, Consume,
       CompleteLogin, FindUser, CreateUser, OpenSession, VerifyFails, Goto, LetIn, TypeOK
  <2>3. \A w \in Verifier \ {v} :
          /\ ver'[w] = "creating" \/ (ver'[w] = "entered" /\ ~user') => w \in newcomers'
          /\ ver'[w] = "failed" => w \in faulted' \/ (w \in newcomers' /\ user')
    BY <2>2 DEF Admission, LoginLostOnlyToRace
  <2>4. /\ ver'[v] = "creating" \/ (ver'[v] = "entered" /\ ~user') => v \in newcomers'
        /\ ver'[v] = "failed" => v \in faulted' \/ (v \in newcomers' /\ user')
    <3>1. CASE TestLogin(v) \/ Consume(v)
      BY <1>1, <3>1 DEF TestLogin, Consume, LetIn, Goto, TypeOK
    <3>2. CASE FindUser(v)
      BY <1>1, <3>2 DEF FindUser, Goto, TypeOK, Admission
    <3>3. CASE CreateUser(v)
      <4>1. ver[v] = "creating" /\ user' = TRUE /\ newcomers' = newcomers
        BY <3>3 DEF CreateUser
      <4>2. v \in newcomers
        BY <4>1 DEF Admission
      <4>3. ver'[v] # "creating" /\ ver'[v] # "entered"
        <5>1. PICK s \in {"failed", "account"} : ver' = [ver EXCEPT ![v] = s]
          BY <3>3 DEF CreateUser, Goto
        <5> QED
          BY <1>1, <5>1 DEF TypeOK
      <4> QED
        BY <4>1, <4>2, <4>3
    <3>4. CASE VerifyFails(v)
      BY <1>1, <3>4 DEF VerifyFails, Goto, TypeOK
    <3>5. CASE RejectEarly(v) \/ ReadCode(v) \/ CountWrong(v) \/ CheckName(v) \/ OpenSession(v)
      BY <1>1, <3>5 DEF RejectEarly, ReadCode, CountWrong, CheckName, OpenSession, Goto, TypeOK
    <3> QED
      BY <2>1, <3>1, <3>2, <3>3, <3>4, <3>5 DEF VerifyCode, CompleteLogin
  <2> QED
    BY <2>3, <2>4 DEF Admission, LoginLostOnlyToRace
<1>4. CASE Tick \/ \E r \in Request : RequestCode(r)
  BY <1>2, <1>4 DEF Tick, RequestCode, ReadClock, BeginTx, Issue, TooMany, SendCode, RequestFails,
     NoRow, verifiers
<1>5. CASE UNCHANGED vars
  BY <1>2, <1>5 DEF vars
<1> QED
  BY <1>3, <1>4, <1>5 DEF Next

\* A login that was let in is lost only to a database error or to a second login
\* that creates the same account first (phone_auth_service.go:152-162).
THEOREM LostOnlyToRace == Spec => []LoginLostOnlyToRace
<1>1. Init => Admission
  BY DEF Init, Admission, LoginLostOnlyToRace
<1>2. Inv /\ Admission /\ [Next]_vars => Admission'
  BY AdmissionStep
<1>3. Admission => LoginLostOnlyToRace
  BY DEF Admission
<1> QED
  BY <1>1, <1>2, <1>3, Inductive, PTL DEF Spec

\* A code answered wrong too often is never accepted afterwards
\* (repository_phone_auth.go:80-102).
THEOREM ExhaustedIsFinal == Spec => ExhaustedStaysDead
<1> DEFINE Kept == \A k \in Request : wrong[k] >= MaxAttempts => consumed'[k] = consumed[k]
<1>1. Inv /\ [Next]_vars => [Kept]_vars
  <2> SUFFICES ASSUME Inv, Next, NEW k \in Request, wrong[k] >= MaxAttempts
               PROVE  consumed'[k] = consumed[k]
    OBVIOUS
  <2>1. ~Usable(k)
    BY PhoneAssumption DEF Inv, WrongsCounted, Usable, TypeOK
  <2>2. \A v \in Verifier : Consume(v) => consumed'[k] = consumed[k]
    <3> SUFFICES ASSUME NEW v \in Verifier, Consume(v) PROVE consumed'[k] = consumed[k]
      OBVIOUS
    <3>1. CASE seen[v] = k
      BY <2>1, <3>1 DEF Consume
    <3>2. CASE seen[v] # k
      BY <3>2 DEF Consume, Inv, TypeOK
    <3> QED
      BY <3>1, <3>2
  <2>3. CASE UNCHANGED consumed
    BY <2>3
  <2> QED
    BY <2>2, <2>3 DEF Next, Tick, RequestCode, ReadClock, BeginTx, Issue, TooMany, SendCode,
       RequestFails, NoRow, VerifyCode, TestLogin, RejectEarly, ReadCode, CountWrong, CheckName, CompleteLogin,
       FindUser, CreateUser, OpenSession, VerifyFails
<1> QED
  BY <1>1, Inductive, PTL DEF Spec, ExhaustedStaysDead

----------------------------------------------------------------------------
(* The refresh tokens, which a login opens and which share no state with the
   codes.  SessionInv, defined in RefreshSessions, is the inductive invariant. *)

\* The initial state satisfies the invariant.
LEMMA SessionsInit == SessionInit => SessionInv
  BY DEF SessionInit, SessionInv, SessionTypeOK, Chains, Calls, OneSuccessor, OneLivePerLogin, Call

\* A login begins a chain of its own: no row is named by a row that did not exist.
LEMMA LoginKeeps == ASSUME SessionInv, NEW t \in Token, Login(t) PROVE SessionInv'
<1> USE TokenAssumption
<1>1. UNCHANGED <<expired, stage, given, parent>>
  BY DEF Login
<1>2. /\ row[t] = "none" /\ row' = [row EXCEPT ![t] = "live"]
      /\ login' = [login EXCEPT ![t] = t]
  BY DEF Login
<1>3. SessionTypeOK
  BY DEF SessionInv
<1>4. SessionTypeOK'
  BY <1>1, <1>2, <1>3 DEF SessionTypeOK
<1>5. parent[t] = None /\ \A u \in Token : login[u] # t /\ parent[u] # t
  BY <1>2, <1>3 DEF SessionInv, Chains, SessionTypeOK
<1>6. Chains'
  BY <1>1, <1>2, <1>3, <1>5 DEF SessionInv, Chains, SessionTypeOK
<1>7. Calls'
  BY <1>1, <1>2, <1>3 DEF SessionInv, Calls, SessionTypeOK
<1>8. OneSuccessor'
  BY <1>1 DEF SessionInv, OneSuccessor
<1>9. OneLivePerLogin'
  BY <1>2, <1>3, <1>5 DEF SessionInv, OneLivePerLogin, SessionTypeOK
<1> QED
  BY <1>4, <1>6, <1>7, <1>8, <1>9 DEF SessionInv

\* The rotation finds the old row live, so no row has been rotated from it.
LEMMA RotateKeeps == ASSUME SessionInv, NEW c \in Refresher, Rotate(c) PROVE SessionInv'
<1> USE TokenAssumption
<1>1. UNCHANGED <<expired, given>> /\ row[given[c]] = "live" /\ stage[c] = "read"
  BY DEF Rotate
<1>2. PICK t \in Token :
        /\ row[t] = "none"
        /\ row' = [row EXCEPT ![given[c]] = "revoked", ![t] = "live"]
        /\ parent' = [parent EXCEPT ![t] = given[c]]
        /\ login' = [login EXCEPT ![t] = login[given[c]]]
  BY DEF Rotate
<1>3. \/ stage' = [stage EXCEPT ![c] = "done"]
      \/ stage' = [stage EXCEPT ![c] = "failed"]
  BY DEF Rotate, Advance
<1>4. SessionTypeOK /\ c \in Call
  BY DEF SessionInv, Call
<1>5. PICK old \in Token : old = given[c] /\ row[old] = "live" /\ old # t
  BY <1>1, <1>2, <1>4 DEF SessionInv, Calls, SessionTypeOK
<1>6. SessionTypeOK'
  BY <1>1, <1>2, <1>3, <1>4, <1>5 DEF SessionTypeOK
<1>7. /\ \A u \in Token : parent[u] # old /\ parent[u] # t /\ login[u] # t
      /\ parent[t] = None /\ login[old] # None /\ login[old] \in Token
      /\ row[login[old]] # "none"
  BY <1>2, <1>4, <1>5 DEF SessionInv, Chains, SessionTypeOK
<1>8. /\ row'[old] = "revoked" /\ row'[t] = "live" /\ parent'[t] = old /\ login'[t] = login[old]
      /\ \A u \in Token \ {old, t} : row'[u] = row[u]
      /\ \A u \in Token \ {t} : parent'[u] = parent[u] /\ login'[u] = login[u]
  BY <1>2, <1>4, <1>5 DEF SessionTypeOK
<1>9. Chains'
  <2>1. /\ row'[t] # "none" /\ login'[t] # None /\ row'[login'[t]] # "none"
        /\ row'[parent'[t]] = "revoked"
    BY <1>7, <1>8
  <2>2. \A u \in Token \ {t} :
          /\ row'[u] = "none" => parent'[u] = None /\ login'[u] = None
          /\ row'[u] # "none" => login'[u] # None /\ row'[login'[u]] # "none"
          /\ parent'[u] # None => row'[parent'[u]] = "revoked"
    BY <1>4, <1>5, <1>7, <1>8 DEF SessionInv, Chains, SessionTypeOK
  <2> QED
    BY <2>1, <2>2 DEF Chains
<1>10. Calls'
  <2>1. \A d \in Call : given[d] # None => given[d] \in Token /\ given[d] # t
    BY <1>2, <1>4 DEF SessionInv, Calls, SessionTypeOK
  <2>2. \A d \in Call : stage'[d] = stage[d] \/ (d = c /\ stage'[d] # "read")
    BY <1>3, <1>4 DEF SessionTypeOK
  <2>3. \A d \in Leaver : d # c /\ stage'[d] = stage[d]
    BY <2>2 DEF Call
  <2> QED
    BY <1>1, <1>5, <1>8, <2>1, <2>2, <2>3 DEF SessionInv, Calls
<1>11. OneSuccessor'
  <2> SUFFICES ASSUME NEW u \in Token, NEW w \in Token, parent'[u] = parent'[w],
                      parent'[u] # None
               PROVE  u = w
    BY DEF OneSuccessor
  <2>1. CASE u # t /\ w # t
    BY <1>8, <2>1 DEF SessionInv, OneSuccessor
  <2>2. CASE u = t \/ w = t
    BY <1>7, <1>8, <2>2
  <2> QED
    BY <2>1, <2>2
<1>12. OneLivePerLogin'
  <2> SUFFICES ASSUME NEW u \in Token, NEW w \in Token, row'[u] = "live", row'[w] = "live",
                      login'[u] = login'[w]
               PROVE  u = w
    BY DEF OneLivePerLogin
  <2>1. \A x \in Token \ {t} : row'[x] = "live" => row[x] = "live" /\ login[x] # login[old]
    BY <1>5, <1>8 DEF SessionInv, OneLivePerLogin
  <2>2. CASE u # t /\ w # t
    BY <1>8, <2>1, <2>2 DEF SessionInv, OneLivePerLogin
  <2>3. CASE u = t \/ w = t
    BY <1>8, <2>1, <2>3
  <2> QED
    BY <2>2, <2>3
<1> QED
  BY <1>6, <1>9, <1>10, <1>11, <1>12 DEF SessionInv

\* A logout revokes; nothing that was revoked comes back.
LEMMA RevokeKeeps == ASSUME SessionInv, NEW c \in Leaver, Revoke(c) PROVE SessionInv'
<1> USE TokenAssumption
<1>1. UNCHANGED <<expired, given, parent, login>> /\ stage[c] = "read"
  BY DEF Revoke, history
<1>2. /\ row' = [row EXCEPT ![given[c]] = "revoked"]
      /\ stage' = [stage EXCEPT ![c] = "done"]
  BY DEF Revoke, Advance
<1>3. SessionTypeOK /\ c \in Call /\ given[c] \in Token /\ row[given[c]] # "none"
  BY <1>1 DEF SessionInv, Call, Calls, SessionTypeOK
<1>4. SessionTypeOK'
  BY <1>1, <1>2, <1>3 DEF SessionTypeOK
<1>5. \A u \in Token : row'[u] = row[u] \/ (row[u] # "none" /\ row'[u] = "revoked")
  BY <1>2, <1>3 DEF SessionTypeOK
<1>6. Chains'
  <2>1. \A u \in Token : parent[u] \in Token \cup {None} /\ login[u] \in Token \cup {None}
    BY <1>3 DEF SessionTypeOK
  <2> QED
    BY <1>1, <1>5, <2>1 DEF SessionInv, Chains
<1>7. Calls'
  <2>1. \A d \in Call : given[d] \in Token \cup {None}
    BY <1>3 DEF SessionTypeOK
  <2>2. row'[given[c]] = "revoked"
    BY <1>2, <1>3 DEF SessionTypeOK
  <2>3. \A d \in Call \ {c} : stage'[d] = stage[d]
    BY <1>2, <1>3 DEF SessionTypeOK
  <2>4. stage'[c] = "done"
    BY <1>2, <1>3 DEF SessionTypeOK
  <2> QED
    BY <1>1, <1>5, <2>1, <2>2, <2>3, <2>4 DEF SessionInv, Calls
<1>8. OneSuccessor'
  BY <1>1 DEF SessionInv, OneSuccessor
<1>9. OneLivePerLogin'
  BY <1>1, <1>5 DEF SessionInv, OneLivePerLogin
<1> QED
  BY <1>4, <1>6, <1>7, <1>8, <1>9 DEF SessionInv

\* The steps that write no row.
LEMMA ReadKeeps ==
  ASSUME SessionInv, NEW c \in Call,
         ReadForRefresh(c) \/ RotateRefused(c) \/ CallFails(c) \/ ReadForLogout(c)
  PROVE  SessionInv'
<1> USE TokenAssumption
<1>1. UNCHANGED <<row, expired, parent, login>>
  BY DEF ReadForRefresh, RotateRefused, CallFails, ReadForLogout, history
<1>2. SessionTypeOK
  BY DEF SessionInv
<1>3. PICK g \in Token \cup {None} :
        given' = [given EXCEPT ![c] = g] /\ (g # None => row[g] # "none")
  BY <1>2 DEF ReadForRefresh, RotateRefused, CallFails, ReadForLogout, SessionTypeOK, SessionInv, Calls
<1>4. PICK s \in {"read", "done", "refused", "failed"} :
        /\ stage' = [stage EXCEPT ![c] = s]
        /\ s = "read" => g # None
        /\ s = "done" /\ g # None /\ c \in Leaver => row[g] = "revoked"
  <2>1. CASE ReadForRefresh(c) \/ ReadForLogout(c)
    BY <1>2, <1>3, <2>1 DEF ReadForRefresh, ReadForLogout, Advance, SessionTypeOK
  <2>2. CASE RotateRefused(c) \/ CallFails(c)
    BY <2>2 DEF RotateRefused, CallFails, Advance
  <2> QED
    BY <2>1, <2>2
<1>5. SessionTypeOK'
  BY <1>1, <1>2, <1>3, <1>4 DEF SessionTypeOK
<1>6. Calls'
  BY <1>1, <1>2, <1>3, <1>4 DEF SessionInv, Calls, SessionTypeOK
<1>7. Chains' /\ OneSuccessor' /\ OneLivePerLogin'
  BY <1>1 DEF SessionInv, Chains, OneSuccessor, OneLivePerLogin
<1> QED
  BY <1>5, <1>6, <1>7 DEF SessionInv

\* Every step preserves the invariant.
LEMMA SessionsStep == SessionInv /\ [SessionNext]_sessionVars => SessionInv'
<1> SUFFICES ASSUME SessionInv, [SessionNext]_sessionVars PROVE SessionInv'
  OBVIOUS
<1>1. ASSUME NEW t \in Token, Login(t) PROVE SessionInv'
  BY <1>1, LoginKeeps
<1>2. ASSUME NEW t \in Token, Expire(t) PROVE SessionInv'
  BY <1>2 DEF Expire, history, SessionInv, SessionTypeOK, Chains, Calls, OneSuccessor, OneLivePerLogin
<1>3. ASSUME NEW c \in Refresher, Refresh(c) PROVE SessionInv'
  BY <1>3, RotateKeeps, ReadKeeps DEF Refresh, Call
<1>4. ASSUME NEW c \in Leaver, Logout(c) PROVE SessionInv'
  BY <1>4, RevokeKeeps, ReadKeeps DEF Logout, Call
<1>5. CASE UNCHANGED sessionVars
  BY <1>5 DEF sessionVars, SessionInv, SessionTypeOK, Chains, Calls, OneSuccessor, OneLivePerLogin
<1> QED
  BY <1>1, <1>2, <1>3, <1>4, <1>5 DEF SessionNext

\* The invariant holds in every reachable state.
LEMMA SessionsInductive == SessionSpec => []SessionInv
<1> QED
  BY SessionsInit, SessionsStep, PTL DEF SessionSpec

\* The rows and the calls keep their types (repository_sessions.go:21-76).
THEOREM SessionTypeCorrect == SessionSpec => []SessionTypeOK
<1>1. SessionInv => SessionTypeOK
  BY DEF SessionInv
<1> QED
  BY <1>1, SessionsInductive, PTL

\* A token is rotated into one successor at most (repository_sessions.go:52-76).
THEOREM SuccessorUnique == SessionSpec => []OneSuccessor
<1>1. SessionInv => OneSuccessor
  BY DEF SessionInv
<1> QED
  BY <1>1, SessionsInductive, PTL

\* A login never has two tokens that work (repository_sessions.go:21-76).
THEOREM OneLive == SessionSpec => []OneLivePerLogin
<1>1. SessionInv => OneLivePerLogin
  BY DEF SessionInv
<1> QED
  BY <1>1, SessionsInductive, PTL

\* After an answered logout the token gets no successor
\* (phone_auth_service.go:202-218).
THEOREM LogoutFinal == SessionSpec => LogoutStopsRotation
<1> DEFINE Stopped ==
      \A t \in Token : parent'[t] # parent[t] =>
        \A c \in Leaver : stage[c] = "done" => given[c] # parent'[t]
<1>1. SessionInv /\ [SessionNext]_sessionVars => [Stopped]_sessionVars
  <2> SUFFICES ASSUME SessionInv, SessionNext, NEW t \in Token, parent'[t] # parent[t],
                      NEW c \in Leaver, stage[c] = "done"
               PROVE  given[c] # parent'[t]
    OBVIOUS
  <2>1. PICK d \in Refresher : Rotate(d)
    BY DEF SessionNext, Login, Expire, Refresh, ReadForRefresh, RotateRefused, CallFails, Logout,
           ReadForLogout, Revoke, history
  <2>2. parent'[t] = given[d] /\ row[given[d]] = "live" /\ given[d] # None
    BY <2>1 DEF Rotate, SessionInv, SessionTypeOK, Calls, Call
  <2> QED
    BY <2>2 DEF SessionInv, Calls, Call
<1> QED
  BY <1>1, SessionsInductive, PTL DEF SessionSpec, LogoutStopsRotation

----------------------------------------------------------------------------
(* The refinement of LoginSession.                                         *)

\* A step that inserts no row and revokes none is no step of a login.
LEMMA SameRows ==
  ASSUME UNCHANGED <<row, login>>
  PROVE  UNCHANGED Logins!lvars
  BY DEF Logins!lvars, Unrevoked, Made

LEMMA OpensLogin == ASSUME SessionInv, NEW l \in Token, Login(l) PROVE Logins!Open(l)
<1>1. /\ row[l] = "none" /\ row' = [row EXCEPT ![l] = "live"]
      /\ login' = [login EXCEPT ![l] = l] /\ SessionTypeOK
  BY DEF Login, SessionInv
<1>2. \A t \in Token : login[t] # l
  BY <1>1, TokenAssumption DEF SessionInv, Chains, SessionTypeOK
<1>3. \A k \in Token : Unrevoked(k)' = IF k = l THEN {l} ELSE Unrevoked(k)
  BY <1>1, <1>2 DEF Unrevoked, SessionTypeOK
<1>4. Made' = Made \cup {l}
  BY <1>1 DEF Made, SessionTypeOK
<1>5. l \notin Made
  BY <1>1 DEF Made
<1> QED
  BY <1>3, <1>4, <1>5 DEF Logins!Open

\* The rotated row is the one its login has, since it is found live.
LEMMA RenewsLogin ==
  ASSUME SessionInv, NEW c \in Refresher, Rotate(c) PROVE \E l \in Token : Logins!Renew(l)
<1>1. SessionTypeOK /\ row[given[c]] = "live" /\ given[c] \in Token
  BY DEF Rotate, SessionInv, Calls, SessionTypeOK, Call
<1>2. PICK new \in Token :
        /\ row[new] = "none"
        /\ row' = [row EXCEPT ![given[c]] = "revoked", ![new] = "live"]
        /\ login' = [login EXCEPT ![new] = login[given[c]]]
  BY DEF Rotate
<1>3. PICK old \in Token : old = given[c] /\ row[old] = "live" /\ old # new
  BY <1>1, <1>2
<1>4. PICK l \in Token : l = login[old]
  BY <1>1, <1>3 DEF SessionInv, Chains, SessionTypeOK
<1>5. Unrevoked(l) = {old}
  BY <1>3, <1>4 DEF Unrevoked, SessionInv, OneLivePerLogin
<1>6. /\ row'[old] = "revoked" /\ row'[new] = "live" /\ login'[new] = l
      /\ \A t \in Token \ {old, new} : row'[t] = row[t]
      /\ \A t \in Token \ {new} : login'[t] = login[t]
  BY <1>1, <1>2, <1>3, <1>4 DEF SessionTypeOK
<1>7. ASSUME NEW k \in Token PROVE Unrevoked(k)' = IF k = l THEN {new} ELSE Unrevoked(k)
  <2>1. \A t \in Token \ {old, new} : t \in Unrevoked(k)' <=> t \in Unrevoked(k)
    BY <1>6 DEF Unrevoked
  <2>2. (old \in Unrevoked(k) <=> k = l) /\ old \notin Unrevoked(k)'
    BY <1>3, <1>4, <1>6 DEF Unrevoked
  <2>3. new \notin Unrevoked(k) /\ (new \in Unrevoked(k)' <=> k = l)
    BY <1>2, <1>6 DEF Unrevoked
  <2>4. Unrevoked(k) \subseteq Token /\ Unrevoked(k)' \subseteq Token
    BY DEF Unrevoked
  <2> QED
    BY <1>3, <1>5, <2>1, <2>2, <2>3, <2>4
<1>8. Made' = Made \cup {new}
  BY <1>2, <1>3, <1>6 DEF Made
<1>9. new \in Token \ Made /\ old \in Made
  BY <1>2, <1>3 DEF Made
<1> QED
  BY <1>5, <1>7, <1>8, <1>9 DEF Logins!Renew

\* A logout ends the login of its token, or comes after another end or a rotation.
LEMMA ClosesLogin ==
  ASSUME SessionInv, NEW c \in Leaver, Revoke(c)
  PROVE  (\E l \in Token : Logins!Close(l)) \/ UNCHANGED Logins!lvars
<1>1. /\ SessionTypeOK /\ given[c] \in Token /\ row[given[c]] # "none"
      /\ row' = [row EXCEPT ![given[c]] = "revoked"] /\ UNCHANGED login
  BY DEF Revoke, history, SessionInv, Calls, SessionTypeOK, Call
<1>2. PICK old \in Token : old = given[c] /\ row[old] # "none"
  BY <1>1
<1>3. row'[old] = "revoked" /\ \A t \in Token \ {old} : row'[t] = row[t]
  BY <1>1, <1>2 DEF SessionTypeOK
<1>4. Made' = Made
  BY <1>2, <1>3 DEF Made
<1>5. CASE row[old] = "live"
  <2>1. PICK l \in Token : l = login[old]
    BY <1>1, <1>2 DEF SessionInv, Chains, SessionTypeOK
  <2>2. Unrevoked(l) = {old}
    BY <1>5, <2>1 DEF Unrevoked, SessionInv, OneLivePerLogin
  <2>3. \A k \in Token : Unrevoked(k)' = IF k = l THEN {} ELSE Unrevoked(k)
    BY <1>1, <1>3, <2>1, <2>2 DEF Unrevoked
  <2>4. old \in Made
    BY <1>2 DEF Made
  <2> QED
    BY <1>4, <2>2, <2>3, <2>4 DEF Logins!Close
<1>6. CASE row[old] # "live"
  <2>1. \A k \in Token : Unrevoked(k)' = Unrevoked(k)
    BY <1>1, <1>3, <1>6 DEF Unrevoked
  <2> QED
    BY <1>4, <2>1 DEF Logins!lvars
<1> QED
  BY <1>5, <1>6

\* The tokens implement the login: one token at a time, renewed or ended in one
\* step, and never again once it is ended (repository_sessions.go:21-76).
THEOREM SessionsAreLogins == SessionSpec => OneTokenAtATime
<1>1. SessionInit => Logins!Init
  BY DEF SessionInit, Logins!Init, Unrevoked, Made
<1>2. SessionInv /\ [SessionNext]_sessionVars => [Logins!Next]_(Logins!lvars)
  <2> SUFFICES ASSUME SessionInv, [SessionNext]_sessionVars
               PROVE  Logins!Next \/ UNCHANGED Logins!lvars
    OBVIOUS
  <2>1. ASSUME NEW t \in Token, Login(t) PROVE Logins!Next
    BY <2>1, OpensLogin DEF Logins!Next
  <2>2. ASSUME NEW c \in Refresher, Rotate(c) PROVE Logins!Next
    BY <2>2, RenewsLogin DEF Logins!Next
  <2>3. ASSUME NEW c \in Leaver, Revoke(c) PROVE Logins!Next \/ UNCHANGED Logins!lvars
    BY <2>3, ClosesLogin DEF Logins!Next
  <2>4. ASSUME \/ \E t \in Token : Expire(t)
               \/ \E c \in Call : \/ ReadForRefresh(c) \/ RotateRefused(c)
                                  \/ ReadForLogout(c) \/ CallFails(c)
               \/ UNCHANGED sessionVars
        PROVE  UNCHANGED Logins!lvars
    <3>1. UNCHANGED <<row, login>>
      BY <2>4 DEF Expire, ReadForRefresh, RotateRefused, ReadForLogout, CallFails, history,
                  sessionVars
    <3> QED
      BY <3>1, SameRows
  <2> QED
    BY <2>1, <2>2, <2>3, <2>4 DEF SessionNext, Refresh, Logout, Call
<1> QED
  BY <1>1, <1>2, SessionsInductive, PTL DEF SessionSpec, OneTokenAtATime, Logins!Spec
=============================================================================
