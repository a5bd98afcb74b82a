----------------------------- MODULE PhoneAuth -----------------------------
(***************************************************************************)
(* Login by SMS code for one phone number: RequestCode and VerifyCode of   *)
(* internal/service/phone_auth_service.go with the statements they run     *)
(* (internal/storage/repository_phone_auth.go).  Every statement is keyed  *)
(* by the number or by a code of it, so numbers do not interact.           *)
(*                                                                         *)
(* Grain.  A call reads the clock, then runs its database statements one   *)
(* by one; other calls run in between.  The transaction that issues a code *)
(* holds an advisory lock on the number up to its commit, so from the lock *)
(* on it is one step; its created_at is the time the transaction began.    *)
(* A statement can fail; the call then ends with an error.  The process    *)
(* and the database are taken to read one clock, in units of time.         *)
(***************************************************************************)
EXTENDS Naturals, FiniteSets

CONSTANTS
  Request,        \* calls of RequestCode; a call issues at most one code, named by it
  Verifier,       \* calls of VerifyCode
  NoCode,         \* no code read yet
  TTL,            \* phoneCodeTTL
  MaxAttempts,    \* phoneCodeMaxAttempts
  Window,         \* phoneCodeRateLimitWindow
  MaxRequests,    \* phoneCodeRateLimitMax
  Gap,            \* phoneCodeMinRequestGap
  MaxTime         \* bound: the last instant of the model

ASSUME PhoneAssumption ==
  /\ IsFiniteSet(Request) /\ NoCode \notin Request
  /\ TTL \in Nat /\ MaxAttempts \in Nat /\ Window \in Nat /\ MaxTime \in Nat
  /\ MaxRequests \in Nat \ {0} /\ Gap \in Nat \ {0}

VARIABLES
  testPhone,             \* isTestAuthMobile of the number
  now,
  req,                   \* RequestCode: "idle", "asked", "begun", "issued", "sent",
                         \* "refused", "failed"
  asked, created,        \* the time a call read first, the start of its transaction
  attempts, consumed,    \* columns of the code
  ver,                   \* VerifyCode: "idle", "right", "wrong", "named", "entered",
                         \* "creating", "account", "session", "rejected", "failed"
  seen,                  \* the code a verifier read
  user,                  \* whether the number has an account
  wrong,                 \* history: wrong answers given for each code
  taken,                 \* history: verifiers whose ConsumePhoneCode succeeded
  newcomers,             \* history: verifiers let in while the number had no account
  faulted                \* history: verifiers that met a database error

requests == <<req, asked, created>>
verifiers == <<ver, seen, user, taken, newcomers, faulted>>
vars == <<testPhone, now, req, asked, created, attempts, consumed, ver, seen, user,
          wrong, taken, newcomers, faulted>>

Time == 0..MaxTime

----------------------------------------------------------------------------
Issued == {k \in Request : req[k] \in {"issued", "sent"}}

\* GetLatestPhoneCode: ORDER BY created_at DESC LIMIT 1.
Latest == {k \in Issued : \A l \in Issued : created[l] <= created[k]}

Expires(k) == asked[k] + TTL

\* The guard that IncrementPhoneCodeAttempts and ConsumePhoneCode share.
Usable(k) == ~consumed[k] /\ Expires(k) > now /\ attempts[k] < MaxAttempts

\* Mutants of WithinQuota: no minimum gap; one code too many in the window.
QuotaWithoutGap(r) ==
  Cardinality({k \in Issued : created[k] + Window >= asked[r]}) < MaxRequests
QuotaOffByOne(r) ==
  /\ Cardinality({k \in Issued : created[k] + Window >= asked[r]}) <= MaxRequests
  /\ \A k \in Issued : created[k] + Gap <= asked[r]

\* Both limits of CreatePhoneCodeIfWithinLimit.
WithinQuota(r) ==
  /\ Cardinality({k \in Issued : created[k] + Window >= asked[r]}) < MaxRequests
  /\ \A k \in Issued : created[k] + Gap <= asked[r]

----------------------------------------------------------------------------
Init ==
  /\ testPhone \in BOOLEAN
  /\ now = 0
  /\ req = [r \in Request |-> "idle"]
  /\ asked = [r \in Request |-> 0]
  /\ created = [r \in Request |-> 0]
  /\ attempts = [r \in Request |-> 0]
  /\ consumed = [r \in Request |-> FALSE]
  /\ ver = [v \in Verifier |-> "idle"]
  /\ seen = [v \in Verifier |-> NoCode]
  /\ user = FALSE
  /\ wrong = [r \in Request |-> 0]
  /\ taken = {}
  /\ newcomers = {}
  /\ faulted = {}

Tick ==
  /\ now < MaxTime
  /\ now' = now + 1
  /\ UNCHANGED <<testPhone, requests, attempts, consumed, wrong, verifiers>>

----------------------------------------------------------------------------
(* RequestCode.                                                            *)

ReadClock(r) ==
  /\ req[r] = "idle" /\ ~testPhone
  /\ req' = [req EXCEPT ![r] = "asked"]
  /\ asked' = [asked EXCEPT ![r] = now]
  /\ UNCHANGED <<testPhone, now, created, attempts, consumed, wrong, verifiers>>

BeginTx(r) ==
  /\ req[r] = "asked"
  /\ req' = [req EXCEPT ![r] = "begun"]
  /\ created' = [created EXCEPT ![r] = now]
  /\ UNCHANGED <<testPhone, now, asked, attempts, consumed, wrong, verifiers>>

\* The lock, both checks, the insert and the commit.
Issue(r) ==
  /\ req[r] = "begun" /\ WithinQuota(r)
  /\ req' = [req EXCEPT ![r] = "issued"]
  /\ UNCHANGED <<testPhone, now, asked, created, attempts, consumed, wrong, verifiers>>

\* The call ends without a row, its times forgotten.
NoRow(r, outcome) ==
  /\ req' = [req EXCEPT ![r] = outcome]
  /\ asked' = [asked EXCEPT ![r] = 0]
  /\ created' = [created EXCEPT ![r] = 0]
  /\ UNCHANGED <<testPhone, now, attempts, consumed, wrong, verifiers>>

TooMany(r) == req[r] = "begun" /\ ~WithinQuota(r) /\ NoRow(r, "refused")

SendCode(r) ==
  /\ req[r] = "issued"
  /\ req' = [req EXCEPT ![r] = "sent"]
  /\ UNCHANGED <<testPhone, now, asked, created, attempts, consumed, wrong, verifiers>>

\* A transaction that fails leaves no row; an SMS that fails (no action: the row
\* stays "issued") leaves one that counts.
RequestFails(r) ==
  /\ req[r] \in {"asked", "begun"}
  /\ NoRow(r, "failed")

----------------------------------------------------------------------------
(* VerifyCode.                                                             *)

Goto(v, stage) == ver' = [ver EXCEPT ![v] = stage]

LetIn(v) ==
  /\ Goto(v, "entered")
  /\ newcomers' = IF user THEN newcomers ELSE newcomers \cup {v}

TestLogin(v) ==
  /\ ver[v] = "idle" /\ testPhone
  /\ \/ LetIn(v)
     \/ Goto(v, "rejected") /\ UNCHANGED newcomers
  /\ UNCHANGED <<testPhone, now, requests, attempts, consumed, wrong, seen, user, taken, faulted>>

\* No code, or a dead one.
RejectEarly(v) ==
  /\ ver[v] = "idle" /\ ~testPhone
  /\ \A k \in Latest : consumed[k] \/ now > Expires(k) \/ attempts[k] >= MaxAttempts
  /\ Goto(v, "rejected")
  /\ UNCHANGED <<testPhone, now, requests, attempts, consumed, wrong, seen, user, taken, newcomers, faulted>>

\* The typed code is compared with the latest one; an older code is wrong as well.
ReadCode(v) ==
  /\ ver[v] = "idle" /\ ~testPhone
  /\ \E k \in Latest :
       /\ ~consumed[k] /\ now <= Expires(k) /\ attempts[k] < MaxAttempts
       /\ seen' = [seen EXCEPT ![v] = k]
  /\ \E answer \in {"right", "wrong"} : Goto(v, answer)
  /\ UNCHANGED <<testPhone, now, requests, attempts, consumed, wrong, user, taken, newcomers, faulted>>

CountWrong(v) ==
  /\ ver[v] = "wrong"
  /\ attempts' = [attempts EXCEPT ![seen[v]] = IF Usable(seen[v]) THEN @ + 1 ELSE @]
  /\ wrong' = [wrong EXCEPT ![seen[v]] = @ + 1]
  /\ Goto(v, "rejected")
  /\ UNCHANGED <<testPhone, now, requests, consumed, seen, user, taken, newcomers, faulted>>

\* A new account needs a display name before the code is spent.
CheckName(v) ==
  /\ ver[v] = "right"
  /\ \/ Goto(v, "named")
     \/ ~user /\ Goto(v, "rejected")
  /\ UNCHANGED <<testPhone, now, requests, attempts, consumed, wrong, seen, user, taken, newcomers, faulted>>

\* Mutant of Consume: the row is updated whatever its state.
ConsumeUnguarded(v) ==
  /\ ver[v] = "named"
  /\ consumed' = [consumed EXCEPT ![seen[v]] = TRUE]
  /\ taken' = taken \cup {v}
  /\ LetIn(v)
  /\ UNCHANGED <<testPhone, now, requests, attempts, wrong, seen, user, faulted>>
\* Mutant of Consume: the attempts are not checked again.
ConsumeForgetsAttempts(v) ==
  /\ ver[v] = "named"
  /\ ~consumed[seen[v]] /\ Expires(seen[v]) > now
  /\ consumed' = [consumed EXCEPT ![seen[v]] = TRUE]
  /\ taken' = taken \cup {v}
  /\ LetIn(v)
  /\ UNCHANGED <<testPhone, now, requests, attempts, wrong, seen, user, faulted>>

Consume(v) ==
  /\ ver[v] = "named"
  /\ IF Usable(seen[v])
       THEN /\ consumed' = [consumed EXCEPT ![seen[v]] = TRUE]
            /\ taken' = taken \cup {v}
            /\ LetIn(v)
       ELSE Goto(v, "rejected") /\ UNCHANGED <<consumed, taken, newcomers>>
  /\ UNCHANGED <<testPhone, now, requests, attempts, wrong, seen, user, faulted>>

\* Mutant of FindUser: an existing account is not looked for.
FindUserCreates(v) ==
  /\ ver[v] = "entered"
  /\ Goto(v, "creating")
  /\ UNCHANGED <<testPhone, now, requests, attempts, consumed, wrong, seen, user, taken, newcomers, faulted>>

\* A code was spent for a display name that was valid; the test login checks it here.
FindUser(v) ==
  /\ ver[v] = "entered"
  /\ \/ Goto(v, IF user THEN "account" ELSE "creating")
     \/ testPhone /\ ~user /\ Goto(v, "rejected")
  /\ UNCHANGED <<testPhone, now, requests, attempts, consumed, wrong, seen, user, taken, newcomers, faulted>>

\* phone_number is unique: the second insert is an error.
CreateUser(v) ==
  /\ ver[v] = "creating"
  /\ user' = TRUE
  /\ Goto(v, IF user THEN "failed" ELSE "account")
  /\ UNCHANGED <<testPhone, now, requests, attempts, consumed, wrong, seen, taken, newcomers, faulted>>

\* MarkPhoneVerified, UpsertUserRoleFromAllowlist and issuePhoneSession.
OpenSession(v) ==
  /\ ver[v] = "account"
  /\ Goto(v, "session")
  /\ UNCHANGED <<testPhone, now, requests, attempts, consumed, wrong, seen, user, taken, newcomers, faulted>>

VerifyFails(v) ==
  /\ ver[v] \in {"right", "wrong", "named", "entered", "creating", "account"}
  /\ Goto(v, "failed")
  /\ faulted' = faulted \cup {v}
  /\ UNCHANGED <<testPhone, now, requests, attempts, consumed, wrong, seen, user, taken, newcomers>>

----------------------------------------------------------------------------
RequestCode(r) ==
  \/ ReadClock(r) \/ BeginTx(r) \/ Issue(r) \/ TooMany(r)
  \/ SendCode(r) \/ RequestFails(r)

CompleteLogin(v) == FindUser(v) \/ CreateUser(v) \/ OpenSession(v)

VerifyCode(v) ==
  \/ TestLogin(v) \/ RejectEarly(v) \/ ReadCode(v) \/ CountWrong(v)
  \/ CheckName(v) \/ Consume(v) \/ CompleteLogin(v) \/ VerifyFails(v)

Next == Tick \/ (\E r \in Request : RequestCode(r)) \/ (\E v \in Verifier : VerifyCode(v))

Spec == Init /\ [][Next]_vars

----------------------------------------------------------------------------
TypeOK ==
  /\ testPhone \in BOOLEAN
  /\ now \in Time
  /\ req \in [Request -> {"idle", "asked", "begun", "issued", "sent", "refused", "failed"}]
  /\ asked \in [Request -> Time] /\ created \in [Request -> Time]
  /\ attempts \in [Request -> 0..MaxAttempts]
  /\ consumed \in [Request -> BOOLEAN]
  /\ ver \in [Verifier -> {"idle", "right", "wrong", "named", "entered", "creating",
                           "account", "session", "rejected", "failed"}]
  /\ seen \in [Verifier -> Request \cup {NoCode}]
  /\ user \in BOOLEAN
  /\ wrong \in [Request -> Nat]
  /\ taken \subseteq Verifier /\ newcomers \subseteq Verifier /\ faulted \subseteq Verifier

\* Any two codes of a number are created at least the minimum gap apart, although
\* the clock is read before the lock is held and created_at is older than the
\* insert (phone_auth_service.go:59-69, repository_phone_auth.go:32-53).
CodesSpaced ==
  \A k, l \in Issued :
    k # l => created[k] + Gap <= created[l] \/ created[l] + Gap <= created[k]

\* No more than MaxRequests codes are created in any span of the length of the
\* window, however the calls overlap (repository_phone_auth.go:38-49).
WindowQuota ==
  \A k \in Issued :
    Cardinality({l \in Issued : created[l] <= created[k] /\ created[k] <= created[l] + Window})
      <= MaxRequests

\* A code that was answered wrong MaxAttempts times is never accepted afterwards,
\* not even by a verifier that read it before (repository_phone_auth.go:80-102).
ExhaustedStaysDead ==
  [][\A k \in Request : wrong[k] >= MaxAttempts => consumed'[k] = consumed[k]]_vars

\* Once it is let in, a login ends in an error only if the database failed or if the
\* number had no account yet and a second verifier created it first
\* (phone_auth_service.go:152-162).
LoginLostOnlyToRace ==
  \A v \in Verifier : ver[v] = "failed" => v \in faulted \/ (v \in newcomers /\ user)

\* Where a code is in its life.
Life(k) ==
  CASE k \notin Issued -> "none"
    [] k \in Issued /\ consumed[k] -> "spent"
    [] k \in Issued /\ ~consumed[k] -> IF Usable(k) THEN "live" ELSE "dead"

Codes == INSTANCE OneTimeCode WITH
  Code <- Request, Holder <- Verifier,
  life <- [k \in Request |-> Life(k)],
  users <- [k \in Request |-> {v \in taken : seen[v] = k}]

\* Each code lives the life of a one-time code, although the read, the
\* comparison and the update are separate statements and time passes in
\* between: spent by one verifier, and dead for good once it has expired or its
\* attempts are used up (phone_auth_service.go:121-150).
OneTimeCodes == Codes!Spec

----------------------------------------------------------------------------
(* What makes the properties inductive (PhoneAuthProofs).                  *)

\* A call reads the clock before its transaction begins.
ClocksOrdered ==
  \A r \in Request :
    /\ req[r] # "idle" => asked[r] <= now
    /\ req[r] \in {"begun", "issued", "sent"} => asked[r] <= created[r] /\ created[r] <= now

\* A verifier works on a code that was issued and has not been let in before.
Reading ==
  /\ \A v \in Verifier :
       /\ ver[v] \in {"right", "wrong", "named"} => seen[v] \in Issued /\ v \notin taken
       /\ ver[v] = "idle" => v \notin taken
  /\ \A v \in taken : seen[v] \in Issued

\* A code lets in one verifier at most, and is marked when it does.
OneLoginPerCode ==
  /\ \A v, w \in taken : seen[v] = seen[w] => v = w
  /\ \A k \in Request : consumed[k] <=> \E v \in taken : seen[v] = k

\* Every wrong answer is in the attempts of a code that could still be used.
WrongsCounted ==
  \A k \in Request :
    /\ wrong[k] > 0 => k \in Issued
    /\ wrong[k] <= attempts[k] \/ ~Usable(k)

Inv == /\ TypeOK /\ ClocksOrdered /\ Reading /\ WrongsCounted
       /\ CodesSpaced /\ WindowQuota /\ OneLoginPerCode
=============================================================================
