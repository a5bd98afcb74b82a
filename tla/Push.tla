-------------------------------- MODULE Push --------------------------------
(***************************************************************************)
(* Push notices to devices: the registered tokens                          *)
(* (internal/storage/push_tokens.go), NotifyUsers and                      *)
(* notifyGroupAboutNewPublicRequest (internal/service), which run in       *)
(* goroutines of their own, and the sender they share                      *)
(* (internal/push/fcm.go) with its cached access token.                    *)
(*                                                                         *)
(* Time.  Tick passes one unit; nothing holds a clock, only what is left   *)
(* until it runs out: of a notice's context, of an access token's real     *)
(* life, and of the life the cache believes in.                            *)
(*                                                                         *)
(* Grain.  A notice steps at every call of the database, of the token      *)
(* endpoint and of FCM; an answer is taken, and the cache written under    *)
(* its mutex, within the unit in which the answer came.                    *)
(*                                                                         *)
(* What is asked of FCM and of the token endpoint.  FCM takes no notice    *)
(* for a token it no longer knows, and refuses with one of the classes of  *)
(* isInvalidTokenError only for such a token or for a misfit: a notice     *)
(* whose content or credentials it refuses (INVALID_ARGUMENT,              *)
(* THIRD_PARTY_AUTH_ERROR).  A 429 or a 5xx means that it has not taken    *)
(* the notice.  An access token lives as long as its answer says, or for   *)
(* 3600 seconds when the answer does not say, and longer than a context.   *)
(***************************************************************************)
EXTENDS Naturals

CONSTANTS
  User, Token,  \* accounts and device tokens
  Device,       \* <<user, token>>: who may come to use which device
  Notice,       \* notices (goroutines)
  Audience,     \* of a notice: users that were looked up before
  Invite,       \* those that run with the context of a request
  Misfit,       \* <<notice, token>>: refused for its content or credentials
  Mortal,       \* bound: tokens that FCM may forget
  Timeout,      \* pushNotificationTimeout
  Lifetimes,    \* of access tokens
  Margin,       \* five minutes: how early the cache lets go of it
  Tries         \* attempts per token

ASSUME PushAssumption ==
  /\ Device \subseteq User \X Token
  /\ Audience \in [Notice -> SUBSET User]
  /\ Invite \subseteq Notice /\ Misfit \subseteq Notice \X Token /\ Mortal \subseteq Token
  /\ Timeout \in Nat \ {0} /\ Lifetimes \subseteq Nat /\ Margin \in Nat /\ Tries \in Nat \ {0}
  /\ \A l \in Lifetimes : l > Timeout
  /\ Margin + 2 >= 2 * Timeout

VARIABLES
  rows,         \* push_tokens: <<user, token>>
  dead,         \* tokens FCM no longer knows
  cache,        \* accessToken and expiresAt: real and believed life left
  stage,        \* of a notice
  left,         \* of the ten seconds of its context
  cancelled,    \* notices whose request is over, and its context with it
  access,       \* what is left of the access token it holds
  granted,      \* the lifetime in the answer that is on the way
  fate,         \* what became of each token it has listed
  tried,        \* attempts spent on the token in hand
  copies,       \* history: how often FCM took the notice for that token
  lost          \* history: how many answers about it were lost

vars == <<rows, dead, cache, stage, left, cancelled, access, granted, fate, tried, copies, lost>>

Stage == {"idle", "list", "access", "asking", "issued", "send", "wait", "backoff",
          "cleanup", "done", "denied"}
Fate == {"unlisted", "todo", "hand", "sent", "refused", "failed"}

Less(n) == IF n > 0 THEN n - 1 ELSE 0

----------------------------------------------------------------------------
Init ==
  /\ rows = {}
  /\ dead = {}
  /\ cache = [real |-> 0, believed |-> 0]
  /\ stage = [n \in Notice |-> "idle"]
  /\ left = [n \in Notice |-> 0]
  /\ cancelled = {}
  /\ access = [n \in Notice |-> 0]
  /\ granted = [n \in Notice |-> 0]
  /\ fate = [n \in Notice |-> [t \in Token |-> "unlisted"]]
  /\ tried = [n \in Notice |-> 0]
  /\ copies = [n \in Notice |-> 0]
  /\ lost = [n \in Notice |-> 0]

Goto(n, s) == stage' = [stage EXCEPT ![n] = s]

\* The notice is over: its locals are gone and its context is cancelled.
End(n, s) ==
  /\ Goto(n, s)
  /\ left' = [left EXCEPT ![n] = 0]
  /\ cancelled' = cancelled \ {n}
  /\ access' = [access EXCEPT ![n] = 0]
  /\ granted' = [granted EXCEPT ![n] = 0]
  /\ fate' = [fate EXCEPT ![n] = [t \in Token |-> "unlisted"]]
  /\ tried' = [tried EXCEPT ![n] = 0]
  /\ copies' = [copies EXCEPT ![n] = 0]
  /\ lost' = [lost EXCEPT ![n] = 0]

\* The context of the notice is over: calls made with it fail.
Over(n) == left[n] = 0 \/ n \in cancelled

InHand(n) == {t \in Token : fate[n][t] = "hand"}

Waiting(n) == {t \in Token : fate[n][t] = "todo"}
Refused(n) == {t \in Token : fate[n][t] = "refused"}

----------------------------------------------------------------------------
\* RegisterPushToken and DeletePushToken.
Register(u, t) ==
  /\ <<u, t>> \in Device
  /\ rows' = rows \cup {<<u, t>>}
  /\ UNCHANGED <<dead, cache, stage, left, cancelled, access, granted, fate, tried, copies, lost>>

Unregister(u, t) ==
  /\ <<u, t>> \in rows
  /\ rows' = rows \ {<<u, t>>}
  /\ UNCHANGED <<dead, cache, stage, left, cancelled, access, granted, fate, tried, copies, lost>>

\* The app is removed from the device: FCM does not know its token any more.
Uninstall(t) ==
  /\ t \notin dead
  /\ dead' = dead \cup {t}
  /\ UNCHANGED <<rows, cache, stage, left, cancelled, access, granted, fate, tried, copies, lost>>

\* NotifyUsers starts, its ten seconds with it.
Start(n) ==
  /\ stage[n] = "idle"
  /\ left' = [left EXCEPT ![n] = Timeout]
  /\ Goto(n, "list")
  /\ UNCHANGED <<rows, dead, cache, cancelled, access, granted, fate, tried, copies, lost>>

\* Mutant of Cancel: every handler hands the context of its request on.
CancelAny(n) ==
  /\ n \notin cancelled /\ stage[n] \notin {"done", "denied"}
  /\ cancelled' = cancelled \cup {n}
  /\ UNCHANGED <<rows, dead, cache, stage, left, access, granted, fate, tried, copies, lost>>

\* The handler that sent the invite has returned, whether its goroutine has
\* begun or not, and the context of the request is cancelled.
Cancel(n) ==
  /\ n \in Invite
  /\ n \notin cancelled /\ stage[n] \notin {"done", "denied"}
  /\ cancelled' = cancelled \cup {n}
  /\ UNCHANGED <<rows, dead, cache, stage, left, access, granted, fate, tried, copies, lost>>

----------------------------------------------------------------------------
\* ListPushTokensForUsers; collectPushTokenValues keeps a token once.
List(n) ==
  /\ stage[n] = "list" /\ ~Over(n)
  /\ LET found == {t \in Token : \E u \in Audience[n] : <<u, t>> \in rows}
     IN \/ /\ found # {}
           /\ fate' = [fate EXCEPT ![n] =
                         [t \in Token |-> IF t \in found THEN "todo" ELSE "unlisted"]]
           /\ Goto(n, "access")
           /\ UNCHANGED <<left, cancelled, access, granted, tried, copies, lost>>
        \/ found = {} /\ End(n, "done")
  /\ UNCHANGED <<rows, dead, cache>>

ListFails(n) ==
  /\ stage[n] = "list"
  /\ End(n, "done")
  /\ UNCHANGED <<rows, dead, cache>>

\* Mutant of Fresh: the cache serves a token to its last moment.
FreshToTheEnd == cache.believed > 0

\* now.Before(expiresAt - 5 minutes).
Fresh == cache.believed > Margin

\* getAccessToken: read under the mutex, which is given back before asking.
ReadCache(n) ==
  /\ stage[n] = "access"
  /\ IF Fresh
     THEN access' = [access EXCEPT ![n] = cache.real] /\ Goto(n, "send")
     ELSE UNCHANGED access /\ Goto(n, "asking")
  /\ UNCHANGED <<rows, dead, cache, left, cancelled, granted, fate, tried, copies, lost>>

\* The token endpoint makes a token; its answer is on the way.
Issue(n) ==
  /\ stage[n] = "asking" /\ ~Over(n)
  /\ \E l \in Lifetimes :
       /\ access' = [access EXCEPT ![n] = l]
       /\ granted' = [granted EXCEPT ![n] = l]
  /\ Goto(n, "issued")
  /\ UNCHANGED <<rows, dead, cache, left, cancelled, fate, tried, copies, lost>>

\* The answer is in: the whole life it grants is counted from here.
StoreAccess(n) ==
  /\ stage[n] = "issued" /\ ~Over(n)
  /\ cache' = [real |-> access[n], believed |-> granted[n]]
  /\ granted' = [granted EXCEPT ![n] = 0]
  /\ Goto(n, "send")
  /\ UNCHANGED <<rows, dead, left, cancelled, access, fate, tried, copies, lost>>

\* No access token: nothing is sent.
Denied(n) ==
  /\ stage[n] \in {"asking", "issued"}
  /\ End(n, "denied")
  /\ UNCHANGED <<rows, dead, cache>>

----------------------------------------------------------------------------
\* sendOne: the first attempt for the next token.
Send(n) ==
  /\ stage[n] = "send" /\ ~Over(n)
  /\ \E t \in Waiting(n) : fate' = [fate EXCEPT ![n][t] = "hand"]
  /\ tried' = [tried EXCEPT ![n] = 1]
  /\ copies' = [copies EXCEPT ![n] = 0]
  /\ lost' = [lost EXCEPT ![n] = 0]
  /\ Goto(n, "wait")
  /\ UNCHANGED <<rows, dead, cache, left, cancelled, access, granted>>

\* The context is over: the request is not even sent.
SendFails(n) ==
  /\ stage[n] = "send" /\ Over(n)
  /\ \E t \in Waiting(n) : fate' = [fate EXCEPT ![n][t] = "failed"]
  /\ UNCHANGED <<rows, dead, cache, stage, left, cancelled, access, granted, tried, copies, lost>>

\* FCM does not take the notice for the token in hand.
Unwelcome(n) == \A t \in InHand(n) : t \in dead \/ <<n, t>> \in Misfit

\* The token in hand is settled; the loop goes on to the next one.
Settle(n, f) ==
  /\ \E t \in InHand(n) : fate' = [fate EXCEPT ![n][t] = f]
  /\ Goto(n, "send")

\* A transient failure: another attempt, if sendOneWithRetry has one left.
Transient(n) ==
  \/ tried[n] < Tries /\ Goto(n, "backoff") /\ UNCHANGED fate
  \/ tried[n] >= Tries /\ Settle(n, "failed")

\* Mutant of Accepted: a success other than 200 counts as a failure.
AcceptedAgain(n) ==
  /\ stage[n] = "wait" /\ ~Over(n) /\ ~Unwelcome(n)
  /\ Settle(n, "sent") \/ Transient(n)
  /\ copies' = [copies EXCEPT ![n] = @ + 1]
  /\ UNCHANGED <<rows, dead, cache, left, cancelled, access, granted, tried, lost>>

\* FCM took the notice, and its answer arrives.
Accepted(n) ==
  /\ stage[n] = "wait" /\ ~Over(n) /\ ~Unwelcome(n)
  /\ Settle(n, "sent")
  /\ copies' = [copies EXCEPT ![n] = @ + 1]
  /\ UNCHANGED <<rows, dead, cache, left, cancelled, access, granted, tried, lost>>

\* The four classes of isInvalidTokenError: FCM does not know the token, or
\* refuses this notice for its content or credentials.
RefusedToken(n) ==
  /\ stage[n] = "wait" /\ ~Over(n) /\ Unwelcome(n)
  /\ Settle(n, "refused")
  /\ UNCHANGED <<rows, dead, cache, left, cancelled, access, granted, tried, copies, lost>>

\* Mutant of RefusedCall: every 4xx counts as an invalid token.
RefusedCallInvalid(n) ==
  /\ stage[n] = "wait" /\ ~Over(n)
  /\ Settle(n, "refused")
  /\ UNCHANGED <<rows, dead, cache, left, cancelled, access, granted, tried, copies, lost>>

\* Any other error of the client's side: not tried again.
RefusedCall(n) ==
  /\ stage[n] = "wait" /\ ~Over(n)
  /\ Settle(n, "failed")
  /\ UNCHANGED <<rows, dead, cache, left, cancelled, access, granted, tried, copies, lost>>

\* 429 or 5xx: FCM has not taken it.
Unavailable(n) ==
  /\ stage[n] = "wait" /\ ~Over(n)
  /\ Transient(n)
  /\ UNCHANGED <<rows, dead, cache, left, cancelled, access, granted, tried, copies, lost>>

\* The connection broke, or the context ended first: FCM may have taken it.
AnswerLost(n) ==
  /\ stage[n] = "wait"
  /\ Transient(n)
  /\ \E taken \in IF Unwelcome(n) THEN {0} ELSE {0, 1} : copies' = [copies EXCEPT ![n] = @ + taken]
  /\ lost' = [lost EXCEPT ![n] = @ + 1]
  /\ UNCHANGED <<rows, dead, cache, left, cancelled, access, granted, tried>>

\* time.After has passed: the next attempt.
Retry(n) ==
  /\ stage[n] = "backoff" /\ ~Over(n)
  /\ tried' = [tried EXCEPT ![n] = @ + 1]
  /\ Goto(n, "wait")
  /\ UNCHANGED <<rows, dead, cache, left, cancelled, access, granted, fate, copies, lost>>

\* ctx.Done while backing off.
RetryOver(n) ==
  /\ stage[n] = "backoff" /\ Over(n)
  /\ Settle(n, "failed")
  /\ UNCHANGED <<rows, dead, cache, left, cancelled, access, granted, tried, copies, lost>>

----------------------------------------------------------------------------
\* All tokens are settled.
LoopEnds(n) ==
  /\ stage[n] = "send" /\ Waiting(n) = {}
  /\ \/ /\ Refused(n) # {}
        /\ Goto(n, "cleanup")
        /\ access' = [access EXCEPT ![n] = 0]
        /\ UNCHANGED <<left, cancelled, granted, fate, tried, copies, lost>>
     \/ Refused(n) = {} /\ End(n, "done")
  /\ UNCHANGED <<rows, dead, cache>>

\* DeletePushTokensByValue, whoever registered them.
Dropped(n) == {r \in rows : r[2] \in Refused(n)}

\* cleanupInvalidPushTokens, with the context of the notice.
Cleanup(n) ==
  /\ stage[n] = "cleanup" /\ ~Over(n)
  /\ rows' = rows \ Dropped(n)
  /\ End(n, "done")
  /\ UNCHANGED <<dead, cache>>

CleanupFails(n) ==
  /\ stage[n] = "cleanup"
  /\ End(n, "done")
  /\ UNCHANGED <<rows, dead, cache>>

----------------------------------------------------------------------------
Tick ==
  /\ left' = [n \in Notice |-> Less(left[n])]
  /\ access' = [n \in Notice |-> Less(access[n])]
  /\ cache' = [real |-> Less(cache.real), believed |-> Less(cache.believed)]
  /\ UNCHANGED <<rows, dead, stage, cancelled, granted, fate, tried, copies, lost>>

\* What the goroutine of a notice does, given the answers.
Run(n) ==
  \/ List(n) \/ ReadCache(n) \/ StoreAccess(n)
  \/ Send(n) \/ SendFails(n) \/ Retry(n) \/ RetryOver(n)
  \/ LoopEnds(n) \/ Cleanup(n)

\* What fails, by itself or because the context is over.
Fail(n) == ListFails(n) \/ Denied(n) \/ AnswerLost(n) \/ CleanupFails(n)

Answer(n) == Issue(n) \/ Accepted(n) \/ RefusedToken(n) \/ RefusedCall(n) \/ Unavailable(n)

Next ==
  \/ Tick
  \/ \E u \in User, t \in Token : Register(u, t) \/ Unregister(u, t)
  \/ \E t \in Mortal : Uninstall(t)
  \/ \E n \in Notice : Start(n) \/ Cancel(n) \/ Run(n) \/ Fail(n) \/ Answer(n)

Spec == Init /\ [][Next]_vars

----------------------------------------------------------------------------
TypeOK ==
  /\ rows \subseteq User \X Token
  /\ dead \subseteq Token
  /\ cache \in [real : Nat, believed : Nat]
  /\ stage \in [Notice -> Stage]
  /\ left \in [Notice -> 0..Timeout]
  /\ cancelled \subseteq Invite
  /\ access \in [Notice -> Nat] /\ granted \in [Notice -> Nat]
  /\ fate \in [Notice -> [Token -> Fate]]
  /\ tried \in [Notice -> 0..Tries]
  /\ copies \in [Notice -> 0..Tries]
  /\ lost \in [Notice -> 0..Tries]

\* No request goes to FCM with an access token that has run out, whether the
\* token was fetched or found in the cache, where its life is counted from
\* the late moment its answer came (getAccessToken, sendOneWithRetry).
AccessTokenLive ==
  \A n \in Notice : stage[n] = "wait" /\ ~Over(n) => access[n] > 0

\* FCM takes a notice again for the same device only when its answer was
\* lost before: what it answered, whatever it answered, settles the token
\* or was no acceptance (sendOneWithRetry, isTransientFCMError).
CopiesCounted ==
  \A n \in Notice : copies[n] <= 1 + lost[n]

\* A registration outlives whatever fails in the notices to it, in whichever
\* order answers, lost answers, retries and the ends of contexts come: it goes
\* by its own user's wish, with a token that FCM no longer knows, or with one
\* that FCM refused for the notice's content or the server's credentials,
\* which isInvalidTokenError does not tell apart from the token's own death
\* (SendToTokens, isInvalidTokenError, cleanupInvalidPushTokens).
LiveTokenKept ==
  [][\A u \in User, t \in Token :
       <<u, t>> \in rows \ rows' =>
         \/ Unregister(u, t)
         \/ t \in dead
         \/ \E n \in Notice : <<n, t>> \in Misfit /\ fate[n][t] = "refused"]_vars

\* A listed token is passed over only when the ten seconds of the notice have
\* run out or there is no access token: one that fails or is refused stops
\* none of the others, and nobody but the handler of an invite, whose context
\* ends with its request, can cut a notice short (SendToTokens, inviteUser).
EveryTokenTried ==
  [][\A n \in Notice, t \in Token :
       fate[n][t] = "todo" /\ fate'[n][t] # "todo" =>
         \/ fate'[n][t] = "hand" \/ left[n] = 0 \/ stage'[n] = "denied"
         \/ n \in Invite /\ n \in cancelled]_vars

----------------------------------------------------------------------------
(* What makes the properties inductive (PushProofs).                       *)

\* What a notice knows of its tokens at each stage.
Phases ==
  \A n \in Notice :
    /\ stage[n] \in {"idle", "list", "done", "denied"} => fate[n] = [t \in Token |-> "unlisted"]
    /\ stage[n] = "cleanup" => Waiting(n) = {}
    /\ IF stage[n] = "issued" THEN granted[n] > Timeout ELSE granted[n] = 0
    /\ stage[n] = "wait" => copies[n] <= lost[n] /\ lost[n] < tried[n]
    /\ stage[n] = "backoff" => copies[n] <= lost[n] /\ lost[n] <= tried[n] /\ tried[n] < Tries

\* An access token outlives the context it is used with, and the cache believes
\* in a token for less than a context longer than it lives.
AccessEnough ==
  /\ cache.believed < cache.real + Timeout
  /\ \A n \in Notice :
       /\ stage[n] \in {"send", "wait", "backoff"} => access[n] >= left[n]
       /\ stage[n] = "issued" /\ left[n] > 0 => access[n] + Timeout >= granted[n] + left[n]

\* What a notice holds to be an invalid token is one, or the notice is a misfit.
RefusalsReal ==
  \A n \in Notice, t \in Token :
    fate[n][t] = "refused" => t \in dead \/ <<n, t>> \in Misfit

IInv == TypeOK /\ Phases /\ AccessEnough /\ RefusalsReal /\ CopiesCounted
=============================================================================
