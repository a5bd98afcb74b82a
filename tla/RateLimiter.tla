---------------------------- MODULE RateLimiter ----------------------------
(***************************************************************************)
(* The HTTP rate limiter (internal/httpapi/rate_limiter.go) and the        *)
(* middleware that gives each request its key (rateLimit in                *)
(* internal/httpapi/server.go).  The server has two limiters, which share  *)
(* nothing; this is one of them.  The classes of strictRateLimitClass keep *)
(* their keys apart by a prefix: a client is one in its class.             *)
(*                                                                         *)
(* Keys.  rateLimit runs for every route and before auth, which puts the   *)
(* user into the context: where it asks for the user (server.go:618) there *)
(* is none, and a request is keyed by its address whoever is logged in.    *)
(* Accounts behind one address share a budget, and an account that calls   *)
(* from two has two.                                                       *)
(*                                                                         *)
(* Time.  Tick passes one unit; an entry holds how far its resetTime is    *)
(* ahead.  A call reads the clock before it has the mutex: its reading is  *)
(* as old as the call has waited, and no call waits longer than Lag.       *)
(***************************************************************************)
EXTENDS Integers, Sequences, FiniteSets, FiniteSetsExt

CONSTANTS
  Client,       \* addresses of clients, logged in or not
  Proxy,        \* addresses in trustedProxies
  Junk,         \* texts that do not parse as an address
  Header,       \* what a client may write into X-Forwarded-For itself
  Call,         \* requests served at the same time
  Limit, Window,
  MaxKeys,      \* maxTrackedRateLimitKeys
  Lag,          \* longest wait for the mutex
  Watched       \* the clients whose admissions are remembered

ASSUME RateLimiterAssumption ==
  /\ Limit \in Nat \ {0} /\ Window \in Nat /\ MaxKeys \in Nat /\ Lag \in Nat
  /\ Lag < Window /\ Watched \subseteq Client
  /\ Client \cap Proxy = {}
  /\ Header \subseteq Seq(Client \cup Proxy \cup Junk)

Key == Client \cup Proxy

VARIABLES
  visitors,     \* entries of the keys that are tracked
  serving,      \* calls in Allow: the key, who really sent it, and how long
                \* ago it read the clock
  sweep,        \* the last of the cleanup goroutine; -1: it waits
  ages          \* history: how long ago the last admissions of a watched
                \* client were, the latest first; Span + 1: longer ago

vars == <<visitors, serving, sweep, ages>>

Span == Window - Lag

----------------------------------------------------------------------------
\* clientIP: the last address of the header that is no trusted proxy, when
\* the peer is one.  What does not parse as an address is passed over.
Foreign(forwarded) == {i \in DOMAIN forwarded : forwarded[i] \in Client}

\* Mutant of ClientIP: the first address of the header.
FirstIP(remote, forwarded) ==
  IF remote \in Proxy /\ Foreign(forwarded) # {}
  THEN forwarded[Min(Foreign(forwarded))]
  ELSE remote

ClientIP(remote, forwarded) ==
  IF remote \in Proxy /\ Foreign(forwarded) # {}
  THEN forwarded[Max(Foreign(forwarded))]
  ELSE remote

Init ==
  /\ visitors = <<>>
  /\ serving = <<>>
  /\ sweep = -1
  /\ ages = [s \in Watched |-> [i \in 1..(2 * Limit) |-> Span + 1]]

\* A request comes in and Allow reads the clock.
Serve(c, s, k) ==
  /\ c \notin DOMAIN serving
  /\ serving' = [d \in DOMAIN serving \cup {c} |->
                   IF d = c THEN [sender |-> s, key |-> k, waited |-> 0] ELSE serving[d]]
  /\ UNCHANGED <<visitors, sweep, ages>>

Direct(c) == \E a \in Client, h \in Header : Serve(c, a, ClientIP(a, h))

\* Each proxy appends the address it was called from, to one line: of several
\* X-Forwarded-For lines Header.Get would read the first one only.
Forwarded(c) ==
  \E a \in Client, h \in Header, p \in Proxy :
    \/ Serve(c, a, ClientIP(p, Append(h, a)))
    \/ \E q \in Proxy : Serve(c, a, ClientIP(p, h \o <<a, q>>))

----------------------------------------------------------------------------
Put(k, entry) ==
  visitors' = [j \in DOMAIN visitors \cup {k} |-> IF j = k THEN entry ELSE visitors[j]]

\* now.Add(window), with the call's reading of now.
Fresh(c) == [count |-> 1, ahead |-> Window - serving[c].waited]

\* now.After(resetTime), for a reading of the given age.
Expired(k, age) == visitors[k].ahead + age < 0

Leave(c) == serving' = [d \in DOMAIN serving \ {c} |-> serving[d]]

Shift(f) == [i \in 1..(2 * Limit) |-> IF i = 1 THEN 0 ELSE f[i - 1]]

Admit(c) ==
  /\ ages' = [s \in Watched |-> IF s = serving[c].sender THEN Shift(ages[s]) ELSE ages[s]]
  /\ Leave(c)
  /\ UNCHANGED sweep

Refuse(c) == Leave(c) /\ UNCHANGED <<visitors, sweep, ages>>

\* Allow, under the mutex.
Newcomer(c) ==
  /\ serving[c].key \notin DOMAIN visitors
  /\ Cardinality(DOMAIN visitors) < MaxKeys
  /\ Put(serving[c].key, Fresh(c))
  /\ Admit(c)

TableFull(c) ==
  /\ serving[c].key \notin DOMAIN visitors
  /\ Cardinality(DOMAIN visitors) >= MaxKeys
  /\ Refuse(c)

NewWindow(c) ==
  /\ serving[c].key \in DOMAIN visitors
  /\ Expired(serving[c].key, serving[c].waited)
  /\ Put(serving[c].key, Fresh(c))
  /\ Admit(c)

SameWindow(c) ==
  /\ serving[c].key \in DOMAIN visitors
  /\ ~Expired(serving[c].key, serving[c].waited) /\ visitors[serving[c].key].count < Limit
  /\ Put(serving[c].key, [visitors[serving[c].key] EXCEPT !.count = @ + 1])
  /\ Admit(c)

OverLimit(c) ==
  /\ serving[c].key \in DOMAIN visitors
  /\ ~Expired(serving[c].key, serving[c].waited) /\ visitors[serving[c].key].count >= Limit
  /\ Refuse(c)

Allow(c) ==
  /\ c \in DOMAIN serving
  /\ Newcomer(c) \/ TableFull(c) \/ NewWindow(c) \/ SameWindow(c) \/ OverLimit(c)

\* cleanupLoop: the ticker fires and the clock is read; then the sweep.
TickerFires ==
  /\ sweep = -1
  /\ sweep' = 0
  /\ UNCHANGED <<visitors, serving, ages>>

Swept == {k \in DOMAIN visitors : Expired(k, sweep)}

\* Mutant of Sweep: only a full table is swept.
SweepFull ==
  /\ sweep >= 0
  /\ visitors' = [k \in IF Cardinality(DOMAIN visitors) > MaxKeys
                        THEN DOMAIN visitors \ Swept ELSE DOMAIN visitors |-> visitors[k]]
  /\ sweep' = -1
  /\ UNCHANGED <<serving, ages>>

Sweep ==
  /\ sweep >= 0
  /\ visitors' = [k \in DOMAIN visitors \ Swept |-> visitors[k]]
  /\ sweep' = -1
  /\ UNCHANGED <<serving, ages>>

----------------------------------------------------------------------------
\* An entry that has expired for every reading is not told apart further.
Nearer(entry) == [entry EXCEPT !.ahead = IF @ >= -Lag THEN @ - 1 ELSE @]

Older(age) == IF age > Span THEN age ELSE age + 1

Tick ==
  /\ sweep < Lag /\ \A c \in DOMAIN serving : serving[c].waited < Lag
  /\ visitors' = [k \in DOMAIN visitors |-> Nearer(visitors[k])]
  /\ serving' = [c \in DOMAIN serving |-> [serving[c] EXCEPT !.waited = @ + 1]]
  /\ sweep' = IF sweep >= 0 THEN sweep + 1 ELSE sweep
  /\ ages' = [s \in Watched |-> [i \in 1..(2 * Limit) |-> Older(ages[s][i])]]

Next ==
  \/ \E c \in Call : Direct(c) \/ Forwarded(c) \/ Allow(c)
  \/ TickerFires \/ Sweep \/ Tick

Spec == Init /\ [][Next]_vars

\* Time passes, the ticker fires, and who waits for the mutex gets it.
FairSpec ==
  /\ Spec
  /\ WF_vars(Tick) /\ WF_vars(TickerFires) /\ WF_vars(Sweep)
  /\ \A c \in Call : WF_vars(Allow(c))

----------------------------------------------------------------------------
TypeOK ==
  /\ DOMAIN visitors \subseteq Key
  /\ \A k \in DOMAIN visitors :
       visitors[k] \in [count : 1..Limit, ahead : (-Lag - 1)..Window]
  /\ DOMAIN serving \subseteq Call
  /\ \A c \in DOMAIN serving :
       serving[c] \in [sender : Client, key : Key, waited : 0..Lag]
  /\ sweep \in -1..Lag
  /\ ages \in [Watched -> [1..(2 * Limit) -> 0..(Span + 1)]]
  /\ IsFiniteSet(DOMAIN visitors) /\ Cardinality(DOMAIN visitors) <= MaxKeys

\* Fewer than two limits in any stretch of a window less the longest wait,
\* counted by the address that sent the requests: whatever it wrote into the
\* header, whichever proxies passed it on, however old the readings of the clock are, and although the
\* cleanup forgets entries in between (Allow, cleanupLoop, clientIP).
TwiceLimit == \A s \in Watched : ages[s][2 * Limit] > Span

\* The entry of a key that sends nothing any more goes, and its place in the
\* table with it: a full table cannot shut out newcomers for good
\* (cleanupLoop, maxTrackedRateLimitKeys).
SilentKeyForgotten ==
  \A k \in Key :
    []<>(k \notin DOMAIN visitors \/ \E c \in DOMAIN serving : serving[c].key = k)
----------------------------------------------------------------------------
(* What makes TwiceLimit inductive (RateLimiterProofs).                    *)

\* A request is counted under the address that sent it.
KeysReal == \A c \in DOMAIN serving : serving[c].key = serving[c].sender

Ordered == \A s \in Watched : \A i, j \in 1..(2 * Limit) : i <= j => ages[s][i] <= ages[s][j]

\* An entry counts the admissions since its window began, which is no longer
\* ago than the entry says; what one window admitted before it is older than
\* Span, and without an entry all of it is.
Windows ==
  \A s \in Watched :
    IF s \in DOMAIN visitors
    THEN LET n == visitors[s].count
         IN  /\ ages[s][n] > Span \/ ages[s][n] + visitors[s].ahead >= Span
             /\ ages[s][n + Limit] > Span
    ELSE ages[s][Limit] > Span

Inv == TypeOK /\ KeysReal /\ Ordered /\ Windows
=============================================================================
