------------------------- MODULE RateLimiterProofs -------------------------
(* Proofs about RateLimiter, for any limit, window, lag, table and addresses.
   Inv, defined in RateLimiter, is the inductive invariant. *)
EXTENDS RateLimiter, FiniteSetTheorems, TLAPS

Place == 1..(2 * Limit)

\* The limit, the window and the span as numbers.
LEMMA Numbers == /\ Limit \in Nat /\ Limit >= 1 /\ Lag \in Nat /\ Window \in Nat
                 /\ Span \in Nat /\ Span >= 1 /\ Span + Lag = Window
                 /\ Limit \in Place /\ 2 * Limit \in Place /\ MaxKeys \in Nat
  BY RateLimiterAssumption DEF Span, Place

----------------------------------------------------------------------------
(* Whoever sent a request, clientIP finds its address.                     *)

LEMMA MaxIs == ASSUME NEW S \in SUBSET Int, NEW m \in S, \A x \in S : x <= m PROVE Max(S) = m
<1>1. Max(S) = CHOOSE x \in S : \A y \in S : x >= y
  BY DEF Max
<1>2. \A x \in S : (\A y \in S : x >= y) => x = m
  OBVIOUS
<1>3. \A y \in S : m >= y
  OBVIOUS
<1> QED
  BY <1>1, <1>2, <1>3

\* The address that the last proxies of the chain appended to the header.
LEMMA LastAddress ==
  ASSUME NEW f, NEW n \in DOMAIN f, DOMAIN f \subseteq Int, f[n] \in Client,
         \A i \in DOMAIN f : i > n => f[i] \notin Client,
         NEW p \in Proxy
  PROVE  ClientIP(p, f) = f[n]
<1>1. n \in Foreign(f) /\ Foreign(f) \subseteq Int
  BY DEF Foreign
<1>2. \A x \in Foreign(f) : x <= n
  BY DEF Foreign
<1>3. Max(Foreign(f)) = n
  BY <1>1, <1>2, MaxIs
<1> QED
  BY <1>1, <1>3 DEF ClientIP

\* A client that calls the server itself is its own address.
LEMMA DirectFound == ASSUME NEW a \in Client, NEW h PROVE ClientIP(a, h) = a
  BY RateLimiterAssumption DEF ClientIP

LEMMA CallerFound ==
  ASSUME NEW a \in Client, NEW h \in Header, NEW p \in Proxy, NEW q \in Proxy
  PROVE  /\ ClientIP(p, Append(h, a)) = a
         /\ ClientIP(p, h \o <<a, q>>) = a
<1>1. q \notin Client
  BY RateLimiterAssumption
<1>2. h \in Seq(Client \cup Proxy \cup Junk) /\ Len(h) \in Nat
  BY RateLimiterAssumption
<1>3. ClientIP(p, Append(h, a)) = a
  <2>1. DOMAIN Append(h, a) = 1..(Len(h) + 1) /\ Append(h, a)[Len(h) + 1] = a
    BY <1>2
  <2>2. PICK f : f = Append(h, a)
    OBVIOUS
  <2>3. \A i \in DOMAIN f : ~(i > Len(h) + 1)
    BY <1>2, <2>1, <2>2
  <2>4. Len(h) + 1 \in DOMAIN f /\ DOMAIN f \subseteq Int
    BY <1>2, <2>1, <2>2
  <2> QED
    BY <2>1, <2>2, <2>3, <2>4, LastAddress
<1>4. ClientIP(p, h \o <<a, q>>) = a
  <2>1. /\ DOMAIN (h \o <<a, q>>) = 1..(Len(h) + 2)
        /\ (h \o <<a, q>>)[Len(h) + 1] = a /\ (h \o <<a, q>>)[Len(h) + 2] = q
    BY <1>2
  <2>2. PICK f : f = h \o <<a, q>>
    OBVIOUS
  <2>3. \A i \in DOMAIN f : i > Len(h) + 1 => f[i] \notin Client
    <3>1. \A i \in DOMAIN f : i > Len(h) + 1 => i = Len(h) + 2
      BY <1>2, <2>1, <2>2
    <3> QED
      BY <1>1, <2>1, <2>2, <3>1
  <2>4. Len(h) + 1 \in DOMAIN f /\ DOMAIN f \subseteq Int
    BY <1>2, <2>1, <2>2
  <2> QED
    BY <2>1, <2>2, <2>3, <2>4, LastAddress
<1> QED
  BY <1>3, <1>4

----------------------------------------------------------------------------
\* The initial state satisfies the invariant.
LEMMA InitInv == Init => Inv
<1> SUFFICES ASSUME Init PROVE Inv
  OBVIOUS
<1>1. DOMAIN visitors = {} /\ DOMAIN serving = {}
  BY DEF Init
<1>2. IsFiniteSet(DOMAIN visitors) /\ Cardinality(DOMAIN visitors) <= MaxKeys
  BY <1>1, FS_EmptySet, Numbers
<1>3. \A s \in Watched : ages[s] = [i \in Place |-> Span + 1]
  BY DEF Init, Place
<1>4. ages \in [Watched -> [Place -> 0..(Span + 1)]]
  BY Numbers DEF Init, Place
<1>5. TypeOK
  BY <1>1, <1>2, <1>4, Numbers DEF Init, TypeOK, Place
<1>6. KeysReal
  BY <1>1 DEF KeysReal
<1>7. Ordered
  BY <1>3, Numbers DEF Ordered, Place
<1>8. Windows
  BY <1>1, <1>3, Numbers DEF Windows
<1> QED
  BY <1>5, <1>6, <1>7, <1>8 DEF Inv

\* A request comes in under the address of its sender.
LEMMA ServeInv ==
  ASSUME Inv, NEW c \in Call, NEW s \in Client, Serve(c, s, s)
  PROVE  Inv'
<1>1. /\ serving' = [d \in DOMAIN serving \cup {c} |->
                       IF d = c THEN [sender |-> s, key |-> s, waited |-> 0] ELSE serving[d]]
      /\ UNCHANGED <<visitors, sweep, ages>>
  BY DEF Serve
<1>2. TypeOK'
  <2>1. [sender |-> s, key |-> s, waited |-> 0] \in [sender : Client, key : Key, waited : 0..Lag]
    BY Numbers DEF Key
  <2> QED
    BY <1>1, <2>1 DEF Inv, TypeOK
<1>3. KeysReal'
  BY <1>1 DEF Inv, KeysReal
<1>4. Ordered' /\ Windows'
  BY <1>1 DEF Inv, Ordered, Windows
<1> QED
  BY <1>2, <1>3, <1>4 DEF Inv

LEMMA ArrivalInv ==
  ASSUME Inv, NEW c \in Call, Direct(c) \/ Forwarded(c) PROVE Inv'
<1>1. CASE Direct(c)
  BY <1>1, ServeInv, DirectFound DEF Direct
<1>2. CASE Forwarded(c)
  BY <1>2, ServeInv, CallerFound DEF Forwarded
<1> QED
  BY <1>1, <1>2

----------------------------------------------------------------------------
(* Allow, under the mutex.                                                 *)

\* A call that leaves takes nothing with it.
LEMMA LeaveKeys ==
  ASSUME Inv, NEW c \in DOMAIN serving, Leave(c)
  PROVE  /\ KeysReal' /\ DOMAIN serving' \subseteq Call
         /\ \A d \in DOMAIN serving' :
              serving'[d] \in [sender : Client, key : Key, waited : 0..Lag]
  BY DEF Inv, TypeOK, KeysReal, Leave

LEMMA RefuseInv == ASSUME Inv, NEW c \in DOMAIN serving, Refuse(c) PROVE Inv'
<1>1. UNCHANGED <<visitors, sweep, ages>>
  BY DEF Refuse
<1>2. TypeOK' /\ KeysReal'
  BY <1>1, LeaveKeys DEF Inv, TypeOK, Refuse
<1>3. Ordered' /\ Windows'
  BY <1>1 DEF Inv, Ordered, Windows
<1> QED
  BY <1>2, <1>3 DEF Inv

\* An admission moves the ages of its sender up by one place.
LEMMA AdmitAges ==
  ASSUME Inv, NEW c \in DOMAIN serving, Admit(c)
  PROVE  /\ ages' \in [Watched -> [Place -> 0..(Span + 1)]] /\ Ordered'
         /\ \A s \in Watched : s # serving[c].key => ages'[s] = ages[s]
         /\ \A s \in Watched : s = serving[c].key =>
              /\ ages'[s][1] = 0
              /\ \A i \in Place : i + 1 \in Place => ages'[s][i + 1] = ages[s][i]
<1>1. serving[c].key = serving[c].sender
  BY DEF Inv, KeysReal
<1>2. ages' = [s \in Watched |-> IF s = serving[c].key THEN Shift(ages[s]) ELSE ages[s]]
  BY <1>1 DEF Admit
<1>3. ages \in [Watched -> [Place -> 0..(Span + 1)]] /\ Ordered
  BY DEF Inv, TypeOK, Place
<1>4. \A s \in Watched : /\ Shift(ages[s])[1] = 0
                         /\ \A i \in Place : i # 1 => i - 1 \in Place /\ Shift(ages[s])[i] = ages[s][i - 1]
                         /\ Shift(ages[s]) \in [Place -> 0..(Span + 1)]
  <2>1. 1 \in Place /\ \A i \in Place : i # 1 => i - 1 \in Place
    BY Numbers DEF Place
  <2> QED
    BY <1>3, <2>1, Numbers DEF Shift, Place
<1>5. ages' \in [Watched -> [Place -> 0..(Span + 1)]]
  BY <1>2, <1>3, <1>4
<1>6. Ordered'
  <2> SUFFICES ASSUME NEW s \in Watched, NEW i \in Place, NEW j \in Place, i <= j
               PROVE  ages'[s][i] <= ages'[s][j]
    BY DEF Ordered, Place
  <2>1. CASE s # serving[c].key
    BY <1>2, <1>3, <2>1 DEF Ordered, Place
  <2>2. CASE s = serving[c].key
    <3>1. ages'[s] = Shift(ages[s])
      BY <1>2, <2>2
    <3>2. CASE i = 1
      <4>1. ages'[s][j] \in 0..(Span + 1)
        BY <1>5
      <4> QED
        BY <1>4, <3>1, <3>2, <4>1, Numbers
    <3>3. CASE i # 1
      <4>1. j # 1 /\ i - 1 <= j - 1 /\ i - 1 \in Place /\ j - 1 \in Place
        BY <1>4, <3>3, Numbers DEF Place
      <4>2. ages[s][i - 1] <= ages[s][j - 1]
        BY <1>3, <4>1 DEF Ordered, Place
      <4> QED
        BY <1>4, <3>1, <3>3, <4>1, <4>2
    <3> QED
      BY <3>2, <3>3
  <2> QED
    BY <2>1, <2>2
<1>7. \A s \in Watched : s # serving[c].key => ages'[s] = ages[s]
  BY <1>2
<1>8. ASSUME NEW s \in Watched, s = serving[c].key
      PROVE  /\ ages'[s][1] = 0
             /\ \A i \in Place : i + 1 \in Place => ages'[s][i + 1] = ages[s][i]
  <2>1. ages'[s] = Shift(ages[s])
    BY <1>2, <1>8
  <2>2. \A i \in Place : i \in Int /\ i + 1 # 1 /\ (i + 1) - 1 = i
    BY Numbers DEF Place
  <2> QED
    BY <1>4, <2>1, <2>2
<1> QED
  BY <1>5, <1>6, <1>7, <1>8

\* What a window that is over for some reading has admitted is older than Span.
LEMMA WindowOver ==
  ASSUME Inv, NEW k \in Watched \cap DOMAIN visitors, NEW age \in 0..Lag,
         visitors[k].ahead + age < 0
  PROVE  ages[k][Limit] > Span
<1>1. TypeOK /\ Ordered /\ Windows
  BY DEF Inv
<1>2. PICK n \in 1..Limit : n = visitors[k].count
  BY <1>1 DEF TypeOK
<1>3. visitors[k].ahead \in Int /\ visitors[k].ahead < 0
  BY <1>1, Numbers DEF TypeOK
<1>4. n \in Place /\ n <= Limit /\ ages[k][n] \in Int /\ ages[k][Limit] \in Int
  BY <1>1, Numbers DEF TypeOK, Place
<1>5. ages[k][n] > Span \/ ages[k][n] + visitors[k].ahead >= Span
  BY <1>1, <1>2 DEF Windows
<1>6. ages[k][n] <= ages[k][Limit]
  BY <1>1, <1>4, Numbers DEF Ordered, Place
<1> QED
  BY <1>3, <1>4, <1>5, <1>6, Numbers

\* A window begins only when what the last one admitted is older than Span.
LEMMA FreshInv ==
  ASSUME Inv, NEW c \in DOMAIN serving, Put(serving[c].key, Fresh(c)), Admit(c),
         \/ serving[c].key \notin DOMAIN visitors /\ Cardinality(DOMAIN visitors) < MaxKeys
         \/ serving[c].key \in DOMAIN visitors /\ Expired(serving[c].key, serving[c].waited)
  PROVE  Inv'
<1> DEFINE k == serving[c].key
<1>1. TypeOK /\ Ordered /\ Windows
  BY DEF Inv
<1>2. k \in Key /\ serving[c].waited \in 0..Lag
  BY <1>1 DEF TypeOK
<1>3. Fresh(c) = [count |-> 1, ahead |-> Window - serving[c].waited]
  BY DEF Fresh
<1>4. /\ Fresh(c) \in [count : 1..Limit, ahead : (-Lag - 1)..Window]
      /\ Fresh(c).count = 1 /\ Fresh(c).ahead >= Span
  BY <1>2, <1>3, Numbers
<1>5. /\ DOMAIN visitors' = DOMAIN visitors \cup {k} /\ visitors'[k] = Fresh(c)
      /\ \A j \in DOMAIN visitors \ {k} : visitors'[j] = visitors[j]
  BY DEF Put
<1>6. /\ IsFiniteSet(DOMAIN visitors') /\ Cardinality(DOMAIN visitors') <= MaxKeys
  <2>1. IsFiniteSet(DOMAIN visitors) /\ Cardinality(DOMAIN visitors) <= MaxKeys
    BY <1>1 DEF TypeOK
  <2>2. CASE k \in DOMAIN visitors
    <3>1. DOMAIN visitors \cup {k} = DOMAIN visitors
      BY <2>2
    <3> QED
      BY <1>5, <2>1, <3>1
  <2>3. CASE k \notin DOMAIN visitors /\ Cardinality(DOMAIN visitors) < MaxKeys
    <3>1. Cardinality(DOMAIN visitors') = Cardinality(DOMAIN visitors) + 1
      BY <1>5, <2>1, <2>3, FS_AddElement
    <3>2. IsFiniteSet(DOMAIN visitors')
      BY <1>5, <2>1, FS_AddElement
    <3>3. Cardinality(DOMAIN visitors) \in Nat
      BY <2>1, FS_CardinalityType
    <3> QED
      BY <2>3, <3>1, <3>2, <3>3, Numbers
  <2> QED
    BY <2>2, <2>3
<1>7. /\ UNCHANGED sweep /\ KeysReal' /\ DOMAIN serving' \subseteq Call
      /\ \A d \in DOMAIN serving' :
           serving'[d] \in [sender : Client, key : Key, waited : 0..Lag]
  BY LeaveKeys DEF Admit
<1>8. TypeOK'
  <2>1. ages' \in [Watched -> [1..(2 * Limit) -> 0..(Span + 1)]]
    BY AdmitAges DEF Place
  <2>2. \A j \in DOMAIN visitors' : visitors'[j] \in [count : 1..Limit, ahead : (-Lag - 1)..Window]
    BY <1>1, <1>4, <1>5 DEF TypeOK
  <2> QED
    BY <1>1, <1>2, <1>5, <1>6, <1>7, <2>1, <2>2 DEF TypeOK
<1>9. k \in Watched => ages[k][Limit] > Span
  BY <1>1, <1>2, WindowOver DEF Expired, Windows
<1>10. Windows'
  <2> SUFFICES ASSUME NEW s \in Watched
               PROVE  IF s \in DOMAIN visitors'
                      THEN LET n == visitors'[s].count
                           IN  /\ ages'[s][n] > Span \/ ages'[s][n] + visitors'[s].ahead >= Span
                               /\ ages'[s][n + Limit] > Span
                      ELSE ages'[s][Limit] > Span
    BY DEF Windows
  <2>1. CASE s # k
    <3>1. ages'[s] = ages[s]
      BY <2>1, AdmitAges
    <3> QED
      BY <1>1, <1>5, <2>1, <3>1 DEF Windows
  <2>2. CASE s = k
    <3>1. Limit \in Place /\ Limit + 1 \in Place
      BY Numbers DEF Place
    <3>2. ages'[k][1] = 0 /\ ages'[k][Limit + 1] = ages[k][Limit]
      BY <2>2, <3>1, AdmitAges
    <3> QED
      BY <1>4, <1>5, <1>9, <2>2, <3>2, Numbers
  <2> QED
    BY <2>1, <2>2
<1> QED
  BY <1>7, <1>8, <1>10, AdmitAges DEF Inv

\* One more admission in the same window.
LEMMA SameWindowInv == ASSUME Inv, NEW c \in DOMAIN serving, SameWindow(c) PROVE Inv'
<1> DEFINE k == serving[c].key
<1>1. TypeOK /\ Ordered /\ Windows
  BY DEF Inv
<1>2. /\ k \in DOMAIN visitors /\ visitors[k].count < Limit /\ Admit(c)
      /\ Put(k, [visitors[k] EXCEPT !.count = @ + 1])
  BY DEF SameWindow
<1>3. PICK n \in 1..Limit : n = visitors[k].count /\ n < Limit
  BY <1>1, <1>2 DEF TypeOK
<1>4. /\ DOMAIN visitors' = DOMAIN visitors
      /\ visitors'[k] = [visitors[k] EXCEPT !.count = @ + 1]
      /\ \A j \in DOMAIN visitors \ {k} : visitors'[j] = visitors[j]
  BY <1>2 DEF Put
<1>5. /\ visitors'[k] \in [count : 1..Limit, ahead : (-Lag - 1)..Window]
      /\ visitors'[k].count = n + 1 /\ visitors'[k].ahead = visitors[k].ahead
  <2>1. visitors[k] \in [count : 1..Limit, ahead : (-Lag - 1)..Window]
    BY <1>1, <1>2 DEF TypeOK
  <2>2. n + 1 \in 1..Limit
    BY <1>3, Numbers
  <2>3. visitors'[k] = [visitors[k] EXCEPT !.count = n + 1]
    BY <1>3, <1>4
  <2> QED
    BY <2>1, <2>2, <2>3
<1>6. /\ UNCHANGED sweep /\ KeysReal' /\ DOMAIN serving' \subseteq Call
      /\ \A d \in DOMAIN serving' :
           serving'[d] \in [sender : Client, key : Key, waited : 0..Lag]
  BY <1>2, LeaveKeys DEF Admit
<1>7. TypeOK'
  <2>1. ages' \in [Watched -> [1..(2 * Limit) -> 0..(Span + 1)]]
    BY <1>2, AdmitAges DEF Place
  <2>2. \A j \in DOMAIN visitors' : visitors'[j] \in [count : 1..Limit, ahead : (-Lag - 1)..Window]
    BY <1>1, <1>4, <1>5 DEF TypeOK
  <2> QED
    BY <1>1, <1>4, <1>6, <2>1, <2>2 DEF TypeOK
<1>8. Windows'
  <2> SUFFICES ASSUME NEW s \in Watched
               PROVE  IF s \in DOMAIN visitors'
                      THEN LET m == visitors'[s].count
                           IN  /\ ages'[s][m] > Span \/ ages'[s][m] + visitors'[s].ahead >= Span
                               /\ ages'[s][m + Limit] > Span
                      ELSE ages'[s][Limit] > Span
    BY DEF Windows
  <2>1. CASE s # k
    <3>1. ages'[s] = ages[s]
      BY <1>2, <2>1, AdmitAges
    <3> QED
      BY <1>1, <1>4, <2>1, <3>1 DEF Windows
  <2>2. CASE s = k
    <3>1. /\ n \in Place /\ n + 1 \in Place /\ n + Limit \in Place /\ (n + Limit) + 1 \in Place
          /\ (n + 1) + Limit = (n + Limit) + 1
      BY <1>3, Numbers DEF Place
    <3>2. ages'[k][n + 1] = ages[k][n] /\ ages'[k][(n + 1) + Limit] = ages[k][n + Limit]
      BY <1>2, <2>2, <3>1, AdmitAges
    <3>3. /\ ages[k][n] > Span \/ ages[k][n] + visitors[k].ahead >= Span
          /\ ages[k][n + Limit] > Span
      BY <1>1, <1>2, <1>3, <2>2 DEF Windows
    <3> QED
      BY <1>2, <1>4, <1>5, <2>2, <3>2, <3>3
  <2> QED
    BY <2>1, <2>2
<1> QED
  BY <1>2, <1>6, <1>7, <1>8, AdmitAges DEF Inv

LEMMA AllowInv == ASSUME Inv, NEW c \in Call, Allow(c) PROVE Inv'
<1>1. c \in DOMAIN serving
  BY DEF Allow
<1>2. CASE Newcomer(c)
  BY <1>1, <1>2, FreshInv DEF Newcomer
<1>3. CASE NewWindow(c)
  BY <1>1, <1>3, FreshInv DEF NewWindow
<1>4. CASE SameWindow(c)
  BY <1>1, <1>4, SameWindowInv
<1>5. CASE TableFull(c) \/ OverLimit(c)
  BY <1>1, <1>5, RefuseInv DEF TableFull, OverLimit
<1> QED
  BY <1>2, <1>3, <1>4, <1>5 DEF Allow

----------------------------------------------------------------------------
\* The ticker changes no entry.
LEMMA TickerInv == ASSUME Inv, TickerFires PROVE Inv'
  BY Numbers DEF Inv, TypeOK, KeysReal, Ordered, Windows, TickerFires

\* What the cleanup forgets is a window that is over, so nothing is admitted
\* that the entry would have refused.
LEMMA SweepInv == ASSUME Inv, Sweep PROVE Inv'
<1>1. TypeOK /\ KeysReal /\ Ordered /\ Windows
  BY DEF Inv
<1>2. /\ visitors' = [k \in DOMAIN visitors \ Swept |-> visitors[k]]
      /\ sweep \in 0..Lag /\ sweep' = -1 /\ UNCHANGED <<serving, ages>>
  BY <1>1, Numbers DEF Sweep, TypeOK
<1>3. IsFiniteSet(DOMAIN visitors') /\ Cardinality(DOMAIN visitors') <= MaxKeys
  <2>1. /\ IsFiniteSet(DOMAIN visitors) /\ Cardinality(DOMAIN visitors) <= MaxKeys
        /\ DOMAIN visitors' \subseteq DOMAIN visitors
    BY <1>1, <1>2 DEF TypeOK
  <2>2. /\ IsFiniteSet(DOMAIN visitors')
        /\ Cardinality(DOMAIN visitors') <= Cardinality(DOMAIN visitors)
    BY <2>1, FS_Subset
  <2>3. Cardinality(DOMAIN visitors) \in Nat /\ Cardinality(DOMAIN visitors') \in Nat
    BY <2>1, <2>2, FS_CardinalityType
  <2> QED
    BY <2>1, <2>2, <2>3, Numbers
<1>4. TypeOK'
  BY <1>1, <1>2, <1>3, Numbers DEF TypeOK
<1>5. KeysReal' /\ Ordered'
  BY <1>1, <1>2 DEF KeysReal, Ordered
<1>6. Windows'
  <2> SUFFICES ASSUME NEW s \in Watched
               PROVE  IF s \in DOMAIN visitors'
                      THEN LET n == visitors'[s].count
                           IN  /\ ages'[s][n] > Span \/ ages'[s][n] + visitors'[s].ahead >= Span
                               /\ ages'[s][n + Limit] > Span
                      ELSE ages'[s][Limit] > Span
    BY DEF Windows
  <2>1. CASE s \notin Swept
    BY <1>1, <1>2, <2>1 DEF Windows
  <2>2. CASE s \in Swept
    <3>1. s \in DOMAIN visitors /\ s \notin DOMAIN visitors' /\ visitors[s].ahead + sweep < 0
      BY <1>2, <2>2 DEF Swept, Expired
    <3>2. ages[s][Limit] > Span
      BY <1>1, <1>2, <3>1, WindowOver
    <3> QED
      BY <1>2, <3>1, <3>2
  <2> QED
    BY <2>1, <2>2
<1> QED
  BY <1>4, <1>5, <1>6 DEF Inv

\* Ages grow as fast as the ends of the windows come nearer.
LEMMA TickInv == ASSUME Inv, Tick PROVE Inv'
<1>1. TypeOK /\ KeysReal /\ Ordered /\ Windows
  BY DEF Inv
<1>2. /\ visitors' = [k \in DOMAIN visitors |-> Nearer(visitors[k])]
      /\ serving' = [c \in DOMAIN serving |-> [serving[c] EXCEPT !.waited = @ + 1]]
      /\ \A c \in DOMAIN serving : serving[c].waited < Lag
      /\ sweep < Lag /\ sweep' = IF sweep >= 0 THEN sweep + 1 ELSE sweep
      /\ ages' = [s \in Watched |-> [i \in Place |-> Older(ages[s][i])]]
  BY DEF Tick, Place
<1>3. ages \in [Watched -> [Place -> 0..(Span + 1)]]
  BY <1>1 DEF TypeOK, Place
<1>4. \A a \in 0..(Span + 1) : Older(a) \in 0..(Span + 1) /\ Older(a) >= a
                               /\ (a > Span => Older(a) > Span)
                               /\ (a <= Span => Older(a) = a + 1)
  BY Numbers DEF Older
<1>5. ages' \in [Watched -> [Place -> 0..(Span + 1)]]
  BY <1>2, <1>3, <1>4
<1>6. \A k \in DOMAIN visitors :
        /\ visitors[k] \in [count : 1..Limit, ahead : (-Lag - 1)..Window]
        /\ visitors'[k] \in [count : 1..Limit, ahead : (-Lag - 1)..Window]
        /\ visitors'[k].count = visitors[k].count
        /\ visitors'[k].ahead >= visitors[k].ahead - 1
  <2> SUFFICES ASSUME NEW k \in DOMAIN visitors
               PROVE  /\ visitors[k] \in [count : 1..Limit, ahead : (-Lag - 1)..Window]
                      /\ visitors'[k] \in [count : 1..Limit, ahead : (-Lag - 1)..Window]
                      /\ visitors'[k].count = visitors[k].count
                      /\ visitors'[k].ahead >= visitors[k].ahead - 1
    OBVIOUS
  <2>1. visitors[k] \in [count : 1..Limit, ahead : (-Lag - 1)..Window]
    BY <1>1 DEF TypeOK
  <2>2. visitors'[k] = [visitors[k] EXCEPT !.ahead = IF @ >= -Lag THEN @ - 1 ELSE @]
    BY <1>2 DEF Nearer
  <2> QED
    BY <2>1, <2>2, Numbers
<1>7. TypeOK'
  <2>1. \A c \in DOMAIN serving' :
          serving'[c] \in [sender : Client, key : Key, waited : 0..Lag]
    <3> SUFFICES ASSUME NEW c \in DOMAIN serving
                 PROVE  serving'[c] \in [sender : Client, key : Key, waited : 0..Lag]
      BY <1>2
    <3>1. serving[c] \in [sender : Client, key : Key, waited : 0..Lag]
      BY <1>1 DEF TypeOK
    <3>2. serving[c].waited + 1 \in 0..Lag
      BY <1>2, <3>1, Numbers
    <3>3. serving'[c] = [serving[c] EXCEPT !.waited = @ + 1]
      BY <1>2
    <3> QED
      BY <3>1, <3>2, <3>3
  <2>2. sweep' \in -1..Lag
    <3>1. sweep \in -1..Lag
      BY <1>1 DEF TypeOK
    <3> QED
      BY <1>2, <3>1, Numbers
  <2> QED
    BY <1>1, <1>2, <1>5, <1>6, <2>1, <2>2 DEF TypeOK, Place
<1>8. KeysReal'
  BY <1>1, <1>2 DEF KeysReal, TypeOK
<1>9. \A s \in Watched : \A i \in Place : ages'[s][i] = Older(ages[s][i])
  BY <1>2
<1>10. Ordered'
  <2> SUFFICES ASSUME NEW s \in Watched, NEW i \in Place, NEW j \in Place, i <= j
               PROVE  ages'[s][i] <= ages'[s][j]
    BY DEF Ordered, Place
  <2>1. ages[s][i] <= ages[s][j] /\ ages[s][i] \in 0..(Span + 1) /\ ages[s][j] \in 0..(Span + 1)
    BY <1>1, <1>3 DEF Ordered, Place
  <2> QED
    BY <1>9, <2>1, Numbers DEF Older
<1>11. Windows'
  <2> SUFFICES ASSUME NEW s \in Watched
               PROVE  IF s \in DOMAIN visitors'
                      THEN LET n == visitors'[s].count
                           IN  /\ ages'[s][n] > Span \/ ages'[s][n] + visitors'[s].ahead >= Span
                               /\ ages'[s][n + Limit] > Span
                      ELSE ages'[s][Limit] > Span
    BY DEF Windows
  <2>1. CASE s \notin DOMAIN visitors
    <3>1. ages[s][Limit] > Span /\ ages[s][Limit] \in 0..(Span + 1)
      BY <1>1, <1>3, <2>1, Numbers DEF Windows
    <3> QED
      BY <1>2, <1>4, <1>9, <2>1, <3>1, Numbers
  <2>2. CASE s \in DOMAIN visitors
    <3>1. PICK n \in 1..Limit : n = visitors[s].count /\ visitors'[s].count = n
      BY <1>6, <2>2
    <3>2. n \in Place /\ n + Limit \in Place
      BY Numbers DEF Place
    <3>3. /\ ages[s][n] > Span \/ ages[s][n] + visitors[s].ahead >= Span
          /\ ages[s][n + Limit] > Span
      BY <1>1, <2>2, <3>1 DEF Windows
    <3>4. ages[s][n] \in 0..(Span + 1) /\ ages[s][n + Limit] \in 0..(Span + 1)
      BY <1>3, <3>2
    <3>5. ages'[s][n + Limit] > Span
      BY <1>4, <1>9, <3>2, <3>3, <3>4
    <3>6. /\ visitors[s].ahead \in Int /\ visitors'[s].ahead \in Int
          /\ visitors'[s].ahead >= visitors[s].ahead - 1
      BY <1>6, <2>2, Numbers
    <3>7. ages'[s][n] > Span \/ ages'[s][n] = ages[s][n] + 1
      BY <1>4, <1>9, <3>2, <3>4, Numbers
    <3>8. ages'[s][n] > Span \/ ages'[s][n] + visitors'[s].ahead >= Span
      <4>1. CASE ages[s][n] > Span
        BY <1>4, <1>9, <3>2, <3>4, <4>1
      <4>2. CASE ages[s][n] + visitors[s].ahead >= Span
        BY <3>4, <3>6, <3>7, <4>2, Numbers
      <4> QED
        BY <3>3, <4>1, <4>2
    <3> QED
      BY <1>2, <2>2, <3>1, <3>5, <3>8
  <2> QED
    BY <2>1, <2>2
<1> QED
  BY <1>7, <1>8, <1>10, <1>11 DEF Inv

----------------------------------------------------------------------------
LEMMA StepInv == Inv /\ [Next]_vars => Inv'
<1> SUFFICES ASSUME Inv, [Next]_vars PROVE Inv'
  OBVIOUS
<1>1. CASE \E c \in Call : Direct(c) \/ Forwarded(c)
  BY <1>1, ArrivalInv
<1>2. CASE \E c \in Call : Allow(c)
  BY <1>2, AllowInv
<1>3. CASE TickerFires
  BY <1>3, TickerInv
<1>4. CASE Sweep
  BY <1>4, SweepInv
<1>5. CASE Tick
  BY <1>5, TickInv
<1>6. CASE UNCHANGED vars
  BY <1>6 DEF vars, Inv, TypeOK, KeysReal, Ordered, Windows
<1> QED
  BY <1>1, <1>2, <1>3, <1>4, <1>5, <1>6 DEF Next

LEMMA Inductive == Spec => []Inv
  BY InitInv, StepInv, PTL DEF Spec

\* The table never holds more keys than maxTrackedRateLimitKeys, an entry never
\* counts past the limit, and the rest has its type (Allow).
THEOREM TypeCorrect == Spec => []TypeOK
<1>1. Inv => TypeOK
  BY DEF Inv
<1> QED
  BY <1>1, Inductive, PTL

\* A request is counted under the address that sent it: neither a forged header
\* nor one or two trusted proxies make it another's (clientIP, rateLimit).
THEOREM SenderCounted == Spec => []KeysReal
<1>1. Inv => KeysReal
  BY DEF Inv
<1> QED
  BY <1>1, Inductive, PTL

\* No address is admitted twice the limit in any stretch of a window less the
\* longest wait for the mutex (Allow, cleanupLoop, clientIP).
THEOREM LimitKept == Spec => []TwiceLimit
<1>1. Inv => TwiceLimit
  <2> SUFFICES ASSUME Inv, NEW s \in Watched PROVE ages[s][2 * Limit] > Span
    BY DEF TwiceLimit
  <2>1. TypeOK /\ Ordered /\ Windows
    BY DEF Inv
  <2>2. PICK m \in Place : ages[s][m] > Span
    <3>1. CASE s \notin DOMAIN visitors
      BY <2>1, <3>1, Numbers DEF Windows
    <3>2. CASE s \in DOMAIN visitors
      <4>1. visitors[s].count \in 1..Limit
        BY <2>1, <3>2 DEF TypeOK
      <4>2. visitors[s].count + Limit \in Place
        BY <4>1, Numbers DEF Place
      <4> QED
        BY <2>1, <3>2, <4>2 DEF Windows
    <3> QED
      BY <3>1, <3>2
  <2>3. m <= 2 * Limit /\ ages[s][m] <= ages[s][2 * Limit]
    BY <2>1, Numbers DEF Ordered, Place
  <2>4. ages[s][m] \in Int /\ ages[s][2 * Limit] \in Int
    BY <2>1, Numbers DEF TypeOK, Place
  <2> QED
    BY <2>2, <2>3, <2>4, Numbers
<1> QED
  BY <1>1, Inductive, PTL
=============================================================================
