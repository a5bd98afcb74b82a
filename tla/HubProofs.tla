----------------------------- MODULE HubProofs -----------------------------
(* Proofs about the hub, for any sockets, calls and limits.  IInv is the
   inductive invariant; what happens to events comes on top of it.             *)
EXTENDS Hub, FiniteSetTheorems, TLAPS

IInv ==
  /\ TypeOK
  /\ IndexesAgree
  /\ ClosedIffUnregistered
  /\ Lifecycle
  /\ CallProgress
  /\ CloseProgress

----------------------------------------------------------------------------
(* Init establishes the invariant.                                         *)

LEMMA InitInv == Init => IInv
<1> SUFFICES ASSUME Init PROVE IInv
  OBVIOUS
<1>1. TypeOK
  BY SocketsAssumption DEF Init, TypeOK
<1>2. IndexesAgree /\ ClosedIffUnregistered /\ Lifecycle /\ CallProgress /\ CloseProgress
  BY SocketsAssumption
  DEF Init, IndexesAgree, ClosedIffUnregistered, Lifecycle, CallProgress, CloseProgress, Registered
<1>. QED  BY <1>1, <1>2 DEF IInv

----------------------------------------------------------------------------
(* The registry's two critical sections.                                   *)

\* Register adds the socket to its own keys and touches no other socket.
LEMMA AddEffect ==
  ASSUME IInv, NEW c \in Client, AddToIndexes(c)
  PROVE  /\ groups' \in [Group -> SUBSET Client]
         /\ users' \in [User -> SUBSET Client]
         /\ remoteIPs' \in [IP -> SUBSET Client]
         /\ Registered(c)'
         /\ \A d \in Client \ {c} : Registered(d)' <=> Registered(d)
         /\ IndexesAgree'
<1> USE SocketsAssumption DEF IInv, TypeOK
<1>1. /\ groups' \in [Group -> SUBSET Client]
      /\ users' \in [User -> SUBSET Client]
      /\ remoteIPs' \in [IP -> SUBSET Client]
  BY DEF AddToIndexes
<1>2. Registered(c)' /\ \A d \in Client \ {c} : Registered(d)' <=> Registered(d)
  BY DEF AddToIndexes, Registered
<1>3. IndexesAgree'
  BY <1>2 DEF AddToIndexes, IndexesAgree, Registered
<1>. QED  BY <1>1, <1>2, <1>3

\* Unregister takes the socket out of every map, closes its channel if it was
\* there, and touches no other socket.
LEMMA UnregisterEffect ==
  ASSUME IInv, NEW c \in Client, Unregister(c)
  PROVE  /\ groups' \in [Group -> SUBSET Client]
         /\ users' \in [User -> SUBSET Client]
         /\ remoteIPs' \in [IP -> SUBSET Client]
         /\ sendClosed' \in [Client -> BOOLEAN]
         /\ ~Registered(c)'
         /\ \A d \in Client \ {c} : Registered(d)' <=> Registered(d)
         /\ sendClosed'[c] <=> sendClosed[c] \/ Registered(c)
         /\ \A d \in Client \ {c} : sendClosed'[d] = sendClosed[d]
         /\ IndexesAgree'
<1> USE SocketsAssumption DEF IInv, TypeOK
<1>1. /\ groups' \in [Group -> SUBSET Client]
      /\ users' \in [User -> SUBSET Client]
      /\ remoteIPs' \in [IP -> SUBSET Client]
      /\ sendClosed' \in [Client -> BOOLEAN]
  BY DEF Unregister, Registered
<1>2. ~Registered(c)' /\ \A d \in Client \ {c} : Registered(d)' <=> Registered(d)
  BY DEF Unregister, Registered
<1>3. GroupOf[c] # None => (c \in groups[GroupOf[c]] <=> Registered(c))
  BY DEF IndexesAgree
<1>4. sendClosed'[c] <=> sendClosed[c] \/ Registered(c)
  BY <1>3 DEF Unregister
<1>5. \A d \in Client \ {c} : sendClosed'[d] = sendClosed[d]
  BY DEF Unregister
<1>6. IndexesAgree'
  BY <1>2 DEF Unregister, IndexesAgree, Registered
<1>. QED  BY <1>1, <1>2, <1>4, <1>5, <1>6

----------------------------------------------------------------------------
(* Every step keeps the invariant.                                         *)

\* While the maps stand still, so does what is said of them.
LEMMA SameRegistry ==
  ASSUME IndexesAgree, UNCHANGED <<groups, users, remoteIPs>>
  PROVE  IndexesAgree' /\ \A d \in Client : Registered(d)' <=> Registered(d)
BY DEF IndexesAgree, Registered

\* ... and with the flags, the calls and the shutdown too, only the program
\* counters of one socket remain to be looked at.
LEMMA SameRecords ==
  ASSUME IInv, UNCHANGED <<groups, users, remoteIPs, sendClosed, todo, failed, owed,
                           drain, closing, closedAll>>
  PROVE  /\ IndexesAgree' /\ CallProgress' /\ CloseProgress'
         /\ \A d \in Client : Registered(d)' <=> Registered(d)
<1>1. IndexesAgree' /\ \A d \in Client : Registered(d)' <=> Registered(d)
  BY SameRegistry DEF IInv
<1>2. CallProgress'
  BY DEF IInv, CallProgress
<1>3. TypeOK /\ CloseProgress
  BY DEF IInv
<1>4. CloseProgress'
  BY <1>1, <1>3 DEF CloseProgress, TypeOK
<1>. QED  BY <1>1, <1>2, <1>4

LEMMA RejectAtLimitInv ==
  ASSUME IInv, NEW c \in Client, RejectAtLimit(c)
  PROVE  IInv'
<1>1. UNCHANGED <<groups, users, remoteIPs, send, sendClosed, reader, writer, got, route,
                  todo, failed, owed, drain, closing, closedAll>>
  BY DEF RejectAtLimit, indexes, pumps, calls, shutdown
<1>2. /\ handler[c] = "idle"
      /\ handler' = [handler EXCEPT ![c] = "rejected"]
      /\ conn' = [conn EXCEPT ![c] = "closed"]
  BY DEF RejectAtLimit
<1>3. TypeOK /\ ClosedIffUnregistered /\ Lifecycle
  BY DEF IInv
<1>4. TypeOK'
  BY <1>1, <1>2, <1>3 DEF TypeOK
<1>5. /\ IndexesAgree' /\ CallProgress' /\ CloseProgress'
      /\ \A d \in Client : Registered(d)' <=> Registered(d)
  BY <1>1, SameRecords
<1>6. ClosedIffUnregistered'
  BY <1>1, <1>2, <1>3, <1>5 DEF ClosedIffUnregistered, TypeOK, Lifecycle
<1>7. Lifecycle'
  BY <1>1, <1>2, <1>3, <1>5 DEF Lifecycle, TypeOK
<1>. QED  BY <1>4, <1>5, <1>6, <1>7 DEF IInv

LEMMA QueueReadyInv ==
  ASSUME IInv, NEW c \in Client, QueueReady(c)
  PROVE  IInv'
<1>1. UNCHANGED <<groups, users, remoteIPs, sendClosed, conn, got, route, todo, failed,
                  owed, drain, closing, closedAll>>
  BY DEF QueueReady, indexes, pumps, calls, shutdown
<1>2. /\ handler[c] = "registered"
      /\ send' = [send EXCEPT ![c] = Append(@, "connection.ready")]
      /\ handler' = [handler EXCEPT ![c] = "serving"]
      /\ writer' = [writer EXCEPT ![c] = "on"]
      /\ reader' = [reader EXCEPT ![c] = "on"]
  BY DEF QueueReady, SendEvent
<1>3. TypeOK /\ ClosedIffUnregistered /\ Lifecycle
  BY DEF IInv
<1>4. TypeOK'
  <2>1. send' \in [Client -> Seq(Event)]
    BY <1>2, <1>3 DEF TypeOK, Event
  <2>. QED  BY <1>1, <1>2, <1>3, <2>1 DEF TypeOK
<1>5. /\ IndexesAgree' /\ CallProgress' /\ CloseProgress'
      /\ \A d \in Client : Registered(d)' <=> Registered(d)
  BY <1>1, SameRecords
<1>6. ClosedIffUnregistered'
  BY <1>1, <1>2, <1>3, <1>5 DEF ClosedIffUnregistered, TypeOK, Lifecycle
<1>7. Lifecycle'
  BY <1>1, <1>2, <1>3, <1>5 DEF Lifecycle, TypeOK
<1>. QED  BY <1>4, <1>5, <1>6, <1>7 DEF IInv

LEMMA PanicOnClosedInv ==
  ASSUME IInv, NEW c \in Client, PanicOnClosed(c)
  PROVE  IInv'
<1>1. UNCHANGED <<groups, users, remoteIPs, send, sendClosed, conn, reader, writer, got,
                  route, todo, failed, owed, drain, closing, closedAll>>
  BY DEF PanicOnClosed, indexes, pumps, calls, shutdown
<1>2. /\ handler[c] = "registered" /\ sendClosed[c]
      /\ handler' = [handler EXCEPT ![c] = "panicked"]
  BY DEF PanicOnClosed
<1>3. TypeOK /\ ClosedIffUnregistered /\ Lifecycle
  BY DEF IInv
<1>4. TypeOK'
  BY <1>1, <1>2, <1>3 DEF TypeOK
<1>5. /\ IndexesAgree' /\ CallProgress' /\ CloseProgress'
      /\ \A d \in Client : Registered(d)' <=> Registered(d)
  BY <1>1, SameRecords
<1>6. ClosedIffUnregistered'
  BY <1>1, <1>2, <1>3, <1>5 DEF ClosedIffUnregistered, TypeOK, Lifecycle
<1>7. Lifecycle'
  BY <1>1, <1>2, <1>3, <1>5 DEF Lifecycle, TypeOK
<1>. QED  BY <1>4, <1>5, <1>6, <1>7 DEF IInv

LEMMA AnswerMessageInv ==
  ASSUME IInv, NEW c \in Client, AnswerMessage(c)
  PROVE  IInv'
<1>1. UNCHANGED <<groups, users, remoteIPs, sendClosed, conn, handler, reader, writer, got,
                  route, todo, failed, owed, drain, closing, closedAll>>
  BY DEF AnswerMessage, indexes, pumps, calls, shutdown
<1>2. send' = [send EXCEPT ![c] = Append(@, "reply")]
  BY DEF AnswerMessage, SendEvent
<1>3. TypeOK /\ ClosedIffUnregistered /\ Lifecycle
  BY DEF IInv
<1>4. TypeOK'
  <2>1. send' \in [Client -> Seq(Event)]
    BY <1>2, <1>3 DEF TypeOK, Event
  <2>. QED  BY <1>1, <1>3, <2>1 DEF TypeOK
<1>5. /\ IndexesAgree' /\ CallProgress' /\ CloseProgress'
      /\ \A d \in Client : Registered(d)' <=> Registered(d)
  BY <1>1, SameRecords
<1>6. ClosedIffUnregistered'
  BY <1>1, <1>2, <1>3, <1>5 DEF ClosedIffUnregistered, TypeOK, Lifecycle
<1>7. Lifecycle'
  BY <1>1, <1>2, <1>3, <1>5 DEF Lifecycle, TypeOK
<1>. QED  BY <1>4, <1>5, <1>6, <1>7 DEF IInv

LEMMA DropReaderInv ==
  ASSUME IInv, NEW c \in Client, DropReader(c)
  PROVE  IInv'
<1>1. UNCHANGED <<groups, users, remoteIPs, send, sendClosed, conn, handler, writer, got,
                  route, todo, failed, owed, drain, closing, closedAll>>
  BY DEF DropReader, indexes, pumps, calls, shutdown
<1>2. reader[c] = "on" /\ reader' = [reader EXCEPT ![c] = "leaving"]
  BY DEF DropReader
<1>3. TypeOK /\ ClosedIffUnregistered /\ Lifecycle
  BY DEF IInv
<1>4. TypeOK'
  BY <1>1, <1>2, <1>3 DEF TypeOK
<1>5. /\ IndexesAgree' /\ CallProgress' /\ CloseProgress'
      /\ \A d \in Client : Registered(d)' <=> Registered(d)
  BY <1>1, SameRecords
<1>6. ClosedIffUnregistered'
  BY <1>1, <1>2, <1>3, <1>5 DEF ClosedIffUnregistered, TypeOK, Lifecycle
<1>7. Lifecycle'
  BY <1>1, <1>2, <1>3, <1>5 DEF Lifecycle, TypeOK
<1>. QED  BY <1>4, <1>5, <1>6, <1>7 DEF IInv

LEMMA ReadFailsInv ==
  ASSUME IInv, NEW c \in Client, ReadFails(c)
  PROVE  IInv'
<1>1. UNCHANGED <<groups, users, remoteIPs, send, sendClosed, conn, handler, writer, got,
                  route, todo, failed, owed, drain, closing, closedAll>>
  BY DEF ReadFails, indexes, pumps, calls, shutdown
<1>2. reader[c] = "on" /\ reader' = [reader EXCEPT ![c] = "leaving"]
  BY DEF ReadFails
<1>3. TypeOK /\ ClosedIffUnregistered /\ Lifecycle
  BY DEF IInv
<1>4. TypeOK'
  BY <1>1, <1>2, <1>3 DEF TypeOK
<1>5. /\ IndexesAgree' /\ CallProgress' /\ CloseProgress'
      /\ \A d \in Client : Registered(d)' <=> Registered(d)
  BY <1>1, SameRecords
<1>6. ClosedIffUnregistered'
  BY <1>1, <1>2, <1>3, <1>5 DEF ClosedIffUnregistered, TypeOK, Lifecycle
<1>7. Lifecycle'
  BY <1>1, <1>2, <1>3, <1>5 DEF Lifecycle, TypeOK
<1>. QED  BY <1>4, <1>5, <1>6, <1>7 DEF IInv

LEMMA ReaderClosesInv ==
  ASSUME IInv, NEW c \in Client, ReaderCloses(c)
  PROVE  IInv'
<1>1. UNCHANGED <<groups, users, remoteIPs, send, sendClosed, handler, writer, got, route,
                  todo, failed, owed, drain, closing, closedAll>>
  BY DEF ReaderCloses, indexes, pumps, calls, shutdown
<1>2. /\ reader[c] = "closing" /\ reader' = [reader EXCEPT ![c] = "done"]
      /\ conn' = [conn EXCEPT ![c] = "closed"]
  BY DEF ReaderCloses
<1>3. TypeOK /\ ClosedIffUnregistered /\ Lifecycle
  BY DEF IInv
<1>4. TypeOK'
  BY <1>1, <1>2, <1>3 DEF TypeOK
<1>5. /\ IndexesAgree' /\ CallProgress' /\ CloseProgress'
      /\ \A d \in Client : Registered(d)' <=> Registered(d)
  BY <1>1, SameRecords
<1>6. ClosedIffUnregistered'
  BY <1>1, <1>2, <1>3, <1>5 DEF ClosedIffUnregistered, TypeOK, Lifecycle
<1>7. Lifecycle'
  BY <1>1, <1>2, <1>3, <1>5 DEF Lifecycle, TypeOK
<1>. QED  BY <1>4, <1>5, <1>6, <1>7 DEF IInv

LEMMA WriteFrameInv ==
  ASSUME IInv, NEW c \in Client, WriteFrame(c)
  PROVE  IInv'
<1>1. UNCHANGED <<groups, users, remoteIPs, sendClosed, conn, handler, reader, writer,
                  route, todo, failed, owed, drain, closing, closedAll>>
  BY DEF WriteFrame, indexes, pumps, calls, shutdown
<1>2. /\ send[c] # <<>>
      /\ send' = [send EXCEPT ![c] = Tail(@)]
      /\ got' = [got EXCEPT ![c] = @ \cup ({Head(send[c])} \ {"reply"})]
  BY DEF WriteFrame, Take
<1>3. TypeOK /\ ClosedIffUnregistered /\ Lifecycle
  BY DEF IInv
<1>4. TypeOK'
  <2>1. send[c] \in Seq(Event)
    BY <1>3 DEF TypeOK
  <2>2. send[c] # <<>> => Head(send[c]) \in Event /\ Tail(send[c]) \in Seq(Event)
    BY <2>1
  <2>3. send' \in [Client -> Seq(Event)] /\ got' \in [Client -> SUBSET Event]
    BY <1>2, <1>3, <2>2 DEF TypeOK
  <2>. QED  BY <1>1, <1>3, <2>3 DEF TypeOK
<1>5. /\ IndexesAgree' /\ CallProgress' /\ CloseProgress'
      /\ \A d \in Client : Registered(d)' <=> Registered(d)
  BY <1>1, SameRecords
<1>6. ClosedIffUnregistered'
  BY <1>1, <1>2, <1>3, <1>5 DEF ClosedIffUnregistered, TypeOK, Lifecycle
<1>7. Lifecycle'
  BY <1>1, <1>2, <1>3, <1>5 DEF Lifecycle, TypeOK
<1>. QED  BY <1>4, <1>5, <1>6, <1>7 DEF IInv

LEMMA WriteFailsInv ==
  ASSUME IInv, NEW c \in Client, WriteFails(c)
  PROVE  IInv'
<1>1. UNCHANGED <<groups, users, remoteIPs, sendClosed, handler, reader, got, route, todo,
                  failed, owed, drain, closing, closedAll>>
  BY DEF WriteFails, indexes, pumps, calls, shutdown
<1>2. /\ writer[c] = "on"
      /\ send' = send \/ (send[c] # <<>> /\ send' = [send EXCEPT ![c] = Tail(@)])
      /\ writer' = [writer EXCEPT ![c] = "done"]
      /\ conn' = [conn EXCEPT ![c] = "closed"]
  BY DEF WriteFails, Take, StopWriter
<1>3. TypeOK /\ ClosedIffUnregistered /\ Lifecycle
  BY DEF IInv
<1>4. TypeOK'
  <2>1. send[c] \in Seq(Event)
    BY <1>3 DEF TypeOK
  <2>2. send[c] # <<>> => Head(send[c]) \in Event /\ Tail(send[c]) \in Seq(Event)
    BY <2>1
  <2>3. send' \in [Client -> Seq(Event)]
    BY <1>2, <1>3, <2>2 DEF TypeOK
  <2>. QED  BY <1>1, <1>2, <1>3, <2>3 DEF TypeOK
<1>5. /\ IndexesAgree' /\ CallProgress' /\ CloseProgress'
      /\ \A d \in Client : Registered(d)' <=> Registered(d)
  BY <1>1, SameRecords
<1>6. ClosedIffUnregistered'
  BY <1>1, <1>2, <1>3, <1>5 DEF ClosedIffUnregistered, TypeOK, Lifecycle
<1>7. Lifecycle'
  BY <1>1, <1>2, <1>3, <1>5 DEF Lifecycle, TypeOK
<1>. QED  BY <1>4, <1>5, <1>6, <1>7 DEF IInv

LEMMA WriteCloseInv ==
  ASSUME IInv, NEW c \in Client, WriteClose(c)
  PROVE  IInv'
<1>1. UNCHANGED <<groups, users, remoteIPs, send, sendClosed, handler, reader, got, route,
                  todo, failed, owed, drain, closing, closedAll>>
  BY DEF WriteClose, indexes, pumps, calls, shutdown
<1>2. /\ writer[c] = "on"
      /\ writer' = [writer EXCEPT ![c] = "done"]
      /\ conn' = [conn EXCEPT ![c] = "closed"]
  BY DEF WriteClose, StopWriter
<1>3. TypeOK /\ ClosedIffUnregistered /\ Lifecycle
  BY DEF IInv
<1>4. TypeOK'
  BY <1>1, <1>2, <1>3 DEF TypeOK
<1>5. /\ IndexesAgree' /\ CallProgress' /\ CloseProgress'
      /\ \A d \in Client : Registered(d)' <=> Registered(d)
  BY <1>1, SameRecords
<1>6. ClosedIffUnregistered'
  BY <1>1, <1>2, <1>3, <1>5 DEF ClosedIffUnregistered, TypeOK, Lifecycle
<1>7. Lifecycle'
  BY <1>1, <1>2, <1>3, <1>5 DEF Lifecycle, TypeOK
<1>. QED  BY <1>4, <1>5, <1>6, <1>7 DEF IInv

LEMMA PeerLeavesInv ==
  ASSUME IInv, NEW c \in Client, PeerLeaves(c)
  PROVE  IInv'
<1>1. UNCHANGED <<groups, users, remoteIPs, send, sendClosed, handler, reader, writer, got,
                  route, todo, failed, owed, drain, closing, closedAll>>
  BY DEF PeerLeaves, indexes, pumps, calls, shutdown
<1>2. conn' = [conn EXCEPT ![c] = "gone"]
  BY DEF PeerLeaves
<1>3. TypeOK /\ ClosedIffUnregistered /\ Lifecycle
  BY DEF IInv
<1>4. TypeOK'
  BY <1>1, <1>2, <1>3 DEF TypeOK
<1>5. /\ IndexesAgree' /\ CallProgress' /\ CloseProgress'
      /\ \A d \in Client : Registered(d)' <=> Registered(d)
  BY <1>1, SameRecords
<1>6. ClosedIffUnregistered'
  BY <1>1, <1>2, <1>3, <1>5 DEF ClosedIffUnregistered, TypeOK, Lifecycle
<1>7. Lifecycle'
  BY <1>1, <1>2, <1>3, <1>5 DEF Lifecycle, TypeOK
<1>. QED  BY <1>4, <1>5, <1>6, <1>7 DEF IInv

LEMMA RegisterInv ==
  ASSUME IInv, NEW c \in Client, Register(c)
  PROVE  IInv'
<1>1. UNCHANGED <<send, sendClosed, reader, writer, got, route, todo, failed, owed, drain,
                  closing, closedAll>>
  BY DEF Register, calls, shutdown
<1>2. /\ handler[c] = "idle"
      /\ handler' = [handler EXCEPT ![c] = "registered"]
      /\ conn' = [conn EXCEPT ![c] = "open"]
  BY DEF Register
<1>3. TypeOK /\ ClosedIffUnregistered /\ Lifecycle /\ CallProgress /\ CloseProgress
  BY DEF IInv
<1>4. /\ groups' \in [Group -> SUBSET Client]
      /\ users' \in [User -> SUBSET Client]
      /\ remoteIPs' \in [IP -> SUBSET Client]
      /\ Registered(c)'
      /\ \A d \in Client \ {c} : Registered(d)' <=> Registered(d)
      /\ IndexesAgree'
  BY AddEffect DEF Register
<1>5. TypeOK'
  BY <1>1, <1>2, <1>3, <1>4 DEF TypeOK
<1>6. ClosedIffUnregistered'
  BY <1>1, <1>2, <1>3, <1>4 DEF ClosedIffUnregistered, Lifecycle, TypeOK
<1>7. Lifecycle'
  BY <1>1, <1>2, <1>3, <1>4 DEF Lifecycle, TypeOK
<1>8. CallProgress'
  BY <1>1, <1>3 DEF CallProgress
<1>9. CloseProgress'
  BY <1>1, <1>2, <1>3, <1>4 DEF CloseProgress, Lifecycle, TypeOK
<1>. QED  BY <1>4, <1>5, <1>6, <1>7, <1>8, <1>9 DEF IInv

\* Unregister, whoever calls it for a socket that was let in.
LEMMA UnregisterInv ==
  ASSUME IInv, NEW c \in Client, Unregister(c), handler[c] \notin {"idle", "rejected"},
         UNCHANGED <<send, conn, handler, writer, got, route, owed, drain, closedAll>>
  PROVE  /\ groups' \in [Group -> SUBSET Client]
         /\ users' \in [User -> SUBSET Client]
         /\ remoteIPs' \in [IP -> SUBSET Client]
         /\ sendClosed' \in [Client -> BOOLEAN]
         /\ ~Registered(c)'
         /\ \A d \in Client : Registered(d)' => Registered(d)
         /\ IndexesAgree' /\ ClosedIffUnregistered'
         /\ reader' = reader => Lifecycle'
<1>1. /\ groups' \in [Group -> SUBSET Client]
      /\ users' \in [User -> SUBSET Client]
      /\ remoteIPs' \in [IP -> SUBSET Client]
      /\ sendClosed' \in [Client -> BOOLEAN]
      /\ ~Registered(c)'
      /\ \A d \in Client \ {c} : Registered(d)' <=> Registered(d)
      /\ sendClosed'[c] <=> sendClosed[c] \/ Registered(c)
      /\ \A d \in Client \ {c} : sendClosed'[d] = sendClosed[d]
      /\ IndexesAgree'
  BY UnregisterEffect
<1>2. TypeOK /\ ClosedIffUnregistered /\ Lifecycle
  BY DEF IInv
<1>3. ClosedIffUnregistered'
  BY <1>1, <1>2 DEF ClosedIffUnregistered, TypeOK
<1>4. reader' = reader => Lifecycle'
  BY <1>1, <1>2 DEF Lifecycle, ClosedIffUnregistered, TypeOK
<1>. QED  BY <1>1, <1>3, <1>4

LEMMA ReaderUnregistersInv ==
  ASSUME IInv, NEW c \in Client, ReaderUnregisters(c)
  PROVE  IInv'
<1>1. UNCHANGED <<send, conn, handler, writer, got, route, todo, failed, owed, drain,
                  closing, closedAll>>
  BY DEF ReaderUnregisters, pumps, calls, shutdown
<1>2. /\ Unregister(c) /\ reader[c] = "leaving"
      /\ reader' = [reader EXCEPT ![c] = "closing"]
  BY DEF ReaderUnregisters
<1>3. TypeOK /\ Lifecycle /\ CallProgress /\ CloseProgress
  BY DEF IInv
<1>4. handler[c] \notin {"idle", "rejected"} /\ handler[c] = "serving"
  BY <1>2, <1>3 DEF Lifecycle
<1>5. /\ groups' \in [Group -> SUBSET Client]
      /\ users' \in [User -> SUBSET Client]
      /\ remoteIPs' \in [IP -> SUBSET Client]
      /\ sendClosed' \in [Client -> BOOLEAN]
      /\ ~Registered(c)'
      /\ \A d \in Client : Registered(d)' => Registered(d)
      /\ IndexesAgree' /\ ClosedIffUnregistered'
      /\ reader' = reader => Lifecycle'
  BY <1>1, <1>2, <1>4, UnregisterInv
<1>6. TypeOK'
  BY <1>1, <1>2, <1>3, <1>5 DEF TypeOK
<1>7. Lifecycle'
  <2>1. \A d \in Client \ {c} : sendClosed'[d] = sendClosed[d]
    BY <1>2, UnregisterEffect
  <2>. QED  BY <1>1, <1>2, <1>3, <1>4, <1>5, <2>1 DEF Lifecycle, TypeOK
<1>8. CallProgress' /\ CloseProgress'
  BY <1>1, <1>3, <1>5 DEF CallProgress, CloseProgress, TypeOK
<1>. QED  BY <1>5, <1>6, <1>7, <1>8 DEF IInv

LEMMA DropFailedInv ==
  ASSUME IInv, NEW p \in Post, DropFailed(p)
  PROVE  IInv'
<1>1. UNCHANGED <<send, conn, handler, reader, writer, got, route, todo, owed, drain,
                  closing, closedAll>>
  BY DEF DropFailed, pumps, calls, shutdown
<1>2. /\ Unregister(failed[p]) /\ failed[p] # None
      /\ failed' = [failed EXCEPT ![p] = None]
  BY DEF DropFailed
<1>3. TypeOK /\ Lifecycle /\ CallProgress /\ CloseProgress
  BY DEF IInv
<1>4. PICK c \in Client : /\ c = failed[p] /\ Unregister(c)
                         /\ handler[c] \notin {"idle", "rejected"}
  BY <1>2, <1>3 DEF Lifecycle, CallProgress, TypeOK
<1>5. /\ groups' \in [Group -> SUBSET Client]
      /\ users' \in [User -> SUBSET Client]
      /\ remoteIPs' \in [IP -> SUBSET Client]
      /\ sendClosed' \in [Client -> BOOLEAN]
      /\ ~Registered(c)'
      /\ \A d \in Client : Registered(d)' => Registered(d)
      /\ IndexesAgree' /\ ClosedIffUnregistered'
      /\ reader' = reader => Lifecycle'
  BY <1>1, <1>2, <1>4, UnregisterInv
<1>6. TypeOK'
  BY <1>1, <1>2, <1>3, <1>5 DEF TypeOK
<1>7. CallProgress' /\ CloseProgress'
  BY <1>1, <1>2, <1>3, <1>5 DEF CallProgress, CloseProgress, TypeOK
<1>. QED  BY <1>1, <1>5, <1>6, <1>7 DEF IInv

LEMMA CloseOneInv ==
  ASSUME IInv, NEW c \in Client, CloseOne(c)
  PROVE  IInv'
<1>1. UNCHANGED <<send, conn, handler, reader, writer, got, route, todo, failed, owed,
                  drain, closedAll>>
  BY DEF CloseOne, pumps, calls, shutdown
<1>2. /\ Unregister(c) /\ c \in closing
      /\ closing' = closing \ {c}
  BY DEF CloseOne
<1>3. TypeOK /\ Lifecycle /\ CallProgress /\ CloseProgress
  BY DEF IInv
<1>4. handler[c] \notin {"idle", "rejected"}
  BY <1>2, <1>3 DEF Lifecycle, CloseProgress
<1>5. /\ groups' \in [Group -> SUBSET Client]
      /\ users' \in [User -> SUBSET Client]
      /\ remoteIPs' \in [IP -> SUBSET Client]
      /\ sendClosed' \in [Client -> BOOLEAN]
      /\ ~Registered(c)'
      /\ \A d \in Client : Registered(d)' => Registered(d)
      /\ IndexesAgree' /\ ClosedIffUnregistered'
      /\ reader' = reader => Lifecycle'
  BY <1>1, <1>2, <1>4, UnregisterInv
<1>6. TypeOK'
  BY <1>1, <1>2, <1>3, <1>5 DEF TypeOK
<1>7. CallProgress' /\ CloseProgress'
  BY <1>1, <1>2, <1>3, <1>5 DEF CallProgress, CloseProgress, TypeOK
<1>. QED  BY <1>1, <1>5, <1>6, <1>7 DEF IInv

\* clientCountLocked counts exactly the registered sockets.
LEMMA ConnectedRegistered ==
  ASSUME IInv
  PROVE  Connected \subseteq Client /\ \A d \in Client : d \in Connected <=> Registered(d)
<1>1. TypeOK /\ IndexesAgree
  BY DEF IInv
<1>2. \A d \in Connected : d \in Client /\ Registered(d)
  <2>1. SUFFICES ASSUME NEW d \in Connected PROVE d \in Client /\ Registered(d)
    OBVIOUS
  <2>2. CASE d \in UNION {groups[g] : g \in Group}
    <3>1. PICK g \in Group : d \in groups[g]
      BY <2>2
    <3>. QED  BY <1>1, <3>1 DEF TypeOK, IndexesAgree
  <2>3. CASE d \in UNION {users[u] : u \in User}
    <3>1. PICK u \in User : d \in users[u]
      BY <2>3
    <3>. QED  BY <1>1, <3>1 DEF TypeOK, IndexesAgree, Registered
  <2>. QED  BY <2>2, <2>3 DEF Connected
<1>3. ASSUME NEW d \in Client, Registered(d) PROVE d \in Connected
  <2>1. UserOf[d] \in User /\ d \in users[UserOf[d]]
    BY <1>3, SocketsAssumption DEF Registered
  <2>2. d \in UNION {users[u] : u \in User}
    BY <2>1
  <2>. QED  BY <2>2 DEF Connected
<1>. QED  BY <1>2, <1>3

\* What a snapshot of a target holds.
LEMMA AudienceRegistered ==
  ASSUME IInv, NEW t \in Target
  PROVE  Audience(t) \subseteq Client /\ \A d \in Audience(t) : Registered(d)
<1>1. TypeOK /\ IndexesAgree
  BY DEF IInv
<1>2. CASE t \in Group
  BY <1>1, <1>2 DEF Audience, TypeOK, IndexesAgree
<1>3. CASE t \notin Group
  <2>1. t \in User
    BY <1>3 DEF Target
  <2>. QED  BY <1>1, <1>3, <2>1 DEF Audience, TypeOK, IndexesAgree, Registered
<1>. QED  BY <1>2, <1>3

LEMMA SnapshotInv ==
  ASSUME IInv, NEW p \in Post, Snapshot(p)
  PROVE  IInv'
<1>1. UNCHANGED <<groups, users, remoteIPs, send, sendClosed, conn, handler, reader,
                  writer, got, failed, drain, closing, closedAll>>
  BY DEF Snapshot, indexes, pumps, calls, shutdown
<1>2. /\ route[p] # <<>>
      /\ route' = [route EXCEPT ![p] = Tail(@)]
      /\ todo' = [todo EXCEPT ![p] = Audience(Head(route[p]))]
      /\ owed' = [owed EXCEPT ![p] = @ \cup Audience(Head(route[p]))]
  BY DEF Snapshot
<1>3. TypeOK /\ ClosedIffUnregistered /\ Lifecycle /\ CallProgress /\ CloseProgress
  BY DEF IInv
<1>4. IndexesAgree' /\ \A d \in Client : Registered(d)' <=> Registered(d)
  BY <1>1, SameRegistry DEF IInv
<1>5. /\ Tail(route[p]) \in Seq(Target)
      /\ Audience(Head(route[p])) \subseteq Client
      /\ \A d \in Audience(Head(route[p])) : Registered(d)
  <2>1. route[p] \in Seq(Target)
    BY <1>3 DEF TypeOK
  <2>2. Head(route[p]) \in Target /\ Tail(route[p]) \in Seq(Target)
    BY <1>2, <2>1
  <2>. QED  BY <2>2, AudienceRegistered
<1>6. TypeOK'
  <2>1. route' \in [Post -> Seq(Target)]
    BY <1>2, <1>3, <1>5 DEF TypeOK
  <2>2. todo' \in [Post -> SUBSET Client] /\ owed' \in [Post -> SUBSET Client]
    BY <1>2, <1>3, <1>5 DEF TypeOK
  <2>. QED  BY <1>1, <1>3, <2>1, <2>2 DEF TypeOK
<1>7. ClosedIffUnregistered' /\ Lifecycle'
  BY <1>1, <1>2, <1>3, <1>4, <1>5 DEF ClosedIffUnregistered, Lifecycle, TypeOK
<1>8. CallProgress'
  BY <1>1, <1>2, <1>3, <1>4, <1>5 DEF CallProgress, TypeOK
<1>9. CloseProgress'
  BY <1>1, <1>2, <1>3, <1>4, <1>5 DEF CloseProgress, TypeOK
<1>. QED  BY <1>4, <1>6, <1>7, <1>8, <1>9 DEF IInv

LEMMA SkipUsersInv ==
  ASSUME IInv, NEW p \in Post, SkipUsers(p)
  PROVE  IInv'
<1>1. UNCHANGED <<groups, users, remoteIPs, send, sendClosed, conn, handler, reader,
                  writer, got, todo, failed, owed, drain, closing, closedAll>>
  BY DEF SkipUsers, indexes, pumps, calls, shutdown
<1>2. route' = [route EXCEPT ![p] = <<>>]
  BY DEF SkipUsers
<1>3. TypeOK /\ ClosedIffUnregistered /\ Lifecycle /\ CallProgress /\ CloseProgress
  BY DEF IInv
<1>4. IndexesAgree' /\ \A d \in Client : Registered(d)' <=> Registered(d)
  BY <1>1, SameRegistry DEF IInv
<1>6. TypeOK'
  <2>1. route' \in [Post -> Seq(Target)]
    BY <1>2, <1>3 DEF TypeOK
  <2>. QED  BY <1>1, <1>3, <2>1 DEF TypeOK
<1>7. ClosedIffUnregistered' /\ Lifecycle'
  BY <1>1, <1>2, <1>3, <1>4 DEF ClosedIffUnregistered, Lifecycle, TypeOK
<1>8. CallProgress'
  BY <1>1, <1>2, <1>3, <1>4 DEF CallProgress, TypeOK
<1>9. CloseProgress'
  BY <1>1, <1>2, <1>3, <1>4 DEF CloseProgress, TypeOK
<1>. QED  BY <1>4, <1>6, <1>7, <1>8, <1>9 DEF IInv

LEMMA DeliverInv ==
  ASSUME IInv, NEW p \in Post, NEW c \in Client, Deliver(p, c)
  PROVE  IInv'
<1>1. UNCHANGED <<groups, users, remoteIPs, sendClosed, conn, handler, reader, writer, got,
                  route, owed, drain, closing, closedAll>>
  BY DEF Deliver, indexes, pumps, calls, shutdown
<1>2. /\ c \in todo[p]
      /\ todo' = [todo EXCEPT ![p] = @ \ {c}]
      /\ \/ send' = [send EXCEPT ![c] = Append(@, p)] /\ failed' = failed
         \/ send' = send /\ failed' = [failed EXCEPT ![p] = c]
  BY DEF Deliver, SendEvent
<1>3. TypeOK /\ ClosedIffUnregistered /\ Lifecycle /\ CallProgress /\ CloseProgress
  BY DEF IInv
<1>4. IndexesAgree' /\ \A d \in Client : Registered(d)' <=> Registered(d)
  BY <1>1, SameRegistry DEF IInv
<1>6. TypeOK'
  <2>1. send' \in [Client -> Seq(Event)]
    <3>1. send[c] \in Seq(Event) /\ p \in Event
      BY <1>3 DEF TypeOK, Event
    <3>2. Append(send[c], p) \in Seq(Event)
      BY <3>1
    <3>. QED  BY <1>2, <1>3, <3>2 DEF TypeOK
  <2>2. todo' \in [Post -> SUBSET Client] /\ failed' \in [Post -> Client \cup {None}]
    BY <1>2, <1>3 DEF TypeOK
  <2>. QED  BY <1>1, <1>3, <2>1, <2>2 DEF TypeOK
<1>7. ClosedIffUnregistered' /\ Lifecycle'
  BY <1>1, <1>2, <1>3, <1>4 DEF ClosedIffUnregistered, Lifecycle, TypeOK
<1>8. CallProgress'
  BY <1>1, <1>2, <1>3, <1>4 DEF CallProgress, TypeOK
<1>9. CloseProgress'
  BY <1>1, <1>2, <1>3, <1>4 DEF CloseProgress, TypeOK
<1>. QED  BY <1>4, <1>6, <1>7, <1>8, <1>9 DEF IInv

LEMMA BeginDrainInv ==
  ASSUME IInv, BeginDrain
  PROVE  IInv'
<1>1. UNCHANGED <<groups, users, remoteIPs, send, sendClosed, conn, handler, reader,
                  writer, got, route, todo, failed, owed, closing, closedAll>>
  BY DEF BeginDrain, indexes, pumps, calls, shutdown
<1>2. drain = "off" /\ drain' = "waiting"
  BY DEF BeginDrain
<1>3. TypeOK /\ ClosedIffUnregistered /\ Lifecycle /\ CallProgress /\ CloseProgress
  BY DEF IInv
<1>4. IndexesAgree' /\ \A d \in Client : Registered(d)' <=> Registered(d)
  BY <1>1, SameRegistry DEF IInv
<1>6. TypeOK'
  BY <1>1, <1>2, <1>3 DEF TypeOK
<1>7. ClosedIffUnregistered' /\ Lifecycle'
  BY <1>1, <1>2, <1>3, <1>4 DEF ClosedIffUnregistered, Lifecycle, TypeOK
<1>8. CallProgress'
  BY <1>1, <1>2, <1>3, <1>4 DEF CallProgress, TypeOK
<1>9. CloseProgress'
  BY <1>1, <1>2, <1>3, <1>4 DEF CloseProgress, TypeOK
<1>. QED  BY <1>4, <1>6, <1>7, <1>8, <1>9 DEF IInv

LEMMA CollectAllInv ==
  ASSUME IInv, CollectAll
  PROVE  IInv'
<1>1. UNCHANGED <<groups, users, remoteIPs, send, sendClosed, conn, handler, reader,
                  writer, got, route, todo, failed, owed>>
  BY DEF CollectAll, indexes, pumps, calls, shutdown
<1>2. /\ drain = "waiting" /\ drain' = "closing"
      /\ closing' = Connected /\ closedAll' = Connected
  BY DEF CollectAll
<1>3. TypeOK /\ ClosedIffUnregistered /\ Lifecycle /\ CallProgress /\ CloseProgress
  BY DEF IInv
<1>4. IndexesAgree' /\ \A d \in Client : Registered(d)' <=> Registered(d)
  BY <1>1, SameRegistry DEF IInv
<1>5. Connected \subseteq Client /\ \A d \in Connected : Registered(d)
  BY ConnectedRegistered
<1>6. TypeOK'
  BY <1>1, <1>2, <1>3, <1>5 DEF TypeOK
<1>7. ClosedIffUnregistered' /\ Lifecycle'
  BY <1>1, <1>2, <1>3, <1>4, <1>5 DEF ClosedIffUnregistered, Lifecycle, TypeOK
<1>8. CallProgress'
  BY <1>1, <1>2, <1>3, <1>4, <1>5 DEF CallProgress, TypeOK
<1>9. CloseProgress'
  BY <1>1, <1>2, <1>3, <1>4, <1>5 DEF CloseProgress, TypeOK
<1>. QED  BY <1>4, <1>6, <1>7, <1>8, <1>9 DEF IInv

LEMMA EndDrainInv ==
  ASSUME IInv, EndDrain
  PROVE  IInv'
<1>1. UNCHANGED <<groups, users, remoteIPs, send, sendClosed, conn, handler, reader,
                  writer, got, route, todo, failed, owed, closing, closedAll>>
  BY DEF EndDrain, indexes, pumps, calls, shutdown
<1>2. drain = "closing" /\ closing = {} /\ drain' = "done"
  BY DEF EndDrain
<1>3. TypeOK /\ ClosedIffUnregistered /\ Lifecycle /\ CallProgress /\ CloseProgress
  BY DEF IInv
<1>4. IndexesAgree' /\ \A d \in Client : Registered(d)' <=> Registered(d)
  BY <1>1, SameRegistry DEF IInv
<1>6. TypeOK'
  BY <1>1, <1>2, <1>3 DEF TypeOK
<1>7. ClosedIffUnregistered' /\ Lifecycle'
  BY <1>1, <1>2, <1>3, <1>4 DEF ClosedIffUnregistered, Lifecycle, TypeOK
<1>8. CallProgress'
  BY <1>1, <1>2, <1>3, <1>4 DEF CallProgress, TypeOK
<1>9. CloseProgress'
  BY <1>1, <1>2, <1>3, <1>4 DEF CloseProgress, TypeOK
<1>. QED  BY <1>4, <1>6, <1>7, <1>8, <1>9 DEF IInv

LEMMA StepInv == IInv /\ [Next]_vars => IInv'
<1> SUFFICES ASSUME IInv, [Next]_vars PROVE IInv'
  OBVIOUS
<1>1. ASSUME NEW c \in Client, Handler(c) PROVE IInv'
  BY <1>1, RegisterInv, RejectAtLimitInv, QueueReadyInv, PanicOnClosedInv DEF Handler
<1>2. ASSUME NEW c \in Client, ReadPump(c) PROVE IInv'
  BY <1>2, AnswerMessageInv, DropReaderInv, ReadFailsInv, ReaderUnregistersInv, ReaderClosesInv
  DEF ReadPump
<1>3. ASSUME NEW c \in Client, WritePump(c) PROVE IInv'
  BY <1>3, WriteFrameInv, WriteFailsInv, WriteCloseInv DEF WritePump
<1>4. ASSUME NEW c \in Client, PeerLeaves(c) PROVE IInv'
  BY <1>4, PeerLeavesInv
<1>5. ASSUME NEW p \in Post, Publish(p) PROVE IInv'
  BY <1>5, SnapshotInv, SkipUsersInv, DropFailedInv, DeliverInv DEF Publish
<1>6. ASSUME Drain PROVE IInv'
  BY <1>6, BeginDrainInv, CollectAllInv, EndDrainInv, CloseOneInv DEF Drain
<1>7. CASE UNCHANGED vars
  <2>1. UNCHANGED <<groups, users, remoteIPs, send, sendClosed, conn, handler, reader, writer,
                    got, route, todo, failed, owed, drain, closing, closedAll>>
    BY <1>7 DEF vars
  <2>2. TypeOK' /\ ClosedIffUnregistered' /\ Lifecycle'
    BY <2>1 DEF IInv, TypeOK, ClosedIffUnregistered, Lifecycle, Registered
  <2>. QED  BY <2>1, <2>2, SameRecords DEF IInv
<1>. QED  BY <1>1, <1>2, <1>3, <1>4, <1>5, <1>6, <1>7 DEF Next

----------------------------------------------------------------------------
(* The theorems.                                                           *)

LEMMA Inductive == Spec => []IInv
  BY InitInv, StepInv, PTL DEF Spec

\* Every variable of the hub keeps its type.
THEOREM TypeCorrect == Spec => []TypeOK
<1>1. IInv => TypeOK
  BY DEF IInv
<1>. QED  BY <1>1, Inductive, PTL

\* The maps of the registry always hold the same sockets.
THEOREM RegistryConsistent == Spec => []IndexesAgree
<1>1. IInv => IndexesAgree
  BY DEF IInv
<1>. QED  BY <1>1, Inductive, PTL

\* A channel is closed exactly when its socket is out of the registry, so no
\* delivery that finds a socket in the registry can meet a closed channel.
THEOREM ClosedExactlyWhenOut == Spec => []ClosedIffUnregistered
<1>1. IInv => ClosedIffUnregistered
  BY DEF IInv
<1>. QED  BY <1>1, Inductive, PTL

\* Sockets that ended hold no slot of the connection limits.
THEOREM NoSlotLeak == Spec => []DeadHoldNoSlot
<1>1. ASSUME IInv PROVE DeadHoldNoSlot
  <2>1. \A c \in Client : (handler[c] \in {"rejected", "panicked"}
                            \/ reader[c] \in {"closing", "done"}) => ~Registered(c)
    BY <1>1 DEF IInv, Lifecycle, ClosedIffUnregistered
  <2>2. \A c \in Client : ~Registered(c)
          => c \notin Connected \cup (UNION {remoteIPs[i] : i \in IP})
    <3>1. ASSUME NEW c \in Client, NEW i \in IP, c \in remoteIPs[i] PROVE Registered(c)
      BY <1>1, <3>1 DEF IInv, IndexesAgree
    <3>. QED  BY <1>1, <3>1, ConnectedRegistered
  <2>. QED  BY <2>1, <2>2 DEF DeadHoldNoSlot
<1>. QED  BY <1>1, Inductive, PTL

\* CloseAll leaves no socket connected that was connected when it began.
THEOREM CloseAllComplete == Spec => []SurvivorsCameLater
<1>1. ASSUME IInv PROVE SurvivorsCameLater
  <2>1. CloseProgress /\ IndexesAgree /\ TypeOK
    BY <1>1 DEF IInv
  <2>2. \A c \in Connected : c \in Client /\ Registered(c)
    BY <1>1, ConnectedRegistered
  <2>. QED  BY <2>1, <2>2 DEF SurvivorsCameLater, CloseProgress
<1>. QED  BY <1>1, Inductive, PTL

----------------------------------------------------------------------------
(* Events.                                                                 *)

\* The event of a call is in the channel of a client or on its wire.
Holds(p, c) == (\E i \in 1..Len(send[c]) : send[c][i] = p) \/ p \in got[c]

\* A step that neither settles a client nor takes a frame away loses nothing.
LEMMA LossKept ==
  ASSUME IInv, NoSilentLoss,
         \A p \in Post : owed'[p] \ todo'[p] \subseteq owed[p] \ todo[p],
         \A p \in Post : \A c \in owed[p] \ todo[p] :
           /\ Registered(c)' /\ conn'[c] = "open" => Registered(c) /\ conn[c] = "open"
           /\ Registered(c)' /\ failed'[p] # c => failed[p] # c
           /\ Registered(c)' /\ conn'[c] = "open" /\ Holds(p, c) => Holds(p, c)'
  PROVE  NoSilentLoss'
  BY DEF NoSilentLoss, Holds

\* An event queued leaves those queued before where they are.
LEMMA QueueKeeps ==
  ASSUME IInv, NEW c \in Client, NEW e \in Event, SendEvent(c, e), UNCHANGED got
  PROVE  /\ \A p \in Post, d \in Client : Holds(p, d) => Holds(p, d)'
         /\ e \in Post => Holds(e, c)'
<1>1. send \in [Client -> Seq(Event)]
  BY DEF IInv, TypeOK
<1>2. send' = [send EXCEPT ![c] = Append(send[c], e)]
  BY DEF SendEvent
<1>3. send'[c] = Append(send[c], e) /\ \A d \in Client \ {c} : send'[d] = send[d]
  BY <1>1, <1>2
<1>4. PICK s \in Seq(Event) : s = send[c]
  BY <1>1
<1>5. /\ Len(Append(s, e)) = Len(s) + 1 /\ Append(s, e)[Len(s) + 1] = e /\ Len(s) \in Nat
      /\ \A i \in 1..Len(s) : Append(s, e)[i] = s[i]
  OBVIOUS
<1>6. \A i \in 1..Len(s) : i \in 1..(Len(s) + 1)
  BY <1>5
<1> QED
  BY <1>3, <1>4, <1>5, <1>6 DEF Holds

\* The frame that leaves the channel is on the wire.
LEMMA WriteKeeps ==
  ASSUME IInv, NEW c \in Client, WriteFrame(c)
  PROVE  \A p \in Post, d \in Client : Holds(p, d) => Holds(p, d)'
<1>1. /\ send \in [Client -> Seq(Event)] /\ got \in [Client -> SUBSET Event] /\ send[c] # <<>>
  BY DEF IInv, TypeOK, WriteFrame
<1>2. /\ send'[c] = Tail(send[c]) /\ \A d \in Client \ {c} : send'[d] = send[d]
      /\ got'[c] = got[c] \cup ({Head(send[c])} \ {"reply"})
      /\ \A d \in Client \ {c} : got'[d] = got[d]
  BY <1>1 DEF WriteFrame, Take
<1>3. PICK s \in Seq(Event) : s = send[c] /\ s # <<>>
  BY <1>1
<1>4. /\ Len(Tail(s)) = Len(s) - 1 /\ Len(s) \in Nat /\ Head(s) = s[1]
      /\ \A i \in 1..(Len(s) - 1) : Tail(s)[i] = s[i + 1]
  BY <1>3
<1>5. ASSUME NEW p \in Post, Holds(p, c) PROVE Holds(p, c)'
  <2>1. CASE p \in got[c]
    BY <1>2, <2>1 DEF Holds
  <2>2. CASE p = s[1]
    BY <1>2, <1>3, <1>4, <2>2, SocketsAssumption DEF Holds
  <2>3. CASE \E i \in 2..Len(s) : s[i] = p
    <3>1. PICK i \in 2..Len(s) : s[i] = p
      BY <2>3
    <3>2. i - 1 \in 1..(Len(s) - 1) /\ Tail(s)[i - 1] = p
      BY <1>4, <3>1
    <3> QED
      BY <1>2, <1>3, <1>4, <3>2 DEF Holds
  <2>4. \A i \in 1..Len(s) : i = 1 \/ i \in 2..Len(s)
    BY <1>4
  <2> QED
    BY <1>3, <1>5, <2>1, <2>2, <2>3, <2>4 DEF Holds
<1>6. ASSUME NEW p \in Post, NEW d \in Client \ {c}, Holds(p, d) PROVE Holds(p, d)'
  BY <1>2, <1>6 DEF Holds
<1> QED
  BY <1>5, <1>6

\* Every step of a socket, of a publishing call and of the shutdown.
LEMMA LossStep == ASSUME IInv, NoSilentLoss, [Next]_vars PROVE NoSilentLoss'
<1> USE DEF calls, pumps, indexes, shutdown
<1>0. /\ owed \in [Post -> SUBSET Client] /\ todo \in [Post -> SUBSET Client]
      /\ conn \in [Client -> {"none", "open", "gone", "closed"}]
      /\ failed \in [Post -> Client \cup {None}]
  BY DEF IInv, TypeOK
<1>1. ASSUME NEW c \in Client, Unregister(c), UNCHANGED <<send, conn, got, failed, owed, todo>>
      PROVE  NoSilentLoss'
  BY <1>0, <1>1, LossKept, UnregisterEffect DEF Holds
<1>2. ASSUME UNCHANGED <<users, owed, todo, failed>>,
             \A c \in Client : conn'[c] = "open" => conn[c] = "open",
             \A p \in Post, c \in Client : conn'[c] = "open" /\ Holds(p, c) => Holds(p, c)'
      PROVE  NoSilentLoss'
  BY <1>0, <1>2, LossKept DEF Registered
<1>3. ASSUME NEW c \in Client, Handler(c) PROVE NoSilentLoss'
  <2>1. CASE Register(c)
    <3>1. \A p \in Post : c \notin owed[p]
      BY <2>1 DEF Register, IInv, Lifecycle
    <3>2. \A d \in Client \ {c} : (Registered(d)' <=> Registered(d)) /\ conn'[d] = conn[d]
      BY <1>0, <2>1, AddEffect DEF Register
    <3>3. UNCHANGED <<send, got, failed, owed, todo>>
      BY <2>1 DEF Register
    <3> QED
      BY <1>0, <3>1, <3>2, <3>3, LossKept DEF Holds
  <2>2. CASE RejectAtLimit(c) \/ PanicOnClosed(c)
    BY <1>0, <1>2, <2>2 DEF RejectAtLimit, PanicOnClosed, Holds
  <2>3. CASE QueueReady(c)
    BY <1>0, <1>2, <2>3, QueueKeeps DEF QueueReady, Event
  <2> QED
    BY <1>3, <2>1, <2>2, <2>3 DEF Handler
<1>4. ASSUME NEW c \in Client, ReadPump(c) PROVE NoSilentLoss'
  <2>1. CASE AnswerMessage(c)
    BY <1>0, <1>2, <2>1, QueueKeeps DEF AnswerMessage, Event
  <2>2. CASE DropReader(c) \/ ReadFails(c) \/ ReaderCloses(c)
    BY <1>0, <1>2, <2>2 DEF DropReader, ReadFails, ReaderCloses, Holds
  <2>3. CASE ReaderUnregisters(c)
    BY <1>1, <2>3 DEF ReaderUnregisters
  <2> QED
    BY <1>4, <2>1, <2>2, <2>3 DEF ReadPump
<1>5. ASSUME NEW c \in Client, WritePump(c) \/ PeerLeaves(c) PROVE NoSilentLoss'
  <2>1. CASE WriteFrame(c)
    BY <1>2, <2>1, WriteKeeps DEF WriteFrame
  <2>2. CASE WriteFails(c)
    <3>1. /\ UNCHANGED <<users, owed, todo, failed, got>>
          /\ conn' = [conn EXCEPT ![c] = "closed"]
          /\ \A d \in Client \ {c} : send'[d] = send[d]
      BY <2>2 DEF WriteFails, StopWriter, Take, IInv, TypeOK
    <3> QED
      BY <1>0, <1>2, <3>1 DEF Holds
  <2>3. CASE WriteClose(c) \/ PeerLeaves(c)
    BY <1>0, <1>2, <2>3 DEF WriteClose, StopWriter, PeerLeaves, Holds
  <2> QED
    BY <1>5, <2>1, <2>2, <2>3 DEF WritePump
<1>6. ASSUME NEW p \in Post, Publish(p) PROVE NoSilentLoss'
  <2>1. CASE Snapshot(p)
    <3>1. /\ \A q \in Post : owed'[q] \ todo'[q] \subseteq owed[q] \ todo[q]
          /\ UNCHANGED <<users, send, conn, got, failed>>
      BY <1>0, <2>1 DEF Snapshot, Idle
    <3> QED
      BY <3>1, LossKept DEF Holds, Registered
  <2>2. CASE SkipUsers(p)
    BY <1>0, <1>2, <2>2 DEF SkipUsers, Holds
  <2>3. ASSUME NEW c \in Client, Deliver(p, c) PROVE NoSilentLoss'
    <3>1. /\ c \in todo[p] /\ failed[p] = None /\ UNCHANGED <<users, conn, got, owed>>
          /\ todo'[p] = todo[p] \ {c} /\ \A q \in Post \ {p} : todo'[q] = todo[q]
      BY <1>0, <2>3 DEF Deliver
    <3>2. /\ \A q \in Post, d \in Client : Holds(q, d) => Holds(q, d)'
          /\ Holds(p, c)' \/ failed'[p] = c
          /\ \A q \in Post \ {p} : failed'[q] = failed[q]
      <4>1. CASE SendEvent(c, p) /\ UNCHANGED failed
        BY <3>1, <4>1, QueueKeeps DEF Event
      <4>2. CASE failed' = [failed EXCEPT ![p] = c] /\ UNCHANGED send
        BY <1>0, <3>1, <4>2 DEF Holds
      <4> QED
        BY <2>3, <4>1, <4>2 DEF Deliver
    <3>3. ASSUME NEW q \in Post, NEW d \in owed'[q] \ todo'[q],
                 Registered(d)', conn'[d] = "open", failed'[q] # d
          PROVE  Holds(q, d)'
      <4>1. CASE q = p /\ d = c
        BY <3>2, <3>3, <4>1
      <4>2. CASE ~(q = p /\ d = c)
        <5>1. d \in owed[q] \ todo[q] /\ d \in Client
          BY <1>0, <3>1, <3>3, <4>2
        <5>2. Registered(d) /\ conn[d] = "open" /\ failed[q] # d
          BY <3>1, <3>2, <3>3, <5>1, SocketsAssumption DEF Registered
        <5>3. Holds(q, d)
          BY <5>1, <5>2 DEF NoSilentLoss, Holds
        <5> QED
          BY <3>2, <5>1, <5>3
      <4> QED
        BY <4>1, <4>2
    <3> QED
      BY <3>3 DEF NoSilentLoss, Holds
  <2>4. CASE DropFailed(p)
    <3>1. PICK c \in Client : c = failed[p] /\ Unregister(c)
      BY <1>0, <2>4 DEF DropFailed
    <3>2. /\ \A q \in Post \ {p} : failed'[q] = failed[q]
          /\ UNCHANGED <<send, conn, got, owed, todo>>
      BY <1>0, <2>4 DEF DropFailed
    <3>3. ~Registered(c)' /\ \A d \in Client \ {c} : Registered(d)' <=> Registered(d)
      BY <3>1, UnregisterEffect
    <3>4. \A q \in Post : \A d \in owed[q] \ todo[q] :
            /\ Registered(d)' => Registered(d)
            /\ Registered(d)' /\ failed'[q] # d => failed[q] # d
      BY <1>0, <3>1, <3>2, <3>3
    <3> QED
      BY <3>2, <3>4, LossKept DEF Holds
  <2> QED
    BY <1>6, <2>1, <2>2, <2>3, <2>4 DEF Publish
<1>7. CASE Drain
  <2>1. CASE BeginDrain \/ CollectAll \/ EndDrain
    BY <1>0, <1>2, <2>1 DEF BeginDrain, CollectAll, EndDrain, Holds
  <2>2. ASSUME NEW c \in Client, CloseOne(c) PROVE NoSilentLoss'
    BY <1>1, <2>2 DEF CloseOne
  <2> QED
    BY <1>7, <2>1, <2>2 DEF Drain
<1>8. CASE UNCHANGED vars
  BY <1>0, <1>2, <1>8 DEF vars, Holds
<1> QED
  BY <1>3, <1>4, <1>5, <1>6, <1>7, <1>8 DEF Next

\* No event is dropped while its client stays connected.
THEOREM NothingDroppedSilently == Spec => []NoSilentLoss
<1>1. Init => NoSilentLoss
  BY DEF Init, NoSilentLoss
<1>2. IInv /\ NoSilentLoss /\ [Next]_vars => NoSilentLoss'
  BY LossStep
<1>. QED  BY <1>1, <1>2, Inductive, PTL DEF Spec

----------------------------------------------------------------------------
(* The refinement of Mailboxes.                                            *)

\* The users' map alone tells who is connected.
LEMMA UsersMapSuffices ==
  ASSUME NEW G \in [Group -> SUBSET Client], NEW U \in [User -> SUBSET Client],
         \A d \in Client, g \in Group : d \in G[g] => d \in U[UserOf[d]],
         \A d \in Client, u \in User : d \in U[u] => u = UserOf[d]
  PROVE  (UNION {G[g] : g \in Group}) \cup (UNION {U[u] : u \in User})
           = {d \in Client : d \in U[UserOf[d]]}
<1>1. \A d \in Client : UserOf[d] \in User
  BY SocketsAssumption
<1>. QED  BY <1>1

LEMMA WhoIsConnected ==
  ASSUME IInv PROVE Connected = {d \in Client : Registered(d)}
<1>1. groups \in [Group -> SUBSET Client] /\ users \in [User -> SUBSET Client]
  BY DEF IInv, TypeOK
<1>2. /\ \A d \in Client, g \in Group : d \in groups[g] => d \in users[UserOf[d]]
      /\ \A d \in Client, u \in User : d \in users[u] => u = UserOf[d]
  BY DEF IInv, IndexesAgree, Registered
<1>3. (UNION {groups[g] : g \in Group}) \cup (UNION {users[u] : u \in User})
        = {d \in Client : d \in users[UserOf[d]]}
  BY <1>1, <1>2, UsersMapSuffices
<1>. QED  BY <1>3 DEF Connected, Registered

LEMMA WhoIsConnectedNext ==
  ASSUME IInv' PROVE Connected' = {d \in Client : Registered(d)'}
<1>1. groups' \in [Group -> SUBSET Client] /\ users' \in [User -> SUBSET Client]
  BY DEF IInv, TypeOK
<1>2. /\ \A d \in Client, g \in Group : d \in groups'[g] => d \in users'[UserOf[d]]
      /\ \A d \in Client, u \in User : d \in users'[u] => u = UserOf[d]
  BY DEF IInv, IndexesAgree, Registered
<1>3. (UNION {groups'[g] : g \in Group}) \cup (UNION {users'[u] : u \in User})
        = {d \in Client : d \in users'[UserOf[d]]}
  BY <1>1, <1>2, UsersMapSuffices
<1>. QED  BY <1>3 DEF Connected, Registered

\* A smaller crowd is a crowd, and so is one that a client with room has joined.
LEMMA CrowdShrinks == ASSUME NEW S \in Crowds, NEW T, T \subseteq S PROVE T \in Crowds
<1>1. S \subseteq Client /\ IsFiniteSet(S)
  BY SocketsAssumption, FS_Subset DEF Crowds
<1>2. ASSUME NEW A, NEW B, A \subseteq B, B \subseteq S, NEW n \in Nat, Cardinality(B) <= n
      PROVE  Cardinality(A) <= n
  <2>1. IsFiniteSet(B)
    BY <1>1, <1>2, FS_Subset
  <2>. QED  BY <1>2, <2>1, FS_Subset, FS_CardinalityType
<1>3. Cardinality(T) <= MaxTotal
  BY <1>2, LimitsAssumption DEF Crowds
<1>4. ASSUME NEW u \in User PROVE Cardinality({c \in T : UserOf[c] = u}) <= MaxPerUser
  BY <1>2, LimitsAssumption DEF Crowds
<1>5. ASSUME NEW i \in IP PROVE Cardinality({c \in T : IPOf[c] = i}) <= MaxPerIP
  BY <1>2, LimitsAssumption DEF Crowds
<1>. QED  BY <1>1, <1>3, <1>4, <1>5 DEF Crowds

LEMMA OneMore ==
  ASSUME NEW S, S \subseteq Client, NEW c \in Client, NEW n \in Nat, Cardinality(S) < n
  PROVE  Cardinality(S \cup {c}) <= n
<1>1. IsFiniteSet(S)
  BY SocketsAssumption, FS_Subset
<1>. QED  BY <1>1, FS_AddElement, FS_CardinalityType

LEMMA CrowdGrows ==
  ASSUME IInv, Connected \in Crowds, NEW c \in Client, HasRoom(c)
  PROVE  Connected \cup {c} \in Crowds
<1>1. /\ Connected = {d \in Client : Registered(d)}
      /\ UserOf[c] \in User /\ IPOf[c] \in IP
  BY WhoIsConnected, SocketsAssumption
<1>2. users[UserOf[c]] = {d \in Connected : UserOf[d] = UserOf[c]}
  BY <1>1 DEF IInv, TypeOK, IndexesAgree, Registered
<1>3. remoteIPs[IPOf[c]] = {d \in Connected : IPOf[d] = IPOf[c]}
  BY <1>1 DEF IInv, TypeOK, IndexesAgree
<1>4. Cardinality(Connected \cup {c}) <= MaxTotal
  BY <1>1, OneMore, LimitsAssumption DEF HasRoom
<1>5. ASSUME NEW u \in User
      PROVE  Cardinality({d \in Connected \cup {c} : UserOf[d] = u}) <= MaxPerUser
  <2>1. CASE u = UserOf[c]
    <3>1. {d \in Connected \cup {c} : UserOf[d] = u} = users[UserOf[c]] \cup {c}
      BY <1>2, <2>1
    <3>. QED  BY <1>1, <1>2, <3>1, OneMore, LimitsAssumption DEF HasRoom
  <2>2. CASE u # UserOf[c]
    <3>1. {d \in Connected \cup {c} : UserOf[d] = u} = {d \in Connected : UserOf[d] = u}
      BY <2>2
    <3>. QED  BY <3>1 DEF Crowds
  <2>. QED  BY <2>1, <2>2
<1>6. ASSUME NEW i \in IP
      PROVE  Cardinality({d \in Connected \cup {c} : IPOf[d] = i}) <= MaxPerIP
  <2>1. CASE i = IPOf[c]
    <3>1. {d \in Connected \cup {c} : IPOf[d] = i} = remoteIPs[IPOf[c]] \cup {c}
      BY <1>3, <2>1
    <3>. QED  BY <1>1, <1>3, <3>1, OneMore, LimitsAssumption DEF HasRoom
  <2>2. CASE i # IPOf[c]
    <3>1. {d \in Connected \cup {c} : IPOf[d] = i} = {d \in Connected : IPOf[d] = i}
      BY <2>2
    <3>. QED  BY <3>1 DEF Crowds
  <2>. QED  BY <2>1, <2>2
<1>. QED  BY <1>1, <1>4, <1>5, <1>6 DEF Crowds

\* Registering connects.
LEMMA RegisterMail ==
  ASSUME IInv, IInv', Connected \in Crowds, NEW c \in Client, Register(c)
  PROVE  Mail!Next /\ Connected' \in Crowds
<1>1. /\ ~Registered(c) /\ ~sendClosed[c] /\ HasRoom(c) /\ AddToIndexes(c)
      /\ UNCHANGED <<send, sendClosed>>
  BY DEF IInv, Lifecycle, Register
<1>2. Registered(c)' /\ \A d \in Client \ {c} : Registered(d)' <=> Registered(d)
  BY <1>1, AddEffect
<1>3. Connected' = Connected \cup {c} /\ c \notin Connected
  BY <1>1, <1>2, WhoIsConnected, WhoIsConnectedNext
<1>4. Connected' \in Crowds
  BY <1>1, <1>3, CrowdGrows
<1>5. Mail!Connect(c)
  BY <1>1, <1>3, <1>4 DEF Mail!Connect
<1>. QED  BY <1>4, <1>5 DEF Mail!Next

\* Whoever unregisters a client makes it leave, the first time.
LEMMA UnregisterMail ==
  ASSUME IInv, IInv', Connected \in Crowds, NEW c \in Client, Unregister(c), UNCHANGED send
  PROVE  [Mail!Next]_(Mail!mvars) /\ Connected' \in Crowds
<1>1. /\ ~Registered(c)' /\ \A d \in Client \ {c} : Registered(d)' <=> Registered(d)
      /\ sendClosed'[c] <=> sendClosed[c] \/ Registered(c)
      /\ \A d \in Client \ {c} : sendClosed'[d] = sendClosed[d]
  BY UnregisterEffect
<1>2. Connected' = Connected \ {c} /\ (c \in Connected <=> Registered(c))
  BY <1>1, WhoIsConnected, WhoIsConnectedNext
<1>3. Connected' \in Crowds
  BY <1>2, CrowdShrinks
<1>4. CASE Registered(c)
  <2>1. {d \in Client : sendClosed'[d]} = {d \in Client : sendClosed[d]} \cup {c}
    BY <1>1, <1>4
  <2>2. Mail!Leave(c)
    BY <1>2, <1>4, <2>1 DEF Mail!Leave
  <2>. QED  BY <1>3, <2>2 DEF Mail!Next
<1>5. CASE ~Registered(c)
  <2>1. {d \in Client : sendClosed'[d]} = {d \in Client : sendClosed[d]}
    BY <1>1, <1>5
  <2>2. Connected' = Connected
    BY <1>2, <1>5
  <2>. QED  BY <1>3, <2>1, <2>2 DEF Mail!mvars
<1>. QED  BY <1>4, <1>5

\* Whoever puts an event into a channel that takes it finds its client connected.
LEMMA PutMail ==
  ASSUME IInv, NEW c \in Client, NEW e \in Event, handler[c] \notin {"idle", "rejected"},
         Accepts(c), SendEvent(c, e), UNCHANGED <<groups, users, sendClosed>>
  PROVE  Mail!Next
<1>1. Registered(c)
  BY DEF IInv, TypeOK, ClosedIffUnregistered, Accepts
<1>2. c \in Connected /\ Connected' = Connected
  BY <1>1, WhoIsConnected DEF Connected
<1>3. Mail!Put(c, e)
  BY <1>2 DEF Mail!Put, Accepts, SendEvent
<1>. QED  BY <1>3 DEF Mail!Next

LEMMA StepMail ==
  ASSUME IInv, IInv', Connected \in Crowds, [Next]_vars
  PROVE  [Mail!Next]_(Mail!mvars) /\ Connected' \in Crowds
<1>1. ASSUME UNCHANGED <<groups, users>> PROVE Connected' = Connected
  BY <1>1 DEF Connected
<1>2. ASSUME UNCHANGED <<groups, users, send, sendClosed>>
      PROVE  [Mail!Next]_(Mail!mvars) /\ Connected' \in Crowds
  BY <1>1, <1>2 DEF Mail!mvars
<1>3. ASSUME NEW c \in Client, Register(c)
      PROVE  [Mail!Next]_(Mail!mvars) /\ Connected' \in Crowds
  BY <1>3, RegisterMail
<1>4. ASSUME NEW c \in Client, QueueReady(c) \/ AnswerMessage(c)
      PROVE  [Mail!Next]_(Mail!mvars) /\ Connected' \in Crowds
  <2>1. PICK e \in Event :
          /\ Accepts(c) /\ SendEvent(c, e) /\ UNCHANGED <<groups, users, sendClosed>>
    BY <1>4 DEF QueueReady, AnswerMessage, Event, indexes
  <2>2. handler[c] \notin {"idle", "rejected"}
    BY <1>4 DEF QueueReady, AnswerMessage, IInv, Lifecycle
  <2>. QED  BY <1>1, <2>1, <2>2, PutMail
<1>5. ASSUME NEW p \in Post, NEW c \in Client, Deliver(p, c)
      PROVE  [Mail!Next]_(Mail!mvars) /\ Connected' \in Crowds
  <2>1. UNCHANGED <<groups, users, sendClosed>> /\ c \in todo[p]
    BY <1>5 DEF Deliver, indexes
  <2>2. handler[c] \notin {"idle", "rejected"}
    BY <2>1 DEF IInv, Lifecycle, CallProgress
  <2>3. CASE UNCHANGED send
    BY <1>2, <2>1, <2>3
  <2>4. CASE Accepts(c) /\ SendEvent(c, p)
    BY <1>1, <2>1, <2>2, <2>4, PutMail DEF Event
  <2>. QED  BY <1>5, <2>3, <2>4 DEF Deliver
<1>6. ASSUME NEW c \in Client, WriteFrame(c) \/ WriteFails(c)
      PROVE  [Mail!Next]_(Mail!mvars) /\ Connected' \in Crowds
  <2>1. /\ UNCHANGED <<groups, users, sendClosed>>
        /\ (send[c] # <<>> /\ Take(c)) \/ UNCHANGED send
    BY <1>6 DEF WriteFrame, WriteFails, indexes
  <2>2. CASE send[c] # <<>> /\ Take(c)
    <3>1. Mail!Take(c)
      BY <1>1, <2>1, <2>2 DEF Mail!Take, Take
    <3>. QED  BY <1>1, <2>1, <3>1 DEF Mail!Next
  <2>. QED  BY <1>2, <2>1, <2>2
<1>7. ASSUME NEW c \in Client, ReaderUnregisters(c) \/ CloseOne(c)
      PROVE  [Mail!Next]_(Mail!mvars) /\ Connected' \in Crowds
  BY <1>7, UnregisterMail DEF ReaderUnregisters, CloseOne
<1>8. ASSUME NEW p \in Post, DropFailed(p)
      PROVE  [Mail!Next]_(Mail!mvars) /\ Connected' \in Crowds
  <2>1. PICK c \in Client : c = failed[p] /\ Unregister(c)
    BY <1>8 DEF DropFailed, IInv, TypeOK
  <2>. QED  BY <1>8, <2>1, UnregisterMail DEF DropFailed
<1>9. ASSUME NEW c \in Client,
             \/ RejectAtLimit(c) \/ PanicOnClosed(c) \/ DropReader(c) \/ ReadFails(c)
             \/ ReaderCloses(c) \/ WriteClose(c) \/ PeerLeaves(c)
      PROVE  UNCHANGED <<groups, users, send, sendClosed>>
  BY <1>9 DEF RejectAtLimit, PanicOnClosed, DropReader, ReadFails, ReaderCloses, WriteClose,
              PeerLeaves, indexes
<1>10. ASSUME (\E p \in Post : Snapshot(p) \/ SkipUsers(p)) \/ BeginDrain \/ CollectAll \/ EndDrain
              \/ UNCHANGED vars
       PROVE  UNCHANGED <<groups, users, send, sendClosed>>
  BY <1>10 DEF Snapshot, SkipUsers, BeginDrain, CollectAll, EndDrain, indexes, vars
<1>. QED
  BY <1>2, <1>3, <1>4, <1>5, <1>6, <1>7, <1>8, <1>9, <1>10
  DEF Next, Handler, ReadPump, WritePump, Publish, Drain

\* The hub, with everyone who unregisters, delivers and closes, implements a
\* registry of mailboxes within its limits (Hub.Register, Hub.Unregister,
\* Client.sendEvent, Client.closeSend).
THEOREM HubKeepsMailboxes == Spec => MailboxesKept
<1>1. Init => Mail!Init /\ Connected \in Crowds
  <2> SUFFICES ASSUME Init PROVE Mail!Init /\ Connected \in Crowds
    OBVIOUS
  <2>1. Connected = {}
    BY DEF Init, Connected
  <2>2. {c \in Client : sendClosed[c]} = {}
    BY DEF Init
  <2>3. {} \in Crowds
    <3>1. Cardinality({}) = 0
      BY FS_EmptySet
    <3>2. ASSUME NEW u \in User PROVE {c \in {} : UserOf[c] = u} = {}
      OBVIOUS
    <3>3. ASSUME NEW i \in IP PROVE {c \in {} : IPOf[c] = i} = {}
      OBVIOUS
    <3>4. {} \in SUBSET Client
      OBVIOUS
    <3>5. 0 <= MaxTotal /\ 0 <= MaxPerUser /\ 0 <= MaxPerIP
      BY LimitsAssumption
    <3>6. \A u \in User : Cardinality({c \in {} : UserOf[c] = u}) <= MaxPerUser
      BY <3>1, <3>2, <3>5
    <3>7. \A i \in IP : Cardinality({c \in {} : IPOf[c] = i}) <= MaxPerIP
      BY <3>1, <3>3, <3>5
    <3>. QED  BY <3>1, <3>4, <3>5, <3>6, <3>7 DEF Crowds
  <2>4. send = [c \in Client |-> <<>>]
    BY DEF Init
  <2>. QED  BY <2>1, <2>2, <2>3, <2>4 DEF Mail!Init
<1>2. IInv /\ IInv' /\ Connected \in Crowds /\ [Next]_vars
        => [Mail!Next]_(Mail!mvars) /\ (Connected \in Crowds)'
  BY StepMail DEF Crowds
<1>. QED  BY <1>1, <1>2, Inductive, PTL DEF Spec, MailboxesKept, Mail!Spec
============================================================================
