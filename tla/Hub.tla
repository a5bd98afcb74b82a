-------------------------------- MODULE Hub --------------------------------
(***************************************************************************)
(* The realtime hub (internal/realtime/hub.go) with the goroutines that    *)
(* use it: the two WebSocket handlers of internal/httpapi/server.go, the   *)
(* read and the write pump of every socket, the HTTP handlers that         *)
(* broadcast an event, and the shutdown that drains the sockets.           *)
(*                                                                         *)
(* Grain.  The critical sections of Hub.mu are single steps.  sendEvent    *)
(* and closeSend exclude each other through Client.sendMu and never block, *)
(* so each is a step (or part of the critical section that calls it).      *)
(* The handler's own "client.Send <- ready" takes no lock at all.          *)
(* A deliver that fails unregisters the socket in a later step.            *)
(***************************************************************************)
EXTENDS Naturals, Sequences, FiniteSets

CONSTANTS
  Client,         \* upgraded sockets; a *Client is registered at most once
  User, Group, IP,
  None,           \* no group (a user socket), no client
  UserOf,         \* Client.UserID
  GroupOf,        \* Client.GroupID, None for /api/ws
  IPOf,           \* Client.RemoteIP
  Talker,         \* sockets whose peer sends messages (bounds the input)
  Post,           \* calls that publish one event
  Route,          \* the groups and users a call publishes to, in order
  SendBuffer,     \* sendBufferSize
  MaxTotal,       \* maxTotalConnections
  MaxPerUser,     \* maxConnectionsPerUser
  MaxPerIP        \* maxConnectionsPerIP

Target == Group \cup User
Event == Post \cup {"connection.ready", "reply"}

ASSUME SocketsAssumption ==
  /\ IsFiniteSet(Client) /\ Talker \subseteq Client
  /\ None \notin Client /\ None \notin Group
  /\ UserOf \in [Client -> User]
  /\ GroupOf \in [Client -> Group \cup {None}]
  /\ IPOf \in [Client -> IP]
  /\ Route \in [Post -> Seq(Target)]
  /\ Group \cap User = {}
  /\ Post \cap {"connection.ready", "reply"} = {}

ASSUME LimitsAssumption ==
  /\ SendBuffer \in Nat \ {0}
  /\ MaxTotal \in Nat /\ MaxPerUser \in Nat /\ MaxPerIP \in Nat

VARIABLES
  groups, users, remoteIPs,   \* the three indexes of Hub
  send, sendClosed,           \* the channel of each client and its flag
  conn,                       \* the connection: "none", "open", "closed" by this side,
                              \* or "gone": the peer no longer answers
  handler,                    \* "idle", "registered", "serving", "rejected", "panicked"
  reader,                     \* ReadPump: "off", "on", "leaving", "closing", "done"
  writer,                     \* WritePump: "off", "on", "done"
  got,                        \* history: events written to the socket, replies left out
  route, todo, failed,        \* per call: targets left, snapshot left, client to drop
  owed,                       \* history: every client of a snapshot of the call
  drain, closing,             \* Drain: stage, CloseAll's clients left
  closedAll                   \* history: clients connected when CloseAll began

indexes == <<groups, users, remoteIPs>>
pumps == <<handler, reader, writer>>
calls == <<route, todo, failed, owed>>
shutdown == <<drain, closing, closedAll>>
vars == <<groups, users, remoteIPs, send, sendClosed, conn, handler,
          reader, writer, got, route, todo, failed, owed,
          drain, closing, closedAll>>

----------------------------------------------------------------------------
(* The registry.                                                           *)

\* clientCountLocked: a client is counted once however many maps hold it.
Connected == (UNION {groups[g] : g \in Group}) \cup (UNION {users[u] : u \in User})

Registered(c) == c \in users[UserOf[c]]

HasRoom(c) ==
  /\ Cardinality(Connected) < MaxTotal
  /\ Cardinality(users[UserOf[c]]) < MaxPerUser
  /\ Cardinality(remoteIPs[IPOf[c]]) < MaxPerIP

AddToIndexes(c) ==
  /\ groups' = [g \in Group |-> IF g = GroupOf[c] THEN groups[g] \cup {c} ELSE groups[g]]
  /\ users' = [users EXCEPT ![UserOf[c]] = @ \cup {c}]
  /\ remoteIPs' = [remoteIPs EXCEPT ![IPOf[c]] = @ \cup {c}]

\* Mutants of Unregister: the address map is forgotten; only the branch of the
\* group map closes the channel.
UnregisterKeepsIP(c) ==
  /\ groups' = [g \in Group |-> IF g = GroupOf[c] THEN groups[g] \ {c} ELSE groups[g]]
  /\ users' = [users EXCEPT ![UserOf[c]] = @ \ {c}]
  /\ remoteIPs' = remoteIPs
  /\ sendClosed' = [sendClosed EXCEPT ![c] = @ \/ Registered(c)]
UnregisterClosesGroupOnly(c) ==
  /\ groups' = [g \in Group |-> IF g = GroupOf[c] THEN groups[g] \ {c} ELSE groups[g]]
  /\ users' = [users EXCEPT ![UserOf[c]] = @ \ {c}]
  /\ remoteIPs' = [remoteIPs EXCEPT ![IPOf[c]] = @ \ {c}]
  /\ sendClosed' = [sendClosed EXCEPT
       ![c] = @ \/ (GroupOf[c] # None /\ c \in groups[GroupOf[c]])]

\* closeSend runs only where the client is still found in its group or its user.
Unregister(c) ==
  /\ groups' = [g \in Group |-> IF g = GroupOf[c] THEN groups[g] \ {c} ELSE groups[g]]
  /\ users' = [users EXCEPT ![UserOf[c]] = @ \ {c}]
  /\ remoteIPs' = [remoteIPs EXCEPT ![IPOf[c]] = @ \ {c}]
  /\ sendClosed' = [sendClosed EXCEPT
       ![c] = @ \/ (GroupOf[c] # None /\ c \in groups[GroupOf[c]]) \/ Registered(c)]

Accepts(c) == ~sendClosed[c] /\ Len(send[c]) < SendBuffer

SendEvent(c, e) == send' = [send EXCEPT ![c] = Append(@, e)]

----------------------------------------------------------------------------
Init ==
  /\ groups = [g \in Group |-> {}]
  /\ users = [u \in User |-> {}]
  /\ remoteIPs = [i \in IP |-> {}]
  /\ send = [c \in Client |-> <<>>]
  /\ sendClosed = [c \in Client |-> FALSE]
  /\ conn = [c \in Client |-> "none"]
  /\ handler = [c \in Client |-> "idle"]
  /\ reader = [c \in Client |-> "off"]
  /\ writer = [c \in Client |-> "off"]
  /\ got = [c \in Client |-> {}]
  /\ route = Route
  /\ todo = [p \in Post |-> {}]
  /\ failed = [p \in Post |-> None]
  /\ owed = [p \in Post |-> {}]
  /\ drain = "off"
  /\ closing = {}
  /\ closedAll = {}

----------------------------------------------------------------------------
(* groupWebSocket and userWebSocket, after the upgrade.                    *)

Register(c) ==
  /\ handler[c] = "idle"
  /\ HasRoom(c)
  /\ AddToIndexes(c)
  /\ handler' = [handler EXCEPT ![c] = "registered"]
  /\ conn' = [conn EXCEPT ![c] = "open"]
  /\ UNCHANGED <<send, sendClosed, reader, writer, got, calls, shutdown>>

RejectAtLimit(c) ==
  /\ handler[c] = "idle"
  /\ ~HasRoom(c)
  /\ handler' = [handler EXCEPT ![c] = "rejected"]
  /\ conn' = [conn EXCEPT ![c] = "closed"]
  /\ UNCHANGED <<indexes, send, sendClosed, reader, writer, got, calls,
                 shutdown>>

\* The bare channel send blocks while the buffer is full.
QueueReady(c) ==
  /\ handler[c] = "registered"
  /\ Accepts(c)
  /\ SendEvent(c, "connection.ready")
  /\ handler' = [handler EXCEPT ![c] = "serving"]
  /\ writer' = [writer EXCEPT ![c] = "on"]
  /\ reader' = [reader EXCEPT ![c] = "on"]
  /\ UNCHANGED <<indexes, sendClosed, conn, got, calls, shutdown>>

\* ... and panics once the channel is closed; recoverer ends the handler and
\* nothing closes the hijacked connection.
PanicOnClosed(c) ==
  /\ handler[c] = "registered"
  /\ sendClosed[c]
  /\ handler' = [handler EXCEPT ![c] = "panicked"]
  /\ UNCHANGED <<indexes, send, sendClosed, conn, reader, writer, got,
                 calls, shutdown>>

----------------------------------------------------------------------------
(* ReadPump.                                                               *)

\* ping and a valid auth_refresh are answered if there is room; a lost answer, an
\* ack, a nack, an unknown type and bad JSON change nothing.
AnswerMessage(c) ==
  /\ c \in Talker /\ reader[c] = "on"
  /\ Accepts(c)
  /\ SendEvent(c, "reply")
  /\ UNCHANGED <<indexes, sendClosed, conn, handler, reader, writer, got, calls,
                 shutdown>>

\* One message too many in the minute, or an auth_refresh that is refused.
DropReader(c) ==
  /\ reader[c] = "on"
  /\ reader' = [reader EXCEPT ![c] = "leaving"]
  /\ UNCHANGED <<indexes, send, sendClosed, conn, handler, writer, got,
                 calls, shutdown>>

\* Mutant of ReadFails: no read deadline, a silent peer is never noticed.
ReadFailsWithoutDeadline(c) ==
  /\ reader[c] = "on"
  /\ conn[c] = "closed"
  /\ reader' = [reader EXCEPT ![c] = "leaving"]
  /\ UNCHANGED <<indexes, send, sendClosed, conn, handler, writer, got, calls, shutdown>>

\* ReadMessage fails on a closed connection and, at the latest after
\* pongWait, when the peer no longer answers.
ReadFails(c) ==
  /\ reader[c] = "on"
  /\ conn[c] \in {"closed", "gone"}
  /\ reader' = [reader EXCEPT ![c] = "leaving"]
  /\ UNCHANGED <<indexes, send, sendClosed, conn, handler, writer, got,
                 calls, shutdown>>

ReaderUnregisters(c) ==
  /\ reader[c] = "leaving"
  /\ Unregister(c)
  /\ reader' = [reader EXCEPT ![c] = "closing"]
  /\ UNCHANGED <<send, conn, handler, writer, got, calls, shutdown>>

ReaderCloses(c) ==
  /\ reader[c] = "closing"
  /\ reader' = [reader EXCEPT ![c] = "done"]
  /\ conn' = [conn EXCEPT ![c] = "closed"]
  /\ UNCHANGED <<indexes, send, sendClosed, handler, writer, got, calls,
                 shutdown>>

----------------------------------------------------------------------------
(* WritePump.                                                              *)

Take(c) == send' = [send EXCEPT ![c] = Tail(@)]

\* Mutant of StopWriter: the write pump returns without closing the connection.
StopWriterLeavesOpen(c) ==
  /\ writer' = [writer EXCEPT ![c] = "done"]
  /\ conn' = conn

StopWriter(c) ==
  /\ writer' = [writer EXCEPT ![c] = "done"]
  /\ conn' = [conn EXCEPT ![c] = "closed"]

WriteFrame(c) ==
  /\ writer[c] = "on"
  /\ conn[c] \in {"open", "gone"}
  /\ send[c] # <<>>
  /\ Take(c)
  /\ got' = [got EXCEPT ![c] = @ \cup ({Head(send[c])} \ {"reply"})]
  /\ UNCHANGED <<indexes, sendClosed, conn, pumps, calls, shutdown>>

\* A frame or a ping that fails (closed, peer gone or slower than writeWait)
\* ends the pump; the frame taken from the channel is lost.
WriteFails(c) ==
  /\ writer[c] = "on"
  /\ \/ send[c] # <<>> /\ Take(c)
     \/ UNCHANGED send
  /\ StopWriter(c)
  /\ UNCHANGED <<indexes, sendClosed, handler, reader, got, calls,
                 shutdown>>

\* The channel is closed and drained: a close frame ends the session.
WriteClose(c) ==
  /\ writer[c] = "on"
  /\ sendClosed[c] /\ send[c] = <<>>
  /\ StopWriter(c)
  /\ UNCHANGED <<indexes, send, sendClosed, handler, reader, got, calls,
                 shutdown>>

PeerLeaves(c) ==
  /\ conn[c] = "open"
  /\ conn' = [conn EXCEPT ![c] = "gone"]
  /\ UNCHANGED <<indexes, send, sendClosed, pumps, got, calls, shutdown>>

----------------------------------------------------------------------------
(* BroadcastGroup, NotifyUser and broadcastGroupAndUsers.                  *)

Audience(t) == IF t \in Group THEN groups[t] ELSE users[t]

Idle(p) == todo[p] = {} /\ failed[p] = None

Started(p) == route[p] # Route[p]

Snapshot(p) ==
  /\ Idle(p) /\ route[p] # <<>>
  /\ route' = [route EXCEPT ![p] = Tail(@)]
  /\ todo' = [todo EXCEPT ![p] = Audience(Head(route[p]))]
  /\ owed' = [owed EXCEPT ![p] = @ \cup Audience(Head(route[p]))]
  /\ UNCHANGED <<indexes, send, sendClosed, conn, pumps, got, failed, shutdown>>

\* The group got the event, but the members could not be listed.
SkipUsers(p) ==
  /\ Idle(p) /\ Started(p)
  /\ Route[p] # <<>> /\ Head(Route[p]) \in Group /\ route[p] = Tail(Route[p])
  /\ route[p] # <<>>
  /\ route' = [route EXCEPT ![p] = <<>>]
  /\ UNCHANGED <<indexes, send, sendClosed, conn, pumps, got, todo, failed, owed,
                 shutdown>>

\* Mutants of Deliver: a full buffer loses the event and nothing else happens; a
\* full buffer blocks the caller.
DeliverOrForget(p, c) ==
  /\ failed[p] = None /\ c \in todo[p]
  /\ todo' = [todo EXCEPT ![p] = @ \ {c}]
  /\ IF Accepts(c) THEN SendEvent(c, p) ELSE UNCHANGED send
  /\ UNCHANGED <<indexes, sendClosed, conn, pumps, got, route, failed, owed, shutdown>>
DeliverBlocking(p, c) ==
  /\ failed[p] = None /\ c \in todo[p]
  /\ todo' = [todo EXCEPT ![p] = @ \ {c}]
  /\ \/ Accepts(c) /\ SendEvent(c, p)
     \/ sendClosed[c] /\ UNCHANGED send
  /\ UNCHANGED <<indexes, sendClosed, conn, pumps, got, route, failed, owed, shutdown>>

Deliver(p, c) ==
  /\ failed[p] = None /\ c \in todo[p]
  /\ todo' = [todo EXCEPT ![p] = @ \ {c}]
  /\ \/ Accepts(c) /\ SendEvent(c, p) /\ UNCHANGED failed
     \/ ~Accepts(c) /\ failed' = [failed EXCEPT ![p] = c] /\ UNCHANGED send
  /\ UNCHANGED <<indexes, sendClosed, conn, pumps, got, route, owed, shutdown>>

DropFailed(p) ==
  /\ failed[p] # None
  /\ Unregister(failed[p])
  /\ failed' = [failed EXCEPT ![p] = None]
  /\ UNCHANGED <<send, conn, pumps, got, route, todo, owed, shutdown>>

----------------------------------------------------------------------------
(* Drain and CloseAll.                                                     *)

BeginDrain ==
  /\ drain = "off"
  /\ drain' = "waiting"
  /\ UNCHANGED <<indexes, send, sendClosed, conn, pumps, got, calls, closing,
                 closedAll>>

\* Mutant of CollectAll: only the group sockets are collected.
CollectGroups ==
  /\ drain = "waiting"
  /\ drain' = "closing"
  /\ closing' = UNION {groups[g] : g \in Group}
  /\ closedAll' = Connected
  /\ UNCHANGED <<indexes, send, sendClosed, conn, pumps, got, calls>>

\* Mutant of CollectAll: the deadline ends the drain and nobody is closed.
CollectNobody ==
  /\ drain = "waiting"
  /\ drain' = "closing"
  /\ closing' = {}
  /\ closedAll' = Connected
  /\ UNCHANGED <<indexes, send, sendClosed, conn, pumps, got, calls>>

\* No client is left, or the deadline has passed.
CollectAll ==
  /\ drain = "waiting"
  /\ drain' = "closing"
  /\ closing' = Connected
  /\ closedAll' = Connected
  /\ UNCHANGED <<indexes, send, sendClosed, conn, pumps, got, calls>>

CloseOne(c) ==
  /\ c \in closing
  /\ closing' = closing \ {c}
  /\ Unregister(c)
  /\ UNCHANGED <<send, conn, pumps, got, calls, drain, closedAll>>

EndDrain ==
  /\ drain = "closing" /\ closing = {}
  /\ drain' = "done"
  /\ UNCHANGED <<indexes, send, sendClosed, conn, pumps, got, calls, closing,
                 closedAll>>

----------------------------------------------------------------------------
Handler(c) == Register(c) \/ RejectAtLimit(c) \/ QueueReady(c) \/ PanicOnClosed(c)
ReadPump(c) == \/ AnswerMessage(c) \/ DropReader(c) \/ ReadFails(c)
               \/ ReaderUnregisters(c) \/ ReaderCloses(c)
WritePump(c) == WriteFrame(c) \/ WriteFails(c) \/ WriteClose(c)
Publish(p) == Snapshot(p) \/ SkipUsers(p) \/ DropFailed(p) \/ \E c \in Client : Deliver(p, c)
Drain == BeginDrain \/ CollectAll \/ EndDrain \/ \E c \in Client : CloseOne(c)

Next ==
  \/ \E c \in Client : Handler(c) \/ ReadPump(c) \/ WritePump(c) \/ PeerLeaves(c)
  \/ \E p \in Post : Publish(p)
  \/ Drain

Spec == Init /\ [][Next]_vars

\* Goroutines that can run do run; nothing makes clients connect, leave or
\* talk, and nothing makes a call publish or the process shut down.
Fairness ==
  /\ \A c \in Client :
       /\ WF_vars(QueueReady(c) \/ PanicOnClosed(c))
       /\ WF_vars(ReadFails(c))
       /\ WF_vars(ReaderUnregisters(c) \/ ReaderCloses(c))
       /\ WF_vars((send[c] # <<>> \/ sendClosed[c]) /\ WritePump(c))
  /\ \A p \in Post : WF_vars(Started(p) /\ Publish(p))
  /\ WF_vars(drain # "off" /\ Drain)

FairSpec == Spec /\ Fairness

----------------------------------------------------------------------------
TypeOK ==
  /\ groups \in [Group -> SUBSET Client]
  /\ users \in [User -> SUBSET Client]
  /\ remoteIPs \in [IP -> SUBSET Client]
  /\ send \in [Client -> Seq(Event)]
  /\ sendClosed \in [Client -> BOOLEAN]
  /\ conn \in [Client -> {"none", "open", "gone", "closed"}]
  /\ handler \in [Client -> {"idle", "registered", "serving", "rejected", "panicked"}]
  /\ reader \in [Client -> {"off", "on", "leaving", "closing", "done"}]
  /\ writer \in [Client -> {"off", "on", "done"}]
  /\ got \in [Client -> SUBSET Event]
  /\ route \in [Post -> Seq(Target)]
  /\ todo \in [Post -> SUBSET Client]
  /\ failed \in [Post -> Client \cup {None}]
  /\ owed \in [Post -> SUBSET Client]
  /\ drain \in {"off", "waiting", "closing", "done"}
  /\ closing \in SUBSET Client
  /\ closedAll \in SUBSET Client

\* The three maps hold the same sockets, each under its own keys only: Register
\* and Unregister touch all of them in one critical section (hub.go:65-134).
IndexesAgree ==
  \A c \in Client :
    /\ \A g \in Group : c \in groups[g] <=> Registered(c) /\ g = GroupOf[c]
    /\ \A u \in User : c \in users[u] => u = UserOf[c]
    /\ \A i \in IP : c \in remoteIPs[i] <=> Registered(c) /\ i = IPOf[c]

\* A socket that was let in is either in the registry with an open channel or out
\* of it with a closed one, whichever of the read pump, a failed delivery and
\* CloseAll unregistered it, and in whatever order (hub.go:99-134, 272-280).
ClosedIffUnregistered ==
  \A c \in Client :
    handler[c] \in {"registered", "serving", "panicked"} => (sendClosed[c] <=> ~Registered(c))

\* A socket whose handler gave up or whose read pump is past its Unregister holds
\* no slot of the per-user, per-IP and total limits (hub.go:283, server.go:534-538).
DeadHoldNoSlot ==
  \A c \in Client :
    (handler[c] \in {"rejected", "panicked"} \/ reader[c] \in {"closing", "done"})
      => c \notin Connected \cup (UNION {remoteIPs[i] : i \in IP})

\* An event is never dropped silently: once a call has dealt with a client of its
\* snapshot, the event is in the client's channel or on its wire, or the client is
\* being torn down (hub.go:160-167).
NoSilentLoss ==
  \A p \in Post : \A c \in owed[p] \ todo[p] :
    (Registered(c) /\ conn[c] = "open" /\ failed[p] # c)
      => \/ \E i \in 1..Len(send[c]) : send[c][i] = p
         \/ p \in got[c]

\* When CloseAll is through, whoever is still connected came after it took its copy
\* of the maps (hub.go:183-205).
SurvivorsCameLater == drain = "done" => closedAll \cap Connected = {}

\* Sets of clients within the three limits.
Crowds ==
  {S \in SUBSET Client :
     /\ Cardinality(S) <= MaxTotal
     /\ \A u \in User : Cardinality({c \in S : UserOf[c] = u}) <= MaxPerUser
     /\ \A i \in IP : Cardinality({c \in S : IPOf[c] = i}) <= MaxPerIP}

Mail == INSTANCE Mailboxes WITH
  Size <- SendBuffer, online <- Connected, gone <- {c \in Client : sendClosed[c]}, box <- send

\* Three maps, a flag, a channel and the goroutines that share them act as one
\* registry of mailboxes: within the limits, left in one step and for good, and
\* nothing is put into the channel of a client that has left (hub.go:65-134, 258-280).
MailboxesKept == Mail!Spec

\* A served socket whose peer is gone leaves the registry (hub.go:282-300).
DeadPeerUnregistered ==
  \A c \in Client : (conn[c] = "gone" /\ handler[c] = "serving") ~> ~Registered(c)

\* Once unregistered by anyone, a served socket winds down completely: both pumps
\* return and the connection is closed (hub.go:282-300, 383-409).
ClosedSocketWindsDown ==
  \A c \in Client :
    (sendClosed[c] /\ handler[c] = "serving")
      ~> (conn[c] = "closed" /\ reader[c] = "done" /\ writer[c] = "done")

\* A call that publishes is never held up by a client that does not read
\* (hub.go:258-270).
PublishEnds == \A p \in Post : Started(p) ~> (route[p] = <<>> /\ Idle(p))

\* Everyone connected when the drain begins is unregistered by it at the latest
\* (hub.go:169-205).
DrainReachesEveryone ==
  \A c \in Client : (drain = "waiting" /\ Registered(c)) ~> ~Registered(c)

----------------------------------------------------------------------------
(* What makes the invariants above inductive (HubProofs).                  *)

\* A socket enters the registry once, out of "idle", and every trace it leaves
\* elsewhere is later than that.
Lifecycle ==
  \A c \in Client :
    /\ handler[c] \in {"idle", "rejected"} => ~Registered(c) /\ ~sendClosed[c]
    /\ handler[c] = "panicked" => sendClosed[c]
    /\ handler[c] # "serving" => reader[c] = "off" /\ writer[c] = "off"
    /\ reader[c] \in {"closing", "done"} => ~Registered(c)
    /\ handler[c] \in {"idle", "rejected"} =>
         c \notin closedAll /\ \A p \in Post : c \notin owed[p]

\* A call deals only with clients of its snapshots.
CallProgress ==
  \A p \in Post : todo[p] \subseteq owed[p] /\ failed[p] \in owed[p] \cup {None}

\* CloseAll has unregistered whoever it is done with.
CloseProgress ==
  /\ drain \in {"off", "waiting"} => closedAll = {}
  /\ drain # "closing" => closing = {}
  /\ closing \subseteq closedAll
  /\ \A c \in closedAll \ closing : ~Registered(c)
============================================================================
