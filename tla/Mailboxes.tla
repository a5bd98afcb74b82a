----------------------------- MODULE Mailboxes -----------------------------
(***************************************************************************)
(* What a hub of connections promises: a client connects once, where there *)
(* is room; as long as it is connected its mailbox takes events, as many   *)
(* as fit; once it has left, which happens in one step whoever sends it    *)
(* away, its mailbox takes no more and what is in it may still be read, in *)
(* order.  Hub implements it.                                              *)
(***************************************************************************)
EXTENDS Naturals, Sequences

CONSTANTS
  Client, Event,
  Crowds,       \* sets of clients that may be connected together
  Size          \* events a mailbox holds

VARIABLES online, gone, box

mvars == <<online, gone, box>>

Init ==
  /\ online = {} /\ gone = {}
  /\ box = [c \in Client |-> <<>>]

Connect(c) ==
  /\ c \notin online \cup gone
  /\ online \cup {c} \in Crowds
  /\ online' = online \cup {c}
  /\ UNCHANGED <<gone, box>>

Put(c, e) ==
  /\ c \in online
  /\ Len(box[c]) < Size
  /\ box' = [box EXCEPT ![c] = Append(@, e)]
  /\ UNCHANGED <<online, gone>>

Take(c) ==
  /\ box[c] # <<>>
  /\ box' = [box EXCEPT ![c] = Tail(@)]
  /\ UNCHANGED <<online, gone>>

Leave(c) ==
  /\ c \in online
  /\ online' = online \ {c} /\ gone' = gone \cup {c}
  /\ UNCHANGED box

Next ==
  \E c \in Client :
    \/ Connect(c) \/ Take(c) \/ Leave(c)
    \/ \E e \in Event : Put(c, e)

Spec == Init /\ [][Next]_mvars
=============================================================================
