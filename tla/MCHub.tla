------------------------------- MODULE MCHub -------------------------------
(* Small instances of the hub for TLC.  Three sockets, two of them of one user
   and two behind one address: a group socket and a user socket of u1, a group
   socket of u2.  p1 publishes to the group and then to u1, as
   broadcastGroupAndUsers does for an event of u2; p2 notifies u1 alone. *)
EXTENDS Hub

CONSTANTS c1, c2, c3, u1, u2, g1, ip1, ip2, p1, p2

MCUserOf == [c \in Client |-> IF c = c3 THEN u2 ELSE u1]
MCGroupOf == [c \in Client |-> IF c = c2 THEN None ELSE g1]
MCIPOf == [c \in Client |-> IF c = c1 THEN ip1 ELSE ip2]
MCRoute == [p \in Post |-> IF p = p1 THEN <<g1, u1>> ELSE <<u1>>]
============================================================================
