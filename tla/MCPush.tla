------------------------------- MODULE MCPush -------------------------------
(* A small instance of the push notices for TLC. *)
EXTENDS Push

CONSTANTS u1, u2, t1, t2, n1, n2

\* One device each.
Devices == {<<u1, t1>>, <<u2, t2>>}

\* One notice is for both accounts, the other one for the second.
Readers == [n \in Notice |-> IF n = n1 THEN User ELSE {u2}]

\* FCM refuses the first one's content for the second device.
Misfits == {<<n1, t2>>}
=============================================================================
