---------------------------- MODULE LoginSession ----------------------------
(***************************************************************************)
(* What the refresh tokens of a login promise: as long as it lasts it has  *)
(* one token, each renewal replaces that token by a new one, and once the  *)
(* login has none it never has one again.  RefreshSessions implements it.  *)
(* A login is named by its first token.                                    *)
(***************************************************************************)
CONSTANT Token

VARIABLES
  current,      \* the tokens of a login that are not revoked
  used          \* the tokens ever made

lvars == <<current, used>>

Init ==
  /\ current = [l \in Token |-> {}]
  /\ used = {}

Open(l) ==
  /\ l \notin used
  /\ current' = [current EXCEPT ![l] = {l}]
  /\ used' = used \cup {l}

Renew(l) ==
  \E old \in used, new \in Token \ used :
    /\ current[l] = {old}
    /\ current' = [current EXCEPT ![l] = {new}]
    /\ used' = used \cup {new}

Close(l) ==
  /\ \E old \in used : current[l] = {old}
  /\ current' = [current EXCEPT ![l] = {}]
  /\ UNCHANGED used

Next == \E l \in Token : Open(l) \/ Renew(l) \/ Close(l)

Spec == Init /\ [][Next]_lvars
=============================================================================
