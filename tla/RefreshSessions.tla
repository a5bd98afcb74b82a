-------------------------- MODULE RefreshSessions --------------------------
(***************************************************************************)
(* The refresh tokens of one user: a login stores the first one, Refresh   *)
(* rotates one into a successor, Logout revokes one                        *)
(* (internal/service/phone_auth_service.go, service.go, service_core.go    *)
(* and internal/storage/repository_sessions.go).                           *)
(*                                                                         *)
(* Grain.  A call reads the row of the token it was given and updates it   *)
(* later; any number of calls may hold the same token.  A rotation updates *)
(* the old row and inserts the new one in one transaction, whose row lock  *)
(* makes it one step.  Access tokens are signed, not stored, and are left  *)
(* out; secrets are never equal.                                           *)
(***************************************************************************)
EXTENDS Naturals

CONSTANTS
  Token,        \* rows of refresh_tokens, each with a secret of its own
  Refresher,    \* calls of Refresh
  Leaver,       \* calls of Logout
  None          \* no token

ASSUME TokenAssumption == None \notin Token /\ Refresher \cap Leaver = {}

Call == Refresher \cup Leaver

VARIABLES
  row,          \* "none", "live", "revoked" (revoked_at)
  expired,      \* rows whose expires_at has passed
  stage,        \* of a call: "idle", "read", "done", "refused", "failed"
  given,        \* the token a call was given
  parent,       \* history: the row a row was rotated from
  login         \* history: the first row of a chain of rotations

history == <<parent, login>>
sessionVars == <<row, expired, stage, given, parent, login>>

----------------------------------------------------------------------------
SessionInit ==
  /\ row = [t \in Token |-> "none"]
  /\ expired = {}
  /\ stage = [c \in Call |-> "idle"]
  /\ given = [c \in Call |-> None]
  /\ parent = [t \in Token |-> None]
  /\ login = [t \in Token |-> None]

Advance(c, s) == stage' = [stage EXCEPT ![c] = s]

\* issuePhoneSession, issueSession.
Login(t) ==
  /\ row[t] = "none"
  /\ row' = [row EXCEPT ![t] = "live"]
  /\ login' = [login EXCEPT ![t] = t]
  /\ UNCHANGED <<expired, stage, given, parent>>

Expire(t) ==
  /\ row[t] # "none"
  /\ expired' = expired \cup {t}
  /\ UNCHANGED <<row, stage, given, history>>

\* GetRefreshSession for Refresh; None stands for a secret that has no row.
ReadForRefresh(c) ==
  /\ stage[c] = "idle"
  /\ \E t \in Token \cup {None} :
       /\ t # None => row[t] # "none"
       /\ given' = [given EXCEPT ![c] = t]
       /\ IF t # None /\ row[t] = "live" /\ t \notin expired
            THEN Advance(c, "read") ELSE Advance(c, "refused")
  /\ UNCHANGED <<row, expired, history>>

\* Mutant of Rotate: the old row is updated whether or not it is revoked.
RotateAlways(c) ==
  /\ stage[c] = "read"
  /\ \E t \in Token :
       /\ row[t] = "none"
       /\ row' = [row EXCEPT ![given[c]] = "revoked", ![t] = "live"]
       /\ parent' = [parent EXCEPT ![t] = given[c]]
       /\ login' = [login EXCEPT ![t] = login[given[c]]]
  /\ Advance(c, "done")
  /\ UNCHANGED <<expired, given>>
\* Mutant of Rotate: the old row is left as it is.
RotateKeepsOld(c) ==
  /\ stage[c] = "read"
  /\ row[given[c]] = "live"
  /\ \E t \in Token :
       /\ row[t] = "none"
       /\ row' = [row EXCEPT ![t] = "live"]
       /\ parent' = [parent EXCEPT ![t] = given[c]]
       /\ login' = [login EXCEPT ![t] = login[given[c]]]
  /\ Advance(c, "done")
  /\ UNCHANGED <<expired, given>>

\* The commit may succeed although the caller gets an error or no answer.
Rotate(c) ==
  /\ stage[c] = "read"
  /\ row[given[c]] = "live"
  /\ \E t \in Token :
       /\ row[t] = "none"
       /\ row' = [row EXCEPT ![given[c]] = "revoked", ![t] = "live"]
       /\ parent' = [parent EXCEPT ![t] = given[c]]
       /\ login' = [login EXCEPT ![t] = login[given[c]]]
  /\ \E s \in {"done", "failed"} : Advance(c, s)
  /\ UNCHANGED <<expired, given>>

RotateRefused(c) ==
  /\ stage[c] = "read"
  /\ row[given[c]] # "live"
  /\ Advance(c, "refused")
  /\ UNCHANGED <<row, expired, given, history>>

\* A token without a row and a revoked one are answered as logged out.
ReadForLogout(c) ==
  /\ stage[c] = "idle"
  /\ \E t \in Token \cup {None} :
       /\ t # None => row[t] # "none"
       /\ given' = [given EXCEPT ![c] = t]
       /\ IF t # None /\ row[t] = "live" THEN Advance(c, "read") ELSE Advance(c, "done")
  /\ UNCHANGED <<row, expired, history>>

\* Mutant of Revoke: a row that expired meanwhile is left alone.
RevokeUnexpired(c) ==
  /\ stage[c] = "read"
  /\ row' = IF given[c] \in expired THEN row ELSE [row EXCEPT ![given[c]] = "revoked"]
  /\ Advance(c, "done")
  /\ UNCHANGED <<expired, given, history>>

Revoke(c) ==
  /\ stage[c] = "read"
  /\ row' = [row EXCEPT ![given[c]] = "revoked"]
  /\ Advance(c, "done")
  /\ UNCHANGED <<expired, given, history>>

\* A statement fails; nothing is written.
CallFails(c) ==
  /\ stage[c] = "read"
  /\ Advance(c, "failed")
  /\ UNCHANGED <<row, expired, given, history>>

Refresh(c) == ReadForRefresh(c) \/ Rotate(c) \/ RotateRefused(c) \/ CallFails(c)
Logout(c) == ReadForLogout(c) \/ Revoke(c) \/ CallFails(c)

SessionNext ==
  \/ \E t \in Token : Login(t) \/ Expire(t)
  \/ \E c \in Refresher : Refresh(c)
  \/ \E c \in Leaver : Logout(c)

SessionSpec == SessionInit /\ [][SessionNext]_sessionVars

----------------------------------------------------------------------------
SessionTypeOK ==
  /\ row \in [Token -> {"none", "live", "revoked"}]
  /\ expired \subseteq Token
  /\ stage \in [Call -> {"idle", "read", "done", "refused", "failed"}]
  /\ given \in [Call -> Token \cup {None}]
  /\ parent \in [Token -> Token \cup {None}]
  /\ login \in [Token -> Token \cup {None}]

\* However many calls race with one token, it is rotated into one successor
\* (repository_sessions.go:52-76).
OneSuccessor == \A t, u \in Token : parent[t] = parent[u] /\ parent[t] # None => t = u

\* At any time a login has at most one token that still works, through every
\* rotation, lost answer and logout (repository_sessions.go:21-76).
OneLivePerLogin ==
  \A t, u \in Token : row[t] = "live" /\ row[u] = "live" /\ login[t] = login[u] => t = u

\* Once a logout is answered, the token is revoked and no refresh that read it
\* before makes a successor of it (phone_auth_service.go:202-218).
LogoutStopsRotation ==
  [][\A t \in Token : parent'[t] # parent[t] =>
       \A c \in Leaver : stage[c] = "done" => given[c] # parent'[t]]_sessionVars

\* How LoginSession sees the rows; a token that has expired since it was read
\* may still be rotated, so expiry does not end a login.
Unrevoked(l) == {t \in Token : row[t] = "live" /\ login[t] = l}
Made == {t \in Token : row[t] # "none"}

Logins == INSTANCE LoginSession WITH
  current <- [l \in Token |-> Unrevoked(l)], used <- Made

\* Whatever refreshes and logouts race, a login has one token at a time, renewed
\* or ended in one step, and what was ended stays so (repository_sessions.go:21-76).
OneTokenAtATime == Logins!Spec

----------------------------------------------------------------------------
(* What makes the properties inductive (PhoneAuthProofs).                    *)

\* A row that was rotated is revoked; a row that does not exist has no past.
Chains ==
  \A t \in Token :
    /\ row[t] = "none" => parent[t] = None /\ login[t] = None
    /\ row[t] # "none" => login[t] # None /\ row[login[t]] # "none"
    /\ parent[t] # None => row[parent[t]] = "revoked"

\* What a call was given exists, and stays revoked once a logout is answered.
Calls ==
  \A c \in Call :
    /\ given[c] # None => row[given[c]] # "none"
    /\ stage[c] = "read" => given[c] # None
    /\ c \in Leaver /\ stage[c] = "done" /\ given[c] # None => row[given[c]] = "revoked"

SessionInv == SessionTypeOK /\ Chains /\ Calls /\ OneSuccessor /\ OneLivePerLogin
=============================================================================
