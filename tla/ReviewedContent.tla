-------------------------- MODULE ReviewedContent --------------------------
(***************************************************************************)
(* What the moderation queue promises: an item is decided once and in one  *)
(* step with what the decision does to the content it is about; content    *)
(* appears once, with its item if it has one, and what was taken away      *)
(* never comes back.  Moderation implements it, and so do the comments of  *)
(* PublicRequests.                                                         *)
(***************************************************************************)
CONSTANTS
  Item,
  About         \* the item whose content an item wants to change, or itself

VARIABLES
  verdict,      \* "none", "pending", "approved", "rejected"
  content,      \* "none", "live", "gone"
  published     \* items whose content is out

rvars == <<verdict, content, published>>

\* Some items wait from the beginning.
Init ==
  /\ verdict \in [Item -> {"none", "pending"}]
  /\ content = [i \in Item |-> "none"]
  /\ published = {}

New(i) == About[i] = i

Appear(i) == content[i] = "none" /\ content' = [content EXCEPT ![i] = "live"]

Decide(i, from, to) ==
  /\ verdict[i] = from
  /\ verdict' = [verdict EXCEPT ![i] = to]

\* Content that needs no review; an edit of it changes nothing here.
Pass(i) ==
  /\ verdict[i] = "none" /\ New(i)
  /\ Appear(i)
  /\ UNCHANGED <<verdict, published>>

Submit(i) ==
  /\ Decide(i, "none", "pending")
  /\ IF New(i) THEN Appear(i) ELSE content[About[i]] = "live" /\ UNCHANGED content
  /\ published' = published \cup {i}

\* What is blocked at once has never been out.
Block(i) ==
  /\ Decide(i, "none", "rejected")
  /\ i \notin published
  /\ UNCHANGED <<content, published>>

Approve(i) ==
  /\ Decide(i, "pending", "approved")
  /\ IF i \in published THEN UNCHANGED content ELSE Appear(i)
  /\ published' = published \cup {i}

Reject(i) ==
  /\ Decide(i, "pending", "rejected")
  /\ IF i \in published
       THEN /\ content[About[i]] = "live"
            /\ content' = [content EXCEPT ![About[i]] = "gone"]
       ELSE UNCHANGED content
  /\ UNCHANGED published

TakeAway(i) ==
  /\ content[i] = "live"
  /\ content' = [content EXCEPT ![i] = "gone"]
  /\ UNCHANGED <<verdict, published>>

Next ==
  \E i \in Item : Pass(i) \/ Submit(i) \/ Block(i) \/ Approve(i) \/ Reject(i) \/ TakeAway(i)

Spec == Init /\ [][Next]_rvars
=============================================================================
