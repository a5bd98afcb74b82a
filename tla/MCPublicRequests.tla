-------------------------- MODULE MCPublicRequests --------------------------
(* Small instances of the public requests for TLC. *)
EXTENDS PublicRequests, TLC

CONSTANTS o, u, w, c1, c2, c3

Ask(operation, user, target) == [op |-> operation, by |-> user, on |-> target]
Mix(x, y, z) == c1 :> x @@ c2 :> y @@ c3 :> z

\* Calls run together.  c1 posts the comment where there is one.  o owns the
\* group, w may moderate any, u may do neither unless promoted meanwhile.
Support == Ask("support", u, None)
Comment == Ask("comment", u, None)

Mixes ==
  {Mix(Support, Ask("oppose", w, None), Ask("oppose", u, None)),
   Mix(Support, Ask("clear", u, None), Ask("hide", u, None)),
   Mix(Support, Ask("clear", u, None), Ask("mark", w, None)),
   Mix(Comment, Ask("reject", o, c1), Ask("delete", u, c1)),
   Mix(Comment, Ask("reject", u, c1), Ask("approve", w, c1)),
   Mix(Comment, Ask("reject", o, c1), Ask("delete", w, c1)),
   Mix(Comment, Ask("reject", o, c1), Ask("hide", w, None)),
   Mix(Comment, Ask("mute", w, u), Ask("unmute", o, u)),
   Mix(Comment, Ask("mute", w, u), Ask("status", u, None))}
============================================================================
