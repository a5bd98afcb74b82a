--------------------------- MODULE MCRateLimiter ---------------------------
(* A small instance of the rate limiter for TLC. *)
EXTENDS RateLimiter

CONSTANTS a1, a2, p1, junk, c1, c2

\* Nothing, somebody else's address, the proxy's, or no address at all.
Headers == {<<>>, <<a2>>, <<junk, p1>>}
=============================================================================
