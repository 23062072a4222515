----------------------------- MODULE MCRateLimiter -----------------------------
(* RateLimiter for TLC. *)
EXTENDS RateLimiter, TLC

\* Requests, addresses and visitors are interchangeable.
Symmetry == Permutations(Addresses) \cup Permutations(Requests) \cup Permutations(Visitors)
=============================================================================
