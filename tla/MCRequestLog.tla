----------------------------- MODULE MCRequestLog -----------------------------
(* RequestLog for TLC. *)
EXTENDS RequestLog, TLC

\* Interim statuses, and the requests that are no scrapes, are interchangeable.
Symmetry == Permutations(Requests \ Scrapes) \cup Permutations(Interim)
=============================================================================
