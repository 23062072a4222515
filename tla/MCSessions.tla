------------------------------ MODULE MCSessions ------------------------------
(* Sessions for TLC. *)
EXTENDS Sessions, TLC

\* Names, passwords, tokens and requests are interchangeable.
Symmetry ==
    Permutations(Usernames) \cup Permutations(Emails) \cup Permutations(Passwords)
      \cup Permutations(Tokens) \cup Permutations(Requests)
=============================================================================
