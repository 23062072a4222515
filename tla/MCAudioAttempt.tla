---------------------------- MODULE MCAudioAttempt ----------------------------
(* AudioAttempt with two of the four stems, which take the same steps. *)
EXTENDS AudioAttempt, TLC

CONSTANTS drums, vocals, c1, c2

TwoStems == {drums, vocals}
Symmetry == Permutations(TwoStems)
OneStem == {drums}
OneCleaner == {c1}
TwoCleaners == {c1, c2}
AllPrompt == {"work", "commit", "cutoff"}
=============================================================================
