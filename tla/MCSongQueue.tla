----------------------------- MODULE MCSongQueue -----------------------------
(***************************************************************************)
(* SongQueue for TLC: the rows under the most general client.               *)
(***************************************************************************)
EXTENDS SongQueue, TLC

\* The songs are interchangeable; the run checks safety only.
SongSymmetry == Permutations(Songs)
=============================================================================
