---------------------------- MODULE MCSongWorker ----------------------------
(***************************************************************************)
(* SongWorker for TLC.                                                      *)
(***************************************************************************)
EXTENDS SongWorker, TLC

\* Workers and songs are interchangeable; used by the safety runs only.
Symmetry == Permutations(Workers) \cup Permutations(Songs)
=============================================================================
