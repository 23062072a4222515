---------------------------- MODULE MCSongPipeline ----------------------------
(***************************************************************************)
(* SongPipeline for TLC.                                                    *)
(***************************************************************************)
EXTENDS SongPipeline, TLC

\* Workers are interchangeable; used by the safety runs only.
WorkerSymmetry == Permutations(Workers)
=============================================================================
