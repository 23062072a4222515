---------------------------- MODULE SongLifecycle ----------------------------
(***************************************************************************)
(* What the upload and processing pipeline promises the rest of the system, *)
(* with no job, worker, lease or file in it: an uploaded song is PROCESSING  *)
(* until it becomes, once and for ever, either READY, and then it is        *)
(* playable from that very step on, or FAILED.  SongWorker is shown to       *)
(* implement it.                                                            *)
(***************************************************************************)
CONSTANT Songs

VARIABLES
    status,     \* songs.status as GET /songs/{id}/status reports it
    playable    \* the READY songs whose audio GET /songs/{id}/audio/{part} can open

vars == <<status, playable>>

Init ==
    /\ status = [s \in Songs |-> "ABSENT"]
    /\ playable = {}

Upload(s) ==
    /\ status[s] = "ABSENT"
    /\ status' = [status EXCEPT ![s] = "PROCESSING"]
    /\ UNCHANGED playable

Succeed(s) ==
    /\ status[s] = "PROCESSING"
    /\ status' = [status EXCEPT ![s] = "READY"]
    /\ playable' = playable \cup {s}

\* Workers give up on several exhausted songs in one statement.
GiveUp(S) ==
    /\ S # {}
    /\ \A s \in S : status[s] = "PROCESSING"
    /\ status' = [s \in Songs |-> IF s \in S THEN "FAILED" ELSE status[s]]
    /\ UNCHANGED playable

Next ==
    \/ \E s \in Songs : Upload(s) \/ Succeed(s)
    \/ \E S \in SUBSET Songs : GiveUp(S)

SafetySpec == Init /\ [][Next]_vars

\* No song is left in PROCESSING.
EverySongSettles ==
    \A s \in Songs : status[s] = "PROCESSING" ~> status[s] \in {"READY", "FAILED"}

Spec == SafetySpec /\ EverySongSettles
=============================================================================
