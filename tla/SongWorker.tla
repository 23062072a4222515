------------------------------ MODULE SongWorker ------------------------------
(***************************************************************************)
(* The worker processes (internal/worker), each with its main goroutine and  *)
(* the goroutine that renews its lease, over the queue of SongQueue and the  *)
(* files of the media volume.  A worker may crash at any step, be told to    *)
(* stop, stall for as long as time lets it (so that its lease runs out under  *)
(* it), and lose the answer of a database call whether or not the call took   *)
(* effect.                                                                  *)
(*                                                                         *)
(* pc[w] is where the main goroutine is:                                    *)
(*   down      the process is not running                                   *)
(*   poll      the top of Run's loop                                        *)
(*   sweep     removing the inputs of the jobs that failExpired ended       *)
(*   claim     about to claim                                               *)
(*   prepare   Process: about to check the input and make the work directory *)
(*   process   Process: ffmpeg, demucs and the publication                  *)
(*   cleanup   Process: the deferred removal of the work directory          *)
(*   join      Process returned, its context was looked at and canceled:     *)
(*             waiting for the goroutine that renews (<-done)                *)
(*   settle    process decides what to do                                   *)
(*   discard   removing the published output, then return                   *)
(*   discardLate  the same after a timeout, then record                     *)
(*   record    recordFailure's transition                                   *)
(*   complete  the completing transition                                    *)
(*   release   removing the input of a finished job, then return            *)
(***************************************************************************)
EXTENDS SongQueue

CONSTANTS
    Workers,
    NoSong,       \* a worker without a job
    MaxFaults     \* bound on crashes, shutdowns and failing calls

ASSUME NoSongAssumption == NoSong \notin Songs
ASSUME MaxFaultsAssumption == MaxFaults \in Nat

VARIABLES
    pc,
    jobOf,        \* Job.SongID
    attempt,      \* Job.AttemptCount
    workCtx,      \* workCtx.Err() until Process returns, then workErr: "live", "deadline"
                  \* or "canceled"; "none" outside process
    leaseLost,    \* renewLease has put an error in renewResult
    result,       \* what Process returned: "none" yet, "ok" or "error"
    expired,      \* rows returned by failExpired whose inputs are still to remove
    stopping,     \* the process's context is canceled
    inputs,       \* songs whose file exists in incoming/
    workDirs,     \* <<song, attempt>> of the directories under work/
    outputs,      \* <<song, attempt>> of the directories under songs/
    faults        \* faults so far

attemptVars == <<jobOf, attempt, workCtx, leaseLost, result>>
fileVars    == <<inputs, workDirs, outputs>>
workerVars  == <<pc, jobOf, attempt, workCtx, leaseLost, result, expired, stopping,
                 inputs, workDirs, outputs, faults>>
vars == <<queueVars, workerVars>>

Working == {"prepare", "process", "cleanup"}     \* in Process, under workCtx
Holding == Working \cup {"join", "settle", "discard", "discardLate", "record", "complete", "release"}
PCs     == {"down", "poll", "sweep", "claim"} \cup Holding

Dirs == Songs \X AttemptNumbers
Dir(w) == <<jobOf[w], attempt[w]>>

Init ==
    /\ QueueInit
    /\ pc = [w \in Workers |-> "down"]
    /\ jobOf = [w \in Workers |-> NoSong]
    /\ attempt = [w \in Workers |-> 0]
    /\ workCtx = [w \in Workers |-> "none"]
    /\ leaseLost = [w \in Workers |-> FALSE]
    /\ result = [w \in Workers |-> "none"]
    /\ expired = [w \in Workers |-> {}]
    /\ stopping = [w \in Workers |-> FALSE]
    /\ inputs = {}
    /\ workDirs = {}
    /\ outputs = {}
    /\ faults = 0

Goto(w, label) == pc' = [pc EXCEPT ![w] = label]

NoAttempt(w) ==
    /\ jobOf' = [jobOf EXCEPT ![w] = NoSong]
    /\ attempt' = [attempt EXCEPT ![w] = 0]
    /\ workCtx' = [workCtx EXCEPT ![w] = "none"]
    /\ leaseLost' = [leaseLost EXCEPT ![w] = FALSE]
    /\ result' = [result EXCEPT ![w] = "none"]

\* ProcessOne returns to Run's loop.
Return(w) == Goto(w, "poll") /\ NoAttempt(w) /\ UNCHANGED <<expired, stopping>>

Fault == faults < MaxFaults /\ faults' = faults + 1

\* A call made under the process's context fails by itself, or because the
\* process is stopping.
CallFails(w) == IF stopping[w] THEN UNCHANGED faults ELSE Fault

-----------------------------------------------------------------------------
(* The process. *)

Start(w) ==
    /\ pc[w] = "down"
    /\ Goto(w, "poll")
    /\ UNCHANGED <<queueVars, attemptVars, expired, stopping, fileVars, faults>>

\* SIGTERM: every context derived from the process's is canceled.
Stop(w) ==
    /\ pc[w] # "down"
    /\ ~stopping[w]
    /\ Fault
    /\ stopping' = [stopping EXCEPT ![w] = TRUE]
    /\ workCtx' = [workCtx EXCEPT ![w] = IF @ = "live" THEN "canceled" ELSE @]
    /\ UNCHANGED <<queueVars, pc, jobOf, attempt, leaseLost, result, expired, fileVars>>

\* Run returns at the top of its loop.
Exit(w) ==
    /\ pc[w] = "poll"
    /\ stopping[w]
    /\ Goto(w, "down")
    /\ stopping' = [stopping EXCEPT ![w] = FALSE]
    /\ UNCHANGED <<queueVars, attemptVars, expired, fileVars, faults>>

\* The process dies; its files and its lease stay.
Crash(w) ==
    /\ pc[w] # "down"
    /\ Fault
    /\ Goto(w, "down")
    /\ NoAttempt(w)
    /\ expired' = [expired EXCEPT ![w] = {}]
    /\ stopping' = [stopping EXCEPT ![w] = FALSE]
    /\ UNCHANGED <<queueVars, fileVars>>

-----------------------------------------------------------------------------
(* ProcessOne up to the claim. *)

FailExpired(w) ==
    /\ pc[w] = "poll"
    /\ ~stopping[w]
    /\ FailExpiredSongJobs
    /\ expired' = [expired EXCEPT ![w] = Exhausted]
    /\ Goto(w, IF Exhausted = {} THEN "claim" ELSE "sweep")
    /\ UNCHANGED <<attemptVars, stopping, fileVars, faults>>

\* The answer is lost after the statement took effect: nobody sweeps.
FailExpiredLost(w) ==
    /\ pc[w] = "poll"
    /\ Exhausted # {}
    /\ CallFails(w)
    /\ FailExpiredSongJobs
    /\ UNCHANGED <<pc, attemptVars, expired, stopping, fileVars>>

SweepInput(w) ==
    /\ pc[w] = "sweep"
    /\ \E s \in expired[w] :
         /\ expired' = [expired EXCEPT ![w] = @ \ {s}]
         /\ Goto(w, IF expired[w] = {s} THEN "claim" ELSE "sweep")
         /\ \/ inputs' = inputs \ {s} /\ UNCHANGED faults
            \/ UNCHANGED inputs /\ Fault
    /\ UNCHANGED <<queueVars, attemptVars, stopping, workDirs, outputs>>

Claim(w) ==
    /\ pc[w] = "claim"
    /\ \E s \in Songs :
         /\ ClaimSongJob(s)
         /\ jobOf' = [jobOf EXCEPT ![w] = s]
         /\ attempt' = [attempt EXCEPT ![w] = attemptCount'[s]]
    /\ workCtx' = [workCtx EXCEPT ![w] = IF stopping[w] THEN "canceled" ELSE "live"]
    /\ Goto(w, "prepare")
    /\ UNCHANGED <<leaseLost, result, expired, stopping, fileVars, faults>>

ClaimNone(w) ==
    /\ pc[w] = "claim"
    /\ \A s \in Songs : ~Claimable(s)
    /\ Goto(w, "poll")
    /\ UNCHANGED <<queueVars, attemptVars, expired, stopping, fileVars, faults>>

\* The claim's answer is lost: an attempt is spent with nobody at work on it,
\* or nothing happened.
ClaimLost(w) ==
    /\ pc[w] = "claim"
    /\ CallFails(w)
    /\ (\E s \in Songs : ClaimSongJob(s)) \/ UNCHANGED queueVars
    /\ Goto(w, "poll")
    /\ UNCHANGED <<attemptVars, expired, stopping, fileVars>>

-----------------------------------------------------------------------------
(* AudioProcessor.Process, beside the lease's renewal and the deadline. *)

Prepare(w) ==
    /\ pc[w] = "prepare"
    /\ jobOf[w] \in inputs
    /\ workDirs' = workDirs \cup {Dir(w)}
    /\ Goto(w, "process")
    /\ UNCHANGED <<queueVars, attemptVars, expired, stopping, inputs, outputs, faults>>

\* The input is gone, or a check of it or the directories fail half way.
PrepareFails(w) ==
    /\ pc[w] = "prepare"
    /\ \/ jobOf[w] \notin inputs /\ UNCHANGED <<workDirs, faults>>
       \/ jobOf[w] \in inputs /\ workDirs' \in {workDirs, workDirs \cup {Dir(w)}} /\ Fault
    /\ result' = [result EXCEPT ![w] = "error"]
    /\ Goto(w, "join")
    /\ UNCHANGED <<queueVars, jobOf, attempt, workCtx, leaseLost, expired, stopping,
                   inputs, outputs>>

\* The commands ran to their end and the result directory is renamed into
\* place.  Publish looks at no context.
Publish(w) ==
    /\ pc[w] = "process"
    /\ Dir(w) \in workDirs
    /\ Dir(w) \notin outputs
    /\ outputs' = outputs \cup {Dir(w)}
    /\ result' = [result EXCEPT ![w] = "ok"]
    /\ Goto(w, "cleanup")
    /\ UNCHANGED <<queueVars, jobOf, attempt, workCtx, leaseLost, expired, stopping,
                   inputs, workDirs, faults>>

\* A command fails, is killed because workCtx is done, or the publication fails.
ProcessFails(w) ==
    /\ pc[w] = "process"
    /\ result' = [result EXCEPT ![w] = "error"]
    /\ Goto(w, "cleanup")
    /\ UNCHANGED <<queueVars, jobOf, attempt, workCtx, leaseLost, expired, stopping,
                   fileVars, faults>>

\* An error of the removal is ignored.
Cleanup(w) ==
    /\ pc[w] = "cleanup"
    /\ \/ workDirs' = workDirs \ {Dir(w)} /\ UNCHANGED faults
       \/ UNCHANGED workDirs /\ Fault
    /\ Goto(w, "join")
    /\ UNCHANGED <<queueVars, attemptVars, expired, stopping, inputs, outputs>>

\* Mutant of Deadline: the attempt's context has no timeout.
DeadlineNever(w) == FALSE

Deadline(w) ==
    /\ pc[w] \in Working
    /\ workCtx[w] = "live"
    /\ workCtx' = [workCtx EXCEPT ![w] = "deadline"]
    /\ UNCHANGED <<queueVars, pc, jobOf, attempt, leaseLost, result, expired, stopping,
                   fileVars, faults>>

\* Once the context is done, only a call that is under way may still take effect;
\* the model lets it do so more than once, until the goroutine has ended (Join).
Renew(w) ==
    /\ pc[w] \in Working \cup {"join"}
    /\ ~leaseLost[w]
    /\ RenewSongJob(jobOf[w], attempt[w])
    /\ UNCHANGED workerVars

\* No row matches, or the call fails with or without effect: the error goes to
\* renewResult and the attempt is canceled.  An error once the context is done
\* counts for nothing.
RenewFails(w) ==
    /\ pc[w] \in Working
    /\ workCtx[w] = "live"
    /\ \/ ~(Holds(jobOf[w], attempt[w]) /\ lease[jobOf[w]] > 0) /\ UNCHANGED <<queueVars, faults>>
       \/ (RenewSongJob(jobOf[w], attempt[w]) \/ UNCHANGED queueVars) /\ Fault
    /\ leaseLost' = [leaseLost EXCEPT ![w] = TRUE]
    /\ workCtx' = [workCtx EXCEPT ![w] = "canceled"]
    /\ UNCHANGED <<pc, jobOf, attempt, result, expired, stopping, fileVars>>

-----------------------------------------------------------------------------
(* What process does with the outcome. *)

\* <-done: a call that was under way was given up, and the goroutine has ended.
Join(w) ==
    /\ pc[w] = "join"
    /\ Goto(w, "settle")
    /\ UNCHANGED <<queueVars, attemptVars, expired, stopping, fileVars, faults>>

\* Mutant of Verdict: the processing error is looked at before the lost lease.
VerdictErrorFirst(w) ==
    CASE result[w] = "error"       -> "record"
      [] leaseLost[w]              -> "discard"
      [] stopping[w]               -> "discard"
      [] workCtx[w] = "deadline"   -> "discardLate"
      [] OTHER                     -> "complete"

\* The order of process's tests.
Verdict(w) ==
    IF leaseLost[w] \/ stopping[w] THEN "discard"
    ELSE IF workCtx[w] = "deadline" THEN "discardLate"
    ELSE IF result[w] = "error" THEN "record"
    ELSE "complete"

Settle(w) ==
    /\ pc[w] = "settle"
    /\ Goto(w, Verdict(w))
    /\ workCtx' = [workCtx EXCEPT ![w] = "none"]
    /\ UNCHANGED <<queueVars, jobOf, attempt, leaseLost, result, expired, stopping,
                   fileVars, faults>>

\* files.Directory is empty unless Process published.  The removal may fail.
DiscardOutput(w) ==
    \/ /\ outputs' = IF result[w] = "ok" THEN outputs \ {Dir(w)} ELSE outputs
       /\ UNCHANGED faults
    \/ result[w] = "ok" /\ UNCHANGED outputs /\ Fault

Discard(w) ==
    /\ pc[w] = "discard"
    /\ DiscardOutput(w)
    /\ Return(w)
    /\ UNCHANGED <<queueVars, inputs, workDirs>>

DiscardLate(w) ==
    /\ pc[w] = "discardLate"
    /\ DiscardOutput(w)
    /\ Goto(w, "record")
    /\ UNCHANGED <<queueVars, attemptVars, expired, stopping, inputs, workDirs>>

Complete(w) ==
    /\ pc[w] = "complete"
    /\ CompleteSongJob(jobOf[w], attempt[w])
    /\ Goto(w, "release")
    /\ UNCHANGED <<attemptVars, expired, stopping, fileVars, faults>>

\* pgx.ErrNoRows: another attempt, or failExpired, took the job over.
CompleteFenced(w) ==
    /\ pc[w] = "complete"
    /\ ~Holds(jobOf[w], attempt[w])
    /\ Goto(w, "discard")
    /\ UNCHANGED <<queueVars, attemptVars, expired, stopping, fileVars, faults>>

\* Mutant of CompleteLost: the output is discarded after any error.
CompleteLostDiscards(w) ==
    /\ pc[w] = "complete"
    /\ Fault
    /\ CompleteSongJob(jobOf[w], attempt[w]) \/ UNCHANGED queueVars
    /\ Goto(w, "discard")
    /\ UNCHANGED <<attemptVars, expired, stopping, fileVars>>

\* The outcome is unknown: the output and the input are kept.
CompleteLost(w) ==
    /\ pc[w] = "complete"
    /\ Fault
    /\ CompleteSongJob(jobOf[w], attempt[w]) \/ UNCHANGED queueVars
    /\ Return(w)
    /\ UNCHANGED fileVars

\* Mutant of Record: the input is removed after every recorded failure.
RecordReleases(w) ==
    /\ pc[w] = "record"
    /\ Fail(jobOf[w], attempt[w])
    /\ Goto(w, "release")
    /\ UNCHANGED <<attemptVars, expired, stopping, fileVars, faults>>

Record(w) ==
    /\ pc[w] = "record"
    /\ Fail(jobOf[w], attempt[w])
    /\ IF attempt[w] < MaxAttempts
         THEN Return(w)
         ELSE Goto(w, "release") /\ UNCHANGED <<attemptVars, expired, stopping>>
    /\ UNCHANGED <<fileVars, faults>>

RecordFenced(w) ==
    /\ pc[w] = "record"
    /\ ~Holds(jobOf[w], attempt[w])
    /\ Return(w)
    /\ UNCHANGED <<queueVars, fileVars, faults>>

RecordLost(w) ==
    /\ pc[w] = "record"
    /\ Fault
    /\ Fail(jobOf[w], attempt[w]) \/ UNCHANGED queueVars
    /\ Return(w)
    /\ UNCHANGED fileVars

Release(w) ==
    /\ pc[w] = "release"
    /\ \/ inputs' = inputs \ {jobOf[w]} /\ UNCHANGED faults
       \/ UNCHANGED inputs /\ Fault
    /\ Return(w)
    /\ UNCHANGED <<queueVars, workDirs, outputs>>

-----------------------------------------------------------------------------

(* The environment: the API's uploads and the removal of old files, as far  *)
(* as the workers can tell.  SongPipeline gives both in detail and is shown *)
(* to take no other step than these.                                        *)

\* CreateInput and the copy of the upload into it.
SaveInput(s) ==
    /\ jobState[s] = "ABSENT"
    /\ s \notin inputs
    /\ inputs' = inputs \cup {s}
    /\ UNCHANGED <<queueVars, pc, attemptVars, expired, stopping, workDirs, outputs, faults>>

\* The commit of both rows, with the file in place.
Upload(s) ==
    /\ s \in inputs
    /\ EnqueueSongJob(s)
    /\ UNCHANGED workerVars

\* No open job needs the file (or the upload's own rejection removes it).
CollectInput(s) ==
    /\ s \in inputs
    /\ jobState[s] \notin Needed
    /\ inputs' = inputs \ {s}
    /\ UNCHANGED <<queueVars, pc, attemptVars, expired, stopping, workDirs, outputs, faults>>

Active(d) == Holds(d[1], d[2]) /\ lease[d[1]] > 0
Referenced(d) == status[d[1]] = "READY" /\ audio[d[1]] = d[2]

\* w has published d and may still commit it.
Committing(w, d) ==
    Dir(w) = d /\ result[w] = "ok" /\ pc[w] \in {"cleanup", "join", "settle", "complete"}

CollectWorkDir(d) ==
    /\ d \in workDirs
    /\ ~Active(d)
    /\ workDirs' = workDirs \ {d}
    /\ UNCHANGED <<queueVars, pc, attemptVars, expired, stopping, inputs, outputs, faults>>

CollectOutput(d) ==
    /\ d \in outputs
    /\ ~Active(d) /\ ~Referenced(d)
    /\ \A w \in Workers : ~Committing(w, d)
    /\ outputs' = outputs \ {d}
    /\ UNCHANGED <<queueVars, pc, attemptVars, expired, stopping, inputs, workDirs, faults>>

Environment ==
    \/ \E s \in Songs : SaveInput(s) \/ Upload(s) \/ CollectInput(s)
    \/ \E d \in Dirs : CollectWorkDir(d) \/ CollectOutput(d)

TimePasses == Tick /\ UNCHANGED workerVars

\* The main goroutine's steps, but for the end of the commands Process runs and of
\* the goroutine that renews.
MainStep(w) ==
    \/ Exit(w) \/ FailExpired(w) \/ SweepInput(w) \/ Claim(w) \/ ClaimNone(w)
    \/ Prepare(w) \/ PrepareFails(w) \/ Cleanup(w) \/ Settle(w)
    \/ Discard(w) \/ DiscardLate(w) \/ Complete(w) \/ CompleteFenced(w)
    \/ Record(w) \/ RecordFenced(w) \/ Release(w)

ProcessEnds(w) == Publish(w) \/ ProcessFails(w)

Disturbed(w) ==
    \/ Stop(w) \/ Crash(w) \/ FailExpiredLost(w) \/ ClaimLost(w) \/ CompleteLost(w)
    \/ RecordLost(w)

WorkerNext(w) ==
    \/ Start(w) \/ MainStep(w) \/ ProcessEnds(w) \/ Join(w)
    \/ Deadline(w) \/ Renew(w) \/ RenewFails(w) \/ Disturbed(w)

Next ==
    \/ Environment
    \/ \E w \in Workers : WorkerNext(w)
    \/ TimePasses

Spec == Init /\ [][Next]_vars

\* The goroutines run, a stopped worker is started again and the clock advances.
\* Nothing makes a renewal happen in time, and a command may run for ever while its
\* context is live.  Two waits are taken to end once the context is done: the one for
\* a command, which is killed (CombinedOutput, without a WaitDelay, also waits for the
\* end of every descendant that holds the command's output open, and the kill does not
\* reach those), and the one for a renewal, whose call pgx gives up (Join).
Fairness ==
    /\ \A w \in Workers :
         /\ WF_vars(Start(w))
         /\ WF_vars(MainStep(w))
         /\ WF_vars(Deadline(w))
         /\ WF_vars(workCtx[w] # "live" /\ ProcessEnds(w))
         /\ WF_vars(Join(w))
    /\ WF_vars(TimePasses)

FairSpec == Spec /\ Fairness

-----------------------------------------------------------------------------

\* The type invariant of the workers and the media volume.
WorkerTypeOK ==
    /\ pc \in [Workers -> PCs]
    /\ jobOf \in [Workers -> Songs \cup {NoSong}]
    /\ attempt \in [Workers -> 0..MaxAttempts]
    /\ workCtx \in [Workers -> {"none", "live", "deadline", "canceled"}]
    /\ leaseLost \in [Workers -> BOOLEAN]
    /\ result \in [Workers -> {"none", "ok", "error"}]
    /\ expired \in [Workers -> SUBSET Songs]
    /\ stopping \in [Workers -> BOOLEAN]
    /\ inputs \subseteq Songs
    /\ workDirs \subseteq Dirs
    /\ outputs \subseteq Dirs
    /\ faults \in 0..MaxFaults

TypeOK == QueueTypeOK /\ WorkerTypeOK

\* A READY song's files are all there: no late discard, whoever runs it and
\* whatever call before it was lost, takes the directory that was committed.
ReadyAudioExists ==
    \A s \in Songs : status[s] = "READY" => <<s, audio[s]>> \in outputs

\* The uploaded file outlives every attempt that may still need it: no sweep or
\* release of a stale or finished attempt removes the input of an open job.
InputKept ==
    \A s \in Songs : jobState[s] \in Needed => s \in inputs

\* No two processes are ever at work on one attempt of one song, so their work
\* directories, outputs and row updates never meet.
UniqueAttempt ==
    \A v, w \in Workers :
        v # w /\ pc[v] \in Holding /\ pc[w] \in Holding => Dir(v) # Dir(w)

\* Publish never finds its output directory in place ("song attempt output
\* already exists"), even when an earlier process died after publishing.
NoOutputCollision ==
    \A w \in Workers : pc[w] \in {"prepare", "process"} => Dir(w) \notin outputs

\* An attempt that was told its lease is lost writes no row any more: it only
\* cleans up after itself.
LostLeaseWritesNothing ==
    [][\A w \in Workers :
         leaseLost[w] /\ pc'[w] # pc[w] => UNCHANGED queueVars]_vars

\* Every attempt ends: its worker comes back to the queue or goes down, though
\* commands may hang until the deadline and a renewal until it is given up.
AttemptEnds ==
    \A w \in Workers : pc[w] \in Holding ~> pc[w] \in {"poll", "down"}

\* The abstract promise, with a song playable when it is READY and its files exist.
Lifecycle == INSTANCE SongLifecycle
    WITH playable <- {s \in Songs : status[s] = "READY" /\ <<s, audio[s]>> \in outputs}

\* The workers implement the lifecycle's safety part ...
LifecycleSafety == Lifecycle!SafetySpec
\* ... and its progress: every uploaded song ends READY or FAILED.
LifecycleProgress == Lifecycle!Spec
=============================================================================
