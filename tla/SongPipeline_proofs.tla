------------------------- MODULE SongPipeline_proofs -------------------------
(***************************************************************************)
(* Theorems about SongPipeline, for every set of songs and workers and any    *)
(* number of failures, by what they assume of time:                         *)
(*                                                                         *)
(*   nothing               the rows, and who works on what (PipelineCore)     *)
(*   "upload", "cutoff"    the inputs of open jobs         (InputSide)        *)
(*   "commit", "cutoff"    the outputs of READY songs      (OutputSide)       *)
(*   "lease", "cutoff"     the files of active attempts    (LeaseSide)        *)
(*                                                                         *)
(* With all four, no step of the API or of a cleanup is one that SongWorker's  *)
(* environment may not take.                                                *)
(*                                                                         *)
(* A cleanup acts on what it read long ago.  The argument is that it only     *)
(* acts on facts that, once true, stay true (Closed, Dead, Passed): a stale   *)
(* snapshot of them is never wrong.                                         *)
(***************************************************************************)
EXTENDS SongPipeline, SongWorker_proofs

\* The upload of s is over, and no job needs its file, now or later.
Closed(s) == upload[s] = "over" /\ jobState[s] \notin Needed

\* Attempt d was given out, and its lease has ended: attempts get no second one.
Dead(d) == d[2] <= attemptCount[d[1]] /\ ~Active(d)

\* Attempt d was given out, and no worker may publish or commit it any more.
Passed(d) ==
    /\ d[2] <= attemptCount[d[1]]
    /\ \A w \in Workers : ~Committing(w, d)
    /\ \A w \in Workers : Dir(w) = d => pc[w] \notin {"prepare", "process"}

\* Before its upload, a song has no row and no file.
NewSongs == \A s \in Songs : upload[s] = "none" => jobState[s] = "ABSENT" /\ s \notin inputs

Unemployed == \A w \in Workers : pc[w] \notin Holding => jobOf[w] = NoSong

WorkGivenOut == \A d \in workDirs : d[2] <= attemptCount[d[1]]

\* The rows that a snapshot has read, as far as no later step takes them back.
RowsRead(w) ==
    /\ \A s \in refs[w].Terminal : jobState[s] \in Terminal
    /\ clean[w] = "songs" => \A d \in refs[w].ActiveAttempts : d[2] <= attemptCount[d[1]]

PipelineCore ==
    /\ AttemptInv
    /\ PipelineTypeOK
    /\ NewSongs /\ Unemployed /\ WorkGivenOut
    /\ \A w \in Workers : RowsRead(w)

Deciding == {"songs", "terminal"}

\* A file that is saved stays, and stays young, until its handler has ended.
UploadsKept == \A s \in Songs : Uploading(s) => s \in inputs /\ s \notin agedInputs

\* Of the files that a cleanup may come to condemn, and those that it has
\* condemned: what it does not protect needs no protection.
InputsRead(w) ==
    /\ clean[w] \in Deciding =>
         \A s \in agedInputs \cup settled[w].inputs : s \in refs[w].Inputs \/ Closed(s)
    /\ \A s \in doomed[w].inputs : Closed(s)

InputSide == InputKept /\ UploadsKept /\ \A w \in Workers : InputsRead(w)

AgedPassed == \A d \in agedOutputs : Passed(d)

OutputsRead(w) ==
    /\ clean[w] \in Deciding => \A d \in agedOutputs \cup settled[w].outputs : Passed(d)
    /\ clean[w] = "terminal" =>
         \A d \in agedOutputs \cup settled[w].outputs : d \in refs[w].Outputs \/ ~Referenced(d)
    /\ \A d \in doomed[w].outputs : Passed(d) /\ ~Referenced(d)

OutputSide == OutputInv /\ AgedPassed /\ \A w \in Workers : OutputsRead(w)

LeasesRead(w) ==
    /\ clean[w] \in Deciding =>
         \A d \in agedWork \cup settled[w].work \cup agedOutputs \cup settled[w].outputs :
            d \in refs[w].ActiveAttempts \/ Dead(d)
    /\ clean[w] = "songs" =>
         \A d \in refs[w].ActiveAttempts : Active(d) => refs[w].Leases[d[1]] > 0
    /\ \A d \in doomed[w].work \cup doomed[w].outputs : Dead(d)

LeaseSide == \A w \in Workers : LeasesRead(w)

PipelineInv == PipelineCore /\ InputSide /\ OutputSide /\ LeaseSide

UploadsTimely == {"upload", "cutoff"} \subseteq Prompt
CommitsTimely == {"commit", "cutoff"} \subseteq Prompt
LeasesTimely  == {"lease", "cutoff"} \subseteq Prompt
Timely        == UploadsTimely /\ CommitsTimely /\ LeasesTimely

-----------------------------------------------------------------------------
(* What stays true of an attempt whatever the workers and their environment do. *)

\* An attempt whose lease has ended gets no second one.
LEMMA DeadStays ==
    ASSUME QueueInv, [QueueNext]_queueVars, NEW d \in Dirs, Dead(d)
    PROVE  Dead(d)'
  <1> DEFINE s == d[1]  n == d[2]
  <1>1. s \in Songs /\ n \in AttemptNumbers /\ n <= attemptCount[s]
    BY DEF Dirs, Dead
  <1>2. ~(jobState[s] = "RUNNING" /\ attemptCount[s] = n /\ lease[s] > 0)
    BY DEF Dead, Active, Holds
  <1> SUFFICES /\ n <= attemptCount'[s]
               /\ ~(jobState'[s] = "RUNNING" /\ attemptCount'[s] = n /\ lease'[s] > 0)
    BY DEF Dead, Active, Holds
  <1> HIDE DEF s, n
  <1> USE <1>1, <1>2 DEF QueueInv, QueueTypeOK, AttemptNumbers
  <1> DEFINE Goal == /\ n <= attemptCount'[s]
                     /\ ~(jobState'[s] = "RUNNING" /\ attemptCount'[s] = n /\ lease'[s] > 0)
  <1>3. ASSUME NEW r \in Songs, EnqueueSongJob(r) PROVE Goal
    BY <1>3 DEF EnqueueSongJob
  <1>4. ASSUME NEW r \in Songs, ClaimSongJob(r) PROVE Goal
    BY <1>4 DEF ClaimSongJob
  <1>5. ASSUME NEW r \in Songs, NEW m, CompleteSongJob(r, m) PROVE Goal
    BY <1>5 DEF CompleteSongJob
  <1>6. ASSUME NEW r \in Songs, NEW m, RenewSongJob(r, m) PROVE Goal
    BY <1>6 DEF RenewSongJob, Holds
  <1>7. ASSUME NEW r \in Songs, NEW m, Fail(r, m) PROVE Goal
    BY <1>7 DEF Fail, RetrySongJob, FailSongJob
  <1>8. CASE FailExpiredSongJobs
    BY <1>8 DEF FailExpiredSongJobs
  <1>9. CASE Tick
    BY <1>9 DEF Tick, Down
  <1>10. CASE UNCHANGED queueVars
    BY <1>10 DEF queueVars
  <1> QED
    BY <1>3, <1>4, <1>5, <1>6, <1>7, <1>8, <1>9, <1>10 DEF QueueNext

\* Only a publication, or what comes of one, can be committed.
LEMMA WorkerCommitting ==
    ASSUME AttemptInv, NEW w \in Workers, WorkerNext(w), NEW d, Committing(w, d)'
    PROVE  Dir(w) = d /\ (pc[w] = "process" \/ Committing(w, d))
  <1> USE DEF AttemptInv, TypedInv, WorkerTypeOK, Goto, attemptVars, fileVars, workerVars, Return,
              NoAttempt, Committing, Dir, ResultsKnown, ResultKnown
  <1>1. CASE Start(w) \/ Exit(w) \/ Crash(w) \/ Stop(w)
    BY <1>1 DEF Start, Exit, Crash, Stop
  <1>2. CASE FailExpired(w) \/ FailExpiredLost(w) \/ SweepInput(w)
    BY <1>2 DEF FailExpired, FailExpiredLost, SweepInput
  <1>3. CASE Claim(w) \/ ClaimNone(w) \/ ClaimLost(w)
    BY <1>3 DEF Claim, ClaimNone, ClaimLost
  <1>4. CASE Prepare(w) \/ PrepareFails(w) \/ Publish(w) \/ ProcessFails(w) \/ Cleanup(w)
    BY <1>4 DEF Prepare, PrepareFails, Publish, ProcessFails, Cleanup
  <1>5. CASE Deadline(w) \/ Renew(w) \/ RenewFails(w)
    BY <1>5 DEF Deadline, Renew, RenewFails
  <1>6. CASE Join(w) \/ Settle(w)
    BY <1>6 DEF Join, Settle, Verdict
  <1>7. CASE Discard(w) \/ DiscardLate(w) \/ Release(w)
    BY <1>7 DEF Discard, DiscardLate, Release
  <1>8. CASE Complete(w) \/ CompleteFenced(w) \/ CompleteLost(w)
    BY <1>8 DEF Complete, CompleteFenced, CompleteLost
  <1>9. CASE Record(w) \/ RecordFenced(w) \/ RecordLost(w)
    BY <1>9 DEF Record, RecordFenced, RecordLost
  <1> QED
    BY <1>1, <1>2, <1>3, <1>4, <1>5, <1>6, <1>7, <1>8, <1>9
    DEF WorkerNext, MainStep, ProcessEnds, Disturbed

\* A worker comes to hold only an attempt that it claims now.
LEMMA WorkerPassed ==
    ASSUME AttemptInv, NEW w \in Workers, WorkerNext(w), NEW d \in Dirs, Passed(d)
    PROVE  Passed(d)'
  <1>1. d[1] \in Songs /\ d[2] \in AttemptNumbers /\ d = <<d[1], d[2]>>
    BY DEF Dirs
  <1>2. d[2] <= attemptCount'[d[1]]
    <2>1. attemptCount[d[1]] <= attemptCount'[d[1]]
      BY <1>1, AttemptsOnlyGrow, WorkerQueueStep DEF AttemptInv, TypedInv
    <2>2. attemptCount'[d[1]] \in Nat /\ attemptCount[d[1]] \in Nat /\ d[2] \in Nat
      BY <1>1, NextKeepsQueueInv, WorkerQueueStep, MaxAttemptsAssumption
      DEF AttemptInv, TypedInv, QueueInv, QueueTypeOK, AttemptNumbers
    <2> QED  BY <2>1, <2>2 DEF Passed
  <1>3. \A v \in Workers \ {w} : ~Committing(v, d)'
                               /\ (Dir(v)' = d => pc'[v] \notin {"prepare", "process"})
    BY WorkerOthersKept DEF OthersKept, Passed, Committing, Dir
  <1>4. ~Committing(w, d)'
    BY WorkerCommitting DEF Passed
  <1>5. Dir(w)' = d => pc'[w] \notin {"prepare", "process"}
    <2> SUFFICES ASSUME Dir(w)' = d, pc'[w] \in {"prepare", "process"} PROVE FALSE
      OBVIOUS
    <2>1. CASE pc[w] \in {"prepare", "process"} /\ jobOf'[w] = jobOf[w] /\ attempt'[w] = attempt[w]
      BY <2>1 DEF Passed, Dir
    <2>2. CASE /\ jobOf'[w] \in Songs
               /\ ClaimSongJob(jobOf'[w])
               /\ attempt'[w] = attemptCount'[jobOf'[w]]
      <3>1. jobOf'[w] = d[1] /\ attempt'[w] = d[2]
        BY <1>1 DEF Dir
      <3>2. attemptCount'[d[1]] = attemptCount[d[1]] + 1
        BY <2>2, <3>1, <1>1
        DEF ClaimSongJob, AttemptInv, TypedInv, QueueInv, QueueTypeOK
      <3>3. attemptCount[d[1]] \in Nat /\ d[2] \in Nat
        BY <1>1, MaxAttemptsAssumption
        DEF AttemptInv, TypedInv, QueueInv, QueueTypeOK, AttemptNumbers
      <3> QED  BY <2>2, <3>1, <3>2, <3>3 DEF Passed
    <2> QED
      BY <2>1, <2>2, WorkerAttemptStep DEF AttemptStep, Holding, Working
  <1> QED  BY <1>2, <1>3, <1>4, <1>5 DEF Passed

\* A song comes to refer to an output only by its commit.
LEMMA WorkerReferenced ==
    ASSUME AttemptInv, NEW w \in Workers, WorkerNext(w), NEW d \in Dirs, Passed(d), ~Referenced(d)
    PROVE  ~Referenced(d)'
  <1> SUFFICES ASSUME Referenced(d)' PROVE FALSE
    OBVIOUS
  <1>1. d[1] \in Songs /\ d = <<d[1], d[2]>>
    BY DEF Dirs
  <1>2. /\ d[1] = jobOf[w] /\ audio'[d[1]] = attempt[w] /\ pc[w] = "complete"
    BY <1>1, WorkerRows DEF Referenced
  <1>3. Committing(w, d)
    BY <1>1, <1>2 DEF Committing, Dir, Referenced, AttemptInv, ResultsKnown, ResultKnown
  <1> QED  BY <1>3 DEF Passed

\* Every step keeps these facts.
LEMMA FactsStay ==
    ASSUME AttemptInv, [LooseNext]_vars
    PROVE  /\ \A s \in Songs : jobState[s] \in Terminal => jobState'[s] \in Terminal
           /\ \A s \in Songs : attemptCount[s] <= attemptCount'[s]
           /\ \A d \in Dirs : Dead(d) => Dead(d)'
           /\ \A d \in Dirs : Passed(d) => Passed(d)'
           /\ \A d \in Dirs : Passed(d) /\ ~Referenced(d) => ~Referenced(d)'
  <1>1. QueueInv /\ [QueueNext]_queueVars
    BY LooseIsQueueStep DEF AttemptInv, TypedInv
  <1>2. \A s \in Songs : jobState[s] \in Terminal => jobState'[s] \in Terminal
    BY <1>1, TerminalStep
  <1>3. \A s \in Songs : attemptCount[s] <= attemptCount'[s]
    BY <1>1, AttemptsOnlyGrow
  <1>4. \A d \in Dirs : Dead(d) => Dead(d)'
    BY <1>1, DeadStays
  <1>5. ASSUME NEW d \in Dirs, Passed(d)
        PROVE  Passed(d)' /\ (~Referenced(d) => ~Referenced(d)')
    <2>1. CASE \E w \in Workers : WorkerNext(w)
      BY <1>5, <2>1, WorkerPassed, WorkerReferenced
    <2>2. CASE UNCHANGED <<pc, jobOf, attempt, result, attemptCount, audio>>
               /\ (status'[d[1]] = "READY" => status[d[1]] = "READY")
      BY <1>5, <2>2 DEF Passed, Committing, Dir, Referenced
    <2>3. d[1] \in Songs
      BY DEF Dirs
    <2>4. CASE FilesMove \/ TimePasses \/ UNCHANGED vars
      BY <2>2, <2>4
      DEF FilesMove, TimePasses, Tick, songVars, vars, queueVars, workerVars, attemptVars
    <2>5. ASSUME NEW s \in Songs, EnqueueSongJob(s), UNCHANGED workerVars
          PROVE  Passed(d)' /\ (~Referenced(d) => ~Referenced(d)')
      BY <2>2, <2>3, <2>5
      DEF EnqueueSongJob, workerVars, attemptVars, AttemptInv, TypedInv, QueueInv, QueueTypeOK
    <2> QED  BY <2>1, <2>4, <2>5 DEF LooseNext
  <1> QED  BY <1>2, <1>3, <1>4, <1>5

-----------------------------------------------------------------------------
(* Every step is one of SongWorker's, but for the files that a cleanup or a handler *)
(* removes.                                                                    *)

FileSets == [inputs : SUBSET Songs, work : SUBSET Dirs, outputs : SUBSET Dirs]
RefSets  == [Inputs : SUBSET Songs, ActiveAttempts : SUBSET Dirs,
             Leases : [Songs -> 0..LeaseTicks], Outputs : SUBSET Dirs,
             Terminal : SUBSET Songs]

\* The type invariant, in terms of the record sets.
LEMMA CleanerTypes ==
    PipelineTypeOK => /\ refs \in [Workers -> RefSets]
                      /\ settled \in [Workers -> FileSets] /\ doomed \in [Workers -> FileSets]
  BY DEF PipelineTypeOK, RefSets, FileSets

\* The API enqueues jobs and moves inputs.
LEMMA ApiIsLoose ==
    ASSUME WorkerTypeOK, ApiNext
    PROVE  [LooseNext]_vars
  <1> USE DEF WorkerTypeOK, LooseNext, FilesMove, queueVars, workerVars, attemptVars, vars
  <1>1. ASSUME NEW s \in Songs, Receive(s) PROVE [LooseNext]_vars
    BY <1>1 DEF Receive, SaveInput
  <1>2. ASSUME NEW s \in Songs, Reject(s) \/ Rollback(s) PROVE [LooseNext]_vars
    BY <1>2 DEF Reject, Rollback, DropInput
  <1>3. ASSUME NEW s \in Songs, Validated(s) PROVE [LooseNext]_vars
    BY <1>3 DEF Validated
  <1>4. ASSUME NEW s \in Songs, Commit(s) \/ CommitUnknown(s) PROVE [LooseNext]_vars
    BY <1>4 DEF Commit, CommitUnknown
  <1>5. CASE ApiCrash
    BY <1>5 DEF ApiCrash
  <1> QED  BY <1>1, <1>2, <1>3, <1>4, <1>5 DEF ApiNext, UploadStep

\* A cleanup reads rows and removes files.
LEMMA CleanerIsLoose ==
    ASSUME WorkerTypeOK, NEW w \in Workers, CleanerNext(w)
    PROVE  [LooseNext]_vars
  <1>1. CASE UNCHANGED vars
    BY <1>1
  <1>2. CASE RemoveTerminal(w)
    BY <1>2 DEF RemoveTerminal, DropInput, WorkerTypeOK, LooseNext, FilesMove
  <1>3. CASE Delete(w)
    BY <1>3 DEF Delete, WorkerTypeOK, LooseNext, FilesMove
  <1> QED
    BY <1>1, <1>2, <1>3
    DEF CleanerNext, CleanerStep, ListSongJobMedia, ListSongOutputPaths, Cutoff, CleanupEnds,
        CleanupFails

\* A worker does in the pipeline what it does in SongWorker.
LEMMA JobIsWorkerStep ==
    ASSUME NEW w \in Workers, Job(w) \/ StopCleaning(w) \/ CrashCleaning(w)
    PROVE  WorkerNext(w) /\ upload' = upload /\ AgesKept
  BY DEF Job, StopCleaning, CrashCleaning, WorkerNext, Disturbed

LEMMA StepIsLoose ==
    ASSUME WorkerTypeOK, [PipelineNext]_pipelineVars
    PROVE  [LooseNext]_vars
  <1>1. CASE ApiNext
    BY <1>1, ApiIsLoose
  <1>2. CASE \E w \in Workers : Job(w) \/ StopCleaning(w) \/ CrashCleaning(w)
    BY <1>2, JobIsWorkerStep DEF LooseNext
  <1>3. CASE \E w \in Workers : CleanerNext(w)
    BY <1>3, CleanerIsLoose
  <1>4. CASE Time
    BY <1>4 DEF Time, LooseNext
  <1>5. CASE Age \/ UNCHANGED pipelineVars
    BY <1>5 DEF Age, pipelineVars
  <1> QED  BY <1>1, <1>2, <1>3, <1>4, <1>5 DEF PipelineNext

-----------------------------------------------------------------------------
(* What holds whatever the timing: the rows, and who works on what.            *)

\* A directory is named after a song and an attempt number.
LEMMA DirParts ==
    ASSUME NEW d \in Dirs
    PROVE  d[1] \in Songs /\ d[2] \in Nat
  BY MaxAttemptsAssumption DEF Dirs, AttemptNumbers

LEMMA Typed == PipelineCore => WorkerTypeOK /\ \A s \in Songs : attemptCount[s] \in Nat
  BY MaxAttemptsAssumption
  DEF PipelineCore, AttemptInv, TypedInv, QueueInv, QueueTypeOK, AttemptNumbers

\* What SongWorker_proofs shows of a step carries over.
LEMMA CoreStep ==
    ASSUME PipelineCore, [PipelineNext]_pipelineVars
    PROVE  /\ [LooseNext]_vars
           /\ AttemptInv'
           /\ \A s \in Songs : attemptCount'[s] \in Nat /\ attemptCount[s] <= attemptCount'[s]
           /\ WorkerTypeOK'
  <1>0. [LooseNext]_vars
    BY StepIsLoose, Typed
  <1>1. AttemptInv'
    BY <1>0, LooseKeepsAttemptInv DEF PipelineCore
  <1>2. \A s \in Songs : attemptCount[s] <= attemptCount'[s]
    BY <1>0, FactsStay DEF PipelineCore
  <1>3. WorkerTypeOK' /\ \A s \in Songs : attemptCount'[s] \in Nat
    BY <1>1, MaxAttemptsAssumption DEF AttemptInv, TypedInv, QueueInv, QueueTypeOK
  <1> QED  BY <1>0, <1>1, <1>2, <1>3

\* A number given out stays given out.
LEMMA GivenOutStays ==
    ASSUME PipelineCore, [PipelineNext]_pipelineVars, NEW d \in Dirs, d[2] <= attemptCount[d[1]]
    PROVE  d[2] <= attemptCount'[d[1]]
  <1>0. d[1] \in Songs /\ d[2] \in Nat
    BY DirParts
  <1> DEFINE s == d[1]  n == d[2]
  <1>1. s \in Songs /\ n \in Nat
    BY <1>0
  <1>2. attemptCount[s] \in Nat /\ attemptCount'[s] \in Nat /\ attemptCount[s] <= attemptCount'[s]
    BY <1>1, Typed, CoreStep
  <1>3. n <= attemptCount[s]
    OBVIOUS
  <1> HIDE DEF s, n
  <1>4. n <= attemptCount'[s]
    BY <1>1, <1>2, <1>3
  <1> QED  BY <1>4 DEF s, n

\* A worker enqueues nothing.
LEMMA WorkerKeepsAbsent ==
    ASSUME PipelineCore, NEW w \in Workers, WorkerNext(w), NEW s \in Songs,
           jobState[s] = "ABSENT"
    PROVE  jobState'[s] = "ABSENT"
  <1> USE DEF PipelineCore, AttemptInv, TypedInv, QueueInv, QueueTypeOK
  <1>1. StatementOf(w)
    BY WorkerStatement
  <1>2. CASE UNCHANGED queueVars \/ FailExpiredSongJobs
    BY <1>2 DEF queueVars, FailExpiredSongJobs, Exhausted
  <1>3. ASSUME NEW r \in Songs, ClaimSongJob(r) PROVE jobState'[s] = "ABSENT"
    BY <1>3 DEF ClaimSongJob, Claimable
  <1>4. CASE RenewSongJob(jobOf[w], attempt[w])
    BY <1>4 DEF RenewSongJob
  <1>5. CASE CompleteSongJob(jobOf[w], attempt[w])
    BY <1>5 DEF CompleteSongJob, Holds
  <1>6. CASE Fail(jobOf[w], attempt[w])
    BY <1>6 DEF Fail, RetrySongJob, FailSongJob, Holds
  <1> QED  BY <1>1, <1>2, <1>3, <1>4, <1>5, <1>6 DEF StatementOf

\* A finished upload is not taken up again, and a finished job not reopened.
LEMMA ClosedStays ==
    ASSUME PipelineCore, [PipelineNext]_pipelineVars, NEW s \in Songs, Closed(s)
    PROVE  Closed(s)'
  <1> USE DEF Closed
  <1>1. CASE ApiNext
    <2> USE DEF PipelineCore, PipelineTypeOK, AttemptInv, TypedInv, QueueInv, QueueTypeOK, Needed
    <2>1. ASSUME NEW r \in Songs, Receive(r) \/ UploadStep(r) \/ CommitUnknown(r)
          PROVE  Closed(s)'
      BY <2>1 DEF Receive, SaveInput, UploadStep, Reject, Validated, Commit, Rollback, Finished,
                  CommitUnknown, EnqueueSongJob, queueVars, vars
    <2>2. CASE ApiCrash
      BY <2>2 DEF ApiCrash, vars, queueVars
    <2> QED  BY <1>1, <2>1, <2>2 DEF ApiNext
  <1>2. ASSUME NEW w \in Workers, WorkerNext(w), upload' = upload PROVE Closed(s)'
    BY <1>2, WorkerRows DEF PipelineCore
  <1>3. CASE \E w \in Workers : Job(w) \/ StopCleaning(w) \/ CrashCleaning(w)
    BY <1>2, <1>3, JobIsWorkerStep
  <1>4. CASE \E w \in Workers : CleanerNext(w)
    BY <1>4 DEF CleanerNext, CleanerStep, ListSongJobMedia, ListSongOutputPaths, RemoveTerminal,
                Cutoff, Delete, CleanupEnds, CleanupFails, vars, queueVars
  <1>5. CASE Time \/ Age \/ UNCHANGED pipelineVars
    BY <1>5 DEF Time, TimePasses, Tick, Age, pipelineVars, vars, queueVars
  <1> QED  BY <1>1, <1>3, <1>4, <1>5 DEF PipelineNext

\* A handler at work has not committed its rows.
LEMMA UploadPhasesStep ==
    ASSUME PipelineCore, [PipelineNext]_pipelineVars
    PROVE  NewSongs' /\ \A s \in Songs : Uploading(s)' => jobState'[s] = "ABSENT"
  <1> DEFINE Goal == NewSongs' /\ \A s \in Songs : Uploading(s)' => jobState'[s] = "ABSENT"
  <1> USE DEF NewSongs, Uploading
  <1>0. /\ NewSongs
        /\ upload \in [Songs -> {"none", "saving", "saved", "over"}]
        /\ jobState \in [Songs -> JobStates]
        /\ \A s \in Songs : Uploading(s) => jobState[s] = "ABSENT"
    BY DEF PipelineCore, PipelineTypeOK, AttemptInv, TypedInv, QueueInv, QueueTypeOK
  <1>1. CASE ApiNext
    <2>1. ASSUME NEW r \in Songs, Receive(r) \/ UploadStep(r) \/ CommitUnknown(r) PROVE Goal
      BY <1>0, <2>1 DEF Receive, SaveInput, UploadStep, Reject, Validated, Commit, Rollback,
           Finished, CommitUnknown, EnqueueSongJob, DropInput, queueVars, vars, workerVars
    <2>2. CASE ApiCrash
      BY <1>0, <2>2 DEF ApiCrash, vars, queueVars, workerVars
    <2> QED  BY <1>1, <2>1, <2>2 DEF ApiNext
  <1>2. ASSUME NEW w \in Workers, WorkerNext(w), upload' = upload PROVE Goal
    <2>1. \A s \in Songs : jobState[s] = "ABSENT" => jobState'[s] = "ABSENT"
      BY <1>2, WorkerKeepsAbsent
    <2>2. inputs' \subseteq inputs
      BY <1>2, WorkerInputStep DEF PipelineCore, InputStep
    <2> QED  BY <1>0, <1>2, <2>1, <2>2
  <1>3. CASE \E w \in Workers : Job(w) \/ StopCleaning(w) \/ CrashCleaning(w)
    BY <1>2, <1>3, JobIsWorkerStep
  <1>4. ASSUME NEW w \in Workers, CleanerNext(w) PROVE Goal
    <2>1. UNCHANGED <<upload, jobState>> /\ inputs' \subseteq inputs
      BY <1>4 DEF CleanerNext, CleanerStep, ListSongJobMedia, ListSongOutputPaths, RemoveTerminal,
           DropInput, Cutoff, Delete, CleanupEnds, CleanupFails, vars, queueVars, workerVars
    <2> QED  BY <1>0, <2>1
  <1>5. CASE Time \/ Age \/ UNCHANGED pipelineVars
    BY <1>0, <1>5 DEF Time, TimePasses, Tick, Age, pipelineVars, vars, queueVars, workerVars
  <1> QED  BY <1>1, <1>3, <1>4, <1>5 DEF PipelineNext

\* A worker with no attempt has no job.
LEMMA WorkerFree ==
    ASSUME PipelineCore, NEW w \in Workers, WorkerNext(w), pc'[w] \notin Holding
    PROVE  jobOf'[w] = NoSong
  <1> USE DEF PipelineCore, AttemptInv, TypedInv, WorkerTypeOK, Unemployed, Goto, attemptVars,
              fileVars, workerVars, Return, NoAttempt, Holding, Working
  <1>1. CASE Start(w) \/ Exit(w) \/ Crash(w) \/ Stop(w)
    BY <1>1 DEF Start, Exit, Crash, Stop
  <1>2. CASE FailExpired(w) \/ FailExpiredLost(w) \/ SweepInput(w)
    BY <1>2 DEF FailExpired, FailExpiredLost, SweepInput
  <1>3. CASE Claim(w) \/ ClaimNone(w) \/ ClaimLost(w)
    BY <1>3 DEF Claim, ClaimNone, ClaimLost
  <1>4. CASE Prepare(w) \/ PrepareFails(w) \/ Publish(w) \/ ProcessFails(w) \/ Cleanup(w)
    BY <1>4 DEF Prepare, PrepareFails, Publish, ProcessFails, Cleanup
  <1>5. CASE Deadline(w) \/ Renew(w) \/ RenewFails(w)
    BY <1>5 DEF Deadline, Renew, RenewFails
  <1>6. CASE Join(w) \/ Settle(w)
    BY <1>6 DEF Join, Settle, Verdict
  <1>7. CASE Discard(w) \/ DiscardLate(w) \/ Release(w)
    BY <1>7 DEF Discard, DiscardLate, Release
  <1>8. CASE Complete(w) \/ CompleteFenced(w) \/ CompleteLost(w)
    BY <1>8 DEF Complete, CompleteFenced, CompleteLost
  <1>9. CASE Record(w) \/ RecordFenced(w) \/ RecordLost(w)
    BY <1>9 DEF Record, RecordFenced, RecordLost
  <1> QED
    BY <1>1, <1>2, <1>3, <1>4, <1>5, <1>6, <1>7, <1>8, <1>9
    DEF WorkerNext, MainStep, ProcessEnds, Disturbed

\* It makes no work directory but its attempt's, and removes one only as it cleans up.
LEMMA WorkerWorkDirs ==
    ASSUME PipelineCore, NEW w \in Workers, WorkerNext(w)
    PROVE  /\ \A d \in workDirs' \ workDirs : pc[w] = "prepare" /\ d = Dir(w)
           /\ \A d \in workDirs \ workDirs' : pc[w] = "cleanup" /\ d = Dir(w)
  <1> USE DEF attemptVars, fileVars, workerVars
  <1>1. CASE Prepare(w) \/ PrepareFails(w) \/ Cleanup(w)
    BY <1>1 DEF Prepare, PrepareFails, Cleanup
  <1>2. CASE workDirs' = workDirs
    BY <1>2
  <1> QED
    BY <1>1, <1>2
    DEF WorkerNext, MainStep, ProcessEnds, Disturbed, Start, Exit, Crash, Stop, FailExpired,
        FailExpiredLost, SweepInput, Claim, ClaimNone, ClaimLost, Publish, ProcessFails, Deadline,
        Renew, RenewFails, Join, Settle, Discard, DiscardLate, Release, Complete, CompleteFenced,
        CompleteLost, Record, RecordFenced, RecordLost

LEMMA UnemployedStep ==
    ASSUME PipelineCore, [PipelineNext]_pipelineVars
    PROVE  Unemployed'
  <1>1. ASSUME NEW w \in Workers, WorkerNext(w) PROVE Unemployed'
    BY <1>1, WorkerFree, WorkerOthersKept DEF OthersKept, PipelineCore, Unemployed
  <1>2. CASE UNCHANGED <<pc, jobOf>>
    BY <1>2 DEF PipelineCore, Unemployed
  <1>3. FilesMove \/ UNCHANGED workerVars \/ UNCHANGED vars => UNCHANGED <<pc, jobOf>>
    BY DEF FilesMove, vars, workerVars, attemptVars
  <1> QED  BY <1>1, <1>2, <1>3, CoreStep DEF LooseNext, TimePasses

\* Work directories belong to attempts given out before.
LEMMA WorkGivenOutStep ==
    ASSUME PipelineCore, [PipelineNext]_pipelineVars
    PROVE  WorkGivenOut'
  <1>1. \A d \in workDirs' : d \in workDirs
            \/ \E w \in Workers : pc[w] = "prepare" /\ d = Dir(w)
    <2>1. CASE \E w \in Workers : WorkerNext(w)
      BY <2>1, WorkerWorkDirs
    <2>2. FilesMove \/ UNCHANGED workerVars \/ UNCHANGED vars => workDirs' \subseteq workDirs
      BY DEF FilesMove, vars, workerVars
    <2> QED  BY <2>1, <2>2, CoreStep DEF LooseNext, TimePasses
  <1>2. ASSUME NEW w \in Workers, pc[w] = "prepare"
        PROVE  Dir(w)[2] <= attemptCount[Dir(w)[1]]
    BY <1>2 DEF PipelineCore, AttemptInv, TypedInv, HeldAttempts, Holding, Working, Dir
  <1>3. \A d \in workDirs' : d \in Dirs /\ d[2] <= attemptCount[d[1]]
    BY <1>1, <1>2, CoreStep DEF PipelineCore, WorkGivenOut, WorkerTypeOK
  <1> QED  BY <1>3, GivenOutStays DEF WorkGivenOut

-----------------------------------------------------------------------------
(* What the cleanups keep in memory. *)

\* The second query narrows the active attempts and learns the outputs in use.
LEMMA OutputPathsRead ==
    ASSUME PipelineCore, NEW w \in Workers, ListSongOutputPaths(w)
    PROVE  /\ refs' \in [Workers -> RefSets]
           /\ \A v \in Workers \ {w} : refs'[v] = refs[v]
           /\ refs'[w].Inputs = refs[w].Inputs /\ refs'[w].Terminal = refs[w].Terminal
           /\ refs'[w].ActiveAttempts =
                {d \in refs[w].ActiveAttempts : refs[w].Leases[d[1]] > 0}
           /\ refs'[w].Outputs = {d \in Dirs : audio[d[1]] = d[2]}
  <1>0. refs \in [Workers -> RefSets]
    BY CleanerTypes DEF PipelineCore
  <1>1. NoRefs.Leases \in [Songs -> 0..LeaseTicks]
    BY LeaseTicksAssumption DEF NoRefs
  <1> HIDE DEF NoRefs
  <1> DEFINE Live == {d \in refs[w].ActiveAttempts : refs[w].Leases[d[1]] > 0}
             Used == {d \in Dirs : audio[d[1]] = d[2]}
             None == NoRefs.Leases
  <1>2. refs' = [refs EXCEPT ![w].ActiveAttempts = Live, ![w].Leases = None, ![w].Outputs = Used]
    BY DEF ListSongOutputPaths
  <1>3. Live \subseteq Dirs /\ Used \subseteq Dirs /\ None \in [Songs -> 0..LeaseTicks]
    BY <1>0, <1>1 DEF RefSets
  <1> HIDE DEF Live, Used, None
  <1>4. refs' \in [Workers -> RefSets]
    <2> DEFINE r1 == [refs EXCEPT ![w].ActiveAttempts = Live]
               r2 == [r1 EXCEPT ![w].Leases = None]
    <2>1. r1 \in [Workers -> RefSets]
      BY <1>0, <1>3 DEF RefSets
    <2>2. refs' = [r2 EXCEPT ![w].Outputs = Used]
      BY <1>2, Zenon
    <2> HIDE DEF r1
    <2>3. r2 \in [Workers -> RefSets]
      BY <1>3, <2>1 DEF RefSets
    <2> HIDE DEF r2
    <2> QED  BY <1>3, <2>2, <2>3 DEF RefSets
  <1>5. \A v \in Workers \ {w} : refs'[v] = refs[v]
    BY <1>0, <1>2
  <1>6. /\ refs'[w].Inputs = refs[w].Inputs /\ refs'[w].Terminal = refs[w].Terminal
        /\ refs'[w].ActiveAttempts = Live /\ refs'[w].Outputs = Used
    BY <1>0, <1>2 DEF RefSets
  <1> QED  BY <1>4, <1>5, <1>6 DEF Live, Used

\* The clock changes nothing of a snapshot but its leases.
LEMMA LeasesRunOut ==
    ASSUME PipelineCore, Time, NEW w \in Workers
    PROVE  /\ refs'[w] \in RefSets
           /\ refs'[w].Inputs = refs[w].Inputs
           /\ refs'[w].ActiveAttempts = refs[w].ActiveAttempts
           /\ refs'[w].Outputs = refs[w].Outputs
           /\ refs'[w].Terminal = refs[w].Terminal
           /\ \A s \in Songs : refs'[w].Leases[s] = Down(refs[w].Leases[s])
  <1> DEFINE Left == [s \in Songs |-> Down(refs[w].Leases[s])]
  <1>0. refs[w] \in RefSets
    BY CleanerTypes DEF PipelineCore
  <1>1. Left \in [Songs -> 0..LeaseTicks]
    BY <1>0, LeaseTicksAssumption DEF RefSets, Down
  <1>2. refs'[w] = [refs[w] EXCEPT !.Leases = Left]
    BY DEF Time
  <1>3. \A s \in Songs : Left[s] = Down(refs[w].Leases[s])
    OBVIOUS
  <1> HIDE DEF Left
  <1> QED  BY <1>0, <1>1, <1>2, <1>3 DEF RefSets

\* The empty snapshot.
LEMMA NoneTyped == NoRefs \in RefSets /\ NoFiles \in FileSets
  BY LeaseTicksAssumption DEF NoRefs, NoFiles, RefSets, FileSets

\* What a cutoff condemns are files.
LEMMA CondemnedTyped ==
    ASSUME PipelineCore, NEW w \in Workers
    PROVE  Condemned(w) \in FileSets
  BY CleanerTypes, Typed
  DEF Condemned, FileSets, PipelineCore, PipelineTypeOK, WorkerTypeOK

\* Snapshots, settled and doomed files keep their types.
LEMMA RecordsTyped ==
    ASSUME PipelineCore, [PipelineNext]_pipelineVars
    PROVE  /\ refs' \in [Workers -> RefSets]
           /\ settled' \in [Workers -> FileSets]
           /\ doomed' \in [Workers -> FileSets]
  <1>0. /\ refs \in [Workers -> RefSets]
        /\ settled \in [Workers -> FileSets] /\ doomed \in [Workers -> FileSets]
    BY CleanerTypes DEF PipelineCore
  <1>1. ASSUME NEW w \in Workers, ForgetSnapshot(w)
        PROVE  /\ refs' \in [Workers -> RefSets]
               /\ settled' \in [Workers -> FileSets] /\ doomed' \in [Workers -> FileSets]
    BY <1>0, <1>1, NoneTyped DEF ForgetSnapshot
  <1>2. CASE UNCHANGED <<refs, settled, doomed>>
    BY <1>0, <1>2
  <1>3. ASSUME NEW w \in Workers, ListSongJobMedia(w)
        PROVE  /\ refs' \in [Workers -> RefSets]
               /\ settled' \in [Workers -> FileSets] /\ doomed' \in [Workers -> FileSets]
    <2> DEFINE r == [Inputs |-> {s \in Songs : jobState[s] \in Needed},
                     ActiveAttempts |-> {d \in Dirs : Holds(d[1], d[2])},
                     Leases |-> lease, Outputs |-> {},
                     Terminal |-> {s \in Songs : jobState[s] \in Terminal}]
               f == [inputs  |-> {s \in inputs : ~Uploading(s)}, work |-> workDirs,
                     outputs |-> {d \in outputs : \A v \in Workers : ~Committing(v, d)}]
    <2>1. r \in RefSets
      BY DEF RefSets, PipelineCore, AttemptInv, TypedInv, QueueInv, QueueTypeOK
    <2>2. f \in FileSets
      BY Typed DEF FileSets, WorkerTypeOK
    <2>3. refs' = [refs EXCEPT ![w] = r] /\ settled' = [settled EXCEPT ![w] = f] /\ doomed' = doomed
      BY <1>3 DEF ListSongJobMedia
    <2> HIDE DEF r, f
    <2> QED  BY <1>0, <2>1, <2>2, <2>3
  <1>4. ASSUME NEW w \in Workers, ListSongOutputPaths(w)
        PROVE  /\ refs' \in [Workers -> RefSets]
               /\ settled' \in [Workers -> FileSets] /\ doomed' \in [Workers -> FileSets]
    BY <1>0, <1>4, OutputPathsRead DEF ListSongOutputPaths
  <1>5. ASSUME NEW w \in Workers, RemoveTerminal(w)
        PROVE  /\ refs' \in [Workers -> RefSets]
               /\ settled' \in [Workers -> FileSets] /\ doomed' \in [Workers -> FileSets]
    <2>1. PICK s \in refs[w].Terminal : refs' = [refs EXCEPT ![w].Terminal = @ \ {s}]
      BY <1>5 DEF RemoveTerminal
    <2> DEFINE rest == refs[w].Terminal \ {s}
    <2>2. rest \subseteq Songs /\ refs' = [refs EXCEPT ![w].Terminal = rest]
      BY <1>0, <2>1 DEF RefSets
    <2> HIDE DEF rest
    <2>3. refs' \in [Workers -> RefSets]
      BY <1>0, <2>2 DEF RefSets
    <2> QED  BY <1>0, <1>5, <2>3 DEF RemoveTerminal
  <1>6. ASSUME NEW w \in Workers, Cutoff(w)
        PROVE  /\ refs' \in [Workers -> RefSets]
               /\ settled' \in [Workers -> FileSets] /\ doomed' \in [Workers -> FileSets]
    BY <1>0, <1>6, NoneTyped, CondemnedTyped DEF Cutoff
  <1>7. ASSUME NEW w \in Workers, Delete(w)
        PROVE  /\ refs' \in [Workers -> RefSets]
               /\ settled' \in [Workers -> FileSets] /\ doomed' \in [Workers -> FileSets]
    <2> DEFINE I(s) == doomed[w].inputs \ {s}
               W(d) == doomed[w].work \ {d}
               O(d) == doomed[w].outputs \ {d}
    <2>0. \A d : I(d) \subseteq Songs /\ W(d) \subseteq Dirs /\ O(d) \subseteq Dirs
      BY <1>0 DEF FileSets
    <2>1. \/ \E s : doomed' = [doomed EXCEPT ![w].inputs = I(s)]
          \/ \E d : doomed' = [doomed EXCEPT ![w].work = W(d)]
          \/ \E d : doomed' = [doomed EXCEPT ![w].outputs = O(d)]
      BY <1>7 DEF Delete
    <2> HIDE DEF I, W, O
    <2>2. doomed' \in [Workers -> FileSets]
      BY <1>0, <2>0, <2>1 DEF FileSets
    <2> QED  BY <1>0, <1>7, <2>2 DEF Delete
  <1>8. CASE Time
    BY <1>0, <1>8, LeasesRunOut DEF Time
  <1> QED
    BY <1>1, <1>2, <1>3, <1>4, <1>5, <1>6, <1>7, <1>8
    DEF PipelineNext, ApiNext, cleanerVars, Job, StopCleaning, CrashCleaning, CleanerNext, CleanerStep,
        CleanupEnds, CleanupFails, Age, pipelineVars

\* A worker that cleans has no job, and begins none.
LEMMA CleaningAlone ==
    ASSUME PipelineCore, [PipelineNext]_pipelineVars, NEW w \in Workers, CleaningNow(w)'
    PROVE  pc'[w] = "poll"
  <1> USE DEF CleaningNow, To
  <1>0. /\ clean \in [Workers -> {"off", "songs", "terminal", "delete", "done"}]
        /\ CleaningNow(w) => pc[w] = "poll"
    BY DEF PipelineCore, PipelineTypeOK
  <1>1. CASE UNCHANGED <<pc, clean>>
    BY <1>0, <1>1
  <1>2. ASSUME NEW v \in Workers, CleanerNext(v) PROVE pc'[w] = "poll"
    BY <1>0, <1>2
    DEF CleanerNext, CleanerStep, ListSongJobMedia, ListSongOutputPaths, RemoveTerminal, Cutoff,
        Delete, CleanupEnds, CleanupFails, Cleaning, vars, workerVars
  <1>3. ASSUME NEW v \in Workers, Job(v) PROVE pc'[w] = "poll"
    <2>1. v # w /\ CleaningNow(w)
      BY <1>0, <1>3 DEF Job
    <2>2. pc'[w] = pc[w]
      BY <1>3, <2>1, WorkerOthersKept DEF Job, OthersKept, PipelineCore
    <2> QED  BY <1>0, <2>1, <2>2
  <1>4. ASSUME NEW v \in Workers, StopCleaning(v) PROVE pc'[w] = "poll"
    BY <1>0, <1>4 DEF StopCleaning, Stop, cleanerVars
  <1>5. ASSUME NEW v \in Workers, CrashCleaning(v) PROVE pc'[w] = "poll"
    BY <1>0, <1>5 DEF CrashCleaning, Crash, Goto
  <1> QED
    BY <1>1, <1>2, <1>3, <1>4, <1>5
    DEF PipelineNext, ApiNext, Receive, SaveInput, UploadStep, Reject, Validated, Commit, Rollback,
        CommitUnknown, ApiCrash, Time, TimePasses, Age, cleanerVars, workerVars, vars, pipelineVars

\* Phases and the bound on failures keep their types.
LEMMA PhasesTyped ==
    ASSUME PipelineCore, [PipelineNext]_pipelineVars
    PROVE  /\ upload' \in [Songs -> {"none", "saving", "saved", "over"}]
           /\ clean' \in [Workers -> {"off", "songs", "terminal", "delete", "done"}]
           /\ lapses' \in 0..MaxLapses
  <1> DEFINE Goal == /\ upload' \in [Songs -> {"none", "saving", "saved", "over"}]
                     /\ clean' \in [Workers -> {"off", "songs", "terminal", "delete", "done"}]
                     /\ lapses' \in 0..MaxLapses
  <1> USE DEF Lapse, To
  <1>0. /\ upload \in [Songs -> {"none", "saving", "saved", "over"}]
        /\ clean \in [Workers -> {"off", "songs", "terminal", "delete", "done"}]
        /\ lapses \in 0..MaxLapses
    BY DEF PipelineCore, PipelineTypeOK
  <1>1. CASE ApiNext
    BY <1>0, <1>1, MaxLapsesAssumption
    DEF ApiNext, Receive, UploadStep, Reject, Validated, Commit, Rollback, CommitUnknown, ApiCrash,
        DropInput, Finished, cleanerVars
  <1>2. ASSUME NEW w \in Workers, CleanerNext(w) PROVE Goal
    <2>1. upload' = upload
      BY <1>2 DEF CleanerNext
    <2>2. clean' = clean \/ \E p \in {"songs", "terminal", "delete", "done"} : To(w, p)
      BY <1>2
      DEF CleanerNext, CleanerStep, ListSongJobMedia, ListSongOutputPaths, RemoveTerminal, Cutoff,
          Delete, CleanupEnds, CleanupFails
    <2>3. lapses' = lapses \/ Lapse
      BY <1>2
      DEF CleanerNext, CleanerStep, ListSongJobMedia, ListSongOutputPaths, RemoveTerminal, DropInput,
          Cutoff, Delete, CleanupEnds, CleanupFails
    <2> QED  BY <1>0, <2>1, <2>2, <2>3, MaxLapsesAssumption
  <1>3. ASSUME NEW w \in Workers, Job(w) \/ StopCleaning(w) \/ CrashCleaning(w) PROVE Goal
    BY <1>0, <1>3 DEF Job, StopCleaning, CrashCleaning, cleanerVars
  <1>4. CASE Time \/ Age \/ UNCHANGED pipelineVars
    BY <1>0, <1>4 DEF Time, Age, cleanerVars, pipelineVars
  <1> QED  BY <1>1, <1>2, <1>3, <1>4 DEF PipelineNext

\* Only a file that is there has an age.
LEMMA AgedStay ==
    ASSUME PipelineCore, [PipelineNext]_pipelineVars
    PROVE  /\ agedInputs' \subseteq inputs' /\ agedWork' \subseteq workDirs'
           /\ agedOutputs' \subseteq outputs'
  <1>0. agedInputs \subseteq inputs /\ agedWork \subseteq workDirs /\ agedOutputs \subseteq outputs
    BY DEF PipelineCore, PipelineTypeOK
  <1>1. CASE AgesKept
    BY <1>1 DEF AgesKept
  <1>2. CASE Time \/ UNCHANGED pipelineVars
    BY <1>0, <1>2 DEF Time, TimePasses, pipelineVars, vars, workerVars, agedVars
  <1>3. CASE Age
    BY <1>0, <1>3 DEF Age, vars, workerVars
  <1> QED
    BY <1>1, <1>2, <1>3 DEF PipelineNext, ApiNext, Job, CleanerNext, StopCleaning, CrashCleaning

\* A step keeps the type invariant.
LEMMA PipelineTypeStep ==
    ASSUME PipelineCore, [PipelineNext]_pipelineVars
    PROVE  PipelineTypeOK'
  <1>1. \A w \in Workers : CleaningNow(w)' => pc'[w] = "poll" /\ jobOf'[w] = NoSong
    BY CleaningAlone, UnemployedStep DEF Unemployed, Holding, Working
  <1> QED
    BY <1>1, UploadPhasesStep, RecordsTyped, PhasesTyped, AgedStay
    DEF PipelineTypeOK, RefSets, FileSets

-----------------------------------------------------------------------------
(* What a cleanup knows: it learns in three steps, and between them others, and  *)
(* time, go on.                                                                *)

\* A step in which w's cleanup learns nothing, or forgets all.
Untouched(w) ==
    /\ refs'[w].Terminal \subseteq refs[w].Terminal
    /\ doomed'[w].inputs \subseteq doomed[w].inputs
    /\ doomed'[w].work \subseteq doomed[w].work
    /\ doomed'[w].outputs \subseteq doomed[w].outputs
    /\ clean'[w] \in Deciding =>
         /\ clean'[w] = clean[w]
         /\ refs'[w].Inputs = refs[w].Inputs
         /\ refs'[w].ActiveAttempts = refs[w].ActiveAttempts
         /\ refs'[w].Outputs = refs[w].Outputs
         /\ refs'[w].Leases = refs[w].Leases \/ Time
         /\ settled'[w] = settled[w]

Learns(w) ==
    /\ CleanerNext(w)
    /\ ListSongJobMedia(w) \/ ListSongOutputPaths(w) \/ Cutoff(w)

\* Nothing of w's cleanup changes, or it ends.
LEMMA SameIsUntouched ==
    ASSUME NEW w, refs'[w] = refs[w], settled'[w] = settled[w], doomed'[w] = doomed[w],
           clean'[w] = clean[w] \/ clean'[w] \notin Deciding
    PROVE  Untouched(w)
  BY DEF Untouched

\* A cleanup that fails or crashes knows nothing any more.
LEMMA ForgottenIsUntouched ==
    ASSUME PipelineCore, NEW w \in Workers, ForgetSnapshot(w), clean'[w] \notin Deciding
    PROVE  Untouched(w)
  <1>1. refs'[w] = NoRefs /\ doomed'[w] = NoFiles
    BY CleanerTypes DEF ForgetSnapshot, PipelineCore
  <1> QED  BY <1>1 DEF Untouched, NoRefs, NoFiles

\* A deletion takes one file from the list.
LEMMA DeleteIsUntouched ==
    ASSUME PipelineCore, NEW w \in Workers, Delete(w)
    PROVE  Untouched(w)
  <1> DEFINE I(s) == doomed[w].inputs \ {s}
             W(d) == doomed[w].work \ {d}
             O(d) == doomed[w].outputs \ {d}
  <1>0. doomed \in [Workers -> FileSets]
    BY CleanerTypes DEF PipelineCore
  <1>1. \/ \E s : doomed' = [doomed EXCEPT ![w].inputs = I(s)]
        \/ \E d : doomed' = [doomed EXCEPT ![w].work = W(d)]
        \/ \E d : doomed' = [doomed EXCEPT ![w].outputs = O(d)]
    BY DEF Delete
  <1>2. \A d : /\ I(d) \subseteq doomed[w].inputs
               /\ W(d) \subseteq doomed[w].work
               /\ O(d) \subseteq doomed[w].outputs
    OBVIOUS
  <1> HIDE DEF I, W, O
  <1>3. ASSUME NEW s, doomed' = [doomed EXCEPT ![w].inputs = I(s)]
        PROVE  /\ doomed'[w].inputs = I(s) /\ doomed'[w].work = doomed[w].work
               /\ doomed'[w].outputs = doomed[w].outputs
    BY <1>0, <1>3 DEF FileSets
  <1>4. ASSUME NEW d, doomed' = [doomed EXCEPT ![w].work = W(d)]
        PROVE  /\ doomed'[w].inputs = doomed[w].inputs /\ doomed'[w].work = W(d)
               /\ doomed'[w].outputs = doomed[w].outputs
    BY <1>0, <1>4 DEF FileSets
  <1>5. ASSUME NEW d, doomed' = [doomed EXCEPT ![w].outputs = O(d)]
        PROVE  /\ doomed'[w].inputs = doomed[w].inputs /\ doomed'[w].work = doomed[w].work
               /\ doomed'[w].outputs = O(d)
    BY <1>0, <1>5 DEF FileSets
  <1>6. /\ doomed'[w].inputs \subseteq doomed[w].inputs
        /\ doomed'[w].work \subseteq doomed[w].work
        /\ doomed'[w].outputs \subseteq doomed[w].outputs
    BY <1>1, <1>2, <1>3, <1>4, <1>5
  <1>7. refs' = refs /\ clean'[w] \notin Deciding
    BY DEF Delete, Cleaning, Deciding
  <1> QED  BY <1>6, <1>7 DEF Untouched

\* The removal of the terminal inputs shortens the list of them.
LEMMA RemoveTerminalIsUntouched ==
    ASSUME PipelineCore, NEW w \in Workers, RemoveTerminal(w)
    PROVE  Untouched(w)
  <1>1. PICK s \in refs[w].Terminal : refs' = [refs EXCEPT ![w].Terminal = @ \ {s}]
    BY DEF RemoveTerminal
  <1>2. refs \in [Workers -> RefSets]
    BY CleanerTypes DEF PipelineCore
  <1>3. /\ refs'[w].Terminal \subseteq refs[w].Terminal
        /\ refs'[w].Inputs = refs[w].Inputs
        /\ refs'[w].ActiveAttempts = refs[w].ActiveAttempts
        /\ refs'[w].Outputs = refs[w].Outputs
        /\ refs'[w].Leases = refs[w].Leases
    BY <1>1, <1>2 DEF RefSets
  <1>4. UNCHANGED <<clean, settled, doomed>>
    BY DEF RemoveTerminal
  <1> QED  BY <1>3, <1>4 DEF Untouched

\* A cleanup learns in its two queries and at its cutoff alone.
LEMMA StepKinds ==
    ASSUME PipelineCore, [PipelineNext]_pipelineVars, NEW v \in Workers
    PROVE  Untouched(v) \/ Learns(v)
  <1>0. /\ clean \in [Workers -> {"off", "songs", "terminal", "delete", "done"}]
        /\ refs \in [Workers -> RefSets]
        /\ settled \in [Workers -> FileSets] /\ doomed \in [Workers -> FileSets]
    BY CleanerTypes DEF PipelineCore, PipelineTypeOK
  <1>1. CASE ApiNext \/ Age \/ UNCHANGED pipelineVars
    BY <1>1, SameIsUntouched DEF ApiNext, Age, pipelineVars, cleanerVars
  <1>2. ASSUME NEW w \in Workers, Job(w) \/ StopCleaning(w) PROVE Untouched(v)
    <2>1. UNCHANGED <<refs, settled, doomed>> /\ (clean'[v] = clean[v] \/ clean'[v] \notin Deciding)
      BY <1>0, <1>2 DEF Job, StopCleaning, cleanerVars, Deciding
    <2> QED  BY <2>1, SameIsUntouched
  <1>3. ASSUME NEW w \in Workers, CrashCleaning(w) PROVE Untouched(v)
    <2>1. CASE v = w
      BY <1>0, <1>3, <2>1, ForgottenIsUntouched DEF CrashCleaning, To, Deciding
    <2>2. CASE v # w
      BY <1>0, <1>3, <2>2, SameIsUntouched DEF CrashCleaning, To, ForgetSnapshot
    <2> QED  BY <2>1, <2>2
  <1>4. CASE Time
    <2>1. UNCHANGED <<clean, settled, doomed>>
      BY <1>4 DEF Time
    <2> QED  BY <1>4, <2>1, LeasesRunOut DEF Untouched
  <1>5. ASSUME NEW w \in Workers, CleanerNext(w), v # w PROVE Untouched(v)
    <2>1. refs'[v] = refs[v] /\ settled'[v] = settled[v] /\ doomed'[v] = doomed[v] /\ clean'[v] = clean[v]
      BY <1>0, <1>5, OutputPathsRead
      DEF CleanerNext, CleanerStep, ListSongJobMedia, ListSongOutputPaths, RemoveTerminal, Cutoff,
          Delete, CleanupEnds, CleanupFails, ForgetSnapshot, To
    <2> QED  BY <2>1, SameIsUntouched
  <1>6. ASSUME CleanerNext(v), ~Learns(v) PROVE Untouched(v)
    <2>1. CASE RemoveTerminal(v) \/ Delete(v)
      BY <2>1, RemoveTerminalIsUntouched, DeleteIsUntouched
    <2>2. CASE CleanupEnds(v)
      <3>1. UNCHANGED <<refs, settled, doomed>> /\ clean'[v] \notin Deciding
        BY <1>0, <2>2 DEF CleanupEnds, To, Deciding
      <3> QED  BY <3>1, SameIsUntouched
    <2>3. CASE CleanupFails(v)
      BY <1>0, <2>3, ForgottenIsUntouched DEF CleanupFails, To, Deciding
    <2> QED  BY <1>6, <2>1, <2>2, <2>3 DEF Learns, CleanerNext, CleanerStep
  <1> QED  BY <1>1, <1>2, <1>3, <1>4, <1>5, <1>6 DEF PipelineNext

\* Under "cutoff", a file that comes of age was settled for each cleanup deciding.
LEMMA AgesWatched ==
    ASSUME "cutoff" \in Prompt, [PipelineNext]_pipelineVars, NEW w \in Workers,
           clean[w] \in Deciding
    PROVE  /\ agedInputs' \subseteq agedInputs \cup settled[w].inputs
           /\ agedWork' \subseteq agedWork \cup settled[w].work
           /\ agedOutputs' \subseteq agedOutputs \cup settled[w].outputs
  <1>1. CASE AgesKept \/ Time \/ UNCHANGED pipelineVars
    BY <1>1 DEF AgesKept, Time, pipelineVars, agedVars
  <1>2. CASE Age
    BY <1>2 DEF Age, Tellable, Deciding
  <1> QED
    BY <1>1, <1>2 DEF PipelineNext, ApiNext, Job, CleanerNext, StopCleaning, CrashCleaning

\* While it learns, nothing else happens.
LEMMA LearningIsReading ==
    ASSUME NEW w \in Workers, Learns(w)
    PROVE  /\ UNCHANGED <<vars, upload>>
           /\ agedInputs' \subseteq agedInputs /\ agedWork' \subseteq agedWork
           /\ agedOutputs' \subseteq agedOutputs
           /\ \A s : Closed(s)' <=> Closed(s)
           /\ \A d : /\ Dead(d)' <=> Dead(d)
                     /\ Active(d)' <=> Active(d)
                     /\ Passed(d)' <=> Passed(d)
                     /\ Referenced(d)' <=> Referenced(d)
  <1>1. UNCHANGED <<vars, upload>> /\ AgesKept
    BY DEF Learns, CleanerNext, ListSongJobMedia, ListSongOutputPaths, Cutoff
  <1>2. \A s : Closed(s)' <=> Closed(s)
    BY <1>1 DEF Closed, vars, queueVars
  <1>3. \A d : (Dead(d)' <=> Dead(d)) /\ (Active(d)' <=> Active(d)) /\ (Passed(d)' <=> Passed(d))
                 /\ (Referenced(d)' <=> Referenced(d))
    BY <1>1 DEF Dead, Active, Holds, Passed, Committing, Dir, Referenced, vars, queueVars, songVars,
                workerVars, attemptVars
  <1> QED  BY <1>1, <1>2, <1>3 DEF AgesKept

\* What the first query reads of the rows, and what it finds settled.
LEMMA JobMediaRead ==
    ASSUME PipelineCore, NEW w \in Workers, ListSongJobMedia(w)
    PROVE  /\ clean'[w] = "songs" /\ doomed' = doomed
           /\ refs'[w].Inputs = {s \in Songs : jobState[s] \in Needed}
           /\ refs'[w].ActiveAttempts = {d \in Dirs : Holds(d[1], d[2])}
           /\ refs'[w].Leases = lease
           /\ refs'[w].Terminal = {s \in Songs : jobState[s] \in Terminal}
           /\ settled'[w].inputs = {s \in inputs : ~Uploading(s)}
           /\ settled'[w].work = workDirs
           /\ settled'[w].outputs = {d \in outputs : \A v \in Workers : ~Committing(v, d)}
  BY CleanerTypes DEF ListSongJobMedia, To, PipelineCore, PipelineTypeOK

LEMMA OutputPathsPhases ==
    ASSUME PipelineCore, NEW w \in Workers, ListSongOutputPaths(w)
    PROVE  clean[w] = "songs" /\ clean'[w] = "terminal" /\ UNCHANGED <<settled, doomed>>
  BY DEF ListSongOutputPaths, Cleaning, To, PipelineCore, PipelineTypeOK

LEMMA CutoffPhases ==
    ASSUME PipelineCore, NEW w \in Workers, Cutoff(w)
    PROVE  /\ clean[w] = "terminal" /\ clean'[w] = "delete"
           /\ clean'[w] \notin Deciding
           /\ refs'[w] = NoRefs
           /\ doomed'[w].inputs = agedInputs \ refs[w].Inputs
           /\ doomed'[w].work = agedWork \ refs[w].ActiveAttempts
           /\ doomed'[w].outputs = agedOutputs \ (refs[w].ActiveAttempts \cup refs[w].Outputs)
  <1>1. /\ clean[w] = "terminal" /\ clean'[w] = "delete"
        /\ refs'[w] = NoRefs /\ doomed'[w] = Condemned(w)
    BY CleanerTypes DEF Cutoff, Cleaning, To, PipelineCore, PipelineTypeOK
  <1> QED  BY <1>1 DEF Condemned, Deciding

\* What a cleanup knows are songs and directories.
LEMMA KnownTyped ==
    ASSUME PipelineCore, NEW w \in Workers
    PROVE  /\ agedInputs \cup settled[w].inputs \subseteq Songs
           /\ agedWork \cup settled[w].work \subseteq Dirs
           /\ agedOutputs \cup settled[w].outputs \subseteq Dirs
           /\ refs[w] \in RefSets /\ doomed[w] \in FileSets
  BY CleanerTypes, Typed DEF FileSets, PipelineCore, PipelineTypeOK, WorkerTypeOK

\* What a snapshot has read of finished jobs and of attempts given out stays true.
LEMMA RowsReadStep ==
    ASSUME PipelineCore, [PipelineNext]_pipelineVars, NEW w \in Workers
    PROVE  RowsRead(w)'
  <1>0. RowsRead(w) /\ refs[w] \in RefSets
    BY KnownTyped DEF PipelineCore
  <1>1. \A s \in Songs : jobState[s] \in Terminal => jobState'[s] \in Terminal
    BY CoreStep, FactsStay DEF PipelineCore
  <1>2. \A d \in Dirs : d[2] <= attemptCount[d[1]] => d[2] <= attemptCount'[d[1]]
    BY GivenOutStays
  <1>3. CASE Untouched(w)
    BY <1>0, <1>1, <1>2, <1>3 DEF Untouched, RowsRead, Deciding, RefSets
  <1>4. CASE Learns(w)
    <2>0. UNCHANGED <<jobState, attemptCount>>
      BY <1>4, LearningIsReading DEF vars, queueVars
    <2>1. CASE ListSongJobMedia(w)
      <3>1. ASSUME NEW d \in Dirs, Holds(d[1], d[2]) PROVE d[2] <= attemptCount[d[1]]
        <4>1. attemptCount[d[1]] = d[2] /\ d[2] \in Nat
          BY <3>1, DirParts DEF Holds
        <4> QED  BY <4>1
      <3> QED  BY <2>0, <2>1, <3>1, JobMediaRead DEF RowsRead
    <2>2. CASE ListSongOutputPaths(w)
      BY <1>0, <2>0, <2>2, OutputPathsRead, OutputPathsPhases DEF RowsRead
    <2>3. CASE Cutoff(w)
      BY <2>3, CutoffPhases DEF RowsRead, NoRefs
    <2> QED  BY <1>4, <2>1, <2>2, <2>3 DEF Learns
  <1> QED  BY <1>3, <1>4, StepKinds

\* The core is inductive, whatever the timing.
LEMMA NextKeepsPipelineCore == PipelineCore /\ [PipelineNext]_pipelineVars => PipelineCore'
  <1> SUFFICES ASSUME PipelineCore, [PipelineNext]_pipelineVars PROVE PipelineCore'
    OBVIOUS
  <1> QED
    BY CoreStep, PipelineTypeStep, UploadPhasesStep, UnemployedStep, WorkGivenOutStep, RowsReadStep
    DEF PipelineCore

-----------------------------------------------------------------------------
(* What happens to the files. *)

\* Who removes a file: the upload's own handler, when it gives up; a worker, when it
\* is done with it; or a cleanup that has condemned it.
LEMMA FilesRemoved ==
    ASSUME PipelineCore, [PipelineNext]_pipelineVars
    PROVE  /\ \A s \in inputs \ inputs' :
                \/ Uploading(s) /\ upload'[s] = "over"
                \/ jobState[s] \in Terminal
                \/ \E w \in Workers : s \in doomed[w].inputs
           /\ \A d \in workDirs \ workDirs' :
                \/ \E w \in Workers : pc[w] = "cleanup" /\ Dir(w) = d
                \/ \E w \in Workers : d \in doomed[w].work
           /\ \/ \E w \in Workers : WorkerNext(w)
              \/ \A d \in outputs \ outputs' : \E w \in Workers : d \in doomed[w].outputs
  <1> DEFINE Goal ==
           /\ \A s \in inputs \ inputs' :
                \/ Uploading(s) /\ upload'[s] = "over"
                \/ jobState[s] \in Terminal
                \/ \E w \in Workers : s \in doomed[w].inputs
           /\ \A d \in workDirs \ workDirs' :
                \/ \E w \in Workers : pc[w] = "cleanup" /\ Dir(w) = d
                \/ \E w \in Workers : d \in doomed[w].work
           /\ \/ \E w \in Workers : WorkerNext(w)
              \/ \A d \in outputs \ outputs' : \E w \in Workers : d \in doomed[w].outputs
  <1>1. ASSUME inputs \subseteq inputs', UNCHANGED <<workDirs, outputs>> PROVE Goal
    BY <1>1
  <1>2. UNCHANGED vars \/ UNCHANGED workerVars => inputs \subseteq inputs' /\ UNCHANGED <<workDirs, outputs>>
    BY DEF vars, workerVars
  <1>3. CASE ApiNext
    <2>1. ASSUME NEW s \in Songs, Reject(s) \/ Rollback(s) PROVE Goal
      <3>1. Uploading(s) /\ upload'[s] = "over"
        BY <2>1 DEF Reject, Rollback, Finished, Uploading, PipelineCore, PipelineTypeOK
      <3> QED  BY <2>1, <3>1 DEF Reject, Rollback, DropInput
    <2>2. ASSUME NEW s \in Songs, Receive(s) \/ Validated(s) \/ Commit(s) \/ CommitUnknown(s) PROVE Goal
      BY <1>1, <1>2, <2>2 DEF Receive, SaveInput, Validated, Commit, CommitUnknown
    <2>3. CASE ApiCrash
      BY <1>1, <1>2, <2>3 DEF ApiCrash
    <2> QED  BY <1>3, <2>1, <2>2, <2>3 DEF ApiNext, UploadStep
  <1>4. ASSUME NEW w \in Workers, Job(w) \/ StopCleaning(w) \/ CrashCleaning(w) PROVE Goal
    <2>1. WorkerNext(w)
      BY <1>4, JobIsWorkerStep
    <2>2. \A s \in inputs \ inputs' : jobState[s] \in Terminal
      BY <2>1, WorkerInputStep
      DEF PipelineCore, AttemptInv, InputStep, SweepsFinished, ReleasesFinished
    <2> QED  BY <2>1, <2>2, WorkerWorkDirs
  <1>5. ASSUME NEW w \in Workers, CleanerNext(w) PROVE Goal
    <2>1. CASE RemoveTerminal(w)
      <3>1. PICK s \in refs[w].Terminal : DropInput(s)
        BY <2>1 DEF RemoveTerminal
      <3>2. jobState[s] \in Terminal
        BY DEF PipelineCore, RowsRead
      <3> QED  BY <2>1, <3>1, <3>2 DEF RemoveTerminal, DropInput
    <2>2. CASE Delete(w)
      BY <2>2 DEF Delete
    <2>3. CASE UNCHANGED vars
      BY <1>1, <1>2, <2>3
    <2> QED
      BY <1>5, <2>1, <2>2, <2>3 DEF CleanerNext, CleanerStep, ListSongJobMedia,
         ListSongOutputPaths, Cutoff, CleanupEnds, CleanupFails
  <1>6. CASE Time \/ Age \/ UNCHANGED pipelineVars
    BY <1>1, <1>2, <1>6 DEF Time, TimePasses, Age, pipelineVars
  <1> QED  BY <1>3, <1>4, <1>5, <1>6 DEF PipelineNext

-----------------------------------------------------------------------------
(* The inputs, if uploads are timely. *)

\* An upload begins with a new file ...
LEMMA UploadBegins ==
    ASSUME PipelineCore, [PipelineNext]_pipelineVars, NEW s \in Songs, Uploading(s)', ~Uploading(s)
    PROVE  s \in inputs' /\ s \notin agedInputs'
  <1> USE DEF Uploading
  <1>0. upload \in [Songs -> {"none", "saving", "saved", "over"}] /\ agedInputs \subseteq inputs
    BY DEF PipelineCore, PipelineTypeOK
  <1>1. upload' # upload
    OBVIOUS
  <1>2. CASE ApiNext
    <2>1. ASSUME NEW r \in Songs, Receive(r) PROVE s \in inputs' /\ s \notin inputs
      BY <1>0, <2>1 DEF Receive, SaveInput
    <2>2. ASSUME NEW r \in Songs, UploadStep(r) \/ CommitUnknown(r) PROVE FALSE
      BY <1>0, <2>2 DEF UploadStep, Reject, Validated, Commit, Rollback, Finished, CommitUnknown
    <2>3. CASE ApiCrash
      BY <1>0, <2>3 DEF ApiCrash
    <2> QED  BY <1>0, <1>2, <2>1, <2>2, <2>3 DEF ApiNext, AgesKept
  <1> QED
    BY <1>1, <1>2
    DEF PipelineNext, Job, StopCleaning, CrashCleaning, CleanerNext, Time, Age, pipelineVars

\* ... and a job, with the end of one.
LEMMA JobBegins ==
    ASSUME PipelineCore, [PipelineNext]_pipelineVars, NEW s \in Songs,
           jobState'[s] \in Needed, jobState[s] \notin Needed
    PROVE  Uploading(s) /\ inputs' = inputs
  <1>0. jobState \in [Songs -> JobStates]
    BY DEF PipelineCore, AttemptInv, TypedInv, QueueInv, QueueTypeOK
  <1>1. jobState' # jobState
    OBVIOUS
  <1>2. CASE ApiNext
    <2>1. ASSUME NEW r \in Songs, Commit(r) \/ CommitUnknown(r) PROVE Uploading(s) /\ inputs' = inputs
      <3>1. EnqueueSongJob(r)
        BY <1>1, <2>1 DEF Commit, CommitUnknown, queueVars
      <3>2. s = r
        BY <1>0, <3>1 DEF EnqueueSongJob
      <3> QED  BY <2>1, <3>2 DEF Commit, CommitUnknown, workerVars, Uploading
    <2>2. ASSUME NEW r \in Songs, Receive(r) \/ Reject(r) \/ Validated(r) \/ Rollback(r) PROVE FALSE
      BY <1>1, <2>2 DEF Receive, SaveInput, Reject, Validated, Rollback, vars, queueVars
    <2>3. CASE ApiCrash
      BY <1>1, <2>3 DEF ApiCrash, vars, queueVars
    <2> QED  BY <1>2, <2>1, <2>2, <2>3 DEF ApiNext, UploadStep
  <1>3. ASSUME NEW w \in Workers, WorkerNext(w) PROVE FALSE
    BY <1>3, WorkerRows DEF PipelineCore
  <1>4. CASE \E w \in Workers : Job(w) \/ StopCleaning(w) \/ CrashCleaning(w)
    BY <1>3, <1>4, JobIsWorkerStep
  <1>5. CASE \E w \in Workers : CleanerNext(w)
    BY <1>1, <1>5
    DEF CleanerNext, CleanerStep, ListSongJobMedia, ListSongOutputPaths, RemoveTerminal, Cutoff,
        Delete, CleanupEnds, CleanupFails, vars, queueVars
  <1>6. CASE Time \/ Age \/ UNCHANGED pipelineVars
    BY <1>1, <1>6 DEF Time, TimePasses, Tick, Age, pipelineVars, vars, queueVars
  <1> QED  BY <1>2, <1>4, <1>5, <1>6 DEF PipelineNext

\* Nobody removes the file of an upload under way, nor does it grow old.
LEMMA UploadsKeptStep ==
    ASSUME UploadsTimely, PipelineCore, InputSide, [PipelineNext]_pipelineVars
    PROVE  UploadsKept'
  <1> SUFFICES ASSUME NEW s \in Songs, Uploading(s)' PROVE s \in inputs' /\ s \notin agedInputs'
    BY DEF UploadsKept
  <1>1. CASE ~Uploading(s)
    BY <1>1, UploadBegins
  <1>2. CASE Uploading(s)
    <2>1. s \in inputs /\ s \notin agedInputs /\ jobState[s] \notin Terminal
      BY <1>2 DEF InputSide, UploadsKept, PipelineCore, PipelineTypeOK, Terminal
    <2>2. \A w \in Workers : s \notin doomed[w].inputs
      BY <1>2 DEF InputSide, InputsRead, Closed, Uploading
    <2>3. s \in inputs'
      BY <2>1, <2>2, FilesRemoved DEF Uploading
    <2>4. s \notin agedInputs'
      <3>1. CASE AgesKept \/ Time \/ UNCHANGED pipelineVars
        BY <2>1, <3>1 DEF AgesKept, Time, pipelineVars, agedVars
      <3>2. CASE Age
        BY <1>2, <2>1, <3>2 DEF Age, UploadsTimely
      <3> QED
        BY <3>1, <3>2 DEF PipelineNext, ApiNext, Job, CleanerNext, StopCleaning, CrashCleaning
    <2> QED  BY <2>3, <2>4
  <1> QED  BY <1>1, <1>2

\* The input of an open job stays.
LEMMA InputKeptStep ==
    ASSUME PipelineCore, InputSide, [PipelineNext]_pipelineVars
    PROVE  InputKept'
  <1> SUFFICES ASSUME NEW s \in Songs, jobState'[s] \in Needed PROVE s \in inputs'
    BY DEF InputKept
  <1>1. CASE jobState[s] \notin Needed
    BY <1>1, JobBegins DEF InputSide, UploadsKept
  <1>2. CASE jobState[s] \in Needed
    <2>1. s \in inputs
      BY <1>2 DEF InputSide, InputKept
    <2>2. ~Uploading(s) /\ jobState[s] \notin Terminal
      BY <1>2 DEF PipelineCore, PipelineTypeOK, Needed, Terminal
    <2>3. \A w \in Workers : s \notin doomed[w].inputs
      BY <1>2 DEF InputSide, InputsRead, Closed
    <2> QED  BY <2>1, <2>2, <2>3, FilesRemoved
  <1> QED  BY <1>1, <1>2

\* No cleanup condemns an input that is needed.
LEMMA InputsReadStep ==
    ASSUME UploadsTimely, PipelineCore, InputSide, [PipelineNext]_pipelineVars, NEW w \in Workers
    PROVE  InputsRead(w)'
  <1>0. InputsRead(w) /\ "cutoff" \in Prompt
    BY DEF InputSide, UploadsTimely
  <1>1. CASE Untouched(w)
    <2>1. \A s \in Songs : Closed(s) => Closed(s)'
      BY ClosedStays
    <2>2. doomed'[w].inputs \subseteq doomed[w].inputs /\ doomed[w].inputs \subseteq Songs
      BY <1>1, KnownTyped DEF Untouched, FileSets
    <2>3. \A s \in doomed'[w].inputs : Closed(s)'
      BY <1>0, <2>1, <2>2 DEF InputsRead
    <2>4. ASSUME clean'[w] \in Deciding, NEW s \in agedInputs' \cup settled'[w].inputs
          PROVE  s \in refs'[w].Inputs \/ Closed(s)'
      <3>1. /\ clean[w] \in Deciding
            /\ refs'[w].Inputs = refs[w].Inputs /\ settled'[w] = settled[w]
        BY <1>1, <2>4 DEF Untouched
      <3>2. s \in agedInputs \cup settled[w].inputs /\ s \in Songs
        BY <1>0, <2>4, <3>1, AgesWatched, KnownTyped
      <3> QED  BY <1>0, <2>1, <3>1, <3>2 DEF InputsRead
    <2> QED  BY <2>3, <2>4 DEF InputsRead
  <1>2. CASE Learns(w)
    <2> USE LearningIsReading, <1>2
    <2>1. CASE ListSongJobMedia(w)
      <3>1. ASSUME NEW s \in agedInputs' \cup settled'[w].inputs
            PROVE  s \in refs'[w].Inputs \/ Closed(s)
        <4>1. s \in inputs /\ s \in Songs
          BY <2>1, <3>1, JobMediaRead, Typed DEF PipelineCore, PipelineTypeOK, WorkerTypeOK
        <4>2. ~Uploading(s)
          BY <2>1, <3>1, <4>1, JobMediaRead DEF InputSide, UploadsKept
        <4>3. upload[s] = "over"
          BY <4>1, <4>2 DEF PipelineCore, PipelineTypeOK, NewSongs, Uploading
        <4> QED  BY <2>1, <4>1, <4>3, JobMediaRead DEF Closed
      <3> QED  BY <1>0, <2>1, <3>1, JobMediaRead DEF InputsRead
    <2>2. CASE ListSongOutputPaths(w)
      BY <1>0, <2>2, OutputPathsRead, OutputPathsPhases DEF InputsRead, Deciding
    <2>3. CASE Cutoff(w)
      <3>1. /\ clean[w] = "terminal" /\ clean'[w] \notin Deciding
            /\ doomed'[w].inputs = agedInputs \ refs[w].Inputs
        BY <2>3, CutoffPhases
      <3>2. \A s \in doomed'[w].inputs : Closed(s)
        BY <1>0, <3>1 DEF InputsRead, Deciding
      <3> QED  BY <3>1, <3>2 DEF InputsRead
    <2> QED  BY <2>1, <2>2, <2>3 DEF Learns
  <1> QED  BY <1>1, <1>2, StepKinds

LEMMA InputSideStep ==
    ASSUME UploadsTimely
    PROVE  PipelineCore /\ InputSide /\ [PipelineNext]_pipelineVars => InputSide'
  <1> SUFFICES ASSUME PipelineCore, InputSide, [PipelineNext]_pipelineVars PROVE InputSide'
    OBVIOUS
  <1> QED  BY UploadsKeptStep, InputKeptStep, InputsReadStep DEF InputSide

-----------------------------------------------------------------------------
(* The outputs, if commits are timely. *)

\* An output that no worker may commit any more never will be.
LEMMA IdleOutputPassed ==
    ASSUME PipelineCore, NEW d \in outputs, \A w \in Workers : ~Committing(w, d)
    PROVE  Passed(d)
  BY DEF Passed, PipelineCore, AttemptInv, OutputsGivenOut, NoOutputCollision

\* What passed, has passed; and is not committed later.
LEMMA PassedStays ==
    ASSUME PipelineCore, [PipelineNext]_pipelineVars, NEW d \in Dirs, Passed(d)
    PROVE  Passed(d)' /\ (~Referenced(d) => ~Referenced(d)')
  BY CoreStep, FactsStay DEF PipelineCore

\* No output grows old before its commit.
LEMMA AgedPassedStep ==
    ASSUME CommitsTimely, PipelineCore, AgedPassed, [PipelineNext]_pipelineVars
    PROVE  AgedPassed'
  <1>1. \A d \in agedOutputs : d \in Dirs /\ Passed(d)
    BY Typed DEF WorkerTypeOK, PipelineCore, PipelineTypeOK, AgedPassed
  <1>2. CASE agedOutputs' \subseteq agedOutputs
    BY <1>1, <1>2, PassedStays DEF AgedPassed
  <1>3. CASE Age
    <2>1. \A d \in agedOutputs' : d \in Dirs /\ Passed(d)
      BY <1>1, <1>3, IdleOutputPassed, Typed DEF Age, CommitsTimely, WorkerTypeOK
    <2> QED  BY <2>1, PassedStays DEF AgedPassed
  <1>4. AgesKept \/ Time \/ UNCHANGED pipelineVars => agedOutputs' \subseteq agedOutputs
    BY DEF AgesKept, Time, pipelineVars, agedVars
  <1> QED
    BY <1>2, <1>3, <1>4 DEF PipelineNext, ApiNext, Job, CleanerNext, StopCleaning, CrashCleaning

\* A cleanup removes no output that is used or may be.
LEMMA OutputInvStep ==
    ASSUME PipelineCore, OutputSide, [PipelineNext]_pipelineVars
    PROVE  OutputInv'
  <1>1. \A w \in Workers : \A d \in doomed[w].outputs :
            ~Referenced(d) /\ \A v \in Workers : ~Committing(v, d)
    BY DEF OutputSide, OutputsRead, Passed
  <1>2. \/ \E w \in Workers : WorkerNext(w)
        \/ \A d \in outputs \ outputs' : ~Referenced(d) /\ \A w \in Workers : ~Committing(w, d)
    BY <1>1, FilesRemoved
  <1> QED  BY <1>2, CoreStep, LooseKeepsOutputInv DEF PipelineCore, OutputSide

\* No cleanup condemns an output that is used or may be.
LEMMA OutputsReadStep ==
    ASSUME CommitsTimely, PipelineCore, OutputSide, [PipelineNext]_pipelineVars, NEW w \in Workers
    PROVE  OutputsRead(w)'
  <1>0. OutputsRead(w) /\ "cutoff" \in Prompt
    BY DEF OutputSide, CommitsTimely
  <1>1. CASE Untouched(w)
    <2>1. \A d \in Dirs : Passed(d) => Passed(d)' /\ (~Referenced(d) => ~Referenced(d)')
      BY PassedStays
    <2>2. doomed'[w].outputs \subseteq doomed[w].outputs /\ doomed[w].outputs \subseteq Dirs
      BY <1>1, KnownTyped DEF Untouched, FileSets
    <2>3. \A d \in doomed'[w].outputs : Passed(d)' /\ ~Referenced(d)'
      BY <1>0, <2>1, <2>2 DEF OutputsRead
    <2>4. ASSUME clean'[w] \in Deciding, NEW d \in agedOutputs' \cup settled'[w].outputs
          PROVE  /\ Passed(d)'
                 /\ clean'[w] = "terminal" => d \in refs'[w].Outputs \/ ~Referenced(d)'
      <3>1. /\ clean[w] \in Deciding /\ clean'[w] = clean[w]
            /\ refs'[w].Outputs = refs[w].Outputs /\ settled'[w] = settled[w]
        BY <1>1, <2>4 DEF Untouched
      <3>2. d \in agedOutputs \cup settled[w].outputs /\ d \in Dirs
        BY <1>0, <2>4, <3>1, AgesWatched, KnownTyped
      <3> QED  BY <1>0, <2>1, <3>1, <3>2 DEF OutputsRead
    <2> QED  BY <2>3, <2>4 DEF OutputsRead, Deciding
  <1>2. CASE Learns(w)
    <2> USE LearningIsReading, <1>2
    <2>1. CASE ListSongJobMedia(w)
      <3>1. ASSUME NEW d \in agedOutputs' \cup settled'[w].outputs PROVE Passed(d)
        BY <2>1, <3>1, JobMediaRead, IdleOutputPassed DEF OutputSide, AgedPassed
      <3> QED  BY <1>0, <2>1, <3>1, JobMediaRead DEF OutputsRead
    <2>2. CASE ListSongOutputPaths(w)
      <3>1. ASSUME NEW d \in agedOutputs \cup settled[w].outputs
            PROVE  Passed(d) /\ (d \in refs'[w].Outputs \/ ~Referenced(d))
        BY <1>0, <2>2, <3>1, OutputPathsRead, OutputPathsPhases, KnownTyped
        DEF OutputsRead, Referenced, Deciding
      <3> QED  BY <1>0, <2>2, <3>1, OutputPathsPhases DEF OutputsRead
    <2>3. CASE Cutoff(w)
      <3>1. /\ clean[w] = "terminal" /\ clean'[w] \notin Deciding
            /\ doomed'[w].outputs = agedOutputs \ (refs[w].ActiveAttempts \cup refs[w].Outputs)
        BY <2>3, CutoffPhases
      <3>2. \A d \in doomed'[w].outputs : Passed(d) /\ ~Referenced(d)
        BY <1>0, <3>1 DEF OutputsRead, Deciding
      <3> QED  BY <3>1, <3>2 DEF OutputsRead, Deciding
    <2> QED  BY <2>1, <2>2, <2>3 DEF Learns
  <1> QED  BY <1>1, <1>2, StepKinds

LEMMA OutputSideStep ==
    ASSUME CommitsTimely
    PROVE  PipelineCore /\ OutputSide /\ [PipelineNext]_pipelineVars => OutputSide'
  <1> SUFFICES ASSUME PipelineCore, OutputSide, [PipelineNext]_pipelineVars PROVE OutputSide'
    OBVIOUS
  <1> QED  BY AgedPassedStep, OutputInvStep, OutputsReadStep DEF OutputSide

-----------------------------------------------------------------------------
(* The files of active attempts, if the leases are read in time. *)

LEMMA DeadIsDead ==
    ASSUME PipelineCore, [PipelineNext]_pipelineVars, NEW d \in Dirs, Dead(d)
    PROVE  Dead(d)'
  BY CoreStep, FactsStay DEF PipelineCore

\* While an attempt is active, the lease that a snapshot has read has not run out.
LEMMA LeasesStayRead ==
    ASSUME LeasesTimely, PipelineCore, LeaseSide, [PipelineNext]_pipelineVars, NEW w \in Workers,
           Untouched(w), clean'[w] = "songs", NEW d \in refs[w].ActiveAttempts, Active(d)'
    PROVE  refs'[w].Leases[d[1]] > 0
  <1>0. clean[w] = "songs"
    BY DEF Untouched, Deciding
  <1> DEFINE s == d[1]  n == d[2]  left == refs[w].Leases
  <1>1. d \in Dirs /\ d[2] <= attemptCount[d[1]]
    BY <1>0, KnownTyped DEF PipelineCore, RowsRead, RefSets
  <1>2. Active(d)
    BY <1>1, DeadIsDead DEF Dead
  <1>3. left[s] > 0 /\ Holds(s, n) /\ s \in Songs
    BY <1>0, <1>1, <1>2, DirParts DEF LeaseSide, LeasesRead, Active
  <1>4. CASE Time
    <2>1. lease'[s] > 0 /\ lease'[s] = Down(lease[s]) /\ lease[s] \in Nat
      BY <1>3, <1>4, LeaseTicksAssumption
      DEF Active, Time, TimePasses, Tick, PipelineCore, AttemptInv, TypedInv, QueueInv, QueueTypeOK
    <2>2. left[s] \in Nat /\ refs'[w].Leases[s] = Down(left[s])
      BY <1>3, <1>4, KnownTyped, LeasesRunOut, LeaseTicksAssumption DEF RefSets
    <2>3. Holds(s, n) /\ lease[s] > 1 => left[s] # 1
      BY <1>0, <1>4 DEF Time, ReadInTime, LeasesTimely
    <2> HIDE DEF s, n, left
    <2>4. refs'[w].Leases[s] > 0
      BY <1>3, <2>1, <2>2, <2>3 DEF Down
    <2> QED  BY <2>4 DEF s
  <1>5. CASE refs'[w].Leases = refs[w].Leases
    BY <1>3, <1>5
  <1> QED  BY <1>4, <1>5 DEF Untouched, Deciding

\* No cleanup condemns a file of an attempt that is active.
LEMMA LeaseSideStep ==
    ASSUME LeasesTimely
    PROVE  PipelineCore /\ LeaseSide /\ [PipelineNext]_pipelineVars => LeaseSide'
  <1> SUFFICES ASSUME PipelineCore, LeaseSide, [PipelineNext]_pipelineVars, NEW w \in Workers
               PROVE  LeasesRead(w)'
    BY DEF LeaseSide
  <1>0. LeasesRead(w) /\ "cutoff" \in Prompt
    BY DEF LeaseSide, LeasesTimely
  <1> DEFINE known == agedWork \cup settled[w].work \cup agedOutputs \cup settled[w].outputs
  <1>1. known \subseteq Dirs /\ doomed[w].work \cup doomed[w].outputs \subseteq Dirs
    BY KnownTyped DEF FileSets
  <1>2. CASE Untouched(w)
    <2>1. \A d \in Dirs : Dead(d) => Dead(d)'
      BY DeadIsDead
    <2>2. doomed'[w].work \cup doomed'[w].outputs \subseteq doomed[w].work \cup doomed[w].outputs
      BY <1>2 DEF Untouched
    <2>3. \A d \in doomed'[w].work \cup doomed'[w].outputs : Dead(d)'
      BY <1>0, <1>1, <2>1, <2>2 DEF LeasesRead
    <2>4. ASSUME clean'[w] \in Deciding, NEW d \in known'
          PROVE  d \in refs'[w].ActiveAttempts \/ Dead(d)'
      <3>1. /\ clean[w] \in Deciding
            /\ refs'[w].ActiveAttempts = refs[w].ActiveAttempts /\ settled'[w] = settled[w]
        BY <1>2, <2>4 DEF Untouched
      <3>2. known' \subseteq known
        BY <1>0, <3>1, AgesWatched
      <3>3. d \in refs[w].ActiveAttempts \/ Dead(d)
        BY <1>0, <2>4, <3>1, <3>2 DEF LeasesRead
      <3> QED  BY <1>1, <2>1, <2>4, <3>1, <3>2, <3>3
    <2>5. ASSUME clean'[w] = "songs", NEW d \in refs'[w].ActiveAttempts, Active(d)'
          PROVE  refs'[w].Leases[d[1]] > 0
      BY <1>2, <2>5, LeasesStayRead DEF Untouched, Deciding
    <2> QED  BY <2>3, <2>4, <2>5 DEF LeasesRead
  <1>3. CASE Learns(w)
    <2> USE LearningIsReading, <1>3
    <2>1. CASE ListSongJobMedia(w)
      <3>1. \A d \in known' : d \in Dirs /\ d[2] <= attemptCount[d[1]]
        BY <2>1, JobMediaRead, Typed
        DEF PipelineCore, PipelineTypeOK, WorkGivenOut, AttemptInv, OutputsGivenOut, WorkerTypeOK
      <3>2. \A d \in known' : d \in refs'[w].ActiveAttempts \/ Dead(d)
        BY <2>1, <3>1, JobMediaRead DEF Dead, Active
      <3>3. \A d \in refs'[w].ActiveAttempts : Active(d) => refs'[w].Leases[d[1]] > 0
        BY <2>1, JobMediaRead DEF Active
      <3> QED  BY <1>0, <2>1, <3>2, <3>3, JobMediaRead DEF LeasesRead
    <2>2. CASE ListSongOutputPaths(w)
      <3>1. \A d \in refs[w].ActiveAttempts : Active(d) => refs[w].Leases[d[1]] > 0
        BY <1>0, <2>2, OutputPathsPhases DEF LeasesRead
      <3>2. \A d \in refs[w].ActiveAttempts : d[2] <= attemptCount[d[1]]
        BY <2>2, OutputPathsPhases DEF PipelineCore, RowsRead
      <3>3. \A d \in refs[w].ActiveAttempts : d \in refs'[w].ActiveAttempts \/ Dead(d)
        BY <2>2, <3>1, <3>2, OutputPathsRead DEF Dead
      <3>4. \A d \in known : d \in refs'[w].ActiveAttempts \/ Dead(d)
        BY <1>0, <2>2, <3>3, OutputPathsPhases DEF LeasesRead, Deciding
      <3> QED  BY <1>0, <2>2, <3>4, OutputPathsPhases DEF LeasesRead
    <2>3. CASE Cutoff(w)
      <3>1. /\ clean[w] = "terminal" /\ clean'[w] = "delete"
            /\ doomed'[w].work = agedWork \ refs[w].ActiveAttempts
            /\ doomed'[w].outputs = agedOutputs \ (refs[w].ActiveAttempts \cup refs[w].Outputs)
        BY <2>3, CutoffPhases
      <3>2. \A d \in doomed'[w].work \cup doomed'[w].outputs : Dead(d)
        BY <1>0, <3>1 DEF LeasesRead, Deciding
      <3> QED  BY <3>1, <3>2 DEF LeasesRead, Deciding
    <2> QED  BY <2>1, <2>2, <2>3 DEF Learns
  <1> QED  BY <1>2, <1>3, StepKinds

-----------------------------------------------------------------------------
(* Together, they leave every step to SongWorker.                              *)

\* A file that is gone already is removed once more without effect.
LEMMA DropIsCollect ==
    ASSUME NEW s \in Songs, jobState[s] \notin Needed, DropInput(s),
           UNCHANGED <<queueVars, pc, attemptVars, expired, stopping, workDirs, outputs, faults>>
    PROVE  [Next]_vars
  <1>1. CASE inputs' = inputs
    BY <1>1 DEF vars, workerVars, attemptVars
  <1>2. CASE s \in inputs /\ inputs' = inputs \ {s}
    BY <1>2 DEF CollectInput, Environment, Next
  <1> QED  BY <1>1, <1>2 DEF DropInput

\* The upload handler removes a file only while no job needs it.
LEMMA ApiIsEnvironment ==
    ASSUME PipelineCore, InputSide, ApiNext
    PROVE  [Next]_vars
  <1>0. \A s \in Songs : Uploading(s) => jobState[s] = "ABSENT" /\ s \in inputs
    BY DEF PipelineCore, PipelineTypeOK, InputSide, UploadsKept
  <1> USE DEF Uploading
  <1>1. ASSUME NEW s \in Songs, Receive(s) PROVE [Next]_vars
    BY <1>1 DEF Receive, Environment, Next
  <1>2. ASSUME NEW s \in Songs, Reject(s) \/ Rollback(s) PROVE [Next]_vars
    BY <1>0, <1>2, DropIsCollect DEF Reject, Rollback, Needed
  <1>3. ASSUME NEW s \in Songs, Validated(s) PROVE [Next]_vars
    BY <1>3 DEF Validated
  <1>4. ASSUME NEW s \in Songs, Commit(s) \/ CommitUnknown(s) PROVE [Next]_vars
    BY <1>0, <1>4 DEF Commit, CommitUnknown, Upload, Environment, Next, vars
  <1>5. CASE ApiCrash
    BY <1>5 DEF ApiCrash
  <1> QED
    BY <1>1, <1>2, <1>3, <1>4, <1>5 DEF ApiNext, UploadStep

\* A cleanup removes only what its snapshot let it condemn.
LEMMA CleanerIsEnvironment ==
    ASSUME PipelineInv, NEW w \in Workers, CleanerNext(w)
    PROVE  [Next]_vars
  <1> USE DEF PipelineInv
  <1>1. CASE UNCHANGED vars
    BY <1>1
  <1>2. CASE RemoveTerminal(w)
    <2>1. PICK s \in refs[w].Terminal : DropInput(s)
      BY <1>2 DEF RemoveTerminal
    <2>2. s \in Songs /\ jobState[s] \notin Needed
      BY <2>1, CleanerTypes DEF PipelineCore, RowsRead, RefSets, Terminal, Needed
    <2> QED  BY <1>2, <2>1, <2>2, DropIsCollect DEF RemoveTerminal
  <1>3. CASE Delete(w)
    <2> USE <1>3 DEF Delete
    <2>0. /\ doomed[w].inputs \subseteq Songs
          /\ doomed[w].work \subseteq Dirs /\ doomed[w].outputs \subseteq Dirs
      BY CleanerTypes DEF PipelineCore, FileSets
    <2>1. ASSUME NEW s \in doomed[w].inputs, inputs' = inputs \ {s}, UNCHANGED <<workDirs, outputs>>
          PROVE  [Next]_vars
      <3>1. CASE s \in inputs
        <4>1. jobState[s] \notin Needed
          BY <2>1 DEF InputSide, InputsRead, Closed
        <4> QED  BY <2>0, <2>1, <3>1, <4>1 DEF CollectInput, Environment, Next
      <3>2. CASE s \notin inputs
        BY <2>1, <3>2 DEF vars, workerVars, attemptVars
      <3> QED  BY <3>1, <3>2
    <2>2. ASSUME NEW d \in doomed[w].work, workDirs' = workDirs \ {d}, UNCHANGED <<inputs, outputs>>
          PROVE  [Next]_vars
      <3>1. CASE d \in workDirs
        <4>1. ~Active(d)
          BY <2>2 DEF LeaseSide, LeasesRead, Dead
        <4> QED  BY <2>0, <2>2, <3>1, <4>1 DEF CollectWorkDir, Environment, Next
      <3>2. CASE d \notin workDirs
        BY <2>2, <3>2 DEF vars, workerVars, attemptVars
      <3> QED  BY <3>1, <3>2
    <2>3. ASSUME NEW d \in doomed[w].outputs, outputs' = outputs \ {d}, UNCHANGED <<inputs, workDirs>>
          PROVE  [Next]_vars
      <3>1. CASE d \in outputs
        <4>1. ~Active(d)
          BY <2>3 DEF LeaseSide, LeasesRead, Dead
        <4>2. ~Referenced(d) /\ \A v \in Workers : ~Committing(v, d)
          BY <2>3 DEF OutputSide, OutputsRead, Passed
        <4> QED  BY <2>0, <2>3, <3>1, <4>1, <4>2 DEF CollectOutput, Environment, Next
      <3>2. CASE d \notin outputs
        BY <2>3, <3>2 DEF vars, workerVars, attemptVars
      <3> QED  BY <3>1, <3>2
    <2> QED  BY <2>1, <2>2, <2>3
  <1> QED
    BY <1>1, <1>2, <1>3
    DEF CleanerNext, CleanerStep, ListSongJobMedia, ListSongOutputPaths, Cutoff, CleanupEnds,
        CleanupFails

\* The whole pipeline: from the invariant alone, no step leaves SongWorker.
LEMMA StepIsNext == PipelineInv /\ [PipelineNext]_pipelineVars => [Next]_vars
  <1> SUFFICES ASSUME PipelineInv, [PipelineNext]_pipelineVars PROVE [Next]_vars
    OBVIOUS
  <1>1. CASE ApiNext
    BY <1>1, ApiIsEnvironment DEF PipelineInv
  <1>2. CASE \E w \in Workers : Job(w) \/ StopCleaning(w) \/ CrashCleaning(w)
    BY <1>2, JobIsWorkerStep DEF Next
  <1>3. CASE \E w \in Workers : CleanerNext(w)
    BY <1>3, CleanerIsEnvironment
  <1>4. CASE Time
    BY <1>4 DEF Time, Next
  <1>5. CASE Age
    BY <1>5 DEF Age
  <1>6. CASE UNCHANGED pipelineVars
    BY <1>6 DEF pipelineVars
  <1> QED  BY <1>1, <1>2, <1>3, <1>4, <1>5, <1>6 DEF PipelineNext

-----------------------------------------------------------------------------
(* The theorems that hold whatever the timing.                                *)

\* At first there are no files and no cleanups.
LEMMA InitPipelineInv == PipelineInit => PipelineInv
  <1> SUFFICES ASSUME PipelineInit PROVE PipelineInv
    OBVIOUS
  <1> USE DEF PipelineInit
  <1>1. WorkerInv
    BY InitWorkerInv
  <1>2. /\ \A w \in Workers : refs[w] = NoRefs /\ settled[w] = NoFiles /\ doomed[w] = NoFiles
        /\ \A w \in Workers : clean[w] = "off"
        /\ \A s \in Songs : ~Uploading(s)
    BY DEF Uploading
  <1>3. /\ refs \in [Workers -> RefSets]
        /\ settled \in [Workers -> FileSets] /\ doomed \in [Workers -> FileSets]
    BY NoneTyped
  <1>4. PipelineTypeOK
    BY <1>2, <1>3, MaxLapsesAssumption
    DEF PipelineTypeOK, RefSets, FileSets, CleaningNow
  <1>5. NewSongs /\ Unemployed /\ WorkGivenOut /\ UploadsKept /\ AgedPassed
    BY <1>2 DEF Init, QueueInit, NewSongs, Unemployed, WorkGivenOut, UploadsKept, AgedPassed
  <1>6. \A w \in Workers : RowsRead(w) /\ InputsRead(w) /\ OutputsRead(w) /\ LeasesRead(w)
    BY <1>2 DEF RowsRead, InputsRead, OutputsRead, LeasesRead, NoRefs, NoFiles, Deciding
  <1> QED
    BY <1>1, <1>4, <1>5, <1>6
    DEF PipelineInv, PipelineCore, InputSide, OutputSide, LeaseSide, WorkerInv

\* The core of the invariant holds of every reachable state.
THEOREM PipelineCoreInvariant == PipelineSpec => []PipelineCore
  <1>1. PipelineInit => PipelineCore
    BY InitPipelineInv DEF PipelineInv
  <1> QED  BY <1>1, NextKeepsPipelineCore, PTL DEF PipelineSpec

\* Uploads, snapshots and ages keep their types; no handler is at work on an upload
\* whose rows are there, and no worker has a job while it cleans.
THEOREM PipelineTypeCorrect == PipelineSpec => []PipelineTypeOK
  <1>1. PipelineCore => PipelineTypeOK
    BY DEF PipelineCore
  <1> QED  BY <1>1, PipelineCoreInvariant, PTL

\* Handlers and cleanups, however slow, run no statement that the queue does not expect.
THEOREM PipelineUsesQueue == PipelineSpec => QueueSpec
  <1>1. PipelineInit => QueueInit
    BY DEF PipelineInit, Init
  <1>2. PipelineCore /\ [PipelineNext]_pipelineVars => [QueueNext]_queueVars
    BY CoreStep, LooseIsQueueStep DEF PipelineCore
  <1> QED  BY <1>1, <1>2, PipelineCoreInvariant, PTL DEF PipelineSpec, QueueSpec

\* Whatever files a late cleanup takes away, no two workers ever hold one attempt ...
THEOREM PipelineAttemptsUnique == PipelineSpec => []UniqueAttempt
  <1>1. PipelineCore => UniqueAttempt
    BY DEF PipelineCore, AttemptInv
  <1> QED  BY <1>1, PipelineCoreInvariant, PTL

\* ... Publish never finds its directory taken ...
THEOREM PipelineOutputsNeverCollide == PipelineSpec => []NoOutputCollision
  <1>1. PipelineCore => NoOutputCollision
    BY DEF PipelineCore, AttemptInv
  <1> QED  BY <1>1, PipelineCoreInvariant, PTL

\* ... and an attempt that was told its lease is lost writes no row any more.
THEOREM PipelineLostLeaseStaysSilent == PipelineSpec => LostLeaseWritesNothing
  <1>1. PipelineInit => LostOnlyCleansUp
    BY InitLost DEF PipelineInit
  <1>2. PipelineCore /\ LostOnlyCleansUp /\ [PipelineNext]_pipelineVars
          => /\ LostOnlyCleansUp'
             /\ [\A w \in Workers : leaseLost[w] /\ pc'[w] # pc[w] => UNCHANGED queueVars]_vars
    BY CoreStep, LooseLostStep DEF PipelineCore
  <1> QED
    BY <1>1, <1>2, PipelineCoreInvariant, PTL DEF PipelineSpec, LostLeaseWritesNothing

-----------------------------------------------------------------------------
(* The theorems that need part of the timing.                                 *)

\* With timely uploads, what a handler or a cleanup knows of the inputs is right.
THEOREM InputSideInvariant == UploadsTimely => (PipelineSpec => []InputSide)
  <1> SUFFICES ASSUME UploadsTimely PROVE PipelineSpec => []InputSide
    OBVIOUS
  <1>1. PipelineInit => InputSide
    BY InitPipelineInv DEF PipelineInv
  <1>2. PipelineCore /\ InputSide /\ [PipelineNext]_pipelineVars => InputSide'
    BY InputSideStep
  <1> QED  BY <1>1, <1>2, PipelineCoreInvariant, PTL DEF PipelineSpec

\* The input of every open job is there, however late commits are committed and
\* leases read.
THEOREM PipelineKeepsInputs == UploadsTimely => (PipelineSpec => []InputKept)
  <1>1. InputSide => InputKept
    BY DEF InputSide
  <1> QED  BY <1>1, InputSideInvariant, PTL

\* With timely commits, what a cleanup knows of the outputs is right.
THEOREM OutputSideInvariant == CommitsTimely => (PipelineSpec => []OutputSide)
  <1> SUFFICES ASSUME CommitsTimely PROVE PipelineSpec => []OutputSide
    OBVIOUS
  <1>1. PipelineInit => OutputSide
    BY InitPipelineInv DEF PipelineInv
  <1>2. PipelineCore /\ OutputSide /\ [PipelineNext]_pipelineVars => OutputSide'
    BY OutputSideStep
  <1> QED  BY <1>1, <1>2, PipelineCoreInvariant, PTL DEF PipelineSpec

\* The files of a READY song are always there, even if inputs get lost.
THEOREM PipelineKeepsAudio == CommitsTimely => (PipelineSpec => []ReadyAudioExists)
  <1>1. OutputSide => ReadyAudioExists
    BY DEF OutputSide, OutputInv
  <1> QED  BY <1>1, OutputSideInvariant, PTL

\* The pipeline implements the song's lifecycle: a client sees a song uploaded once,
\* and READY, with its audio in place, or FAILED for good.
THEOREM PipelineLifecycle == CommitsTimely => (PipelineSpec => LifecycleSafety)
  <1> SUFFICES ASSUME CommitsTimely PROVE PipelineSpec => LifecycleSafety
    OBVIOUS
  <1>1. PipelineInit => Lifecycle!Init
    BY InitIsLifecycleInit DEF PipelineInit
  <1>2. PipelineCore /\ OutputSide /\ OutputSide' /\ [PipelineNext]_pipelineVars
          => [Lifecycle!Next]_(Lifecycle!vars)
    BY CoreStep, StepIsLifecycleStep DEF PipelineCore, OutputSide
  <1> QED
    BY <1>1, <1>2, PipelineCoreInvariant, OutputSideInvariant, PTL
    DEF PipelineSpec, LifecycleSafety, Lifecycle!SafetySpec

\* With leases read in time, what a cleanup knows of active attempts is right.
THEOREM LeaseSideInvariant == LeasesTimely => (PipelineSpec => []LeaseSide)
  <1> SUFFICES ASSUME LeasesTimely PROVE PipelineSpec => []LeaseSide
    OBVIOUS
  <1>1. PipelineInit => LeaseSide
    BY InitPipelineInv DEF PipelineInv
  <1>2. PipelineCore /\ LeaseSide /\ [PipelineNext]_pipelineVars => LeaseSide'
    BY LeaseSideStep
  <1> QED  BY <1>1, <1>2, PipelineCoreInvariant, PTL DEF PipelineSpec

\* The two halves of CleanupPreserves.
ActiveWorkStays ==
    [][\A d \in workDirs \ workDirs' :
         ~Active(d) \/ \E w \in Workers : pc[w] = "cleanup" /\ Dir(w) = d]_pipelineVars

ReferencedOutputsStay == [][\A d \in outputs \ outputs' : ~Referenced(d)]_pipelineVars

\* No cleanup deletes the work directory of an attempt whose lease is valid.
THEOREM CleanupSparesActive == LeasesTimely => (PipelineSpec => ActiveWorkStays)
  <1> SUFFICES ASSUME LeasesTimely PROVE PipelineSpec => ActiveWorkStays
    OBVIOUS
  <1>1. LeaseSide => \A w \in Workers : \A d \in doomed[w].work : ~Active(d)
    BY DEF LeaseSide, LeasesRead, Dead
  <1>2. PipelineCore /\ LeaseSide /\ [PipelineNext]_pipelineVars
          => [\A d \in workDirs \ workDirs' :
                ~Active(d) \/ \E w \in Workers : pc[w] = "cleanup" /\ Dir(w) = d]_pipelineVars
    BY <1>1, FilesRemoved
  <1> QED
    BY <1>2, PipelineCoreInvariant, LeaseSideInvariant, PTL DEF PipelineSpec, ActiveWorkStays

\* No cleanup, and no late discard, deletes an output that a READY song refers to.
THEOREM CleanupSparesReferenced == CommitsTimely => (PipelineSpec => ReferencedOutputsStay)
  <1> SUFFICES ASSUME CommitsTimely PROVE PipelineSpec => ReferencedOutputsStay
    OBVIOUS
  <1>1. ASSUME PipelineCore, OutputSide, [PipelineNext]_pipelineVars
        PROVE  \A d \in outputs \ outputs' : ~Referenced(d)
    <2>1. ASSUME NEW w \in Workers, WorkerNext(w) PROVE \A d \in outputs \ outputs' : ~Referenced(d)
      <3>1. \A d \in outputs \ outputs' : pc[w] \in {"discard", "discardLate"} /\ d = Dir(w)
        BY <1>1, <2>1, WorkerOutputStep DEF OutputStep, PipelineCore
      <3>2. pc[w] \in {"discard", "discardLate"} => ~Referenced(Dir(w))
        BY <1>1 DEF PipelineCore, AttemptInv, NotCommitted, Uncommitted, Holding
      <3> QED  BY <3>1, <3>2
    <2>2. \A w \in Workers : \A d \in doomed[w].outputs : ~Referenced(d)
      BY <1>1 DEF OutputSide, OutputsRead
    <2> QED  BY <1>1, <2>1, <2>2, FilesRemoved
  <1>2. PipelineCore /\ OutputSide /\ [PipelineNext]_pipelineVars
          => [\A d \in outputs \ outputs' : ~Referenced(d)]_pipelineVars
    BY <1>1
  <1> QED
    BY <1>2, PipelineCoreInvariant, OutputSideInvariant, PTL DEF PipelineSpec, ReferencedOutputsStay

-----------------------------------------------------------------------------
(* The theorems that need all of it.                                          *)

\* The inductive invariant holds of every reachable state.
THEOREM PipelineInvariant == Timely => (PipelineSpec => []PipelineInv)
  <1> SUFFICES ASSUME Timely PROVE PipelineSpec => []PipelineInv
    OBVIOUS
  <1>1. PipelineCore /\ InputSide /\ OutputSide /\ LeaseSide => PipelineInv
    BY DEF PipelineInv
  <1> QED
    BY <1>1, PipelineCoreInvariant, InputSideInvariant, OutputSideInvariant, LeaseSideInvariant, PTL
    DEF Timely

\* The upload handler and the cleanups, with their stale snapshots, do only what
\* SongWorker lets its environment do.
THEOREM PipelineIsSongWorker == Timely => (PipelineSpec => ImplementsSongWorker)
  <1> SUFFICES ASSUME Timely PROVE PipelineSpec => Spec
    BY DEF ImplementsSongWorker
  <1>1. PipelineInit => Init
    BY DEF PipelineInit
  <1> QED  BY <1>1, StepIsNext, PipelineInvariant, PTL DEF PipelineSpec, Spec

\* "preserving active attempts and files referenced by songs" (media/cleanup.go), of
\* any number of cleanups at once, each with a snapshot as old as may be.
THEOREM CleanupsPreserve ==
    LeasesTimely /\ CommitsTimely => (PipelineSpec => CleanupPreserves)
  <1> SUFFICES ASSUME LeasesTimely, CommitsTimely PROVE PipelineSpec => CleanupPreserves
    OBVIOUS
  <1>1. [\A d \in workDirs \ workDirs' :
           ~Active(d) \/ \E w \in Workers : pc[w] = "cleanup" /\ Dir(w) = d]_pipelineVars
        /\ [\A d \in outputs \ outputs' : ~Referenced(d)]_pipelineVars
          => [/\ \A d \in workDirs \ workDirs' :
                   ~Active(d) \/ \E w \in Workers : pc[w] = "cleanup" /\ Dir(w) = d
              /\ \A d \in outputs \ outputs' : ~Referenced(d)]_pipelineVars
    OBVIOUS
  <1> QED
    BY <1>1, CleanupSparesActive, CleanupSparesReferenced, PTL
    DEF CleanupPreserves, ActiveWorkStays, ReferencedOutputsStay
=============================================================================
