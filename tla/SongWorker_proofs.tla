-------------------------- MODULE SongWorker_proofs --------------------------
(***************************************************************************)
(* Theorems about SongWorker, for every set of songs and of workers and       *)
(* every bound on the faults.                                               *)
(***************************************************************************)
EXTENDS SongWorker, SongQueue_proofs

(***************************************************************************)
(* Type correctness.                                                        *)
(***************************************************************************)
LEMMA InitWorkerType == Init => WorkerTypeOK
BY MaxFaultsAssumption, MaxAttemptsAssumption
   DEF Init, WorkerTypeOK, PCs, Holding, Working

LEMMA DirType ==
    ASSUME WorkerTypeOK, NEW w \in Workers, jobOf[w] \in Songs, attempt[w] # 0
    PROVE  Dir(w) \in Dirs
BY MaxAttemptsAssumption DEF WorkerTypeOK, Dir, Dirs, AttemptNumbers

\* A worker past its claim has a job and an attempt number that was given out.
HeldAttempts ==
    \A w \in Workers : pc[w] \in Holding =>
        /\ jobOf[w] \in Songs
        /\ attempt[w] > 0
        /\ attempt[w] <= attemptCount[jobOf[w]]

TypedInv == QueueInv /\ WorkerTypeOK /\ HeldAttempts

LEMMA WorkerStepType ==
    ASSUME TypedInv, NEW w \in Workers, WorkerNext(w)
    PROVE  WorkerTypeOK'
<1>. USE MaxFaultsAssumption, MaxAttemptsAssumption
     DEF TypedInv, WorkerTypeOK, PCs, Holding, Working, Goto, attemptVars, fileVars,
         workerVars, Return, NoAttempt, Fault, CallFails
<1>1. CASE Start(w)
  BY <1>1 DEF Start
<1>2. CASE Stop(w)
  BY <1>2 DEF Stop
<1>3. CASE Exit(w)
  BY <1>3 DEF Exit
<1>4. CASE Crash(w)
  BY <1>4 DEF Crash
<1>5. CASE FailExpired(w)
  BY <1>5 DEF FailExpired, Exhausted
<1>6. CASE FailExpiredLost(w)
  BY <1>6 DEF FailExpiredLost
<1>7. CASE SweepInput(w)
  BY <1>7 DEF SweepInput
<1>8. CASE Claim(w)
  <2>1. PICK s \in Songs : /\ ClaimSongJob(s)
                           /\ jobOf' = [jobOf EXCEPT ![w] = s]
                           /\ attempt' = [attempt EXCEPT ![w] = attemptCount'[s]]
    BY <1>8 DEF Claim
  <2>2. attemptCount'[s] \in 0..MaxAttempts
    BY <2>1 DEF ClaimSongJob, Claimable, QueueInv, QueueTypeOK
  <2>. QED
    BY <1>8, <2>1, <2>2 DEF Claim
<1>9. CASE ClaimNone(w)
  BY <1>9 DEF ClaimNone
<1>10. CASE ClaimLost(w)
  BY <1>10 DEF ClaimLost
<1>11. CASE Prepare(w)
  <2>1. Dir(w) \in Dirs
    BY <1>11, DirType DEF Prepare, HeldAttempts
  <2>. QED
    BY <1>11, <2>1 DEF Prepare
<1>12. CASE PrepareFails(w)
  <2>1. Dir(w) \in Dirs
    BY <1>12, DirType DEF PrepareFails, HeldAttempts
  <2>. QED
    BY <1>12, <2>1 DEF PrepareFails
<1>13. CASE Publish(w)
  BY <1>13 DEF Publish
<1>14. CASE ProcessFails(w)
  BY <1>14 DEF ProcessFails
<1>15. CASE Cleanup(w)
  BY <1>15 DEF Cleanup
<1>16. CASE Deadline(w)
  BY <1>16 DEF Deadline
<1>17. CASE Renew(w)
  BY <1>17 DEF Renew
<1>18. CASE RenewFails(w)
  BY <1>18 DEF RenewFails
<1>19. CASE Settle(w)
  BY <1>19 DEF Settle, Verdict
<1>20. CASE Discard(w)
  BY <1>20 DEF Discard, DiscardOutput
<1>21. CASE DiscardLate(w)
  BY <1>21 DEF DiscardLate, DiscardOutput
<1>22. CASE Complete(w)
  BY <1>22 DEF Complete
<1>23. CASE CompleteFenced(w)
  BY <1>23 DEF CompleteFenced
<1>24. CASE CompleteLost(w)
  BY <1>24 DEF CompleteLost
<1>25. CASE Record(w)
  <2>1. CASE attempt[w] < MaxAttempts
    <3>1. Return(w) /\ UNCHANGED <<fileVars, faults>>
      BY <1>25, <2>1 DEF Record
    <3>. QED
      BY <3>1
  <2>2. CASE ~(attempt[w] < MaxAttempts)
    BY <1>25, <2>2 DEF Record
  <2>. QED
    BY <2>1, <2>2
<1>26. CASE RecordFenced(w)
  BY <1>26 DEF RecordFenced
<1>27. CASE RecordLost(w)
  BY <1>27 DEF RecordLost
<1>28. CASE Release(w)
  BY <1>28 DEF Release
<1>29. CASE Join(w)
  BY <1>29 DEF Join
<1>. QED
  BY <1>1, <1>2, <1>3, <1>4, <1>5, <1>6, <1>7, <1>8, <1>9, <1>10, <1>11, <1>12, <1>13,
     <1>14, <1>15, <1>16, <1>17, <1>18, <1>19, <1>20, <1>21, <1>22, <1>23, <1>24, <1>25,
     <1>26, <1>27, <1>28, <1>29
     DEF WorkerNext, MainStep, ProcessEnds, Disturbed

(***************************************************************************)
(* The invariant, in three layers.  AttemptInv is about who works on what:    *)
(* attempt numbers are given out once, so an output belongs to one attempt    *)
(* (UniqueAttempt, OutputsGivenOut, NoOutputCollision), nobody discards what   *)
(* was committed (NotCommitted), and only finished jobs' inputs are removed    *)
(* (ReleasesFinished, SweepsFinished).  It holds whatever becomes of the       *)
(* files.  OutputInv adds that an output is there from its publication to its  *)
(* commit, and after it; InputKept does so for the inputs.                    *)
(***************************************************************************)
OutputsGivenOut == \A d \in outputs : d[2] <= attemptCount[d[1]]

ResultKnown(w) ==
    /\ pc[w] \in {"cleanup", "join", "settle"} => result[w] # "none"
    /\ pc[w] = "complete" => result[w] = "ok"

ResultsKnown == \A w \in Workers : ResultKnown(w)

Uncommitted == Holding \ {"release"}

NotCommitted ==
    \A w \in Workers : pc[w] \in Uncommitted => ~Referenced(Dir(w))

ReleasesFinished ==
    \A w \in Workers : pc[w] = "release" => jobState[jobOf[w]] \in Terminal

SweepsFinished == \A w \in Workers : \A s \in expired[w] : jobState[s] \in Terminal

AttemptInv ==
    /\ TypedInv
    /\ UniqueAttempt
    /\ OutputsGivenOut /\ NoOutputCollision /\ ResultsKnown /\ NotCommitted
    /\ ReleasesFinished /\ SweepsFinished

Published(w) ==
    pc[w] \in {"cleanup", "join", "settle", "complete"} /\ result[w] = "ok" => Dir(w) \in outputs

PublishedKept == \A w \in Workers : Published(w)

OutputInv == PublishedKept /\ ReadyAudioExists

WorkerInv == AttemptInv /\ OutputInv /\ InputKept

(***************************************************************************)
(* What one step of worker w may do, as far as the invariant can tell.       *)
(***************************************************************************)
OthersKept(w) ==
    \A v \in Workers \ {w} :
        /\ pc'[v] = pc[v]
        /\ jobOf'[v] = jobOf[v]
        /\ attempt'[v] = attempt[v]
        /\ result'[v] = result[v]
        /\ expired'[v] = expired[v]

\* w keeps its attempt, lets go of it, or claims a new one.
AttemptStep(w) ==
    pc'[w] \in Holding =>
        \/ /\ pc[w] \in Holding
           /\ jobOf'[w] = jobOf[w]
           /\ attempt'[w] = attempt[w]
           /\ pc[w] = "release" => pc'[w] = "release"
           /\ pc'[w] \in {"prepare", "process"} => pc[w] \in {"prepare", "process"}
        \/ /\ pc'[w] = "prepare"
           /\ jobOf'[w] \in Songs
           /\ ClaimSongJob(jobOf'[w])
           /\ attempt'[w] = attemptCount'[jobOf'[w]]
           /\ outputs' = outputs

OutputStep(w) ==
    \/ outputs' = outputs
    \/ pc[w] = "process" /\ pc'[w] = "cleanup" /\ outputs' = outputs \cup {Dir(w)}
    \/ pc[w] \in {"discard", "discardLate"} /\ outputs' = outputs \ {Dir(w)}

InputStep(w) ==
    /\ inputs' \subseteq inputs
    /\ \A s \in inputs \ inputs' :
         s \in expired[w] \/ (pc[w] = "release" /\ s = jobOf[w])

\* The statement w runs, and with which arguments.
StatementOf(w) ==
    \/ UNCHANGED queueVars
    \/ FailExpiredSongJobs
    \/ \E s \in Songs : ClaimSongJob(s)
    \/ pc[w] \in Working \cup {"join"} /\ RenewSongJob(jobOf[w], attempt[w])
    \/ /\ pc[w] = "complete" /\ pc'[w] \notin Uncommitted /\ outputs' = outputs
       /\ CompleteSongJob(jobOf[w], attempt[w])
    \/ pc[w] = "record" /\ Fail(jobOf[w], attempt[w])

FinishStep(w) ==
    /\ pc'[w] = "release" => pc[w] = "release" \/ jobState'[jobOf[w]] \in Terminal
    /\ \A s \in expired'[w] : s \in expired[w] \/ jobState'[s] \in Terminal


LEMMA WorkerOthersKept ==
    ASSUME AttemptInv, NEW w \in Workers, WorkerNext(w)
    PROVE  OthersKept(w)
<1>. USE DEF AttemptInv, TypedInv, WorkerTypeOK, Goto, attemptVars, fileVars, workerVars, Return, NoAttempt, OthersKept
<1>1. CASE Start(w)
  BY <1>1 DEF Start
<1>2. CASE Stop(w)
  BY <1>2 DEF Stop
<1>3. CASE Exit(w)
  BY <1>3 DEF Exit
<1>4. CASE Crash(w)
  BY <1>4 DEF Crash
<1>5. CASE FailExpired(w)
  BY <1>5 DEF FailExpired
<1>6. CASE FailExpiredLost(w)
  BY <1>6 DEF FailExpiredLost
<1>7. CASE SweepInput(w)
  BY <1>7 DEF SweepInput
<1>8. CASE Claim(w)
  BY <1>8 DEF Claim
<1>9. CASE ClaimNone(w)
  BY <1>9 DEF ClaimNone
<1>10. CASE ClaimLost(w)
  BY <1>10 DEF ClaimLost
<1>11. CASE Prepare(w)
  BY <1>11 DEF Prepare
<1>12. CASE PrepareFails(w)
  BY <1>12 DEF PrepareFails
<1>13. CASE Publish(w)
  BY <1>13 DEF Publish
<1>14. CASE ProcessFails(w)
  BY <1>14 DEF ProcessFails
<1>15. CASE Cleanup(w)
  BY <1>15 DEF Cleanup
<1>16. CASE Deadline(w)
  BY <1>16 DEF Deadline
<1>17. CASE Renew(w)
  BY <1>17 DEF Renew
<1>18. CASE RenewFails(w)
  BY <1>18 DEF RenewFails
<1>19. CASE Settle(w)
  BY <1>19 DEF Settle
<1>20. CASE Discard(w)
  BY <1>20 DEF Discard
<1>21. CASE DiscardLate(w)
  BY <1>21 DEF DiscardLate
<1>22. CASE Complete(w)
  BY <1>22 DEF Complete
<1>23. CASE CompleteFenced(w)
  BY <1>23 DEF CompleteFenced
<1>24. CASE CompleteLost(w)
  BY <1>24 DEF CompleteLost
<1>25. CASE Record(w)
  BY <1>25 DEF Record
<1>26. CASE RecordFenced(w)
  BY <1>26 DEF RecordFenced
<1>27. CASE RecordLost(w)
  BY <1>27 DEF RecordLost
<1>28. CASE Release(w)
  BY <1>28 DEF Release
<1>29. CASE Join(w)
  BY <1>29 DEF Join
<1>. QED
  BY <1>1, <1>2, <1>3, <1>4, <1>5, <1>6, <1>7, <1>8, <1>9, <1>10, <1>11, <1>12, <1>13,
     <1>14, <1>15, <1>16, <1>17, <1>18, <1>19, <1>20, <1>21, <1>22, <1>23, <1>24, <1>25,
     <1>26, <1>27, <1>28, <1>29
     DEF WorkerNext, MainStep, ProcessEnds, Disturbed

LEMMA WorkerAttemptStep ==
    ASSUME AttemptInv, NEW w \in Workers, WorkerNext(w)
    PROVE  AttemptStep(w)
<1>. USE DEF AttemptInv, TypedInv, WorkerTypeOK, Goto, attemptVars, fileVars, workerVars, Return, NoAttempt, AttemptStep, Holding, Working, PCs
<1>1. CASE Start(w)
  BY <1>1 DEF Start
<1>2. CASE Stop(w)
  BY <1>2 DEF Stop
<1>3. CASE Exit(w)
  BY <1>3 DEF Exit
<1>4. CASE Crash(w)
  BY <1>4 DEF Crash
<1>5. CASE FailExpired(w)
  BY <1>5 DEF FailExpired
<1>6. CASE FailExpiredLost(w)
  BY <1>6 DEF FailExpiredLost
<1>7. CASE SweepInput(w)
  BY <1>7 DEF SweepInput
<1>8. CASE Claim(w)
  BY <1>8 DEF Claim
<1>9. CASE ClaimNone(w)
  BY <1>9 DEF ClaimNone
<1>10. CASE ClaimLost(w)
  BY <1>10 DEF ClaimLost
<1>11. CASE Prepare(w)
  BY <1>11 DEF Prepare
<1>12. CASE PrepareFails(w)
  BY <1>12 DEF PrepareFails
<1>13. CASE Publish(w)
  BY <1>13 DEF Publish
<1>14. CASE ProcessFails(w)
  BY <1>14 DEF ProcessFails
<1>15. CASE Cleanup(w)
  BY <1>15 DEF Cleanup
<1>16. CASE Deadline(w)
  BY <1>16 DEF Deadline
<1>17. CASE Renew(w)
  BY <1>17 DEF Renew
<1>18. CASE RenewFails(w)
  BY <1>18 DEF RenewFails
<1>19. CASE Settle(w)
  BY <1>19 DEF Settle, Verdict
<1>20. CASE Discard(w)
  BY <1>20 DEF Discard
<1>21. CASE DiscardLate(w)
  BY <1>21 DEF DiscardLate
<1>22. CASE Complete(w)
  BY <1>22 DEF Complete
<1>23. CASE CompleteFenced(w)
  BY <1>23 DEF CompleteFenced
<1>24. CASE CompleteLost(w)
  BY <1>24 DEF CompleteLost
<1>25. CASE Record(w)
  BY <1>25 DEF Record
<1>26. CASE RecordFenced(w)
  BY <1>26 DEF RecordFenced
<1>27. CASE RecordLost(w)
  BY <1>27 DEF RecordLost
<1>28. CASE Release(w)
  BY <1>28 DEF Release
<1>29. CASE Join(w)
  BY <1>29 DEF Join
<1>. QED
  BY <1>1, <1>2, <1>3, <1>4, <1>5, <1>6, <1>7, <1>8, <1>9, <1>10, <1>11, <1>12, <1>13,
     <1>14, <1>15, <1>16, <1>17, <1>18, <1>19, <1>20, <1>21, <1>22, <1>23, <1>24, <1>25,
     <1>26, <1>27, <1>28, <1>29
     DEF WorkerNext, MainStep, ProcessEnds, Disturbed

LEMMA WorkerOutputStep ==
    ASSUME AttemptInv, NEW w \in Workers, WorkerNext(w)
    PROVE  OutputStep(w)
<1>. USE DEF AttemptInv, TypedInv, WorkerTypeOK, Goto, attemptVars, fileVars, workerVars, Return, NoAttempt, OutputStep
<1>1. CASE Start(w)
  BY <1>1 DEF Start
<1>2. CASE Stop(w)
  BY <1>2 DEF Stop
<1>3. CASE Exit(w)
  BY <1>3 DEF Exit
<1>4. CASE Crash(w)
  BY <1>4 DEF Crash
<1>5. CASE FailExpired(w)
  BY <1>5 DEF FailExpired
<1>6. CASE FailExpiredLost(w)
  BY <1>6 DEF FailExpiredLost
<1>7. CASE SweepInput(w)
  BY <1>7 DEF SweepInput
<1>8. CASE Claim(w)
  BY <1>8 DEF Claim
<1>9. CASE ClaimNone(w)
  BY <1>9 DEF ClaimNone
<1>10. CASE ClaimLost(w)
  BY <1>10 DEF ClaimLost
<1>11. CASE Prepare(w)
  BY <1>11 DEF Prepare
<1>12. CASE PrepareFails(w)
  BY <1>12 DEF PrepareFails
<1>13. CASE Publish(w)
  BY <1>13 DEF Publish
<1>14. CASE ProcessFails(w)
  BY <1>14 DEF ProcessFails
<1>15. CASE Cleanup(w)
  BY <1>15 DEF Cleanup
<1>16. CASE Deadline(w)
  BY <1>16 DEF Deadline
<1>17. CASE Renew(w)
  BY <1>17 DEF Renew
<1>18. CASE RenewFails(w)
  BY <1>18 DEF RenewFails
<1>19. CASE Settle(w)
  BY <1>19 DEF Settle
<1>20. CASE Discard(w)
  BY <1>20 DEF Discard, DiscardOutput
<1>21. CASE DiscardLate(w)
  BY <1>21 DEF DiscardLate, DiscardOutput
<1>22. CASE Complete(w)
  BY <1>22 DEF Complete
<1>23. CASE CompleteFenced(w)
  BY <1>23 DEF CompleteFenced
<1>24. CASE CompleteLost(w)
  BY <1>24 DEF CompleteLost
<1>25. CASE Record(w)
  BY <1>25 DEF Record
<1>26. CASE RecordFenced(w)
  BY <1>26 DEF RecordFenced
<1>27. CASE RecordLost(w)
  BY <1>27 DEF RecordLost
<1>28. CASE Release(w)
  BY <1>28 DEF Release
<1>29. CASE Join(w)
  BY <1>29 DEF Join
<1>. QED
  BY <1>1, <1>2, <1>3, <1>4, <1>5, <1>6, <1>7, <1>8, <1>9, <1>10, <1>11, <1>12, <1>13,
     <1>14, <1>15, <1>16, <1>17, <1>18, <1>19, <1>20, <1>21, <1>22, <1>23, <1>24, <1>25,
     <1>26, <1>27, <1>28, <1>29
     DEF WorkerNext, MainStep, ProcessEnds, Disturbed

LEMMA WorkerInputStep ==
    ASSUME AttemptInv, NEW w \in Workers, WorkerNext(w)
    PROVE  InputStep(w)
<1>. USE DEF AttemptInv, TypedInv, WorkerTypeOK, Goto, attemptVars, fileVars, workerVars, Return, NoAttempt, InputStep
<1>1. CASE Start(w)
  BY <1>1 DEF Start
<1>2. CASE Stop(w)
  BY <1>2 DEF Stop
<1>3. CASE Exit(w)
  BY <1>3 DEF Exit
<1>4. CASE Crash(w)
  BY <1>4 DEF Crash
<1>5. CASE FailExpired(w)
  BY <1>5 DEF FailExpired
<1>6. CASE FailExpiredLost(w)
  BY <1>6 DEF FailExpiredLost
<1>7. CASE SweepInput(w)
  <2>1. PICK s \in expired[w] : inputs' = inputs \ {s} \/ UNCHANGED inputs
    BY <1>7 DEF SweepInput
  <2>. QED
    BY <2>1
<1>8. CASE Claim(w)
  BY <1>8 DEF Claim
<1>9. CASE ClaimNone(w)
  BY <1>9 DEF ClaimNone
<1>10. CASE ClaimLost(w)
  BY <1>10 DEF ClaimLost
<1>11. CASE Prepare(w)
  BY <1>11 DEF Prepare
<1>12. CASE PrepareFails(w)
  BY <1>12 DEF PrepareFails
<1>13. CASE Publish(w)
  BY <1>13 DEF Publish
<1>14. CASE ProcessFails(w)
  BY <1>14 DEF ProcessFails
<1>15. CASE Cleanup(w)
  BY <1>15 DEF Cleanup
<1>16. CASE Deadline(w)
  BY <1>16 DEF Deadline
<1>17. CASE Renew(w)
  BY <1>17 DEF Renew
<1>18. CASE RenewFails(w)
  BY <1>18 DEF RenewFails
<1>19. CASE Settle(w)
  BY <1>19 DEF Settle
<1>20. CASE Discard(w)
  BY <1>20 DEF Discard
<1>21. CASE DiscardLate(w)
  BY <1>21 DEF DiscardLate
<1>22. CASE Complete(w)
  BY <1>22 DEF Complete
<1>23. CASE CompleteFenced(w)
  BY <1>23 DEF CompleteFenced
<1>24. CASE CompleteLost(w)
  BY <1>24 DEF CompleteLost
<1>25. CASE Record(w)
  BY <1>25 DEF Record
<1>26. CASE RecordFenced(w)
  BY <1>26 DEF RecordFenced
<1>27. CASE RecordLost(w)
  BY <1>27 DEF RecordLost
<1>28. CASE Release(w)
  BY <1>28 DEF Release
<1>29. CASE Join(w)
  BY <1>29 DEF Join
<1>. QED
  BY <1>1, <1>2, <1>3, <1>4, <1>5, <1>6, <1>7, <1>8, <1>9, <1>10, <1>11, <1>12, <1>13,
     <1>14, <1>15, <1>16, <1>17, <1>18, <1>19, <1>20, <1>21, <1>22, <1>23, <1>24, <1>25,
     <1>26, <1>27, <1>28, <1>29
     DEF WorkerNext, MainStep, ProcessEnds, Disturbed

LEMMA WorkerStatement ==
    ASSUME AttemptInv, NEW w \in Workers, WorkerNext(w)
    PROVE  StatementOf(w)
<1>. USE DEF AttemptInv, TypedInv, WorkerTypeOK, Goto, attemptVars, fileVars, workerVars, Return, NoAttempt, StatementOf, queueVars, Uncommitted, Holding, Working
<1>1. CASE Start(w)
  BY <1>1 DEF Start
<1>2. CASE Stop(w)
  BY <1>2 DEF Stop
<1>3. CASE Exit(w)
  BY <1>3 DEF Exit
<1>4. CASE Crash(w)
  BY <1>4 DEF Crash
<1>5. CASE FailExpired(w)
  BY <1>5 DEF FailExpired
<1>6. CASE FailExpiredLost(w)
  BY <1>6 DEF FailExpiredLost
<1>7. CASE SweepInput(w)
  BY <1>7 DEF SweepInput
<1>8. CASE Claim(w)
  BY <1>8 DEF Claim
<1>9. CASE ClaimNone(w)
  BY <1>9 DEF ClaimNone
<1>10. CASE ClaimLost(w)
  BY <1>10 DEF ClaimLost
<1>11. CASE Prepare(w)
  BY <1>11 DEF Prepare
<1>12. CASE PrepareFails(w)
  BY <1>12 DEF PrepareFails
<1>13. CASE Publish(w)
  BY <1>13 DEF Publish
<1>14. CASE ProcessFails(w)
  BY <1>14 DEF ProcessFails
<1>15. CASE Cleanup(w)
  BY <1>15 DEF Cleanup
<1>16. CASE Deadline(w)
  BY <1>16 DEF Deadline
<1>17. CASE Renew(w)
  BY <1>17 DEF Renew
<1>18. CASE RenewFails(w)
  BY <1>18 DEF RenewFails
<1>19. CASE Settle(w)
  BY <1>19 DEF Settle
<1>20. CASE Discard(w)
  BY <1>20 DEF Discard
<1>21. CASE DiscardLate(w)
  BY <1>21 DEF DiscardLate
<1>22. CASE Complete(w)
  BY <1>22 DEF Complete
<1>23. CASE CompleteFenced(w)
  BY <1>23 DEF CompleteFenced
<1>24. CASE CompleteLost(w)
  BY <1>24 DEF CompleteLost
<1>25. CASE Record(w)
  BY <1>25 DEF Record
<1>26. CASE RecordFenced(w)
  BY <1>26 DEF RecordFenced
<1>27. CASE RecordLost(w)
  BY <1>27 DEF RecordLost
<1>28. CASE Release(w)
  BY <1>28 DEF Release
<1>29. CASE Join(w)
  BY <1>29 DEF Join
<1>. QED
  BY <1>1, <1>2, <1>3, <1>4, <1>5, <1>6, <1>7, <1>8, <1>9, <1>10, <1>11, <1>12, <1>13,
     <1>14, <1>15, <1>16, <1>17, <1>18, <1>19, <1>20, <1>21, <1>22, <1>23, <1>24, <1>25,
     <1>26, <1>27, <1>28, <1>29
     DEF WorkerNext, MainStep, ProcessEnds, Disturbed

LEMMA WorkerFinishStep ==
    ASSUME AttemptInv, NEW w \in Workers, WorkerNext(w)
    PROVE  FinishStep(w)
<1>. USE DEF AttemptInv, TypedInv, WorkerTypeOK, Goto, attemptVars, fileVars, workerVars, Return, NoAttempt, FinishStep
<1>1. CASE Start(w)
  BY <1>1 DEF Start
<1>2. CASE Stop(w)
  BY <1>2 DEF Stop
<1>3. CASE Exit(w)
  BY <1>3 DEF Exit
<1>4. CASE Crash(w)
  BY <1>4 DEF Crash
<1>5. CASE FailExpired(w)
  BY <1>5 DEF FailExpired, FailExpiredSongJobs, Exhausted, Terminal
<1>6. CASE FailExpiredLost(w)
  BY <1>6 DEF FailExpiredLost
<1>7. CASE SweepInput(w)
  BY <1>7 DEF SweepInput
<1>8. CASE Claim(w)
  BY <1>8 DEF Claim
<1>9. CASE ClaimNone(w)
  BY <1>9 DEF ClaimNone
<1>10. CASE ClaimLost(w)
  BY <1>10 DEF ClaimLost
<1>11. CASE Prepare(w)
  BY <1>11 DEF Prepare
<1>12. CASE PrepareFails(w)
  BY <1>12 DEF PrepareFails
<1>13. CASE Publish(w)
  BY <1>13 DEF Publish
<1>14. CASE ProcessFails(w)
  BY <1>14 DEF ProcessFails
<1>15. CASE Cleanup(w)
  BY <1>15 DEF Cleanup
<1>16. CASE Deadline(w)
  BY <1>16 DEF Deadline
<1>17. CASE Renew(w)
  BY <1>17 DEF Renew
<1>18. CASE RenewFails(w)
  BY <1>18 DEF RenewFails
<1>19. CASE Settle(w)
  BY <1>19 DEF Settle, Verdict
<1>20. CASE Discard(w)
  BY <1>20 DEF Discard
<1>21. CASE DiscardLate(w)
  BY <1>21 DEF DiscardLate
<1>22. CASE Complete(w)
  BY <1>22 DEF Complete, CompleteSongJob, Holds, QueueInv, QueueTypeOK, HeldAttempts, Holding, Terminal
<1>23. CASE CompleteFenced(w)
  BY <1>23 DEF CompleteFenced
<1>24. CASE CompleteLost(w)
  BY <1>24 DEF CompleteLost
<1>25. CASE Record(w)
  <2>1. CASE attempt[w] < MaxAttempts
    BY <1>25, <2>1 DEF Record
  <2>2. CASE ~(attempt[w] < MaxAttempts)
    <3>1. FailSongJob(jobOf[w], attempt[w]) /\ UNCHANGED expired
      BY <1>25, <2>2 DEF Record, Fail
    <3>. QED
      BY <1>25, <3>1 DEF Record, FailSongJob, QueueInv, QueueTypeOK, HeldAttempts, Holding, Terminal
  <2>. QED
    BY <2>1, <2>2
<1>26. CASE RecordFenced(w)
  BY <1>26 DEF RecordFenced
<1>27. CASE RecordLost(w)
  BY <1>27 DEF RecordLost
<1>28. CASE Release(w)
  BY <1>28 DEF Release
<1>29. CASE Join(w)
  BY <1>29 DEF Join
<1>. QED
  BY <1>1, <1>2, <1>3, <1>4, <1>5, <1>6, <1>7, <1>8, <1>9, <1>10, <1>11, <1>12, <1>13,
     <1>14, <1>15, <1>16, <1>17, <1>18, <1>19, <1>20, <1>21, <1>22, <1>23, <1>24, <1>25,
     <1>26, <1>27, <1>28, <1>29
     DEF WorkerNext, MainStep, ProcessEnds, Disturbed

LEMMA WorkerPublished ==
    ASSUME AttemptInv, NEW w \in Workers, WorkerNext(w)
    PROVE  ResultKnown(w)' /\ (Published(w) => Published(w)')
<1>. USE DEF AttemptInv, TypedInv, WorkerTypeOK, Goto, attemptVars, fileVars, workerVars, Return, NoAttempt, Published, ResultsKnown, ResultKnown, Dir
<1>1. CASE Start(w)
  BY <1>1 DEF Start
<1>2. CASE Stop(w)
  BY <1>2 DEF Stop
<1>3. CASE Exit(w)
  BY <1>3 DEF Exit
<1>4. CASE Crash(w)
  BY <1>4 DEF Crash
<1>5. CASE FailExpired(w)
  BY <1>5 DEF FailExpired
<1>6. CASE FailExpiredLost(w)
  BY <1>6 DEF FailExpiredLost
<1>7. CASE SweepInput(w)
  BY <1>7 DEF SweepInput
<1>8. CASE Claim(w)
  BY <1>8 DEF Claim
<1>9. CASE ClaimNone(w)
  BY <1>9 DEF ClaimNone
<1>10. CASE ClaimLost(w)
  BY <1>10 DEF ClaimLost
<1>11. CASE Prepare(w)
  BY <1>11 DEF Prepare
<1>12. CASE PrepareFails(w)
  BY <1>12 DEF PrepareFails
<1>13. CASE Publish(w)
  BY <1>13 DEF Publish
<1>14. CASE ProcessFails(w)
  BY <1>14 DEF ProcessFails
<1>15. CASE Cleanup(w)
  BY <1>15 DEF Cleanup
<1>16. CASE Deadline(w)
  BY <1>16 DEF Deadline
<1>17. CASE Renew(w)
  BY <1>17 DEF Renew
<1>18. CASE RenewFails(w)
  BY <1>18 DEF RenewFails
<1>19. CASE Settle(w)
  BY <1>19 DEF Settle, Verdict
<1>20. CASE Discard(w)
  BY <1>20 DEF Discard
<1>21. CASE DiscardLate(w)
  BY <1>21 DEF DiscardLate
<1>22. CASE Complete(w)
  BY <1>22 DEF Complete
<1>23. CASE CompleteFenced(w)
  BY <1>23 DEF CompleteFenced
<1>24. CASE CompleteLost(w)
  BY <1>24 DEF CompleteLost
<1>25. CASE Record(w)
  BY <1>25 DEF Record
<1>26. CASE RecordFenced(w)
  BY <1>26 DEF RecordFenced
<1>27. CASE RecordLost(w)
  BY <1>27 DEF RecordLost
<1>28. CASE Release(w)
  BY <1>28 DEF Release
<1>29. CASE Join(w)
  BY <1>29 DEF Join
<1>. QED
  BY <1>1, <1>2, <1>3, <1>4, <1>5, <1>6, <1>7, <1>8, <1>9, <1>10, <1>11, <1>12, <1>13,
     <1>14, <1>15, <1>16, <1>17, <1>18, <1>19, <1>20, <1>21, <1>22, <1>23, <1>24, <1>25,
     <1>26, <1>27, <1>28, <1>29
     DEF WorkerNext, MainStep, ProcessEnds, Disturbed

(***************************************************************************)
(* What the statements of a worker do to the rows.                           *)
(***************************************************************************)
\* A worker runs no statement that the most general client may not run.
LEMMA WorkerQueueStep ==
    ASSUME AttemptInv, NEW w \in Workers, WorkerNext(w)
    PROVE  [QueueNext]_queueVars
<1>1. pc[w] \in Holding => jobOf[w] \in Songs /\ attempt[w] \in AttemptNumbers
  BY MaxAttemptsAssumption
     DEF AttemptInv, TypedInv, HeldAttempts, WorkerTypeOK, AttemptNumbers
<1>2. StatementOf(w)
  BY WorkerStatement
<1>. QED
  BY <1>1, <1>2 DEF StatementOf, QueueNext, Holding, Working

\* A worker opens no job, and makes a song READY only with what it published itself.
LEMMA WorkerRows ==
    ASSUME AttemptInv, NEW w \in Workers, WorkerNext(w), NEW s \in Songs
    PROVE  /\ jobState'[s] \in Needed => jobState[s] \in Needed
           /\ status'[s] = "READY" =>
                \/ status[s] = "READY" /\ audio'[s] = audio[s]
                \/ /\ s = jobOf[w] /\ audio'[s] = attempt[w]
                   /\ pc[w] = "complete" /\ pc'[w] \notin Uncommitted /\ outputs' = outputs
<1>. DEFINE Goal ==
       /\ jobState'[s] \in Needed => jobState[s] \in Needed
       /\ status'[s] = "READY" =>
            \/ status[s] = "READY" /\ audio'[s] = audio[s]
            \/ /\ s = jobOf[w] /\ audio'[s] = attempt[w]
               /\ pc[w] = "complete" /\ pc'[w] \notin Uncommitted /\ outputs' = outputs
<1>. USE DEF AttemptInv, TypedInv, QueueInv, QueueTypeOK, Needed
<1>1. CASE UNCHANGED queueVars
  BY <1>1 DEF queueVars
<1>2. CASE FailExpiredSongJobs
  BY <1>2 DEF FailExpiredSongJobs
<1>3. ASSUME NEW r \in Songs, ClaimSongJob(r) PROVE Goal
  BY <1>3 DEF ClaimSongJob, Claimable, songVars
<1>4. CASE RenewSongJob(jobOf[w], attempt[w])
  BY <1>4 DEF RenewSongJob, songVars
<1>5. CASE /\ pc[w] = "complete" /\ pc'[w] \notin Uncommitted /\ outputs' = outputs
           /\ CompleteSongJob(jobOf[w], attempt[w])
  BY <1>5 DEF CompleteSongJob
<1>6. CASE Fail(jobOf[w], attempt[w])
  BY <1>6 DEF Fail, RetrySongJob, FailSongJob, Holds, songVars
<1>. QED
  BY WorkerStatement, <1>1, <1>2, <1>3, <1>4, <1>5, <1>6 DEF StatementOf

(***************************************************************************)
(* A worker's step preserves each part of the invariant.                     *)
(***************************************************************************)
LEMMA WorkerHeldAttempts ==
    ASSUME AttemptInv, NEW w \in Workers, WorkerNext(w)
    PROVE  HeldAttempts'
<1>. SUFFICES ASSUME NEW v \in Workers, pc'[v] \in Holding
              PROVE  /\ jobOf'[v] \in Songs
                     /\ attempt'[v] > 0
                     /\ attempt'[v] <= attemptCount'[jobOf'[v]]
  BY DEF HeldAttempts
<1>. USE DEF AttemptInv, TypedInv
<1>1. QueueInv' /\ [QueueNext]_queueVars
  BY WorkerQueueStep, NextKeepsQueueInv
<1>2. CASE /\ pc[v] \in Holding /\ jobOf'[v] = jobOf[v] /\ attempt'[v] = attempt[v]
  <2>1. /\ jobOf[v] \in Songs /\ attempt[v] > 0
        /\ attempt[v] <= attemptCount[jobOf[v]]
    BY <1>2 DEF HeldAttempts
  <2>2. attemptCount[jobOf[v]] <= attemptCount'[jobOf[v]]
    BY <2>1, <1>1, AttemptsOnlyGrow
  <2>3. /\ attempt[v] \in Int /\ attemptCount[jobOf[v]] \in Int
        /\ attemptCount'[jobOf[v]] \in Int
    BY <2>1, <1>1 DEF QueueInv, QueueTypeOK, WorkerTypeOK
  <2>. QED
    BY <1>2, <2>1, <2>2, <2>3
<1>3. CASE /\ v = w /\ jobOf'[w] \in Songs /\ ClaimSongJob(jobOf'[w])
           /\ attempt'[w] = attemptCount'[jobOf'[w]]
  <2>1. attemptCount'[jobOf'[w]] > 0
    BY <1>3 DEF ClaimSongJob, QueueInv, QueueTypeOK
  <2>2. attemptCount'[jobOf'[w]] \in Int
    BY <1>3, <1>1 DEF QueueInv, QueueTypeOK
  <2>. QED
    BY <1>3, <2>1, <2>2
<1>. QED
  BY <1>2, <1>3, WorkerOthersKept, WorkerAttemptStep DEF OthersKept, AttemptStep

LEMMA WorkerUniqueAttempt ==
    ASSUME AttemptInv, NEW w \in Workers, WorkerNext(w)
    PROVE  UniqueAttempt'
<1>. USE DEF AttemptInv, TypedInv
\* A claimed number is larger than every number held for its song.
<1>1. ASSUME NEW v \in Workers \ {w}, pc'[v] \in Holding, pc'[w] \in Holding
      PROVE  Dir(v)' # Dir(w)'
  <2>1. /\ pc[v] \in Holding /\ jobOf'[v] = jobOf[v] /\ attempt'[v] = attempt[v]
    BY <1>1, WorkerOthersKept DEF OthersKept
  <2>2. CASE /\ pc[w] \in Holding /\ jobOf'[w] = jobOf[w] /\ attempt'[w] = attempt[w]
    BY <1>1, <2>1, <2>2 DEF UniqueAttempt, Dir
  <2>3. CASE /\ jobOf'[w] \in Songs /\ ClaimSongJob(jobOf'[w])
             /\ attempt'[w] = attemptCount'[jobOf'[w]]
    <3>1. attemptCount'[jobOf'[w]] = attemptCount[jobOf'[w]] + 1
      BY <2>3 DEF ClaimSongJob, QueueInv, QueueTypeOK
    <3>2. attempt[v] <= attemptCount[jobOf[v]]
      BY <1>1, <2>1 DEF HeldAttempts
    <3>3. attempt[v] \in Int /\ attemptCount[jobOf'[w]] \in Int
      BY <1>1, <2>3 DEF QueueInv, QueueTypeOK, WorkerTypeOK
    <3>. QED
      BY <2>1, <2>3, <3>1, <3>2, <3>3 DEF Dir
  <2>. QED
    BY <1>1, <2>2, <2>3, WorkerAttemptStep DEF AttemptStep
<1>2. ASSUME NEW u \in Workers, NEW v \in Workers, u # v, u # w, v # w,
             pc'[u] \in Holding, pc'[v] \in Holding
      PROVE  Dir(u)' # Dir(v)'
  BY <1>2, WorkerOthersKept DEF OthersKept, UniqueAttempt, Dir
<1>. QED
  BY <1>1, <1>2 DEF UniqueAttempt

LEMMA WorkerOutputsGivenOut ==
    ASSUME AttemptInv, NEW w \in Workers, WorkerNext(w)
    PROVE  OutputsGivenOut'
<1>. SUFFICES ASSUME NEW d \in outputs' PROVE d[2] <= attemptCount'[d[1]]
  BY DEF OutputsGivenOut
<1>. USE DEF AttemptInv, TypedInv
<1>1. WorkerTypeOK' /\ QueueInv' /\ [QueueNext]_queueVars
  BY WorkerQueueStep, NextKeepsQueueInv, WorkerStepType
<1>2. d[1] \in Songs /\ d[2] \in Int
  BY <1>1 DEF WorkerTypeOK, Dirs, AttemptNumbers
<1>3. /\ attemptCount[d[1]] <= attemptCount'[d[1]]
      /\ attemptCount[d[1]] \in Int /\ attemptCount'[d[1]] \in Int
  BY <1>1, <1>2, AttemptsOnlyGrow DEF QueueInv, QueueTypeOK
<1>4. CASE d \in outputs
  BY <1>2, <1>3, <1>4 DEF OutputsGivenOut
<1>5. CASE pc[w] = "process" /\ d = Dir(w)
  BY <1>2, <1>3, <1>5 DEF HeldAttempts, Dir, Holding, Working
<1>. QED
  BY <1>4, <1>5, WorkerOutputStep DEF OutputStep

LEMMA WorkerNoOutputCollision ==
    ASSUME AttemptInv, NEW w \in Workers, WorkerNext(w)
    PROVE  NoOutputCollision'
<1>. SUFFICES ASSUME NEW v \in Workers, pc'[v] \in {"prepare", "process"}
              PROVE  Dir(v)' \notin outputs'
  BY DEF NoOutputCollision
<1>. USE DEF AttemptInv, TypedInv
<1>1. CASE v # w
  <2>1. pc[v] = pc'[v] /\ Dir(v)' = Dir(v)
    BY <1>1, WorkerOthersKept DEF OthersKept, Dir
  <2>2. Dir(v) \notin outputs
    BY <2>1 DEF NoOutputCollision
  <2>3. pc[w] = "process" => Dir(v) # Dir(w)
    BY <1>1, <2>1 DEF UniqueAttempt, Holding, Working
  <2>. QED
    BY <2>1, <2>2, <2>3, WorkerOutputStep DEF OutputStep
<1>2. CASE /\ v = w /\ pc[w] \in {"prepare", "process"}
           /\ jobOf'[w] = jobOf[w] /\ attempt'[w] = attempt[w]
  <2>1. Dir(w) \notin outputs /\ Dir(w)' = Dir(w)
    BY <1>2 DEF NoOutputCollision, Dir
  <2>. QED
    BY <1>2, <2>1, WorkerOutputStep DEF OutputStep
<1>3. CASE /\ v = w /\ jobOf'[w] \in Songs /\ ClaimSongJob(jobOf'[w])
           /\ attempt'[w] = attemptCount'[jobOf'[w]] /\ outputs' = outputs
  <2>1. attemptCount'[jobOf'[w]] = attemptCount[jobOf'[w]] + 1
    BY <1>3 DEF ClaimSongJob, QueueInv, QueueTypeOK
  <2>2. attemptCount[jobOf'[w]] \in Int
    BY <1>3 DEF QueueInv, QueueTypeOK
  <2>3. ASSUME Dir(w)' \in outputs PROVE FALSE
    <3>1. attempt'[w] <= attemptCount[jobOf'[w]]
      BY <2>3 DEF OutputsGivenOut, Dir
    <3>. QED
      BY <3>1, <1>3, <2>1, <2>2
  <2>. QED
    BY <1>3, <2>3
<1>. QED
  BY <1>1, <1>2, <1>3, WorkerAttemptStep DEF AttemptStep, Holding, Working

LEMMA WorkerResultsKnown ==
    ASSUME AttemptInv, NEW w \in Workers, WorkerNext(w)
    PROVE  ResultsKnown'
BY WorkerPublished, WorkerOthersKept DEF OthersKept, AttemptInv, ResultsKnown, ResultKnown

LEMMA WorkerPublishedKept ==
    ASSUME AttemptInv, PublishedKept, NEW w \in Workers, WorkerNext(w)
    PROVE  PublishedKept'
<1>. USE DEF AttemptInv, TypedInv
<1>1. ASSUME NEW v \in Workers \ {w} PROVE Published(v)'
  <2>1. /\ pc'[v] = pc[v] /\ result'[v] = result[v] /\ Dir(v)' = Dir(v)
    BY <1>1, WorkerOthersKept DEF OthersKept, Dir
  <2>2. Published(v)
    BY DEF PublishedKept
  <2>3. pc[v] \in Holding /\ pc[w] \in {"discard", "discardLate"} => Dir(v) # Dir(w)
    BY <1>1 DEF UniqueAttempt, Holding
  <2>4. pc[v] \in {"cleanup", "join", "settle", "complete"} /\ Dir(v) \in outputs => Dir(v) \in outputs'
    BY <2>3, WorkerOutputStep DEF OutputStep, Holding, Working
  <2>. QED
    BY <2>1, <2>2, <2>4 DEF Published
<1>. QED
  BY <1>1, WorkerPublished DEF PublishedKept

LEMMA WorkerNotCommitted ==
    ASSUME AttemptInv, NEW w \in Workers, WorkerNext(w)
    PROVE  NotCommitted'
<1>. SUFFICES ASSUME NEW v \in Workers, pc'[v] \in Uncommitted, Referenced(Dir(v))'
              PROVE  FALSE
  BY DEF NotCommitted
<1>. USE DEF AttemptInv, TypedInv
<1>1. /\ status'[jobOf'[v]] = "READY" /\ audio'[jobOf'[v]] = attempt'[v]
  BY DEF Referenced, Dir
<1>2. HeldAttempts' /\ jobOf'[v] \in Songs
  BY WorkerHeldAttempts DEF HeldAttempts, Uncommitted
<1>3. QueueInv' /\ [QueueNext]_queueVars
  BY WorkerQueueStep, NextKeepsQueueInv
<1>4. CASE v # w
  <2>1. pc[v] = pc'[v] /\ jobOf'[v] = jobOf[v] /\ attempt'[v] = attempt[v]
    BY <1>4, WorkerOthersKept DEF OthersKept
  <2>2. ~(status[jobOf[v]] = "READY" /\ audio[jobOf[v]] = attempt[v])
    BY <2>1 DEF NotCommitted, Referenced, Dir
  <2>3. pc[w] = "complete" => ~(jobOf[v] = jobOf[w] /\ attempt[v] = attempt[w])
    BY <1>4, <2>1 DEF UniqueAttempt, Dir, Holding, Uncommitted
  <2>. QED
    BY <1>1, <1>2, <2>1, <2>2, <2>3, WorkerRows
<1>5. CASE /\ v = w /\ pc[w] \in Uncommitted
           /\ jobOf'[w] = jobOf[w] /\ attempt'[w] = attempt[w]
  <2>1. ~(status[jobOf[w]] = "READY" /\ audio[jobOf[w]] = attempt[w])
    BY <1>5 DEF NotCommitted, Referenced, Dir
  <2>. QED
    BY <1>1, <1>2, <1>5, <2>1, WorkerRows
<1>6. CASE v = w /\ jobOf'[w] \in Songs /\ ClaimSongJob(jobOf'[w])
  <2>1. jobState'[jobOf'[w]] = "RUNNING"
    BY <1>6 DEF ClaimSongJob, QueueInv, QueueTypeOK
  <2>. QED
    BY <1>1, <1>2, <1>3, <1>6, <2>1 DEF QueueInv, RowsAgree
<1>. QED
  BY <1>4, <1>5, <1>6, WorkerAttemptStep DEF AttemptStep, Uncommitted, Holding

LEMMA WorkerFinished ==
    ASSUME AttemptInv, NEW w \in Workers, WorkerNext(w)
    PROVE  ReleasesFinished' /\ SweepsFinished'
<1>. USE DEF AttemptInv, TypedInv
<1>1. [QueueNext]_queueVars
  BY WorkerQueueStep
<1>2. \A s \in Songs : jobState[s] \in Terminal => jobState'[s] \in Terminal
  BY <1>1, TerminalStep
<1>3. ASSUME NEW v \in Workers, pc'[v] = "release" PROVE jobState'[jobOf'[v]] \in Terminal
  <2>1. pc[v] = "release" => jobOf[v] \in Songs /\ jobState[jobOf[v]] \in Terminal
    BY DEF ReleasesFinished, HeldAttempts, Holding
  <2>2. CASE v # w
    BY <1>2, <1>3, <2>1, <2>2, WorkerOthersKept DEF OthersKept
  <2>3. CASE v = w
    <3>1. jobOf'[w] = jobOf[w]
      BY <1>3, <2>3, WorkerAttemptStep DEF AttemptStep, Holding
    <3>. QED
      BY <1>2, <1>3, <2>1, <2>3, <3>1, WorkerFinishStep DEF FinishStep
  <2>. QED
    BY <2>2, <2>3
<1>4. ASSUME NEW v \in Workers, NEW s \in expired'[v] PROVE jobState'[s] \in Terminal
  <2>1. \A r \in expired[v] : r \in Songs /\ jobState[r] \in Terminal
    BY DEF SweepsFinished, WorkerTypeOK
  <2>2. CASE v # w
    BY <1>2, <1>4, <2>1, <2>2, WorkerOthersKept DEF OthersKept
  <2>3. CASE v = w
    BY <1>2, <1>4, <2>1, <2>3, WorkerFinishStep DEF FinishStep
  <2>. QED
    BY <2>2, <2>3
<1>. QED
  BY <1>3, <1>4 DEF ReleasesFinished, SweepsFinished

LEMMA WorkerKeepsAttemptInv ==
    ASSUME AttemptInv, NEW w \in Workers, WorkerNext(w)
    PROVE  AttemptInv'
<1>1. QueueInv'
  BY WorkerQueueStep, NextKeepsQueueInv DEF AttemptInv, TypedInv
<1>2. WorkerTypeOK'
  BY WorkerStepType DEF AttemptInv
<1>. QED
  BY <1>1, <1>2, WorkerHeldAttempts, WorkerUniqueAttempt, WorkerOutputsGivenOut,
     WorkerNoOutputCollision, WorkerResultsKnown, WorkerNotCommitted, WorkerFinished
     DEF AttemptInv, TypedInv

LEMMA WorkerReadyAudioExists ==
    ASSUME AttemptInv, OutputInv, NEW w \in Workers, WorkerNext(w)
    PROVE  ReadyAudioExists'
<1>. SUFFICES ASSUME NEW s \in Songs, status'[s] = "READY"
              PROVE  <<s, audio'[s]>> \in outputs'
  BY DEF ReadyAudioExists
<1>. USE DEF AttemptInv, OutputInv
<1>1. CASE status[s] = "READY" /\ audio'[s] = audio[s]
  <2>1. <<s, audio[s]>> \in outputs
    BY <1>1 DEF ReadyAudioExists
  <2>2. pc[w] \in {"discard", "discardLate"} => Dir(w) # <<s, audio[s]>>
    BY <1>1 DEF NotCommitted, Referenced, Dir, Uncommitted, Holding
  <2>. QED
    BY <1>1, <2>1, <2>2, WorkerOutputStep DEF OutputStep
<1>2. CASE /\ s = jobOf[w] /\ audio'[s] = attempt[w]
           /\ pc[w] = "complete" /\ outputs' = outputs
  BY <1>2 DEF PublishedKept, Published, ResultsKnown, ResultKnown, Dir
<1>. QED
  BY <1>1, <1>2, WorkerRows

LEMMA WorkerInputKept ==
    ASSUME AttemptInv, InputKept, NEW w \in Workers, WorkerNext(w)
    PROVE  InputKept'
<1>. SUFFICES ASSUME NEW s \in Songs, jobState'[s] \in Needed PROVE s \in inputs'
  BY DEF InputKept
<1>1. jobState[s] \in Needed
  BY WorkerRows
<1>2. s \in inputs /\ jobState[s] \notin Terminal
  BY <1>1 DEF InputKept, Needed, Terminal
<1>3. s \notin expired[w] /\ ~(pc[w] = "release" /\ s = jobOf[w])
  BY <1>2 DEF AttemptInv, SweepsFinished, ReleasesFinished
<1>. QED
  BY <1>2, <1>3, WorkerInputStep DEF InputStep

LEMMA InitWorkerInv == Init => WorkerInv
<1>. SUFFICES ASSUME Init PROVE WorkerInv
  OBVIOUS
<1>1. QueueInv /\ WorkerTypeOK
  BY InitQueueInv, InitWorkerType DEF Init
<1>2. /\ \A w \in Workers : pc[w] = "down" /\ expired[w] = {}
      /\ \A s \in Songs : jobState[s] = "ABSENT" /\ status[s] = "ABSENT"
      /\ outputs = {}
  BY DEF Init, QueueInit
<1>. QED
  BY <1>1, <1>2
     DEF WorkerInv, AttemptInv, OutputInv, TypedInv, HeldAttempts, UniqueAttempt, OutputsGivenOut,
         NoOutputCollision, ResultsKnown, ResultKnown, PublishedKept, Published, NotCommitted,
         Uncommitted, ReleasesFinished, SweepsFinished, ReadyAudioExists, InputKept, Holding,
         Working, Needed

(***************************************************************************)
(* The steps that are not a worker's.  Whatever they do to the files, they    *)
(* leave the workers alone; LooseNext lets them remove any file at any time.  *)
(***************************************************************************)
FilesMove ==
    /\ UNCHANGED <<queueVars, pc, attemptVars, expired, stopping, faults>>
    /\ inputs' \subseteq Songs /\ workDirs' \subseteq workDirs /\ outputs' \subseteq outputs

LooseNext ==
    \/ \E w \in Workers : WorkerNext(w)
    \/ \E s \in Songs : EnqueueSongJob(s) /\ UNCHANGED workerVars
    \/ FilesMove
    \/ TimePasses

\* Steps that change the rows alone, and make no song READY.
LEMMA RowStepKeepsInv ==
    ASSUME AttemptInv, [QueueNext]_queueVars, UNCHANGED workerVars,
           \A s \in Songs : status'[s] = "READY" => status[s] = "READY"
    PROVE  AttemptInv' /\ (OutputInv => OutputInv')
<1>. USE DEF AttemptInv, TypedInv, workerVars
<1>1. QueueInv'
  BY NextKeepsQueueInv
<1>2. WorkerTypeOK'
  BY DEF WorkerTypeOK
<1>3. \A s \in Songs : /\ attemptCount[s] \in Int /\ attemptCount'[s] \in Int
                       /\ attemptCount[s] <= attemptCount'[s]
  BY <1>1, AttemptsOnlyGrow DEF QueueInv, QueueTypeOK
<1>4. \A s \in Songs : status'[s] = "READY" => status[s] = "READY" /\ audio'[s] = audio[s]
  <2>. SUFFICES ASSUME NEW s \in Songs, status'[s] = "READY"
                PROVE  status[s] = "READY" /\ audio'[s] = audio[s]
    OBVIOUS
  <2>1. status[s] = "READY" /\ jobState[s] = "SUCCEEDED"
    BY DEF QueueInv, RowsAgree
  <2>. QED
    BY <2>1, TerminalStep DEF Terminal
<1>5. HeldAttempts'
  BY <1>3 DEF HeldAttempts, WorkerTypeOK
<1>6. UniqueAttempt' /\ NoOutputCollision' /\ ResultsKnown'
  BY DEF UniqueAttempt, NoOutputCollision, ResultsKnown, ResultKnown, Dir
<1>7. OutputsGivenOut'
  BY <1>3 DEF OutputsGivenOut, WorkerTypeOK, Dirs, AttemptNumbers
<1>8. NotCommitted'
  BY <1>4 DEF NotCommitted, Referenced, Dir, HeldAttempts, Uncommitted
<1>9. ReleasesFinished' /\ SweepsFinished'
  <2>1. \A s \in Songs : jobState[s] \in Terminal => jobState'[s] \in Terminal
    BY TerminalStep
  <2>. QED
    BY <2>1 DEF ReleasesFinished, SweepsFinished, WorkerTypeOK, HeldAttempts, Holding
<1>10. OutputInv => OutputInv'
  BY <1>4 DEF OutputInv, ReadyAudioExists, PublishedKept, Published, Dir
<1>. QED
  BY <1>1, <1>2, <1>5, <1>6, <1>7, <1>8, <1>9, <1>10

LEMMA TimeKeepsInv ==
    ASSUME AttemptInv, TimePasses
    PROVE  AttemptInv' /\ (OutputInv => OutputInv')
<1>1. \A s \in Songs : status'[s] = status[s]
  BY DEF TimePasses, Tick, songVars
<1>2. [QueueNext]_queueVars
  BY DEF TimePasses, QueueNext
<1>. QED
  BY <1>1, <1>2, RowStepKeepsInv DEF TimePasses

LEMMA EnqueueKeepsInv ==
    ASSUME AttemptInv, NEW s \in Songs, EnqueueSongJob(s), UNCHANGED workerVars
    PROVE  AttemptInv' /\ (OutputInv => OutputInv')
<1>1. [QueueNext]_queueVars
  BY DEF QueueNext
<1>2. \A r \in Songs : status'[r] = "READY" => status[r] = "READY"
  BY DEF EnqueueSongJob, AttemptInv, TypedInv, QueueInv, QueueTypeOK
<1>. QED
  BY <1>1, <1>2, RowStepKeepsInv

\* Steps that change the files alone.
LEMMA FilesMoveKeepsAttemptInv ==
    ASSUME AttemptInv, FilesMove
    PROVE  AttemptInv'
<1>. USE DEF AttemptInv, TypedInv, attemptVars, FilesMove
<1>1. QueueInv'
  BY NextKeepsQueueInv DEF queueVars
<1>2. WorkerTypeOK'
  BY DEF WorkerTypeOK
<1>3. HeldAttempts' /\ UniqueAttempt' /\ NotCommitted' /\ ReleasesFinished' /\ SweepsFinished'
  BY DEF HeldAttempts, UniqueAttempt, NotCommitted, Referenced, ReleasesFinished, SweepsFinished,
         Dir, queueVars
<1>4. OutputsGivenOut' /\ NoOutputCollision' /\ ResultsKnown'
  BY DEF OutputsGivenOut, NoOutputCollision, ResultsKnown, ResultKnown, Dir, queueVars
<1>. QED
  BY <1>1, <1>2, <1>3, <1>4

\* They keep the outputs that are used or may be.
LEMMA FilesMoveKeepsOutputInv ==
    ASSUME OutputInv, FilesMove,
           \A d \in outputs \ outputs' : ~Referenced(d) /\ \A w \in Workers : ~Committing(w, d)
    PROVE  OutputInv'
<1>. USE DEF OutputInv, FilesMove, attemptVars
<1>1. PublishedKept'
  <2>. SUFFICES ASSUME NEW w \in Workers PROVE Published(w)'
    BY DEF PublishedKept
  <2>1. Published(w)
    BY DEF PublishedKept
  <2>2. result[w] = "ok" /\ pc[w] \in {"cleanup", "join", "settle", "complete"} /\ Dir(w) \in outputs
          => Dir(w) \in outputs'
    BY DEF Committing
  <2>. QED
    BY <2>1, <2>2 DEF Published, Dir
<1>2. ReadyAudioExists'
  BY DEF ReadyAudioExists, Referenced, queueVars
<1>. QED
  BY <1>1, <1>2

\* Who works on what stays right whatever becomes of the files.
LEMMA LooseKeepsAttemptInv == AttemptInv /\ [LooseNext]_vars => AttemptInv'
<1>. SUFFICES ASSUME AttemptInv, [LooseNext]_vars PROVE AttemptInv'
  OBVIOUS
<1>1. CASE UNCHANGED vars
  BY <1>1, RowStepKeepsInv DEF vars, queueVars
<1>. QED
  BY <1>1, WorkerKeepsAttemptInv, EnqueueKeepsInv, FilesMoveKeepsAttemptInv, TimeKeepsInv
     DEF LooseNext

\* So do the outputs, if only those are removed that nobody uses or may use.
LEMMA LooseKeepsOutputInv ==
    ASSUME AttemptInv, OutputInv, [LooseNext]_vars,
           \/ \E w \in Workers : WorkerNext(w)
           \/ \A d \in outputs \ outputs' :
                ~Referenced(d) /\ \A w \in Workers : ~Committing(w, d)
    PROVE  OutputInv'
<1>1. CASE UNCHANGED vars
  BY <1>1, RowStepKeepsInv DEF vars, queueVars
<1>2. CASE \E w \in Workers : WorkerNext(w)
  BY <1>2, WorkerPublishedKept, WorkerReadyAudioExists DEF OutputInv
<1>. QED
  BY <1>1, <1>2, EnqueueKeepsInv, FilesMoveKeepsOutputInv, TimeKeepsInv DEF LooseNext

\* The workers and the upload run no statement that any client may not run.
LEMMA LooseIsQueueStep == AttemptInv /\ [LooseNext]_vars => [QueueNext]_queueVars
<1>. SUFFICES ASSUME AttemptInv, [LooseNext]_vars PROVE [QueueNext]_queueVars
  OBVIOUS
<1>1. CASE \E w \in Workers : WorkerNext(w)
  BY <1>1, WorkerQueueStep
<1>2. CASE \E s \in Songs : EnqueueSongJob(s)
  BY <1>2 DEF QueueNext
<1>3. CASE FilesMove \/ UNCHANGED vars
  BY <1>3 DEF FilesMove, vars
<1>4. CASE TimePasses
  BY <1>4 DEF TimePasses, QueueNext
<1>. QED
  BY <1>1, <1>2, <1>3, <1>4 DEF LooseNext

\* The environment of SongWorker moves files, and spares those that are needed.
LEMMA EnvironmentStep ==
    ASSUME AttemptInv, Environment
    PROVE  /\ LooseNext
           /\ \A d \in outputs \ outputs' :
                ~Referenced(d) /\ \A w \in Workers : ~Committing(w, d)
           /\ InputKept => InputKept'
<1>. USE DEF AttemptInv, TypedInv, WorkerTypeOK, FilesMove, LooseNext, InputKept, queueVars
<1>1. ASSUME NEW s \in Songs, SaveInput(s) \/ CollectInput(s)
      PROVE  FilesMove /\ outputs' = outputs /\ (InputKept => InputKept')
  BY <1>1 DEF SaveInput, CollectInput
<1>2. ASSUME NEW s \in Songs, Upload(s)
      PROVE  /\ EnqueueSongJob(s) /\ UNCHANGED workerVars
             /\ outputs' = outputs /\ (InputKept => InputKept')
  BY <1>2 DEF Upload, EnqueueSongJob, QueueInv, QueueTypeOK, workerVars
<1>3. ASSUME NEW d \in Dirs, CollectWorkDir(d)
      PROVE  FilesMove /\ outputs' = outputs /\ (InputKept => InputKept')
  BY <1>3 DEF CollectWorkDir
<1>4. ASSUME NEW d \in Dirs, CollectOutput(d)
      PROVE  /\ FilesMove /\ (InputKept => InputKept')
             /\ outputs' = outputs \ {d} /\ ~Referenced(d)
             /\ \A w \in Workers : ~Committing(w, d)
  BY <1>4 DEF CollectOutput
<1>. HIDE DEF AttemptInv, FilesMove, InputKept
<1>. QED
  BY <1>1, <1>2, <1>3, <1>4 DEF Environment

LEMMA NextIsLoose == AttemptInv /\ [Next]_vars => [LooseNext]_vars
BY EnvironmentStep DEF Next, LooseNext

LEMMA NextKeepsWorkerInv == WorkerInv /\ [Next]_vars => WorkerInv'
<1>. SUFFICES ASSUME WorkerInv, [Next]_vars PROVE WorkerInv'
  OBVIOUS
<1>. USE DEF WorkerInv
<1>1. AttemptInv'
  BY NextIsLoose, LooseKeepsAttemptInv
<1>2. CASE \E w \in Workers : WorkerNext(w)
  BY <1>1, <1>2, WorkerPublishedKept, WorkerReadyAudioExists, WorkerInputKept DEF OutputInv
<1>3. CASE Environment
  BY <1>1, <1>3, NextIsLoose, EnvironmentStep, LooseKeepsOutputInv
<1>4. CASE TimePasses
  BY <1>1, <1>4, TimeKeepsInv DEF TimePasses, Tick, workerVars, InputKept
<1>5. CASE UNCHANGED vars
  BY <1>1, <1>5, RowStepKeepsInv DEF vars, queueVars, workerVars, InputKept
<1>. QED
  BY <1>2, <1>3, <1>4, <1>5 DEF Next

\* The inductive invariant holds of every reachable state.
THEOREM WorkerInvariant == Spec => []WorkerInv
BY InitWorkerInv, NextKeepsWorkerInv, PTL DEF Spec

\* The rows, the workers and the files keep their types.
THEOREM TypeCorrect == Spec => []TypeOK
<1>1. WorkerInv => TypeOK
  BY DEF WorkerInv, AttemptInv, TypedInv, QueueInv, TypeOK
<1>. QED
  BY <1>1, WorkerInvariant, PTL

\* The files of a READY song are always there, whatever crashes, lost answers and
\* expired leases come between the publication and the commit.
THEOREM ReadyAudioAlwaysExists == Spec => []ReadyAudioExists
<1>1. WorkerInv => ReadyAudioExists
  BY DEF WorkerInv, OutputInv
<1>. QED
  BY <1>1, WorkerInvariant, PTL

\* The input of an open job is never removed.
THEOREM InputAlwaysKept == Spec => []InputKept
<1>1. WorkerInv => InputKept
  BY DEF WorkerInv
<1>. QED
  BY <1>1, WorkerInvariant, PTL

\* No two workers ever hold one attempt.
THEOREM AttemptsUnique == Spec => []UniqueAttempt
<1>1. WorkerInv => UniqueAttempt
  BY DEF WorkerInv, AttemptInv
<1>. QED
  BY <1>1, WorkerInvariant, PTL

\* Publish never finds its directory taken.
THEOREM OutputsNeverCollide == Spec => []NoOutputCollision
<1>1. WorkerInv => NoOutputCollision
  BY DEF WorkerInv, AttemptInv
<1>. QED
  BY <1>1, WorkerInvariant, PTL

\* The workers and the upload are clients of the queue: what SongQueue_proofs
\* shows of any client holds of them.
THEOREM WorkersUseQueue == Spec => QueueSpec
<1>1. Init => QueueInit
  BY DEF Init
<1>2. WorkerInv /\ [Next]_vars => [QueueNext]_queueVars
  BY NextIsLoose, LooseIsQueueStep DEF WorkerInv
<1>. QED
  BY <1>1, <1>2, WorkerInvariant, PTL DEF Spec, QueueSpec

(***************************************************************************)
(* The refinement.  Since the files of a READY song are there, the songs     *)
(* that are playable are the READY ones, and each statement of the queue is   *)
(* a step of the lifecycle or invisible to it.                              *)
(***************************************************************************)
Playable == {s \in Songs : status[s] = "READY" /\ <<s, audio[s]>> \in outputs}

LEMMA PlayableIsReady ==
    ASSUME ReadyAudioExists
    PROVE  Playable = {s \in Songs : status[s] = "READY"}
BY DEF ReadyAudioExists, Playable

LEMMA QueueStepIsLifecycleStep ==
    ASSUME QueueInv, [QueueNext]_queueVars,
           Playable = {s \in Songs : status[s] = "READY"},
           Playable' = {s \in Songs : status'[s] = "READY"}
    PROVE  [Lifecycle!Next]_(Lifecycle!vars)
<1>. USE DEF QueueInv, QueueTypeOK, Lifecycle!Next, Lifecycle!vars, Playable
<1>1. ASSUME UNCHANGED status PROVE UNCHANGED Lifecycle!vars
  BY <1>1
<1>2. ASSUME NEW s \in Songs, EnqueueSongJob(s) PROVE Lifecycle!Upload(s)
  BY <1>2 DEF EnqueueSongJob, RowsAgree, Lifecycle!Upload
<1>3. ASSUME NEW s \in Songs, NEW n, CompleteSongJob(s, n) PROVE Lifecycle!Succeed(s)
  BY <1>3 DEF CompleteSongJob, Holds, RowsAgree, Needed, Lifecycle!Succeed
<1>4. ASSUME NEW s \in Songs, NEW n, FailSongJob(s, n) PROVE Lifecycle!GiveUp({s})
  <2>1. status' = [r \in Songs |-> IF r \in {s} THEN "FAILED" ELSE status[r]]
    BY <1>4 DEF FailSongJob
  <2>2. status[s] = "PROCESSING"
    BY <1>4 DEF FailSongJob, Holds, RowsAgree, Needed
  <2>3. Playable' = Playable
    BY <2>1, <2>2
  <2>. QED
    BY <2>1, <2>2, <2>3 DEF Lifecycle!GiveUp
<1>5. ASSUME FailExpiredSongJobs, Exhausted # {} PROVE Lifecycle!GiveUp(Exhausted)
  BY <1>5 DEF FailExpiredSongJobs, Exhausted, RowsAgree, Needed, Lifecycle!GiveUp
<1>6. ASSUME FailExpiredSongJobs, Exhausted = {} PROVE UNCHANGED status
  BY <1>6 DEF FailExpiredSongJobs
<1>7. Exhausted \in SUBSET Songs /\ \A s \in Songs : {s} \in SUBSET Songs
  BY DEF Exhausted
<1>8. ASSUME NEW s \in Songs, NEW n, Fail(s, n) PROVE UNCHANGED status \/ FailSongJob(s, n)
  BY <1>8 DEF Fail, RetrySongJob, songVars
<1>9. ASSUME NEW s \in Songs, NEW n, ClaimSongJob(s) \/ RenewSongJob(s, n) PROVE UNCHANGED status
  BY <1>9 DEF ClaimSongJob, RenewSongJob, songVars
<1>10. ASSUME Tick \/ UNCHANGED queueVars PROVE UNCHANGED status
  BY <1>10 DEF Tick, songVars, queueVars
<1>. HIDE DEF QueueInv, QueueTypeOK, Lifecycle!vars, Playable
<1>. QED
  BY <1>1, <1>2, <1>3, <1>4, <1>5, <1>6, <1>7, <1>8, <1>9, <1>10 DEF QueueNext

\* A step that keeps the rows and the outputs right is one of the lifecycle.
LEMMA StepIsLifecycleStep ==
    ASSUME AttemptInv, OutputInv, OutputInv', [LooseNext]_vars
    PROVE  [Lifecycle!Next]_(Lifecycle!vars)
<1>1. Playable = {s \in Songs : status[s] = "READY"}
  BY PlayableIsReady DEF OutputInv
<1>2. Playable' = {s \in Songs : status'[s] = "READY"}
  BY DEF OutputInv, ReadyAudioExists, Playable
<1>. QED
  BY <1>1, <1>2, LooseIsQueueStep, QueueStepIsLifecycleStep DEF AttemptInv, TypedInv

LEMMA InitIsLifecycleInit == Init => Lifecycle!Init
BY DEF Init, QueueInit, Lifecycle!Init

\* The workers, the queue and the files implement the song's lifecycle: in every
\* step a song is uploaded once, becomes READY with its audio in place, or FAILED.
THEOREM ImplementsLifecycle == Spec => LifecycleSafety
<1>1. WorkerInv /\ WorkerInv' /\ [Next]_vars => [Lifecycle!Next]_(Lifecycle!vars)
  BY NextIsLoose, StepIsLifecycleStep DEF WorkerInv
<1>. QED
  BY <1>1, InitIsLifecycleInit, WorkerInvariant, PTL DEF Spec, LifecycleSafety, Lifecycle!SafetySpec

(***************************************************************************)
(* A lost lease.  Verdict sends an attempt that was told so to discard, where *)
(* nothing is written, and nothing else gives it back its lease.             *)
(***************************************************************************)
CleansUp(w) == leaseLost[w] => pc[w] \in Working \cup {"join", "settle", "discard"}

LostOnlyCleansUp == \A w \in Workers : CleansUp(w)

LEMMA WorkerLostStep ==
    ASSUME AttemptInv, LostOnlyCleansUp, NEW w \in Workers, WorkerNext(w)
    PROVE  /\ CleansUp(w)'
           /\ \A v \in Workers \ {w} : leaseLost'[v] = leaseLost[v]
           /\ leaseLost[w] /\ pc'[w] # pc[w] => UNCHANGED queueVars
<1>. USE DEF AttemptInv, TypedInv, WorkerTypeOK, Goto, attemptVars, fileVars, workerVars, Return,
             NoAttempt, LostOnlyCleansUp, CleansUp, Working, PCs, Holding
<1>1. CASE Start(w)
  BY <1>1 DEF Start
<1>2. CASE Stop(w)
  BY <1>2 DEF Stop
<1>3. CASE Exit(w)
  BY <1>3 DEF Exit
<1>4. CASE Crash(w)
  BY <1>4 DEF Crash
<1>5. CASE FailExpired(w)
  BY <1>5 DEF FailExpired
<1>6. CASE FailExpiredLost(w)
  BY <1>6 DEF FailExpiredLost
<1>7. CASE SweepInput(w)
  BY <1>7 DEF SweepInput
<1>8. CASE Claim(w)
  BY <1>8 DEF Claim
<1>9. CASE ClaimNone(w)
  BY <1>9 DEF ClaimNone
<1>10. CASE ClaimLost(w)
  BY <1>10 DEF ClaimLost
<1>11. CASE Prepare(w)
  BY <1>11 DEF Prepare
<1>12. CASE PrepareFails(w)
  BY <1>12 DEF PrepareFails
<1>13. CASE Publish(w)
  BY <1>13 DEF Publish
<1>14. CASE ProcessFails(w)
  BY <1>14 DEF ProcessFails
<1>15. CASE Cleanup(w)
  BY <1>15 DEF Cleanup
<1>16. CASE Deadline(w)
  BY <1>16 DEF Deadline
<1>17. CASE Renew(w)
  BY <1>17 DEF Renew
<1>18. CASE RenewFails(w)
  BY <1>18 DEF RenewFails
<1>19. CASE Settle(w)
  BY <1>19 DEF Settle, Verdict
<1>20. CASE Discard(w)
  BY <1>20 DEF Discard
<1>21. CASE DiscardLate(w)
  BY <1>21 DEF DiscardLate
<1>22. CASE Complete(w)
  BY <1>22 DEF Complete
<1>23. CASE CompleteFenced(w)
  BY <1>23 DEF CompleteFenced
<1>24. CASE CompleteLost(w)
  BY <1>24 DEF CompleteLost
<1>25. CASE Record(w)
  BY <1>25 DEF Record
<1>26. CASE RecordFenced(w)
  BY <1>26 DEF RecordFenced
<1>27. CASE RecordLost(w)
  BY <1>27 DEF RecordLost
<1>28. CASE Release(w)
  BY <1>28 DEF Release
<1>29. CASE Join(w)
  BY <1>29 DEF Join
<1>. QED
  BY <1>1, <1>2, <1>3, <1>4, <1>5, <1>6, <1>7, <1>8, <1>9, <1>10, <1>11, <1>12, <1>13,
     <1>14, <1>15, <1>16, <1>17, <1>18, <1>19, <1>20, <1>21, <1>22, <1>23, <1>24, <1>25,
     <1>26, <1>27, <1>28, <1>29
     DEF WorkerNext, MainStep, ProcessEnds, Disturbed

LEMMA LooseLostStep ==
    ASSUME AttemptInv, LostOnlyCleansUp, [LooseNext]_vars
    PROVE  /\ LostOnlyCleansUp'
           /\ \A w \in Workers : leaseLost[w] /\ pc'[w] # pc[w] => UNCHANGED queueVars
<1>1. CASE UNCHANGED <<pc, leaseLost>>
  BY <1>1 DEF LostOnlyCleansUp, CleansUp
<1>2. ASSUME NEW w \in Workers, WorkerNext(w)
      PROVE  /\ LostOnlyCleansUp'
             /\ \A v \in Workers : leaseLost[v] /\ pc'[v] # pc[v] => UNCHANGED queueVars
  <2>1. \A v \in Workers \ {w} : pc'[v] = pc[v] /\ leaseLost'[v] = leaseLost[v]
    BY <1>2, WorkerOthersKept, WorkerLostStep DEF OthersKept
  <2>2. LostOnlyCleansUp'
    BY <1>2, <2>1, WorkerLostStep DEF LostOnlyCleansUp, CleansUp
  <2>. QED
    BY <1>2, <2>1, <2>2, WorkerLostStep
<1>3. FilesMove \/ UNCHANGED workerVars \/ UNCHANGED vars => UNCHANGED <<pc, leaseLost>>
  BY DEF FilesMove, vars, workerVars, attemptVars
<1>. QED
  BY <1>1, <1>2, <1>3 DEF LooseNext, TimePasses

LEMMA InitLost == Init => LostOnlyCleansUp
BY DEF Init, LostOnlyCleansUp, CleansUp

\* An attempt that was told its lease is lost writes no row any more.
THEOREM LostLeaseStaysSilent == Spec => LostLeaseWritesNothing
<1>1. WorkerInv /\ LostOnlyCleansUp /\ [Next]_vars
        => /\ LostOnlyCleansUp'
           /\ \A w \in Workers : leaseLost[w] /\ pc'[w] # pc[w] => UNCHANGED queueVars
  BY NextIsLoose, LooseLostStep DEF WorkerInv
<1>. QED
  BY <1>1, InitLost, WorkerInvariant, PTL DEF Spec, LostLeaseWritesNothing
=============================================================================
