--------------------------- MODULE SongQueue_proofs ---------------------------
(***************************************************************************)
(* Theorems about SongQueue, for every set of songs and every number of      *)
(* attempts, length of a lease and retry delay.                             *)
(***************************************************************************)
EXTENDS SongQueue, TLAPS

(***************************************************************************)
(* RowsAgree and NeverStranded are not inductive by themselves: a renewal    *)
(* or a completion is harmless only because a running job was claimed at      *)
(* least once and waits for no delay, and a fresh one has no attempts.        *)
(***************************************************************************)
Counts ==
    \A s \in Songs :
        /\ jobState[s] = "ABSENT" => attemptCount[s] = 0
        /\ jobState[s] = "QUEUED" => attemptCount[s] < MaxAttempts
        /\ jobState[s] = "RUNNING" => attemptCount[s] > 0
        /\ lease[s] > 0 => jobState[s] = "RUNNING"
        /\ delay[s] > 0 => jobState[s] = "QUEUED"

QueueInv == QueueTypeOK /\ RowsAgree /\ PathsOfWinner /\ Counts

LEMMA InitQueueInv == QueueInit => QueueInv
BY MaxAttemptsAssumption, LeaseTicksAssumption
   DEF QueueInit, QueueInv, QueueTypeOK, RowsAgree, PathsOfWinner, Counts,
       JobStates, Statuses, Needed

LEMMA EnqueueKeepsQueueInv ==
    ASSUME QueueInv, NEW s \in Songs, EnqueueSongJob(s)
    PROVE  QueueInv'
BY MaxAttemptsAssumption, LeaseTicksAssumption
   DEF QueueInv, QueueTypeOK, RowsAgree, PathsOfWinner, Counts, JobStates, Statuses, Needed,
       EnqueueSongJob

LEMMA ClaimKeepsQueueInv ==
    ASSUME QueueInv, NEW s \in Songs, ClaimSongJob(s)
    PROVE  QueueInv'
BY MaxAttemptsAssumption, LeaseTicksAssumption
   DEF QueueInv, QueueTypeOK, RowsAgree, PathsOfWinner, Counts, JobStates, Statuses, Needed,
       ClaimSongJob, Claimable, songVars

LEMMA CompleteKeepsQueueInv ==
    ASSUME QueueInv, NEW s \in Songs, NEW n, CompleteSongJob(s, n)
    PROVE  QueueInv'
BY MaxAttemptsAssumption, LeaseTicksAssumption
   DEF QueueInv, QueueTypeOK, RowsAgree, PathsOfWinner, Counts, JobStates, Statuses, Needed,
       CompleteSongJob, Holds

LEMMA RenewKeepsQueueInv ==
    ASSUME QueueInv, NEW s \in Songs, NEW n, RenewSongJob(s, n)
    PROVE  QueueInv'
BY MaxAttemptsAssumption, LeaseTicksAssumption
   DEF QueueInv, QueueTypeOK, RowsAgree, PathsOfWinner, Counts, JobStates, Statuses, Needed,
       RenewSongJob, Holds, songVars

LEMMA RetryKeepsQueueInv ==
    ASSUME QueueInv, NEW s \in Songs, NEW n, n < MaxAttempts, RetrySongJob(s, n)
    PROVE  QueueInv'
<1>1. n \in Nat
  BY DEF RetrySongJob, Holds, QueueInv, QueueTypeOK
<1>2. n * RetryTicks \in Nat
  BY <1>1, RetryTicksAssumption
<1>. QED
  BY <1>2, MaxAttemptsAssumption, LeaseTicksAssumption
     DEF QueueInv, QueueTypeOK, RowsAgree, PathsOfWinner, Counts, JobStates, Statuses, Needed,
         RetrySongJob, Holds, songVars

LEMMA FailSongJobKeepsQueueInv ==
    ASSUME QueueInv, NEW s \in Songs, NEW n, FailSongJob(s, n)
    PROVE  QueueInv'
BY MaxAttemptsAssumption, LeaseTicksAssumption
   DEF QueueInv, QueueTypeOK, RowsAgree, PathsOfWinner, Counts, JobStates, Statuses, Needed,
       FailSongJob, Holds

LEMMA FailKeepsQueueInv ==
    ASSUME QueueInv, NEW s \in Songs, NEW n, Fail(s, n)
    PROVE  QueueInv'
BY RetryKeepsQueueInv, FailSongJobKeepsQueueInv DEF Fail

LEMMA FailExpiredKeepsQueueInv ==
    ASSUME QueueInv, FailExpiredSongJobs
    PROVE  QueueInv'
BY MaxAttemptsAssumption, LeaseTicksAssumption
   DEF QueueInv, QueueTypeOK, RowsAgree, PathsOfWinner, Counts, JobStates, Statuses, Needed,
       FailExpiredSongJobs, Exhausted

LEMMA TickKeepsQueueInv ==
    ASSUME QueueInv, Tick
    PROVE  QueueInv'
BY MaxAttemptsAssumption, LeaseTicksAssumption
   DEF QueueInv, QueueTypeOK, RowsAgree, PathsOfWinner, Counts, JobStates, Statuses, Needed,
       Tick, Down, songVars

LEMMA NextKeepsQueueInv == QueueInv /\ [QueueNext]_queueVars => QueueInv'
<1>. SUFFICES ASSUME QueueInv, [QueueNext]_queueVars PROVE QueueInv'
  OBVIOUS
<1>1. CASE \E s \in Songs : EnqueueSongJob(s)
  BY <1>1, EnqueueKeepsQueueInv
<1>2. CASE \E s \in Songs : ClaimSongJob(s)
  BY <1>2, ClaimKeepsQueueInv
<1>3. CASE \E s \in Songs, n \in AttemptNumbers : CompleteSongJob(s, n)
  BY <1>3, CompleteKeepsQueueInv
<1>4. CASE \E s \in Songs, n \in AttemptNumbers : RenewSongJob(s, n)
  BY <1>4, RenewKeepsQueueInv
<1>5. CASE \E s \in Songs, n \in AttemptNumbers : Fail(s, n)
  BY <1>5, FailKeepsQueueInv
<1>6. CASE FailExpiredSongJobs
  BY <1>6, FailExpiredKeepsQueueInv
<1>7. CASE Tick
  BY <1>7, TickKeepsQueueInv
<1>8. CASE UNCHANGED queueVars
  BY <1>8 DEF queueVars, QueueInv, QueueTypeOK, RowsAgree, PathsOfWinner, Counts
<1>. QED
  BY <1>1, <1>2, <1>3, <1>4, <1>5, <1>6, <1>7, <1>8 DEF QueueNext

THEOREM QueueInvariant == QueueSpec => []QueueInv
BY InitQueueInv, NextKeepsQueueInv, PTL DEF QueueSpec

\* The rows keep their types.
THEOREM QueueTypeCorrect == QueueSpec => []QueueTypeOK
<1>1. QueueInv => QueueTypeOK
  BY DEF QueueInv
<1>. QED
  BY <1>1, QueueInvariant, PTL

\* songs and song_jobs never contradict each other, whatever statements run, in
\* whatever order and with whatever attempt numbers.
THEOREM RowsAlwaysAgree == QueueSpec => []RowsAgree
<1>1. QueueInv => RowsAgree
  BY DEF QueueInv
<1>. QED
  BY <1>1, QueueInvariant, PTL

\* The paths of a READY song are always those of the last attempt claimed.
THEOREM PathsAreOfWinner == QueueSpec => []PathsOfWinner
<1>1. QueueInv => PathsOfWinner
  BY DEF QueueInv
<1>. QED
  BY <1>1, QueueInvariant, PTL

\* The claim and failExpired between them take every open job whose delay and
\* lease have run out: no job is stuck for ever.
THEOREM NoJobStranded == QueueSpec => []NeverStranded
<1>1. QueueInv => NeverStranded
  <2>. SUFFICES ASSUME QueueInv, NEW s \in Songs
                PROVE  /\ jobState[s] = "QUEUED" => attemptCount[s] < MaxAttempts
                       /\ jobState[s] \in Needed /\ lease[s] = 0 /\ delay[s] = 0
                            => Claimable(s) \/ s \in Exhausted
    BY DEF NeverStranded
  <2>1. attemptCount[s] \in Nat
    BY DEF QueueInv, QueueTypeOK
  <2>2. jobState[s] = "QUEUED" => attemptCount[s] < MaxAttempts
    BY DEF QueueInv, Counts
  <2>3. attemptCount[s] < MaxAttempts \/ attemptCount[s] >= MaxAttempts
    BY <2>1, MaxAttemptsAssumption
  <2>. QED
    BY <2>2, <2>3 DEF Needed, Claimable, Exhausted
<1>. QED
  BY <1>1, QueueInvariant, PTL

\* An expired lease is revived by a claim alone.
THEOREM LeaseOnlyRevivedByClaim == QueueSpec => LeaseRevivedByClaim
<1>. DEFINE Revived == \A s \in Songs : lease[s] = 0 /\ lease'[s] > 0
                                         => attemptCount'[s] = attemptCount[s] + 1
<1>1. QueueInv /\ [QueueNext]_queueVars => Revived
  <2>. SUFFICES ASSUME QueueInv, [QueueNext]_queueVars PROVE Revived
    OBVIOUS
  <2>. USE DEF QueueInv, QueueTypeOK
  <2>1. ASSUME NEW s \in Songs, EnqueueSongJob(s) PROVE Revived
    BY <2>1 DEF EnqueueSongJob
  <2>2. ASSUME NEW s \in Songs, ClaimSongJob(s) PROVE Revived
    BY <2>2 DEF ClaimSongJob
  <2>3. ASSUME NEW s \in Songs, NEW n, CompleteSongJob(s, n) PROVE Revived
    BY <2>3 DEF CompleteSongJob
  <2>4. ASSUME NEW s \in Songs, NEW n, RenewSongJob(s, n) PROVE Revived
    BY <2>4 DEF RenewSongJob
  <2>5. ASSUME NEW s \in Songs, NEW n, Fail(s, n) PROVE Revived
    BY <2>5 DEF Fail, RetrySongJob, FailSongJob
  <2>6. CASE FailExpiredSongJobs
    BY <2>6 DEF FailExpiredSongJobs
  <2>7. CASE Tick
    BY <2>7, LeaseTicksAssumption DEF Tick, Down
  <2>8. CASE UNCHANGED queueVars
    BY <2>8 DEF queueVars
  <2>. QED
    BY <2>1, <2>2, <2>3, <2>4, <2>5, <2>6, <2>7, <2>8 DEF QueueNext
<1>. QED
  BY <1>1, QueueInvariant, PTL DEF QueueSpec, LeaseRevivedByClaim

\* A step of the queue never takes an attempt number back.
LEMMA AttemptsOnlyGrow ==
    ASSUME QueueInv, [QueueNext]_queueVars, NEW s \in Songs
    PROVE  attemptCount[s] <= attemptCount'[s]
<1>. USE DEF QueueInv, QueueTypeOK
<1>1. ASSUME NEW r \in Songs, ClaimSongJob(r) PROVE attemptCount[s] <= attemptCount'[s]
  BY <1>1 DEF ClaimSongJob
<1>2. ASSUME UNCHANGED attemptCount PROVE attemptCount[s] <= attemptCount'[s]
  BY <1>2
<1>. QED
  BY <1>1, <1>2 DEF QueueNext, queueVars, EnqueueSongJob, CompleteSongJob, RenewSongJob, Fail,
     RetrySongJob, FailSongJob, FailExpiredSongJobs, Tick

\* A finished job and its song's audio never change again.
LEMMA TerminalStep ==
    ASSUME QueueInv, [QueueNext]_queueVars, NEW r \in Songs, jobState[r] \in Terminal
    PROVE  /\ jobState'[r] = jobState[r]
           /\ attemptCount'[r] = attemptCount[r]
           /\ status'[r] = status[r]
           /\ audio'[r] = audio[r]
<1>. DEFINE Final == /\ jobState'[r] = jobState[r]
                    /\ attemptCount'[r] = attemptCount[r]
                    /\ status'[r] = status[r]
                    /\ audio'[r] = audio[r]
<1>. USE DEF QueueInv, QueueTypeOK, Terminal
<1>1. ASSUME NEW s \in Songs, EnqueueSongJob(s) PROVE Final
  BY <1>1 DEF EnqueueSongJob
<1>2. ASSUME NEW s \in Songs, ClaimSongJob(s) PROVE Final
  BY <1>2 DEF ClaimSongJob, Claimable, songVars
<1>3. ASSUME NEW s \in Songs, NEW n, CompleteSongJob(s, n) PROVE Final
  BY <1>3 DEF CompleteSongJob, Holds
<1>4. ASSUME NEW s \in Songs, NEW n, RenewSongJob(s, n) PROVE Final
  BY <1>4 DEF RenewSongJob, songVars
<1>5. ASSUME NEW s \in Songs, NEW n, Fail(s, n) PROVE Final
  BY <1>5 DEF Fail, RetrySongJob, FailSongJob, Holds, songVars
<1>6. CASE FailExpiredSongJobs
  BY <1>6 DEF FailExpiredSongJobs, Exhausted
<1>7. CASE Tick
  BY <1>7 DEF Tick, songVars
<1>8. CASE UNCHANGED queueVars
  BY <1>8 DEF queueVars
<1>. QED
  BY <1>1, <1>2, <1>3, <1>4, <1>5, <1>6, <1>7, <1>8 DEF QueueNext

\* The same, of every behaviour.
THEOREM TerminalStaysFinal == QueueSpec => TerminalIsFinal
<1>1. QueueInv /\ [QueueNext]_queueVars =>
        \A s \in Songs : jobState[s] \in Terminal =>
          /\ jobState'[s] = jobState[s]
          /\ attemptCount'[s] = attemptCount[s]
          /\ status'[s] = status[s]
          /\ audio'[s] = audio[s]
  BY TerminalStep
<1>. QED
  BY <1>1, QueueInvariant, PTL DEF QueueSpec, TerminalIsFinal
=============================================================================
