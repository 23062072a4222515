------------------------------ MODULE SongQueue ------------------------------
(***************************************************************************)
(* The PostgreSQL tables songs and song_jobs, one row of each per song, and *)
(* the statements of db/queries/song_jobs.sql that change them.  Every      *)
(* statement is atomic, as it is in PostgreSQL: it is a single UPDATE, or an *)
(* UPDATE of one table fed by a data-modifying WITH on the other.            *)
(*                                                                         *)
(* Time is a pair of countdowns per row instead of a clock.  lease[s] is    *)
(* what is left of lease_expires_at (0 when it is NULL or not after now()), *)
(* delay[s] what is left of available_at, and Tick lets one unit pass.  The *)
(* order of the claim (ORDER BY available_at, created_at, song_id) is       *)
(* abstracted: any claimable row may be the one claimed.                    *)
(***************************************************************************)
EXTENDS Integers

CONSTANTS
    Songs,          \* ids of the songs that may be uploaded
    MaxAttempts,    \* maxAttempts, 3 in job_transitions.go
    LeaseTicks,     \* the 10 minute lease
    RetryTicks      \* the 15 second unit of the retry delay

ASSUME MaxAttemptsAssumption == MaxAttempts \in Nat \ {0}
ASSUME LeaseTicksAssumption  == LeaseTicks \in Nat \ {0}
ASSUME RetryTicksAssumption  == RetryTicks \in Nat \ {0}

VARIABLES
    jobState,         \* song_jobs.state, "ABSENT" before the insert
    attemptCount,     \* song_jobs.attempt_count
    lease,            \* ticks until song_jobs.lease_expires_at
    delay,            \* ticks until song_jobs.available_at
    status,           \* songs.status, "ABSENT" before the insert
    audio,            \* attempt whose directory the songs.*_path name, 0 for NULL
    processingError   \* songs.processing_error: which of its texts, "none" for NULL

jobVars   == <<jobState, attemptCount, lease, delay>>
songVars  == <<status, audio, processingError>>
queueVars == <<jobState, attemptCount, lease, delay, status, audio, processingError>>

JobStates == {"ABSENT", "QUEUED", "RUNNING", "SUCCEEDED", "FAILED"}
Statuses  == {"ABSENT", "PROCESSING", "READY", "FAILED"}
Terminal  == {"SUCCEEDED", "FAILED"}
Needed    == {"QUEUED", "RUNNING"}
AttemptNumbers == 1..MaxAttempts

QueueInit ==
    /\ jobState = [s \in Songs |-> "ABSENT"]
    /\ attemptCount = [s \in Songs |-> 0]
    /\ lease = [s \in Songs |-> 0]
    /\ delay = [s \in Songs |-> 0]
    /\ status = [s \in Songs |-> "ABSENT"]
    /\ audio = [s \in Songs |-> 0]
    /\ processingError = [s \in Songs |-> "none"]

(***************************************************************************)
(* The fence: RUNNING under exactly this attempt number.                    *)
(***************************************************************************)
Holds(s, n) == jobState[s] = "RUNNING" /\ attemptCount[s] = n

(***************************************************************************)
(* The upload's transaction: both rows appear together or not at all.       *)
(***************************************************************************)
EnqueueSongJob(s) ==
    /\ jobState[s] = "ABSENT"
    /\ jobState' = [jobState EXCEPT ![s] = "QUEUED"]
    /\ status' = [status EXCEPT ![s] = "PROCESSING"]
    /\ UNCHANGED <<attemptCount, lease, delay, audio, processingError>>

\* Mutant of Claimable: the exhausted job is not excluded.
ClaimableForever(s) ==
    \/ jobState[s] = "QUEUED" /\ delay[s] = 0
    \/ jobState[s] = "RUNNING" /\ lease[s] = 0

Claimable(s) ==
    /\ attemptCount[s] < MaxAttempts
    /\ \/ jobState[s] = "QUEUED" /\ delay[s] = 0
       \/ jobState[s] = "RUNNING" /\ lease[s] = 0

\* Mutant of ClaimSongJob: a job resumed from an expired lease keeps its number.
ClaimKeepsAttempt(s) ==
    /\ Claimable(s)
    /\ jobState' = [jobState EXCEPT ![s] = "RUNNING"]
    /\ attemptCount' = [attemptCount EXCEPT
         ![s] = IF jobState[s] = "QUEUED" THEN @ + 1 ELSE @]
    /\ lease' = [lease EXCEPT ![s] = LeaseTicks]
    /\ UNCHANGED <<delay, songVars>>

ClaimSongJob(s) ==
    /\ Claimable(s)
    /\ jobState' = [jobState EXCEPT ![s] = "RUNNING"]
    /\ attemptCount' = [attemptCount EXCEPT ![s] = @ + 1]
    /\ lease' = [lease EXCEPT ![s] = LeaseTicks]
    /\ UNCHANGED <<delay, songVars>>

\* Mutant of CompleteSongJob: the attempt number is checked, the state is not.
CompleteAnyState(s, n) ==
    /\ attemptCount[s] = n
    /\ jobState' = [jobState EXCEPT ![s] = "SUCCEEDED"]
    /\ lease' = [lease EXCEPT ![s] = 0]
    /\ status' = [status EXCEPT ![s] = "READY"]
    /\ audio' = [audio EXCEPT ![s] = n]
    /\ processingError' = [processingError EXCEPT ![s] = "none"]
    /\ UNCHANGED <<attemptCount, delay>>

\* Mutant of CompleteSongJob: the state is checked, the attempt number is not.
CompleteAnyAttempt(s, n) ==
    /\ jobState[s] = "RUNNING"
    /\ jobState' = [jobState EXCEPT ![s] = "SUCCEEDED"]
    /\ lease' = [lease EXCEPT ![s] = 0]
    /\ status' = [status EXCEPT ![s] = "READY"]
    /\ audio' = [audio EXCEPT ![s] = n]
    /\ processingError' = [processingError EXCEPT ![s] = "none"]
    /\ UNCHANGED <<attemptCount, delay>>

\* No look at the lease: an attempt whose lease ran out may still complete.
CompleteSongJob(s, n) ==
    /\ Holds(s, n)
    /\ jobState' = [jobState EXCEPT ![s] = "SUCCEEDED"]
    /\ lease' = [lease EXCEPT ![s] = 0]
    /\ status' = [status EXCEPT ![s] = "READY"]
    /\ audio' = [audio EXCEPT ![s] = n]
    /\ processingError' = [processingError EXCEPT ![s] = "none"]
    /\ UNCHANGED <<attemptCount, delay>>

\* Mutant of RenewSongJob: an expired lease is revived.
RenewExpired(s, n) ==
    /\ Holds(s, n)
    /\ lease' = [lease EXCEPT ![s] = LeaseTicks]
    /\ UNCHANGED <<jobState, attemptCount, delay, songVars>>

RenewSongJob(s, n) ==
    /\ Holds(s, n)
    /\ lease[s] > 0
    /\ lease' = [lease EXCEPT ![s] = LeaseTicks]
    /\ UNCHANGED <<jobState, attemptCount, delay, songVars>>

RetrySongJob(s, n) ==
    /\ Holds(s, n)
    /\ jobState' = [jobState EXCEPT ![s] = "QUEUED"]
    /\ lease' = [lease EXCEPT ![s] = 0]
    /\ delay' = [delay EXCEPT ![s] = n * RetryTicks]
    /\ UNCHANGED <<attemptCount, songVars>>

FailSongJob(s, n) ==
    /\ Holds(s, n)
    /\ jobState' = [jobState EXCEPT ![s] = "FAILED"]
    /\ lease' = [lease EXCEPT ![s] = 0]
    /\ status' = [status EXCEPT ![s] = "FAILED"]
    /\ processingError' = [processingError EXCEPT ![s] = "failed"]
    /\ UNCHANGED <<attemptCount, delay, audio>>

\* Mutant of Fail: off by one, the last attempt is put back in the queue.
FailTooLate(s, n) ==
    IF n <= MaxAttempts THEN RetrySongJob(s, n) ELSE FailSongJob(s, n)

\* jobTransitions.fail: retry, or give up after the last attempt.
Fail(s, n) ==
    IF n < MaxAttempts THEN RetrySongJob(s, n) ELSE FailSongJob(s, n)

\* Mutant of Exhausted: off by one, only jobs past the last attempt.
ExhaustedPastLast == {s \in Songs : /\ jobState[s] = "RUNNING"
                                    /\ attemptCount[s] > MaxAttempts
                                    /\ lease[s] = 0}

Exhausted == {s \in Songs : /\ jobState[s] = "RUNNING"
                            /\ attemptCount[s] >= MaxAttempts
                            /\ lease[s] = 0}

\* Mutant of FailExpiredSongJobs: the jobs fail, their songs keep their status.
FailExpiredJobsOnly ==
    /\ jobState' = [s \in Songs |-> IF s \in Exhausted THEN "FAILED" ELSE jobState[s]]
    /\ UNCHANGED <<attemptCount, lease, delay, songVars>>

\* Every exhausted job in one statement; with none it changes nothing.
FailExpiredSongJobs ==
    /\ jobState' = [s \in Songs |-> IF s \in Exhausted THEN "FAILED" ELSE jobState[s]]
    /\ status' = [s \in Songs |-> IF s \in Exhausted THEN "FAILED" ELSE status[s]]
    /\ processingError' =
         [s \in Songs |-> IF s \in Exhausted THEN "stopped" ELSE processingError[s]]
    /\ UNCHANGED <<attemptCount, lease, delay, audio>>

Down(n) == IF n > 0 THEN n - 1 ELSE 0

\* One unit of time passes for every row.
Tick ==
    /\ \E s \in Songs : lease[s] > 0 \/ delay[s] > 0
    /\ lease' = [s \in Songs |-> Down(lease[s])]
    /\ delay' = [s \in Songs |-> Down(delay[s])]
    /\ UNCHANGED <<jobState, attemptCount, songVars>>

(***************************************************************************)
(* The most general client: any statement, with any attempt number, at any  *)
(* time.  The fence alone must keep the rows right.                         *)
(***************************************************************************)
QueueNext ==
    \/ \E s \in Songs :
         \/ EnqueueSongJob(s)
         \/ ClaimSongJob(s)
         \/ \E n \in AttemptNumbers :
              CompleteSongJob(s, n) \/ RenewSongJob(s, n) \/ Fail(s, n)
    \/ FailExpiredSongJobs
    \/ Tick

QueueSpec == QueueInit /\ [][QueueNext]_queueVars

-----------------------------------------------------------------------------

\* The type invariant of the two tables.
QueueTypeOK ==
    /\ jobState \in [Songs -> JobStates]
    /\ attemptCount \in [Songs -> 0..MaxAttempts]
    /\ lease \in [Songs -> 0..LeaseTicks]
    /\ delay \in [Songs -> Nat]
    /\ status \in [Songs -> Statuses]
    /\ audio \in [Songs -> 0..MaxAttempts]
    /\ processingError \in [Songs -> {"none", "stopped", "failed"}]

\* What the clients see in songs always agrees with what the workers see in
\* song_jobs: PROCESSING exactly while the job is queued or running, READY
\* exactly when it succeeded, FAILED with an error text exactly when it failed.
RowsAgree ==
    \A s \in Songs :
        /\ status[s] = "ABSENT" <=> jobState[s] = "ABSENT"
        /\ status[s] = "PROCESSING" <=> jobState[s] \in Needed
        /\ status[s] = "READY" <=> jobState[s] = "SUCCEEDED"
        /\ status[s] = "FAILED" <=> jobState[s] = "FAILED"
        /\ processingError[s] # "none" <=> jobState[s] = "FAILED"

\* No job is lost between the two recovery paths: a job that is not terminal is
\* always one that a claim takes, or that fail_expired ends, as soon as its
\* delay or its lease has run out.
NeverStranded ==
    \A s \in Songs :
        /\ jobState[s] = "QUEUED" => attemptCount[s] < MaxAttempts
        /\ jobState[s] \in Needed /\ lease[s] = 0 /\ delay[s] = 0
             => Claimable(s) \/ s \in Exhausted

\* The paths of a READY song are those of the attempt that won, the last one
\* claimed, and no other song has paths.
PathsOfWinner ==
    \A s \in Songs : audio[s] = IF status[s] = "READY" THEN attemptCount[s] ELSE 0

\* A lease that has run out is never revived for the attempt that held it: the
\* row gets a lease again only through a claim, which counts a new attempt.
\* Without it two attempts with one number could be at work on one song.
LeaseRevivedByClaim ==
    [][\A s \in Songs : lease[s] = 0 /\ lease'[s] > 0
                          => attemptCount'[s] = attemptCount[s] + 1]_queueVars

\* A finished job never moves again: no late completion, failure, renewal or
\* claim changes its rows or the audio its song is played from.
TerminalIsFinal ==
    [][\A s \in Songs : jobState[s] \in Terminal =>
         /\ jobState'[s] = jobState[s]
         /\ attemptCount'[s] = attemptCount[s]
         /\ status'[s] = status[s]
         /\ audio'[s] = audio[s]]_queueVars
=============================================================================
