# Verification of the song pipeline of aux-battles

aux-battles is a Go API and a Go worker over one PostgreSQL database and one
media volume. A signed-in client uploads a song; the worker cuts a 12 second
clip from it with ffmpeg, separates it into four stems with demucs, and makes
it `READY`; clients then fetch the five files. This directory holds TLA+
models of that pipeline and of the API around it (accounts, sessions, rate
limits, request logging), the TLC runs that check them on small instances,
and TLAPS proofs about them for every instance.

## Inventory

| Part | Code | State it keeps | Operations |
|---|---|---|---|
| Song queue | `db/queries/song_jobs.sql`, `songs.sql`, `db/migrations`, `internal/worker/job_transitions.go` | one row in `songs` (status, error, five paths) and one in `song_jobs` (state, attempt count, lease, available_at) per song | enqueue, claim, renew, complete, retry, fail, fail expired, the two listings |
| Worker | `internal/worker/worker.go`, `cmd/worker` | its claimed job, the attempt's context, the renewal's result | `Run`, `ProcessOne`, `process`, `renewLease`, `recordFailure`, `discard`, shutdown |
| Audio processing | `internal/worker/audio.go`, `internal/media/attempt.go` | the work directory and the output directory of one attempt | prepare, run the commands, publish, clean up |
| Media store | `internal/media/store.go` | `incoming/`, `work/`, `songs/` | create and remove inputs, discard outputs, open audio |
| Media cleanup | `internal/worker/cleanup.go`, `internal/media/cleanup.go` | a snapshot of what the rows refer to, a cutoff | snapshot, remove terminal inputs, remove old files |
| Upload API | `internal/server/song_upload.go`, `song_upload_persist.go`, `songs.go` | the file and the transaction of one upload | receive, validate, persist, roll back |
| Catalog and audio | `internal/server/songs.go`, `song_audio.go` | none of its own; what a client has been told | list, get, status, audio |
| Accounts and sessions | `internal/server/auth*.go` | `users`, `sessions`, the client's cookie | register, login, logout, lookup |
| Rate limiter | `internal/server/ratelimit.go` | a map of token buckets, the time of the next sweep | allow, sweep |
| Request logging, metrics | `internal/server/logging.go` | the status of one response, a counter per route and status | wrap, write, report |
| API process, logger setup | `cmd/api`, `internal/server/server.go`, `json.go`, `internal/observability` | none after startup | routing, JSON |

How they interact: the API and the workers share no memory and send each other
no message. They meet in the two tables (every step one SQL statement or one
transaction) and on the volume (every step one file operation), and nothing
makes a step on the volume atomic with one in the database. Any number of
workers may run. A worker runs its cleanup in the same loop as its jobs, so it
never cleans while it processes, but it does clean while other workers process
and uploads arrive.

What is hard here:

* a lease is a promise about time that a stalled or crashed worker breaks; the
  fence (`attempt_count` and `state = 'RUNNING'` in every statement) has to
  make the late steps of a superseded attempt harmless;
* the answer of every database call may be lost after the call took effect;
* files and rows change in separate steps, on both sides of a crash;
* the cleanup acts on a snapshot that grows stale while it runs;
* a directory is filled, renamed and removed one file operation at a time, by
  processes that do not know of each other;
* the rate limiter reads the clock before its lock and uses what it looked up
  after it; database calls fail, or run late, after the handler has answered;
  answers overtake each other on their way to a client;
* every song has to end, whatever combination of the above happens.

`PROJECT.json` lists the hazards one by one with the line where each bites and
the properties that would show it going wrong.

## Modules

```
SongLifecycle            what the pipeline promises (abstract)
      ^  |
      |  +--EXTENDED by--> Catalog  <---  Catalog_proofs
      |
      |  implemented by (refinement mapping in SongWorker)
SongQueue  <--EXTENDS--  SongWorker  <--EXTENDS--  SongPipeline
      ^                       ^   implemented by        |
      |                       +-------------------------+
SongQueue_proofs  <---  SongWorker_proofs  <---  SongPipeline_proofs

AudioAttempt <---  AudioAttempt_proofs  (the files inside one attempt of SongWorker)
TokenBucket  <--implemented by--  RateLimiter  <---  RateLimiter_proofs
Sessions     <---  Sessions_proofs
RequestLog   <---  RequestLog_proofs
```

An `MC` module instantiates each for TLC.

### SongQueue: the rows

One variable per column that decides anything. `jobState`, `attemptCount`,
`lease` and `delay` are `song_jobs.state`, `attempt_count`, what is left of
`lease_expires_at` and what is left until `available_at`; `status`, `audio`
and `processingError` are columns of `songs`, with `audio` the number of the
attempt whose directory the five path columns name (they are always written
together). `"ABSENT"` is a row not yet inserted. Each action is one statement
of `song_jobs.sql`: its WHERE clause is the guard, its SET list the primed
variables. A statement of PostgreSQL that feeds an UPDATE of `songs` from an
UPDATE of `song_jobs` is one action. `Fail` is `jobTransitions.fail`'s choice
between the two statements.

Time is a countdown per row instead of a clock, and `Tick` lets one unit pass
for every row; `now()` of the database is the only clock of the queue, so one
`Tick` for all is faithful. The order of the claim (`ORDER BY available_at,
created_at, song_id` with `SKIP LOCKED`) is abstracted: any claimable row may
be claimed, which covers every order.

`QueueSpec` is the most general client: any statement with any attempt number
at any time. What holds of it holds because of the SQL alone.

### SongLifecycle: the promise

A song is `PROCESSING` from its upload until it becomes `READY`, and then its
audio is playable from that very step on and for ever, or `FAILED`; both are
final; and it does not stay `PROCESSING` for ever. No job, lease, worker or file
is mentioned.

### SongWorker: the workers and the files

Each worker is its main goroutine (`pc`, the position in `Run`, `ProcessOne`,
`process`), the renewing goroutine (`Renew`, `RenewFails`), the attempt's context
(`workCtx`: live, past its deadline, canceled), the result of `Process`, and the
error in `renewResult` (`leaseLost`). The renewing goroutine starts a call while the
context is live, and a call under way when it ends may still reach the rows: so
`Renew` stays possible until `Join`, the wait `<-done` for that goroutine, after
which `process` looks at `leaseLost`. `inputs`, `workDirs` and `outputs` are the files in
`incoming/`, the directories under `work/` and those under `songs/`; an
attempt's directory is named by the song and the attempt number, as in
`PrepareAttempt`.

| Action | Code |
|---|---|
| `FailExpired`, `FailExpiredLost`, `SweepInput` | the head of `ProcessOne` |
| `Claim`, `ClaimNone`, `ClaimLost` | `jobTransitions.claim` and its three outcomes |
| `Prepare`, `PrepareFails` | `InputPath` and `PrepareAttempt` |
| `Publish`, `ProcessFails`, `Cleanup` | the rest of `AudioProcessor.Process` and its deferred cleanup |
| `Deadline`, `Renew`, `RenewFails` | the attempt's timeout and `renewLease` |
| `Join` | `process` cancels the context and waits for the renewing goroutine |
| `Settle` (`Verdict`) | what `process` tests after `Process` returned, in its order |
| `Discard`, `DiscardLate` | `discard`, then return, or then `recordFailure` after a timeout |
| `Complete`, `CompleteFenced`, `CompleteLost` | the completing transaction: done, no row, or no answer |
| `Record`, `RecordFenced`, `RecordLost` | `recordFailure`, with the same outcomes |
| `Release` | `removeInputWithLogger` |
| `Start`, `Stop`, `Exit`, `Crash` | the process |

A "lost" action is a call whose error says nothing: it took effect or not. A
worker that merely takes no step while `TimePasses` does is a stalled one.
`Environment` is everything else that touches the volume or inserts rows, as
weakly constrained as the workers can tolerate: files may appear before their
rows, inputs of jobs that are not open and directories that are not active,
referenced or about to be committed may vanish.

### SongPipeline: uploads and cleanups

Replaces `Environment` by the code. `upload[s]` is the handler of each upload
(`Receive` ... `Commit`, `Rollback`, `CommitUnknown`, `ApiCrash`); `clean[w]` is
the cleanup of each worker: `ListSongJobMedia` and `ListSongOutputPaths` are the
two queries of `mediaSnapshot`, `RemoveTerminal` removes the inputs of finished
jobs one by one, `Cutoff` fixes the cutoff and with it what will be deleted,
and `Delete` removes it one entry at a time. Everything else goes on between
these steps. `refs[w]` is the snapshot; the leases it has read run down with
the clock until `mediaSnapshot` compares them with `time.Now()`, after the second
query. `agedInputs`, `agedWork`, `agedOutputs` are the files older than
`CleanupInterval` (an hour).

The constant `Prompt` names the four timing assumptions the protection rests on.
The first three say that less than an hour passes between two points:

* `"upload"`: the last write to an uploaded file, and the end of its handler;
* `"commit"`: the publication of an output, and the transition that commits it
  (the code bounds the calls in between: five seconds for the transaction);
* `"cutoff"`: the same write or publication, and the cutoff of a cleanup that
  asked its first query before that upload or commit ended (`settled[w]` holds
  the files that were not in flight at that query);
* `"lease"`: the first query of a cleanup and its `time.Now()` are closer than what
  a lease that was renewed in between had left when it was read (`ReadInTime`).
  `mediaSnapshot` compares the lease as the first query has it with the time after
  the second one. A lease is renewed long before it ends, so a cleanup would have
  to stall for that time; the attempt then looks abandoned although it is not, and
  only the age of its files protects its work directory, as `AudioAttempt` shows.

A process that is not suspended keeps all four by a wide margin, and nothing in
the code enforces any of them. `pipeline_stalled` shows what happens without
`"commit"`.

### AudioAttempt: the files of one attempt

`SongWorker` takes the publication and the removal of a directory as one step
each. `AudioAttempt` takes them apart for one attempt: the two commands, which
may leave any file absent, empty or whole, whether they fail or not; `CheckClip`;
`Publish` with its look at every stem, its five renames into `result/` and the
rename of `result/` to its place under `songs/`; and `os.RemoveAll` as the sequence
of opens, listings, unlinks and rmdirs it is. Any number of these may be under way:
the worker's (`Cleanup` of the work directory, `DiscardOutput`) and one of each other
worker in `Cleaners`, whose hourly cleanups are followed, again and again, through
their two queries, the cutoff and the two passes; a removal that fails ends the
cleanup it is part of (`CleanAborts`). A `RemoveAll` that holds a directory open goes on in it wherever
it is renamed to, which is the heart of the race. `job` is what the queue knows of
the attempt, as far as the files can tell: `SongWorker` says when it changes.

A worker that crashes does not take its command with it: `audio.go` asks for no
signal when the parent dies. The command is then an `orphan`, which still writes its
file into the work directory, or makes demucs' directory anew while a cleanup is
removing it, until it ends (`OrphanEnds`). In the container it dies with the worker
(`init: true`, `compose.yaml:48`: the worker is the init process's only child, and
the container ends with it); under `go run ./cmd/worker` it does not.

Its `Prompt` again names timing assumptions: `"commit"` and `"cutoff"` as above, and

* `"work"`: less than an hour passes between the last entry made in the work
  directory, when demucs starts, and the end of `Publish`. The attempt's timeout
  (30 minutes by default) enforces it. `WORKER_ATTEMPT_TIMEOUT` may be set above
  an hour; then only the lease, renewed every few minutes, keeps the cleanup away,
  and the runs make no claim for an attempt that loses its lease and goes on.

A cleanup may find an attempt that holds its lease inactive (`ListSongs`), which
covers a worker clock that is ahead of the database's by any amount.

### Catalog: what clients are told

Extends `SongLifecycle`, so it stands on what the pipeline promises and not on how
it does it. A handler runs its one query (`ListOrGetSong`, `GetSongStatus`,
`GetReadySongAudio`), the one for audio opens the file in a second step
(`OpenAudio`), either of which may fail (`Fails`, answered 500), and `Reply` delivers
the answer at any later time. `told` is what
clients know of a song, `before` what they knew when a request began.

### Sessions: accounts and sessions

`users` and `owner`, `expires` are the tables; each handler is a sequence of steps
with one statement each. `CallFails` is an error of such a call: the statement ran,
or did not, or is left in `late` and runs at any time afterwards (`RunsLate`) while
the client, told 500, may already have tried again. A password stands for its
hash and a token for its SHA-256. The clock of the API that computes `expires_at`
and the one of the database that compares it are taken as one.

### RateLimiter: one limiter

`Arrive` reads the clock, `Enter` is the section under the lock (sweep, lookup or
creation, `lastSeen`), `Admit` and `Refuse` the call of `Allow` after it. A bucket is
kept as the time at which it is full again (`fullAt`), the form `rate.Limiter`'s
arithmetic reduces to with whole tokens; the library is external. `TokenBucket` is
the promise: one bucket per address that is never forgotten.
`IdleAssumption` (a bucket refills, and two requests stall, within `Idle`) holds by
far in `server.go`: 60 s and 180 s against ten minutes.

### RequestLog: status and counter

`statusWriter.status` beside what net/http has committed (`wire`) and what the
client got (`answer`), under a handler that makes any calls in any order and
panics anywhere. The deferred function counts every request under the status it
works out (500 for a panic before any status), and logs one line: with that status
after a return, and with the panic's type and place and no status after a panic
(`logged` is then `"panicked"`), whose client finds its connection cut. No handler reaches past the wrapper (`Unwrap` is there for
`http.ResponseController`, which nothing uses), so the model has no such call.

## Runs

| Run | Configuration | Checks |
|---|---|---|
| `queue_client` | 3 songs, 3 attempts, lease 2, retry delay 1 per attempt | `QueueTypeOK`, `RowsAgree`, `NeverStranded`, `PathsOfWinner`, `LeaseRevivedByClaim`, `TerminalIsFinal` |
| `worker_safety` | 2 songs, 2 workers, 2 attempts, lease 2, 1 fault | `TypeOK`, `ReadyAudioExists`, `InputKept`, `UniqueAttempt`, `NoOutputCollision`, `LostLeaseWritesNothing`, `LifecycleSafety` |
| `worker_live` | 1 song, 2 workers, 2 attempts, lease 2, 1 fault | `LifecycleProgress`, `AttemptEnds` |
| `pipeline_safety` | 1 song, 2 workers, 2 attempts, lease 2, 1 worker fault, 1 lapse of the API or a cleanup | `PipelineTypeOK`, `ReadyAudioExists`, `InputKept`, `CleanupPreserves`, `ImplementsSongWorker` |
| `pipeline_live` | 1 song, 1 worker, 2 attempts, lease 2, 2 worker faults, 2 lapses of the API or a cleanup | `MediaSettles` |
| `attempt_safety` | 1 attempt, 2 of the 4 stems, 1 other cleanup, 1 fault | `TypeOK`, `ReadyIsWhole`, `AppearsWhole` |
| `attempt_live` | the same with 1 stem | `FilesSettle` |
| `limiter` | 2 addresses, 2 requests, 3 visitors, burst 1, one token per tick, Idle 3, Stall 1, 7 ticks | `TypeOK`, `RateBound`, `ForgetsIdle`, `IsTokenBucket` |
| `sessions` | 2 usernames, e-mails and passwords, 1 token, 2 requests, 1 fault, 2 ticks, sessions of 1 | `AccountsTypeOK`, `NoRevival`, `ActsAsItself`, `RegistrationLasts` |
| `catalog` | 1 song, 3 requests, 1 fault | `CatalogTypeOK`, `AnswersAgree`, `ReadyPlays`, `OutcomeLearned` |
| `request_log` | 2 requests and a scrape, 3 calls each, 1 interim and 3 final statuses | `TypeOK`, `LogsWhatWasSent`, `CountsWhatWasSent` |
| `pipeline_stalled` | as `pipeline_safety`, without `"commit"` in `Prompt` | `ReadyAudioExists` is violated |

What the runs show:

* `queue_client`: no client, however confused about its attempt number, can make
  the two tables disagree, revive an expired lease, change a finished job, or
  leave a job that neither the claim nor `failExpired` would ever take.
* `worker_safety`: with every interleaving of two workers, of crashes, of
  shutdowns and lost answers, files follow the rows: a `READY` song has its
  output and an open job its input. `LifecycleSafety` is the refinement of
  `SongLifecycle`'s safety part.
* `worker_live`: every upload ends `READY` or `FAILED`, every attempt ends.
* `pipeline_safety`: uploads and cleanups stay within what `SongWorker` allows
  its environment (`ImplementsSongWorker` is `SongWorker`'s `Spec` as a property
  of `SongPipeline`), so what is shown of `SongWorker` carries over.
* `pipeline_live`: no file is left behind for ever. In the end there is no uploaded
  file and no attempt's work directory, and the attempts' outputs are those that
  `READY` songs refer to. A crash after the publication leaves an output that the
  second attempt's becomes the `READY` one beside, and an attempt may lapse and be
  claimed again. The directories `work/<song>` and `songs/<song>`, which `MkdirAll`
  makes, are never removed by the code and not in the model: for each song that got
  so far they stay, empty or not.
* `attempt_safety`: whatever a command leaves, wherever a step fails or a process
  dies or leaves its command behind, an output appears with all its files or not at all (`AppearsWhole`), and a
  `READY` song keeps them (`ReadyIsWhole`), although a removal of the directory the
  files come from may be under way. Without `"work"` it is not so: a removal that
  has opened `result/` follows the rename and empties the published directory.
* `attempt_live`: two removals that meet in one directory, or one that broke off,
  or that an orphaned command writes behind, leave nothing of the attempt: a later
  cleanup ends it (`FilesSettle`).
* `limiter`: late writes of older times, sweeps under a waiting request, and new
  visitors for old addresses are invisible to clients (`IsTokenBucket`); an address
  is admitted at most its burst plus its rate (`RateBound`); and the map forgets
  (`ForgetsIdle`).
* `sessions`: a logout answered with 204 is for good, for every request that begins
  after it (`NoRevival`); the handler that passed `requireAuth` before goes on as
  the user it was given, which is the one who logged in (`ActsAsItself`); and a
  registration answered with 201 is good for a login for ever, in whatever order
  late inserts of rival registrations run (`RegistrationLasts`).
* `catalog`: nobody who was told `READY` or `FAILED` is told otherwise by a request
  made afterwards, on any endpoint (`AnswersAgree`), a `READY` song's file opens
  (`ReadyPlays`), and polling ends (`OutcomeLearned`).
* `request_log`: a line with a status tells what the client got, and a request whose
  connection was cut has a panic's line and no other (`LogsWhatWasSent`); the counter
  has each logged request once, under the status that net/http committed for it, or
  500 for a panic before that (`CountsWhatWasSent`).
* `pipeline_stalled`: a finding, below.

Why the bounds are enough. Two workers are what a race over one job needs, and
an attempt number separates three or more exactly as it separates two. Two
attempts have a first one, whose failure is retried, and a last one; the queue
alone uses the code's three. A lease of two ticks may run
out between any two steps, and a renewal can come early, late, or between a
cleanup's look at the lease and its look at the clock, which a lease of one tick
would hide. Songs interact only in `FailExpiredSongJobs` and in which
one a worker claims, for which two are enough. `MaxFaults` and `MaxLapses` bound
failures per behaviour, not which step fails; the theorems hold without a
bound on any of these. The stems of an attempt take the same steps one by one, so
two show every order of what happens to one and to another. Two requests are
what a race over one visitor, account or session needs, and three let an answer
that began early overtake two others; songs of the catalog do not interact. A
session needs one token (tokens are never reused), and two accounts, which can
clash in the name, the e-mail or both. The limiter's constants are the smallest that keep
the order of the code's (refill < Idle, SweepEvery < Idle), and seven ticks see a
visitor forgotten and made anew. Three calls are a status, another and a body, in
any order.

`pipeline_live` has one worker, which plays its own successor: after a crash it starts
again, cleans, and claims the job a second time, so a superseded attempt's files, the
stale output beside a committed one and all failures of a cleanup are there, two of
each. What takes two workers at once (a superseded attempt that goes on) is in
`worker_live`, `pipeline_safety` and `attempt_live`. With two workers the run takes
too long to be kept beside the others; done once with two workers, two attempts, a
lease of one tick, one fault and no lapse, TLC finds `MediaSettles` to hold, and so
with one attempt, one fault and one lapse. `attempt_safety` and `attempt_live` have one
other cleanup beside the worker's own removals; the theorems have any number.

Deadlock is checked in every run but `request_log`, whose requests are served
once each, so that its behaviours end.

### Fairness

`worker_live` assumes weak fairness of the main goroutine's steps and of the
deadline's timer (goroutines and timers run), of `Process`'s end once its context is
done, of the renewing goroutine's (`Join`), of `Start`, and of the clock. Two of these
are about waits without a bound in the code. `exec.CommandContext` kills the command,
but `CombinedOutput` without a `WaitDelay` goes on waiting while any descendant of
the command holds its output open, and the kill does not reach those: the runs
assume that ffmpeg, ffprobe and demucs leave none behind. And `<-done` ends because
pgx gives up a call whose context is done.
It does not assume that a command ever ends by itself, that a renewal comes in
time, or that a call succeeds. `Start` is an assumption about operations, not
about code: `compose.yaml` has no restart policy for the worker, and
`docs/runbooks/worker-unavailable.md` tells the operator to start it again. A
stopped worker that nobody starts leaves its songs to the others, and to no
one if there are none.

`pipeline_live` adds weak fairness of an upload's handler and of a cleanup that
has begun, and strong fairness of beginning one (`Run` begins one whenever an
hour has passed and it is at the top of its loop), of the clock and of ageing.

`attempt_live` assumes weak fairness of the attempt's and the removals' steps (a
command ends once its context is done), of the cleanup (`Run` begins one every
hour), of the lease running out and of ageing; not of renewal or success.

`catalog` assumes that handlers return and answers arrive (weak), that the song is
polled again and again (strong: requests of others may take the handlers in
between), and `SongLifecycle`'s own `EverySongSettles`, which `worker_live` shows of
the workers.

### Finding

`pipeline_stalled`: `README.md:99-100` of the repository says the worker "changes
the song status to `READY` after all files are present". `CompleteSongJob` tests
the state and the attempt number, not the lease, and the published directory
is not looked at again. Let a worker be suspended for more than an hour between
`Publish` and `complete`. Its lease runs out and its output ages; the cleanup of
another worker finds the attempt neither active nor referenced and removes the
directory. If the first worker goes on before anyone claims the job again, for
example in the very iteration in which the other one cleans, its completion
matches, and the song is `READY` without files, for good.

## Proofs

Every proof holds for all values of its module's constants, under the named
assumptions of that module.

`SongQueue_proofs` and `SongWorker_proofs` hold for every set of songs and
workers and every value of `MaxAttempts`, `LeaseTicks`, `RetryTicks` (positive
naturals) and `MaxFaults` (a natural); these and `NoSong \notin Songs` are the only
assumptions.

`SongQueue_proofs` proves all six properties of `queue_client`. `RowsAgree` alone
is not inductive: a renewal could revive the lease of a job that was never
claimed, a completion could hit a running job with attempt number 0. `QueueInv`
adds `Counts`: a running job has an attempt, a queued one has one left, leases
belong to running jobs and delays to queued ones. There is one lemma per
statement, and `NeverStranded` follows from `QueueInv`.

`SongWorker_proofs` proves `TypeOK`, `ReadyAudioExists`, `InputKept`, `UniqueAttempt`,
`NoOutputCollision`, `LostLeaseWritesNothing`, that the workers are clients of the
queue (`WorkersUseQueue`, which carries the theorems of `SongQueue_proofs` over), and
the refinement `Spec => LifecycleSafety`. The invariant `WorkerInv` has three layers,
and says why it works:

* `AttemptInv` speaks of rows and attempts, and of no file that must be there:
  * `HeldAttempts`: a worker's attempt number was given out by a claim;
  * `UniqueAttempt`: and to it alone, since a claim counts up;
  * `OutputsGivenOut`: so an output belongs to an attempt that was claimed, and a
    new claim's directory is free (`NoOutputCollision`);
  * `NotCommitted`: an attempt that is still held, except for the removal of its
    input, is not the one its song refers to, so no discard can hit it; this is
    where `CompleteLost` must not discard;
  * `ReleasesFinished`, `SweepsFinished`: only inputs of finished jobs are removed,
    and finished is final;
* `OutputInv` adds the outputs: from its publication to its commit one stays
  (`PublishedKept`), and so does a `READY` song's (`ReadyAudioExists`);
* `InputKept` adds the inputs.

The proof first shows what one step of a worker may do at all, in six summaries
(others are left alone, how its attempt, the outputs and the inputs change,
which statement it runs, what it finishes), each by the 29 actions; every
conjunct of the invariant then follows from the summaries without another look
at the actions. `LooseNext` is `Next` with an environment that may remove any file
at any time: it keeps `AttemptInv`, and keeps `OutputInv` as long as what it removes
is not an output that `OutputInv` speaks of. For the refinement, `ReadyAudioExists`
makes the playable songs the `READY` ones, and each statement is a lifecycle step
or leaves `status` alone.

`SongPipeline_proofs` proves, for any number of songs, workers, cleanups and
failures, everything `pipeline_safety` checks, and for each property which of the
timing assumptions of `Prompt` it takes. Every step of the pipeline is one of
`SongWorker`'s `LooseNext` (`StepIsLoose`), so its layers come over one by one:

| Assumed of `Prompt` | Invariant | Theorems |
|---|---|---|
| nothing | `PipelineCore`: `AttemptInv`, the types, `RowsRead` | `PipelineTypeOK`, `UniqueAttempt`, `NoOutputCollision`, `LostLeaseWritesNothing`, `QueueSpec` |
| `"upload"`, `"cutoff"` | `InputSide`: `InputKept`, `UploadsKept`, `InputsRead` | `InputKept` |
| `"commit"`, `"cutoff"` | `OutputSide`: `OutputInv`, `AgedPassed`, `OutputsRead` | `ReadyAudioExists`, `LifecycleSafety`, `ReferencedOutputsStay` |
| `"lease"`, `"cutoff"` | `LeaseSide`: `LeasesRead` | `ActiveWorkStays` |
| all four | `PipelineInv` | `ImplementsSongWorker` |

`CleanupPreserves` is `ReferencedOutputsStay` and `ActiveWorkStays`. So a stalled
upload can cost an input but never a published song, and nothing that stalls can
make two workers hold one attempt. The assumptions are needed: with either one of
its two left out, TLC finds `InputKept` and `ReadyAudioExists` violated.

A cleanup deletes by what it read at some earlier time, so the invariant is made
of facts that, once true, stay true: an upload is over and no job needs its file
(`Closed`); an attempt was given out and its lease has ended, and no attempt gets a
second lease (`Dead`); no worker may publish or commit it any more (`Passed`), and
then a song that does not refer to it never will. `InputsRead`, `OutputsRead` and
`LeasesRead` say of their kind of file that each one a cleanup may come to condemn,
which is one that is old or was settled at its first query, is in its references or
has these facts, and that each one it has condemned has them. `Untouched` sums up
the steps in which a cleanup learns nothing, and one lemma per kind shows that they
keep this; `Learns` are the cleanup's two queries and its cutoff. `StepIsNext`, a
step of the pipeline is one of `SongWorker`, follows from the invariant alone.

`AudioAttempt_proofs` proves the three properties of `attempt_safety` for any set of
stems, any number of other workers, each of which cleans up as often as it likes
while the others do, and orphaned commands included. The types (`TypeCorrect`) hold without any timing assumption; `AppearsWhole`
takes only that the worker is at work for less than an hour (`"work"`), and
`ReadyIsWhole` takes all three of its `Prompt`. TLC finds the first violated without
`"work"`, and the second under every smaller set. `WorkInv` is what the first needs:
`Quiet` says that nobody removes anything under a worker that is at work, and that a
removal of the work directory leaves a published result alone; `Filling` says how
much of the result is in its place at each step. `Inv` adds `Safe`, which says why the
cleanup leaves a result alone that is committed or may be (it has read the
reference, or finds it too young), and `Kept`, that such a result is in `songs/`, whole.

`RateLimiter_proofs` proves all four properties of `limiter`, the refinement
included. The invariant `LimiterInv` adds to the types what makes a sweep
invisible: a visitor's bucket is full again at most `Capacity + 2 * Stall` after its
`lastSeen` (`FullWhenIdle`), so that one swept after `Idle` is full, exactly as a
missing one; and a request that is about to use a visitor has a time at most
`Stall` past the last one written (`Timely`, `Attached`), so that none is swept under
it. `RateBound`
follows from `Conserved`: what was spent and what is left stay within burst and rate.

`Sessions_proofs` proves the four properties of `sessions`. `SessionsInv` says what
each statement under way or late may still write: an insert of a session bears a
token that only its handler has made, so a token whose cookie was handed out has
no insert left and a removed session stays removed (`NoRevival`); its owner matches
the credentials of the login that made it (`ActsAsItself`); and late inserts of
accounts find the registered ones in the indexes (`RegistrationLasts`).

`Catalog_proofs` proves the invariants of `catalog` for any number of songs and
requests, from `CatalogInv`: what is told was true when it was read, and `READY` and
`FAILED` stay true. `RequestLog_proofs` proves those of `request_log`: the writer's
status and the committed one are equal at every moment, so that a returned request's
line and its client agree (`LogIsTrue`); and the counter of each status grows with
the set of logged requests that ended with it (`LogIsCounted`, by the library's
theorems on cardinality).

Only model-checked: the liveness properties (`LifecycleProgress`, `AttemptEnds`,
`MediaSettles`, `FilesSettle`, `OutcomeLearned`), since liveness under fairness and
ENABLED are beyond TLAPS here; and that the run without `"commit"` fails, which is
a counterexample.

## Not modelled, and why

* What ffmpeg, demucs and ffprobe compute, argon2id, and net/http's and PostgreSQL's
  insides (external); the validation rules of uploads and registrations: accept or
  reject is all the rest can tell apart.
* The entries inside a directory in `SongPipeline`: its `Publish` and `Delete` are one
  step, and `AudioAttempt` shows what they are made of, for one attempt.
* The directories `work/<song>` and `songs/<song>` above the attempts': made on
  the way (`os.MkdirAll`) and never removed; a cleanup only looks for attempts in them.
* Commands that outlive a crashed worker, in `SongWorker` and `SongPipeline`: they
  touch only their attempt's work directory, where `AudioAttempt` has them.
* A command's descendants that hold its output open after it was killed (see
  Fairness): a worker that waits for them hangs, and a stalled worker is all that
  the others see of it.
* Clock skew: `AudioAttempt` covers a worker clock ahead of the database's; between
  the API and the database it shifts the end of a session and nothing else.
* A renewal that the database runs after pgx has given it up and `process` has gone
  on. `SongQueue` allows it at any time, and its theorems hold.
* Rows of expired sessions: `DeleteExpiredSessions` has no caller, so there is
  nothing to model; they authenticate nobody.
* The API process, JSON helpers and the logger: no state after startup.
* Battles, rounds and guesses: tables no code uses yet.

## Plan

Every component with state of its own is modelled, and every safety property of the
passing runs is proved, the properties of the pipeline and of an attempt each under
the timing it needs. What would add most from here: `AudioAttempt` composed with
`SongPipeline`, so that its attempt's timing assumptions and those of the pipeline
are stated once; and several attempts of one song in it.
