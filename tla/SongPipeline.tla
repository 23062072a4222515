----------------------------- MODULE SongPipeline -----------------------------
(***************************************************************************)
(* The whole path of a song: the API's upload handler (internal/server),    *)
(* the workers of SongWorker, and the media cleanup each worker runs         *)
(* between jobs (internal/worker/cleanup.go, internal/media/cleanup.go).      *)
(*                                                                         *)
(* A cleanup reads the jobs, then the songs, then fixes its cutoff and only  *)
(* then deletes, file by file, while uploads, other workers and other         *)
(* cleanups go on: it acts on a snapshot that is stale.  What protects the    *)
(* files that the snapshot does not know of is their age alone.              *)
(* agedInputs, agedWork and agedOutputs hold the files last modified more     *)
(* than CleanupInterval ago.                                                 *)
(*                                                                         *)
(* Prompt names the timing assumptions that protection rests on: less than  *)
(* CleanupInterval passes                                                   *)
(*   "upload"  from the last write to an uploaded file to its upload's end,   *)
(*   "commit"  from an output's publication to the transition committing it,  *)
(*   "cutoff"  from the same write or publication to the cutoff of a cleanup  *)
(*             whose first query came before that upload or commit ended,      *)
(*   "lease"   from a cleanup's first query to its look at the leases, and then   *)
(*             it is less than a lease renewed in between had left.            *)
(* A stalled process may break one that Prompt does not contain.             *)
(***************************************************************************)
EXTENDS SongWorker

CONSTANTS
    Prompt,
    MaxLapses     \* bound on the crashes and failing calls of the API and of cleanups

ASSUME PromptAssumption == Prompt \subseteq {"upload", "commit", "cutoff", "lease"}
ASSUME MaxLapsesAssumption == MaxLapses \in Nat

VARIABLES
    upload,         \* where the handler of each song's upload is
    clean,          \* where each worker's cleanup is
    refs,           \* media.References and the terminal inputs of mediaSnapshot
    settled,        \* the files that were there, and not in flight, at its first query
    doomed,         \* what is left to delete of what the snapshot and the cutoff condemn
    agedInputs, agedWork, agedOutputs,
    lapses          \* crashes and failures so far

agedVars     == <<agedInputs, agedWork, agedOutputs>>
cleanerVars  == <<clean, refs, settled, doomed>>
pipelineVars == <<vars, upload, cleanerVars, agedVars, lapses>>

NoRefs  == [Inputs |-> {}, ActiveAttempts |-> {}, Leases |-> [s \in Songs |-> 0],
            Outputs |-> {}, Terminal |-> {}]
NoFiles == [inputs |-> {}, work |-> {}, outputs |-> {}]

PipelineInit ==
    /\ Init
    /\ upload = [s \in Songs |-> "none"]
    /\ clean = [w \in Workers |-> "off"]
    /\ refs = [w \in Workers |-> NoRefs]
    /\ settled = [w \in Workers |-> NoFiles]
    /\ doomed = [w \in Workers |-> NoFiles]
    /\ agedInputs = {}
    /\ agedWork = {}
    /\ agedOutputs = {}
    /\ lapses = 0

Lapse == lapses < MaxLapses /\ lapses' = lapses + 1

\* A deleted file has no age.
AgesKept ==
    /\ agedInputs' = agedInputs \cap inputs'
    /\ agedWork' = agedWork \cap workDirs'
    /\ agedOutputs' = agedOutputs \cap outputs'

-----------------------------------------------------------------------------
(* uploadSong: receiveSongUpload, then persistSongUpload. *)

Uploading(s) == upload[s] \in {"saving", "saved"}
Finished(s) == upload' = [upload EXCEPT ![s] = "over"]

\* The deferred RemoveInput, whose error is ignored or only logged.
DropInput(s) ==
    \/ inputs' = inputs \ {s} /\ UNCHANGED lapses
    \/ UNCHANGED inputs /\ Lapse

Receive(s) ==
    /\ upload[s] = "none"
    /\ SaveInput(s)
    /\ upload' = [upload EXCEPT ![s] = "saving"]
    /\ UNCHANGED lapses

\* The copy or the probe fails, or the file or the clip is not valid.
Reject(s) ==
    /\ upload[s] = "saving"
    /\ DropInput(s)
    /\ Finished(s)
    /\ UNCHANGED <<queueVars, pc, attemptVars, expired, stopping, workDirs, outputs, faults>>

Validated(s) ==
    /\ upload[s] = "saving"
    /\ upload' = [upload EXCEPT ![s] = "saved"]
    /\ UNCHANGED <<vars, lapses>>

\* CreateSong, EnqueueSongJob and the commit.  Nothing looks at the file again.
Commit(s) ==
    /\ upload[s] = "saved"
    /\ EnqueueSongJob(s)
    /\ Finished(s)
    /\ UNCHANGED <<workerVars, lapses>>

\* Any statement fails, or the commit reports a rollback: the file goes too.
Rollback(s) ==
    /\ upload[s] = "saved"
    /\ DropInput(s)
    /\ Finished(s)
    /\ UNCHANGED <<queueVars, pc, attemptVars, expired, stopping, workDirs, outputs, faults>>

\* Mutant of CommitUnknown: the handler tries the whole transaction again.
CommitUnknownRetries(s) ==
    /\ upload[s] = "saved"
    /\ Lapse
    /\ EnqueueSongJob(s) \/ UNCHANGED queueVars
    /\ UNCHANGED <<workerVars, upload>>

\* Mutant of CommitUnknown: every failed commit removes the file.
CommitUnknownDrops(s) ==
    /\ upload[s] = "saved"
    /\ Lapse
    /\ EnqueueSongJob(s) \/ UNCHANGED queueVars
    /\ inputs' = inputs \ {s}
    /\ Finished(s)
    /\ UNCHANGED <<pc, attemptVars, expired, stopping, workDirs, outputs, faults>>

\* The commit fails with any other error, with or without effect: the file is kept.
CommitUnknown(s) ==
    /\ upload[s] = "saved"
    /\ Lapse
    /\ EnqueueSongJob(s) \/ UNCHANGED queueVars
    /\ Finished(s)
    /\ UNCHANGED workerVars

\* The API process dies with its handlers.
ApiCrash ==
    /\ \E s \in Songs : Uploading(s)
    /\ Lapse
    /\ upload' = [s \in Songs |-> IF upload[s] = "none" THEN "none" ELSE "over"]
    /\ UNCHANGED vars

UploadStep(s) == Reject(s) \/ Validated(s) \/ Commit(s) \/ Rollback(s)

ApiNext ==
    /\ \/ \E s \in Songs : Receive(s) \/ UploadStep(s) \/ CommitUnknown(s)
       \/ ApiCrash
    /\ AgesKept
    /\ UNCHANGED cleanerVars

-----------------------------------------------------------------------------
(* CleanupMedia, at the top of Run's loop. *)

CleaningNow(w) == clean[w] \in {"songs", "terminal", "delete"}
Cleaning(w, phase) == pc[w] = "poll" /\ clean[w] = phase
To(w, phase) == clean' = [clean EXCEPT ![w] = phase]

ForgetSnapshot(w) ==
    /\ refs' = [refs EXCEPT ![w] = NoRefs]
    /\ settled' = [settled EXCEPT ![w] = NoFiles]
    /\ doomed' = [doomed EXCEPT ![w] = NoFiles]

\* mediaSnapshot's first query, with the leases as its rows have them.
ListSongJobMedia(w) ==
    /\ Cleaning(w, "off")
    /\ ~stopping[w]
    /\ To(w, "songs")
    /\ refs' = [refs EXCEPT ![w] =
         [Inputs         |-> {s \in Songs : jobState[s] \in Needed},
          ActiveAttempts |-> {d \in Dirs : Holds(d[1], d[2])},
          Leases         |-> lease,
          Outputs        |-> {},
          Terminal       |-> {s \in Songs : jobState[s] \in Terminal}]]
    /\ settled' = [settled EXCEPT ![w] =
         [inputs  |-> {s \in inputs : ~Uploading(s)},
          work    |-> workDirs,
          outputs |-> {d \in outputs : \A v \in Workers : ~Committing(v, d)}]]
    /\ UNCHANGED <<vars, doomed, lapses>>

\* Its second query, and the clock against which the first one's leases are read.
ListSongOutputPaths(w) ==
    /\ Cleaning(w, "songs")
    /\ To(w, "terminal")
    /\ refs' = [refs EXCEPT
         ![w].ActiveAttempts = {d \in @ : refs[w].Leases[d[1]] > 0},
         ![w].Leases = NoRefs.Leases,
         ![w].Outputs = {d \in Dirs : audio[d[1]] = d[2]}]
    /\ UNCHANGED <<vars, settled, doomed, lapses>>

\* CleanupMedia removes the inputs of finished jobs, whatever their age.
RemoveTerminal(w) ==
    /\ Cleaning(w, "terminal")
    /\ \E s \in refs[w].Terminal :
         /\ refs' = [refs EXCEPT ![w].Terminal = @ \ {s}]
         /\ DropInput(s)
    /\ UNCHANGED <<queueVars, pc, attemptVars, expired, stopping, workDirs, outputs,
                   faults, clean, settled, doomed>>

\* Mutant of Condemned: active attempts are not spared.
CondemnedActive(w) ==
    [inputs  |-> agedInputs \ refs[w].Inputs,
     work    |-> agedWork,
     outputs |-> agedOutputs \ refs[w].Outputs]

\* Mutant of Condemned: only active attempts are spared.
CondemnedReferenced(w) ==
    [inputs  |-> agedInputs \ refs[w].Inputs,
     work    |-> agedWork \ refs[w].ActiveAttempts,
     outputs |-> agedOutputs \ refs[w].ActiveAttempts]

\* Mutant of Condemned: uploads are left to their handlers.
CondemnedNoInputs(w) ==
    [inputs  |-> {},
     work    |-> agedWork \ refs[w].ActiveAttempts,
     outputs |-> agedOutputs \ (refs[w].ActiveAttempts \cup refs[w].Outputs)]

\* Mutant of Condemned: unknown files are deleted whatever their age.
CondemnedYoung(w) ==
    [inputs  |-> inputs \ refs[w].Inputs,
     work    |-> agedWork \ refs[w].ActiveAttempts,
     outputs |-> outputs \ (refs[w].ActiveAttempts \cup refs[w].Outputs)]

\* What cleanupIncoming and cleanupAttempts will delete with this cutoff.
Condemned(w) ==
    [inputs  |-> agedInputs \ refs[w].Inputs,
     work    |-> agedWork \ refs[w].ActiveAttempts,
     outputs |-> agedOutputs \ (refs[w].ActiveAttempts \cup refs[w].Outputs)]

\* Store.Cleanup fixes its cutoff.
Cutoff(w) ==
    /\ Cleaning(w, "terminal")
    /\ refs[w].Terminal = {}
    /\ To(w, "delete")
    /\ refs' = [refs EXCEPT ![w] = NoRefs]
    /\ settled' = [settled EXCEPT ![w] = NoFiles]
    /\ doomed' = [doomed EXCEPT ![w] = Condemned(w)]
    /\ UNCHANGED <<vars, lapses>>

\* cleanupIncoming, then cleanupAttempts under work/, then under songs/.
Delete(w) ==
    /\ Cleaning(w, "delete")
    /\ LET left == doomed[w] IN
         \/ \E s \in left.inputs :
              /\ doomed' = [doomed EXCEPT ![w].inputs = @ \ {s}]
              /\ inputs' = inputs \ {s}
              /\ UNCHANGED <<workDirs, outputs>>
         \/ \E d \in left.work :
              /\ left.inputs = {}
              /\ doomed' = [doomed EXCEPT ![w].work = @ \ {d}]
              /\ workDirs' = workDirs \ {d}
              /\ UNCHANGED <<inputs, outputs>>
         \/ \E d \in left.outputs :
              /\ left.inputs = {} /\ left.work = {}
              /\ doomed' = [doomed EXCEPT ![w].outputs = @ \ {d}]
              /\ outputs' = outputs \ {d}
              /\ UNCHANGED <<inputs, workDirs>>
    /\ UNCHANGED <<queueVars, pc, attemptVars, expired, stopping, faults, clean, refs,
                   settled, lapses>>

CleanupEnds(w) ==
    /\ Cleaning(w, "delete")
    /\ doomed[w] = NoFiles
    /\ To(w, "done")
    /\ UNCHANGED <<vars, refs, settled, doomed, lapses>>

\* A query or a deletion fails, or the context is done: the rest waits for the
\* next cleanup.  The removal of terminal inputs goes on whatever fails.
CleanupFails(w) ==
    /\ CleaningNow(w)
    /\ clean[w] = "terminal" => refs[w].Terminal = {}
    /\ IF stopping[w] THEN UNCHANGED lapses ELSE Lapse
    /\ To(w, "done")
    /\ ForgetSnapshot(w)
    /\ UNCHANGED vars

CleanerStep(w) ==
    ListSongOutputPaths(w) \/ RemoveTerminal(w) \/ Cutoff(w) \/ Delete(w) \/ CleanupEnds(w)

CleanerNext(w) ==
    /\ ListSongJobMedia(w) \/ CleanerStep(w) \/ CleanupFails(w)
    /\ AgesKept
    /\ UNCHANGED upload

-----------------------------------------------------------------------------

\* A step of SongWorker: Run does nothing else while CleanupMedia runs.  A cleanup
\* is followed by ProcessOne ("done") before another one starts.
Job(w) ==
    /\ clean[w] \in {"off", "done"}
    /\ WorkerNext(w)
    /\ clean' = [clean EXCEPT ![w] = IF pc'[w] = "poll" /\ pc[w] = "poll" THEN @ ELSE "off"]
    /\ AgesKept
    /\ UNCHANGED <<upload, refs, settled, doomed, lapses>>

StopCleaning(w) ==
    /\ CleaningNow(w)
    /\ Stop(w)
    /\ AgesKept
    /\ UNCHANGED <<upload, cleanerVars, lapses>>

CrashCleaning(w) ==
    /\ CleaningNow(w)
    /\ Crash(w)
    /\ To(w, "off")
    /\ ForgetSnapshot(w)
    /\ AgesKept
    /\ UNCHANGED <<upload, lapses>>

\* No lease that w has read, and that was renewed since, is about to run out for w.
ReadInTime(w) ==
    clean[w] = "songs" => \A d \in refs[w].ActiveAttempts :
        Holds(d[1], d[2]) /\ lease[d[1]] > 1 => refs[w].Leases[d[1]] # 1

\* Leases that a snapshot has read run out as the clock goes on.
Time ==
    /\ TimePasses
    /\ "lease" \in Prompt => \A w \in Workers : ReadInTime(w)
    /\ refs' = [w \in Workers |-> [refs[w] EXCEPT !.Leases = [s \in Songs |-> Down(@[s])]]]
    /\ UNCHANGED <<upload, clean, settled, doomed, agedVars, lapses>>

\* Every cleanup between its first query and its cutoff found f there, and not in
\* flight, at that query.
Tellable(kind, f) ==
    "cutoff" \in Prompt => \A w \in Workers : clean[w] \in {"songs", "terminal"} => f \in settled[w][kind]

\* Files cross the age that lets a cleanup delete them.
Age ==
    /\ \/ \E s \in inputs \ agedInputs :
            /\ Tellable("inputs", s)
            /\ "upload" \in Prompt => ~Uploading(s)
            /\ agedInputs' = agedInputs \cup {s}
            /\ UNCHANGED <<agedWork, agedOutputs>>
       \/ \E d \in workDirs \ agedWork :
            /\ Tellable("work", d)
            /\ agedWork' = agedWork \cup {d}
            /\ UNCHANGED <<agedInputs, agedOutputs>>
       \/ \E d \in outputs \ agedOutputs :
            /\ Tellable("outputs", d)
            /\ "commit" \in Prompt => \A w \in Workers : ~Committing(w, d)
            /\ agedOutputs' = agedOutputs \cup {d}
            /\ UNCHANGED <<agedInputs, agedWork>>
    /\ UNCHANGED <<vars, upload, cleanerVars, lapses>>

PipelineNext ==
    \/ ApiNext
    \/ \E w \in Workers : Job(w) \/ CleanerNext(w) \/ StopCleaning(w) \/ CrashCleaning(w)
    \/ Time
    \/ Age

PipelineSpec == PipelineInit /\ [][PipelineNext]_pipelineVars

\* As in SongWorker, and: handlers end, a cleanup that began goes on, one comes
\* due again and again (every CleanupInterval), and files grow old.
PipelineFairness ==
    /\ \A s \in Songs : WF_pipelineVars(UploadStep(s) /\ AgesKept /\ UNCHANGED cleanerVars)
    /\ \A w \in Workers :
         /\ WF_pipelineVars(Job(w) /\ Start(w))
         /\ WF_pipelineVars(Job(w) /\ MainStep(w))
         /\ WF_pipelineVars(Job(w) /\ Deadline(w))
         /\ WF_pipelineVars(Job(w) /\ workCtx[w] # "live" /\ ProcessEnds(w))
         /\ WF_pipelineVars(Job(w) /\ Join(w))
         /\ WF_pipelineVars(CleanerStep(w) /\ AgesKept /\ UNCHANGED upload)
         /\ SF_pipelineVars(ListSongJobMedia(w) /\ AgesKept /\ UNCHANGED upload)
    /\ SF_pipelineVars(Time)
    /\ SF_pipelineVars(Age)

PipelineFairSpec == PipelineSpec /\ PipelineFairness

-----------------------------------------------------------------------------

\* The type invariant of what the pipeline adds, with the phases that exclude each
\* other: a handler at work on an upload has not committed its rows, and a worker
\* in the middle of a cleanup has no job.
PipelineTypeOK ==
    /\ upload \in [Songs -> {"none", "saving", "saved", "over"}]
    /\ clean \in [Workers -> {"off", "songs", "terminal", "delete", "done"}]
    /\ refs \in [Workers -> [Inputs : SUBSET Songs, ActiveAttempts : SUBSET Dirs,
                             Leases : [Songs -> 0..LeaseTicks], Outputs : SUBSET Dirs,
                             Terminal : SUBSET Songs]]
    /\ settled \in [Workers -> [inputs : SUBSET Songs, work : SUBSET Dirs,
                                outputs : SUBSET Dirs]]
    /\ doomed \in [Workers -> [inputs : SUBSET Songs, work : SUBSET Dirs,
                               outputs : SUBSET Dirs]]
    /\ agedInputs \subseteq inputs
    /\ agedWork \subseteq workDirs
    /\ agedOutputs \subseteq outputs
    /\ lapses \in 0..MaxLapses
    /\ \A s \in Songs : Uploading(s) => jobState[s] = "ABSENT"
    /\ \A w \in Workers : CleaningNow(w) => pc[w] = "poll" /\ jobOf[w] = NoSong

\* "preserving active attempts and files referenced by songs": no cleanup,
\* however stale its snapshot, deletes a directory of an attempt whose lease is
\* valid, or one that a READY song refers to; only the attempt itself removes
\* its work directory.
CleanupPreserves ==
    [][/\ \A d \in workDirs \ workDirs' :
            ~Active(d) \/ \E w \in Workers : pc[w] = "cleanup" /\ Dir(w) = d
       /\ \A d \in outputs \ outputs' : ~Referenced(d)]_pipelineVars

\* Every step of the API and of a cleanup is one SongWorker's environment may take:
\* what holds of SongWorker, holds here.
ImplementsSongWorker == Spec

\* No file is left behind: whatever was rejected, rolled back, crashed, timed out or
\* superseded, in the end no uploaded file and no attempt's work directory is there,
\* and the attempts' outputs are those that READY songs refer to.  (The directories
\* above them, work/<song> and songs/<song>, are made and never removed.)
MediaSettles ==
    <>[](/\ inputs = {}
         /\ workDirs = {}
         /\ outputs = {d \in Dirs : Referenced(d)})
=============================================================================
