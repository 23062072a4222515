----------------------------- MODULE AudioAttempt -----------------------------
(***************************************************************************)
(* The files of one attempt, one file operation at a time: what              *)
(* AudioProcessor.Process, Attempt.Publish and the removals that SongWorker    *)
(* and SongPipeline take as single steps do to the directories                *)
(*                                                                         *)
(*   work/<song>/attempt-<n>/             workDir                              *)
(*       clip.mp3                         clip                                 *)
(*       demucs/htdemucs/clip/<stem>.mp3  stems                                *)
(*       result/                          parts, while resultAt = "work"       *)
(*   songs/<song>/attempt-<n>/            parts, once resultAt = "songs"        *)
(*                                                                         *)
(* Publish renames the result directory from the first place to the second.   *)
(* The rename is atomic; os.RemoveAll is not.  It lists a directory, unlinks   *)
(* the entries one by one and then removes the directory, and it goes on      *)
(* inside a directory it has opened wherever that directory is renamed to.     *)
(* The attempt's own worker removes its work directory and a discarded        *)
(* output; the cleanups of other workers, any number of them at once, remove   *)
(* either when no row they have read protects them and they are old.          *)
(*                                                                         *)
(* job is what the queue knows of the attempt: it holds the job ("held"), its  *)
(* lease has run out ("lapsed"), the job has gone on without it ("taken"), or  *)
(* it was completed ("ready").                                               *)
(***************************************************************************)
EXTENDS Naturals, FiniteSets

CONSTANTS
    Stems,       \* drums, bass, other and vocals
    Cleaners,    \* the other workers, as far as their cleanups meet this attempt
    Prompt,      \* the timing assumptions that hold, see Age
    MaxFaults    \* bound on crashes and failing file operations

Full  == "full"
Parts == Stems \cup {Full}

ASSUME StemsAssumption == Full \notin Stems /\ Stems # {}
ASSUME CleanersAssumption == "worker" \notin Cleaners
ASSUME PromptAssumption == Prompt \subseteq {"work", "commit", "cutoff"}
ASSUME MaxFaultsAssumption == MaxFaults \in Nat

VARIABLES
    pc,          \* where the attempt's worker is
    result,      \* what Process returned: "none" yet, "ok" or "error"
    job,
    workDir,     \* the work directory exists
    clip, stems, \* the commands' files: "absent", "empty" or "audio"
    demucsDir,   \* the demucs directory exists
    resultAt,    \* where the result directory is: "nowhere", "work" or "songs"
    parts,       \* what it holds
    unchecked,   \* the stems Publish has not looked at, then those not moved
    orphan,      \* a command that has outlived the worker: "extract" or "separate"
    removal,     \* the RemoveAll of the worker and of each cleaner
    clean,       \* where each cleaner is
    seen,        \* what its queries told it
    aged,        \* directories whose own entries last changed over an hour ago
    old,         \* those a cleaner's cutoff found aged and unchanged since
    faults

processVars == <<pc, result, unchecked>>
treeVars    == <<workDir, clip, stems, demucsDir, resultAt, parts>>
cleanVars   == <<clean, seen>>
ageVars     == <<aged, old>>
diskVars    == <<treeVars, ageVars>>
otherVars   == <<job, orphan, removal, cleanVars, faults>>     \* not of Process
vars == <<processVars, job, orphan, treeVars, removal, cleanVars, ageVars, faults>>

Removers == {"worker"} \cup Cleaners

File == {"absent", "empty", "audio"}
Idle == [root |-> "none", entries |-> {}, open |-> "none", names |-> {}]
Unseen == [active |-> FALSE, referenced |-> FALSE, pending |-> FALSE]

Producing == {"extract", "check", "separate", "verify"}
Moving    == {"moveClip", "moveStems", "publish"}
AtWork    == {"prepare"} \cup Producing \cup Moving
Finishing == {"cleanup", "cleaning", "settle", "complete"}     \* after Publish
PCs       == AtWork \cup Finishing \cup {"discard", "discarding", "record", "over"}

Init ==
    /\ pc = "prepare"
    /\ result = "none"
    /\ job = "held"
    /\ workDir = FALSE
    /\ clip = "absent"
    /\ stems = [s \in Stems |-> "absent"]
    /\ demucsDir = FALSE
    /\ resultAt = "nowhere"
    /\ parts = [p \in Parts |-> "absent"]
    /\ unchecked = {}
    /\ orphan = "none"
    /\ removal = [x \in Removers |-> Idle]
    /\ clean = [c \in Cleaners |-> "idle"]
    /\ seen = [c \in Cleaners |-> Unseen]
    /\ aged = {}
    /\ old = [c \in Cleaners |-> {}]
    /\ faults = 0

Fault == faults < MaxFaults /\ faults' = faults + 1

\* The entries of a directory change, and its modification time with them.
Touch(dirs) ==
    /\ aged' = aged \ dirs
    /\ old' = [c \in Cleaners |-> old[c] \ dirs]

\* Process returns an error; the deferred Cleanup runs if there is an Attempt.
Fails(next) == pc' = next /\ result' = "error" /\ unchecked' = {}

\* process returns, or its process has died: what it knew is gone.
Return == pc' = "over" /\ result' = "none" /\ unchecked' = {}

-----------------------------------------------------------------------------
(* AudioProcessor.Process and Attempt.Publish. *)

Prepare ==
    /\ pc = "prepare"
    /\ workDir' = TRUE
    /\ resultAt' = "work"
    /\ pc' = "extract"
    /\ Touch({"work", "result"})
    /\ UNCHANGED <<result, unchecked, clip, stems, demucsDir, parts, otherVars>>

\* The input is gone, or a directory cannot be made.
PrepareFails ==
    /\ pc = "prepare"
    /\ workDir' \in BOOLEAN
    /\ Fails("settle")
    /\ UNCHANGED <<clip, stems, demucsDir, resultAt, parts, ageVars, otherVars>>

\* What ffmpeg leaves behind: it opens its output only if the directory is there.
ClipWritten ==
    /\ clip' \in IF workDir THEN File ELSE {"absent"}
    /\ Touch(IF clip' = clip THEN {} ELSE {"work"})
    /\ UNCHANGED <<workDir, stems, demucsDir>>

\* What demucs leaves behind: it makes the directories it needs.
StemsWritten ==
    /\ stems' \in [Stems -> File]
    /\ demucsDir' = TRUE
    /\ workDir' = TRUE
    /\ Touch({"work"})
    /\ UNCHANGED clip

\* It may also stop before it has made any.
DemucsStops ==
    StemsWritten \/ UNCHANGED <<workDir, clip, stems, demucsDir, ageVars>>

\* A command exits with 0, whatever it has written.
Extract ==
    /\ pc = "extract"
    /\ workDir
    /\ ClipWritten
    /\ pc' = "check"
    /\ UNCHANGED <<result, unchecked, resultAt, parts, otherVars>>

\* Mutant of CheckClip: the clip is not looked at.
CheckNothing ==
    /\ pc = "check"
    /\ pc' = "separate"
    /\ UNCHANGED <<result, unchecked, diskVars, otherVars>>

CheckClip ==
    /\ pc = "check"
    /\ clip = "audio"
    /\ pc' = "separate"
    /\ UNCHANGED <<result, unchecked, diskVars, otherVars>>

Separate ==
    /\ pc = "separate"
    /\ StemsWritten
    /\ unchecked' = Stems
    /\ pc' = "verify"
    /\ UNCHANGED <<result, resultAt, parts, otherVars>>

\* Publish looks at every stem before it moves any file.
VerifyStem ==
    /\ pc = "verify"
    /\ \E s \in unchecked :
         /\ stems[s] = "audio"
         /\ IF unchecked = {s}
              THEN unchecked' = Stems /\ pc' = "moveClip"
              ELSE unchecked' = unchecked \ {s} /\ UNCHANGED pc
    /\ UNCHANGED <<result, diskVars, otherVars>>

MoveClip ==
    /\ pc = "moveClip"
    /\ clip # "absent" /\ resultAt = "work"
    /\ parts' = [parts EXCEPT ![Full] = clip]
    /\ clip' = "absent"
    /\ pc' = "moveStems"
    /\ Touch({"work", "result"})
    /\ UNCHANGED <<result, unchecked, workDir, stems, demucsDir, resultAt, otherVars>>

MoveStem ==
    /\ pc = "moveStems"
    /\ resultAt = "work"
    /\ \E s \in unchecked :
         /\ stems[s] # "absent"
         /\ parts' = [parts EXCEPT ![s] = stems[s]]
         /\ stems' = [stems EXCEPT ![s] = "absent"]
         /\ unchecked' = unchecked \ {s}
         /\ pc' = IF unchecked = {s} THEN "publish" ELSE "moveStems"
    /\ Touch({"result"})
    /\ UNCHANGED <<result, workDir, clip, demucsDir, resultAt, otherVars>>

\* Mutant of Publish: the stems are moved one by one into the published directory.
PublishEarly ==
    /\ pc \in {"moveStems", "publish"}
    /\ resultAt = "work"
    /\ resultAt' = "songs"
    /\ result' = "ok"
    /\ pc' = "cleanup"
    /\ Touch({"work"})
    /\ UNCHANGED <<unchecked, workDir, clip, stems, demucsDir, parts, otherVars>>

\* Mutant of Publish: it is the whole work directory that is renamed.
PublishAll ==
    /\ pc = "publish"
    /\ resultAt = "work"
    /\ resultAt' = "songs"
    /\ workDir' = FALSE
    /\ result' = "ok"
    /\ pc' = "cleanup"
    /\ Touch({"work"})
    /\ UNCHANGED <<unchecked, clip, stems, demucsDir, parts, otherVars>>

\* The output directory does not exist yet (SongWorker's NoOutputCollision), and
\* the result is renamed to it.
Publish ==
    /\ pc = "publish"
    /\ resultAt = "work"
    /\ resultAt' = "songs"
    /\ result' = "ok"
    /\ pc' = "cleanup"
    /\ Touch({"work"})
    /\ UNCHANGED <<unchecked, workDir, clip, stems, demucsDir, parts, otherVars>>

\* A command fails, or is killed because its context is done.
CommandFails ==
    /\ \/ pc = "extract" /\ ClipWritten
       \/ pc = "separate" /\ DemucsStops
    /\ Fails("cleanup")
    /\ UNCHANGED <<resultAt, parts, otherVars>>

\* A check finds no audio, or a file operation fails, by itself or because its
\* file is gone.
StepFails ==
    /\ pc \in {"check", "verify"} \cup Moving
    /\ Fails("cleanup")
    /\ UNCHANGED <<diskVars, otherVars>>

-----------------------------------------------------------------------------
(* os.RemoveAll, run by x. *)

Removing(x) == removal[x].root # "none"
Held(x) == removal[x].open

\* The names it reads when it opens a directory.
Listed(dir) ==
    CASE dir = "demucs" -> {s \in Stems : stems[s] # "absent"}
      [] dir = "result" -> {p \in Parts : parts[p] # "absent"}

WorkEntries ==
    {e \in {"clip", "demucs", "result"} :
        \/ e = "clip" /\ clip # "absent"
        \/ e = "demucs" /\ demucsDir
        \/ e = "result" /\ resultAt = "work"}

\* It opens the directory to remove; a missing one counts as removed.
StartWork(x) ==
    removal' = [removal EXCEPT ![x] =
        IF workDir THEN [Idle EXCEPT !.root = "work", !.entries = WorkEntries] ELSE Idle]

StartSongs(x) ==
    removal' = [removal EXCEPT ![x] =
        IF resultAt = "songs"
          THEN [Idle EXCEPT !.root = "songs", !.open = "result", !.names = Listed("result")]
          ELSE Idle]

\* The removal opens a directory inside the one it removes, and is done with it.
Opened(x, e) == [removal[x] EXCEPT !.open = e, !.names = Listed(e)]
Closed(x) == [removal[x] EXCEPT !.open = "none", !.entries = @ \ {Held(x)}]

\* The next entry of the work directory: a file is unlinked, a directory opened.
RemoveEntry(x) ==
    /\ removal[x].root = "work"
    /\ Held(x) = "none"
    /\ \E e \in removal[x].entries :
         IF e # "clip" /\ e \in WorkEntries
         THEN /\ removal' = [removal EXCEPT ![x] = Opened(x, e)]
              /\ UNCHANGED <<clip, ageVars>>
         ELSE /\ removal' = [removal EXCEPT ![x].entries = @ \ {e}]
              /\ clip' = IF e = "clip" THEN "absent" ELSE clip
              /\ Touch(IF clip' = clip THEN {} ELSE {"work"})
    /\ UNCHANGED <<processVars, job, orphan, workDir, stems, demucsDir, resultAt, parts,
                   cleanVars, faults>>

\* A file of the open directory is unlinked, wherever that directory is by now.
RemoveName(x) ==
    /\ Held(x) # "none"
    /\ \E n \in removal[x].names :
         /\ removal' = [removal EXCEPT ![x].names = @ \ {n}]
         /\ IF Held(x) = "demucs"
              THEN stems' = [stems EXCEPT ![n] = "absent"] /\ UNCHANGED <<parts, ageVars>>
              ELSE /\ parts' = [parts EXCEPT ![n] = "absent"]
                   /\ Touch(IF parts[n] = "absent" THEN {} ELSE {"result"})
                   /\ UNCHANGED stems
    /\ UNCHANGED <<processVars, job, orphan, workDir, clip, demucsDir, resultAt, cleanVars,
                   faults>>

\* The emptied directory is removed by its name, if it is empty and still there.
RemoveDirectory(x) ==
    /\ Held(x) # "none"
    /\ removal[x].names = {}
    /\ LET isEmpty == Listed(Held(x)) = {} IN
         /\ demucsDir' = (demucsDir /\ ~(Held(x) = "demucs" /\ isEmpty))
         /\ resultAt' = IF Held(x) = "result" /\ isEmpty /\ resultAt = removal[x].root
                          THEN "nowhere" ELSE resultAt
    /\ removal' = IF removal[x].root = "songs"
         THEN [removal EXCEPT ![x] = Idle]
         ELSE [removal EXCEPT ![x] = Closed(x)]
    /\ Touch(IF demucsDir' = demucsDir /\ resultAt' = resultAt THEN {} ELSE {"work"})
    /\ UNCHANGED <<processVars, job, orphan, workDir, clip, stems, parts, cleanVars, faults>>

\* At last the work directory itself, if nothing has appeared in it meanwhile.
RemoveWorkDir(x) ==
    /\ removal[x].root = "work"
    /\ Held(x) = "none"
    /\ removal[x].entries = {}
    /\ workDir' = (workDir /\ WorkEntries # {})
    /\ removal' = [removal EXCEPT ![x] = Idle]
    /\ UNCHANGED <<processVars, job, orphan, clip, stems, demucsDir, resultAt, parts,
                   cleanVars, ageVars, faults>>

\* It gives up at an error.  The worker goes on without; for a cleaner the error is
\* the end of its cleanup (CleanAborts).
RemoveFails ==
    /\ Removing("worker")
    /\ Fault
    /\ removal' = [removal EXCEPT !["worker"] = Idle]
    /\ UNCHANGED <<processVars, job, orphan, diskVars, cleanVars>>

RemoveStep(x) == RemoveEntry(x) \/ RemoveName(x) \/ RemoveDirectory(x) \/ RemoveWorkDir(x)

-----------------------------------------------------------------------------
(* The rest of the worker: the deferred Cleanup, and what process does next. *)

StartCleanup ==
    /\ pc = "cleanup"
    /\ StartWork("worker")
    /\ pc' = "cleaning"
    /\ UNCHANGED <<result, unchecked, job, orphan, diskVars, cleanVars, faults>>

\* Its error is ignored.
EndCleanup ==
    /\ pc = "cleaning"
    /\ ~Removing("worker")
    /\ pc' = "settle"
    /\ UNCHANGED <<result, unchecked, diskVars, otherVars>>

\* A lost lease, a shutdown or a timeout discards the output (SongWorker's Verdict).
Settle ==
    /\ pc = "settle"
    /\ pc' \in {"discard", IF result = "ok" THEN "complete" ELSE "record"}
    /\ UNCHANGED <<result, unchecked, diskVars, otherVars>>

\* files.Directory is empty unless Process published.
StartDiscard ==
    /\ pc = "discard"
    /\ IF result = "ok" THEN StartSongs("worker") ELSE UNCHANGED removal
    /\ pc' = "discarding"
    /\ UNCHANGED <<result, unchecked, job, orphan, diskVars, cleanVars, faults>>

\* After a timeout the failure is recorded.
EndDiscard ==
    /\ pc = "discarding"
    /\ ~Removing("worker")
    /\ Return \/ (pc' = "record" /\ UNCHANGED <<result, unchecked>>)
    /\ UNCHANGED <<diskVars, otherVars>>

Fenced == job \in {"taken", "ready"}

Complete ==
    /\ pc = "complete"
    /\ IF Fenced THEN pc' = "discard" /\ UNCHANGED <<result, unchecked, job>>
                 ELSE Return /\ job' = "ready"
    /\ UNCHANGED <<orphan, diskVars, removal, cleanVars, faults>>

\* The answer is lost: the output is kept.
CompleteLost ==
    /\ pc = "complete"
    /\ Fault
    /\ job' \in {job, IF Fenced THEN job ELSE "ready"}
    /\ Return
    /\ UNCHANGED <<orphan, diskVars, removal, cleanVars>>

Record ==
    /\ pc = "record"
    /\ job' \in {job, IF Fenced THEN job ELSE "taken"}
    /\ Return
    /\ UNCHANGED <<orphan, diskVars, removal, cleanVars, faults>>

\* The worker's process dies.  The command it has started may die with it, as in the
\* container of compose.yaml, or live on: nothing in runCommand ties the two.
Crash ==
    /\ pc # "over"
    /\ Fault
    /\ Return
    /\ orphan' \in {"none"} \cup ({pc} \cap {"extract", "separate"})
    /\ removal' = [removal EXCEPT !["worker"] = Idle]
    /\ UNCHANGED <<job, diskVars, cleanVars>>

\* Such a command comes to its end, with nobody to look at what it has written.
OrphanEnds ==
    /\ \/ orphan = "extract" /\ ClipWritten
       \/ orphan = "separate" /\ DemucsStops
    /\ orphan' = "none"
    /\ UNCHANGED <<processVars, job, resultAt, parts, removal, cleanVars, faults>>

\* The lease runs out, and another claim, or failExpired, takes the job.
LeaseRunsOut ==
    /\ job = "held"
    /\ job' = "lapsed"
    /\ UNCHANGED <<processVars, orphan, diskVars, removal, cleanVars, faults>>

TakenOver ==
    /\ job = "lapsed"
    /\ job' = "taken"
    /\ UNCHANGED <<processVars, orphan, diskVars, removal, cleanVars, faults>>

-----------------------------------------------------------------------------
(* The cleanup of another worker c, as far as it meets this attempt. *)

\* The worker may still publish or commit the result.
MayCommit == pc \in AtWork \/ (pc \in Finishing /\ result = "ok")

\* The cleanup of c goes on from one step to the next.
Advance(c, from, to) == clean[c] = from /\ clean' = [clean EXCEPT ![c] = to]

\* ListSongJobMedia.
ListJobs(c) ==
    /\ Advance(c, "idle", "songs")
    /\ seen' = [seen EXCEPT ![c] =
         [active |-> job = "held", referenced |-> FALSE, pending |-> MayCommit]]
    /\ UNCHANGED <<processVars, job, orphan, diskVars, removal, faults>>

\* ListSongOutputPaths, and mediaSnapshot's look at the lease that the first query
\* read: it may have run out by now, renewed or not, and it seems to have when this
\* worker's clock is ahead of the database's.
ListSongs(c) ==
    /\ Advance(c, "songs", "cutoff")
    /\ \E active \in {seen[c].active, FALSE} :
         seen' = [seen EXCEPT ![c] =
           [active |-> active, referenced |-> job = "ready", pending |-> seen[c].pending]]
    /\ UNCHANGED <<processVars, job, orphan, diskVars, removal, faults>>

Cutoff(c) ==
    /\ Advance(c, "cutoff", "work")
    /\ old' = [old EXCEPT ![c] = aged]
    /\ UNCHANGED <<processVars, job, orphan, treeVars, removal, seen, aged, faults>>

\* Mutant of CleanWork: work directories are left to their workers.
CleanWorkNever(c) ==
    /\ Advance(c, "work", "workRemoved")
    /\ UNCHANGED <<processVars, job, orphan, diskVars, removal, seen, faults>>

\* cleanupAttempts under work/.
CleanWork(c) ==
    /\ Advance(c, "work", "workRemoved")
    /\ IF ~seen[c].active /\ "work" \in old[c] THEN StartWork(c) ELSE UNCHANGED removal
    /\ UNCHANGED <<processVars, job, orphan, diskVars, seen, faults>>

\* cleanupAttempts under songs/.
CleanSongs(c) ==
    /\ Advance(c, "workRemoved", "songsRemoved")
    /\ ~Removing(c)
    /\ IF ~seen[c].active /\ ~seen[c].referenced /\ "result" \in old[c]
         THEN StartSongs(c) ELSE UNCHANGED removal
    /\ UNCHANGED <<processVars, job, orphan, diskVars, seen, faults>>

CleanEnds(c) ==
    /\ Advance(c, "songsRemoved", "idle")
    /\ ~Removing(c)
    /\ seen' = [seen EXCEPT ![c] = Unseen]
    /\ old' = [old EXCEPT ![c] = {}]
    /\ UNCHANGED <<processVars, job, orphan, treeVars, removal, aged, faults>>

\* An error ends the cleanup (an entry that vanished after it was listed is one),
\* and so does the end of the process.
CleanAborts(c) ==
    /\ clean[c] # "idle"
    /\ Fault
    /\ clean' = [clean EXCEPT ![c] = "idle"]
    /\ seen' = [seen EXCEPT ![c] = Unseen]
    /\ old' = [old EXCEPT ![c] = {}]
    /\ removal' = [removal EXCEPT ![c] = Idle]
    /\ UNCHANGED <<processVars, job, orphan, treeVars, aged>>

(***************************************************************************)
(* An hour passes without a change in a directory.  Prompt says when it does *)
(* not:                                                                     *)
(*   "work"    while the worker is at work: between the last entry made in     *)
(*             the work directory, at the start of demucs, and Publish         *)
(*   "commit"  between the last file moved into the result and its commit      *)
(*   "cutoff"  between that file and the cutoff of a cleanup whose first query *)
(*             came before the commit                                        *)
(***************************************************************************)
MayAge(dir) ==
    \/ /\ dir = "work"
       /\ workDir
       /\ "work" \in Prompt => pc \notin AtWork
    \/ /\ dir = "result"
       /\ resultAt # "nowhere"
       /\ "commit" \in Prompt => ~(MayCommit /\ pc \notin Producing)
       /\ "cutoff" \in Prompt =>
            \A c \in Cleaners : ~(clean[c] \in {"songs", "cutoff"} /\ seen[c].pending)

Age(dir) ==
    /\ dir \notin aged
    /\ MayAge(dir)
    /\ aged' = aged \cup {dir}
    /\ UNCHANGED <<processVars, treeVars, old, otherVars>>

-----------------------------------------------------------------------------

ProcessStep ==
    \/ Prepare \/ PrepareFails \/ Extract \/ CheckClip \/ Separate \/ VerifyStem
    \/ MoveClip \/ MoveStem \/ Publish \/ CommandFails \/ StepFails
    \/ StartCleanup \/ EndCleanup \/ Settle \/ StartDiscard \/ EndDiscard
    \/ Complete \/ Record

CleanStep(c) ==
    ListJobs(c) \/ ListSongs(c) \/ Cutoff(c) \/ CleanWork(c) \/ CleanSongs(c) \/ CleanEnds(c)

Next ==
    \/ ProcessStep \/ CompleteLost \/ Crash \/ OrphanEnds
    \/ (\E x \in Removers : RemoveStep(x)) \/ RemoveFails
    \/ LeaseRunsOut \/ TakenOver
    \/ \E c \in Cleaners : CleanStep(c) \/ CleanAborts(c)
    \/ \E dir \in {"work", "result"} : Age(dir)

Spec == Init /\ [][Next]_vars

\* Goroutines run and a command ends once its context is done (see SongWorker); leases run out, hours
\* pass, and Run begins a cleanup every hour.  A command without its worker may run
\* for ever.
Fairness ==
    /\ WF_vars(ProcessStep)
    /\ \A x \in Removers : WF_vars(RemoveStep(x))
    /\ \A c \in Cleaners : WF_vars(CleanStep(c))
    /\ WF_vars(LeaseRunsOut)
    /\ \A dir \in {"work", "result"} : WF_vars(Age(dir))

FairSpec == Spec /\ Fairness

-----------------------------------------------------------------------------

AttemptTypeOK ==
    /\ pc \in PCs
    /\ result \in {"none", "ok", "error"}
    /\ job \in {"held", "lapsed", "taken", "ready"}
    /\ workDir \in BOOLEAN
    /\ clip \in File
    /\ stems \in [Stems -> File]
    /\ demucsDir \in BOOLEAN
    /\ resultAt \in {"nowhere", "work", "songs"}
    /\ parts \in [Parts -> File]
    /\ unchecked \subseteq Stems
    /\ orphan \in {"none", "extract", "separate"}
    /\ removal \in [Removers ->
         [root : {"none", "work", "songs"}, entries : SUBSET {"clip", "demucs", "result"},
          open : {"none", "demucs", "result"}, names : SUBSET Parts]]
    /\ clean \in [Cleaners ->
         {"idle", "songs", "cutoff", "work", "workRemoved", "songsRemoved"}]
    /\ seen \in [Cleaners -> [active : BOOLEAN, referenced : BOOLEAN, pending : BOOLEAN]]
    /\ aged \subseteq {"work", "result"}
    /\ old \in [Cleaners -> SUBSET {"work", "result"}]
    /\ faults \in 0..MaxFaults

\* The directories nest: nothing is left in one that is gone.
AttemptTreeOK ==
    /\ ~workDir => clip = "absent" /\ ~demucsDir /\ resultAt # "work"
    /\ ~demucsDir => \A s \in Stems : stems[s] = "absent"
    /\ resultAt = "nowhere" => \A p \in Parts : parts[p] = "absent"

\* The type invariant of the attempt, its files and the cleaners.
TypeOK == AttemptTypeOK /\ AttemptTreeOK

Whole == \A p \in Parts : parts[p] = "audio"

\* A READY song has its five files, none of them empty: no removal of the work
\* directory that is still going on at the rename follows the result to its new
\* place, and no command that wrote nothing gets past the checks.
ReadyIsWhole == job = "ready" => resultAt = "songs" /\ Whole

\* An output appears complete or not at all, however many of Publish's steps
\* were taken when the process died or one of them failed.
AppearsWhole == [][resultAt # "songs" /\ resultAt' = "songs" => Whole']_vars

\* In the end the attempt's work directory is gone, though two RemoveAlls may have met
\* in it, or one died half way, or a command wrote there after the worker had died, and
\* an output is left for a READY song only.
FilesSettle ==
    <>[](~workDir /\ resultAt # "work" /\ (resultAt = "songs" => job = "ready"))
=============================================================================
