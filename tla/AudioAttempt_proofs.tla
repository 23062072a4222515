-------------------------- MODULE AudioAttempt_proofs --------------------------
(***************************************************************************)
(* For any stems, any number of cleanups at once, each repeated any number   *)
(* of times, and any number of faults: the directories nest, an output       *)
(* appears complete, and a READY song keeps its files.  The first            *)
(* holds of every attempt; the second as long as a work directory does not    *)
(* grow old under its worker; the third as long as all three timing           *)
(* assumptions hold.  Quiet and Safe show where each of them is used.         *)
(***************************************************************************)
EXTENDS AudioAttempt, TLAPS

\* Before the work directory is made there is nothing to remove or to grow old, and a
\* command outlives nothing but its worker.
Fresh ==
    /\ pc = "prepare" =>
         ~workDir /\ clip = "absent" /\ ~demucsDir /\ resultAt = "nowhere"
    /\ pc # "over" => orphan = "none"

\* A removal has a directory open only while it runs, and what the cutoff found
\* old has not changed since.
Orderly ==
    /\ \A x \in Removers : removal[x].root = "none" => removal[x].open = "none"
    /\ \A c \in Cleaners : old[c] \subseteq aged

\* Nobody removes anything under a worker that is at work, and a removal of the
\* work directory that meets a published result leaves it alone.
Quiet ==
    /\ pc \in AtWork => /\ "work" \notin aged
                        /\ resultAt # "songs"
                        /\ \A c \in Cleaners : removal[c].root = "none"
    /\ pc \notin {"cleaning", "discarding"} => removal["worker"].root = "none"
    /\ pc = "cleaning" => removal["worker"].root # "songs"
    /\ resultAt = "songs" =>
         \A x \in Removers : removal[x].root = "work" =>
            "result" \notin removal[x].entries /\ removal[x].open # "result"

\* The result is committed, or may still be.
Wanted == MayCommit \/ job = "ready"

\* The result's own entries will not change again.
Moved ==
    \/ pc \in {"moveStems", "publish"}
    \/ pc \in Finishing /\ result = "ok"
    \/ job = "ready"

\* Cleaner c leaves a wanted result alone: it has read that the song refers to it, or
\* it began before the commit and finds the result too young.
SafeFrom(c) ==
    /\ Wanted => removal[c].root # "songs"
    /\ clean[c] = "songs" /\ MayCommit => seen[c].pending
    /\ clean[c] \in {"cutoff", "work", "workRemoved"} /\ Wanted /\ ~seen[c].referenced
         => seen[c].pending
    /\ Moved /\ clean[c] \in {"songs", "cutoff"} /\ seen[c].pending
         => "result" \notin aged
    /\ Moved /\ clean[c] \in {"work", "workRemoved"} /\ ~seen[c].referenced
         => "result" \notin old[c]

\* A result is committed by its own worker only, before it can grow old.
Safe ==
    /\ job = "ready" => pc = "over"
    /\ pc = "complete" => result = "ok"
    /\ Moved /\ job # "ready" => "result" \notin aged
    /\ \A c \in Cleaners : SafeFrom(c)

\* How much of the result is in its place while the worker fills it.
Filling ==
    /\ pc \in {"separate", "verify", "moveClip"} => clip = "audio"
    /\ pc = "verify" => \A s \in Stems \ unchecked : stems[s] = "audio"
    /\ pc = "moveClip" => unchecked = Stems /\ \A s \in Stems : stems[s] = "audio"
    /\ pc = "moveStems" => /\ parts[Full] = "audio"
                           /\ \A s \in unchecked : stems[s] = "audio"
                           /\ \A s \in Stems \ unchecked : parts[s] = "audio"
    /\ pc = "publish" => Whole

\* A published result stays in its place, whole, until it is discarded.
Kept ==
    (pc \in Finishing /\ result = "ok") \/ job = "ready" => resultAt = "songs" /\ Whole

\* What it takes for an output to appear whole, and for a READY song to keep it.
WorkInv == TypeOK /\ Fresh /\ Orderly /\ Quiet /\ Filling
Inv     == WorkInv /\ Safe /\ Kept

-----------------------------------------------------------------------------
(* The removals. *)

Removals == [root : {"none", "work", "songs"}, entries : SUBSET {"clip", "demucs", "result"},
             open : {"none", "demucs", "result"}, names : SUBSET Parts]

\* The removal of x is replaced by r, the other goes on.
LEMMA OneRemoval ==
    ASSUME NEW x \in Removers, NEW r, removal \in [Removers -> Removals],
           removal' = [removal EXCEPT ![x] = r], r \in Removals
    PROVE  /\ removal' \in [Removers -> Removals]
           /\ removal'[x] = r
           /\ \A y \in Removers : y # x => removal'[y] = removal[y]
  OBVIOUS

\* The type of removals, as a set of records.
LEMMA RemovalsTyped == TypeOK => removal \in [Removers -> Removals]
  BY DEF TypeOK, AttemptTypeOK, Removals

\* A removal that is over.
LEMMA IdleTyped ==
    /\ Idle \in Removals
    /\ Idle.root = "none" /\ Idle.entries = {} /\ Idle.open = "none" /\ Idle.names = {}
  BY DEF Idle, Removals

\* A directory lists entries of the right kind.
LEMMA ListedTyped == \A dir \in {"demucs", "result"} : Listed(dir) \in SUBSET Parts
  BY DEF Listed, Parts

\* A removal of the work directory has nothing open at first, and takes the result
\* for an entry only where it is.
LEMMA StartWorkRemoves ==
    ASSUME TypeOK, NEW x \in Removers, StartWork(x)
    PROVE  /\ removal' \in [Removers -> Removals]
           /\ \A y \in Removers : y # x => removal'[y] = removal[y]
           /\ removal'[x].root \in {"none", "work"} /\ removal'[x].open = "none"
           /\ resultAt # "work" => "result" \notin removal'[x].entries
  <1>1. PICK r : /\ r \in Removals
                 /\ r.root \in {"none", "work"} /\ r.open = "none"
                 /\ r.entries \subseteq WorkEntries
                 /\ removal' = [removal EXCEPT ![x] = r]
    <2>1. WorkEntries \in SUBSET {"clip", "demucs", "result"}
      BY DEF WorkEntries
    <2>2. \A r : r = [Idle EXCEPT !.root = "work", !.entries = WorkEntries] =>
            r \in Removals /\ r.root = "work" /\ r.open = "none" /\ r.entries = WorkEntries
      BY <2>1, IdleTyped DEF Removals
    <2>3. CASE workDir
      BY <2>2, <2>3 DEF StartWork
    <2>4. CASE ~workDir
      <3>1. removal' = [removal EXCEPT ![x] = Idle]
        BY <2>4 DEF StartWork
      <3> QED  BY <3>1, IdleTyped
    <2> QED  BY <2>3, <2>4
  <1>2. "result" \in WorkEntries => resultAt = "work"
    BY DEF WorkEntries
  <1> QED  BY <1>1, <1>2, OneRemoval, RemovalsTyped

\* A removal of the output starts only where the output is.
LEMMA StartSongsRemoves ==
    ASSUME TypeOK, NEW x \in Removers, StartSongs(x)
    PROVE  /\ removal' \in [Removers -> Removals]
           /\ \A y \in Removers : y # x => removal'[y] = removal[y]
           /\ removal'[x].root = "none" => removal'[x].open = "none"
           /\ removal'[x].root = IF resultAt = "songs" THEN "songs" ELSE "none"
  <1>1. CASE resultAt = "songs"
    <2> DEFINE r == [Idle EXCEPT !.root = "songs", !.open = "result",
                                 !.names = Listed("result")]
    <2>1. r \in Removals /\ r.root = "songs"
      BY ListedTyped, IdleTyped DEF Removals
    <2>2. removal' = [removal EXCEPT ![x] = r]
      BY <1>1 DEF StartSongs
    <2> HIDE DEF r
    <2> QED  BY <1>1, <2>1, <2>2, OneRemoval, RemovalsTyped
  <1>2. CASE resultAt # "songs"
    <2>1. removal' = [removal EXCEPT ![x] = Idle]
      BY <1>2 DEF StartSongs
    <2> QED  BY <2>1, <1>2, OneRemoval, RemovalsTyped, IdleTyped
  <1> QED  BY <1>1, <1>2

\* No directory is older than before, and a cutoff's view of them does not outlast a
\* change.
Younger ==
    /\ aged' \subseteq aged
    /\ old' \in [Cleaners -> SUBSET {"work", "result"}]
    /\ \A c \in Cleaners :
         /\ old'[c] \subseteq old[c]
         /\ old[c] \subseteq aged => old'[c] \subseteq aged'

\* So it is when directories change, or nothing does.
LEMMA TouchYounger ==
    ASSUME TypeOK, \/ UNCHANGED ageVars
                   \/ \E dirs : Touch(dirs)
    PROVE  Younger
  <1>1. old \in [Cleaners -> SUBSET {"work", "result"}]
    BY DEF TypeOK, AttemptTypeOK
  <1>2. CASE UNCHANGED ageVars
    BY <1>1, <1>2 DEF ageVars, Younger
  <1>3. CASE \E dirs : Touch(dirs)
    <2>1. PICK dirs : Touch(dirs)
      BY <1>3
    <2>2. \A c \in Cleaners : old'[c] = old[c] \ dirs
      BY <2>1 DEF Touch
    <2>3. old' \in [Cleaners -> SUBSET {"work", "result"}]
      <3>1. old' = [c \in Cleaners |-> old[c] \ dirs]
        BY <2>1 DEF Touch
      <3>2. \A c \in Cleaners : old[c] \ dirs \in SUBSET {"work", "result"}
        BY <1>1
      <3> QED  BY <3>1, <3>2
    <2>4. aged' = aged \ dirs
      BY <2>1 DEF Touch
    <2> QED  BY <2>2, <2>3, <2>4 DEF Younger
  <1> QED  BY <1>2, <1>3

\* What a step of a removal may do: it takes things away, touches the result only
\* once it has it open, and knows no entry it did not list.
Removes(x) ==
    /\ removal' \in [Removers -> Removals]
    /\ \A y \in Removers : y # x => removal'[y] = removal[y]
    /\ removal[x].root # "none" \/ removal[x].open # "none"
    /\ removal'[x].root \in {removal[x].root, "none"}
    /\ removal'[x].entries \subseteq removal[x].entries
    /\ removal'[x].open \in {"none", removal[x].open} \cup removal[x].entries
    /\ removal'[x].root = "none" => removal'[x].open = "none" \/ removal[x].root = "none"
    /\ workDir' => workDir
    /\ clip' \in {clip, "absent"}
    /\ stems' \in [Stems -> File]
    /\ \A s \in Stems : stems'[s] \in {stems[s], "absent"}
    /\ demucsDir' => demucsDir
    /\ resultAt' \in {resultAt, "nowhere"}
    /\ parts' \in [Parts -> File]
    /\ removal[x].open # "result" => parts' = parts /\ resultAt' = resultAt
    /\ Younger
    /\ UNCHANGED <<processVars, job, orphan, cleanVars>>

\* A directory inside the one to remove is opened ...
LEMMA Reopened ==
    ASSUME TypeOK, NEW x \in Removers, NEW e \in {"demucs", "result"},
           removal' = [removal EXCEPT ![x] = Opened(x, e)]
    PROVE  /\ removal' \in [Removers -> Removals]
           /\ \A y \in Removers : y # x => removal'[y] = removal[y]
           /\ removal'[x].root = removal[x].root /\ removal'[x].open = e
           /\ removal'[x].entries = removal[x].entries
  <1>1. removal[x] \in Removals /\ Listed(e) \in SUBSET Parts
    BY RemovalsTyped, ListedTyped
  <1>2. Opened(x, e) \in Removals /\ Opened(x, e).root = removal[x].root
        /\ Opened(x, e).open = e /\ Opened(x, e).entries = removal[x].entries
    BY <1>1 DEF Opened, Removals
  <1> QED  BY <1>2, OneRemoval, RemovalsTyped

\* An entry of a removal's directory is dealt with.
LEMMA EntryDone ==
    ASSUME NEW x \in Removers, removal \in [Removers -> Removals], NEW e,
           removal' = [removal EXCEPT ![x].entries = @ \ {e}]
    PROVE  /\ removal' \in [Removers -> Removals]
           /\ \A y \in Removers : y # x => removal'[y] = removal[y]
           /\ removal'[x].root = removal[x].root /\ removal'[x].open = removal[x].open
           /\ removal'[x].entries \subseteq removal[x].entries
  BY DEF Removals

\* ... and in the end closed again.
LEMMA DirectoryDone ==
    ASSUME TypeOK, NEW x \in Removers, removal' = [removal EXCEPT ![x] = Closed(x)]
    PROVE  /\ removal' \in [Removers -> Removals]
           /\ \A y \in Removers : y # x => removal'[y] = removal[y]
           /\ removal'[x].root = removal[x].root /\ removal'[x].open = "none"
           /\ removal'[x].entries \subseteq removal[x].entries
  <1>1. removal[x] \in Removals
    BY RemovalsTyped
  <1>2. Closed(x) \in Removals /\ Closed(x).root = removal[x].root
        /\ Closed(x).open = "none" /\ Closed(x).entries \subseteq removal[x].entries
    BY <1>1 DEF Closed, Removals
  <1> QED  BY <1>2, OneRemoval, RemovalsTyped

\* A file in the open directory is dealt with.
LEMMA NameDone ==
    ASSUME NEW x \in Removers, removal \in [Removers -> Removals], NEW n,
           removal' = [removal EXCEPT ![x].names = @ \ {n}]
    PROVE  /\ removal' \in [Removers -> Removals]
           /\ \A y \in Removers : y # x => removal'[y] = removal[y]
           /\ removal'[x].root = removal[x].root /\ removal'[x].open = removal[x].open
           /\ removal'[x].entries = removal[x].entries
  BY DEF Removals

\* A removal ends or breaks off.
LEMMA RemovalStops ==
    ASSUME NEW x \in Removers, removal \in [Removers -> Removals],
           removal' = [removal EXCEPT ![x] = Idle]
    PROVE  /\ removal' \in [Removers -> Removals]
           /\ \A y \in Removers : y # x => removal'[y] = removal[y]
           /\ removal'[x].root = "none" /\ removal'[x].open = "none"
           /\ removal'[x].entries = {}
  BY OneRemoval, IdleTyped

\* Each step of a RemoveAll is of the kind Removes.
LEMMA RemoveEntryRemoves ==
    ASSUME TypeOK, NEW x \in Removers, RemoveEntry(x)
    PROVE  Removes(x) /\ TypeOK'
  <1> USE DEF RemoveEntry, Held, cleanVars, processVars
  <1>1. PICK e \in removal[x].entries :
          \/ /\ e # "clip" /\ e \in WorkEntries
             /\ removal' = [removal EXCEPT ![x] = Opened(x, e)]
             /\ UNCHANGED <<clip, ageVars>>
          \/ /\ removal' = [removal EXCEPT ![x].entries = @ \ {e}]
             /\ clip' \in {clip, "absent"}
             /\ \E dirs : Touch(dirs)
    OBVIOUS
  <1>2. /\ removal' \in [Removers -> Removals]
        /\ \A y \in Removers : y # x => removal'[y] = removal[y]
        /\ removal'[x].root = removal[x].root
        /\ removal'[x].entries \subseteq removal[x].entries
        /\ removal'[x].open \in {removal[x].open, e}
    <2>1. CASE /\ e # "clip" /\ e \in WorkEntries
               /\ removal' = [removal EXCEPT ![x] = Opened(x, e)]
      <3>1. e \in {"demucs", "result"}
        BY <2>1 DEF WorkEntries
      <3> QED  BY <2>1, <3>1, Reopened
    <2>2. CASE removal' = [removal EXCEPT ![x].entries = @ \ {e}]
      BY <2>2, EntryDone, RemovalsTyped
    <2> QED  BY <1>1, <2>1, <2>2
  <1>3. clip' \in {clip, "absent"} /\ Younger
    BY <1>1, TouchYounger
  <1>4. Removes(x)
    BY <1>2, <1>3 DEF Removes, TypeOK, AttemptTypeOK
  <1>5. AttemptTypeOK'
    BY <1>2, <1>3 DEF TypeOK, AttemptTypeOK, Removals, File, Younger
  <1>6. AttemptTreeOK'
    BY <1>3 DEF TypeOK, AttemptTreeOK
  <1> QED  BY <1>4, <1>5, <1>6 DEF TypeOK

LEMMA RemoveNameRemoves ==
    ASSUME TypeOK, NEW x \in Removers, RemoveName(x)
    PROVE  Removes(x) /\ TypeOK'
  <1> USE DEF RemoveName, Held, cleanVars, processVars
  <1>1. PICK n \in removal[x].names :
          /\ removal' = [removal EXCEPT ![x].names = @ \ {n}]
          /\ \/ /\ stems' = [stems EXCEPT ![n] = "absent"]
                /\ UNCHANGED <<parts, ageVars>>
             \/ /\ removal[x].open = "result"
                /\ parts' = [parts EXCEPT ![n] = "absent"]
                /\ \E dirs : Touch(dirs)
                /\ UNCHANGED stems
    BY RemovalsTyped DEF Removals
  <1>2. /\ removal' \in [Removers -> Removals]
        /\ \A y \in Removers : y # x => removal'[y] = removal[y]
        /\ removal'[x].root = removal[x].root /\ removal'[x].open = removal[x].open
        /\ removal'[x].entries = removal[x].entries
    BY <1>1, NameDone, RemovalsTyped
  <1>3. Younger
    BY <1>1, TouchYounger
  <1>4. /\ stems' \in [Stems -> File] /\ parts' \in [Parts -> File]
        /\ \A s \in Stems : stems'[s] \in {stems[s], "absent"}
        /\ \A p \in Parts : parts'[p] \in {parts[p], "absent"}
        /\ removal[x].open # "result" => parts' = parts
    BY <1>1 DEF TypeOK, AttemptTypeOK, File
  <1>5. Removes(x)
    BY <1>2, <1>3, <1>4 DEF Removes
  <1>6. AttemptTypeOK'
    BY <1>2, <1>3, <1>4 DEF TypeOK, AttemptTypeOK, Removals, Younger
  <1>7. AttemptTreeOK'
    BY <1>4 DEF TypeOK, AttemptTreeOK
  <1> QED  BY <1>5, <1>6, <1>7 DEF TypeOK

LEMMA RemoveDirectoryRemoves ==
    ASSUME TypeOK, NEW x \in Removers, RemoveDirectory(x)
    PROVE  Removes(x) /\ TypeOK'
  <1> USE DEF RemoveDirectory, Held, cleanVars, processVars
  <1>1. /\ removal' \in [Removers -> Removals]
        /\ \A y \in Removers : y # x => removal'[y] = removal[y]
        /\ removal'[x].root \in {removal[x].root, "none"} /\ removal'[x].open = "none"
        /\ removal'[x].entries \subseteq removal[x].entries
    <2>1. CASE removal[x].root = "songs"
      <3>1. removal' = [removal EXCEPT ![x] = Idle]
        BY <2>1
      <3> QED  BY <3>1, RemovalStops, RemovalsTyped
    <2>2. CASE removal[x].root # "songs"
      <3>1. removal' = [removal EXCEPT ![x] = Closed(x)]
        BY <2>2
      <3> QED  BY <3>1, DirectoryDone
    <2> QED  BY <2>1, <2>2
  <1>2. /\ demucsDir' \in BOOLEAN /\ (demucsDir' => demucsDir)
        /\ ~demucsDir' => ~demucsDir \/ Listed("demucs") = {}
        /\ resultAt' \in {resultAt, "nowhere"}
        /\ resultAt' # resultAt => removal[x].open = "result" /\ Listed("result") = {}
    BY DEF TypeOK, AttemptTypeOK
  <1>3. Younger
    BY TouchYounger
  <1>4. Removes(x)
    BY <1>1, <1>2, <1>3 DEF Removes, TypeOK, AttemptTypeOK
  <1>5. AttemptTypeOK'
    <2>1. /\ workDir \in BOOLEAN /\ clip \in File /\ stems \in [Stems -> File]
          /\ parts \in [Parts -> File] /\ unchecked \subseteq Stems
          /\ resultAt \in {"nowhere", "work", "songs"}
          /\ aged \subseteq {"work", "result"}
      BY DEF TypeOK, AttemptTypeOK
    <2>2. /\ resultAt' \in {"nowhere", "work", "songs"}
          /\ aged' \subseteq {"work", "result"}
          /\ old' \in [Cleaners -> SUBSET {"work", "result"}]
      BY <1>2, <1>3, <2>1 DEF Younger
    <2> QED
      BY <1>1, <1>2, <2>1, <2>2 DEF TypeOK, AttemptTypeOK, Removals
  <1>6. AttemptTreeOK'
    BY <1>2 DEF TypeOK, AttemptTreeOK, Listed
  <1> QED  BY <1>4, <1>5, <1>6 DEF TypeOK

LEMMA RemoveWorkDirRemoves ==
    ASSUME TypeOK, NEW x \in Removers, RemoveWorkDir(x)
    PROVE  Removes(x) /\ TypeOK'
  <1> USE DEF RemoveWorkDir, Held, cleanVars, processVars, ageVars
  <1>1. /\ removal' \in [Removers -> Removals]
        /\ \A y \in Removers : y # x => removal'[y] = removal[y]
        /\ removal'[x].root = "none" /\ removal'[x].open = "none"
        /\ removal'[x].entries = {}
    BY RemovalStops, RemovalsTyped
  <1>2. /\ workDir' \in BOOLEAN /\ (workDir' => workDir)
        /\ ~workDir' => ~workDir \/ WorkEntries = {}
        /\ Younger
    BY TouchYounger DEF TypeOK, AttemptTypeOK
  <1>3. Removes(x)
    BY <1>1, <1>2 DEF Removes, TypeOK, AttemptTypeOK
  <1>4. AttemptTypeOK'
    BY <1>1, <1>2 DEF TypeOK, AttemptTypeOK, Removals
  <1>5. AttemptTreeOK'
    BY <1>2 DEF TypeOK, AttemptTreeOK, WorkEntries
  <1> QED  BY <1>3, <1>4, <1>5 DEF TypeOK

LEMMA RemoveFailsRemoves ==
    ASSUME TypeOK, RemoveFails
    PROVE  Removes("worker") /\ TypeOK'
  <1> USE DEF RemoveFails, Removing, Fault, cleanVars, processVars, diskVars, treeVars, ageVars
  <1> "worker" \in Removers
    BY DEF Removers
  <1>1. /\ removal' \in [Removers -> Removals]
        /\ \A y \in Removers : y # "worker" => removal'[y] = removal[y]
        /\ removal'["worker"].root = "none" /\ removal'["worker"].open = "none"
        /\ removal'["worker"].entries = {}
    BY RemovalStops, RemovalsTyped
  <1>2. Removes("worker")
    BY <1>1, TouchYounger DEF Removes, TypeOK, AttemptTypeOK
  <1>3. AttemptTypeOK'
    BY <1>1, MaxFaultsAssumption DEF TypeOK, AttemptTypeOK, Removals
  <1>4. AttemptTreeOK'
    BY DEF TypeOK, AttemptTreeOK
  <1> QED  BY <1>2, <1>3, <1>4 DEF TypeOK

\* So is every step of a removal.
LEMMA RemovalRemoves ==
    ASSUME TypeOK, (\E x \in Removers : RemoveStep(x)) \/ RemoveFails
    PROVE  /\ \E x \in Removers : Removes(x)
           /\ TypeOK'
  BY RemoveEntryRemoves, RemoveNameRemoves, RemoveDirectoryRemoves, RemoveWorkDirRemoves,
     RemoveFailsRemoves DEF RemoveStep, Removers

-----------------------------------------------------------------------------
(* Type correctness, without any timing assumption. *)

\* A step of the attempt changes directories, and makes them young again, or does not.
LEMMA ProcessYounger ==
    ASSUME TypeOK, ProcessStep \/ CompleteLost \/ Crash \/ OrphanEnds
    PROVE  Younger
  <1> USE TouchYounger DEF diskVars, ageVars, Fails
  <1>1. CASE Prepare \/ PrepareFails \/ MoveClip \/ MoveStem \/ Publish \/ StepFails
    BY <1>1 DEF Prepare, PrepareFails, MoveClip, MoveStem, Publish, StepFails
  <1>2. CASE Extract \/ Separate \/ CommandFails \/ OrphanEnds
    BY <1>2 DEF Extract, Separate, CommandFails, OrphanEnds, ClipWritten, StemsWritten,
                DemucsStops
  <1>3. CASE CheckClip \/ VerifyStem \/ StartCleanup \/ EndCleanup \/ Settle \/ StartDiscard
    BY <1>3 DEF CheckClip, VerifyStem, StartCleanup, EndCleanup, Settle, StartDiscard
  <1>4. CASE EndDiscard \/ Complete \/ Record \/ CompleteLost \/ Crash
    BY <1>4 DEF EndDiscard, Complete, Record, CompleteLost, Crash
  <1> QED  BY <1>1, <1>2, <1>3, <1>4 DEF ProcessStep

\* The steps of the attempt keep the types.
LEMMA ProcessTyped ==
    ASSUME TypeOK, Fresh, ProcessStep
    PROVE  TypeOK' /\ Fresh'
  <1> USE DEF processVars, treeVars, ageVars, cleanVars, diskVars, otherVars, Fails, Return
  <1> DEFINE Typed == AttemptTypeOK' /\ AttemptTreeOK' /\ Fresh'
  <1> SUFFICES Typed
    BY DEF TypeOK
  <1>a. AttemptTypeOK /\ AttemptTreeOK
    BY DEF TypeOK
  <1>b. /\ aged' \subseteq {"work", "result"}
        /\ old' \in [Cleaners -> SUBSET {"work", "result"}]
    BY <1>a, ProcessYounger DEF Younger, AttemptTypeOK
  <1> USE <1>a, <1>b
  <1>1. CASE Prepare
    <2>1. AttemptTypeOK'
      BY <1>1 DEF Prepare, AttemptTypeOK, PCs, AtWork, Producing, Moving, Finishing
    <2>2. AttemptTreeOK' /\ Fresh'
      BY <1>1 DEF Prepare, AttemptTypeOK, AttemptTreeOK, Fresh
    <2> QED  BY <2>1, <2>2
  <1>2. CASE PrepareFails
    <2>1. AttemptTypeOK'
      BY <1>2 DEF PrepareFails, AttemptTypeOK, PCs, AtWork, Producing, Moving, Finishing
    <2>2. AttemptTreeOK' /\ Fresh'
      BY <1>2 DEF PrepareFails, AttemptTypeOK, AttemptTreeOK, Fresh
    <2> QED  BY <2>1, <2>2
  <1>3. CASE Extract
    <2>1. AttemptTypeOK'
      BY <1>3 DEF Extract, AttemptTypeOK, PCs, AtWork, Producing, Moving, Finishing, ClipWritten, File
    <2>2. AttemptTreeOK' /\ Fresh'
      BY <1>3 DEF Extract, AttemptTypeOK, AttemptTreeOK, Fresh, ClipWritten, File
    <2> QED  BY <2>1, <2>2
  <1>4. CASE CheckClip
    <2>1. AttemptTypeOK'
      BY <1>4 DEF CheckClip, AttemptTypeOK, PCs, AtWork, Producing, Moving, Finishing
    <2>2. AttemptTreeOK' /\ Fresh'
      BY <1>4 DEF CheckClip, AttemptTypeOK, AttemptTreeOK, Fresh
    <2> QED  BY <2>1, <2>2
  <1>5. CASE Separate
    <2>1. AttemptTypeOK'
      BY <1>5 DEF Separate, AttemptTypeOK, PCs, AtWork, Producing, Moving, Finishing, StemsWritten
    <2>2. AttemptTreeOK' /\ Fresh'
      BY <1>5 DEF Separate, AttemptTypeOK, AttemptTreeOK, Fresh, StemsWritten
    <2> QED  BY <2>1, <2>2
  <1>6. CASE VerifyStem
    <2>1. AttemptTypeOK'
      BY <1>6 DEF VerifyStem, AttemptTypeOK, PCs, AtWork, Producing, Moving, Finishing
    <2>2. AttemptTreeOK' /\ Fresh'
      BY <1>6 DEF VerifyStem, AttemptTypeOK, AttemptTreeOK, Fresh
    <2> QED  BY <2>1, <2>2
  <1>7. CASE MoveClip
    <2>1. clip' \in File /\ parts' \in [Parts -> File]
      BY <1>7 DEF MoveClip, AttemptTypeOK, File
    <2>2. AttemptTypeOK'
      BY <1>7, <2>1 DEF MoveClip, AttemptTypeOK, PCs, AtWork, Producing, Moving, Finishing
    <2>3. AttemptTreeOK' /\ Fresh'
      BY <1>7 DEF MoveClip, AttemptTypeOK, AttemptTreeOK, Fresh
    <2> QED  BY <2>2, <2>3
  <1>8. CASE MoveStem
    <2>1. stems' \in [Stems -> File] /\ parts' \in [Parts -> File]
      BY <1>8 DEF MoveStem, AttemptTypeOK, File
    <2>2. AttemptTypeOK'
      BY <1>8, <2>1 DEF MoveStem, AttemptTypeOK, PCs, AtWork, Producing, Moving, Finishing
    <2>3. AttemptTreeOK' /\ Fresh'
      BY <1>8 DEF MoveStem, AttemptTypeOK, AttemptTreeOK, Fresh
    <2> QED  BY <2>2, <2>3
  <1>9. CASE Publish
    <2>1. AttemptTypeOK'
      BY <1>9 DEF Publish, AttemptTypeOK, PCs, AtWork, Producing, Moving, Finishing
    <2>2. AttemptTreeOK' /\ Fresh'
      BY <1>9 DEF Publish, AttemptTypeOK, AttemptTreeOK, Fresh
    <2> QED  BY <2>1, <2>2
  <1>10. CASE CommandFails
    <2>1. /\ clip' \in File /\ stems' \in [Stems -> File]
          /\ workDir' \in BOOLEAN /\ demucsDir' \in BOOLEAN
      BY <1>10 DEF CommandFails, AttemptTypeOK, ClipWritten, StemsWritten, DemucsStops, File
    <2>2. AttemptTypeOK'
      BY <1>10, <2>1 DEF CommandFails, AttemptTypeOK, PCs, Finishing
    <2>3. AttemptTreeOK' /\ Fresh'
      BY <1>10 DEF CommandFails, AttemptTypeOK, AttemptTreeOK, Fresh, ClipWritten,
                   StemsWritten, DemucsStops, File
    <2> QED  BY <2>2, <2>3
  <1>11. CASE StepFails
    <2>1. AttemptTypeOK'
      BY <1>11 DEF StepFails, AttemptTypeOK, PCs, AtWork, Producing, Moving, Finishing
    <2>2. AttemptTreeOK' /\ Fresh'
      BY <1>11 DEF StepFails, AttemptTypeOK, AttemptTreeOK, Fresh, Moving
    <2> QED  BY <2>1, <2>2
  <1>12. CASE EndCleanup
    <2>1. AttemptTypeOK'
      BY <1>12 DEF EndCleanup, AttemptTypeOK, PCs, AtWork, Producing, Moving, Finishing
    <2>2. AttemptTreeOK' /\ Fresh'
      BY <1>12 DEF EndCleanup, AttemptTypeOK, AttemptTreeOK, Fresh
    <2> QED  BY <2>1, <2>2
  <1>13. CASE Settle
    <2>1. AttemptTypeOK'
      BY <1>13 DEF Settle, AttemptTypeOK, PCs, AtWork, Producing, Moving, Finishing
    <2>2. AttemptTreeOK' /\ Fresh'
      BY <1>13 DEF Settle, AttemptTypeOK, AttemptTreeOK, Fresh
    <2> QED  BY <2>1, <2>2
  <1>14. CASE EndDiscard
    <2>1. AttemptTypeOK'
      BY <1>14 DEF EndDiscard, AttemptTypeOK, PCs, AtWork, Producing, Moving, Finishing
    <2>2. AttemptTreeOK' /\ Fresh'
      BY <1>14 DEF EndDiscard, AttemptTypeOK, AttemptTreeOK, Fresh
    <2> QED  BY <2>1, <2>2
  <1>15. CASE Complete
    <2>1. AttemptTypeOK'
      BY <1>15 DEF Complete, AttemptTypeOK, PCs, AtWork, Producing, Moving, Finishing
    <2>2. AttemptTreeOK' /\ Fresh'
      BY <1>15 DEF Complete, AttemptTypeOK, AttemptTreeOK, Fresh
    <2> QED  BY <2>1, <2>2
  <1>16. CASE Record
    <2>1. AttemptTypeOK'
      BY <1>16 DEF Record, AttemptTypeOK, PCs, AtWork, Producing, Moving, Finishing
    <2>2. AttemptTreeOK' /\ Fresh'
      BY <1>16 DEF Record, AttemptTypeOK, AttemptTreeOK, Fresh
    <2> QED  BY <2>1, <2>2
  <1>17. CASE StartCleanup
    <2>1. removal' \in [Removers -> Removals]
      BY <1>17, StartWorkRemoves, RemovalsTyped DEF StartCleanup, Removers
    <2>2. AttemptTypeOK'
      BY <1>17, <2>1 DEF StartCleanup, AttemptTypeOK, PCs, Finishing, Removals
    <2>3. AttemptTreeOK' /\ Fresh'
      BY <1>17 DEF StartCleanup, AttemptTreeOK, Fresh
    <2> QED  BY <2>2, <2>3
  <1>18. CASE StartDiscard
    <2>1. removal' \in [Removers -> Removals]
      BY <1>18, StartSongsRemoves, RemovalsTyped DEF StartDiscard, Removers
    <2>2. AttemptTypeOK'
      BY <1>18, <2>1 DEF StartDiscard, AttemptTypeOK, PCs, Finishing, Removals
    <2>3. AttemptTreeOK' /\ Fresh'
      BY <1>18 DEF StartDiscard, AttemptTreeOK, Fresh
    <2> QED  BY <2>2, <2>3
  <1> QED
    BY <1>1, <1>2, <1>3, <1>4, <1>5, <1>6, <1>7, <1>8, <1>9, <1>10, <1>11, <1>12, <1>13, <1>14, <1>15, <1>16, <1>17, <1>18 DEF ProcessStep

\* A command that has outlived its worker writes what it would have written.
LEMMA OrphanTyped ==
    ASSUME TypeOK, Fresh, OrphanEnds
    PROVE  TypeOK' /\ Fresh'
  <1> USE DEF OrphanEnds, processVars, cleanVars, ageVars, ClipWritten, StemsWritten, DemucsStops
  <1>a. AttemptTypeOK /\ AttemptTreeOK
    BY DEF TypeOK
  <1>1. /\ aged' \subseteq {"work", "result"}
        /\ old' \in [Cleaners -> SUBSET {"work", "result"}]
    BY <1>a, ProcessYounger DEF Younger, AttemptTypeOK
  <1>2. /\ clip' \in File /\ stems' \in [Stems -> File]
        /\ workDir' \in BOOLEAN /\ demucsDir' \in BOOLEAN
    BY <1>a DEF AttemptTypeOK, File
  <1>3. AttemptTypeOK'
    BY <1>a, <1>1, <1>2 DEF AttemptTypeOK
  <1>4. AttemptTreeOK' /\ Fresh'
    BY <1>a DEF AttemptTypeOK, AttemptTreeOK, Fresh, File
  <1> QED  BY <1>3, <1>4 DEF TypeOK

\* The cleaners leave the rest alone.
LEMMA CleanTyped ==
    ASSUME TypeOK, Fresh, NEW c \in Cleaners, CleanStep(c) \/ CleanAborts(c)
    PROVE  TypeOK' /\ Fresh'
  <1> USE DEF processVars, treeVars, ageVars, diskVars, Fault, Advance
  <1> DEFINE Seen == [active : BOOLEAN, referenced : BOOLEAN, pending : BOOLEAN]
  <1> c \in Removers
    BY DEF Removers
  <1>a. AttemptTypeOK /\ AttemptTreeOK
    BY DEF TypeOK
  <1>b. AttemptTreeOK' /\ Fresh'
    BY <1>a DEF AttemptTreeOK, Fresh, CleanStep, ListJobs, ListSongs, Cutoff, CleanWork,
                CleanSongs, CleanEnds, CleanAborts
  <1>c. UNCHANGED <<pc, result, unchecked, job, orphan, treeVars, aged>>
    BY DEF CleanStep, ListJobs, ListSongs, Cutoff, CleanWork, CleanSongs, CleanEnds, CleanAborts
  <1>1. faults' \in 0..MaxFaults
    BY <1>a, MaxFaultsAssumption DEF AttemptTypeOK, CleanStep, ListJobs, ListSongs, Cutoff,
       CleanWork, CleanSongs, CleanEnds, CleanAborts
  <1>2. clean' \in [Cleaners ->
                    {"idle", "songs", "cutoff", "work", "workRemoved", "songsRemoved"}]
    BY <1>a DEF AttemptTypeOK, CleanStep, ListJobs, ListSongs, Cutoff, CleanWork, CleanSongs,
                CleanEnds, CleanAborts
  <1>3. seen' \in [Cleaners -> Seen]
    <2>1. \/ seen' = seen
          \/ \E r \in Seen : seen' = [seen EXCEPT ![c] = r]
      <3>1. CASE ListJobs(c)
        BY <3>1 DEF ListJobs, MayCommit
      <3>2. CASE ListSongs(c)
        <4>1. PICK active \in {seen[c].active, FALSE} :
                seen' = [seen EXCEPT ![c] =
                  [active |-> active, referenced |-> job = "ready",
                   pending |-> seen[c].pending]]
          BY <3>2 DEF ListSongs
        <4>2. seen[c].active \in BOOLEAN /\ seen[c].pending \in BOOLEAN
          BY <1>a DEF AttemptTypeOK
        <4>3. [active |-> active, referenced |-> job = "ready", pending |-> seen[c].pending]
                \in Seen
          BY <4>2
        <4> QED  BY <4>1, <4>3
      <3>3. CASE Cutoff(c) \/ CleanWork(c) \/ CleanSongs(c)
        BY <3>3 DEF Cutoff, CleanWork, CleanSongs
      <3>4. CASE CleanEnds(c) \/ CleanAborts(c)
        BY <3>4 DEF CleanEnds, CleanAborts, Unseen
      <3> QED  BY <3>1, <3>2, <3>3, <3>4 DEF CleanStep
    <2>2. seen \in [Cleaners -> Seen]
      BY <1>a DEF AttemptTypeOK
    <2> HIDE DEF Seen
    <2> QED  BY <2>1, <2>2
  <1>4. old' \in [Cleaners -> SUBSET {"work", "result"}]
    BY <1>a DEF AttemptTypeOK, CleanStep, ListJobs, ListSongs, Cutoff, CleanWork, CleanSongs,
                CleanEnds, CleanAborts
  <1>5. removal' \in [Removers -> Removals]
    <2>1. CASE CleanWork(c)
      BY <2>1, StartWorkRemoves, RemovalsTyped DEF CleanWork
    <2>2. CASE CleanSongs(c)
      BY <2>2, StartSongsRemoves, RemovalsTyped DEF CleanSongs
    <2>3. CASE CleanAborts(c)
      BY <2>3, RemovalStops, RemovalsTyped DEF CleanAborts
    <2>4. CASE ListJobs(c) \/ ListSongs(c) \/ Cutoff(c) \/ CleanEnds(c)
      BY <2>4, RemovalsTyped DEF ListJobs, ListSongs, Cutoff, CleanEnds
    <2> QED  BY <2>1, <2>2, <2>3, <2>4 DEF CleanStep
  <1>6. AttemptTypeOK'
    BY <1>a, <1>c, <1>1, <1>2, <1>3, <1>4, <1>5 DEF AttemptTypeOK, Removals
  <1> QED  BY <1>b, <1>6 DEF TypeOK

\* So do the clock, the job and the end of the worker ...
LEMMA RestTyped ==
    ASSUME TypeOK, Fresh,
           \/ CompleteLost \/ Crash \/ LeaseRunsOut \/ TakenOver
           \/ \E dir \in {"work", "result"} : Age(dir)
    PROVE  TypeOK' /\ Fresh'
  <1> USE DEF processVars, treeVars, ageVars, cleanVars, diskVars, otherVars, Fault, Return
  <1>a. AttemptTypeOK /\ AttemptTreeOK
    BY DEF TypeOK
  <1>b. AttemptTreeOK' /\ Fresh'
    <2> USE <1>a DEF AttemptTreeOK, Fresh
    <2>1. CASE CompleteLost \/ Crash \/ LeaseRunsOut \/ TakenOver
      BY <2>1 DEF CompleteLost, Crash, LeaseRunsOut, TakenOver
    <2>2. CASE \E dir \in {"work", "result"} : Age(dir)
      BY <2>2 DEF Age
    <2> QED  BY <2>1, <2>2
  <1>c. AttemptTypeOK'
    <2> USE <1>a DEF AttemptTypeOK
    <2>1. CASE CompleteLost
      BY <2>1, MaxFaultsAssumption DEF CompleteLost, PCs
    <2>2. CASE Crash
      <3>1. removal' \in [Removers -> Removals]
        BY <2>2, RemovalStops, RemovalsTyped DEF Crash, Removers
      <3>2. orphan' \in {"none", "extract", "separate"}
        BY <2>2 DEF Crash
      <3> QED  BY <2>2, <3>1, <3>2, MaxFaultsAssumption DEF Crash, PCs, Removals
    <2>3. CASE LeaseRunsOut \/ TakenOver
      <3>1. /\ job' \in {"lapsed", "taken"}
            /\ UNCHANGED <<processVars, orphan, diskVars, removal, cleanVars, faults>>
        BY <2>3, Zenon DEF LeaseRunsOut, TakenOver
      <3> QED  BY <3>1
    <2>4. CASE \E dir \in {"work", "result"} : Age(dir)
      BY <2>4 DEF Age
    <2> QED  BY <2>1, <2>2, <2>3, <2>4
  <1> QED  BY <1>b, <1>c DEF TypeOK

\* ... and the types hold at first.
LEMMA InitTyped == Init => TypeOK /\ Fresh
  <1> SUFFICES ASSUME Init PROVE TypeOK /\ Fresh
    OBVIOUS
  <1>1. AttemptTypeOK
    <2>1. removal \in [Removers -> Removals]
      BY IdleTyped DEF Init, Removers
    <2>2. stems \in [Stems -> File] /\ parts \in [Parts -> File]
      BY DEF Init, File
    <2>3. seen \in [Cleaners -> [active : BOOLEAN, referenced : BOOLEAN, pending : BOOLEAN]]
      BY DEF Init, Unseen
    <2>4. /\ pc \in PCs /\ clip \in File /\ unchecked \subseteq Stems
          /\ faults \in 0..MaxFaults
      BY MaxFaultsAssumption DEF Init, PCs, AtWork, File
    <2>5. /\ result \in {"none", "ok", "error"}
          /\ job \in {"held", "lapsed", "taken", "ready"}
          /\ workDir \in BOOLEAN /\ demucsDir \in BOOLEAN
          /\ resultAt \in {"nowhere", "work", "songs"}
          /\ orphan = "none" /\ aged = {}
          /\ clean \in [Cleaners ->
               {"idle", "songs", "cutoff", "work", "workRemoved", "songsRemoved"}]
          /\ old \in [Cleaners -> SUBSET {"work", "result"}]
      BY DEF Init
    <2> QED
      BY <2>1, <2>2, <2>3, <2>4, <2>5 DEF AttemptTypeOK, Removals
  <1>2. AttemptTreeOK /\ Fresh
    BY DEF Init, AttemptTreeOK, Fresh
  <1> QED  BY <1>1, <1>2 DEF TypeOK

\* The types are inductive without any timing assumption.
LEMMA NextTyped == TypeOK /\ Fresh /\ [Next]_vars => TypeOK' /\ Fresh'
  <1> SUFFICES ASSUME TypeOK, Fresh, [Next]_vars PROVE TypeOK' /\ Fresh'
    OBVIOUS
  <1>1. CASE (\E x \in Removers : RemoveStep(x)) \/ RemoveFails
    BY <1>1, RemovalRemoves DEF Removes, Fresh, processVars
  <1>2. CASE UNCHANGED vars
    BY <1>2 DEF TypeOK, AttemptTypeOK, AttemptTreeOK, Fresh, vars, processVars, treeVars,
                ageVars, cleanVars
  <1> QED  BY <1>1, <1>2, ProcessTyped, OrphanTyped, CleanTyped, RestTyped DEF Next

\* The type invariant, for any stems, any number of faults and no timing assumption:
\* whatever RemoveAll, the worker and its commands do at once, the directories nest.
THEOREM TypeCorrect == Spec => []TypeOK
  <1> QED  BY InitTyped, NextTyped, PTL DEF Spec

-----------------------------------------------------------------------------
(* Quiet, when the worker is prompt, and Safe, when everyone is. *)

WorkTimely == "work" \in Prompt
Timely     == Prompt = {"work", "commit", "cutoff"}

\* At first nobody removes anything and there is no result.
LEMMA InitInv == Init => Inv
  <1> SUFFICES ASSUME Init PROVE Inv
    OBVIOUS
  <1>1. \A x \in Removers : removal[x] = Idle
    BY DEF Init, Removers
  <1>2. Orderly /\ Quiet
    BY <1>1, IdleTyped, CleanersAssumption DEF Init, Orderly, Quiet, Removers
  <1>3. Safe
    BY <1>1, IdleTyped DEF Init, Safe, SafeFrom, Wanted, Moved, Removers, Finishing
  <1>4. Filling /\ Kept
    BY DEF Init, Filling, Kept, Finishing
  <1> QED  BY <1>2, <1>3, <1>4, InitTyped DEF Inv, WorkInv

\* Process itself leaves the cleaner and its removal alone.
LEMMA ProcessOrderly ==
    ASSUME TypeOK, Orderly, ProcessStep \/ CompleteLost \/ Crash \/ OrphanEnds
    PROVE  /\ Orderly'
           /\ \A c \in Cleaners : removal'[c] = removal[c]
           /\ UNCHANGED cleanVars
           /\ aged' \subseteq aged /\ \A c \in Cleaners : old'[c] \subseteq old[c]
  <1>0. Younger
    BY ProcessYounger
  <1> SUFFICES /\ \A x \in Removers :
                    removal'[x].root = "none" => removal'[x].open = "none"
               /\ \A c \in Cleaners : removal'[c] = removal[c]
               /\ UNCHANGED cleanVars
    BY <1>0 DEF Younger, Orderly
  <1>a. "worker" \in Removers /\ \A c \in Cleaners : c \in Removers /\ c # "worker"
    BY CleanersAssumption DEF Removers
  <1> USE <1>a DEF cleanVars, otherVars, diskVars, Orderly
  <1>1. CASE StartCleanup
    BY <1>1, StartWorkRemoves DEF StartCleanup
  <1>2. CASE StartDiscard
    BY <1>2, StartSongsRemoves DEF StartDiscard
  <1>3. CASE Crash
    BY <1>3, RemovalStops, RemovalsTyped DEF Crash
  <1>4. CASE Prepare \/ PrepareFails \/ Extract \/ CheckClip \/ Separate \/ VerifyStem
    BY <1>4 DEF Prepare, PrepareFails, Extract, CheckClip, Separate, VerifyStem
  <1>5. CASE MoveClip \/ MoveStem \/ Publish \/ CommandFails \/ StepFails \/ OrphanEnds
    BY <1>5 DEF MoveClip, MoveStem, Publish, CommandFails, StepFails, OrphanEnds
  <1>6. CASE EndCleanup \/ Settle \/ EndDiscard \/ Complete \/ Record \/ CompleteLost
    BY <1>6 DEF EndCleanup, Settle, EndDiscard, Complete, Record, CompleteLost
  <1> QED  BY <1>1, <1>2, <1>3, <1>4, <1>5, <1>6 DEF ProcessStep

\* A step of the worker that ends its work, or goes on with it.
LEMMA ProcessQuiet ==
    ASSUME TypeOK, Fresh, Orderly, Quiet,
           ProcessStep \/ CompleteLost \/ Crash \/ OrphanEnds
    PROVE  Quiet'
  <1>0. (\A c \in Cleaners : removal'[c] = removal[c]) /\ aged' \subseteq aged
    BY ProcessOrderly
  <1>a. pc \in AtWork => removal["worker"].root = "none"
    BY DEF Quiet, AtWork, Producing, Moving
  <1> USE <1>0, <1>a, CleanersAssumption
      DEF otherVars, diskVars, treeVars, Quiet, AtWork, Producing, Moving, Removers, Return
  <1>1. CASE StartCleanup
    BY <1>1, StartWorkRemoves DEF StartCleanup
  <1>2. CASE StartDiscard
    BY <1>2, StartSongsRemoves DEF StartDiscard
  <1>3. CASE Crash
    BY <1>3, RemovalStops, RemovalsTyped DEF Crash
  <1>4. CASE Prepare
    BY <1>4 DEF Prepare, Fresh, Touch, PrepareFails
  <1>5. CASE PrepareFails \/ CommandFails \/ StepFails
    BY <1>5 DEF PrepareFails, CommandFails, StepFails, Fails
  <1>6. CASE Extract \/ CheckClip \/ Separate \/ VerifyStem \/ MoveClip \/ MoveStem
    BY <1>6 DEF Extract, CheckClip, Separate, VerifyStem, MoveClip, MoveStem
  <1>7. CASE Publish
    BY <1>7 DEF Publish
  <1>8. CASE EndCleanup \/ Settle \/ EndDiscard \/ Complete \/ Record \/ CompleteLost
    BY <1>8 DEF EndCleanup, Settle, EndDiscard, Complete, Record, CompleteLost, Removing
  <1>9. CASE OrphanEnds
    BY <1>9 DEF OrphanEnds, processVars
  <1> QED  BY <1>1, <1>2, <1>3, <1>4, <1>5, <1>6, <1>7, <1>8, <1>9 DEF ProcessStep

\* A removal under a worker that is at work is none of the cleaner's.
LEMMA RemovalQuiet ==
    ASSUME TypeOK, Orderly, Quiet, NEW x \in Removers, Removes(x)
    PROVE  Orderly' /\ Quiet'
  <1>1. Orderly'
    BY DEF Orderly, Removes, Removers, Younger
  <1>2. Quiet'
    <2>1. "worker" \in Removers /\ \A c \in Cleaners : c \in Removers
      BY DEF Removers
    <2>2. x = "worker" \/ x \in Cleaners
      BY DEF Removers
    <2>3. pc \notin AtWork
      BY <2>2 DEF Orderly, Quiet, Removes, Removers, AtWork, Producing, Moving
    <2>4. \A y \in Removers : removal'[y].root \in {removal[y].root, "none"}
      BY DEF Removes
    <2>5. resultAt' = "songs" =>
            \A y \in Removers : removal'[y].root = "work" =>
              "result" \notin removal'[y].entries /\ removal'[y].open # "result"
      BY DEF Quiet, Removes
    <2> QED  BY <2>1, <2>3, <2>4, <2>5 DEF Quiet, Removes, processVars
  <1> QED  BY <1>1, <1>2

\* A cleanup begins a removal of the work directory only once it is old.
LEMMA CleanQuiet ==
    ASSUME TypeOK, Orderly, Quiet, NEW c \in Cleaners, CleanStep(c) \/ CleanAborts(c)
    PROVE  Orderly' /\ Quiet'
  <1>a. "worker" \in Removers /\ c # "worker" /\ \A d \in Cleaners : d \in Removers
    BY CleanersAssumption DEF Removers
  <1>b. UNCHANGED <<pc, resultAt, aged>>
    BY DEF CleanStep, ListJobs, ListSongs, Cutoff, CleanWork, CleanSongs, CleanEnds, CleanAborts,
           processVars, treeVars, diskVars, ageVars
  <1>1. \A d \in Cleaners : old'[d] \subseteq aged
    <2>1. old' = old \/ old' = [old EXCEPT ![c] = aged] \/ old' = [old EXCEPT ![c] = {}]
      BY DEF CleanStep, ListJobs, ListSongs, Cutoff, CleanWork, CleanSongs, CleanEnds,
             CleanAborts, diskVars, ageVars
    <2>2. old \in [Cleaners -> SUBSET {"work", "result"}]
      BY DEF TypeOK, AttemptTypeOK
    <2> QED  BY <2>1, <2>2 DEF Orderly
  <1>2. /\ \A y \in Removers : y # c => removal'[y] = removal[y]
        /\ removal'[c].root = "none" => removal'[c].open = "none"
        /\ removal'[c].root # "none" => removal'[c] = removal[c] \/ pc \notin AtWork
        /\ removal'[c].root = "work" =>
             \/ removal'[c] = removal[c]
             \/ /\ removal'[c].open = "none"
                /\ resultAt = "songs" => "result" \notin removal'[c].entries
    <2>1. CASE CleanWork(c)
      <3>1. CASE StartWork(c) /\ "work" \in old[c]
        <4>1. pc \notin AtWork
          BY <3>1 DEF Orderly, Quiet
        <4> QED  BY <3>1, <4>1, <1>a, StartWorkRemoves
      <3>2. CASE removal' = removal
        BY <3>2, <1>a DEF Orderly
      <3> QED  BY <2>1, <3>1, <3>2 DEF CleanWork
    <2>2. CASE CleanSongs(c)
      <3>1. CASE StartSongs(c)
        <4>1. removal'[c].root # "none" => pc \notin AtWork
          BY <3>1, <1>a, StartSongsRemoves DEF Quiet
        <4> QED  BY <3>1, <4>1, <1>a, StartSongsRemoves
      <3>2. CASE removal' = removal
        BY <3>2, <1>a DEF Orderly
      <3> QED  BY <2>2, <3>1, <3>2 DEF CleanSongs
    <2>3. CASE CleanAborts(c)
      BY <2>3, <1>a, RemovalStops, RemovalsTyped DEF CleanAborts
    <2>4. CASE ListJobs(c) \/ ListSongs(c) \/ Cutoff(c) \/ CleanEnds(c)
      BY <2>4, <1>a DEF ListJobs, ListSongs, Cutoff, CleanEnds, Orderly
    <2> QED  BY <2>1, <2>2, <2>3, <2>4 DEF CleanStep
  <1>3. Orderly'
    BY <1>a, <1>b, <1>1, <1>2 DEF Orderly
  <1>4. Quiet'
    BY <1>a, <1>b, <1>2 DEF Quiet
  <1> QED  BY <1>3, <1>4

\* A work directory in use does not grow old.
LEMMA RestQuiet ==
    ASSUME WorkTimely, TypeOK, Orderly, Quiet,
           LeaseRunsOut \/ TakenOver \/ \E dir \in {"work", "result"} : Age(dir)
    PROVE  Orderly' /\ Quiet'
  <1> USE DEF diskVars, treeVars, ageVars, processVars, otherVars, Orderly, Quiet
  <1>1. CASE LeaseRunsOut \/ TakenOver
    BY <1>1 DEF LeaseRunsOut, TakenOver
  <1>2. CASE \E dir \in {"work", "result"} : Age(dir)
    BY <1>2 DEF Age, MayAge, WorkTimely
  <1> QED  BY <1>1, <1>2

\* Nobody starts to want a result again, and nothing but MoveClip makes it complete.
LEMMA WantedStays ==
    ASSUME Safe, [Next]_vars
    PROVE  /\ MayCommit' => MayCommit
           /\ Wanted' => Wanted
           /\ Moved' => Moved \/ MoveClip
           /\ job' = "ready" /\ job # "ready" => pc = "complete"
           /\ (job' = "ready" => pc' = "over") /\ (pc' = "complete" => result' = "ok")
  <1> USE DEF Safe, Wanted, Moved, MayCommit, AtWork, Producing, Moving, Finishing, Fenced,
              vars, processVars, treeVars, ageVars, cleanVars, diskVars, otherVars, Fails, Return
  <1>1. CASE Prepare \/ PrepareFails \/ Extract \/ CheckClip \/ Separate \/ VerifyStem
    BY <1>1 DEF Prepare, PrepareFails, Extract, CheckClip, Separate, VerifyStem
  <1>2. CASE MoveClip \/ MoveStem \/ Publish \/ CommandFails \/ StepFails
    BY <1>2 DEF MoveClip, MoveStem, Publish, CommandFails, StepFails
  <1>3. CASE StartCleanup \/ EndCleanup \/ Settle \/ StartDiscard \/ EndDiscard
    BY <1>3 DEF StartCleanup, EndCleanup, Settle, StartDiscard, EndDiscard
  <1>4. CASE Complete \/ Record \/ CompleteLost \/ Crash \/ OrphanEnds
    BY <1>4 DEF Complete, Record, CompleteLost, Crash, OrphanEnds
  <1>5. CASE (\E x \in Removers : RemoveStep(x)) \/ RemoveFails
    BY <1>5 DEF RemoveStep, RemoveEntry, RemoveName, RemoveDirectory, RemoveWorkDir,
                RemoveFails
  <1>6. CASE \/ LeaseRunsOut \/ TakenOver \/ \E dir \in {"work", "result"} : Age(dir)
            \/ UNCHANGED vars
    BY <1>6 DEF LeaseRunsOut, TakenOver, Age
  <1>7. CASE \E c \in Cleaners : CleanStep(c) \/ CleanAborts(c)
    BY <1>7 DEF CleanStep, ListJobs, ListSongs, Cutoff, CleanWork, CleanSongs, CleanEnds,
                CleanAborts
  <1> QED  BY <1>1, <1>2, <1>3, <1>4, <1>5, <1>6, <1>7 DEF Next, ProcessStep

\* A step of the worker: what it moves into the result is young again.
LEMMA ProcessSafe ==
    ASSUME TypeOK, Orderly, Safe, ProcessStep \/ CompleteLost \/ Crash \/ OrphanEnds
    PROVE  Safe'
  <1>1. /\ \A c \in Cleaners : removal'[c] = removal[c] /\ old'[c] \subseteq old[c]
        /\ clean' = clean /\ seen' = seen
        /\ aged' \subseteq aged
    BY ProcessOrderly DEF cleanVars
  <1>2. /\ MayCommit' => MayCommit
        /\ Wanted' => Wanted
        /\ Moved' => Moved \/ MoveClip
        /\ job' = "ready" /\ job # "ready" => pc = "complete"
        /\ (job' = "ready" => pc' = "over") /\ (pc' = "complete" => result' = "ok")
    BY WantedStays DEF Next
  <1>3. pc = "complete" => Moved
    BY DEF Safe, Moved, Finishing
  <1>4. MoveClip => "result" \notin aged' /\ \A c \in Cleaners : "result" \notin old'[c]
    BY DEF MoveClip, Touch
  <1>5. job = "ready" => job' = "ready"
    BY DEF Safe, ProcessStep, Prepare, PrepareFails, Extract, CheckClip, Separate, VerifyStem,
           MoveClip, MoveStem, Publish, CommandFails, StepFails, StartCleanup, EndCleanup,
           Settle, StartDiscard, EndDiscard, Complete, Record, CompleteLost, Crash,
           OrphanEnds, otherVars
  <1>6. \A c \in Cleaners : SafeFrom(c)'
    BY <1>1, <1>2, <1>4 DEF Safe, SafeFrom
  <1> QED  BY <1>1, <1>2, <1>3, <1>4, <1>5, <1>6 DEF Safe

\* The cleaner: what it has read by now protects a wanted result.
LEMMA CleanSafe ==
    ASSUME TypeOK, Orderly, Quiet, Safe, NEW c \in Cleaners, CleanStep(c) \/ CleanAborts(c)
    PROVE  Safe'
  <1>1. UNCHANGED <<processVars, job, resultAt, aged>> /\ Moved' = Moved /\ Wanted' = Wanted
    BY DEF CleanStep, ListJobs, ListSongs, Cutoff, CleanWork, CleanSongs, CleanEnds,
           CleanAborts, diskVars, treeVars, ageVars, processVars, Moved, Wanted, MayCommit
  <1>2. MayCommit' = MayCommit
    BY <1>1 DEF MayCommit, processVars
  <1>3. Moved => Wanted
    BY DEF Moved, Wanted, MayCommit, AtWork, Moving
  <1>a. c \in Removers /\ \A d \in Cleaners : d \in Removers
    BY DEF Removers
  <1>b. /\ clean \in [Cleaners ->
             {"idle", "songs", "cutoff", "work", "workRemoved", "songsRemoved"}]
        /\ seen \in [Cleaners -> [active : BOOLEAN, referenced : BOOLEAN, pending : BOOLEAN]]
        /\ old \in [Cleaners -> SUBSET {"work", "result"}]
    BY DEF TypeOK, AttemptTypeOK
  <1> USE DEF diskVars, ageVars
  <1>4. \A d \in Cleaners : d # c =>
          /\ removal'[d] = removal[d] /\ clean'[d] = clean[d]
          /\ seen'[d] = seen[d] /\ old'[d] = old[d]
    <2>1. \A d \in Cleaners : d # c => removal'[d] = removal[d]
      BY <1>a, StartWorkRemoves, StartSongsRemoves, RemovalStops, RemovalsTyped DEF CleanStep,
         ListJobs, ListSongs, Cutoff, CleanWork, CleanSongs, CleanEnds, CleanAborts
    <2>2. \A d \in Cleaners : d # c => clean'[d] = clean[d]
      BY <1>b DEF CleanStep, ListJobs, ListSongs, Cutoff, CleanWork, CleanSongs, CleanEnds,
                  CleanAborts, Advance
    <2>3. \A d \in Cleaners : d # c => seen'[d] = seen[d]
      BY <1>b DEF CleanStep, ListJobs, ListSongs, Cutoff, CleanWork, CleanSongs, CleanEnds,
                  CleanAborts
    <2>4. \A d \in Cleaners : d # c => old'[d] = old[d]
      BY <1>b DEF CleanStep, ListJobs, ListSongs, Cutoff, CleanWork, CleanSongs, CleanEnds,
                  CleanAborts
    <2> QED  BY <2>1, <2>2, <2>3, <2>4
  <1>5. \A d \in Cleaners : d # c => SafeFrom(d)'
    BY <1>1, <1>2, <1>4 DEF Safe, SafeFrom
  <1> USE <1>1, <1>2, <1>b DEF Advance
  <1>6. SafeFrom(c)'
    <2> USE DEF SafeFrom
    <2>0. SafeFrom(c)
      BY DEF Safe
    <2>1. CASE ListJobs(c)
      <3>1. seen'[c].pending = MayCommit /\ clean'[c] = "songs" /\ removal' = removal
        BY <2>1 DEF ListJobs
      <3>2. Moved /\ seen'[c].pending => "result" \notin aged
        BY <3>1 DEF Safe, MayCommit, AtWork, Producing, Moving, Finishing
      <3> QED  BY <2>0, <3>1, <3>2
    <2>2. CASE ListSongs(c)
      <3>1. /\ seen'[c].pending = seen[c].pending /\ seen'[c].referenced = (job = "ready")
            /\ clean[c] = "songs" /\ clean'[c] = "cutoff" /\ removal' = removal
        BY <2>2 DEF ListSongs
      <3> QED  BY <2>0, <3>1 DEF Wanted
    <2>3. CASE Cutoff(c)
      <3>1. /\ old'[c] = aged /\ seen' = seen /\ removal' = removal
            /\ clean[c] = "cutoff" /\ clean'[c] = "work"
        BY <2>3 DEF Cutoff
      <3> QED  BY <2>0, <1>3, <3>1
    <2>4. CASE CleanWork(c)
      <3>1. removal'[c].root # "songs" \/ removal' = removal
        BY <2>4, <1>a, StartWorkRemoves DEF CleanWork
      <3>2. /\ clean[c] = "work" /\ clean'[c] = "workRemoved"
            /\ seen' = seen /\ old' = old
        BY <2>4 DEF CleanWork
      <3> QED  BY <2>0, <3>1, <3>2
    <2>5. CASE CleanSongs(c)
      <3>1. Wanted => Moved \/ resultAt # "songs"
        BY DEF Wanted, MayCommit, Moved, Quiet
      <3>2. removal' = removal \/ (~seen[c].referenced /\ "result" \in old[c] /\
              removal'[c].root = IF resultAt = "songs" THEN "songs" ELSE "none")
        BY <2>5, <1>a, StartSongsRemoves DEF CleanSongs
      <3>3. clean[c] = "workRemoved" /\ clean'[c] = "songsRemoved"
        BY <2>5 DEF CleanSongs
      <3> QED  BY <2>0, <3>1, <3>2, <3>3
    <2>6. CASE CleanEnds(c)
      <3>1. clean'[c] = "idle" /\ removal' = removal
        BY <2>6 DEF CleanEnds
      <3> QED  BY <2>0, <3>1
    <2>7. CASE CleanAborts(c)
      <3>1. clean' = [clean EXCEPT ![c] = "idle"]
        BY <2>7 DEF CleanAborts
      <3>2. clean'[c] = "idle"
        BY <3>1, CleanTyped
      <3>3. removal'[c].root = "none"
        BY <2>7, <1>a, RemovalStops, RemovalsTyped DEF CleanAborts
      <3> QED  BY <3>2, <3>3 DEF SafeFrom, Younger
    <2> QED  BY <2>1, <2>2, <2>3, <2>4, <2>5, <2>6, <2>7 DEF CleanStep
  <1> QED  BY <1>5, <1>6 DEF Safe, processVars

\* A removal that is under way begins no other.
LEMMA RemovalSafe ==
    ASSUME TypeOK, Orderly, Safe, NEW x \in Removers, Removes(x)
    PROVE  Safe'
  <1>1. Moved' = Moved /\ Wanted' = Wanted /\ MayCommit' = MayCommit
    BY DEF Removes, Moved, Wanted, MayCommit, processVars
  <1>2. \A y \in Removers : removal'[y].root \in {removal[y].root, "none"}
    BY DEF Removes
  <1>3. \A c \in Cleaners : SafeFrom(c)'
    BY <1>1, <1>2 DEF Safe, SafeFrom, Removes, Removers, Younger, cleanVars
  <1> QED  BY <1>1, <1>3 DEF Safe, Removes, Younger, processVars

\* A directory grows old only where the timing assumptions let it.
LEMMA RestSafe ==
    ASSUME Timely, TypeOK, Orderly, Safe,
           LeaseRunsOut \/ TakenOver \/ \E dir \in {"work", "result"} : Age(dir)
    PROVE  Safe'
  <1> USE DEF diskVars, treeVars, ageVars, processVars, otherVars, cleanVars
  <1>1. CASE LeaseRunsOut \/ TakenOver
    BY <1>1 DEF LeaseRunsOut, TakenOver, Safe, SafeFrom, Moved, Wanted, MayCommit
  <1>2. CASE \E dir \in {"work", "result"} : Age(dir)
    <2>1. Moved' = Moved /\ Wanted' = Wanted /\ MayCommit' = MayCommit
      BY <1>2 DEF Age, Moved, Wanted, MayCommit
    <2>2. Moved /\ job # "ready" => MayCommit /\ pc \notin Producing
      BY DEF Moved, MayCommit, AtWork, Moving, Producing, Finishing
    <2> QED  BY <1>2, <2>1, <2>2 DEF Age, MayAge, Timely, Safe, SafeFrom
  <1> QED  BY <1>1, <1>2

-----------------------------------------------------------------------------
(* Filling and Kept, and what follows. *)

\* The attempt moves its files one by one.
LEMMA ProcessFilling ==
    ASSUME TypeOK, Fresh, Filling, ProcessStep \/ CompleteLost \/ Crash \/ OrphanEnds
    PROVE  Filling'
  <1> USE DEF processVars, otherVars, diskVars, treeVars, Fails, Return, Filling
  <1>1. CASE Prepare \/ PrepareFails \/ Extract \/ CheckClip \/ Separate
    BY <1>1 DEF Prepare, PrepareFails, Extract, CheckClip, Separate, StemsWritten
  <1>2. CASE VerifyStem
    BY <1>2 DEF VerifyStem
  <1>3. CASE MoveClip
    BY <1>3, StemsAssumption DEF MoveClip, TypeOK, AttemptTypeOK, Parts
  <1>4. CASE MoveStem
    BY <1>4, StemsAssumption DEF MoveStem, Whole, TypeOK, AttemptTypeOK, Parts
  <1>5. CASE Publish \/ CommandFails \/ StepFails
    BY <1>5 DEF Publish, CommandFails, StepFails, Moving
  <1>6. CASE StartCleanup \/ EndCleanup \/ Settle \/ StartDiscard \/ EndDiscard
    BY <1>6 DEF StartCleanup, EndCleanup, Settle, StartDiscard, EndDiscard
  <1>7. CASE Complete \/ Record \/ CompleteLost \/ Crash
    BY <1>7 DEF Complete, Record, CompleteLost, Crash
  <1>8. CASE OrphanEnds
    BY <1>8 DEF OrphanEnds, Fresh
  <1> QED  BY <1>1, <1>2, <1>3, <1>4, <1>5, <1>6, <1>7, <1>8 DEF ProcessStep

\* What Publish has moved is complete, and only a published result is committed.
LEMMA ProcessKept ==
    ASSUME TypeOK, Safe, Filling, Kept,
           ProcessStep \/ CompleteLost \/ Crash \/ OrphanEnds
    PROVE  Kept'
  <1>1. job' = "ready" => job = "ready" \/ (pc = "complete" /\ result = "ok")
    BY WantedStays DEF Next, Safe
  <1>2. job = "ready" => pc = "over"
    BY DEF Safe
  <1> USE DEF processVars, otherVars, diskVars, treeVars, Fails, Return, Kept, Finishing
  <1>3. CASE Prepare \/ PrepareFails \/ Extract \/ CheckClip \/ Separate \/ VerifyStem
    BY <1>2, <1>3 DEF Prepare, PrepareFails, Extract, CheckClip, Separate, VerifyStem
  <1>4. CASE MoveClip \/ MoveStem \/ CommandFails \/ StepFails
    BY <1>2, <1>4 DEF MoveClip, MoveStem, CommandFails, StepFails, Moving
  <1>5. CASE Publish
    BY <1>2, <1>5 DEF Publish, Filling, Whole
  <1>6. CASE StartCleanup \/ EndCleanup \/ Settle \/ StartDiscard \/ EndDiscard
    BY <1>6 DEF StartCleanup, EndCleanup, Settle, StartDiscard, EndDiscard, Whole
  <1>7. CASE Complete \/ Record \/ CompleteLost \/ Crash
    BY <1>1, <1>7 DEF Complete, Record, CompleteLost, Crash, Whole
  <1>8. CASE OrphanEnds
    BY <1>8 DEF OrphanEnds, Whole
  <1> QED  BY <1>3, <1>4, <1>5, <1>6, <1>7, <1>8 DEF ProcessStep

\* No removal runs while the worker is at work.
LEMMA RemovalFilling ==
    ASSUME TypeOK, Orderly, Quiet, NEW x \in Removers, Removes(x)
    PROVE  Filling'
  <1>1. pc \notin AtWork
    BY DEF Quiet, Orderly, Removes, Removers, AtWork, Producing, Moving
  <1> QED
    BY <1>1 DEF Filling, Removes, processVars, AtWork, Producing, Moving

\* No removal has a wanted result open: those of the work directory let a published
\* result be, and one of the output never starts.
LEMMA RemovalKept ==
    ASSUME TypeOK, Orderly, Quiet, Safe, Kept, NEW x \in Removers, Removes(x)
    PROVE  Kept'
  <1>1. (pc \in Finishing /\ result = "ok") \/ job = "ready" => removal[x].open # "result"
    <2>1. SUFFICES ASSUME (pc \in Finishing /\ result = "ok") \/ job = "ready"
                   PROVE  removal[x].root # "songs"
      BY RemovalsTyped DEF Kept, Orderly, Quiet, Removals
    <2>2. CASE x \in Cleaners
      BY <2>1, <2>2 DEF Safe, SafeFrom, Wanted, MayCommit
    <2>3. CASE x = "worker"
      BY <2>1, <2>3 DEF Safe, Quiet, Finishing
    <2> QED  BY <2>2, <2>3 DEF Removers
  <1> QED  BY <1>1 DEF Kept, Removes, processVars, Whole

\* Nobody else moves files.
LEMMA RestMovesNothing ==
    ASSUME \/ LeaseRunsOut \/ TakenOver \/ \E dir \in {"work", "result"} : Age(dir)
           \/ \E c \in Cleaners : CleanStep(c) \/ CleanAborts(c)
    PROVE  (Filling => Filling') /\ (Kept => Kept')
  <1> USE DEF processVars, treeVars, diskVars, otherVars
  <1>1. UNCHANGED <<pc, result, unchecked, clip, stems, resultAt, parts>>
        /\ (job' = "ready" => job = "ready")
    BY DEF LeaseRunsOut, TakenOver, Age, CleanStep, ListJobs, ListSongs, Cutoff, CleanWork,
           CleanSongs, CleanEnds, CleanAborts
  <1> QED  BY <1>1 DEF Filling, Kept, Whole

\* What makes an output whole is inductive by the promptness of its worker alone ...
LEMMA NextWorkInv == WorkTimely /\ WorkInv /\ [Next]_vars => WorkInv'
  <1> SUFFICES ASSUME WorkTimely, WorkInv, [Next]_vars PROVE WorkInv'
    OBVIOUS
  <1>1. TypeOK' /\ Fresh'
    BY NextTyped DEF WorkInv
  <1> USE DEF WorkInv
  <1>2. CASE ProcessStep \/ CompleteLost \/ Crash \/ OrphanEnds
    BY <1>1, <1>2, ProcessOrderly, ProcessQuiet, ProcessFilling
  <1>3. CASE (\E x \in Removers : RemoveStep(x)) \/ RemoveFails
    BY <1>1, <1>3, RemovalRemoves, RemovalQuiet, RemovalFilling
  <1>4. CASE \E c \in Cleaners : CleanStep(c) \/ CleanAborts(c)
    BY <1>1, <1>4, CleanQuiet, RestMovesNothing
  <1>5. CASE LeaseRunsOut \/ TakenOver \/ \E dir \in {"work", "result"} : Age(dir)
    BY <1>1, <1>5, RestQuiet, RestMovesNothing
  <1>6. CASE UNCHANGED vars
    BY <1>1, <1>6 DEF Orderly, Quiet, Filling, Whole, vars, processVars, treeVars, cleanVars,
                      ageVars
  <1> QED  BY <1>2, <1>3, <1>4, <1>5, <1>6 DEF Next

\* ... and what keeps it, by the promptness of the commit and the cleanup as well.
LEMMA NextInv == Timely /\ Inv /\ [Next]_vars => Inv'
  <1> SUFFICES ASSUME Timely, Inv, [Next]_vars PROVE Inv'
    OBVIOUS
  <1>1. WorkInv'
    BY NextWorkInv DEF Inv, Timely, WorkTimely
  <1> USE DEF Inv, WorkInv
  <1>2. CASE ProcessStep \/ CompleteLost \/ Crash \/ OrphanEnds
    BY <1>1, <1>2, ProcessSafe, ProcessKept
  <1>3. CASE (\E x \in Removers : RemoveStep(x)) \/ RemoveFails
    BY <1>1, <1>3, RemovalRemoves, RemovalSafe, RemovalKept
  <1>4. CASE \E c \in Cleaners : CleanStep(c) \/ CleanAborts(c)
    BY <1>1, <1>4, CleanSafe, RestMovesNothing
  <1>5. CASE LeaseRunsOut \/ TakenOver \/ \E dir \in {"work", "result"} : Age(dir)
    BY <1>1, <1>5, RestSafe, RestMovesNothing
  <1>6. CASE UNCHANGED vars
    BY <1>1, <1>6 DEF Safe, SafeFrom, Kept, Moved, Wanted, MayCommit, Whole, vars, processVars, treeVars,
                      cleanVars, ageVars
  <1> QED  BY <1>2, <1>3, <1>4, <1>5, <1>6 DEF Next

\* Both hold of every reachable state.
LEMMA InvHolds ==
    /\ WorkTimely => (Spec => []WorkInv)
    /\ Timely => (Spec => []Inv)
  <1>1. ASSUME WorkTimely PROVE Spec => []WorkInv
    <2>1. Init => WorkInv
      BY InitInv DEF Inv
    <2>2. WorkInv /\ [Next]_vars => WorkInv'
      BY <1>1, NextWorkInv
    <2> QED  BY <2>1, <2>2, PTL DEF Spec
  <1>2. ASSUME Timely PROVE Spec => []Inv
    <2>1. Init => Inv
      BY InitInv
    <2>2. Inv /\ [Next]_vars => Inv'
      BY <1>2, NextInv
    <2> QED  BY <2>1, <2>2, PTL DEF Spec
  <1> QED  BY <1>1, <1>2

\* A READY song keeps its five whole files, however the removals of the worker and of
\* another's cleanup fall between the steps of Publish: it takes no more than that the
\* worker, its commit and the cleanup's queries are each within the hour.
THEOREM ReadyStaysWhole == Timely => (Spec => []ReadyIsWhole)
  <1> SUFFICES ASSUME Timely PROVE Spec => []ReadyIsWhole
    OBVIOUS
  <1>1. Inv => ReadyIsWhole
    BY DEF Inv, Kept, ReadyIsWhole
  <1> QED  BY <1>1, InvHolds, PTL

\* An output appears with all its files or not at all, whichever step of Publish fails
\* and wherever the process dies: it takes no more than that the worker fills its work
\* directory within the hour, late as the commit or the cleanup may be.
THEOREM OutputAppearsWhole == WorkTimely => (Spec => AppearsWhole)
  <1> SUFFICES ASSUME WorkTimely PROVE Spec => AppearsWhole
    OBVIOUS
  <1>1. WorkInv /\ [Next]_vars => [resultAt # "songs" /\ resultAt' = "songs" => Whole']_vars
    <2> SUFFICES ASSUME WorkInv, Next, resultAt # "songs", resultAt' = "songs" PROVE Whole'
      OBVIOUS
    <2> USE DEF WorkInv, processVars, treeVars, diskVars, otherVars, cleanVars
    <2>1. CASE Publish
      BY <2>1 DEF Publish, Filling, Whole
    <2>2. CASE ProcessStep /\ ~Publish
      BY <2>2 DEF ProcessStep, Prepare, PrepareFails, Extract, CheckClip, Separate, VerifyStem,
           MoveClip, MoveStem, CommandFails, StepFails, StartCleanup, EndCleanup, Settle,
           StartDiscard, EndDiscard, Complete, Record
    <2>3. CASE CompleteLost \/ Crash \/ OrphanEnds
      BY <2>3 DEF CompleteLost, Crash, OrphanEnds
    <2>4. CASE (\E x \in Removers : RemoveStep(x)) \/ RemoveFails
      BY <2>4, RemovalRemoves DEF Removes
    <2>5. CASE LeaseRunsOut \/ TakenOver \/ \E dir \in {"work", "result"} : Age(dir)
      BY <2>5 DEF LeaseRunsOut, TakenOver, Age
    <2>6. CASE \E c \in Cleaners : CleanStep(c) \/ CleanAborts(c)
      BY <2>6 DEF CleanStep, ListJobs, ListSongs, Cutoff, CleanWork, CleanSongs, CleanEnds,
                  CleanAborts
    <2> QED  BY <2>1, <2>2, <2>3, <2>4, <2>5, <2>6 DEF Next
  <1> QED  BY <1>1, InvHolds, PTL DEF Spec, AppearsWhole
=============================================================================
