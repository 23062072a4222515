------------------------------- MODULE Catalog -------------------------------
(***************************************************************************)
(* What clients learn of songs (internal/server/songs.go, song_audio.go): the *)
(* list, a song, its status and its audio, while the pipeline goes on as      *)
(* SongLifecycle promises.  A handler reads the table once; the one that        *)
(* serves audio opens the file named in the row only afterwards; and an answer  *)
(* may reach its client long after what it says was read.                     *)
(***************************************************************************)
EXTENDS SongLifecycle, Naturals

CONSTANTS
    Requests,      \* the handlers that may run at a time
    MaxFaults      \* bound on the requests that fail

ASSUME CatalogFaultsAssumption == MaxFaults \in Nat

Ops == {"list", "get", "status", "audio"}

\* What a request says of a song: a status; "missing" when it is not in the list or
\* the answer is 404; "unavailable" when its file cannot be opened; or nothing.
Answers == {"PROCESSING", "READY", "FAILED", "missing", "unavailable", "nothing"}
Silence == [s \in Songs |-> "nothing"]

VARIABLES
    pc,            \* of a request: "idle", "query", "open" or "reply"
    op, song,      \* what it asks, of which songs
    answer,        \* what it is going to answer
    told,          \* what clients know: a status some answer gave, or "nothing"
    before,        \* told of the songs that a request asks of, when it began
    faults

requestVars == <<pc, op, song, answer, told, before, faults>>
catalogVars == <<vars, requestVars>>

CatalogInit ==
    /\ Init
    /\ pc = [r \in Requests |-> "idle"]
    /\ op = [r \in Requests |-> "list"]
    /\ song = [r \in Requests |-> {}]
    /\ answer = [r \in Requests |-> Silence]
    /\ told = Silence
    /\ before = [r \in Requests |-> Silence]
    /\ faults = 0

-----------------------------------------------------------------------------

\* GET /songs asks about them all, the others about the {id} of their path.
Begin(r, o, S) ==
    /\ pc[r] = "idle"
    /\ pc' = [pc EXCEPT ![r] = "query"]
    /\ op' = [op EXCEPT ![r] = o]
    /\ song' = [song EXCEPT ![r] = S]
    /\ before' = [before EXCEPT ![r] = [s \in Songs |-> IF s \in S THEN told[s] ELSE "nothing"]]
    /\ UNCHANGED <<vars, answer, told, faults>>

BeginList(r) == Begin(r, "list", Songs)
BeginSong(r, s) == \E o \in Ops \ {"list"} : Begin(r, o, {s})

Says(r, A) ==
    /\ answer' = [answer EXCEPT ![r] = [s \in Songs |->
         IF s \in song[r] THEN A[s] ELSE "nothing"]]
    /\ UNCHANGED <<vars, op, song, told, before, faults>>

\* Mutant of Ready: any song will do.
ReadyAny(s) == status[s] # "ABSENT"

\* The condition of ListSongs, GetSong and GetReadySongAudio.
Ready(s) == status[s] = "READY"

ListOrGetSong(r) ==
    /\ pc[r] = "query" /\ op[r] \in {"list", "get"}
    /\ Says(r, [s \in Songs |-> IF Ready(s) THEN "READY" ELSE "missing"])
    /\ pc' = [pc EXCEPT ![r] = "reply"]

\* Mutant of GetSongStatus: the songs that failed are not found.
GetSongStatusUnfailed(r) ==
    /\ pc[r] = "query" /\ op[r] = "status"
    /\ Says(r, [s \in Songs |->
         IF status[s] \in {"ABSENT", "FAILED"} THEN "missing" ELSE status[s]])
    /\ pc' = [pc EXCEPT ![r] = "reply"]

\* Mutant of GetSongStatus: that no row was found is not looked at.
GetSongStatusUnchecked(r) ==
    /\ pc[r] = "query" /\ op[r] = "status"
    /\ Says(r, status)
    /\ pc' = [pc EXCEPT ![r] = "reply"]

GetSongStatus(r) ==
    /\ pc[r] = "query" /\ op[r] = "status"
    /\ Says(r, [s \in Songs |-> IF status[s] = "ABSENT" THEN "missing" ELSE status[s]])
    /\ pc' = [pc EXCEPT ![r] = "reply"]

GetReadySongAudio(r) ==
    /\ pc[r] = "query" /\ op[r] = "audio"
    /\ \E s \in song[r] :
         /\ pc' = [pc EXCEPT ![r] = IF Ready(s) THEN "open" ELSE "reply"]
         /\ Says(r, [t \in Songs |-> IF Ready(s) THEN "nothing" ELSE "missing"])

\* media.FromEnv().OpenAudio, on the path of the row that was read, finds a file there
\* or not.
OpenAudio(r) ==
    /\ pc[r] = "open"
    /\ Says(r, [s \in Songs |-> IF s \in playable THEN "READY" ELSE "unavailable"])
    /\ pc' = [pc EXCEPT ![r] = "reply"]

\* The database fails (500), requireAuth refuses (401), the id or the part is not
\* one, or a file that is there cannot be opened (500): nothing is learned of the song.
Fails(r) ==
    /\ pc[r] \in {"query", "open"} /\ faults < MaxFaults
    /\ faults' = faults + 1
    /\ pc' = [pc EXCEPT ![r] = "reply"]
    /\ UNCHANGED <<vars, op, song, answer, told, before>>

\* The client has the answer; a status it knows of a song is not forgotten for less.
Reply(r) ==
    /\ pc[r] = "reply"
    /\ told' = [s \in Songs |->
         IF answer[r][s] \in {"READY", "FAILED"} THEN answer[r][s]
         ELSE IF answer[r][s] = "PROCESSING" /\ told[s] = "nothing" THEN "PROCESSING"
         ELSE told[s]]
    /\ pc' = [pc EXCEPT ![r] = "idle"]
    /\ op' = [op EXCEPT ![r] = "list"]
    /\ song' = [song EXCEPT ![r] = {}]
    /\ answer' = [answer EXCEPT ![r] = Silence]
    /\ before' = [before EXCEPT ![r] = Silence]
    /\ UNCHANGED <<vars, faults>>

Handles(r) ==
    ListOrGetSong(r) \/ GetSongStatus(r) \/ GetReadySongAudio(r) \/ OpenAudio(r)

CatalogNext ==
    \/ Next /\ UNCHANGED requestVars
    \/ \E r \in Requests :
        \/ BeginList(r) \/ Handles(r) \/ Fails(r) \/ Reply(r)
        \/ \E s \in Songs : BeginSong(r, s)

CatalogSpec == CatalogInit /\ [][CatalogNext]_catalogVars

\* Handlers return, and a client asks for the status again and again.
Polls(s) == \E r \in Requests : Begin(r, "status", {s})

CatalogFairSpec ==
    /\ CatalogSpec
    /\ EverySongSettles
    /\ \A r \in Requests : WF_catalogVars(Handles(r)) /\ WF_catalogVars(Reply(r))
    /\ \A s \in Songs : SF_catalogVars(Polls(s))

-----------------------------------------------------------------------------

\* The type invariant of the catalog.
CatalogTypeOK ==
    /\ status \in [Songs -> {"ABSENT", "PROCESSING", "READY", "FAILED"}]
    /\ playable \subseteq Songs
    /\ pc \in [Requests -> {"idle", "query", "open", "reply"}]
    /\ op \in [Requests -> Ops]
    /\ song \in [Requests -> SUBSET Songs]
    /\ answer \in [Requests -> [Songs -> Answers]]
    /\ told \in [Songs -> {"PROCESSING", "READY", "FAILED", "nothing"}]
    /\ before \in [Requests -> [Songs -> {"PROCESSING", "READY", "FAILED", "nothing"}]]
    /\ faults \in Nat

\* Clients never see time run backwards: a request that began when some client
\* knew a song to be READY finds it READY, whichever of the four endpoints it asks,
\* one that began when it was known to have FAILED never finds it READY, and the
\* status of a song that was once reported is never 404.
AnswersAgree ==
    \A r \in Requests, s \in Songs : answer[r][s] # "nothing" =>
        /\ before[r][s] = "READY" => answer[r][s] = "READY"
        /\ before[r][s] = "FAILED" => answer[r][s] \in {"FAILED", "missing"}
        /\ op[r] = "status" /\ before[r][s] # "nothing" => answer[r][s] # "missing"

\* The row that was READY names a file that is still there when the handler opens it.
ReadyPlays ==
    \A r \in Requests, s \in Songs : answer[r][s] # "unavailable"

\* A client that keeps asking for the status of its song learns how it ended.
OutcomeLearned ==
    \A s \in Songs : status[s] = "PROCESSING" ~> told[s] \in {"READY", "FAILED"}
=============================================================================
