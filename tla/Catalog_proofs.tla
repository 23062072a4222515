---------------------------- MODULE Catalog_proofs ----------------------------
(***************************************************************************)
(* Theorems about Catalog, for any songs and any number of requests.        *)
(***************************************************************************)
EXTENDS Catalog, TLAPS

(***************************************************************************)
(* An answer may be old, but what it says of a song is never taken back: READY *)
(* and FAILED are final, and playable songs stay playable.                    *)
(***************************************************************************)

\* What was said with f is still so.
StillTrue(f) ==
    \A s \in Songs :
        /\ f[s] = "READY" => status[s] = "READY"
        /\ f[s] = "FAILED" => status[s] = "FAILED"
        /\ f[s] = "PROCESSING" => status[s] # "ABSENT"

PlayableIsReady == \A s \in Songs : s \in playable <=> status[s] = "READY"

Truthful ==
    /\ StillTrue(told)
    /\ \A r \in Requests : StillTrue(before[r]) /\ StillTrue(answer[r])

\* A request is about its songs only, and says nothing before it has looked.
Focused ==
    \A r \in Requests :
        /\ pc[r] # "reply" => answer[r] = Silence
        /\ \A s \in Songs : answer[r][s] # "nothing" => s \in song[r]
        /\ pc[r] # "idle" /\ op[r] # "list" => \E s \in Songs : song[r] = {s}
        /\ pc[r] = "open" => op[r] = "audio" /\ \A s \in song[r] : status[s] = "READY"

CatalogInv ==
    CatalogTypeOK /\ PlayableIsReady /\ Truthful /\ Focused /\ AnswersAgree /\ ReadyPlays

USE CatalogFaultsAssumption

LEMMA SilenceType == Silence \in [Songs -> {"nothing"}]
BY DEF Silence

LEMMA InitCatalogInv == CatalogInit => CatalogInv
BY DEF CatalogInit, Init, CatalogInv, CatalogTypeOK, PlayableIsReady, Truthful, StillTrue,
       Focused, AnswersAgree, ReadyPlays, Silence, Ops, Answers

\* A step of the pipeline takes nothing back.
LEMMA LifecycleKeepsCatalogInv ==
    ASSUME CatalogInv, Next, UNCHANGED requestVars
    PROVE  CatalogInv'
<1>1. /\ \A s \in Songs :
           /\ status[s] \in {"READY", "FAILED"} => status'[s] = status[s]
           /\ status[s] # "ABSENT" => status'[s] # "ABSENT"
      /\ status' \in [Songs -> {"ABSENT", "PROCESSING", "READY", "FAILED"}]
      /\ playable' \subseteq Songs
      /\ PlayableIsReady'
  <2> USE DEF CatalogInv, CatalogTypeOK, PlayableIsReady
  <2>1. CASE \E s \in Songs : Upload(s)
    BY <2>1 DEF Upload
  <2>2. CASE \E s \in Songs : Succeed(s)
    BY <2>2 DEF Succeed
  <2>3. CASE \E S \in SUBSET Songs : GiveUp(S)
    BY <2>3 DEF GiveUp
  <2> QED  BY <2>1, <2>2, <2>3 DEF Next
<1>2. CatalogTypeOK'
  BY <1>1, SMTT(60) DEF requestVars, CatalogInv, CatalogTypeOK
<1>3. Truthful'
  BY <1>1 DEF requestVars, CatalogInv, CatalogTypeOK, Truthful, StillTrue
<1>4. Focused'
  BY <1>1 DEF requestVars, CatalogInv, CatalogTypeOK, Focused
<1>5. AnswersAgree' /\ ReadyPlays'
  BY DEF requestVars, CatalogInv, AnswersAgree, ReadyPlays
<1> QED BY <1>1, <1>2, <1>3, <1>4, <1>5 DEF CatalogInv

LEMMA BeginKeepsCatalogInv ==
    ASSUME CatalogInv, NEW r \in Requests, NEW o \in Ops, NEW S \in SUBSET Songs,
           o # "list" => \E s \in Songs : S = {s},
           Begin(r, o, S)
    PROVE  CatalogInv'
<1>1. CatalogTypeOK'
  BY DEF Begin, vars, CatalogInv, CatalogTypeOK
<1>2. Truthful' /\ PlayableIsReady'
  BY DEF Begin, vars, CatalogInv, CatalogTypeOK, Truthful, StillTrue, PlayableIsReady
<1>3. Focused'
  <2>1. /\ pc' = [pc EXCEPT ![r] = "query"] /\ op' = [op EXCEPT ![r] = o]
        /\ song' = [song EXCEPT ![r] = S]
        /\ UNCHANGED <<answer, status>>
        /\ answer[r] = Silence
    BY DEF Begin, vars, CatalogInv, Focused
  <2>2. \A q \in Requests \ {r} : pc'[q] = pc[q] /\ op'[q] = op[q] /\ song'[q] = song[q]
    BY <2>1 DEF CatalogInv, CatalogTypeOK
  <2>3. pc'[r] = "query" /\ op'[r] = o /\ song'[r] = S
    BY <2>1 DEF CatalogInv, CatalogTypeOK
  <2>4. \A s \in Songs : answer[r][s] = "nothing"
    BY <2>1, SilenceType
  <2> QED BY <2>1, <2>2, <2>3, <2>4 DEF CatalogInv, Focused
<1>4. AnswersAgree' /\ ReadyPlays'
  BY DEF Begin, CatalogInv, CatalogTypeOK, Focused, Silence, AnswersAgree, ReadyPlays
<1> QED BY <1>1, <1>2, <1>3, <1>4 DEF CatalogInv

\* What a handler has read is so, and it replies next; or it has yet to open a file.
LEMMA ReadKeepsCatalogInv ==
    ASSUME CatalogInv, NEW r \in Requests, NEW A \in [Songs -> Answers],
           pc[r] \in {"query", "open"},
           Says(r, A), pc' = [pc EXCEPT ![r] = "reply"],
           \A s \in song[r] :
              /\ A[s] # "unavailable"
              /\ A[s] \in {"PROCESSING", "READY", "FAILED"} /\ A[s] # "PROCESSING"
                   => status[s] = A[s]
              /\ A[s] = "PROCESSING" => status[s] = "PROCESSING" /\ op[r] = "status"
              /\ A[s] = "nothing" => status[s] # "READY"
              /\ A[s] = "missing" => status[s] # "READY"
              /\ A[s] = "missing" /\ op[r] = "status" => status[s] = "ABSENT"
    PROVE  CatalogInv'
<1> DEFINE B == [s \in Songs |-> IF s \in song[r] THEN A[s] ELSE "nothing"]
<1>1. /\ answer' = [answer EXCEPT ![r] = B] /\ B \in [Songs -> Answers]
      /\ UNCHANGED <<status, playable, op, song, told, before, faults>>
  BY DEF Says, vars, Answers
<1>2. CatalogTypeOK'
  BY <1>1 DEF CatalogInv, CatalogTypeOK
<1>3. Truthful' /\ PlayableIsReady'
  BY <1>1 DEF CatalogInv, CatalogTypeOK, Truthful, StillTrue, PlayableIsReady
<1>4. Focused'
  BY <1>1 DEF CatalogInv, CatalogTypeOK, Focused
<1>5. AnswersAgree'
  <2> SUFFICES ASSUME NEW q \in Requests, NEW s \in Songs, answer'[q][s] # "nothing"
               PROVE  /\ before[q][s] = "READY" => answer'[q][s] = "READY"
                      /\ before[q][s] = "FAILED" => answer'[q][s] \in {"FAILED", "missing"}
                      /\ op[q] = "status" /\ before[q][s] # "nothing"
                           => answer'[q][s] # "missing"
    BY <1>1 DEF AnswersAgree
  <2>1. CASE q = r
    <3>1. answer'[r][s] = A[s] /\ s \in song[r] /\ A[s] \in Answers \ {"nothing"}
      BY <2>1, <1>1 DEF CatalogInv, CatalogTypeOK
    <3>2. /\ before[r][s] \in {"PROCESSING", "READY", "FAILED", "nothing"}
          /\ before[r][s] = "READY" => status[s] = "READY"
          /\ before[r][s] = "FAILED" => status[s] = "FAILED"
          /\ before[r][s] = "PROCESSING" => status[s] # "ABSENT"
      BY DEF CatalogInv, CatalogTypeOK, Truthful, StillTrue
    <3> QED BY <2>1, <3>1, <3>2 DEF Answers
  <2>2. CASE q # r
    BY <2>2, <1>1 DEF CatalogInv, CatalogTypeOK, AnswersAgree
  <2> QED BY <2>1, <2>2
<1>6. ReadyPlays'
  BY <1>1 DEF CatalogInv, CatalogTypeOK, ReadyPlays
<1> QED BY <1>2, <1>3, <1>4, <1>5, <1>6 DEF CatalogInv

LEMMA HandlesKeepsCatalogInv ==
    ASSUME CatalogInv, NEW r \in Requests, Handles(r)
    PROVE  CatalogInv'
<1>1. ASSUME ListOrGetSong(r) PROVE CatalogInv'
  <2> DEFINE A == [s \in Songs |-> IF Ready(s) THEN "READY" ELSE "missing"]
  <2>1. A \in [Songs -> Answers] /\ song[r] \subseteq Songs
    BY DEF Answers, CatalogInv, CatalogTypeOK
  <2> QED BY <1>1, <2>1, ReadKeepsCatalogInv DEF ListOrGetSong, Ready
<1>2. ASSUME GetSongStatus(r) PROVE CatalogInv'
  <2> DEFINE A == [s \in Songs |-> IF status[s] = "ABSENT" THEN "missing" ELSE status[s]]
  <2>1. A \in [Songs -> Answers] /\ song[r] \subseteq Songs
    BY DEF Answers, CatalogInv, CatalogTypeOK
  <2>2. \A s \in Songs : status[s] \in {"ABSENT", "PROCESSING", "READY", "FAILED"}
    BY DEF CatalogInv, CatalogTypeOK
  <2> QED BY <1>2, <2>1, <2>2, ReadKeepsCatalogInv DEF GetSongStatus
<1>3. ASSUME GetReadySongAudio(r) PROVE CatalogInv'
  <2>1. PICK s \in Songs :
          /\ song[r] = {s} /\ pc[r] = "query" /\ op[r] = "audio"
          /\ pc' = [pc EXCEPT ![r] = IF Ready(s) THEN "open" ELSE "reply"]
          /\ Says(r, [t \in Songs |-> IF Ready(s) THEN "nothing" ELSE "missing"])
    <3>1. PICK s \in song[r] :
            /\ pc' = [pc EXCEPT ![r] = IF Ready(s) THEN "open" ELSE "reply"]
            /\ Says(r, [t \in Songs |-> IF Ready(s) THEN "nothing" ELSE "missing"])
      BY <1>3 DEF GetReadySongAudio
    <3>2. /\ pc[r] = "query" /\ op[r] = "audio"
          /\ \E t \in Songs : song[r] = {t}
      BY <1>3 DEF GetReadySongAudio, CatalogInv, Focused
    <3> QED BY <3>1, <3>2
  <2>2. CASE ~Ready(s)
    <3> DEFINE A == [t \in Songs |-> "missing"]
    <3>1. A \in [Songs -> Answers]
      BY DEF Answers
    <3> QED BY <2>1, <2>2, <3>1, ReadKeepsCatalogInv DEF Ready
  <2>3. CASE Ready(s)
    <3>1. /\ pc' = [pc EXCEPT ![r] = "open"] /\ answer' = answer
          /\ UNCHANGED <<status, playable, op, song, told, before, faults>>
      <4>1. answer[r] = [t \in Songs |-> "nothing"]
        BY <2>1 DEF CatalogInv, Focused, Silence
      <4>2. answer' = [answer EXCEPT ![r] = [t \in Songs |-> "nothing"]]
        BY <2>1, <2>3 DEF Says
      <4> QED BY <2>1, <2>3, <4>1, <4>2 DEF Says, vars, CatalogInv, CatalogTypeOK
    <3>2. CatalogTypeOK' /\ Truthful' /\ PlayableIsReady'
      BY <3>1 DEF CatalogInv, CatalogTypeOK, Truthful, StillTrue, PlayableIsReady
    <3>3. Focused'
      BY <2>1, <2>3, <3>1 DEF CatalogInv, CatalogTypeOK, Focused, Ready, Silence
    <3>4. AnswersAgree' /\ ReadyPlays'
      BY <3>1 DEF CatalogInv, AnswersAgree, ReadyPlays
    <3> QED BY <3>2, <3>3, <3>4 DEF CatalogInv
  <2> QED BY <2>2, <2>3
<1>4. ASSUME OpenAudio(r) PROVE CatalogInv'
  <2> DEFINE A == [s \in Songs |-> IF s \in playable THEN "READY" ELSE "unavailable"]
  <2>1. A \in [Songs -> Answers] /\ song[r] \subseteq Songs
    BY DEF Answers, CatalogInv, CatalogTypeOK
  <2>2. \A s \in song[r] : s \in playable /\ status[s] = "READY"
    BY <1>4, <2>1 DEF OpenAudio, CatalogInv, Focused, PlayableIsReady
  <2> QED BY <1>4, <2>1, <2>2, ReadKeepsCatalogInv DEF OpenAudio
<1> QED BY <1>1, <1>2, <1>3, <1>4 DEF Handles

LEMMA FailsKeepsCatalogInv ==
    ASSUME CatalogInv, NEW r \in Requests, Fails(r)
    PROVE  CatalogInv'
<1>1. CatalogTypeOK' /\ Truthful' /\ PlayableIsReady'
  BY DEF Fails, vars, CatalogInv, CatalogTypeOK, Truthful, StillTrue, PlayableIsReady
<1>2. Focused' /\ AnswersAgree' /\ ReadyPlays'
  BY DEF Fails, vars, CatalogInv, CatalogTypeOK, Focused, AnswersAgree, ReadyPlays
<1> QED BY <1>1, <1>2 DEF CatalogInv

LEMMA ReplyKeepsCatalogInv ==
    ASSUME CatalogInv, NEW r \in Requests, Reply(r)
    PROVE  CatalogInv'
<1>1. CatalogTypeOK'
  BY SilenceType DEF Reply, vars, CatalogInv, CatalogTypeOK, Answers, Ops
<1>2. Truthful' /\ PlayableIsReady'
  BY SilenceType
     DEF Reply, vars, CatalogInv, CatalogTypeOK, Truthful, StillTrue, PlayableIsReady
<1>3. Focused' /\ AnswersAgree' /\ ReadyPlays'
  BY SilenceType
     DEF Reply, vars, CatalogInv, CatalogTypeOK, Focused, AnswersAgree, ReadyPlays
<1> QED BY <1>1, <1>2, <1>3 DEF CatalogInv

LEMMA CatalogNextKeepsInv == CatalogInv /\ [CatalogNext]_catalogVars => CatalogInv'
<1> SUFFICES ASSUME CatalogInv, [CatalogNext]_catalogVars PROVE CatalogInv'
  OBVIOUS
<1>1. ASSUME NEW r \in Requests, BeginList(r) PROVE CatalogInv'
  BY <1>1, BeginKeepsCatalogInv DEF BeginList, Ops
<1>2. ASSUME NEW r \in Requests, NEW s \in Songs, BeginSong(r, s) PROVE CatalogInv'
  BY <1>2, BeginKeepsCatalogInv DEF BeginSong, Ops
<1>3. CASE UNCHANGED catalogVars
  BY <1>3 DEF catalogVars, vars, requestVars, CatalogInv, CatalogTypeOK, PlayableIsReady,
              Truthful, StillTrue, Focused, AnswersAgree, ReadyPlays
<1> QED BY <1>1, <1>2, <1>3, LifecycleKeepsCatalogInv, HandlesKeepsCatalogInv,
           FailsKeepsCatalogInv, ReplyKeepsCatalogInv DEF CatalogNext

LEMMA CatalogInvariance == CatalogSpec => []CatalogInv
BY InitCatalogInv, CatalogNextKeepsInv, PTL DEF CatalogSpec

\* The catalog keeps its types.
THEOREM CatalogTypes == CatalogSpec => []CatalogTypeOK
<1>1. CatalogInv => CatalogTypeOK
  BY DEF CatalogInv
<1> QED BY <1>1, CatalogInvariance, PTL

\* What clients know of a song is never contradicted by a request that begins later.
THEOREM CatalogAnswersAgree == CatalogSpec => []AnswersAgree
<1>1. CatalogInv => AnswersAgree
  BY DEF CatalogInv
<1> QED BY <1>1, CatalogInvariance, PTL

\* The file of a song that was found READY is there when it is opened.
THEOREM CatalogReadyPlays == CatalogSpec => []ReadyPlays
<1>1. CatalogInv => ReadyPlays
  BY DEF CatalogInv
<1> QED BY <1>1, CatalogInvariance, PTL
=============================================================================
