-------------------------- MODULE RequestLog_proofs --------------------------
(***************************************************************************)
(* Theorems about RequestLog, for any requests, statuses and number of calls. *)
(***************************************************************************)
EXTENDS RequestLog, FiniteSetTheorems, TLAPS

(***************************************************************************)
(* The statusWriter's note and what net/http has committed are never apart.    *)
(***************************************************************************)
InStep ==
    \A r \in Requests :
        /\ status[r] = wire[r]
        /\ pc[r] = "idle" => status[r] = None
        /\ pc[r] # "done" => logged[r] = None

LogInv == TypeOK /\ InStep /\ LogsWhatWasSent /\ CountsWhatWasSent

USE StatusesAssumption, RequestsAssumption, CallsAssumption

LEMMA InitLogInv == Init => LogInv
<1> SUFFICES ASSUME Init PROVE LogInv
  OBVIOUS
<1>1. TypeOK /\ InStep /\ LogsWhatWasSent
  BY DEF Init, TypeOK, InStep, LogsWhatWasSent
<1>2. CountsWhatWasSent
  <2>1. \A c \in Final : {r \in Requests \ Scrapes : logged[r] # None /\ Outcome(r) = c} = {}
    BY DEF Init
  <2> QED BY <2>1, FS_EmptySet DEF Init, CountsWhatWasSent
<1> QED BY <1>1, <1>2 DEF LogInv

\* What leaves the log and the counters alone, and the committed status of what is
\* logged, keeps the counts.
LEMMA CountsKept ==
    ASSUME InStep, CountsWhatWasSent, UNCHANGED <<logged, counted>>,
           \A r \in Requests : wire'[r] = wire[r] \/ pc[r] # "done"
    PROVE  CountsWhatWasSent'
<1> SUFFICES ASSUME NEW c \in Final
             PROVE  {r \in Requests \ Scrapes : logged'[r] # None /\ Outcome(r)' = c}
                      = {r \in Requests \ Scrapes : logged[r] # None /\ Outcome(r) = c}
  BY DEF CountsWhatWasSent
<1> QED BY DEF InStep, Outcome

LEMMA CallsKeepLogInv ==
    ASSUME LogInv, NEW r \in Requests, WriteHeader(r) \/ WriteBody(r)
    PROVE  LogInv'
<1>1. CASE WriteHeader(r)
  <2>1. TypeOK'
    BY <1>1 DEF WriteHeader, Calls, Commit, Notes, LogInv, TypeOK
  <2>2. InStep' /\ LogsWhatWasSent'
    BY <1>1 DEF WriteHeader, Calls, Commit, Notes, LogInv, TypeOK, InStep, LogsWhatWasSent
  <2>3. CountsWhatWasSent'
    BY <1>1, CountsKept DEF WriteHeader, Calls, Commit, LogInv, TypeOK
  <2> QED BY <2>1, <2>2, <2>3 DEF LogInv
<1>2. CASE WriteBody(r)
  <2>1. TypeOK'
    BY <1>2 DEF WriteBody, Calls, Commit, LogInv, TypeOK
  <2>2. InStep' /\ LogsWhatWasSent'
    BY <1>2 DEF WriteBody, Calls, Commit, LogInv, TypeOK, InStep, LogsWhatWasSent
  <2>3. CountsWhatWasSent'
    BY <1>2, CountsKept DEF WriteBody, Calls, Commit, LogInv, TypeOK
  <2> QED BY <2>1, <2>2, <2>3 DEF LogInv
<1> QED BY <1>1, <1>2

LEMMA ServeReturnPanicKeepLogInv ==
    ASSUME LogInv, NEW r \in Requests, Serve(r) \/ Return(r) \/ Panic(r)
    PROVE  LogInv'
<1>1. TypeOK'
  BY DEF Serve, Return, Panic, LogInv, TypeOK
<1>2. InStep' /\ LogsWhatWasSent'
  BY DEF Serve, Return, Panic, LogInv, TypeOK, InStep, LogsWhatWasSent, Statuses
<1>3. CountsWhatWasSent'
  BY CountsKept DEF Serve, Return, Panic, LogInv
<1> QED BY <1>1, <1>2, <1>3 DEF LogInv

LEMMA ReportKeepsLogInv ==
    ASSUME LogInv, NEW r \in Requests, Report(r)
    PROVE  LogInv'
<1>1. Reported(r) \in Final /\ logged[r] = None
  BY DEF Report, Count, Reported, LogInv, TypeOK, InStep
<1>2. TypeOK'
  BY <1>1 DEF Report, Count, LogInv, TypeOK
<1>3. InStep' /\ LogsWhatWasSent'
  BY <1>1 DEF Report, Reported, LogInv, TypeOK, InStep, LogsWhatWasSent, Statuses
<1>4. CountsWhatWasSent'
  <2> DEFINE L(c) == {q \in Requests \ Scrapes : logged[q] # None /\ Outcome(q) = c}
             M(c) == {q \in Requests \ Scrapes : logged'[q] # None /\ Outcome(q)' = c}
  <2>1. \A c \in Final : IsFiniteSet(L(c)) /\ counted[c] = Cardinality(L(c))
    BY FS_Subset DEF LogInv, CountsWhatWasSent
  <2>2. /\ logged'[r] # None /\ Outcome(r)' = Reported(r)
        /\ \A q \in Requests \ {r} : logged'[q] = logged[q] /\ Outcome(q)' = Outcome(q)
    BY <1>1 DEF Report, Reported, Outcome, LogInv, TypeOK, InStep, Statuses
  <2> SUFFICES ASSUME NEW c \in Final PROVE counted'[c] = Cardinality(M(c))
    BY DEF CountsWhatWasSent
  <2>3. CASE r \notin Scrapes /\ c = Reported(r)
    <3>1. M(c) = L(c) \cup {r} /\ r \notin L(c)
      BY <2>2, <2>3, <1>1
    <3>2. Cardinality(M(c)) = Cardinality(L(c)) + 1
      BY <2>1, <3>1, FS_AddElement
    <3> QED BY <2>1, <2>3, <3>2 DEF Report, Count, LogInv, TypeOK
  <2>4. CASE r \in Scrapes \/ c # Reported(r)
    <3>1. M(c) = L(c)
      BY <2>2, <2>4, <1>1
    <3>2. counted'[c] = counted[c]
      BY <2>4, <1>1 DEF Report, Count, LogInv, TypeOK
    <3> QED BY <2>1, <3>1, <3>2
  <2> QED BY <2>3, <2>4
<1> QED BY <1>2, <1>3, <1>4 DEF LogInv

LEMMA NextKeepsLogInv == LogInv /\ [Next]_vars => LogInv'
<1>1. LogInv /\ UNCHANGED vars => LogInv'
  BY CountsKept DEF vars, LogInv, TypeOK, InStep, LogsWhatWasSent
<1> QED BY <1>1, CallsKeepLogInv, ServeReturnPanicKeepLogInv, ReportKeepsLogInv DEF Next

LEMMA LogInvariance == Spec => []LogInv
BY InitLogInv, NextKeepsLogInv, PTL DEF Spec

\* The log keeps its types.
THEOREM LogTypeOK == Spec => []TypeOK
<1>1. LogInv => TypeOK
  BY DEF LogInv
<1> QED BY <1>1, LogInvariance, PTL

\* A status in the log is the one that the client got, whatever the handler did, and a
\* connection is cut exactly when the line says that the handler panicked.
THEOREM LogIsTrue == Spec => []LogsWhatWasSent
<1>1. LogInv => LogsWhatWasSent
  BY DEF LogInv
<1> QED BY <1>1, LogInvariance, PTL

\* The counter of every status is the number of the logged requests, scrapes left out,
\* that ended with it.
THEOREM LogIsCounted == Spec => []CountsWhatWasSent
<1>1. LogInv => CountsWhatWasSent
  BY DEF LogInv
<1> QED BY <1>1, LogInvariance, PTL
=============================================================================
