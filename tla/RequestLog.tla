------------------------------ MODULE RequestLog ------------------------------
(***************************************************************************)
(* Request logging and metrics (internal/server/logging.go): logRequests      *)
(* serves a request through a statusWriter, which notes the status that goes  *)
(* out, and logs and counts it when the handler returns or panics.            *)
(*                                                                         *)
(* A handler may use its writer in any way: no call at all, a body without a    *)
(* status, interim statuses, a second status after the first or after the body, *)
(* a panic at any point.  net/http is external: the first status that is not     *)
(* an interim one commits the response, a body commits 200, and later ones are   *)
(* ignored.                                                                *)
(***************************************************************************)
EXTENDS Naturals, FiniteSets

CONSTANTS
    Requests,
    Scrapes,       \* those of GET /metrics
    Interim,       \* 100 to 199, without 101
    Final,         \* the other statuses
    OK,            \* 200
    ServerError,   \* 500
    None,          \* 0
    MaxCalls       \* bound on a handler's calls of its writer

Statuses == Interim \cup Final

ASSUME StatusesAssumption ==
    /\ OK \in Final /\ ServerError \in Final /\ OK # ServerError
    /\ Interim \cap Final = {} /\ None \notin Statuses
    /\ "panicked" \notin Statuses /\ None # "panicked"
    /\ "aborted" \notin Statuses /\ None # "aborted"
ASSUME RequestsAssumption == IsFiniteSet(Requests) /\ Scrapes \subseteq Requests
ASSUME CallsAssumption == MaxCalls \in Nat

VARIABLES
    pc,        \* "idle", "serving", "returned", "panicked" or "done"
    status,    \* of the statusWriter
    wire,      \* the status that net/http has committed
    answer,    \* what net/http sent in the end: a status, or "aborted"
    logged,    \* the request's line in the log: a status, "panicked", or None
    calls,
    counted    \* apiRequests, over the routes

vars == <<pc, status, wire, answer, logged, calls, counted>>

Init ==
    /\ pc = [r \in Requests |-> "idle"]
    /\ status = [r \in Requests |-> None]
    /\ wire = [r \in Requests |-> None]
    /\ answer = [r \in Requests |-> None]
    /\ logged = [r \in Requests |-> None]
    /\ calls = [r \in Requests |-> 0]
    /\ counted = [c \in Final |-> 0]

\* The request ID needs random bytes; without them it is answered outside the log.
Serve(r) ==
    /\ pc[r] = "idle"
    /\ \/ /\ pc' = [pc EXCEPT ![r] = "serving"]
          /\ UNCHANGED answer
       \/ /\ pc' = [pc EXCEPT ![r] = "done"]
          /\ answer' = [answer EXCEPT ![r] = ServerError]
    /\ UNCHANGED <<status, wire, logged, calls, counted>>

Calls(r) ==
    /\ pc[r] = "serving" /\ calls[r] < MaxCalls
    /\ calls' = [calls EXCEPT ![r] = @ + 1]
    /\ UNCHANGED <<pc, answer, logged, counted>>

\* net/http: only the first final status counts.
Commit(r, c) == wire' = [wire EXCEPT ![r] = IF @ = None THEN c ELSE @]

\* Mutant of Notes: an interim status is noted like any other.
NotesInterim(r, c) == status[r] = None

\* statusWriter.WriteHeader takes the status down.
Notes(r, c) == c \in Final /\ status[r] = None

WriteHeader(r) ==
    /\ Calls(r)
    /\ \E c \in Statuses :
         /\ status' = IF Notes(r, c) THEN [status EXCEPT ![r] = c] ELSE status
         /\ IF Notes(r, c) /\ c \in Final THEN Commit(r, c) ELSE UNCHANGED wire

\* Write and ReadFrom.
WriteBody(r) ==
    /\ Calls(r)
    /\ status' = IF status[r] = None THEN [status EXCEPT ![r] = OK] ELSE status
    /\ Commit(r, IF status[r] = None THEN OK ELSE status[r])

Return(r) ==
    /\ pc[r] = "serving"
    /\ pc' = [pc EXCEPT ![r] = "returned"]
    /\ UNCHANGED <<status, wire, answer, logged, calls, counted>>

Panic(r) ==
    /\ pc[r] = "serving"
    /\ pc' = [pc EXCEPT ![r] = "panicked"]
    /\ UNCHANGED <<status, wire, answer, logged, calls, counted>>

\* The status that the deferred function works out, for the metric and the log.
Reported(r) ==
    IF status[r] # None THEN status[r] ELSE IF pc[r] = "panicked" THEN ServerError ELSE OK

\* Mutant of Count: a panic goes past the counter.
CountReturned(r) ==
    counted' = IF r \in Scrapes \/ pc[r] = "panicked" THEN counted
               ELSE [counted EXCEPT ![Reported(r)] = @ + 1]

\* The scrapes are left out.
Count(r) ==
    counted' = IF r \in Scrapes THEN counted ELSE [counted EXCEPT ![Reported(r)] = @ + 1]

\* It counts the request and logs it.  The line of a panic names no status, and the
\* panic goes on as ErrAbortHandler: net/http cuts the connection.  Otherwise
\* net/http sends what was committed, or 200.
Report(r) ==
    /\ pc[r] \in {"returned", "panicked"}
    /\ logged' = [logged EXCEPT ![r] = IF pc[r] = "panicked" THEN "panicked" ELSE Reported(r)]
    /\ Count(r)
    /\ answer' = [answer EXCEPT ![r] =
         IF pc[r] = "panicked" THEN "aborted" ELSE IF wire[r] = None THEN OK ELSE wire[r]]
    /\ pc' = [pc EXCEPT ![r] = "done"]
    /\ UNCHANGED <<status, wire, calls>>

Next ==
    \E r \in Requests :
        Serve(r) \/ WriteHeader(r) \/ WriteBody(r) \/ Return(r) \/ Panic(r) \/ Report(r)

Spec == Init /\ [][Next]_vars

-----------------------------------------------------------------------------

\* The type invariant of the log.
TypeOK ==
    /\ pc \in [Requests -> {"idle", "serving", "returned", "panicked", "done"}]
    /\ status \in [Requests -> Final \cup {None}]
    /\ wire \in [Requests -> Final \cup {None}]
    /\ answer \in [Requests -> Final \cup {None, "aborted"}]
    /\ logged \in [Requests -> Final \cup {None, "panicked"}]
    /\ calls \in [Requests -> Nat]
    /\ counted \in [Final -> Nat]

\* A line with a status is about a request whose client got that status, however the
\* handler used its writer: a request whose connection was cut is never logged as
\* served, and its line says that the handler panicked.
LogsWhatWasSent ==
    \A r \in Requests :
        /\ logged[r] \notin {None, "panicked"} => answer[r] = logged[r]
        /\ logged[r] = "panicked" <=> answer[r] = "aborted"

\* What became of a request with a line in the log: the status that net/http had
\* committed, though the connection may have been cut after it, or else what
\* stands for none, a 500 for a panic and net/http's 200 for a return.
Outcome(r) ==
    IF wire[r] # None THEN wire[r] ELSE IF logged[r] = "panicked" THEN ServerError ELSE OK

\* The counter of a status is the number of logged requests that ended with it, the
\* ones that panicked too and at any point, and no scrape is among them.
CountsWhatWasSent ==
    \A c \in Final :
        counted[c] = Cardinality({r \in Requests \ Scrapes : logged[r] # None /\ Outcome(r) = c})
=============================================================================
