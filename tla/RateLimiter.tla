------------------------------ MODULE RateLimiter ------------------------------
(***************************************************************************)
(* The limit on logins and registrations per client address                  *)
(* (internal/server/ratelimit.go).  A request reads the clock, takes the lock, *)
(* finds or makes its address's visitor and leaves its time in it, releases     *)
(* the lock and only then asks the visitor's bucket.  Under the lock, at most   *)
(* once per SweepEvery, every visitor idle for longer than Idle is forgotten.  *)
(*                                                                         *)
(* Between its steps a request may wait: for the lock, whose holder then writes *)
(* a later time that the waiting request overwrites with its older one, and    *)
(* after it, when its visitor may be swept under it.  Stall bounds that wait;   *)
(* the handler behind the limit, which hashes passwords, is not part of it.    *)
(*                                                                         *)
(* A bucket (golang.org/x/time/rate) is kept as the time at which it is full    *)
(* again.                                                                   *)
(***************************************************************************)
EXTENDS Naturals

CONSTANTS
    Addresses,     \* client addresses, without their ports
    NoAddress,
    Requests,      \* the handlers that may run at a time
    Visitors,      \* the visitor objects that may be in memory at a time
    NoVisitor,
    Period,        \* ticks per token
    Burst,
    Idle,          \* ten minutes
    SweepEvery,    \* a minute
    Stall,         \* bound on the time from a request's time.Now() to its Allow()
    MaxClock       \* bound on the clock

ASSUME NoAddressAssumption == NoAddress \notin Addresses
ASSUME NoVisitorAssumption == NoVisitor \notin Visitors
ASSUME TimesAssumption ==
    /\ Period \in Nat \ {0} /\ Burst \in Nat \ {0}
    /\ Idle \in Nat /\ SweepEvery \in Nat /\ Stall \in Nat /\ MaxClock \in Nat

Capacity == Burst * Period

\* A visitor that is swept had a full bucket and nobody about to use it: login
\* 5 * 12 s, registration 3 * 60 s, against ten minutes.
ASSUME IdleAssumption == Capacity \in Nat /\ Capacity + 2 * Stall <= Idle

VARIABLES
    clock,
    visitors,      \* the map from addresses to visitors
    lastSeen,      \* of a visitor
    fullAt,        \* when its bucket is full again
    nextSweep,
    pc,            \* of a request: "idle", "timed" or "allow"
    source, now, holds,      \* its address, its time.Now(), its v
    answer,        \* what the last one was told: "admitted" or "refused"
    spent          \* what was ever taken from an address's buckets, in ticks

requestVars == <<pc, source, now, holds, answer>>
vars == <<clock, visitors, lastSeen, fullAt, nextSweep, requestVars, spent>>

\* newIPLimiter: nextSweep is the zero time, so the first request sweeps.
Init ==
    /\ clock = 1
    /\ visitors = [a \in Addresses |-> NoVisitor]
    /\ lastSeen = [v \in Visitors |-> 0]
    /\ fullAt = [v \in Visitors |-> 0]
    /\ nextSweep = 0
    /\ pc = [r \in Requests |-> "idle"]
    /\ source = [r \in Requests |-> NoAddress]
    /\ now = [r \in Requests |-> 0]
    /\ holds = [r \in Requests |-> NoVisitor]
    /\ answer = [r \in Requests |-> "none"]
    /\ spent = [a \in Addresses |-> 0]

\* now := time.Now(), before the lock.
Arrive(r) ==
    /\ pc[r] = "idle"
    /\ \E a \in Addresses : source' = [source EXCEPT ![r] = a]
    /\ now' = [now EXCEPT ![r] = clock]
    /\ pc' = [pc EXCEPT ![r] = "timed"]
    /\ answer' = [answer EXCEPT ![r] = "none"]
    /\ UNCHANGED <<clock, visitors, lastSeen, fullAt, nextSweep, holds, spent>>

SweepDue(r) == now[r] > nextSweep

\* Mutant of Stale: every visitor is swept.
StaleAny(r, a) == visitors[a] # NoVisitor

\* Mutant of Stale: no visitor is swept.
StaleNone(r, a) == FALSE

Stale(r, a) == visitors[a] # NoVisitor /\ now[r] > lastSeen[visitors[a]] + Idle

\* A visitor that neither the map nor a request refers to.
Free(v) ==
    /\ \A a \in Addresses : visitors[a] # v
    /\ \A q \in Requests : holds[q] # v

\* The map after the sweep, if one is due.
Swept(r) ==
    [a \in Addresses |-> IF SweepDue(r) /\ Stale(r, a) THEN NoVisitor ELSE visitors[a]]

\* The section under the lock.
Enter(r) ==
    LET a == source[r] IN
    /\ pc[r] = "timed"
    /\ \E v \in Visitors :
         /\ visitors' = [Swept(r) EXCEPT ![a] = v]
         /\ lastSeen' = [lastSeen EXCEPT ![v] = now[r]]
         /\ holds' = [holds EXCEPT ![r] = v]
         /\ \/ Swept(r)[a] = v /\ UNCHANGED fullAt
            \/ /\ Swept(r)[a] = NoVisitor /\ Free(v)
               /\ fullAt' = [fullAt EXCEPT ![v] = clock]
    /\ nextSweep' = IF SweepDue(r) THEN now[r] + SweepEvery ELSE nextSweep
    /\ pc' = [pc EXCEPT ![r] = "allow"]
    /\ UNCHANGED <<clock, source, now, answer, spent>>

\* What a bucket lacks now, in ticks.
Missing(v) == IF fullAt[v] > clock THEN fullAt[v] - clock ELSE 0

Available(v) == Capacity - Missing(v)

\* wrap goes on to the handler or to the error.
Done(r) ==
    /\ pc' = [pc EXCEPT ![r] = "idle"]
    /\ source' = [source EXCEPT ![r] = NoAddress]
    /\ now' = [now EXCEPT ![r] = 0]
    /\ holds' = [holds EXCEPT ![r] = NoVisitor]

\* Mutant of Admit: Reserve instead of Allow, a token that the bucket may not have yet.
AdmitReserved(r) ==
    LET v == holds[r] IN
    /\ pc[r] = "allow"
    /\ fullAt' = [fullAt EXCEPT ![v] = clock + Missing(v) + Period]
    /\ answer' = [answer EXCEPT ![r] = "admitted"]
    /\ spent' = [spent EXCEPT ![source[r]] = @ + Period]
    /\ Done(r)
    /\ UNCHANGED <<clock, visitors, lastSeen, nextSweep>>

\* v.limiter.Allow() finds a token, and the handler runs.
Admit(r) ==
    LET v == holds[r] IN
    /\ pc[r] = "allow"
    /\ Available(v) >= Period
    /\ fullAt' = [fullAt EXCEPT ![v] = clock + Missing(v) + Period]
    /\ answer' = [answer EXCEPT ![r] = "admitted"]
    /\ spent' = [spent EXCEPT ![source[r]] = @ + Period]
    /\ Done(r)
    /\ UNCHANGED <<clock, visitors, lastSeen, nextSweep>>

\* It finds none: 429.
Refuse(r) ==
    /\ pc[r] = "allow"
    /\ Available(holds[r]) < Period
    /\ answer' = [answer EXCEPT ![r] = "refused"]
    /\ Done(r)
    /\ UNCHANGED <<clock, visitors, lastSeen, fullAt, nextSweep, spent>>

Tick ==
    /\ clock < MaxClock
    /\ \A r \in Requests : pc[r] # "idle" => clock < now[r] + Stall
    /\ clock' = clock + 1
    /\ UNCHANGED <<visitors, lastSeen, fullAt, nextSweep, requestVars, spent>>

Next ==
    \/ Tick
    \/ \E r \in Requests : Arrive(r) \/ Enter(r) \/ Admit(r) \/ Refuse(r)

Spec == Init /\ [][Next]_vars

-----------------------------------------------------------------------------

\* The type invariant of the limiter: in particular a bucket never overflows, and
\* two addresses never share one.
TypeOK ==
    /\ clock \in Nat
    /\ visitors \in [Addresses -> Visitors \cup {NoVisitor}]
    /\ \A a, b \in Addresses : visitors[a] = visitors[b] => a = b \/ visitors[a] = NoVisitor
    /\ lastSeen \in [Visitors -> Nat]
    /\ fullAt \in [Visitors -> Nat]
    /\ \A v \in Visitors : fullAt[v] <= clock + Capacity
    /\ nextSweep \in Nat
    /\ pc \in [Requests -> {"idle", "timed", "allow"}]
    /\ source \in [Requests -> Addresses \cup {NoAddress}]
    /\ now \in [Requests -> Nat]
    /\ holds \in [Requests -> Visitors \cup {NoVisitor}]
    /\ answer \in [Requests -> {"none", "admitted", "refused"}]
    /\ spent \in [Addresses -> Nat]

\* However requests of one address overlap and whenever its visitor is swept and
\* made anew, the address is admitted no more than its burst and its rate allow.
RateBound == \A a \in Addresses : spent[a] <= Capacity + clock

\* The map does not grow for ever: after every request, whoever is in it was seen
\* in the last Idle + SweepEvery, but for the time requests may stall.
ForgetsIdle ==
    [][\A r \in Requests : pc[r] = "timed" /\ pc'[r] = "allow" =>
         \A a \in Addresses : visitors'[a] # NoVisitor =>
            clock <= lastSeen'[visitors'[a]] + Idle + SweepEvery + Stall]_vars

\* What an address has left, in ticks.
Level(a) == IF visitors[a] = NoVisitor THEN Capacity ELSE Available(visitors[a])

\* Nobody can tell that visitors are swept: the limiter is a token bucket per
\* address, a missing visitor being a full one.
Buckets == INSTANCE TokenBucket WITH level <- [a \in Addresses |-> Level(a)]
IsTokenBucket == Buckets!Spec
=============================================================================
