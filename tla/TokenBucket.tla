------------------------------ MODULE TokenBucket ------------------------------
(***************************************************************************)
(* What a rate limit promises: every client address has a bucket of its own   *)
(* that holds Burst tokens, fills by one token every Period ticks, and never   *)
(* is forgotten.  A request is admitted if it finds a token.                  *)
(***************************************************************************)
EXTENDS Naturals

CONSTANTS Addresses, NoAddress, Requests, Period, Burst

Capacity == Burst * Period       \* of a bucket, in ticks

VARIABLES
    level,     \* of every bucket, in ticks
    source,    \* the address of a request that is being decided
    answer     \* what it was told: "none" yet, "admitted" or "refused"

vars == <<level, source, answer>>

Init ==
    /\ level = [a \in Addresses |-> Capacity]
    /\ source = [r \in Requests |-> NoAddress]
    /\ answer = [r \in Requests |-> "none"]

Arrive(r) ==
    /\ source[r] = NoAddress
    /\ \E a \in Addresses : source' = [source EXCEPT ![r] = a]
    /\ answer' = [answer EXCEPT ![r] = "none"]
    /\ UNCHANGED level

Admit(r) ==
    /\ source[r] # NoAddress
    /\ level[source[r]] >= Period
    /\ level' = [level EXCEPT ![source[r]] = @ - Period]
    /\ answer' = [answer EXCEPT ![r] = "admitted"]
    /\ source' = [source EXCEPT ![r] = NoAddress]

Refuse(r) ==
    /\ source[r] # NoAddress
    /\ level[source[r]] < Period
    /\ answer' = [answer EXCEPT ![r] = "refused"]
    /\ source' = [source EXCEPT ![r] = NoAddress]
    /\ UNCHANGED level

Tick ==
    /\ level' = [a \in Addresses |-> IF level[a] < Capacity THEN level[a] + 1 ELSE Capacity]
    /\ UNCHANGED <<source, answer>>

Next == Tick \/ \E r \in Requests : Arrive(r) \/ Admit(r) \/ Refuse(r)

Spec == Init /\ [][Next]_vars
=============================================================================
