-------------------------- MODULE RateLimiter_proofs --------------------------
(***************************************************************************)
(* Theorems about RateLimiter, for every set of addresses and requests, every *)
(* rate and burst, and every Idle long enough (IdleAssumption).             *)
(***************************************************************************)
EXTENDS RateLimiter, TLAPS

(***************************************************************************)
(* A visitor may be swept under a request only if it lost track of time: the  *)
(* inductive invariant bounds the distance between the clock, the time that a  *)
(* waiting request read and the last time written into its visitor.          *)
(***************************************************************************)

\* A request that is being decided has an address, and read the clock at most
\* Stall ago.
Timely ==
    \A r \in Requests :
        IF pc[r] = "idle"
        THEN source[r] = NoAddress
        ELSE source[r] \in Addresses /\ now[r] <= clock /\ clock <= now[r] + Stall

\* The visitor a request goes on to use is still the one of its address, and its
\* last time, though it may have gone back, is no further back than Stall.
Attached ==
    \A r \in Requests : pc[r] = "allow" =>
        /\ holds[r] # NoVisitor
        /\ holds[r] = visitors[source[r]]
        /\ now[r] <= lastSeen[holds[r]] + Stall

\* A visitor that was not seen for Idle has a full bucket.
FullWhenIdle ==
    \A a \in Addresses : visitors[a] # NoVisitor =>
        fullAt[visitors[a]] <= lastSeen[visitors[a]] + Capacity + 2 * Stall

\* The next sweep comes no later than Idle + SweepEvery after anyone's last time.
SweepComes ==
    /\ nextSweep <= clock + SweepEvery
    /\ \A a \in Addresses : visitors[a] # NoVisitor =>
         nextSweep <= lastSeen[visitors[a]] + Idle + SweepEvery

\* What was taken and what is left came from the burst and the rate.
Conserved == \A a \in Addresses : spent[a] + Level(a) <= Capacity + clock

LimiterInv ==
    TypeOK /\ Timely /\ Attached /\ FullWhenIdle /\ SweepComes /\ Conserved

USE NoAddressAssumption, NoVisitorAssumption, TimesAssumption, IdleAssumption

LEMMA InitInv == Init => LimiterInv
BY DEF Init, LimiterInv, TypeOK, Timely, Attached, FullWhenIdle, SweepComes, Conserved, Level

LEMMA ArriveKeepsInv ==
    ASSUME LimiterInv, NEW r \in Requests, Arrive(r)
    PROVE  LimiterInv'
<1>1. TypeOK'
  BY DEF LimiterInv, TypeOK, Arrive
<1>2. Timely'
  BY DEF LimiterInv, TypeOK, Timely, Arrive
<1>3. Attached'
  BY DEF LimiterInv, TypeOK, Attached, Arrive
<1>4. FullWhenIdle' /\ SweepComes' /\ Conserved'
  BY DEF LimiterInv, FullWhenIdle, SweepComes, Conserved, Level, Available, Missing, Arrive
<1> QED BY <1>1, <1>2, <1>3, <1>4 DEF LimiterInv

LEMMA TickKeepsInv ==
    ASSUME LimiterInv, Tick
    PROVE  LimiterInv'
<1>1. TypeOK'
  BY DEF LimiterInv, TypeOK, Tick, requestVars
<1>2. Timely'
  BY DEF LimiterInv, TypeOK, Timely, Tick, requestVars
<1>3. Attached'
  BY DEF LimiterInv, TypeOK, Attached, Tick, requestVars
<1>4. FullWhenIdle' /\ SweepComes'
  BY DEF LimiterInv, TypeOK, FullWhenIdle, SweepComes, Tick, requestVars
<1>5. Conserved'
  BY DEF LimiterInv, TypeOK, Conserved, Level, Available, Missing, Tick, requestVars
<1> QED BY <1>1, <1>2, <1>3, <1>4, <1>5 DEF LimiterInv

\* A visitor is swept only when its bucket is full and no request has it.
LEMMA SweptIsIdle ==
    ASSUME LimiterInv, NEW r \in Requests, pc[r] = "timed",
           NEW a \in Addresses, Stale(r, a)
    PROVE  /\ visitors[a] # NoVisitor
           /\ Level(a) = Capacity
           /\ \A q \in Requests : pc[q] = "allow" => source[q] # a
<1> DEFINE v == visitors[a]
<1>1. v \in Visitors /\ lastSeen[v] \in Nat /\ fullAt[v] \in Nat
  BY DEF LimiterInv, TypeOK, Stale
<1>2. now[r] \in Nat /\ clock \in Nat /\ now[r] <= clock /\ now[r] > lastSeen[v] + Idle
  BY DEF LimiterInv, TypeOK, Timely, Stale
<1>3. fullAt[v] <= clock
  BY <1>1, <1>2 DEF LimiterInv, FullWhenIdle, Stale
<1>4. ASSUME NEW q \in Requests, pc[q] = "allow", source[q] = a
      PROVE  FALSE
  <2>1. holds[q] = v /\ now[q] <= lastSeen[v] + Stall
    BY <1>4 DEF LimiterInv, Attached
  <2>2. now[q] \in Nat /\ clock <= now[q] + Stall
    BY <1>4 DEF LimiterInv, TypeOK, Timely
  <2> QED BY <1>1, <1>2, <2>1, <2>2
<1> QED BY <1>1, <1>2, <1>3, <1>4 DEF Level, Available, Missing, Stale

LEMMA EnterKeepsInv ==
    ASSUME LimiterInv, NEW r \in Requests, Enter(r)
    PROVE  LimiterInv' /\ \A a \in Addresses : Level(a)' = Level(a)
<1> DEFINE a == source[r]
<1>1. /\ pc[r] = "timed" /\ a \in Addresses
      /\ now[r] \in Nat /\ clock \in Nat /\ now[r] <= clock /\ clock <= now[r] + Stall
  BY DEF Enter, LimiterInv, TypeOK, Timely
<1>2. PICK v \in Visitors :
        /\ visitors' = [Swept(r) EXCEPT ![a] = v]
        /\ lastSeen' = [lastSeen EXCEPT ![v] = now[r]]
        /\ holds' = [holds EXCEPT ![r] = v]
        /\ \/ Swept(r)[a] = v /\ UNCHANGED fullAt
           \/ /\ Swept(r)[a] = NoVisitor /\ Free(v)
              /\ fullAt' = [fullAt EXCEPT ![v] = clock]
  BY DEF Enter
<1>3. /\ nextSweep' = IF SweepDue(r) THEN now[r] + SweepEvery ELSE nextSweep
      /\ pc' = [pc EXCEPT ![r] = "allow"]
      /\ UNCHANGED <<clock, source, now, answer, spent>>
  BY DEF Enter
\* The other addresses keep their visitors or lose them; v is nobody else's.
<1>4. /\ visitors'[a] = v
      /\ \A b \in Addresses \ {a} :
           /\ visitors'[b] # v
           /\ \/ visitors'[b] = visitors[b]
              \/ visitors'[b] = NoVisitor /\ SweepDue(r) /\ Stale(r, b)
           /\ SweepDue(r) => visitors'[b] = NoVisitor \/ ~Stale(r, b)
  BY <1>1, <1>2 DEF Swept, Free, Stale, LimiterInv, TypeOK
<1>5. \/ visitors[a] = v /\ fullAt' = fullAt
      \/ /\ fullAt' = [fullAt EXCEPT ![v] = clock]
         /\ visitors[a] = NoVisitor \/ Stale(r, a)
  BY <1>1, <1>2 DEF Swept
<1>6. \A b \in Addresses \ {a} : visitors'[b] # NoVisitor =>
        /\ visitors'[b] = visitors[b]
        /\ lastSeen'[visitors[b]] = lastSeen[visitors[b]]
        /\ fullAt'[visitors[b]] = fullAt[visitors[b]]
        /\ lastSeen[visitors[b]] \in Nat
        /\ fullAt[visitors[b]] \in Nat
  BY <1>2, <1>4, <1>5 DEF LimiterInv, TypeOK
<1>7. lastSeen'[v] = now[r]
  BY <1>2 DEF LimiterInv, TypeOK
<1>8. TypeOK'
  <2>1. /\ fullAt' \in [Visitors -> Nat]
        /\ \A u \in Visitors : fullAt'[u] <= clock + Capacity
    BY <1>1, <1>5 DEF LimiterInv, TypeOK
  <2>2. /\ visitors' \in [Addresses -> Visitors \cup {NoVisitor}]
        /\ \A b, c \in Addresses :
             visitors'[b] = visitors'[c] => b = c \/ visitors'[b] = NoVisitor
    BY <1>2, <1>4 DEF LimiterInv, TypeOK, Swept
  <2>3. /\ lastSeen' \in [Visitors -> Nat] /\ nextSweep' \in Nat
        /\ holds' \in [Requests -> Visitors \cup {NoVisitor}]
        /\ pc' \in [Requests -> {"idle", "timed", "allow"}]
    BY <1>1, <1>2, <1>3 DEF LimiterInv, TypeOK
  <2> QED BY <1>3, <2>1, <2>2, <2>3 DEF LimiterInv, TypeOK
<1>9. Timely'
  BY <1>1, <1>3 DEF LimiterInv, TypeOK, Timely
<1>10. Attached'
  <2> SUFFICES ASSUME NEW q \in Requests, pc'[q] = "allow"
               PROVE  /\ holds'[q] # NoVisitor
                      /\ holds'[q] = visitors'[source[q]]
                      /\ now[q] <= lastSeen'[holds'[q]] + Stall
    BY <1>3 DEF Attached
  <2>1. CASE q = r
    BY <2>1, <1>1, <1>2, <1>4, <1>7 DEF LimiterInv, TypeOK
  <2>2. CASE q # r
    <3>1. /\ pc[q] = "allow" /\ holds'[q] = holds[q] /\ now[q] \in Nat
          /\ source[q] \in Addresses /\ now[q] <= clock
          /\ holds[q] # NoVisitor /\ holds[q] = visitors[source[q]]
          /\ now[q] <= lastSeen[holds[q]] + Stall
      BY <2>2, <1>2, <1>3 DEF LimiterInv, TypeOK, Timely, Attached
    <3>2. CASE source[q] = a
      <4>1. visitors[a] = v
        BY <1>1, <1>5, <3>1, <3>2, SweptIsIdle
      <4> QED BY <1>1, <1>4, <1>7, <3>1, <3>2, <4>1
    <3>3. CASE source[q] # a
      <4>1. visitors'[source[q]] = visitors[source[q]]
        BY <1>1, <1>4, <3>1, <3>3, SweptIsIdle
      <4> QED BY <1>6, <3>1, <3>3, <4>1
    <3> QED BY <3>2, <3>3
  <2> QED BY <2>1, <2>2
<1>11. FullWhenIdle'
  <2>1. fullAt'[v] <= now[r] + Capacity + 2 * Stall
    BY <1>1, <1>5 DEF LimiterInv, TypeOK
  <2> QED BY <1>4, <1>6, <1>7, <2>1 DEF LimiterInv, FullWhenIdle
<1>12. SweepComes'
  <2> SUFFICES ASSUME NEW b \in Addresses, visitors'[b] # NoVisitor
               PROVE  /\ nextSweep' <= clock + SweepEvery
                      /\ nextSweep' <= lastSeen'[visitors'[b]] + Idle + SweepEvery
    BY <1>1, <1>3, <1>4 DEF SweepComes
  <2>1. nextSweep' <= clock + SweepEvery
    BY <1>1, <1>3 DEF LimiterInv, TypeOK, SweepComes
  <2>2. CASE b = a
    BY <2>1, <2>2, <1>1, <1>3, <1>4, <1>7 DEF LimiterInv, TypeOK
  <2>3. CASE b # a
    <3>1. SweepDue(r) => now[r] <= lastSeen[visitors[b]] + Idle
      BY <2>3, <1>1, <1>4, <1>6 DEF Stale
    <3> QED BY <2>1, <2>3, <3>1, <1>1, <1>3, <1>6 DEF LimiterInv, TypeOK, SweepComes
  <2> QED BY <2>1, <2>2, <2>3
<1>13. ASSUME NEW b \in Addresses PROVE Level(b)' = Level(b)
  <2>1. CASE b = a
    <3>1. CASE visitors[a] = v /\ fullAt' = fullAt
      BY <1>3, <1>4, <2>1, <3>1 DEF Level, Available, Missing
    <3>2. CASE fullAt' = [fullAt EXCEPT ![v] = clock] /\ (visitors[a] = NoVisitor \/ Stale(r, a))
      <4>1. Level(a) = Capacity
        BY <1>1, <3>2, SweptIsIdle DEF Level
      <4>2. fullAt'[v] = clock /\ v # NoVisitor
        BY <3>2 DEF LimiterInv, TypeOK
      <4> QED BY <1>1, <1>3, <1>4, <2>1, <4>1, <4>2 DEF Level, Available, Missing
    <3> QED BY <1>5, <3>1, <3>2
  <2>2. CASE b # a /\ visitors'[b] = visitors[b]
    BY <2>2, <1>3, <1>6 DEF Level, Available, Missing
  <2>3. CASE b # a /\ visitors'[b] = NoVisitor /\ Stale(r, b)
    BY <2>3, <1>1, SweptIsIdle DEF Level
  <2> QED BY <1>4, <2>1, <2>2, <2>3
<1>14. Conserved'
  BY <1>3, <1>13 DEF LimiterInv, Conserved
<1> QED BY <1>8, <1>9, <1>10, <1>11, <1>12, <1>13, <1>14 DEF LimiterInv

LEMMA AdmitKeepsInv ==
    ASSUME LimiterInv, NEW r \in Requests, Admit(r)
    PROVE  /\ LimiterInv'
           /\ Level(source[r]) >= Period
           /\ \A b \in Addresses :
                Level(b)' = IF b = source[r] THEN Level(b) - Period ELSE Level(b)
<1>a. PICK a \in Addresses : a = source[r]
  BY DEF Admit, LimiterInv, Timely
<1>v. PICK v \in Visitors : v = holds[r]
  BY DEF Admit, LimiterInv, TypeOK, Attached
<1>1. /\ pc[r] = "allow" /\ a \in Addresses /\ v = visitors[a] /\ v # NoVisitor
      /\ v \in Visitors
      /\ clock \in Nat /\ lastSeen[v] \in Nat /\ fullAt[v] \in Nat
      /\ clock <= lastSeen[v] + 2 * Stall
  BY <1>a, <1>v DEF Admit, LimiterInv, TypeOK, Timely, Attached
<1>2. /\ Available(v) >= Period
      /\ fullAt' = [fullAt EXCEPT ![v] = clock + Missing(v) + Period]
      /\ spent' = [spent EXCEPT ![a] = @ + Period]
      /\ UNCHANGED <<clock, visitors, lastSeen, nextSweep>>
  BY <1>a, <1>v DEF Admit
<1>3. /\ Missing(v) \in Nat /\ Missing(v) + Period <= Capacity
      /\ fullAt'[v] = clock + Missing(v) + Period
      /\ fullAt'[v] <= clock + Capacity
  BY <1>1, <1>2 DEF Missing, Available, LimiterInv, TypeOK
<1>4. TypeOK'
  <2>1. /\ fullAt' \in [Visitors -> Nat]
        /\ \A u \in Visitors : fullAt'[u] <= clock + Capacity
    BY <1>1, <1>2, <1>3 DEF LimiterInv, TypeOK
  <2>2. spent' \in [Addresses -> Nat]
    BY <1>1, <1>2 DEF LimiterInv, TypeOK
  <2> QED BY <1>2, <2>1, <2>2 DEF LimiterInv, TypeOK, Admit, Done
<1>5. Timely' /\ Attached'
  BY <1>2 DEF LimiterInv, TypeOK, Timely, Attached, Admit, Done
<1>6. FullWhenIdle'
  BY <1>1, <1>2, <1>3 DEF LimiterInv, TypeOK, FullWhenIdle
<1>7. SweepComes'
  BY <1>2 DEF LimiterInv, SweepComes
<1>8. Level(a) >= Period /\ Level(a)' = Level(a) - Period
  <2>1. Missing(v)' = Missing(v) + Period
    BY <1>1, <1>2, <1>3 DEF Missing
  <2> QED BY <1>1, <1>2, <1>3, <2>1 DEF Level, Available
<1>9. ASSUME NEW b \in Addresses, b # a PROVE Level(b)' = Level(b)
  <2>1. visitors[b] # NoVisitor => visitors[b] \in Visitors /\ visitors[b] # v
    BY <1>1, <1>9 DEF LimiterInv, TypeOK
  <2>2. visitors[b] # NoVisitor => fullAt'[visitors[b]] = fullAt[visitors[b]]
    BY <1>2, <2>1 DEF LimiterInv, TypeOK
  <2> QED BY <1>2, <2>2 DEF Level, Available, Missing
<1>10. Conserved'
  <2> SUFFICES ASSUME NEW b \in Addresses
               PROVE  spent'[b] + Level(b)' <= Capacity + clock
    BY <1>2 DEF Conserved
  <2>1. CASE b = a
    <3>1. Level(a) \in Nat
      BY <1>1, <1>3 DEF Level, Available
    <3> QED BY <2>1, <3>1, <1>1, <1>2, <1>8 DEF LimiterInv, TypeOK, Conserved
  <2>2. CASE b # a
    BY <2>2, <1>2, <1>9 DEF LimiterInv, TypeOK, Conserved
  <2> QED BY <2>1, <2>2
<1> QED BY <1>a, <1>4, <1>5, <1>6, <1>7, <1>8, <1>9, <1>10 DEF LimiterInv

LEMMA RefuseKeepsInv ==
    ASSUME LimiterInv, NEW r \in Requests, Refuse(r)
    PROVE  LimiterInv' /\ Level(source[r]) < Period /\ \A b \in Addresses : Level(b)' = Level(b)
<1>1. TypeOK'
  BY DEF LimiterInv, TypeOK, Refuse, Done
<1>2. Timely' /\ Attached'
  BY DEF LimiterInv, TypeOK, Timely, Attached, Refuse, Done
<1>3. Level(source[r]) < Period
  BY DEF LimiterInv, Attached, Refuse, Level
<1>4. \A b \in Addresses : Level(b)' = Level(b)
  BY DEF Refuse, Level, Available, Missing
<1>5. FullWhenIdle' /\ SweepComes' /\ Conserved'
  BY <1>4 DEF LimiterInv, FullWhenIdle, SweepComes, Conserved, Refuse
<1> QED BY <1>1, <1>2, <1>3, <1>4, <1>5 DEF LimiterInv

LEMMA StutterKeepsInv ==
    ASSUME LimiterInv, UNCHANGED vars
    PROVE  LimiterInv'
BY DEF LimiterInv, TypeOK, Timely, Attached, FullWhenIdle, SweepComes, Conserved, Level,
       Available, Missing, vars, requestVars

LEMMA NextKeepsInv == LimiterInv /\ [Next]_vars => LimiterInv'
BY TickKeepsInv, ArriveKeepsInv, EnterKeepsInv, AdmitKeepsInv, RefuseKeepsInv, StutterKeepsInv
   DEF Next

LEMMA Invariance == Spec => []LimiterInv
BY InitInv, NextKeepsInv, PTL DEF Spec

\* The limiter keeps its types, no bucket overflows and no two addresses share one.
THEOREM LimiterTypeOK == Spec => []TypeOK
<1>1. LimiterInv => TypeOK
  BY DEF LimiterInv
<1> QED BY <1>1, Invariance, PTL

\* No address is ever admitted more often than its burst and its rate allow,
\* however its requests overlap and however often its visitor is swept.
THEOREM LimiterRateBound == Spec => []RateBound
<1>1. ASSUME LimiterInv, NEW a \in Addresses PROVE spent[a] <= Capacity + clock
  <2>1. Level(a) \in Nat
    <3>1. CASE visitors[a] = NoVisitor
      BY <3>1 DEF Level
    <3>2. CASE visitors[a] # NoVisitor
      <4>1. /\ visitors[a] \in Visitors /\ clock \in Nat /\ fullAt[visitors[a]] \in Nat
            /\ fullAt[visitors[a]] <= clock + Capacity
        BY <1>1, <3>2 DEF LimiterInv, TypeOK
      <4> QED BY <3>2, <4>1 DEF Level, Available, Missing
    <3> QED BY <3>1, <3>2
  <2>2. spent[a] \in Nat /\ clock \in Nat /\ spent[a] + Level(a) <= Capacity + clock
    BY <1>1 DEF LimiterInv, TypeOK, Conserved
  <2> QED BY <2>1, <2>2
<1>2. LimiterInv => RateBound
  BY <1>1 DEF RateBound
<1> QED BY <1>2, Invariance, PTL

\* After every request, everyone in the map was seen within Idle, a sweep's
\* interval and a stall.
THEOREM LimiterForgetsIdle == Spec => ForgetsIdle
<1> DEFINE Forgets ==
      \A r \in Requests : pc[r] = "timed" /\ pc'[r] = "allow" =>
        \A a \in Addresses : visitors'[a] # NoVisitor =>
          clock <= lastSeen'[visitors'[a]] + Idle + SweepEvery + Stall
<1>1. ASSUME LimiterInv, LimiterInv', [Next]_vars PROVE Forgets
  <2> SUFFICES ASSUME NEW r \in Requests, pc[r] = "timed", pc'[r] = "allow",
                      NEW a \in Addresses, visitors'[a] # NoVisitor
               PROVE  clock <= lastSeen'[visitors'[a]] + Idle + SweepEvery + Stall
    OBVIOUS
  <2>1. Enter(r)
    BY <1>1 DEF Next, Tick, Arrive, Enter, Admit, Refuse, Done, vars, requestVars,
                LimiterInv, TypeOK
  <2>2. /\ clock \in Nat /\ now[r] \in Nat /\ clock <= now[r] + Stall
    BY <1>1 DEF LimiterInv, TypeOK, Timely
  <2>3. /\ now[r] <= nextSweep' \/ nextSweep' = now[r] + SweepEvery
        /\ nextSweep' \in Nat
    BY <1>1, <2>1 DEF Enter, SweepDue, LimiterInv, TypeOK
  <2>4. /\ lastSeen'[visitors'[a]] \in Nat
        /\ nextSweep' <= lastSeen'[visitors'[a]] + Idle + SweepEvery
    BY <1>1 DEF LimiterInv, TypeOK, SweepComes
  <2> QED BY <2>2, <2>3, <2>4
<1> QED BY <1>1, Invariance, PTL DEF Spec, ForgetsIdle

\* The limiter, with its map, its sweeps and its races, is one token bucket per
\* address.
THEOREM LimiterIsTokenBucket == Spec => IsTokenBucket
<1> DEFINE L == [a \in Addresses |-> Level(a)]
<1>1. Buckets!Capacity = Capacity
  BY DEF Buckets!Capacity, Capacity
<1>2. Init => Buckets!Init
  BY <1>1 DEF Init, Buckets!Init, Level
<1>3. ASSUME LimiterInv, LimiterInv', [Next]_vars
      PROVE  [Buckets!Next]_(Buckets!vars)
  <2>1. ASSUME Tick PROVE Buckets!Next
    <3>1. ASSUME NEW a \in Addresses
          PROVE  Level(a)' = IF Level(a) < Capacity THEN Level(a) + 1 ELSE Capacity
      <4>1. CASE visitors[a] = NoVisitor
        BY <2>1, <4>1 DEF Tick, Level
      <4>2. CASE visitors[a] # NoVisitor
        <5>1. clock \in Nat /\ fullAt[visitors[a]] \in Nat
          BY <1>3, <4>2 DEF LimiterInv, TypeOK
        <5> QED BY <2>1, <4>2, <5>1 DEF Tick, Level, Available, Missing
      <4> QED BY <4>1, <4>2
    <3> QED BY <1>1, <2>1, <3>1 DEF Tick, Buckets!Next, Buckets!Tick, requestVars
  <2>2. ASSUME NEW r \in Requests, Arrive(r) PROVE Buckets!Next
    <3>1. L' = L
      BY <2>2 DEF Arrive, Level, Available, Missing
    <3>2. source[r] = NoAddress
      BY <1>3, <2>2 DEF LimiterInv, Timely, Arrive
    <3> QED BY <2>2, <3>1, <3>2 DEF Arrive, Buckets!Next, Buckets!Arrive
  <2>3. ASSUME NEW r \in Requests, Enter(r) PROVE UNCHANGED Buckets!vars
    <3>1. L' = L
      BY <1>3, <2>3, EnterKeepsInv
    <3> QED BY <2>3, <3>1 DEF Enter, Buckets!vars
  <2>4. ASSUME NEW r \in Requests, Admit(r) PROVE Buckets!Next
    <3>1. source[r] \in Addresses /\ source[r] # NoAddress
      BY <1>3, <2>4 DEF LimiterInv, Timely, Admit
    <3>2. L[source[r]] >= Period /\ L' = [L EXCEPT ![source[r]] = @ - Period]
      BY <1>3, <2>4, <3>1, AdmitKeepsInv
    <3> QED BY <2>4, <3>1, <3>2 DEF Admit, Done, Buckets!Next, Buckets!Admit
  <2>5. ASSUME NEW r \in Requests, Refuse(r) PROVE Buckets!Next
    <3>1. source[r] \in Addresses /\ source[r] # NoAddress
      BY <1>3, <2>5 DEF LimiterInv, Timely, Refuse
    <3>2. L[source[r]] < Period /\ L' = L
      BY <1>3, <2>5, <3>1, RefuseKeepsInv
    <3> QED BY <2>5, <3>1, <3>2 DEF Refuse, Done, Buckets!Next, Buckets!Refuse
  <2>6. ASSUME UNCHANGED vars PROVE UNCHANGED Buckets!vars
    BY <2>6 DEF vars, requestVars, Buckets!vars, Level, Available, Missing
  <2> QED BY <1>3, <2>1, <2>2, <2>3, <2>4, <2>5, <2>6 DEF Next
<1> QED BY <1>2, <1>3, Invariance, PTL DEF Spec, IsTokenBucket, Buckets!Spec
=============================================================================
