------------------------------ MODULE DomainSlots ------------------------------
(***************************************************************************)
(* The per-domain concurrency limit of outbound delivery: the Redis        *)
(* counter ap:domain:slots:<domain>, taken by acquireDomainSlot before a   *)
(* delivery and given back by releaseDomainSlot in the finally block of    *)
(* processJob.  Sources: sidecar-redis-queue-core.ts and                   *)
(* outbound-worker.ts under fedify-sidecar/src.  One domain is modelled;   *)
(* the counters of different domains are independent.                      *)
(***************************************************************************)
EXTENDS Integers, FiniteSets

CONSTANTS
    Handlers,      \* handler slots, over all sidecar processes
    MaxConcurrent, \* maxConcurrentPerDomain
    SlotTtl,       \* time to live of the counter, 3600 s
    MaxFaults,     \* bound: calls that fail
    MaxCrashes     \* bound: process crashes

ASSUME ConstantsAssumption ==
    /\ IsFiniteSet(Handlers)
    /\ {MaxConcurrent, SlotTtl} \subseteq Nat \ {0}
    /\ {MaxFaults, MaxCrashes} \subseteq Nat

VARIABLES
    count,     \* the counter; a missing key reads as 0
    ttl,       \* time the key has left, 0: no expiry is set
    holds,     \* handlers between acquire and release
    leaked,    \* history: slots the counter counts and nobody will release
    forgotten, \* history: holders the key did not know when it last expired
    faults,    \* number of failed calls so far
    crashes    \* number of crashes so far

vars == <<count, ttl, holds, leaked, forgotten, faults, crashes>>

TypeOK ==
    /\ count \in Int
    /\ ttl \in 0 .. SlotTtl
    /\ holds \subseteq Handlers
    /\ leaked \in Nat
    /\ forgotten \in Nat
    /\ faults \in 0 .. MaxFaults
    /\ crashes \in 0 .. MaxCrashes

\* Wrong: every INCR extends the life of the counter.
ArmsAlways(n) == TRUE

\* The script sets the expiry when its INCR returns 1.
Arms(n) == n = 1

TtlAfter(n) == IF Arms(n) THEN SlotTtl ELSE ttl

\* Wrong: one slot too many.
GrantedLate(n) == n <= MaxConcurrent + 1

\* INCR returned at most the limit; otherwise the script undoes it.
Granted(n) == n <= MaxConcurrent

\* acquireDomainSlot: the handler gets the slot, is denied, or loses the reply
\* and goes on without knowing that it was counted.
Acquire(w) ==
    /\ w \notin holds
    /\ ttl' = TtlAfter(count + 1)
    /\ \/ /\ Granted(count + 1)
          /\ count' = count + 1
          /\ \/ holds' = holds \cup {w} /\ UNCHANGED <<leaked, faults>>
             \/ /\ faults < MaxFaults /\ faults' = faults + 1
                /\ leaked' = leaked + 1 /\ UNCHANGED holds
       \/ /\ ~Granted(count + 1)
          /\ UNCHANGED <<count, holds, leaked, faults>>
    /\ UNCHANGED <<forgotten, crashes>>

\* Wrong: a release deletes the counter.
ReleasedAll(n) == 0

Released(n) == n - 1

\* releaseDomainSlot: a plain DECR, which creates a missing key without an
\* expiry; a failed call is not repeated.
Release(w) ==
    /\ w \in holds
    /\ holds' = holds \ {w}
    /\ \/ count' = Released(count) /\ UNCHANGED <<leaked, faults>>
       \/ /\ faults < MaxFaults /\ faults' = faults + 1
          /\ leaked' = leaked + 1 /\ UNCHANGED count
    /\ UNCHANGED <<ttl, forgotten, crashes>>

\* Processes that die keep their slots counted.
Crash ==
    /\ crashes < MaxCrashes
    /\ crashes' = crashes + 1
    /\ \E W \in SUBSET holds :
        /\ W # {}
        /\ holds' = holds \ W
        /\ leaked' = leaked + Cardinality(W)
    /\ UNCHANGED <<count, ttl, forgotten, faults>>

\* Time passes; the counter expires, whoever still holds a slot.
Tick ==
    /\ ttl > 0
    /\ ttl' = ttl - 1
    /\ IF ttl = 1
       THEN count' = 0 /\ leaked' = 0 /\ forgotten' = Cardinality(holds)
       ELSE UNCHANGED <<count, leaked, forgotten>>
    /\ UNCHANGED <<holds, faults, crashes>>

Init ==
    /\ count = 0 /\ ttl = 0 /\ holds = {} /\ leaked = 0 /\ forgotten = 0
    /\ faults = 0 /\ crashes = 0

Next ==
    \/ \E w \in Handlers : Acquire(w) \/ Release(w)
    \/ Crash
    \/ Tick

Spec == Init /\ [][Next]_vars

\* Redis expires keys; nothing is assumed of the handlers.
FairSpec == Spec /\ WF_vars(Tick)

-----------------------------------------------------------------------------
\* Properties

\* What the counter means: slots held, plus slots leaked by crashes and failed
\* calls, less the holders it forgot by expiring under them.
Accounted == count = Cardinality(holds) + leaked - forgotten

\* Concurrent deliveries to a domain exceed the limit by at most the number of
\* holders that the counter forgot when it last expired; crashes, lost replies
\* and failed releases alone never let an extra delivery in.
BoundedByForgotten == Cardinality(holds) <= MaxConcurrent + forgotten

\* A counter that may deny slots is always on its way to expiry, although DECR
\* can create it without one: leaked slots cannot close a domain for good.
PositiveCounterExpires == count > 0 => ttl > 0

\* The invariant that every step preserves, from which the bound follows.
SlotsInv == TypeOK /\ Accounted /\ count <= MaxConcurrent /\ PositiveCounterExpires

\* The same as liveness: a domain that denies slots grants them again, even if
\* every slot has leaked and deliveries keep being refused.
DomainReopens == []<>Granted(count + 1)
=============================================================================
