--------------------------- MODULE DomainSlotsProofs ---------------------------
(***************************************************************************)
(* DomainSlots for every number of handlers, every limit, time to live and *)
(* number of failures.                                                     *)
(***************************************************************************)
EXTENDS DomainSlots, FiniteSetTheorems, TLAPS

\* Subsets of the handlers have a size.
LEMMA HandlersFinite ==
    ASSUME NEW W \in SUBSET Handlers
    PROVE  IsFiniteSet(W) /\ Cardinality(W) \in Nat
BY ConstantsAssumption, FS_Subset, FS_CardinalityType DEF ConstantsAssumption

LEMMA InitSlots == Init => SlotsInv
<1> SUFFICES ASSUME Init PROVE SlotsInv
  OBVIOUS
<1>1. Cardinality({}) = 0
  BY FS_EmptySet
<1> QED
  BY <1>1, ConstantsAssumption
  DEF Init, SlotsInv, TypeOK, Accounted, PositiveCounterExpires, ConstantsAssumption

\* acquireDomainSlot and releaseDomainSlot keep the account.
LEMMA AcquireSlots ==
    ASSUME SlotsInv, NEW w \in Handlers, Acquire(w)
    PROVE  SlotsInv'
<1> USE ConstantsAssumption DEF ConstantsAssumption
<1>1. IsFiniteSet(holds) /\ Cardinality(holds) \in Nat
  BY HandlersFinite DEF SlotsInv, TypeOK
<1>2. Cardinality(holds \cup {w}) = Cardinality(holds) + 1
  BY <1>1, FS_AddElement DEF Acquire
<1>3. TypeOK'
  BY DEF SlotsInv, TypeOK, Acquire, TtlAfter, Granted
<1>4. Accounted'
  <2>1. CASE holds' = holds \cup {w} /\ count' = count + 1 /\ UNCHANGED leaked
    BY <1>1, <1>2, <2>1 DEF SlotsInv, TypeOK, Accounted, Acquire
  <2>2. CASE UNCHANGED holds /\ count' = count + 1 /\ leaked' = leaked + 1
    BY <1>1, <2>2 DEF SlotsInv, TypeOK, Accounted, Acquire
  <2>3. CASE UNCHANGED <<count, holds, leaked>>
    BY <1>1, <2>3 DEF SlotsInv, TypeOK, Accounted, Acquire
  <2> QED
    BY <2>1, <2>2, <2>3 DEF Acquire
<1>5. (count <= MaxConcurrent)'
  BY DEF SlotsInv, TypeOK, Acquire, Granted
<1>6. PositiveCounterExpires'
  BY DEF SlotsInv, TypeOK, PositiveCounterExpires, Acquire, Granted, TtlAfter, Arms
<1> QED
  BY <1>3, <1>4, <1>5, <1>6 DEF SlotsInv

LEMMA ReleaseSlots ==
    ASSUME SlotsInv, NEW w \in Handlers, Release(w)
    PROVE  SlotsInv'
<1> USE ConstantsAssumption DEF ConstantsAssumption
<1>1. IsFiniteSet(holds) /\ Cardinality(holds) \in Nat
  BY HandlersFinite DEF SlotsInv, TypeOK
<1>2. Cardinality(holds \ {w}) = Cardinality(holds) - 1
  BY <1>1, FS_RemoveElement DEF Release
<1>3. TypeOK'
  BY DEF SlotsInv, TypeOK, Release, Released
<1>4. Accounted'
  BY <1>1, <1>2 DEF SlotsInv, TypeOK, Accounted, Release, Released
<1>5. (count <= MaxConcurrent)' /\ PositiveCounterExpires'
  BY DEF SlotsInv, TypeOK, PositiveCounterExpires, Release, Released
<1> QED
  BY <1>3, <1>4, <1>5 DEF SlotsInv

\* A crash turns held slots into leaked ones.
LEMMA CrashSlots ==
    ASSUME SlotsInv, Crash
    PROVE  SlotsInv'
<1> USE ConstantsAssumption DEF ConstantsAssumption
<1>1. PICK W \in SUBSET holds :
        holds' = holds \ W /\ leaked' = leaked + Cardinality(W)
  BY DEF Crash
<1>2. /\ IsFiniteSet(holds) /\ Cardinality(holds) \in Nat
      /\ IsFiniteSet(W) /\ Cardinality(W) \in Nat
  BY HandlersFinite DEF SlotsInv, TypeOK
<1>3. Cardinality(holds \ W) = Cardinality(holds) - Cardinality(W)
  <2>1. holds \cap W = W
    OBVIOUS
  <2> QED
    BY <1>2, <2>1, FS_Difference
<1>4. TypeOK'
  BY <1>1, <1>2 DEF SlotsInv, TypeOK, Crash
<1>5. Accounted'
  <2>1. Cardinality(holds') = Cardinality(holds) - Cardinality(W)
    BY <1>1, <1>3
  <2>2. UNCHANGED <<count, forgotten>>
    BY DEF Crash
  <2>3. count = Cardinality(holds) + leaked - forgotten
    BY DEF SlotsInv, Accounted
  <2>4. count' = Cardinality(holds') + leaked' - forgotten'
    BY <1>1, <1>2, <2>1, <2>2, <2>3 DEF SlotsInv, TypeOK
  <2> QED
    BY <2>4 DEF Accounted
<1>6. (count <= MaxConcurrent)' /\ PositiveCounterExpires'
  BY DEF SlotsInv, PositiveCounterExpires, Crash
<1> QED
  BY <1>4, <1>5, <1>6 DEF SlotsInv

\* At expiry the counter forgets exactly the current holders.
LEMMA TickSlots ==
    ASSUME SlotsInv, Tick
    PROVE  SlotsInv'
<1> USE ConstantsAssumption DEF ConstantsAssumption
<1>1. Cardinality(holds) \in Nat
  BY HandlersFinite DEF SlotsInv, TypeOK
<1>2. TypeOK'
  BY <1>1 DEF SlotsInv, TypeOK, Tick
<1>3. Accounted'
  BY <1>1 DEF SlotsInv, TypeOK, Accounted, Tick
<1>4. (count <= MaxConcurrent)' /\ PositiveCounterExpires'
  BY DEF SlotsInv, TypeOK, PositiveCounterExpires, Tick
<1> QED
  BY <1>2, <1>3, <1>4 DEF SlotsInv

\* The account of the slot counter holds in every reachable state.
THEOREM SlotsInvariant == Spec => []SlotsInv
<1>1. ASSUME SlotsInv, [Next]_vars PROVE SlotsInv'
  <2>1. CASE Next
    BY <1>1, <2>1, AcquireSlots, ReleaseSlots, CrashSlots, TickSlots DEF Next
  <2>2. CASE UNCHANGED vars
    BY <1>1, <2>2
    DEF vars, SlotsInv, TypeOK, Accounted, PositiveCounterExpires
  <2> QED
    BY <1>1, <2>1, <2>2
<1> QED
  BY InitSlots, <1>1, PTL DEF Spec

\* Concurrent deliveries to a domain exceed maxConcurrentPerDomain by at most
\* the holders the counter forgot when its key last expired.
THEOREM ExcessIsForgotten == Spec => []BoundedByForgotten
<1>1. SlotsInv => BoundedByForgotten
  <2> SUFFICES ASSUME SlotsInv PROVE BoundedByForgotten
    OBVIOUS
  <2>1. Cardinality(holds) \in Nat
    BY HandlersFinite DEF SlotsInv, TypeOK
  <2> QED
    BY <2>1, ConstantsAssumption
    DEF SlotsInv, TypeOK, Accounted, BoundedByForgotten, ConstantsAssumption
<1> QED
  BY SlotsInvariant, <1>1, PTL

\* A counter that counts anything has an expiry set, whatever order takes,
\* releases, expiries and crashes come in.
THEOREM CounterExpires == Spec => []PositiveCounterExpires
<1>1. SlotsInv => PositiveCounterExpires
  BY DEF SlotsInv
<1> QED
  BY SlotsInvariant, <1>1, PTL

\* The counter is always the slots held, plus those leaked, less the holders
\* it forgot, however takes, releases, failures and expiries interleave.
THEOREM CounterAccounts == Spec => []Accounted
<1>1. SlotsInv => Accounted
  BY DEF SlotsInv
<1> QED
  BY SlotsInvariant, <1>1, PTL
=============================================================================
