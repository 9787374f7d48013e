------------------------- MODULE RealtimeStreamProofs -------------------------
EXTENDS RealtimeStream, FiniteSetTheorems, SequenceTheorems, TLAPS

-----------------------------------------------------------------------------
\* Ranks in a finite set of numbers

Below(S, n) == {m \in S : m < n}

\* A set of numbers that is not empty has a least one.
LEMMA LeastLemma ==
    ASSUME NEW S \in SUBSET Nat, S # {}
    PROVE  \E m \in S : \A n \in S : m <= n
  <1>1. PICK m \in S : \A n \in S : ~(<<n, m>> \in OpToRel(<, Nat))
    BY NatLessThanWellFounded, WFMin
  <1>2. \A n \in S : ~(n < m)
    <2> SUFFICES ASSUME NEW n \in S, n < m PROVE FALSE
      OBVIOUS
    <2>1. n \in Nat /\ m \in Nat
      OBVIOUS
    <2>2. <<n, m>> \in OpToRel(<, Nat)
      BY <2>1 DEF OpToRel
    <2> QED BY <1>1, <2>2
  <1>3. \A n \in S : n \in Nat /\ m \in Nat
    OBVIOUS
  <1>4. \A n \in S : m <= n
    BY <1>2, <1>3
  <1> QED BY <1>4

\* The ranks of the numbers of a finite set ascend and are the numbers from 0.
LEMMA RankLemma ==
    ASSUME NEW S \in SUBSET Nat, IsFiniteSet(S)
    PROVE  /\ Cardinality(S) \in Nat
           /\ \A n \in S : Cardinality(Below(S, n)) \in 0 .. Cardinality(S) - 1
           /\ \A m, n \in S : m < n => Cardinality(Below(S, m)) < Cardinality(Below(S, n))
           /\ \A i \in 0 .. Cardinality(S) - 1 : \E n \in S : Cardinality(Below(S, n)) = i
  <1>1. Cardinality(S) \in Nat
    BY FS_CardinalityType
  <1>2. ASSUME NEW n \in S
        PROVE  /\ IsFiniteSet(Below(S, n)) /\ Cardinality(Below(S, n)) \in Nat
               /\ Cardinality(Below(S, n)) < Cardinality(S)
    <2>1. Below(S, n) \in SUBSET S /\ n \notin Below(S, n)
      BY DEF Below
    <2>2. Below(S, n) # S
      BY <2>1
    <2>3. IsFiniteSet(Below(S, n)) /\ Cardinality(Below(S, n)) <= Cardinality(S)
          /\ Cardinality(S) # Cardinality(Below(S, n))
      BY <2>1, <2>2, FS_Subset
    <2> QED BY <1>1, <2>3, FS_CardinalityType
  <1>3. ASSUME NEW m \in S, NEW n \in S, m < n
        PROVE  Cardinality(Below(S, m)) < Cardinality(Below(S, n))
    <2>1. Below(S, m) \in SUBSET Below(S, n) /\ m \in Below(S, n) /\ m \notin Below(S, m)
      <3>1. m \in Nat /\ n \in Nat /\ ~(m < m)
        OBVIOUS
      <3>2. ASSUME NEW k \in Below(S, m) PROVE k \in Below(S, n)
        <4>1. k \in S /\ k \in Nat /\ k < m
          BY DEF Below
        <4>2. k < n
          BY <1>3, <3>1, <4>1
        <4> QED BY <4>1, <4>2 DEF Below
      <3> QED BY <1>3, <3>1, <3>2 DEF Below
    <2>2. Below(S, m) # Below(S, n)
      BY <2>1
    <2>3. Cardinality(Below(S, m)) <= Cardinality(Below(S, n))
          /\ Cardinality(Below(S, n)) # Cardinality(Below(S, m))
      BY <1>2, <2>1, <2>2, FS_Subset
    <2> QED BY <1>2, <2>3
  <1>4. ASSUME NEW i \in 0 .. Cardinality(S) - 1
        PROVE  \E n \in S : Cardinality(Below(S, n)) = i
    <2> DEFINE f == [n \in S |-> Cardinality(Below(S, n))]
               T == 0 .. Cardinality(S) - 1
    <2>1. f \in [S -> T]
      BY <1>1, <1>2
    <2>2. \A m, n \in S : f[m] = f[n] => m = n
      <3> SUFFICES ASSUME NEW m \in S, NEW n \in S, m # n PROVE f[m] # f[n]
        OBVIOUS
      <3>1. CASE m < n
        BY <1>2, <1>3, <3>1
      <3>2. CASE n < m
        BY <1>2, <1>3, <3>2
      <3> QED BY <3>1, <3>2
    <2>3. f \in Injection(S, T)
      BY <2>1, <2>2 DEF Injection, IsInjective
    <2>4. IsFiniteSet(T) /\ Cardinality(T) = Cardinality(S)
      BY <1>1, FS_Interval
    <2> HIDE DEF f, T
    <2>5. f \in Surjection(S, T)
      BY <2>3, <2>4, FS_Injection
    <2>6. \E n \in S : f[n] = i
      BY <2>5 DEF Surjection, T
    <2> QED BY <2>6 DEF f
  <1> QED BY <1>1, <1>2, <1>3, <1>4

\* Sorted enumerates a finite set of numbers in ascending order.
LEMMA SortedLemma ==
    ASSUME NEW S \in SUBSET Nat, IsFiniteSet(S)
    PROVE  /\ Sorted(S) \in [1 .. Cardinality(S) -> S]
           /\ \A n \in S : /\ Cardinality(Below(S, n)) + 1 \in 1 .. Cardinality(S)
                           /\ Sorted(S)[Cardinality(Below(S, n)) + 1] = n
           /\ \A i, j \in 1 .. Cardinality(S) : i < j => Sorted(S)[i] < Sorted(S)[j]
  <1>1. Cardinality(S) \in Nat
    BY RankLemma
  <1>2. \A m, n \in S : Cardinality(Below(S, m)) = Cardinality(Below(S, n)) => m = n
    <2> SUFFICES ASSUME NEW m \in S, NEW n \in S, m # n
                 PROVE  Cardinality(Below(S, m)) # Cardinality(Below(S, n))
      OBVIOUS
    <2>1. CASE m < n
      BY <2>1, RankLemma
    <2>2. CASE n < m
      BY <2>2, RankLemma
    <2> QED BY <2>1, <2>2
  <1>3. Sorted(S) = [i \in 1 .. Cardinality(S) |-> CHOOSE n \in S : Cardinality(Below(S, n)) = i - 1]
    BY DEF Sorted, Below
  <1>4. ASSUME NEW i \in 1 .. Cardinality(S)
        PROVE  Sorted(S)[i] \in S /\ Cardinality(Below(S, Sorted(S)[i])) = i - 1
    <2>1. i - 1 \in 0 .. Cardinality(S) - 1
      BY <1>1
    <2>2. \E n \in S : Cardinality(Below(S, n)) = i - 1
      BY <2>1, RankLemma
    <2> QED BY <1>3, <2>2
  <1>5. Sorted(S) \in [1 .. Cardinality(S) -> S]
    BY <1>3, <1>4
  <1>6. ASSUME NEW n \in S
        PROVE  /\ Cardinality(Below(S, n)) + 1 \in 1 .. Cardinality(S)
               /\ Sorted(S)[Cardinality(Below(S, n)) + 1] = n
    <2>1. Cardinality(Below(S, n)) \in 0 .. Cardinality(S) - 1
      BY RankLemma
    <2>2. Cardinality(Below(S, n)) + 1 \in 1 .. Cardinality(S)
      BY <1>1, <2>1
    <2>3. Cardinality(Below(S, Sorted(S)[Cardinality(Below(S, n)) + 1])) = Cardinality(Below(S, n))
      BY <1>4, <2>1, <2>2
    <2> QED BY <1>2, <1>4, <2>2, <2>3
  <1>7. ASSUME NEW i \in 1 .. Cardinality(S), NEW j \in 1 .. Cardinality(S), i < j
        PROVE  Sorted(S)[i] < Sorted(S)[j]
    <2>1. Sorted(S)[i] \in S /\ Sorted(S)[j] \in S
      BY <1>4
    <2>2. Sorted(S)[i] # Sorted(S)[j]
      BY <1>4, <1>7
    <2>3. ~(Sorted(S)[j] < Sorted(S)[i])
      <3> SUFFICES ASSUME Sorted(S)[j] < Sorted(S)[i] PROVE FALSE
        OBVIOUS
      <3>1. Cardinality(Below(S, Sorted(S)[j])) < Cardinality(Below(S, Sorted(S)[i]))
        BY <2>1, RankLemma
      <3> QED BY <1>1, <1>4, <1>7, <3>1
    <2>4. Sorted(S)[i] \in Nat /\ Sorted(S)[j] \in Nat
      BY <2>1
    <2> QED BY <2>2, <2>3, <2>4
  <1> QED BY <1>5, <1>6, <1>7

\* A set of numbers that has every number below one of its own starts at 1.
LEMMA SegmentLemma ==
    ASSUME NEW N \in Nat, NEW S \in SUBSET (1 .. N), \A n \in S : 1 .. n \subseteq S
    PROVE  IsFiniteSet(S) /\ Cardinality(S) \in 0 .. N /\ S = 1 .. Cardinality(S)
  <1>1. IsFiniteSet(S)
    <2>1. 1 \in Int /\ N \in Int
      OBVIOUS
    <2>2. IsFiniteSet(1 .. N)
      BY <2>1, FS_Interval
    <2> QED BY <2>2, FS_Subset
  <1> DEFINE C == {m \in Nat : m >= 1 /\ m \notin S}
  <1>2. N + 1 \in C
    <2>1. N + 1 \in Nat /\ N + 1 >= 1
      OBVIOUS
    <2>2. N + 1 \notin 1 .. N
      OBVIOUS
    <2>3. N + 1 \notin S
      BY <2>2
    <2> QED BY <2>1, <2>3
  <1>3. PICK m \in C : \A n \in C : m <= n
    <2>1. C \in SUBSET Nat /\ C # {}
      BY <1>2
    <2> HIDE DEF C
    <2> QED BY <2>1, LeastLemma
  <1>4. S = 1 .. m - 1
    <2>1. ASSUME NEW n \in S PROVE n \in 1 .. m - 1
      <3>1. n \in 1 .. N /\ 1 .. n \subseteq S
        OBVIOUS
      <3>2. ~(m <= n)
        BY <1>3, <3>1
      <3> QED BY <1>3, <3>1, <3>2
    <2>2. ASSUME NEW n \in 1 .. m - 1 PROVE n \in S
      BY <1>3
    <2> QED BY <2>1, <2>2
  <1>5. m \in Nat /\ m >= 1 /\ m <= N + 1
    BY <1>2, <1>3
  <1>6. Cardinality(S) = m - 1
    <2>1. 1 \in Int /\ m - 1 \in Int
      BY <1>5
    <2>2. Cardinality(1 .. m - 1) = IF 1 > m - 1 THEN 0 ELSE (m - 1) - 1 + 1
      BY <2>1, FS_Interval
    <2> QED BY <1>4, <1>5, <2>2
  <1> QED BY <1>1, <1>4, <1>5, <1>6

-----------------------------------------------------------------------------
\* Constants, and the requests a step leaves behind

LEMMA Bounds ==
    /\ IsFiniteSet(Public) /\ Cardinality(Public) \in Nat
    /\ Numbers \subseteq Nat /\ Sessions \subseteq Nat /\ Requests \subseteq Nat /\ Controls \subseteq Nat
    /\ 0 \notin Numbers /\ 0 \notin Sessions /\ 0 \notin Requests
    /\ MaxReplay \in Nat \ {0} /\ Batch \in Nat \ {0} /\ MaxIndex \in Nat \ {0}
    /\ MaxBuffer \in Nat /\ MaxTopics \in Nat /\ MaxSessions \in Nat
    /\ MaxRequests \in Nat /\ MaxControls \in Nat /\ MaxExtras \in Nat
    /\ IsFiniteSet(Topics) /\ IsFiniteSet(First)
  <1>1. IsFiniteSet(Public)
    <2>1. Public \in SUBSET Events
      BY DEF Public
    <2> QED BY <2>1, ConstantsAssumption, FS_Subset DEF Events
  <1>2. Cardinality(Public) \in Nat
    BY <1>1, FS_CardinalityType
  <1>3. /\ MaxReplay \in Nat \ {0} /\ Batch \in Nat \ {0} /\ MaxIndex \in Nat \ {0}
        /\ MaxBuffer \in Nat /\ MaxTopics \in Nat /\ MaxSessions \in Nat
        /\ MaxRequests \in Nat /\ MaxControls \in Nat /\ MaxExtras \in Nat
    BY ConstantsAssumption
  <1>4. IsFiniteSet(Topics)
    <2>1. IsFiniteSet(SUBSET UNION Topics)
      BY ConstantsAssumption, FS_SUBSET
    <2>2. Topics \in SUBSET SUBSET UNION Topics
      OBVIOUS
    <2> QED BY <2>1, <2>2, FS_Subset
  <1>5. IsFiniteSet(First)
    BY <1>4, ConstantsAssumption, FS_Subset
  <1>6. /\ Numbers \subseteq Nat /\ Sessions \subseteq Nat /\ Requests \subseteq Nat /\ Controls \subseteq Nat
        /\ 0 \notin Numbers /\ 0 \notin Sessions /\ 0 \notin Requests
    BY <1>2, <1>3 DEF Numbers, Sessions, Requests, Controls
  <1> QED BY <1>1, <1>2, <1>3, <1>4, <1>5, <1>6

\* Requests that keep to the limits.
FitRequest == {x \in Request : Len(x.scan.found) <= MaxReplay /\ Len(x.buffer) <= MaxBuffer}

Opened(r) == req[r] # NoRequest

LEMMA RequestLemma ==
    ASSUME TypeOK
    PROVE  /\ req \in [Requests -> {NoRequest} \cup FitRequest]
           /\ \A r \in Requests : Opened(r) <=> req[r] \in FitRequest
           /\ \A r \in Requests : req[r].pc # "none" <=> Opened(r)
  <1>1. \A x \in Request : x.pc # "none"
    BY DEF Request
  <1>2. NoRequest.pc = "none"
    BY DEF NoRequest
  <1>3. \A r \in Requests : req[r] = NoRequest \/ req[r] \in FitRequest
    BY DEF TypeOK, FitRequest
  <1>4. \A x \in FitRequest : x # NoRequest
    BY <1>1, <1>2 DEF FitRequest
  <1>5. req \in [Requests -> {NoRequest} \cup FitRequest]
    BY <1>3 DEF TypeOK
  <1> QED BY <1>1, <1>2, <1>3, <1>4, <1>5 DEF Opened, FitRequest

\* What type correctness says of the requests is that they fit.
LEMMA RequestsFit ==
    ASSUME NEW q \in [Requests -> {NoRequest} \cup FitRequest]
    PROVE  /\ q \in [Requests -> {NoRequest} \cup Request]
           /\ \A r \in Requests : q[r] # NoRequest =>
                Len(q[r].scan.found) <= MaxReplay /\ Len(q[r].buffer) <= MaxBuffer
  BY DEF FitRequest

\* A request that changes no more than how far it is.
Follows(x, y) ==
    /\ y \in FitRequest /\ y.p = x.p /\ y.s = x.s

LEMMA EndLemma ==
    ASSUME NEW x \in FitRequest
    PROVE  Follows(x, [x EXCEPT !.ended = TRUE])
  BY DEF Follows, FitRequest, Request

LEMMA NoScanLemma == NoScan \in Scan /\ Len(NoScan.found) = 0
  <1>1. << >> \in Seq(Item) /\ Len(<< >>) = 0
    OBVIOUS
  <1> QED BY <1>1 DEF NoScan, Scan

LEMMA LimitsLemma == 0 <= MaxReplay /\ 0 <= MaxBuffer
  BY Bounds

LEMMA OverLemma ==
    ASSUME NEW x \in FitRequest, NEW pc \in {"refused", "closed"}
    PROVE  /\ Follows(x, Over(x, pc)) /\ Over(x, pc).pc = pc /\ Over(x, pc).ended
           /\ Over(x, pc).topics = {} /\ Over(x, pc).buffer = << >> /\ Over(x, pc).scan = NoScan
           /\ Over(x, pc).cleaned = x.cleaned /\ Over(x, pc).paused = x.paused
  <1>1. << >> \in Seq(Item) /\ Len(<< >>) = 0 /\ {} \in SUBSET Topics
    OBVIOUS
  <1>2. PICK y : y = [x EXCEPT !.pc = pc, !.ended = TRUE, !.topics = {}]
    OBVIOUS
  <1>3. y \in Request
    BY <1>2 DEF FitRequest, Request
  <1>4. PICK z : z = [y EXCEPT !.buffer = << >>]
    OBVIOUS
  <1>5. z \in Request
    BY <1>1, <1>3, <1>4 DEF Request
  <1>6. [z EXCEPT !.scan = NoScan] \in Request
    BY <1>5, NoScanLemma DEF Request
  <1>7. Over(x, pc) = [z EXCEPT !.scan = NoScan]
    BY <1>2, <1>4 DEF Over
  <1>8. /\ Over(x, pc).pc = pc /\ Over(x, pc).ended /\ Over(x, pc).p = x.p /\ Over(x, pc).s = x.s
        /\ Over(x, pc).topics = {} /\ Over(x, pc).buffer = << >> /\ Over(x, pc).scan = NoScan
        /\ Over(x, pc).cleaned = x.cleaned /\ Over(x, pc).paused = x.paused
    BY DEF Over, FitRequest, Request
  <1>9. Over(x, pc) \in FitRequest
    BY <1>1, <1>6, <1>7, <1>8, NoScanLemma, LimitsLemma DEF FitRequest
  <1> QED BY <1>8, <1>9 DEF Follows

LEMMA HandleLemma ==
    ASSUME NEW x \in FitRequest
    PROVE  /\ Follows(x, Handle(x)) /\ Handle(x).ended = x.ended /\ Handle(x).cleaned = x.cleaned
           /\ Handle(x).topics = x.topics /\ Handle(x).buffer = x.buffer
           /\ x.scan.from = 0 => Handle(x).pc = "open" /\ Handle(x).paused = x.paused /\ Handle(x).scan = NoScan
           /\ x.scan.from # 0 => Handle(x).pc = "page" /\ Handle(x).paused /\ Handle(x).scan = x.scan
  <1>1. CASE x.scan.from = 0
    <2>1. Handle(x) = [x EXCEPT !.pc = "open", !.scan = NoScan]
      BY <1>1 DEF Handle
    <2>2. Handle(x) \in Request
      BY <2>1, NoScanLemma DEF FitRequest, Request
    <2>3. /\ Handle(x).pc = "open" /\ Handle(x).scan = NoScan /\ Handle(x).paused = x.paused
          /\ Handle(x).p = x.p /\ Handle(x).s = x.s /\ Handle(x).buffer = x.buffer
          /\ Handle(x).topics = x.topics /\ Handle(x).ended = x.ended /\ Handle(x).cleaned = x.cleaned
      BY <2>1 DEF FitRequest, Request
    <2>4. Handle(x) \in FitRequest
      BY <2>2, <2>3, NoScanLemma, LimitsLemma DEF FitRequest
    <2> QED BY <1>1, <2>3, <2>4 DEF Follows
  <1>2. CASE x.scan.from # 0
    <2>1. Handle(x) = [x EXCEPT !.pc = "page", !.paused = TRUE]
      BY <1>2 DEF Handle
    <2>2. Handle(x) \in Request
      BY <2>1 DEF FitRequest, Request
    <2>3. /\ Handle(x).pc = "page" /\ Handle(x).scan = x.scan /\ Handle(x).paused
          /\ Handle(x).p = x.p /\ Handle(x).s = x.s /\ Handle(x).buffer = x.buffer
          /\ Handle(x).topics = x.topics /\ Handle(x).ended = x.ended /\ Handle(x).cleaned = x.cleaned
      BY <2>1 DEF FitRequest, Request
    <2>4. Handle(x) \in FitRequest
      BY <2>2, <2>3 DEF FitRequest
    <2> QED BY <1>2, <2>3, <2>4 DEF Follows
  <1> QED BY <1>1, <1>2

LEMMA ReplayedLemma ==
    ASSUME NEW x \in FitRequest
    PROVE  /\ Follows(x, Replayed(x)) /\ Replayed(x).cleaned = x.cleaned
           /\ x.cleaned => Replayed(x).pc = "closed" /\ Replayed(x).ended /\ Replayed(x).topics = {}
                           /\ Replayed(x).buffer = << >>
           /\ ~x.cleaned => Replayed(x).pc = "open" /\ Replayed(x).ended = x.ended
                            /\ Replayed(x).topics = x.topics /\ Replayed(x).buffer = x.buffer
           /\ Replayed(x).scan = NoScan /\ Replayed(x).paused = x.paused
  <1>1. CASE x.cleaned
    <2>1. Replayed(x) = Over(x, "closed")
      BY <1>1 DEF Replayed
    <2> QED BY <1>1, <2>1, OverLemma
  <1>2. CASE ~x.cleaned
    <2>1. Replayed(x) = [x EXCEPT !.pc = "open", !.scan = NoScan]
      BY <1>2 DEF Replayed
    <2>2. Replayed(x) \in Request
      BY <2>1, NoScanLemma DEF FitRequest, Request
    <2>3. /\ Replayed(x).pc = "open" /\ Replayed(x).scan = NoScan /\ Replayed(x).paused = x.paused
          /\ Replayed(x).p = x.p /\ Replayed(x).s = x.s /\ Replayed(x).buffer = x.buffer
          /\ Replayed(x).topics = x.topics /\ Replayed(x).ended = x.ended /\ Replayed(x).cleaned = x.cleaned
      BY <2>1 DEF FitRequest, Request
    <2>4. Replayed(x) \in FitRequest
      BY <2>2, <2>3, NoScanLemma, LimitsLemma DEF FitRequest
    <2> QED BY <1>2, <2>3, <2>4 DEF Follows
  <1> QED BY <1>1, <1>2

LEMMA ShiftLemma ==
    ASSUME NEW x \in FitRequest
    PROVE  /\ Follows(x, [x EXCEPT !.scan.shifted = TRUE])
           /\ [x EXCEPT !.scan.shifted = TRUE].scan = [x.scan EXCEPT !.shifted = TRUE]
  BY DEF Follows, FitRequest, Request, Scan

LEMMA ResumeLemma ==
    ASSUME NEW x \in FitRequest
    PROVE  /\ Follows(x, [x EXCEPT !.paused = FALSE, !.buffer = << >>])
           /\ [x EXCEPT !.paused = FALSE, !.buffer = << >>].scan = x.scan
           /\ [x EXCEPT !.paused = FALSE, !.buffer = << >>].pc = x.pc
           /\ [x EXCEPT !.paused = FALSE, !.buffer = << >>].topics = x.topics
           /\ [x EXCEPT !.paused = FALSE, !.buffer = << >>].ended = x.ended
           /\ [x EXCEPT !.paused = FALSE, !.buffer = << >>].cleaned = x.cleaned
           /\ ~[x EXCEPT !.paused = FALSE, !.buffer = << >>].paused
           /\ [x EXCEPT !.paused = FALSE, !.buffer = << >>].buffer = << >>
  <1> DEFINE y == [x EXCEPT !.paused = FALSE, !.buffer = << >>]
  <1>1. << >> \in Seq(Item) /\ Len(<< >>) = 0
    OBVIOUS
  <1>2. y \in Request
    BY <1>1 DEF FitRequest, Request
  <1>3. /\ y.scan = x.scan /\ y.pc = x.pc /\ y.topics = x.topics /\ y.ended = x.ended
        /\ y.cleaned = x.cleaned /\ ~y.paused /\ y.buffer = << >> /\ y.p = x.p /\ y.s = x.s
    BY DEF FitRequest, Request
  <1>4. y \in FitRequest
    BY <1>1, <1>2, <1>3, LimitsLemma DEF FitRequest
  <1> QED BY <1>3, <1>4 DEF Follows

-----------------------------------------------------------------------------
\* Who is connected where

\* Requests and sessions are opened in order.
InSequence ==
    /\ \A r \in Requests : \A q \in 1 .. r : Opened(r) => Opened(q)
    /\ \A s \in Sessions : \A t \in 1 .. s : sess[s] # NoSession => sess[t] # NoSession

\* A connection in a hub is of a running request that registered it there.
Connected(p, s, r) ==
    /\ Opened(r) /\ req[r].p = p /\ req[r].s = s
    /\ req[r].pc \in {"page", "send", "open"} /\ ~req[r].ended /\ ~req[r].cleaned

HubOK == \A p \in Processes, s \in Sessions : hub[p][s] # 0 => Connected(p, s, hub[p][s])

\* Requests and changes of topics are of sessions that were opened.
SessionsKnown ==
    /\ \A r \in Requests : Opened(r) => sess[req[r].s] # NoSession
    /\ \A c \in Controls : ctl[c] # NoControl => sess[ctl[c].s] # NoSession

\* Each event gets one number, when it arrives, and is stored under it.
NumbersOnce ==
    /\ \A m, n \in 1 .. seqno : event[m] = event[n] => m = n
    /\ \A n \in 1 .. seqno : event[n] \in arrived
    /\ \A p \in Processes : disp[p].step = "store" =>
            disp[p].n \in 1 .. seqno /\ event[disp[p].n] = disp[p].e

\* Nothing has happened to a request in its handshake.
Fresh ==
    \A r \in Requests : req[r].pc \in {"claim", "register"} =>
        /\ ~req[r].ended /\ ~req[r].cleaned /\ ~req[r].paused
        /\ req[r].buffer = << >> /\ req[r].scan.found = << >> /\ req[r].scan.missing = {}

ShapeInv ==
    /\ TypeOK
    /\ InSequence /\ HubOK /\ SessionsKnown /\ NumbersOnce /\ Fresh
    /\ cur # 0 => Opened(cur)

\* The parts of TypeOK.
LogOK ==
    /\ seqno \in {0} \cup Numbers /\ event \in [1 .. seqno -> Public]
    /\ index \cup keys \subseteq 1 .. seqno /\ Cardinality(index) <= MaxIndex

DispatchOK == disp \in [Processes -> {Resting} \cup Dispatch] /\ arrived \subseteq Events

SessionsOK ==
    /\ sess \in [Sessions -> Session]
    /\ \A s \in Sessions : Cardinality(sess[s].topics) <= MaxTopics

ControlsOK == ctl \in [Controls -> {NoControl} \cup Control]

RequestsOK == req \in [Requests -> {NoRequest} \cup FitRequest]

HubsOK == hub \in [Processes -> [Sessions -> {0} \cup Requests]]

ClientOK ==
    /\ cur \in {0} \cup Requests /\ last \in {0} \cup Numbers /\ got \subseteq Events

HistoryOK ==
    /\ published \cup excused \subseteq Public
    /\ raced \cup stale \subseteq Requests /\ unsure \subseteq Sessions

ExtrasOK == extras \in 0 .. MaxExtras

LEMMA PartsLemma ==
    TypeOK <=> /\ LogOK /\ DispatchOK /\ SessionsOK /\ ControlsOK /\ RequestsOK
               /\ HubsOK /\ ClientOK /\ HistoryOK /\ ExtrasOK
  <1>1. TypeOK => RequestsOK
    BY RequestLemma DEF RequestsOK
  <1>2. RequestsOK => /\ req \in [Requests -> {NoRequest} \cup Request]
                      /\ \A r \in Requests : req[r] # NoRequest =>
                            Len(req[r].scan.found) <= MaxReplay /\ Len(req[r].buffer) <= MaxBuffer
    BY RequestsFit DEF RequestsOK
  <1> QED BY <1>1, <1>2 DEF TypeOK, LogOK, DispatchOK, SessionsOK, ControlsOK, HubsOK, ClientOK,
                            HistoryOK, ExtrasOK

\* The sessions and the requests that were opened are the first ones.
LEMMA CookieLemma ==
    ASSUME TypeOK, InSequence
    PROVE  /\ Cookie \in 0 .. MaxSessions
           /\ \A s \in Sessions : sess[s] # NoSession <=> s <= Cookie
  <1> DEFINE S == {s \in Sessions : sess[s] # NoSession}
  <1>1. MaxSessions \in Nat /\ S \in SUBSET (1 .. MaxSessions)
    BY Bounds DEF Sessions
  <1>2. \A n \in S : 1 .. n \subseteq S
    <2> SUFFICES ASSUME NEW n \in S, NEW m \in 1 .. n PROVE m \in S
      OBVIOUS
    <2>1. n \in Sessions /\ m \in Sessions
      BY <1>1 DEF Sessions
    <2> QED BY <2>1 DEF InSequence
  <1>3. Cookie = Cardinality(S)
    BY DEF Cookie
  <1> HIDE DEF S
  <1>4. Cardinality(S) \in 0 .. MaxSessions /\ S = 1 .. Cardinality(S)
    BY <1>1, <1>2, SegmentLemma
  <1>5. \A s \in Sessions : s \in S <=> s <= Cookie
    BY <1>1, <1>3, <1>4 DEF Sessions
  <1> QED BY <1>3, <1>4, <1>5 DEF S

LEMMA AskedLemma ==
    ASSUME TypeOK, InSequence
    PROVE  /\ Asked \in 0 .. MaxRequests
           /\ \A r \in Requests : Opened(r) <=> r <= Asked
  <1> DEFINE S == {r \in Requests : req[r] # NoRequest}
  <1>1. MaxRequests \in Nat /\ S \in SUBSET (1 .. MaxRequests)
    BY Bounds DEF Requests
  <1>2. \A n \in S : 1 .. n \subseteq S
    <2> SUFFICES ASSUME NEW n \in S, NEW m \in 1 .. n PROVE m \in S
      OBVIOUS
    <2>1. n \in Requests /\ m \in Requests
      BY <1>1 DEF Requests
    <2> QED BY <2>1 DEF InSequence, Opened
  <1>3. Asked = Cardinality(S)
    BY DEF Asked
  <1> HIDE DEF S
  <1>4. Cardinality(S) \in 0 .. MaxRequests /\ S = 1 .. Cardinality(S)
    BY <1>1, <1>2, SegmentLemma
  <1>5. \A r \in Requests : r \in S <=> r <= Asked
    BY <1>1, <1>3, <1>4 DEF Requests
  <1> QED BY <1>3, <1>4, <1>5 DEF S, Opened

LEMMA RegisteredLemma ==
    ASSUME ShapeInv, NEW r \in {0} \cup Requests, Registered(r)
    PROVE  r \in Requests /\ Connected(req[r].p, req[r].s, r) /\ req[r] \in FitRequest
  <1>1. r \in Requests /\ Opened(r) /\ hub[req[r].p][req[r].s] = r
    BY DEF Registered, Holder, Opened
  <1>2. req[r] \in FitRequest
    BY <1>1, RequestLemma DEF ShapeInv
  <1>3. req[r].p \in Processes /\ req[r].s \in Sessions
    BY <1>2 DEF FitRequest, Request
  <1> QED BY <1>1, <1>2, <1>3, Bounds DEF ShapeInv, HubOK

LEMMA InitShape == Init => ShapeInv
  <1> SUFFICES ASSUME Init PROVE ShapeInv
    OBVIOUS
  <1>1. LogOK
    <2>1. event \in [1 .. seqno -> Public]
      BY DEF Init
    <2>2. Cardinality(index) = 0
      BY FS_EmptySet DEF Init
    <2> QED BY <2>1, <2>2, Bounds DEF Init, LogOK
  <1>2. DispatchOK /\ ControlsOK /\ RequestsOK /\ HubsOK /\ ClientOK /\ HistoryOK
    BY DEF Init, DispatchOK, ControlsOK, RequestsOK, HubsOK, ClientOK, HistoryOK
  <1>3. SessionsOK
    <2>1. Cardinality({}) <= MaxTopics
      BY FS_EmptySet, Bounds
    <2>2. NoSession \in Session /\ NoSession.topics = {}
      BY DEF NoSession, Session
    <2>3. \A s \in Sessions : sess[s] = NoSession
      BY DEF Init
    <2> QED BY <2>1, <2>2, <2>3 DEF Init, SessionsOK
  <1>4. ExtrasOK
    BY Bounds DEF Init, ExtrasOK
  <1>5. TypeOK
    BY <1>1, <1>2, <1>3, <1>4, PartsLemma
  <1>6. InSequence
    <2>1. \A r \in Requests : ~Opened(r)
      BY DEF Init, Opened
    <2>2. \A s \in Sessions : sess[s] = NoSession
      BY DEF Init
    <2> QED BY <2>1, <2>2 DEF InSequence
  <1>7. HubOK /\ SessionsKnown /\ NumbersOnce /\ Fresh /\ cur = 0
    BY DEF Init, HubOK, SessionsKnown, NumbersOnce, Opened, Resting, Fresh, NoRequest
  <1> QED BY <1>5, <1>6, <1>7 DEF ShapeInv

-----------------------------------------------------------------------------
\* What the operators on requests, hubs and the client do

\* The requests R are ended and out of the hubs.
LEMMA ClosedLemma ==
    ASSUME TypeOK, NEW R, \A r \in Requests : r \in R => Opened(r)
    PROVE  /\ Ended(R) \in [Requests -> {NoRequest} \cup FitRequest]
           /\ \A r \in Requests : /\ r \notin R => Ended(R)[r] = req[r]
                                  /\ r \in R => Ended(R)[r] = [req[r] EXCEPT !.ended = TRUE]
           /\ 0 \notin R => Without(R) \in [Processes -> [Sessions -> {0} \cup Requests]]
           /\ \A p \in Processes, s \in Sessions :
                /\ hub[p][s] \notin R => Without(R)[p][s] = hub[p][s]
                /\ hub[p][s] \in R => Without(R)[p][s] = 0
  <1>1. \A r \in Requests : r \in R => [req[r] EXCEPT !.ended = TRUE] \in FitRequest
    BY RequestLemma, EndLemma DEF Follows
  <1>2. Ended(R) \in [Requests -> {NoRequest} \cup FitRequest]
    BY <1>1, RequestLemma DEF Ended
  <1>3. Without(R) \in [Processes -> [Sessions -> {0} \cup Requests]]
    BY DEF Without, TypeOK
  <1> QED BY <1>2, <1>3 DEF Ended, Without

\* What reading a batch from a request does to the client.
LEMMA ReadsLemma ==
    ASSUME TypeOK, NEW r, NEW b \in Seq(Item), Reads(r, b)
    PROVE  \/ /\ UNCHANGED client
              /\ ~(cur = r /\ r # 0 /\ ~req[r].ended) \/ b = << >>
           \/ /\ cur = r /\ r # 0 /\ ~req[r].ended
              /\ \E k \in 1 .. Len(b) :
                    /\ got' = got \cup {b[i].e : i \in 1 .. k}
                    /\ last' = b[k].id
                    /\ cur' = IF k < Len(b) THEN 0 ELSE cur
  <1>1. DOMAIN b = 1 .. Len(b)
    OBVIOUS
  <1>2. CASE cur = r /\ r # 0 /\ ~req[r].ended /\ b # << >>
    BY <1>1, <1>2 DEF Reads
  <1>3. CASE ~(cur = r /\ r # 0 /\ ~req[r].ended /\ b # << >>)
    BY <1>3 DEF Reads
  <1> QED BY <1>2, <1>3

LEMMA ReadsType ==
    ASSUME TypeOK, NEW r, NEW b \in Seq(Item), Reads(r, b)
    PROVE  ClientOK' /\ cur' \in {0, cur}
  <1>1. CASE UNCHANGED client
    BY <1>1 DEF client, TypeOK, ClientOK
  <1>2. CASE \E k \in 1 .. Len(b) :
                    /\ got' = got \cup {b[i].e : i \in 1 .. k}
                    /\ last' = b[k].id
                    /\ cur' = IF k < Len(b) THEN 0 ELSE cur
    <2>1. PICK k \in 1 .. Len(b) :
                    /\ got' = got \cup {b[i].e : i \in 1 .. k}
                    /\ last' = b[k].id
                    /\ cur' = IF k < Len(b) THEN 0 ELSE cur
      BY <1>2
    <2>2. \A i \in 1 .. k : b[i] \in Item
      OBVIOUS
    <2>3. b[k] \in Item
      OBVIOUS
    <2> QED BY <2>1, <2>2, <2>3 DEF TypeOK, ClientOK, Item
  <1> QED BY <1>1, <1>2, ReadsLemma

\* The requests a published event changes are held back or fall behind.
HeldBack(r, e, id) ==
    /\ Registered(r) /\ req[r].paused /\ Matches(e, req[r].topics)
    /\ Len(req[r].buffer) < MaxBuffer
    /\ req'[r] = [req[r] EXCEPT !.buffer = Append(req[r].buffer, [e |-> e, id |-> id])]

FallsBehind(r) ==
    /\ Registered(r) /\ req[r].paused
    /\ req'[r] = [req[r] EXCEPT !.ended = TRUE]

LEMMA AppendLemma ==
    ASSUME NEW x \in FitRequest, NEW i \in Item, Len(x.buffer) < MaxBuffer
    PROVE  Follows(x, [x EXCEPT !.buffer = Append(x.buffer, i)])
  <1>1. /\ Append(x.buffer, i) \in Seq(Item)
        /\ Len(Append(x.buffer, i)) = Len(x.buffer) + 1
    BY DEF FitRequest, Request
  <1>2. Len(x.buffer) + 1 <= MaxBuffer
    <2>1. Len(x.buffer) \in Nat
      BY DEF FitRequest, Request
    <2> QED BY <2>1, Bounds
  <1>3. [x EXCEPT !.buffer = Append(x.buffer, i)] \in Request
    BY <1>1 DEF FitRequest, Request
  <1>4. /\ [x EXCEPT !.buffer = Append(x.buffer, i)].buffer = Append(x.buffer, i)
        /\ [x EXCEPT !.buffer = Append(x.buffer, i)].scan = x.scan
        /\ [x EXCEPT !.buffer = Append(x.buffer, i)].p = x.p
        /\ [x EXCEPT !.buffer = Append(x.buffer, i)].s = x.s
    BY DEF FitRequest, Request
  <1> QED BY <1>1, <1>2, <1>3, <1>4 DEF FitRequest, Follows

LEMMA PublishesLemma ==
    ASSUME ShapeInv, NEW P, NEW e \in Events, NEW id \in {0} \cup Numbers, HubPublish(P, e, id)
    PROVE  /\ RequestsOK' /\ HubsOK' /\ ClientOK'
           /\ \A r \in Requests : req'[r] = req[r] \/ HeldBack(r, e, id) \/ FallsBehind(r)
           /\ \A p \in Processes, s \in Sessions : hub'[p][s] # 0 =>
                /\ hub'[p][s] = hub[p][s]
                /\ req'[hub[p][s]] = req[hub[p][s]] \/ HeldBack(hub[p][s], e, id)
           /\ cur' = cur
           /\ \/ got' = got /\ last' = last
              \/ Registered(cur) /\ ~req[cur].paused /\ got' = got \cup {e} /\ last' = id
  <1> DEFINE i == [e |-> e, id |-> id]
             hit == {r \in Requests : Registered(r) /\ req[r].p \in P /\ Matches(e, req[r].topics)}
             full == {r \in hit : req[r].paused /\ Len(req[r].buffer) >= MaxBuffer}
  <1>0. TypeOK
    BY DEF ShapeInv
  <1>1. i \in Item
    BY DEF Item
  <1>2. /\ req' = [r \in Requests |->
                    CASE r \in full -> [req[r] EXCEPT !.ended = TRUE]
                      [] r \in hit \ full /\ req[r].paused -> [req[r] EXCEPT !.buffer = Append(@, i)]
                      [] OTHER -> req[r]]
        /\ hub' = Without(full)
        /\ IF cur \in hit /\ ~req[cur].paused THEN Reads(cur, <<i>>) ELSE UNCHANGED client
    BY Zenon DEF HubPublish
  <1>3. \A r \in hit : r \in Requests /\ Registered(r) /\ Opened(r) /\ req[r] \in FitRequest
    BY RequestLemma, <1>0 DEF Registered, Opened
  <1>4. ASSUME NEW r \in full
        PROVE  FallsBehind(r) /\ req'[r] \in FitRequest
    <2>1. r \in hit /\ r \in Requests
      OBVIOUS
    <2>2. req'[r] = [req[r] EXCEPT !.ended = TRUE]
      BY <1>2, <2>1, <1>4
    <2>3. [req[r] EXCEPT !.ended = TRUE] \in FitRequest
      BY <1>3, <2>1, EndLemma DEF Follows
    <2> QED BY <1>3, <2>1, <2>2, <2>3 DEF FallsBehind
  <1>5. ASSUME NEW r \in hit, r \notin full, req[r].paused
        PROVE  HeldBack(r, e, id) /\ req'[r] \in FitRequest
    <2>1. r \in Requests /\ Registered(r) /\ req[r] \in FitRequest
      BY <1>3
    <2>2. req'[r] = [req[r] EXCEPT !.buffer = Append(req[r].buffer, i)]
      BY <1>2, <1>5, <2>1
    <2>3. Len(req[r].buffer) < MaxBuffer
      <3>1. Len(req[r].buffer) \in Nat
        BY <2>1 DEF FitRequest, Request
      <3>2. ~(Len(req[r].buffer) >= MaxBuffer)
        BY <1>5
      <3> QED BY <3>1, <3>2, Bounds
    <2>4. [req[r] EXCEPT !.buffer = Append(req[r].buffer, i)] \in FitRequest
      BY <2>1, <2>3, <1>1, AppendLemma DEF Follows
    <2> QED BY <1>5, <2>1, <2>2, <2>3, <2>4 DEF HeldBack
  <1>6. ASSUME NEW r \in Requests, r \notin hit \/ ~req[r].paused
        PROVE  req'[r] = req[r] /\ r \notin full
    <2>1. r \notin full
      BY <1>6
    <2> QED BY <1>2, <1>6, <2>1
  <1>7. RequestsOK'
    <2>1. \A r \in Requests : req'[r] \in {NoRequest} \cup FitRequest
      BY <1>0, <1>4, <1>5, <1>6, RequestLemma
    <2> QED BY <1>2, <2>1 DEF RequestsOK
  <1> HIDE DEF i, hit
  <1>8. \A r \in Requests : r \in full => Opened(r)
    BY <1>3
  <1>9. 0 \notin full
    BY <1>3, Bounds
  <1>10. HubsOK' /\ \A p \in Processes, s \in Sessions : hub'[p][s] # 0 => hub'[p][s] = hub[p][s] /\ hub[p][s] \notin full
    <2>1. HubsOK'
      BY <1>0, <1>2, <1>8, <1>9, ClosedLemma DEF HubsOK
    <2>2. \A p \in Processes, s \in Sessions : hub'[p][s] # 0 => hub'[p][s] = hub[p][s] /\ hub[p][s] \notin full
      BY <1>0, <1>2, <1>8, ClosedLemma
    <2> QED BY <2>1, <2>2
  <1>11. \A p \in Processes, s \in Sessions : hub'[p][s] # 0 =>
                /\ hub'[p][s] = hub[p][s]
                /\ req'[hub[p][s]] = req[hub[p][s]] \/ HeldBack(hub[p][s], e, id)
    <2> SUFFICES ASSUME NEW p \in Processes, NEW s \in Sessions, hub'[p][s] # 0
                 PROVE  /\ hub'[p][s] = hub[p][s]
                        /\ req'[hub[p][s]] = req[hub[p][s]] \/ HeldBack(hub[p][s], e, id)
      OBVIOUS
    <2>1. hub'[p][s] = hub[p][s] /\ hub[p][s] \notin full /\ hub[p][s] \in Requests
      BY <1>0, <1>10 DEF TypeOK
    <2> QED BY <1>5, <1>6, <2>1
  <1>12. /\ ClientOK' /\ cur' = cur
         /\ \/ got' = got /\ last' = last
            \/ Registered(cur) /\ ~req[cur].paused /\ got' = got \cup {e} /\ last' = id
    <2>1. CASE cur \in hit /\ ~req[cur].paused
      <3>1. Reads(cur, <<i>>) /\ <<i>> \in Seq(Item) /\ Len(<<i>>) = 1 /\ <<i>>[1] = i
        BY <1>1, <1>2, <2>1
      <3>2. ClientOK'
        BY <1>0, <3>1, ReadsType
      <3>3. CASE UNCHANGED client
        BY <3>2, <3>3 DEF client
      <3>4. CASE \E k \in 1 .. Len(<<i>>) :
                    /\ got' = got \cup {<<i>>[j].e : j \in 1 .. k}
                    /\ last' = <<i>>[k].id
                    /\ cur' = IF k < Len(<<i>>) THEN 0 ELSE cur
        <4>1. /\ got' = got \cup {<<i>>[j].e : j \in 1 .. 1}
              /\ last' = <<i>>[1].id
              /\ cur' = cur
          BY <3>1, <3>4
        <4>2. i.e = e /\ i.id = id
          BY DEF i
        <4>3. got' = got \cup {e} /\ last' = id
          BY <3>1, <4>1, <4>2
        <4> QED BY <1>3, <2>1, <3>2, <4>1, <4>3
      <3> QED BY <1>0, <3>1, <3>3, <3>4, ReadsLemma
    <2>2. CASE ~(cur \in hit /\ ~req[cur].paused)
      <3>1. UNCHANGED client
        BY <1>2, <2>2
      <3> QED BY <1>0, <3>1 DEF client, ClientOK, TypeOK
    <2> QED BY <2>1, <2>2
  <1>13. \A r \in Requests : req'[r] = req[r] \/ HeldBack(r, e, id) \/ FallsBehind(r)
    BY <1>4, <1>5, <1>6
  <1> QED BY <1>7, <1>10, <1>11, <1>12, <1>13

-----------------------------------------------------------------------------
\* Most steps open and register no request and get none through its handshake.

Past == {"register", "page", "send", "open", "closed"}
Waiting == {"claim", "register"}
Running == {"page", "send", "open"}

RequestsFollow ==
    \A r \in Requests :
        /\ ~Opened(r) => req'[r] = req[r]
        /\ Opened(r) => Follows(req[r], req'[r])

\* Nobody is let in, and topics stay until a request is over.
Steady ==
    \A r \in Requests : Opened(r) =>
        /\ req'[r].pc \in Past <=> req[r].pc \in Past
        /\ req'[r].pc \in Waiting => req'[r].pc = req[r].pc
        /\ req'[r].pc \in Waiting \cup Running => req'[r].topics = req[r].topics

\* Connections are only taken out of the hubs.
HubsShrink ==
    \A p \in Processes, s \in Sessions : hub'[p][s] # 0 =>
        /\ hub'[p][s] = hub[p][s]
        /\ LET y == req'[hub[p][s]] IN y.pc \in Running /\ ~y.ended /\ ~y.cleaned

\* Nothing happens to requests in their handshake.
Untouched(x, y) ==
    y.pc \in Waiting =>
        /\ x.pc \in Waiting /\ y.ended = x.ended /\ y.cleaned = x.cleaned
        /\ y.paused = x.paused /\ y.buffer = x.buffer /\ y.scan = x.scan

WaitersWait == \A r \in Requests : Opened(r) => Untouched(req[r], req'[r])

KeepsShape == RequestsOK' /\ HubsOK' /\ RequestsFollow /\ WaitersWait /\ HubsShrink

KeepsRequests == KeepsShape /\ Steady

LEMMA SameFollows == \A x \in FitRequest : Follows(x, x)
  BY DEF Follows

LEMMA HubLemma ==
    ASSUME ShapeInv, NEW p \in Processes, NEW s \in Sessions, hub[p][s] # 0
    PROVE  /\ hub[p][s] \in Requests /\ Opened(hub[p][s]) /\ req[hub[p][s]] \in FitRequest
           /\ Connected(p, s, hub[p][s])
  <1>1. hub[p][s] \in {0} \cup Requests
    BY DEF ShapeInv, TypeOK
  <1>2. Connected(p, s, hub[p][s])
    BY DEF ShapeInv, HubOK
  <1> QED BY <1>1, <1>2, RequestLemma DEF Connected, ShapeInv

LEMMA KeepUnchanged ==
    ASSUME ShapeInv, UNCHANGED <<req, hub>>
    PROVE  KeepsRequests
  <1>1. RequestsOK' /\ HubsOK'
    BY RequestLemma DEF ShapeInv, TypeOK, RequestsOK, HubsOK
  <1>2. RequestsFollow /\ Steady /\ WaitersWait
    BY RequestLemma, SameFollows DEF ShapeInv, RequestsFollow, Steady, WaitersWait, Untouched
  <1>3. HubsShrink
    BY HubLemma DEF HubsShrink, Connected, Running
  <1> QED BY <1>1, <1>2, <1>3 DEF KeepsRequests, KeepsShape

LEMMA KeepPublishes ==
    ASSUME ShapeInv, NEW P, NEW e \in Events, NEW id \in {0} \cup Numbers, HubPublish(P, e, id)
    PROVE  KeepsRequests
  <1>1. [e |-> e, id |-> id] \in Item
    BY DEF Item
  <1>2. ASSUME NEW r \in Requests, HeldBack(r, e, id)
        PROVE  /\ Opened(r) /\ Follows(req[r], req'[r]) /\ req'[r].pc = req[r].pc
               /\ req'[r].topics = req[r].topics /\ req'[r].ended = req[r].ended
               /\ req'[r].cleaned = req[r].cleaned /\ req[r].pc \in Running
    <2>1. req[r] \in FitRequest /\ Opened(r)
      BY <1>2, RegisteredLemma DEF HeldBack, Connected
    <2>3. req[r].pc \in Running
      BY <1>2, RegisteredLemma DEF HeldBack, Connected, Running
    <2>2. Follows(req[r], req'[r])
      BY <1>1, <1>2, <2>1, AppendLemma DEF HeldBack
    <2> QED BY <1>2, <2>1, <2>2, <2>3 DEF HeldBack, FitRequest, Request
  <1>3. ASSUME NEW r \in Requests, FallsBehind(r)
        PROVE  /\ Opened(r) /\ Follows(req[r], req'[r]) /\ req'[r].pc = req[r].pc
               /\ req'[r].topics = req[r].topics /\ req[r].pc \in Running
    <2>1. req[r] \in FitRequest /\ Opened(r)
      BY <1>3, RegisteredLemma DEF FallsBehind, Connected
    <2>2. req[r].pc \in Running
      BY <1>3, RegisteredLemma DEF FallsBehind, Connected, Running
    <2> QED BY <1>3, <2>1, <2>2, EndLemma DEF FallsBehind, FitRequest, Request
  <1>4. RequestsFollow /\ Steady /\ WaitersWait
    <2> SUFFICES ASSUME NEW r \in Requests
                 PROVE  /\ ~Opened(r) => req'[r] = req[r]
                        /\ Opened(r) => /\ Follows(req[r], req'[r]) /\ req'[r].pc = req[r].pc
                                        /\ req'[r].topics = req[r].topics
                                        /\ req'[r] = req[r] \/ req[r].pc \in Running
      BY DEF RequestsFollow, Steady, WaitersWait, Untouched, Waiting, Running
    <2>1. req'[r] = req[r] \/ HeldBack(r, e, id) \/ FallsBehind(r)
      BY PublishesLemma
    <2>2. CASE req'[r] = req[r]
      BY <2>2, RequestLemma, SameFollows DEF ShapeInv
    <2> QED BY <1>2, <1>3, <2>1, <2>2
  <1>5. HubsShrink
    <2> SUFFICES ASSUME NEW p \in Processes, NEW s \in Sessions, hub'[p][s] # 0
                 PROVE  /\ hub'[p][s] = hub[p][s]
                        /\ LET y == req'[hub[p][s]] IN y.pc \in Running /\ ~y.ended /\ ~y.cleaned
      BY DEF HubsShrink
    <2>1. /\ hub'[p][s] = hub[p][s]
          /\ req'[hub[p][s]] = req[hub[p][s]] \/ HeldBack(hub[p][s], e, id)
      BY PublishesLemma
    <2>2. hub[p][s] \in Requests /\ Connected(p, s, hub[p][s])
      BY <2>1, HubLemma
    <2> QED BY <1>2, <2>1, <2>2 DEF Connected, Running
  <1>6. RequestsOK' /\ HubsOK'
    BY PublishesLemma
  <1> QED BY <1>4, <1>5, <1>6 DEF KeepsRequests, KeepsShape

\* The connections of R are closed.
LEMMA KeepClosed ==
    ASSUME ShapeInv, NEW R \in SUBSET Requests, \A r \in R : Opened(r) /\ req[r].pc \in Running,
           req' = Ended(R), hub' = Without(R)
    PROVE  KeepsRequests
  <1>0. TypeOK /\ 0 \notin R
    BY Bounds DEF ShapeInv
  <1>1. RequestsOK' /\ HubsOK'
    BY <1>0, ClosedLemma DEF RequestsOK, HubsOK
  <1>2. \A r \in Requests : /\ r \notin R => req'[r] = req[r]
                            /\ r \in R => req'[r] = [req[r] EXCEPT !.ended = TRUE]
    BY <1>0, ClosedLemma
  <1>3. RequestsFollow /\ Steady /\ WaitersWait
    <2> SUFFICES ASSUME NEW r \in Requests
                 PROVE  /\ ~Opened(r) => req'[r] = req[r]
                        /\ Opened(r) => /\ Follows(req[r], req'[r]) /\ req'[r].pc = req[r].pc
                                        /\ req'[r].topics = req[r].topics
                                        /\ req'[r] = req[r] \/ req[r].pc \in Running
      BY DEF RequestsFollow, Steady, WaitersWait, Untouched, Waiting, Running
    <2>1. CASE r \notin R
      BY <1>0, <1>2, <2>1, RequestLemma, SameFollows
    <2>2. CASE r \in R
      <3>1. req[r] \in FitRequest
        BY <1>0, <2>2, RequestLemma
      <3> QED BY <1>2, <2>2, <3>1, EndLemma DEF FitRequest, Request
    <2> QED BY <2>1, <2>2
  <1>4. HubsShrink
    <2> SUFFICES ASSUME NEW p \in Processes, NEW s \in Sessions, hub'[p][s] # 0
                 PROVE  /\ hub'[p][s] = hub[p][s]
                        /\ LET y == req'[hub[p][s]] IN y.pc \in Running /\ ~y.ended /\ ~y.cleaned
      BY DEF HubsShrink
    <2>1. hub'[p][s] = hub[p][s] /\ hub[p][s] \notin R
      BY <1>0, ClosedLemma
    <2>2. hub[p][s] \in Requests /\ Connected(p, s, hub[p][s])
      BY <2>1, HubLemma
    <2> QED BY <1>2, <2>1, <2>2 DEF Connected, Running
  <1> QED BY <1>1, <1>3, <1>4 DEF KeepsRequests, KeepsShape

\* A scan from which a page was taken away.
Moved(x) == [x EXCEPT !.shifted = TRUE]

LEMMA MovedLemma ==
    ASSUME NEW x \in Scan
    PROVE  /\ Moved(x).from = x.from /\ Moved(x).topics = x.topics /\ Moved(x).offset = x.offset
           /\ Moved(x).found = x.found /\ Moved(x).missing = x.missing /\ Moved(x).shifted
  BY DEF Moved, Scan

\* The requests whose scan is shifted.
LEMMA ShiftedLemma ==
    ASSUME TypeOK, NEW S, NEW r \in Requests
    PROVE  /\ Shifted(S)[r] \in {NoRequest} \cup FitRequest
           /\ req[r].pc # "page" => Shifted(S)[r] = req[r]
           /\ Opened(r) =>
                /\ Follows(req[r], Shifted(S)[r])
                /\ Shifted(S)[r].pc = req[r].pc /\ Shifted(S)[r].topics = req[r].topics
                /\ Shifted(S)[r].ended = req[r].ended /\ Shifted(S)[r].cleaned = req[r].cleaned
                /\ Shifted(S)[r].paused = req[r].paused /\ Shifted(S)[r].buffer = req[r].buffer
                /\ \/ Shifted(S)[r].scan = req[r].scan
                      /\ (req[r].pc = "page" => \A n \in S : ~(n > req[r].scan.from))
                   \/ Shifted(S)[r].scan = Moved(req[r].scan)
  <1>1. CASE req[r].pc = "page" /\ \E n \in S : n > req[r].scan.from
    <2>1. req[r] \in FitRequest
      BY <1>1, RequestLemma
    <2>2. Shifted(S)[r] = [req[r] EXCEPT !.scan.shifted = TRUE]
      BY <1>1 DEF Shifted
    <2>3. /\ Shifted(S)[r].pc = req[r].pc /\ Shifted(S)[r].topics = req[r].topics
          /\ Shifted(S)[r].ended = req[r].ended /\ Shifted(S)[r].cleaned = req[r].cleaned
          /\ Shifted(S)[r].paused = req[r].paused /\ Shifted(S)[r].buffer = req[r].buffer
      BY <2>1, <2>2 DEF FitRequest, Request
    <2>4. /\ Follows(req[r], Shifted(S)[r])
          /\ Shifted(S)[r].scan = Moved(req[r].scan)
      BY <2>1, <2>2, ShiftLemma DEF Moved
    <2> QED BY <1>1, <2>3, <2>4 DEF Follows
  <1>2. CASE ~(req[r].pc = "page" /\ \E n \in S : n > req[r].scan.from)
    <2>1. Shifted(S)[r] = req[r]
      BY <1>2 DEF Shifted
    <2> QED BY <1>2, <2>1, RequestLemma, SameFollows
  <1> QED BY <1>1, <1>2

\* A step that leaves the hubs alone and keeps connected requests running.
LEMMA FollowInPlace ==
    ASSUME ShapeInv, hub' = hub, req' = [r \in Requests |-> req'[r]], RequestsFollow, WaitersWait,
           \A r \in Requests : Opened(r) /\ req[r].pc \in Running /\ ~req[r].ended /\ ~req[r].cleaned =>
               req'[r].pc \in Running /\ ~req'[r].ended /\ ~req'[r].cleaned
    PROVE  KeepsShape
  <1>1. RequestsOK'
    <2>1. \A r \in Requests : req'[r] \in {NoRequest} \cup FitRequest
      BY RequestLemma DEF ShapeInv, RequestsFollow, Follows, Opened
    <2> QED BY <2>1 DEF RequestsOK
  <1>2. HubsOK'
    BY DEF ShapeInv, TypeOK, HubsOK
  <1>3. HubsShrink
    BY HubLemma DEF HubsShrink, Connected, Running
  <1> QED BY <1>1, <1>2, <1>3 DEF KeepsShape

LEMMA KeepInPlace ==
    ASSUME ShapeInv, hub' = hub, req' = [r \in Requests |-> req'[r]], RequestsFollow, Steady, WaitersWait,
           \A r \in Requests : Opened(r) /\ req[r].pc \in Running /\ ~req[r].ended /\ ~req[r].cleaned =>
               req'[r].pc \in Running /\ ~req'[r].ended /\ ~req'[r].cleaned
    PROVE  KeepsRequests
  BY FollowInPlace DEF KeepsRequests

LEMMA KeepShifted ==
    ASSUME ShapeInv, NEW S, req' = Shifted(S), hub' = hub
    PROVE  KeepsRequests
  <1>0. TypeOK
    BY DEF ShapeInv
  <1>1. ASSUME NEW r \in Requests, Opened(r)
        PROVE  /\ req'[r].pc = req[r].pc /\ req'[r].topics = req[r].topics
               /\ req'[r].ended = req[r].ended /\ req'[r].cleaned = req[r].cleaned
    BY <1>0, <1>1, ShiftedLemma
  <1>2. req' = [r \in Requests |-> req'[r]]
    BY DEF Shifted
  <1>3. RequestsFollow
    BY <1>0, ShiftedLemma, RequestLemma DEF RequestsFollow, Opened
  <1>4. Steady
    BY <1>1 DEF Steady
  <1>5. WaitersWait
    <2>1. \A r \in Requests : req[r].pc # "page" => req'[r] = req[r]
      BY <1>0, ShiftedLemma
    <2> QED BY <1>1, <2>1 DEF WaitersWait, Untouched, Waiting
  <1> QED BY <1>1, <1>2, <1>3, <1>4, <1>5, KeepInPlace

LEMMA KeepStore ==
    ASSUME ShapeInv, NEW p \in Processes, Store(p)
    PROVE  KeepsRequests
  <1>1. PICK S : S = Trimmed(index \cup {disp[p].n})
    OBVIOUS
  <1>2. req' = Shifted(S) /\ hub' = hub
    BY <1>1 DEF Store
  <1> QED BY <1>2, KeepShifted

\* The index holds no more than its limit.
LEMMA TrimLemma ==
    ASSUME NEW I \in SUBSET Nat, IsFiniteSet(I)
    PROVE  Cardinality(I \ Trimmed(I)) <= MaxIndex
  <1> DEFINE K == I \ Trimmed(I)
  <1>1. K \in SUBSET Nat /\ K \in SUBSET I
    OBVIOUS
  <1>2. IsFiniteSet(K) /\ Cardinality(K) \in Nat
    BY <1>1, FS_Subset, FS_CardinalityType
  <1>3. CASE K = {}
    BY <1>3, FS_EmptySet, Bounds
  <1>4. CASE K # {}
    <2>1. PICK k \in K : \A n \in K : k <= n
      BY <1>1, <1>4, LeastLemma
    <2> DEFINE U == {m \in I : m > k}
    <2>2. ~(Cardinality(U) >= MaxIndex)
      BY <2>1 DEF Trimmed
    <2>3. U \in SUBSET I /\ IsFiniteSet(U) /\ Cardinality(U) \in Nat
      BY FS_Subset, FS_CardinalityType
    <2>4. K \ {k} \in SUBSET U
      <3>1. ASSUME NEW n \in K \ {k} PROVE n \in U
        <4>1. n \in Nat /\ k \in Nat /\ k <= n /\ n # k
          BY <2>1
        <4> QED BY <4>1
      <3> QED BY <3>1
    <2>5. Cardinality(K \ {k}) <= Cardinality(U)
      BY <2>3, <2>4, FS_Subset
    <2>6. Cardinality(K \ {k}) = Cardinality(K) - 1
      BY <1>2, FS_RemoveElement
    <2> HIDE DEF K, U
    <2>7. Cardinality(K) <= MaxIndex
      BY <1>2, <2>2, <2>3, <2>5, <2>6, Bounds
    <2> QED BY <2>7 DEF K
  <1> QED BY <1>3, <1>4

-----------------------------------------------------------------------------
\* The scan

LEMMA AheadLemma ==
    ASSUME TypeOK, NEW r \in Requests
    PROVE  /\ Ahead(r) \in SUBSET Numbers /\ Ahead(r) \in SUBSET Nat /\ IsFiniteSet(Ahead(r))
           /\ Cardinality(Ahead(r)) \in {0} \cup Numbers
           /\ Members(r) \in SUBSET Ahead(r) /\ IsFiniteSet(Members(r))
           /\ Members(r) = {n \in Ahead(r) :
                /\ req[r].scan.topics # {}
                /\ Cardinality(Below(Ahead(r), n)) \in
                        req[r].scan.offset .. req[r].scan.offset + Batch - 1}
  <1>1. seqno \in Nat /\ 1 .. seqno \in SUBSET Numbers
    BY Bounds DEF TypeOK, Numbers
  <1>2. Ahead(r) \in SUBSET (1 .. seqno)
    BY DEF TypeOK, Ahead
  <1>3. IsFiniteSet(1 .. seqno) /\ Cardinality(1 .. seqno) \in {0} \cup Numbers
    <2>1. 1 \in Int /\ seqno \in Int
      BY <1>1
    <2>2. Cardinality(1 .. seqno) = IF 1 > seqno THEN 0 ELSE seqno - 1 + 1
      BY <2>1, FS_Interval
    <2> QED BY <1>1, <2>1, <2>2, FS_Interval DEF TypeOK
  <1>4. IsFiniteSet(Ahead(r)) /\ Cardinality(Ahead(r)) <= Cardinality(1 .. seqno)
    BY <1>2, <1>3, FS_Subset
  <1>5. Cardinality(Ahead(r)) \in Nat
    BY <1>4, FS_CardinalityType
  <1>6. Members(r) \in SUBSET Ahead(r) /\ IsFiniteSet(Members(r))
    <2>1. Members(r) \in SUBSET Ahead(r)
      BY DEF Members
    <2> QED BY <1>4, <2>1, FS_Subset
  <1> QED BY <1>1, <1>2, <1>3, <1>4, <1>5, <1>6, Bounds DEF Members, Below, Numbers

\* A page of at most B numbers of A, those of the ranks from o.
LEMMA RanksLemma ==
    ASSUME NEW A \in SUBSET Nat, IsFiniteSet(A), NEW o \in Nat, NEW B \in Nat \ {0},
           NEW M, M = {n \in A : Cardinality(Below(A, n)) \in o .. o + B - 1}
    PROVE  /\ Cardinality(M) \in 0 .. B
           /\ M # {} => o + Cardinality(M) <= Cardinality(A)
           /\ M = {} => \A n \in A : Cardinality(Below(A, n)) < o
  <1>0. M \in SUBSET A /\ IsFiniteSet(M) /\ Cardinality(M) \in Nat /\ Cardinality(A) \in Nat
    BY FS_Subset, FS_CardinalityType
  <1> DEFINE f == [n \in M |-> Cardinality(Below(A, n))]
  <1>1. \A n \in M : f[n] \in o .. o + B - 1 /\ f[n] \in 0 .. Cardinality(A) - 1 /\ f[n] \in Nat
    BY RankLemma
  <1>2. \A m, n \in M : f[m] = f[n] => m = n
    <2> SUFFICES ASSUME NEW m \in M, NEW n \in M, m # n PROVE f[m] # f[n]
      OBVIOUS
    <2>1. m \in A /\ n \in A /\ m \in Nat /\ n \in Nat /\ f[m] \in Nat /\ f[n] \in Nat
      BY <1>1
    <2>2. CASE m < n
      BY <2>1, <2>2, RankLemma
    <2>3. CASE n < m
      BY <2>1, <2>3, RankLemma
    <2> QED BY <2>1, <2>2, <2>3
  <1>3. ASSUME NEW b \in Nat, \A n \in M : f[n] \in o .. b, o <= b + 1
        PROVE  Cardinality(M) <= b - o + 1
    <2>1. f \in [M -> o .. b]
      BY <1>3
    <2>2. f \in Injection(M, o .. b)
      BY <2>1, <1>2 DEF Injection, IsInjective
    <2>3. IsFiniteSet(o .. b) /\ Cardinality(o .. b) = IF o > b THEN 0 ELSE b - o + 1
      <3>1. o \in Int /\ b \in Int
        OBVIOUS
      <3> QED BY <3>1, FS_Interval
    <2> HIDE DEF f
    <2>4. Cardinality(M) <= Cardinality(o .. b)
      BY <2>2, <2>3, FS_Injection
    <2> QED BY <1>0, <1>3, <2>3, <2>4
  <1>4. Cardinality(M) \in 0 .. B
    <2>1. o + B - 1 \in Nat /\ o <= o + B - 1 + 1
      OBVIOUS
    <2>2. Cardinality(M) <= (o + B - 1) - o + 1
      BY <1>1, <1>3, <2>1
    <2> QED BY <1>0, <2>2
  <1>5. ASSUME M # {} PROVE o + Cardinality(M) <= Cardinality(A)
    <2>1. PICK n \in M : TRUE
      BY <1>5
    <2>2. f[n] \in o .. o + B - 1 /\ f[n] \in 0 .. Cardinality(A) - 1
      BY <1>1
    <2> HIDE DEF f
    <2>3. Cardinality(A) - 1 \in Nat /\ o <= Cardinality(A) - 1 + 1
      BY <1>0, <2>2
    <2>4. \A k \in M : f[k] \in o .. Cardinality(A) - 1
      BY <1>0, <1>1
    <2>5. Cardinality(M) <= (Cardinality(A) - 1) - o + 1
      BY <1>3, <2>3, <2>4
    <2> QED BY <1>0, <2>5
  <1>6. ASSUME M = {}, NEW n \in A PROVE Cardinality(Below(A, n)) < o
    <2> SUFFICES ASSUME ~(Cardinality(Below(A, n)) < o) PROVE FALSE
      OBVIOUS
    <2>1. Cardinality(Below(A, n)) \in 0 .. Cardinality(A) - 1
      BY RankLemma
    <2>2. o \in 0 .. Cardinality(A) - 1
      BY <1>0, <2>1
    <2>3. PICK k \in A : Cardinality(Below(A, k)) = o
      BY <2>2, RankLemma
    <2>4. k \in M
      BY <2>3
    <2> QED BY <1>6, <2>4
  <1> QED BY <1>4, <1>5, <1>6

\* A page moves the scan no further than the end of the index.
LEMMA OffsetLemma ==
    ASSUME TypeOK, NEW r \in Requests, Opened(r)
    PROVE  /\ Cardinality(Members(r)) \in 0 .. Batch /\ req[r].scan.offset \in Nat
           /\ req[r].scan.offset + Cardinality(Members(r)) \in {0} \cup Numbers
           /\ Members(r) # {} => req[r].scan.offset + Cardinality(Members(r)) <= Cardinality(Ahead(r))
           /\ Members(r) = {} /\ req[r].scan.topics # {} =>
                \A n \in Ahead(r) : Cardinality(Below(Ahead(r), n)) < req[r].scan.offset
  <1>1. PICK o : o = req[r].scan.offset
    OBVIOUS
  <1>2. PICK A : A = Ahead(r)
    OBVIOUS
  <1>3. o \in {0} \cup Numbers
    <2>1. req[r] \in Request
      BY RequestLemma DEF FitRequest
    <2> QED BY <1>1, <2>1 DEF Request, Scan
  <1>4. o \in Nat /\ Batch \in Nat \ {0}
    BY <1>3, Bounds
  <1>5. A \in SUBSET Nat /\ IsFiniteSet(A) /\ Cardinality(A) \in {0} \cup Numbers
    BY <1>2, AheadLemma
  <1>6. Cardinality(A) \in 0 .. Cardinality(Public)
    BY <1>5, Bounds DEF Numbers
  <1>7. CASE req[r].scan.topics = {}
    <2>1. Members(r) = {}
      BY <1>7, AheadLemma
    <2> QED BY <1>1, <1>3, <1>4, <1>7, <2>1, FS_EmptySet
  <1>8. CASE req[r].scan.topics # {}
    <2>1. PICK M : M = Members(r)
      OBVIOUS
    <2>2. M = {n \in A : Cardinality(Below(A, n)) \in o .. o + Batch - 1}
      BY <1>1, <1>2, <1>8, <2>1, AheadLemma
    <2>3. /\ Cardinality(M) \in 0 .. Batch
          /\ M # {} => o + Cardinality(M) <= Cardinality(A)
          /\ M = {} => \A n \in A : Cardinality(Below(A, n)) < o
      BY <1>4, <1>5, <2>2, RanksLemma
    <2>4. o + Cardinality(M) \in {0} \cup Numbers
      <3>1. CASE M = {}
        BY <1>3, <1>4, <3>1, FS_EmptySet
      <3>2. CASE M # {}
        BY <1>4, <1>6, <2>3, <3>2, Bounds DEF Numbers
      <3> QED BY <3>1, <3>2
    <2> QED BY <1>1, <1>2, <1>4, <2>1, <2>3, <2>4
  <1> QED BY <1>7, <1>8

\* The numbers that a page adds.
Good(r) == {n \in Members(r) \cap keys : Matches(event[n], req[r].scan.topics)}

LEMMA FoundLemma ==
    ASSUME TypeOK, NEW r \in Requests, Opened(r)
    PROVE  /\ Found(r) \in Seq(Item) /\ Len(Found(r)) <= MaxReplay
           /\ Good(r) \in SUBSET Nat /\ IsFiniteSet(Good(r)) /\ Cardinality(Good(r)) \in Nat
           /\ Len(req[r].scan.found) <= Len(Found(r))
           /\ Len(Found(r)) <= Len(req[r].scan.found) + Cardinality(Good(r))
           /\ Len(Found(r)) < MaxReplay => Len(Found(r)) = Len(req[r].scan.found) + Cardinality(Good(r))
           /\ \A i \in 1 .. Len(req[r].scan.found) : Found(r)[i] = req[r].scan.found[i]
           /\ \A i \in Len(req[r].scan.found) + 1 .. Len(Found(r)) :
                LET n == Sorted(Good(r))[i - Len(req[r].scan.found)]
                IN  n \in Good(r) /\ Found(r)[i].id = n /\ Found(r)[i].e = event[n]
  <1> DEFINE f == req[r].scan.found
             c == Cardinality(Good(r))
             g == [i \in 1 .. c |-> [e |-> event[Sorted(Good(r))[i]], id |-> Sorted(Good(r))[i]]]
             all == f \o g
             k == IF Len(all) < MaxReplay THEN Len(all) ELSE MaxReplay
  <1>1. f \in Seq(Item) /\ Len(f) <= MaxReplay /\ Len(f) \in Nat
    BY RequestLemma DEF FitRequest, Request, Scan
  <1>2. /\ Good(r) \in SUBSET Nat /\ Good(r) \in SUBSET Numbers /\ Good(r) \in SUBSET (1 .. seqno)
        /\ IsFiniteSet(Good(r)) /\ c \in Nat
    <2>1. Good(r) \in SUBSET Members(r)
      BY DEF Good
    <2>2. Good(r) \in SUBSET Ahead(r)
      BY <2>1, AheadLemma
    <2>3. Good(r) \in SUBSET (1 .. seqno)
      BY <2>2 DEF TypeOK, Ahead
    <2> QED BY <2>2, <2>3, AheadLemma, FS_Subset, FS_CardinalityType
  <1>3. Sorted(Good(r)) \in [1 .. c -> Good(r)]
    BY <1>2, SortedLemma
  <1>4. \A i \in 1 .. c : g[i] \in Item /\ g[i].id = Sorted(Good(r))[i] /\ g[i].e = event[Sorted(Good(r))[i]]
    <2> SUFFICES ASSUME NEW i \in 1 .. c
                 PROVE  g[i] \in Item /\ g[i].id = Sorted(Good(r))[i] /\ g[i].e = event[Sorted(Good(r))[i]]
      OBVIOUS
    <2>1. Sorted(Good(r))[i] \in Numbers /\ Sorted(Good(r))[i] \in 1 .. seqno
      BY <1>2, <1>3
    <2>2. event[Sorted(Good(r))[i]] \in Events
      BY <2>1 DEF TypeOK, Public
    <2> QED BY <2>1, <2>2 DEF Item
  <1>5. g \in Seq(Item) /\ Len(g) = c
    <2> HIDE DEF c
    <2>1. g \in [1 .. c -> Item]
      BY <1>4
    <2> QED BY <1>2, <2>1
  <1>6. Found(r) = SubSeq(all, 1, k)
    BY DEF Found, Good
  <1> HIDE DEF g, c, f
  <1>7. all \in Seq(Item) /\ Len(all) = Len(f) + c
    BY <1>1, <1>2, <1>5
  <1>8. \A i \in 1 .. Len(all) : all[i] = IF i <= Len(f) THEN f[i] ELSE g[i - Len(f)]
    BY <1>1, <1>5
  <1>9. k \in Nat /\ k <= Len(all) /\ k <= MaxReplay /\ Len(f) <= k /\ (k < MaxReplay => k = Len(all))
    BY <1>1, <1>2, <1>7, Bounds
  <1> HIDE DEF all, k
  <1>10. /\ Found(r) \in Seq(Item) /\ Len(Found(r)) = k
         /\ \A i \in 1 .. k : Found(r)[i] = all[i]
    BY <1>6, <1>7, <1>9
  <1>11. \A i \in 1 .. Len(f) : Found(r)[i] = f[i]
    <2> SUFFICES ASSUME NEW i \in 1 .. Len(f) PROVE Found(r)[i] = f[i]
      OBVIOUS
    <2>1. i \in 1 .. k /\ i \in 1 .. Len(all) /\ i <= Len(f)
      BY <1>1, <1>7, <1>9
    <2> QED BY <1>8, <1>10, <2>1
  <1>12. ASSUME NEW i \in Len(f) + 1 .. k
         PROVE  /\ Sorted(Good(r))[i - Len(f)] \in Good(r)
                /\ Found(r)[i].id = Sorted(Good(r))[i - Len(f)]
                /\ Found(r)[i].e = event[Sorted(Good(r))[i - Len(f)]]
    <2>1. i \in 1 .. k /\ i \in 1 .. Len(all) /\ ~(i <= Len(f)) /\ i - Len(f) \in 1 .. c
      BY <1>1, <1>2, <1>7, <1>9
    <2>2. Found(r)[i] = g[i - Len(f)]
      BY <1>8, <1>10, <2>1
    <2> QED BY <1>3, <1>4, <2>1, <2>2 DEF g
  <1>13. /\ Len(f) <= Len(Found(r)) /\ Len(Found(r)) <= Len(f) + c /\ Len(Found(r)) <= MaxReplay
         /\ Len(Found(r)) < MaxReplay => Len(Found(r)) = Len(f) + c
    BY <1>7, <1>9, <1>10
  <1> QED BY <1>2, <1>10, <1>11, <1>12, <1>13 DEF f, c

LEMMA KeepPage ==
    ASSUME ShapeInv, NEW r \in Requests, Page(r)
    PROVE  /\ KeepsRequests
           /\ \A q \in Requests : q # r => req'[q] = req[q]
           /\ \E seen \in SUBSET Members(r) :
                LET full == Len(Found(r)) >= MaxReplay
                    ends == Members(r) = {} \/ full
                IN  /\ full => \A n \in Members(r) : n \in seen <=> n <= Found(r)[MaxReplay].id
                    /\ ~full => seen = Members(r)
                    /\ req'[r].pc = IF ends THEN "send" ELSE "page"
                    /\ req'[r].scan.from = req[r].scan.from
                    /\ req'[r].scan.topics = req[r].scan.topics
                    /\ req'[r].scan.shifted = req[r].scan.shifted
                    /\ req'[r].scan.offset = req[r].scan.offset + Cardinality(Members(r))
                    /\ req'[r].scan.found = Found(r)
                    /\ req'[r].scan.missing = req[r].scan.missing \cup (seen \ keys)
           /\ req'[r].buffer = req[r].buffer /\ req'[r].paused = req[r].paused
           /\ req'[r].ended = req[r].ended /\ req'[r].cleaned = req[r].cleaned
           /\ req'[r].topics = req[r].topics
           /\ Opened(r) /\ req[r].pc = "page"
  <1> DEFINE full == Len(Found(r)) >= MaxReplay
             ends == Members(r) = {} \/ full
             seen == {n \in Members(r) : full => n <= Found(r)[MaxReplay].id}
             o == req[r].scan.offset + Cardinality(Members(r))
             new == [req[r].scan EXCEPT !.offset = o, !.found = Found(r),
                                        !.missing = req[r].scan.missing \cup (seen \ keys)]
             pc == IF ends THEN "send" ELSE "page"
  <1>0. TypeOK /\ req[r].pc = "page" /\ Opened(r) /\ req[r] \in FitRequest
    BY RequestLemma DEF Page, ShapeInv
  <1>1. /\ req' = [req EXCEPT ![r].pc = IF ends THEN "send" ELSE "page",
                              ![r].scan.offset = @ + Cardinality(Members(r)),
                              ![r].scan.found = Found(r),
                              ![r].scan.missing = @ \cup (seen \ keys)]
        /\ hub' = hub
    BY Zenon DEF Page
  <1>2. o \in {0} \cup Numbers
    BY <1>0, OffsetLemma
  <1>3. Found(r) \in Seq(Item) /\ Len(Found(r)) <= MaxReplay
    BY <1>0, FoundLemma
  <1>4. seen \in SUBSET Members(r) /\ seen \in SUBSET Numbers
    BY <1>0, AheadLemma
  <1>5. \A n \in Members(r) : n \in seen <=> (full => n <= Found(r)[MaxReplay].id)
    OBVIOUS
  <1>6. req[r].scan \in Scan /\ req[r] \in Request
    BY <1>0 DEF FitRequest, Request
  <1>7. /\ new \in Scan /\ new.offset = o /\ new.found = Found(r) /\ new.from = req[r].scan.from
        /\ new.topics = req[r].scan.topics /\ new.shifted = req[r].scan.shifted
        /\ new.missing = req[r].scan.missing \cup (seen \ keys)
    <2> HIDE DEF seen, o
    <2>1. req[r].scan.missing \cup (seen \ keys) \in SUBSET Numbers
      BY <1>4, <1>6 DEF Scan
    <2> QED BY <1>2, <1>3, <1>6, <2>1 DEF Scan
  <1>8. req' = [req EXCEPT ![r] = [req[r] EXCEPT !.pc = pc, !.scan = new]]
    <2>1. [req EXCEPT ![r].pc = pc,
                      ![r].scan.offset = @ + Cardinality(Members(r)),
                      ![r].scan.found = Found(r),
                      ![r].scan.missing = @ \cup (seen \ keys)]
          = [req EXCEPT ![r] = [req[r] EXCEPT !.pc = pc, !.scan = new]]
      <3> HIDE DEF seen, pc
      <3> QED BY <1>0, <1>6 DEF TypeOK, Request, Scan
    <2> QED BY <1>1, <2>1
  <1>9. pc \in {"page", "send"} /\ pc = IF ends THEN "send" ELSE "page"
    OBVIOUS
  <1> HIDE DEF new, seen, o, pc
  <1>10. req'[r] = [req[r] EXCEPT !.pc = pc, !.scan = new]
    BY <1>0, <1>8 DEF TypeOK
  <1>11. /\ req'[r].pc = pc /\ req'[r].scan = new /\ req'[r].p = req[r].p /\ req'[r].s = req[r].s
         /\ req'[r].buffer = req[r].buffer /\ req'[r].paused = req[r].paused
         /\ req'[r].ended = req[r].ended /\ req'[r].cleaned = req[r].cleaned
         /\ req'[r].topics = req[r].topics
    BY <1>6, <1>10 DEF Request
  <1>12. req'[r] \in Request
    BY <1>6, <1>7, <1>9, <1>10 DEF Request
  <1>13. Follows(req[r], req'[r])
    BY <1>0, <1>3, <1>7, <1>11, <1>12 DEF Follows, FitRequest
  <1>14. \A q \in Requests : q # r => req'[q] = req[q]
    BY <1>0, <1>8 DEF TypeOK
  <1>15. RequestsFollow
    BY <1>0, <1>13, <1>14, RequestLemma, SameFollows DEF RequestsFollow
  <1>16. Steady /\ WaitersWait
    BY <1>0, <1>9, <1>11, <1>14 DEF Steady, Past, Waiting, WaitersWait, Untouched
  <1>17. KeepsRequests
    <2>1. req' = [q \in Requests |-> req'[q]]
      BY <1>0, <1>8 DEF TypeOK
    <2>2. \A q \in Requests : Opened(q) /\ req[q].pc \in Running /\ ~req[q].ended /\ ~req[q].cleaned =>
               req'[q].pc \in Running /\ ~req'[q].ended /\ ~req'[q].cleaned
      BY <1>9, <1>11, <1>14 DEF Running
    <2> QED BY <1>1, <1>15, <1>16, <2>1, <2>2, KeepInPlace
  <1>18. /\ full => \A n \in Members(r) : n \in seen <=> n <= Found(r)[MaxReplay].id
         /\ ~full => seen = Members(r)
    BY <1>4, <1>5
  <1> HIDE DEF full
  <1>19. \E S \in SUBSET Members(r) :
                    /\ full => \A n \in Members(r) : n \in S <=> n <= Found(r)[MaxReplay].id
                    /\ ~full => S = Members(r)
                    /\ req'[r].pc = IF ends THEN "send" ELSE "page"
                    /\ req'[r].scan.from = req[r].scan.from
                    /\ req'[r].scan.topics = req[r].scan.topics
                    /\ req'[r].scan.shifted = req[r].scan.shifted
                    /\ req'[r].scan.offset = req[r].scan.offset + Cardinality(Members(r))
                    /\ req'[r].scan.found = Found(r)
                    /\ req'[r].scan.missing = req[r].scan.missing \cup (S \ keys)
    BY <1>4, <1>7, <1>9, <1>11, <1>18 DEF o
  <1> QED BY <1>0, <1>11, <1>14, <1>17, <1>19 DEF full

-----------------------------------------------------------------------------
\* Requests that resume, stop or are cleaned up

Resumed(x) == [x EXCEPT !.paused = FALSE, !.buffer = << >>]

LEMMA ResumedLemma ==
    ASSUME NEW x \in FitRequest
    PROVE  /\ Follows(x, Resumed(x)) /\ Resumed(x) \in FitRequest
           /\ Resumed(x).scan = x.scan /\ Resumed(x).pc = x.pc /\ Resumed(x).topics = x.topics
           /\ Resumed(x).ended = x.ended /\ Resumed(x).cleaned = x.cleaned
           /\ ~Resumed(x).paused /\ Resumed(x).buffer = << >>
  BY ResumeLemma DEF Resumed, Follows

Stopped(x) == [x EXCEPT !.ended = TRUE]

LEMMA StoppedLemma ==
    ASSUME NEW x \in FitRequest
    PROVE  /\ Follows(x, Stopped(x)) /\ Stopped(x) \in FitRequest
           /\ Stopped(x).scan = x.scan /\ Stopped(x).pc = x.pc /\ Stopped(x).topics = x.topics
           /\ Stopped(x).paused = x.paused /\ Stopped(x).buffer = x.buffer
           /\ Stopped(x).cleaned = x.cleaned /\ Stopped(x).ended
  <1>1. Follows(x, Stopped(x))
    BY EndLemma DEF Stopped
  <1> QED BY <1>1 DEF Stopped, Follows, FitRequest, Request

Cleaned(x) == [x EXCEPT !.cleaned = TRUE, !.ended = TRUE]

LEMMA CleanedLemma ==
    ASSUME NEW x \in FitRequest
    PROVE  /\ Follows(x, Cleaned(x)) /\ Cleaned(x) \in FitRequest
           /\ Cleaned(x).scan = x.scan /\ Cleaned(x).pc = x.pc /\ Cleaned(x).topics = x.topics
           /\ Cleaned(x).paused = x.paused /\ Cleaned(x).buffer = x.buffer
           /\ Cleaned(x).cleaned /\ Cleaned(x).ended
  BY DEF Cleaned, Follows, FitRequest, Request

\* The connection of a request is taken out of its hub.
LEMMA KeepRemoved ==
    ASSUME ShapeInv, NEW r \in Requests, Opened(r), hub' = Without({Holder(r)} \ {0}),
           req' = [q \in Requests |-> req'[q]], RequestsFollow, Steady, WaitersWait,
           \A q \in Requests : q # r /\ q # Holder(r) => req'[q] = req[q]
    PROVE  KeepsRequests
  <1>0. TypeOK
    BY DEF ShapeInv
  <1>1. RequestsOK'
    <2>1. \A q \in Requests : req'[q] \in {NoRequest} \cup FitRequest
      BY <1>0, RequestLemma DEF RequestsFollow, Follows, Opened
    <2> QED BY <2>1 DEF RequestsOK
  <1>2. req[r] \in FitRequest /\ req[r].p \in Processes /\ req[r].s \in Sessions
    BY <1>0, RequestLemma DEF FitRequest, Request
  <1>3. \A q \in Requests : q = Holder(r) => Opened(q)
    BY <1>2, HubLemma, Bounds DEF Holder
  <1>4. PICK R : R = {Holder(r)} \ {0}
    OBVIOUS
  <1>5. 0 \notin R /\ \A q \in Requests : q \in R => Opened(q)
    BY <1>3, <1>4
  <1>6. HubsOK' /\ \A p \in Processes, s \in Sessions : hub'[p][s] # 0 => hub'[p][s] = hub[p][s] /\ hub[p][s] \notin R
    <2>1. HubsOK'
      BY <1>0, <1>4, <1>5, ClosedLemma DEF HubsOK
    <2>2. \A p \in Processes, s \in Sessions : hub'[p][s] # 0 => hub'[p][s] = hub[p][s] /\ hub[p][s] \notin R
      BY <1>0, <1>4, <1>5, ClosedLemma
    <2> QED BY <2>1, <2>2
  <1>7. HubsShrink
    <2> SUFFICES ASSUME NEW p \in Processes, NEW s \in Sessions, hub'[p][s] # 0
                 PROVE  /\ hub'[p][s] = hub[p][s]
                        /\ LET y == req'[hub[p][s]] IN y.pc \in Running /\ ~y.ended /\ ~y.cleaned
      BY DEF HubsShrink
    <2>1. hub'[p][s] = hub[p][s] /\ hub[p][s] # Holder(r)
      BY <1>4, <1>6
    <2>2. hub[p][s] \in Requests /\ Connected(p, s, hub[p][s])
      BY <2>1, HubLemma
    <2>3. hub[p][s] # r
      BY <2>1, <2>2 DEF Connected, Holder
    <2> QED BY <2>1, <2>2, <2>3 DEF Connected, Running
  <1> QED BY <1>1, <1>6, <1>7 DEF KeepsRequests, KeepsShape

LEMMA KeepReplayFails ==
    ASSUME ShapeInv, NEW r \in Requests, ReplayFails(r)
    PROVE  /\ KeepsRequests /\ Opened(r)
           /\ \A q \in Requests : /\ q # r /\ q # Holder(r) => req'[q] = req[q]
                                  /\ q # r /\ q = Holder(r) => req'[q] = Stopped(req[q])
                                  /\ q = r /\ q # Holder(r) => req'[q] = Replayed(req[q])
                                  /\ q = r /\ q = Holder(r) => req'[q] = Replayed(Stopped(req[q]))
  <1>0. TypeOK /\ req[r].pc = "page" /\ Opened(r) /\ req[r] \in FitRequest
    BY RequestLemma DEF ReplayFails, ShapeInv
  <1>1. PICK R : R = {Holder(r)}
    OBVIOUS
  <1>2. \A q \in Requests : q \in R => Opened(q)
    <2>1. req[r].p \in Processes /\ req[r].s \in Sessions
      BY <1>0 DEF FitRequest, Request
    <2> QED BY <1>1, <2>1, HubLemma, Bounds DEF Holder
  <1>3. req' = [Ended(R) EXCEPT ![r] = Replayed(@)] /\ hub' = Without({Holder(r)} \ {0})
    BY <1>1 DEF ReplayFails
  <1>4. /\ Ended(R) = [q \in Requests |-> Ended(R)[q]]
        /\ \A q \in Requests : /\ q \notin R => Ended(R)[q] = req[q]
                               /\ q \in R => Ended(R)[q] = Stopped(req[q])
    BY DEF Ended, Stopped
  <1> HIDE DEF Ended
  <1>5. /\ req' = [q \in Requests |-> req'[q]]
        /\ \A q \in Requests : q # r => req'[q] = Ended(R)[q]
        /\ req'[r] = Replayed(Ended(R)[r])
    BY <1>3, <1>4
  <1>6. \A q \in Requests : /\ q # r /\ q # Holder(r) => req'[q] = req[q]
                            /\ q # r /\ q = Holder(r) => req'[q] = Stopped(req[q])
                            /\ q = r /\ q # Holder(r) => req'[q] = Replayed(req[q])
                            /\ q = r /\ q = Holder(r) => req'[q] = Replayed(Stopped(req[q]))
    BY <1>1, <1>4, <1>5
  <1>7. ASSUME NEW q \in Requests, Opened(q)
        PROVE  /\ Follows(req[q], req'[q])
               /\ q # r => req'[q].pc = req[q].pc /\ req'[q].topics = req[q].topics
               /\ q = r => /\ req'[q].pc \in {"open", "closed"}
                           /\ req'[q].pc = "open" => req'[q].topics = req[q].topics
    <2>1. req[q] \in FitRequest
      BY <1>0, <1>7, RequestLemma
    <2>2. CASE q # r
      BY <1>6, <2>1, <2>2, StoppedLemma, SameFollows
    <2>3. CASE q = r /\ q # Holder(r)
      BY <1>6, <2>1, <2>3, ReplayedLemma
    <2>4. CASE q = r /\ q = Holder(r)
      <3>1. Stopped(req[q]) \in FitRequest /\ Follows(req[q], Stopped(req[q]))
            /\ Stopped(req[q]).topics = req[q].topics
        BY <2>1, StoppedLemma
      <3>2. PICK x : x = Stopped(req[q])
        OBVIOUS
      <3>3. Follows(x, Replayed(x)) /\ Replayed(x).pc \in {"open", "closed"}
            /\ (Replayed(x).pc = "open" => Replayed(x).topics = x.topics)
        <4>1. x \in FitRequest
          BY <3>1, <3>2
        <4> QED BY <4>1, ReplayedLemma
      <3>4. req'[q] = Replayed(x)
        BY <1>6, <2>4, <3>2
      <3> QED BY <2>4, <3>1, <3>2, <3>3, <3>4 DEF Follows
    <2> QED BY <2>2, <2>3, <2>4
  <1>8. RequestsFollow
    <2>1. \A q \in Requests : ~Opened(q) => q # r /\ q # Holder(r)
      BY <1>0, <1>1, <1>2
    <2> QED BY <1>6, <1>7, <2>1 DEF RequestsFollow
  <1>9. Steady /\ WaitersWait
    <2>1. Steady
      BY <1>0, <1>7 DEF Steady, Past, Waiting, Running
    <2>2. \A q \in Requests : q = Holder(r) => req[q].pc \in Running
      <3>1. req[r].p \in Processes /\ req[r].s \in Sessions
        BY <1>0 DEF FitRequest, Request
      <3>2. \A q \in Requests : q = Holder(r) => Connected(req[r].p, req[r].s, q)
        BY <3>1, HubLemma, Bounds DEF Holder
      <3> QED BY <3>2 DEF Connected, Running
    <2>3. ASSUME NEW q \in Requests, Opened(q), req'[q].pc \in Waiting PROVE req'[q] = req[q]
      <3>1. q # r
        BY <1>7, <2>3 DEF Waiting
      <3>2. req[q].pc \in Waiting
        BY <1>7, <2>3, <3>1
      <3>3. q # Holder(r)
        BY <2>2, <3>2 DEF Waiting, Running
      <3> QED BY <1>6, <3>1, <3>3
    <2>4. WaitersWait
      BY <2>3 DEF WaitersWait, Untouched
    <2> QED BY <2>1, <2>4
  <1> QED BY <1>0, <1>3, <1>5, <1>6, <1>8, <1>9, KeepRemoved

LEMMA KeepCleanup ==
    ASSUME ShapeInv, NEW r \in Requests, Cleanup(r)
    PROVE  /\ KeepsRequests /\ Opened(r) /\ cur # r
           /\ \A q \in Requests : q # r => req'[q] = req[q]
           /\ req'[r] = IF req[r].pc = "open" THEN Over(req[r], "closed") ELSE Cleaned(req[r])
  <1>0. TypeOK /\ req[r].pc \in {"page", "send", "open"} /\ Opened(r) /\ req[r] \in FitRequest /\ cur # r
    BY RequestLemma DEF Cleanup, ShapeInv
  <1>1. /\ req' = [req EXCEPT ![r] = IF req[r].pc = "open" THEN Over(req[r], "closed") ELSE Cleaned(req[r])]
        /\ hub' = Without({Holder(r)} \ {0})
    BY DEF Cleanup, Cleaned
  <1>2. /\ req' = [q \in Requests |-> req'[q]]
        /\ \A q \in Requests : q # r => req'[q] = req[q]
        /\ req'[r] = IF req[r].pc = "open" THEN Over(req[r], "closed") ELSE Cleaned(req[r])
    BY <1>0, <1>1 DEF TypeOK
  <1>3. /\ Follows(req[r], req'[r])
        /\ \/ req'[r].pc = "closed"
           \/ req'[r].pc = req[r].pc /\ req'[r].topics = req[r].topics
    <2>1. CASE req[r].pc = "open"
      BY <1>0, <1>2, <2>1, OverLemma
    <2>2. CASE req[r].pc # "open"
      BY <1>0, <1>2, <2>2, CleanedLemma
    <2> QED BY <2>1, <2>2
  <1>4. RequestsFollow
    BY <1>0, <1>2, <1>3, RequestLemma, SameFollows DEF RequestsFollow
  <1>5. Steady /\ WaitersWait
    BY <1>0, <1>2, <1>3 DEF Steady, Past, Waiting, Running, WaitersWait, Untouched
  <1> QED BY <1>0, <1>1, <1>2, <1>4, <1>5, KeepRemoved

LEMMA KeepSend ==
    ASSUME ShapeInv, NEW r \in Requests, Send(r)
    PROVE  /\ KeepsRequests /\ Opened(r) /\ req[r].pc = "send" /\ req[r] \in FitRequest
           /\ Holder(r) \in {0} \cup Requests
           /\ Holder(r) # 0 => Connected(req[r].p, req[r].s, Holder(r))
           /\ \A q \in Requests : LET x == IF q = r THEN Replayed(req[r]) ELSE Shifted(req[r].scan.missing)[q]
                                  IN  req'[q] = IF q = Holder(r) THEN Resumed(x) ELSE x
  <1>0. TypeOK /\ req[r].pc = "send" /\ Opened(r) /\ req[r] \in FitRequest
    BY RequestLemma DEF Send, ShapeInv
  <1>1. req[r].p \in Processes /\ req[r].s \in Sessions
    BY <1>0 DEF FitRequest, Request
  <1>2. PICK h : h = Holder(r)
    OBVIOUS
  <1>3. h \in {0} \cup Requests /\ (h # 0 => Connected(req[r].p, req[r].s, h))
    BY <1>0, <1>1, <1>2, HubLemma DEF TypeOK, Holder
  <1>4. PICK S : S = req[r].scan.missing
    OBVIOUS
  <1>5. Shifted(S)[r] = req[r]
    BY <1>0, ShiftedLemma
  <1>6. PICK x : x = [Shifted(S) EXCEPT ![r] = Replayed(req[r])]
    OBVIOUS
  <1>7. /\ req' = IF h = 0 THEN x ELSE [x EXCEPT ![h].paused = FALSE, ![h].buffer = << >>]
        /\ hub' = hub
    <2>1. x = [Shifted(S) EXCEPT ![r] = Replayed(@)]
      BY <1>5, <1>6
    <2> QED BY <1>2, <1>4, <2>1 DEF Send
  <1>8. /\ x = [q \in Requests |-> x[q]]
        /\ \A q \in Requests : x[q] = IF q = r THEN Replayed(req[r]) ELSE Shifted(S)[q]
    BY <1>6 DEF Shifted
  <1>9. /\ req' = [q \in Requests |-> req'[q]]
        /\ \A q \in Requests : req'[q] = IF q = h THEN Resumed(x[q]) ELSE x[q]
    <2>1. CASE h = 0
      BY <1>7, <1>8, <2>1, Bounds
    <2>2. CASE h # 0
      <3>1. h \in Requests /\ req' = [x EXCEPT ![h].paused = FALSE, ![h].buffer = << >>]
        BY <1>3, <1>7, <2>2
      <3> QED BY <1>8, <3>1 DEF Resumed
    <2> QED BY <2>1, <2>2
  <1>10. ASSUME NEW q \in Requests, Opened(q)
         PROVE  /\ x[q] \in FitRequest /\ Follows(req[q], x[q])
                /\ q # r => /\ x[q].pc = req[q].pc /\ x[q].topics = req[q].topics
                            /\ x[q].ended = req[q].ended /\ x[q].cleaned = req[q].cleaned
                /\ q = r => /\ x[q].pc = IF req[q].cleaned THEN "closed" ELSE "open"
                            /\ ~req[q].cleaned => x[q].topics = req[q].topics /\ x[q].ended = req[q].ended
                                                  /\ ~x[q].cleaned
    <2>1. req[q] \in FitRequest
      BY <1>0, <1>10, RequestLemma
    <2>2. CASE q = r
      BY <1>8, <2>1, <2>2, ReplayedLemma DEF Follows
    <2>3. CASE q # r
      <3>1. x[q] = Shifted(S)[q]
        BY <1>8, <2>3
      <3> QED BY <1>0, <1>10, <2>3, <3>1, ShiftedLemma DEF Follows
    <2> QED BY <2>2, <2>3
  <1>11. ASSUME NEW q \in Requests, Opened(q)
         PROVE  /\ Follows(req[q], req'[q])
                /\ q # r => /\ req'[q].pc = req[q].pc /\ req'[q].topics = req[q].topics
                            /\ req'[q].ended = req[q].ended /\ req'[q].cleaned = req[q].cleaned
                /\ q = r => /\ req'[q].pc = IF req[q].cleaned THEN "closed" ELSE "open"
                            /\ ~req[q].cleaned => req'[q].topics = req[q].topics /\ req'[q].ended = req[q].ended
                                                  /\ ~req'[q].cleaned
    <2>1. CASE q = h
      <3>1. /\ Follows(x[q], Resumed(x[q])) /\ Resumed(x[q]).pc = x[q].pc
            /\ Resumed(x[q]).topics = x[q].topics /\ Resumed(x[q]).ended = x[q].ended
            /\ Resumed(x[q]).cleaned = x[q].cleaned
        BY <1>10, <1>11, ResumedLemma
      <3> QED BY <1>9, <1>10, <1>11, <2>1, <3>1 DEF Follows
    <2>2. CASE q # h
      BY <1>9, <1>10, <1>11, <2>2
    <2> QED BY <2>1, <2>2
  <1>12. RequestsFollow
    <2>1. ASSUME NEW q \in Requests, ~Opened(q) PROVE req'[q] = req[q]
      <3>1. q # r /\ q # h
        BY <1>0, <1>3, <2>1, Bounds DEF Connected
      <3>2. req[q].pc = "none"
        BY <1>0, <2>1, RequestLemma DEF Opened, NoRequest
      <3>3. Shifted(S)[q] = req[q]
        BY <1>0, <3>2, ShiftedLemma
      <3> QED BY <1>8, <1>9, <3>1, <3>3
    <2> QED BY <1>11, <2>1 DEF RequestsFollow
  <1>13. Steady
    BY <1>0, <1>11 DEF Steady, Past, Waiting, Running
  <1>14. WaitersWait
    <2>1. ASSUME NEW q \in Requests, Opened(q), req'[q].pc \in Waiting PROVE req'[q] = req[q]
      <3>1. q # r
        BY <1>0, <1>11, <2>1 DEF Waiting
      <3>2. req[q].pc \in Waiting
        BY <1>11, <2>1, <3>1
      <3>3. q # h
        BY <1>3, <3>2, Bounds DEF Connected, Waiting
      <3>4. Shifted(S)[q] = req[q]
        BY <1>0, <3>2, ShiftedLemma DEF Waiting
      <3> QED BY <1>8, <1>9, <3>1, <3>3, <3>4
    <2> QED BY <2>1 DEF WaitersWait, Untouched
  <1>15. KeepsRequests
    <2>1. ASSUME NEW q \in Requests, Opened(q), req[q].pc \in Running, ~req[q].ended, ~req[q].cleaned
          PROVE  req'[q].pc \in Running /\ ~req'[q].ended /\ ~req'[q].cleaned
      <3>1. CASE q = r
        BY <1>11, <2>1, <3>1 DEF Running
      <3>2. CASE q # r
        BY <1>11, <2>1, <3>2
      <3> QED BY <3>1, <3>2
    <2> QED BY <1>7, <1>9, <1>12, <1>13, <1>14, <2>1, KeepInPlace
  <1> QED BY <1>0, <1>2, <1>3, <1>4, <1>8, <1>9, <1>15

-----------------------------------------------------------------------------
\* Every step keeps the shape.

SessionsSteady ==
    /\ \A s \in Sessions : sess'[s] = NoSession <=> sess[s] = NoSession
    /\ \A c \in Controls : ctl'[c] # NoControl => sess'[ctl'[c].s] # NoSession

\* What does not depend on requests and hubs.
RestOK ==
    /\ LogOK /\ DispatchOK /\ SessionsOK /\ ControlsOK /\ ClientOK /\ HistoryOK /\ ExtrasOK
    /\ NumbersOnce

LEMMA RestLemma == ShapeInv => RestOK
  BY PartsLemma DEF ShapeInv, RestOK

\* Sessions are opened in order, and their records stay.
SessionsGrow ==
    /\ \A s \in Sessions : sess[s] # NoSession => sess'[s] # NoSession
    /\ \A s \in Sessions : \A t \in 1 .. s : sess'[s] # NoSession => sess'[t] # NoSession
    /\ \A c \in Controls : ctl'[c] # NoControl => sess'[ctl'[c].s] # NoSession

LEMMA SteadyGrow == ShapeInv /\ SessionsSteady => SessionsGrow
  <1>1. \A s \in Sessions : \A t \in 1 .. s : t \in Sessions
    BY Bounds DEF Sessions
  <1> QED BY <1>1 DEF ShapeInv, InSequence, SessionsSteady, SessionsGrow

LEMMA ShapeFollows ==
    ASSUME ShapeInv, KeepsShape, RestOK', SessionsGrow, cur' \in {0, cur}
    PROVE  ShapeInv'
  <1>0. TypeOK
    BY DEF ShapeInv
  <1>1. TypeOK'
    <2>1. (/\ LogOK /\ DispatchOK /\ SessionsOK /\ ControlsOK /\ RequestsOK
           /\ HubsOK /\ ClientOK /\ HistoryOK /\ ExtrasOK)' => TypeOK'
      BY PartsLemma, PTL
    <2> QED BY <2>1 DEF KeepsShape, RestOK
  <1>2. \A r \in Requests : Opened(r)' <=> Opened(r)
    <2> SUFFICES ASSUME NEW r \in Requests PROVE Opened(r)' <=> Opened(r)
      OBVIOUS
    <2>1. CASE Opened(r)
      <3>1. req'[r] \in FitRequest
        BY <2>1 DEF KeepsShape, RequestsFollow, Follows
      <3>2. req'[r] # NoRequest
        BY <3>1 DEF FitRequest, Request, NoRequest
      <3> QED BY <2>1, <3>2 DEF Opened
    <2>2. CASE ~Opened(r)
      BY <2>2 DEF KeepsShape, RequestsFollow, Opened
    <2> QED BY <2>1, <2>2
  <1>3. \A r \in Requests : Opened(r) => req'[r].p = req[r].p /\ req'[r].s = req[r].s
    BY DEF KeepsShape, RequestsFollow, Follows
  <1>4. \A r \in Requests : Opened(r) => req[r].s \in Sessions
    BY <1>0, RequestLemma DEF FitRequest, Request
  <1>5. InSequence'
    <2>1. \A r \in Requests : \A q \in 1 .. r : q \in Requests
      BY Bounds DEF Requests
    <2>2. \A s \in Sessions : \A t \in 1 .. s : t \in Sessions
      BY Bounds DEF Sessions
    <2>3. \A r \in Requests : \A q \in 1 .. r : Opened(r)' => Opened(q)'
      BY <1>2, <2>1 DEF ShapeInv, InSequence
    <2>4. \A s \in Sessions : \A t \in 1 .. s : sess'[s] # NoSession => sess'[t] # NoSession
      BY <2>2 DEF SessionsGrow
    <2> QED BY <2>3, <2>4 DEF InSequence
  <1>6. HubOK'
    <2> SUFFICES ASSUME NEW p \in Processes, NEW s \in Sessions, hub'[p][s] # 0
                 PROVE  Connected(p, s, hub[p][s])'
      BY DEF HubOK
    <2>1. PICK r : r = hub'[p][s]
      OBVIOUS
    <2>2. r = hub[p][s] /\ r # 0
      BY <2>1 DEF KeepsShape, HubsShrink
    <2>3. r \in Requests /\ Connected(p, s, r)
      BY <2>2, HubLemma
    <2>4. req'[r].pc \in Running /\ ~req'[r].ended /\ ~req'[r].cleaned
      BY <2>1, <2>2 DEF KeepsShape, HubsShrink
    <2>5. Connected(p, s, r)'
      BY <1>2, <1>3, <2>3, <2>4 DEF Connected, Running
    <2> QED BY <2>1, <2>5 DEF Connected, Opened
  <1>7. SessionsKnown'
    <2>1. \A r \in Requests : Opened(r)' => sess'[req'[r].s] # NoSession
      BY <1>2, <1>3, <1>4 DEF ShapeInv, SessionsKnown, SessionsGrow
    <2> QED BY <2>1 DEF SessionsKnown, SessionsGrow
  <1>8. cur' # 0 => Opened(cur)'
    <2> SUFFICES ASSUME cur' # 0 PROVE Opened(cur)'
      OBVIOUS
    <2>1. PICK c : c = cur
      OBVIOUS
    <2>2. cur' = c /\ c \in Requests /\ Opened(c)
      BY <2>1 DEF ShapeInv, TypeOK
    <2>3. Opened(c)'
      BY <1>2, <2>2
    <2> QED BY <2>2, <2>3 DEF Opened
  <1>9. NumbersOnce'
    BY DEF RestOK
  <1>10. Fresh'
    <2> SUFFICES ASSUME NEW r \in Requests, req'[r].pc \in {"claim", "register"}
                 PROVE  /\ ~req'[r].ended /\ ~req'[r].cleaned /\ ~req'[r].paused
                        /\ req'[r].buffer = << >> /\ req'[r].scan.found = << >>
                        /\ req'[r].scan.missing = {}
      BY DEF Fresh
    <2>1. CASE Opened(r)
      <3>1. Untouched(req[r], req'[r])
        BY <2>1 DEF KeepsShape, WaitersWait
      <3>2. /\ req[r].pc \in Waiting /\ req'[r].ended = req[r].ended /\ req'[r].cleaned = req[r].cleaned
            /\ req'[r].paused = req[r].paused /\ req'[r].buffer = req[r].buffer /\ req'[r].scan = req[r].scan
        BY <3>1 DEF Untouched, Waiting
      <3> QED BY <3>2 DEF Waiting, ShapeInv, Fresh
    <2>2. CASE ~Opened(r)
      <3>1. req'[r] = NoRequest
        BY <2>2 DEF KeepsShape, RequestsFollow, Opened
      <3> QED BY <3>1 DEF NoRequest
    <2> QED BY <2>1, <2>2
  <1> QED BY <1>1, <1>5, <1>6, <1>7, <1>8, <1>9, <1>10 DEF ShapeInv

LEMMA ShapeKept ==
    ASSUME ShapeInv, KeepsRequests, RestOK', SessionsSteady, cur' \in {0, cur}
    PROVE  ShapeInv'
  BY SteadyGrow, ShapeFollows DEF KeepsRequests

LEMMA ExtrasLemma ==
    ASSUME ExtrasOK, Extra \/ UNCHANGED extras
    PROVE  ExtrasOK'
  BY Bounds DEF ExtrasOK, Extra

\* Sessions and controls do not change.
LEMMA SessionsUnchanged ==
    ASSUME ShapeInv, UNCHANGED <<sess, ctl>>
    PROVE  SessionsOK' /\ ControlsOK' /\ SessionsSteady
  BY RestLemma DEF RestOK, SessionsOK, ControlsOK, SessionsSteady, ShapeInv, SessionsKnown

\* The store and the dispatchers do not change.
LEMMA LogUnchanged ==
    ASSUME ShapeInv, UNCHANGED <<store, disp, arrived>>
    PROVE  LogOK' /\ DispatchOK' /\ NumbersOnce'
  BY RestLemma DEF RestOK, store, LogOK, DispatchOK, NumbersOnce

LEMMA ClientUnchanged ==
    ASSUME ShapeInv, UNCHANGED <<last, got>>, cur' \in {0, cur}
    PROVE  ClientOK'
  BY RestLemma DEF RestOK, ClientOK

LEMMA HistoryUnchanged ==
    ASSUME ShapeInv, UNCHANGED history
    PROVE  HistoryOK'
  BY RestLemma DEF RestOK, history, HistoryOK

\* An event that is published past the store.
LEMMA ShapePublished ==
    ASSUME ShapeInv, NEW P, NEW e \in Events, HubPublish(P, e, 0), arrived' = arrived \cup {e}, Extra,
           UNCHANGED <<store, disp, sess, ctl, history>>
    PROVE  ShapeInv'
  <1>1. KeepsRequests /\ ClientOK' /\ cur' = cur
    BY KeepPublishes, PublishesLemma
  <1>2. LogOK' /\ DispatchOK' /\ NumbersOnce'
    BY RestLemma DEF RestOK, store, LogOK, DispatchOK, NumbersOnce
  <1>3. ExtrasOK'
    BY RestLemma, ExtrasLemma DEF RestOK
  <1> QED BY <1>1, <1>2, <1>3, SessionsUnchanged, HistoryUnchanged, ShapeKept DEF RestOK

LEMMA ShapePrivateMessage == ASSUME ShapeInv, NEW e \in Private, PrivateMessage(e) PROVE ShapeInv'
  <1>1. e \in Events
    BY ConstantsAssumption DEF Events
  <1> QED BY <1>1, ShapePublished DEF PrivateMessage

LEMMA ShapeBypass ==
    ASSUME ShapeInv, NEW p \in Processes, NEW e \in Public, Bypass(p, e) PROVE ShapeInv'
  <1>1. e \in Events
    BY DEF Public
  <1> QED BY <1>1, ShapePublished DEF Bypass

LEMMA ShapeIncr ==
    ASSUME ShapeInv, NEW p \in Processes, NEW e \in Public, Incr(p, e)
    PROVE  /\ ShapeInv' /\ KeepsRequests
           /\ seqno' = seqno + 1 /\ event'[seqno'] = e /\ \A n \in 1 .. seqno : event'[n] = event[n]
  <1>0. /\ TypeOK /\ LogOK /\ DispatchOK /\ NumbersOnce
        /\ seqno \in Nat /\ event \in Seq(Public) /\ Len(event) = seqno
    <2>1. TypeOK /\ LogOK /\ DispatchOK /\ NumbersOnce
      BY RestLemma DEF RestOK, ShapeInv
    <2>2. seqno \in Nat /\ event \in [1 .. seqno -> Public]
      BY <2>1, Bounds DEF LogOK
    <2> QED BY <2>1, <2>2
  <1>1. KeepsRequests
    BY KeepUnchanged DEF Incr
  <1>2. /\ seqno' = seqno + 1 /\ event' = Append(event, e)
        /\ event' \in [1 .. seqno' -> Public]
        /\ event'[seqno'] = e /\ \A n \in 1 .. seqno : event'[n] = event[n]
    <2>1. seqno' = seqno + 1 /\ event' = Append(event, e)
      BY DEF Incr
    <2>2. Append(event, e) \in [1 .. seqno + 1 -> Public] /\ Append(event, e)[seqno + 1] = e
      <3>1. Append(event, e) \in Seq(Public) /\ Len(Append(event, e)) = Len(event) + 1
            /\ Append(event, e)[Len(event) + 1] = e
        BY <1>0
      <3>2. Append(event, e) \in [1 .. Len(Append(event, e)) -> Public]
        BY <3>1, LenProperties
      <3> QED BY <1>0, <3>1, <3>2
    <2>3. \A n \in 1 .. seqno : Append(event, e)[n] = event[n]
      BY <1>0
    <2> QED BY <2>1, <2>2, <2>3
  <1>3. NumbersOnce'
    <2>1. ASSUME NEW n \in 1 .. seqno' PROVE event'[n] \in arrived'
      BY <1>0, <1>2 DEF NumbersOnce, Incr
    <2>2. ASSUME NEW m \in 1 .. seqno', NEW n \in 1 .. seqno', event'[m] = event'[n] PROVE m = n
      <3>1. \A k \in 1 .. seqno' : k \in 1 .. seqno \/ k = seqno'
        BY <1>0, <1>2
      <3>2. \A k \in 1 .. seqno : event'[k] # e
        BY <1>0, <1>2 DEF NumbersOnce, Incr
      <3>3. CASE m \in 1 .. seqno /\ n \in 1 .. seqno
        BY <1>0, <1>2, <2>2, <3>3 DEF NumbersOnce
      <3>4. CASE m = seqno' /\ n = seqno'
        BY <3>4
      <3>5. CASE m = seqno' /\ n \in 1 .. seqno
        BY <1>2, <2>2, <3>2, <3>5
      <3>6. CASE n = seqno' /\ m \in 1 .. seqno
        BY <1>2, <2>2, <3>2, <3>6
      <3> QED BY <3>1, <3>3, <3>4, <3>5, <3>6
    <2>3. ASSUME NEW q \in Processes, disp'[q].step = "store"
          PROVE  disp'[q].n \in 1 .. seqno' /\ event'[disp'[q].n] = disp'[q].e
      <3>1. disp' = [disp EXCEPT ![p] = [e |-> e, step |-> "store", n |-> seqno']]
        BY DEF Incr
      <3>2. CASE q = p
        <4>1. disp'[q] = [e |-> e, step |-> "store", n |-> seqno']
          BY <1>0, <3>1, <3>2 DEF DispatchOK
        <4>2. disp'[q].n = seqno' /\ disp'[q].e = e
          BY <4>1
        <4> QED BY <1>0, <1>2, <4>2
      <3>3. CASE q # p
        <4>1. disp'[q] = disp[q]
          BY <1>0, <3>1, <3>3 DEF DispatchOK
        <4>2. disp[q].n \in 1 .. seqno /\ event[disp[q].n] = disp[q].e
          BY <1>0, <2>3, <4>1 DEF NumbersOnce
        <4> QED BY <1>0, <1>2, <4>1, <4>2
      <3> QED BY <3>2, <3>3
    <2> QED BY <2>1, <2>2, <2>3 DEF NumbersOnce
  <1>4. seqno' \in Numbers
    <2>1. PICK k : k = seqno'
      OBVIOUS
    <2>2. PICK g : g = event'
      OBVIOUS
    <2>3. k \in Nat \ {0}
      BY <1>0, <1>2, <2>1
    <2>4. g \in Injection(1 .. k, Public)
      <3>1. g \in [1 .. k -> Public]
        BY <1>2, <2>1, <2>2
      <3>2. \A m, n \in 1 .. k : g[m] = g[n] => m = n
        BY <1>3, <2>1, <2>2 DEF NumbersOnce
      <3> QED BY <3>1, <3>2 DEF Injection, IsInjective
    <2>5. IsFiniteSet(1 .. k) /\ Cardinality(1 .. k) = k
      <3>1. 1 \in Int /\ k \in Int
        BY <2>3
      <3>2. Cardinality(1 .. k) = IF 1 > k THEN 0 ELSE k - 1 + 1
        BY <3>1, FS_Interval
      <3> QED BY <2>3, <3>1, <3>2, FS_Interval
    <2>6. Cardinality(1 .. k) <= Cardinality(Public)
      BY <2>4, <2>5, Bounds, FS_Injection
    <2> QED BY <2>1, <2>3, <2>5, <2>6, Bounds DEF Numbers
  <1>5. LogOK'
    <2>1. index' = index /\ keys' = keys
      BY DEF Incr
    <2>2. 1 .. seqno \subseteq 1 .. seqno'
      BY <1>0, <1>2
    <2> QED BY <1>0, <1>2, <1>4, <2>1, <2>2 DEF LogOK
  <1>6. DispatchOK'
    <2>1. disp' = [disp EXCEPT ![p] = [e |-> e, step |-> "store", n |-> seqno']] /\ arrived' = arrived \cup {e}
      BY DEF Incr
    <2>2. [e |-> e, step |-> "store", n |-> seqno'] \in Dispatch
      BY <1>4 DEF Dispatch
    <2> QED BY <1>0, <2>1, <2>2 DEF DispatchOK, Public
  <1>7. ClientOK' /\ HistoryOK' /\ ExtrasOK' /\ cur' = cur
    BY RestLemma DEF Incr, RestOK, ClientOK, HistoryOK, ExtrasOK, client, history
  <1>8. SessionsOK' /\ ControlsOK' /\ SessionsSteady
    BY SessionsUnchanged DEF Incr
  <1>9. ShapeInv'
    BY <1>1, <1>3, <1>5, <1>6, <1>7, <1>8, ShapeKept DEF RestOK
  <1> QED BY <1>1, <1>2, <1>9

LEMMA ShapeStore ==
    ASSUME ShapeInv, NEW p \in Processes, Store(p)
    PROVE  ShapeInv' /\ KeepsRequests /\ disp[p] \in Dispatch
  <1> DEFINE n == disp[p].n
             I == index \cup {n}
  <1>0. /\ LogOK /\ DispatchOK /\ HistoryOK /\ NumbersOnce /\ ExtrasOK
        /\ seqno \in Nat /\ event \in [1 .. seqno -> Public]
    <2>1. LogOK /\ DispatchOK /\ HistoryOK /\ NumbersOnce /\ ExtrasOK
      BY RestLemma DEF RestOK
    <2>2. seqno \in Nat
      BY <2>1, Bounds DEF LogOK
    <2> QED BY <2>1, <2>2 DEF LogOK
  <1>1. disp[p].step = "store" /\ n \in 1 .. seqno
    BY <1>0 DEF Store, NumbersOnce
  <1>2. disp[p] \in Dispatch
    BY <1>0, <1>1 DEF DispatchOK, Resting
  <1>3. /\ index' = I \ Trimmed(I) /\ keys' = keys \cup {n}
        /\ excused' = excused \cup {event[m] : m \in Trimmed(I)}
                              \cup (IF \E m \in Stored : m > n THEN {event[n]} ELSE {})
        /\ UNCHANGED <<seqno, event, arrived, sess, ctl, hub, client, published, raced, stale, unsure>>
    BY DEF Store
  <1>4. I \in SUBSET (1 .. seqno) /\ I \in SUBSET Nat /\ IsFiniteSet(I)
    <2>1. 1 \in Int /\ seqno \in Int
      BY <1>0
    <2>2. I \in SUBSET (1 .. seqno)
      BY <1>0, <1>1 DEF LogOK
    <2>3. IsFiniteSet(1 .. seqno)
      BY <2>1, FS_Interval
    <2>4. \A k \in 1 .. seqno : k \in Nat
      BY <1>0
    <2> HIDE DEF I
    <2> QED BY <2>2, <2>3, <2>4, FS_Subset
  <1> HIDE DEF I
  <1>5. Trimmed(I) \in SUBSET (1 .. seqno)
    BY <1>4 DEF Trimmed
  <1>6. LogOK'
    <2>1. Cardinality(index') <= MaxIndex
      BY <1>3, <1>4, TrimLemma
    <2> QED BY <1>0, <1>1, <1>3, <1>4, <2>1 DEF LogOK
  <1>7. HistoryOK'
    <2>1. excused' \subseteq Public
      BY <1>0, <1>1, <1>3, <1>5 DEF HistoryOK
    <2> QED BY <1>0, <1>3, <2>1 DEF HistoryOK
  <1>8. /\ \A q \in Processes : q # p => disp'[q] = disp[q]
        /\ disp'[p].step = "publish"
        /\ DispatchOK'
    <2>1. \/ disp' = [disp EXCEPT ![p].step = "publish"]
          \/ disp' = [disp EXCEPT ![p].step = "publish", ![p].n = 0]
      BY DEF Store
    <2>2. [disp[p] EXCEPT !.step = "publish"] \in Dispatch
          /\ [disp[p] EXCEPT !.step = "publish", !.n = 0] \in Dispatch
      BY <1>2 DEF Dispatch
    <2> QED BY <1>0, <1>2, <1>3, <2>1, <2>2 DEF DispatchOK, Dispatch
  <1>9. NumbersOnce'
    BY <1>0, <1>3, <1>8 DEF NumbersOnce
  <1>10. ExtrasOK'
    <2>1. Extra \/ UNCHANGED extras
      BY DEF Store
    <2> QED BY <1>0, <2>1, ExtrasLemma
  <1>11. ClientOK' /\ cur' = cur
    BY <1>3, ClientUnchanged DEF client
  <1>12. SessionsOK' /\ ControlsOK' /\ SessionsSteady
    BY <1>3, SessionsUnchanged
  <1>13. KeepsRequests
    BY KeepStore
  <1> QED BY <1>2, <1>6, <1>7, <1>8, <1>9, <1>10, <1>11, <1>12, <1>13, ShapeKept DEF RestOK

LEMMA ShapeNotStored ==
    ASSUME ShapeInv, NEW p \in Processes, NotStored(p)
    PROVE  ShapeInv' /\ KeepsRequests /\ disp[p] \in Dispatch
  <1>0. LogOK /\ DispatchOK /\ NumbersOnce /\ ExtrasOK
    BY RestLemma DEF RestOK
  <1>1. /\ disp[p].step = "store" /\ Extra
        /\ disp' = [disp EXCEPT ![p].step = "publish", ![p].n = 0]
        /\ UNCHANGED <<store, arrived, sess, ctl, req, hub, client, history>>
    BY DEF NotStored
  <1>2. disp[p] \in Dispatch
    BY <1>0, <1>1 DEF DispatchOK, Resting
  <1>3. /\ \A q \in Processes : q # p => disp'[q] = disp[q]
        /\ disp'[p].step = "publish" /\ DispatchOK'
    <2>1. [disp[p] EXCEPT !.step = "publish", !.n = 0] \in Dispatch
      BY <1>2 DEF Dispatch
    <2> QED BY <1>0, <1>1, <1>2, <2>1 DEF DispatchOK, Dispatch
  <1>4. NumbersOnce' /\ LogOK'
    BY <1>0, <1>1, <1>3 DEF NumbersOnce, LogOK, store
  <1>5. KeepsRequests
    BY <1>1, KeepUnchanged
  <1>6. ClientOK' /\ cur' = cur
    BY <1>1, ClientUnchanged DEF client
  <1>7. ExtrasOK' /\ HistoryOK' /\ SessionsOK' /\ ControlsOK' /\ SessionsSteady
    BY <1>0, <1>1, ExtrasLemma, HistoryUnchanged, SessionsUnchanged
  <1> QED BY <1>2, <1>3, <1>4, <1>5, <1>6, <1>7, ShapeKept DEF RestOK

LEMMA ShapePublish ==
    ASSUME ShapeInv, NEW p \in Processes, Publish(p)
    PROVE  ShapeInv' /\ KeepsRequests /\ disp[p] \in Dispatch /\ disp[p].e \in Events
  <1>0. LogOK /\ DispatchOK /\ HistoryOK /\ NumbersOnce /\ ExtrasOK
    BY RestLemma DEF RestOK
  <1>1. /\ disp[p].step = "publish" /\ HubPublish({p}, disp[p].e, disp[p].n)
        /\ disp' = [disp EXCEPT ![p] = Resting]
        /\ UNCHANGED <<store, arrived, sess, ctl, raced, stale, unsure, extras>>
    BY DEF Publish
  <1>2. disp[p] \in Dispatch
    BY <1>0, <1>1 DEF DispatchOK, Resting
  <1>3. disp[p].e \in Public /\ disp[p].e \in Events /\ disp[p].n \in {0} \cup Numbers
    BY <1>2 DEF Dispatch, Public
  <1>4. PICK e, n : e = disp[p].e /\ n = disp[p].n
    OBVIOUS
  <1>5. KeepsRequests /\ ClientOK' /\ cur' = cur
    BY <1>1, <1>3, <1>4, KeepPublishes, PublishesLemma
  <1>6. /\ \A q \in Processes : q # p => disp'[q] = disp[q]
        /\ disp'[p].step = "rest" /\ DispatchOK'
    BY <1>0, <1>1 DEF DispatchOK, Resting
  <1>7. NumbersOnce' /\ LogOK'
    BY <1>0, <1>1, <1>6 DEF NumbersOnce, LogOK, store
  <1>8. HistoryOK'
    <2>1. published' \subseteq published \cup {disp[p].e} /\ excused' \subseteq excused \cup {disp[p].e}
      BY DEF Publish
    <2> QED BY <1>0, <1>1, <1>3, <2>1 DEF HistoryOK
  <1>9. ExtrasOK' /\ SessionsOK' /\ ControlsOK' /\ SessionsSteady
    BY <1>0, <1>1, ExtrasLemma, SessionsUnchanged
  <1> QED BY <1>2, <1>3, <1>5, <1>6, <1>7, <1>8, <1>9, ShapeKept DEF RestOK

LEMMA ShapeExpireEvent ==
    ASSUME ShapeInv, NEW n \in Numbers, ExpireEvent(n)
    PROVE  ShapeInv' /\ KeepsRequests
  <1>0. LogOK /\ DispatchOK /\ HistoryOK /\ NumbersOnce /\ ExtrasOK
    BY RestLemma DEF RestOK
  <1>1. /\ n \in keys /\ Extra /\ keys' = keys \ {n} /\ excused' = excused \cup {event[n]}
        /\ UNCHANGED <<seqno, event, index, disp, arrived, sess, ctl, req, hub, client, published, raced, stale, unsure>>
    BY DEF ExpireEvent
  <1>2. LogOK' /\ DispatchOK' /\ NumbersOnce'
    BY <1>0, <1>1 DEF LogOK, DispatchOK, NumbersOnce
  <1>3. HistoryOK'
    <2>1. event[n] \in Public
      BY <1>0, <1>1 DEF LogOK
    <2> QED BY <1>0, <1>1, <2>1 DEF HistoryOK
  <1>4. KeepsRequests
    BY <1>1, KeepUnchanged
  <1>5. ClientOK' /\ cur' = cur
    BY <1>1, ClientUnchanged DEF client
  <1>6. ExtrasOK' /\ SessionsOK' /\ ControlsOK' /\ SessionsSteady
    BY <1>0, <1>1, ExtrasLemma, SessionsUnchanged
  <1> QED BY <1>2, <1>3, <1>4, <1>5, <1>6, ShapeKept DEF RestOK

\* Steps of requests and hubs that change nothing else but what the client sees.
LEMMA ShapeOfRequests ==
    ASSUME ShapeInv, KeepsRequests, ClientOK', cur' \in {0, cur}, ExtrasOK', HistoryOK',
           UNCHANGED <<store, disp, arrived, sess, ctl>>
    PROVE  ShapeInv'
  BY LogUnchanged, SessionsUnchanged, ShapeKept DEF RestOK

LEMMA ShapeDisconnect == ASSUME ShapeInv, Disconnect PROVE ShapeInv' /\ KeepsRequests
  <1>1. KeepsRequests
    BY KeepUnchanged DEF Disconnect
  <1>2. ExtrasOK' /\ HistoryOK' /\ ClientOK' /\ cur' \in {0, cur}
    BY RestLemma, ExtrasLemma, HistoryUnchanged, ClientUnchanged DEF Disconnect, RestOK
  <1> QED BY <1>1, <1>2, ShapeOfRequests DEF Disconnect

LEMMA ShapeReplayFails ==
    ASSUME ShapeInv, NEW r \in Requests, ReplayFails(r) PROVE ShapeInv'
  <1>1. KeepsRequests
    BY KeepReplayFails
  <1>2. ExtrasOK' /\ HistoryOK' /\ ClientOK' /\ cur' \in {0, cur}
    BY RestLemma, ExtrasLemma, HistoryUnchanged, ClientUnchanged DEF ReplayFails, RestOK, client
  <1> QED BY <1>1, <1>2, ShapeOfRequests DEF ReplayFails

LEMMA ShapeCleanup ==
    ASSUME ShapeInv, NEW r \in Requests, Cleanup(r) PROVE ShapeInv'
  <1>1. KeepsRequests
    BY KeepCleanup
  <1>2. ExtrasOK' /\ HistoryOK' /\ ClientOK' /\ cur' \in {0, cur}
    BY RestLemma, ExtrasLemma, HistoryUnchanged, ClientUnchanged DEF Cleanup, RestOK, client
  <1> QED BY <1>1, <1>2, ShapeOfRequests DEF Cleanup

LEMMA ShapeSendFails ==
    ASSUME ShapeInv, NEW r \in Requests, SendFails(r) PROVE ShapeInv' /\ KeepsRequests
  <1>1. KeepsRequests
    <2>1. PICK R : R = {r}
      OBVIOUS
    <2>2. Registered(r)
      BY DEF SendFails
    <2>3. R \in SUBSET Requests /\ \A q \in R : Opened(q) /\ req[q].pc \in Running
      BY <2>1, <2>2, RegisteredLemma DEF Connected, Running
    <2> QED BY <2>1, <2>3, KeepClosed DEF SendFails
  <1>2. ExtrasOK' /\ HistoryOK' /\ ClientOK' /\ cur' \in {0, cur}
    BY RestLemma, ExtrasLemma, HistoryUnchanged, ClientUnchanged DEF SendFails, RestOK, client
  <1> QED BY <1>1, <1>2, ShapeOfRequests DEF SendFails

LEMMA ShapeHeartbeat ==
    ASSUME ShapeInv, NEW p \in Processes, Heartbeat(p) PROVE ShapeInv' /\ KeepsRequests
  <1>1. PICK R : R = {hub[p][s] : s \in {t \in Sessions : sess[t].over}} \ {0}
    OBVIOUS
  <1>2. hub' = Without(R) /\ req' = Ended(R)
    BY <1>1 DEF Heartbeat
  <1>3. R \in SUBSET Requests /\ \A q \in R : Opened(q) /\ req[q].pc \in Running
    BY <1>1, HubLemma DEF Connected, Running
  <1>4. KeepsRequests
    BY <1>2, <1>3, KeepClosed
  <1>5. ExtrasOK' /\ HistoryOK' /\ ClientOK' /\ cur' \in {0, cur}
    BY RestLemma, ExtrasLemma, HistoryUnchanged, ClientUnchanged DEF Heartbeat, RestOK, client
  <1> QED BY <1>4, <1>5, ShapeOfRequests DEF Heartbeat

LEMMA ShapePage ==
    ASSUME ShapeInv, NEW r \in Requests, Page(r) PROVE ShapeInv'
  <1>1. KeepsRequests
    BY KeepPage
  <1>2. /\ UNCHANGED <<store, disp, arrived, sess, ctl, hub, client, published, raced, stale, unsure, extras>>
        /\ excused' \subseteq excused \cup {event[n] : n \in Ahead(r)}
    BY DEF Page
  <1>3. LogOK /\ HistoryOK /\ ExtrasOK
    BY RestLemma DEF RestOK
  <1>4. HistoryOK'
    <2>1. \A n \in Ahead(r) : event[n] \in Public
      BY <1>3 DEF Ahead, LogOK
    <2> QED BY <1>2, <1>3, <2>1 DEF HistoryOK
  <1>5. ExtrasOK' /\ ClientOK' /\ cur' \in {0, cur}
    BY <1>2, <1>3, ExtrasLemma, ClientUnchanged DEF client
  <1> QED BY <1>1, <1>2, <1>4, <1>5, ShapeOfRequests

LEMMA ShapeSend ==
    ASSUME ShapeInv, NEW r \in Requests, Send(r) PROVE ShapeInv' /\ cur' \in {0, cur}
  <1>1. /\ KeepsRequests /\ req[r] \in FitRequest /\ Opened(r)
        /\ Holder(r) \in {0} \cup Requests
        /\ Holder(r) # 0 => Connected(req[r].p, req[r].s, Holder(r))
    BY KeepSend
  <1>2. LogOK /\ DispatchOK /\ HistoryOK /\ ExtrasOK /\ NumbersOnce /\ TypeOK
    BY RestLemma DEF RestOK, ShapeInv
  <1>3. UNCHANGED <<seqno, event, keys, disp, arrived, sess, ctl, hub, published, raced, stale, unsure, extras>>
        /\ index' = index \ req[r].scan.missing
        /\ excused' \subseteq excused \cup {event[n] : n \in Stored} \cup published
    BY DEF Send
  <1>4. LogOK'
    <2>1. IsFiniteSet(index) /\ Cardinality(index) \in Nat
      <3>1. 1 \in Int /\ seqno \in Int
        BY <1>2, Bounds DEF LogOK
      <3>2. IsFiniteSet(1 .. seqno) /\ index \in SUBSET (1 .. seqno)
        BY <1>2, <3>1, FS_Interval DEF LogOK
      <3> QED BY <3>2, FS_Subset, FS_CardinalityType
    <2>2. PICK I : I = index \ req[r].scan.missing
      OBVIOUS
    <2>3. I \in SUBSET index /\ I = index'
      BY <1>3, <2>2
    <2>4. Cardinality(I) <= Cardinality(index) /\ Cardinality(I) \in Nat
      BY <2>1, <2>3, FS_Subset, FS_CardinalityType
    <2>5. Cardinality(index) <= MaxIndex
      BY <1>2 DEF LogOK
    <2>6. Cardinality(I) <= MaxIndex
      BY <2>1, <2>4, <2>5, Bounds
    <2>7. Cardinality(index') <= MaxIndex
      BY <2>3, <2>6
    <2> QED BY <1>2, <1>3, <2>3, <2>7 DEF LogOK
  <1>5. DispatchOK' /\ NumbersOnce'
    BY <1>2, <1>3 DEF DispatchOK, NumbersOnce
  <1>6. HistoryOK'
    <2>1. \A n \in Stored : event[n] \in Public
      BY <1>2 DEF Stored, LogOK
    <2> QED BY <1>2, <1>3, <2>1 DEF HistoryOK
  <1>7. ClientOK' /\ cur' \in {0, cur}
    <2>1. req[r].scan.found \in Seq(Item) /\ req[r].buffer \in Seq(Item) /\ << >> \in Seq(Item)
      BY <1>1 DEF FitRequest, Request, Scan
    <2>2. CASE cur = r \/ Holder(r) = 0
      <3>1. PICK b : b = req[r].scan.found \o (IF Holder(r) = r THEN req[r].buffer ELSE << >>)
        OBVIOUS
      <3>2. b \in Seq(Item) /\ Reads(r, b)
        BY <2>1, <2>2, <3>1 DEF Send
      <3> QED BY <1>2, <3>2, ReadsType
    <2>3. CASE ~(cur = r \/ Holder(r) = 0)
      <3>1. PICK h, b : h = Holder(r) /\ b = req[Holder(r)].buffer
        OBVIOUS
      <3>2. h \in Requests /\ req[h] \in FitRequest
        BY <1>1, <1>2, <2>3, <3>1, RequestLemma DEF Connected
      <3>3. b \in Seq(Item) /\ Reads(h, b)
        BY <2>3, <3>1, <3>2 DEF Send, FitRequest, Request
      <3> QED BY <1>2, <3>3, ReadsType
    <2> QED BY <2>2, <2>3
  <1>8. ExtrasOK' /\ SessionsOK' /\ ControlsOK' /\ SessionsSteady
    BY <1>2, <1>3, ExtrasLemma, SessionsUnchanged
  <1> QED BY <1>1, <1>4, <1>5, <1>6, <1>7, <1>8, ShapeKept DEF RestOK

\* A session that is found was opened, and a step that keeps a session's record
\* keeps it opened.
LEMMA SessionLemma ==
    /\ NoSession \in Session /\ NoSession.state = "none"
    /\ \A s \in Sessions : ShapeInv => sess[s] \in Session
    /\ \A s : Exists(s) => sess[s] # NoSession
  BY DEF NoSession, Session, Exists, ShapeInv, TypeOK

LEMMA KeepClaim ==
    ASSUME ShapeInv, NEW r \in Requests, Claim(r)
    PROVE  /\ KeepsShape /\ Opened(r) /\ req[r].pc = "claim" /\ req[r] \in FitRequest
           /\ \A q \in Requests : q # r => req'[q] = req[q]
           /\ Taken(req[r].s) => req'[r] = Over(req[r], "refused")
           /\ ~Taken(req[r].s) => /\ req'[r].pc = "register" /\ req'[r].topics = req[r].topics
                                  /\ req'[r].scan = req[r].scan /\ req'[r].buffer = req[r].buffer
                                  /\ req'[r].paused = req[r].paused /\ req'[r].ended = req[r].ended
  <1>0. TypeOK /\ req[r].pc = "claim" /\ Opened(r) /\ req[r] \in FitRequest
    BY RequestLemma DEF Claim, ShapeInv
  <1>1. PICK y : y = IF Taken(req[r].s) THEN Over(req[r], "refused") ELSE [req[r] EXCEPT !.pc = "register"]
    OBVIOUS
  <1>2. /\ req' = [req EXCEPT ![r] = y] /\ hub' = hub
    BY <1>1 DEF Claim
  <1>3. /\ req' = [q \in Requests |-> req'[q]]
        /\ \A q \in Requests : q # r => req'[q] = req[q]
        /\ req'[r] = y
    BY <1>0, <1>2 DEF TypeOK
  <1>4. Follows(req[r], y) /\ (~Taken(req[r].s) => /\ y.pc = "register" /\ y.topics = req[r].topics
                                  /\ y.scan = req[r].scan /\ y.buffer = req[r].buffer
                                  /\ y.paused = req[r].paused /\ y.ended = req[r].ended
                                  /\ y.cleaned = req[r].cleaned)
        /\ (Taken(req[r].s) => y.pc = "refused")
    <2>1. CASE Taken(req[r].s)
      BY <1>0, <1>1, <2>1, OverLemma
    <2>2. CASE ~Taken(req[r].s)
      BY <1>0, <1>1, <2>2 DEF Follows, FitRequest, Request
    <2> QED BY <2>1, <2>2
  <1>5. RequestsFollow
    BY <1>0, <1>3, <1>4, RequestLemma, SameFollows DEF RequestsFollow
  <1>6. KeepsShape
    <2>1. \A q \in Requests : Opened(q) /\ req[q].pc \in Running /\ ~req[q].ended /\ ~req[q].cleaned =>
               req'[q].pc \in Running /\ ~req'[q].ended /\ ~req'[q].cleaned
      BY <1>0, <1>3 DEF Running
    <2>2. WaitersWait
      BY <1>0, <1>3, <1>4 DEF WaitersWait, Untouched, Waiting
    <2> QED BY <1>2, <1>3, <1>5, <2>1, <2>2, FollowInPlace
  <1> QED BY <1>0, <1>1, <1>3, <1>4, <1>6

LEMMA ShapeClaim ==
    ASSUME ShapeInv, NEW r \in Requests, Claim(r) PROVE ShapeInv'
  <1>1. KeepsShape /\ req[r] \in FitRequest /\ Opened(r)
    BY KeepClaim
  <1>2. req[r].s \in Sessions
    BY <1>1 DEF FitRequest, Request
  <1>3. sess' = [sess EXCEPT ![req[r].s].used = TRUE]
        /\ UNCHANGED <<store, disp, arrived, ctl, hub, client, history, extras>>
    BY DEF Claim
  <1>4. SessionsOK /\ ControlsOK /\ ExtrasOK
    BY RestLemma DEF RestOK
  <1>5. /\ \A s \in Sessions : s # req[r].s => sess'[s] = sess[s]
        /\ sess'[req[r].s] = [sess[req[r].s] EXCEPT !.used = TRUE]
        /\ sess' = [s \in Sessions |-> sess'[s]]
    BY <1>2, <1>3, <1>4 DEF SessionsOK
  <1>6. [sess[req[r].s] EXCEPT !.used = TRUE] \in Session
        /\ [sess[req[r].s] EXCEPT !.used = TRUE].topics = sess[req[r].s].topics
        /\ [sess[req[r].s] EXCEPT !.used = TRUE] # NoSession
    BY <1>2, <1>4 DEF SessionsOK, Session, NoSession
  <1>7. SessionsOK' /\ ControlsOK'
    BY <1>3, <1>4, <1>5, <1>6 DEF SessionsOK, ControlsOK
  <1>8. sess[req[r].s] # NoSession
    BY <1>1 DEF ShapeInv, SessionsKnown
  <1>9. SessionsSteady
    <2>1. \A s \in Sessions : sess'[s] = NoSession <=> sess[s] = NoSession
      BY <1>5, <1>6, <1>8
    <2>2. ASSUME NEW c \in Controls, ctl'[c] # NoControl PROVE sess'[ctl'[c].s] # NoSession
      <3>1. ctl[c] # NoControl /\ ctl'[c] = ctl[c]
        BY <1>3, <2>2
      <3>2. ctl[c].s \in Sessions /\ sess[ctl[c].s] # NoSession
        BY <1>4, <3>1 DEF ControlsOK, Control, ShapeInv, SessionsKnown
      <3> QED BY <2>1, <3>1, <3>2
    <2> QED BY <2>1, <2>2 DEF SessionsSteady
  <1>10. ClientOK' /\ HistoryOK' /\ ExtrasOK' /\ cur' = cur
    BY <1>3, <1>4, ClientUnchanged, HistoryUnchanged, ExtrasLemma DEF client
  <1> QED BY <1>1, <1>3, <1>7, <1>9, <1>10, LogUnchanged, SteadyGrow, ShapeFollows DEF RestOK

\* The record of one session that was opened changes.
LEMMA SessionChanged ==
    ASSUME ShapeInv, NEW s \in Sessions, NEW x \in Session, Cardinality(x.topics) <= MaxTopics,
           sess[s] # NoSession, x # NoSession, sess' = [sess EXCEPT ![s] = x]
    PROVE  /\ SessionsOK' /\ sess'[s] = x
           /\ \A t \in Sessions : t # s => sess'[t] = sess[t]
           /\ \A t \in Sessions : sess'[t] = NoSession <=> sess[t] = NoSession
           /\ UNCHANGED ctl => ControlsOK' /\ SessionsSteady
  <1>1. SessionsOK /\ ControlsOK
    BY RestLemma DEF RestOK
  <1>2. /\ sess'[s] = x /\ \A t \in Sessions : t # s => sess'[t] = sess[t]
        /\ SessionsOK'
    BY <1>1 DEF SessionsOK
  <1>3. \A t \in Sessions : sess'[t] = NoSession <=> sess[t] = NoSession
    BY <1>2
  <1>4. ASSUME UNCHANGED ctl PROVE ControlsOK' /\ SessionsSteady
    <2>1. ASSUME NEW c \in Controls, ctl'[c] # NoControl PROVE sess'[ctl'[c].s] # NoSession
      <3>1. ctl[c] # NoControl /\ ctl'[c] = ctl[c]
        BY <1>4, <2>1
      <3>2. ctl[c].s \in Sessions /\ sess[ctl[c].s] # NoSession
        BY <1>1, <3>1 DEF ControlsOK, Control, ShapeInv, SessionsKnown
      <3> QED BY <1>3, <3>1, <3>2
    <2> QED BY <1>1, <1>3, <1>4, <2>1 DEF SessionsSteady, ControlsOK
  <1> QED BY <1>2, <1>3, <1>4

LEMMA ShapeRevoke ==
    ASSUME ShapeInv, NEW s \in Sessions, Revoke(s)
    PROVE  /\ ShapeInv' /\ KeepsRequests
           /\ \A t \in Sessions : t # s => sess'[t] = sess[t]
           /\ ~Exists(s)' /\ sess'[s].state = "deleted"
  <1>0. SessionsOK /\ ExtrasOK
    BY RestLemma DEF RestOK
  <1>1. sess[s] \in Session /\ sess[s] # NoSession
    BY SessionLemma DEF Revoke
  <1>2. PICK x : x = [sess[s] EXCEPT !.state = "deleted", !.topics = {}, !.used = FALSE]
    OBVIOUS
  <1>3. x \in Session /\ x.topics = {} /\ x.state = "deleted"
    BY <1>1, <1>2 DEF Session
  <1>4. x # NoSession /\ Cardinality(x.topics) <= MaxTopics
    BY <1>3, FS_EmptySet, Bounds DEF NoSession
  <1>5. sess' = [sess EXCEPT ![s] = x] /\ Extra
        /\ UNCHANGED <<store, disp, arrived, ctl, req, hub, client, history>>
    BY <1>2 DEF Revoke
  <1>6. KeepsRequests
    BY <1>5, KeepUnchanged
  <1>7. /\ SessionsOK' /\ sess'[s] = x /\ ControlsOK' /\ SessionsSteady
        /\ \A t \in Sessions : t # s => sess'[t] = sess[t]
    BY <1>1, <1>3, <1>4, <1>5, SessionChanged
  <1>8. ClientOK' /\ HistoryOK' /\ ExtrasOK' /\ cur' = cur
    BY <1>0, <1>5, ClientUnchanged, HistoryUnchanged, ExtrasLemma DEF client
  <1>9. ShapeInv'
    BY <1>5, <1>6, <1>7, <1>8, LogUnchanged, ShapeKept DEF RestOK
  <1> QED BY <1>3, <1>6, <1>7, <1>9 DEF Exists

LEMMA ShapeExpireSession ==
    ASSUME ShapeInv, NEW s \in Sessions, ExpireSession(s)
    PROVE  /\ ShapeInv' /\ KeepsRequests
           /\ \A t \in Sessions : t # s => sess'[t] = sess[t]
           /\ ~Exists(s)' /\ sess'[s].state = sess[s].state
  <1>0. SessionsOK /\ ExtrasOK
    BY RestLemma DEF RestOK
  <1>1. sess[s] \in Session /\ sess[s] # NoSession /\ sess[s].state # "none"
    BY SessionLemma DEF ExpireSession
  <1>2. PICK x : x = [sess[s] EXCEPT !.over = TRUE, !.topics = {}, !.used = FALSE]
    OBVIOUS
  <1>3. x \in Session /\ x.topics = {} /\ x.state = sess[s].state /\ x.over
    BY <1>1, <1>2 DEF Session
  <1>4. x # NoSession /\ Cardinality(x.topics) <= MaxTopics
    BY <1>1, <1>3, FS_EmptySet, Bounds DEF NoSession
  <1>5. sess' = [sess EXCEPT ![s] = x] /\ Extra
        /\ UNCHANGED <<store, disp, arrived, ctl, req, hub, client, history>>
    BY <1>2 DEF ExpireSession
  <1>6. KeepsRequests
    BY <1>5, KeepUnchanged
  <1>7. /\ SessionsOK' /\ sess'[s] = x /\ ControlsOK' /\ SessionsSteady
        /\ \A t \in Sessions : t # s => sess'[t] = sess[t]
    BY <1>1, <1>3, <1>4, <1>5, SessionChanged
  <1>8. ClientOK' /\ HistoryOK' /\ ExtrasOK' /\ cur' = cur
    BY <1>0, <1>5, ClientUnchanged, HistoryUnchanged, ExtrasLemma DEF client
  <1>9. ShapeInv'
    BY <1>5, <1>6, <1>7, <1>8, LogUnchanged, ShapeKept DEF RestOK
  <1> QED BY <1>3, <1>6, <1>7, <1>9 DEF Exists

LEMMA ShapeRevoked ==
    ASSUME ShapeInv, NEW s \in Sessions, Revoked(s)
    PROVE  /\ ShapeInv' /\ KeepsRequests
           /\ \A t \in Sessions : t # s => sess'[t] = sess[t]
           /\ ~Exists(s)' /\ ~Exists(s) /\ sess'[s].state = "revoked"
           /\ \/ hub' = Without(Told(s)) /\ raced' = raced \cup Untold(s)
              \/ hub' = hub /\ raced' = raced \cup Untold(s) \cup Told(s)
  <1>0. SessionsOK /\ ExtrasOK /\ HistoryOK
    BY RestLemma DEF RestOK
  <1>1. sess[s] \in Session /\ sess[s].state = "deleted"
    BY SessionLemma DEF Revoked
  <1>2. PICK x : x = [sess[s] EXCEPT !.state = "revoked"]
    OBVIOUS
  <1>3. x \in Session /\ x.topics = sess[s].topics /\ x.state = "revoked"
    BY <1>1, <1>2 DEF Session
  <1>4. x # NoSession /\ sess[s] # NoSession /\ Cardinality(x.topics) <= MaxTopics
    BY <1>0, <1>1, <1>3 DEF NoSession, SessionsOK
  <1>5. /\ sess' = [sess EXCEPT ![s] = x]
        /\ \/ /\ hub' = Without(Told(s)) /\ req' = Ended(Told(s))
              /\ raced' = raced \cup Untold(s) /\ UNCHANGED extras
           \/ /\ Extra /\ raced' = raced \cup Untold(s) \cup Told(s)
              /\ UNCHANGED <<hub, req>>
        /\ UNCHANGED <<store, disp, arrived, ctl, client, published, excused, stale, unsure>>
    BY <1>2 DEF Revoked
  <1>6. KeepsRequests
    <2>1. PICK R : R = Told(s)
      OBVIOUS
    <2>2. R \in SUBSET Requests /\ \A r \in R : Opened(r) /\ req[r].pc \in Running
      BY <2>1, HubLemma, Bounds DEF Told, Connected, Running
    <2>3. CASE hub' = Without(Told(s)) /\ req' = Ended(Told(s))
      BY <2>1, <2>2, <2>3, KeepClosed
    <2> QED BY <1>5, <2>3, KeepUnchanged
  <1>7. /\ SessionsOK' /\ sess'[s] = x /\ ControlsOK' /\ SessionsSteady
        /\ \A t \in Sessions : t # s => sess'[t] = sess[t]
    BY <1>1, <1>3, <1>4, <1>5, SessionChanged
  <1>8. HistoryOK'
    <2>1. Told(s) \subseteq Requests /\ Untold(s) \subseteq Requests
      BY DEF Told, Untold
    <2> QED BY <1>0, <1>5, <2>1 DEF HistoryOK
  <1>9. ClientOK' /\ ExtrasOK' /\ cur' = cur
    BY <1>0, <1>5, ClientUnchanged, ExtrasLemma DEF client
  <1>10. ShapeInv'
    BY <1>5, <1>6, <1>7, <1>8, <1>9, LogUnchanged, ShapeKept DEF RestOK
  <1> QED BY <1>1, <1>3, <1>5, <1>6, <1>7, <1>10 DEF Exists

LEMMA ShapeCreateSession ==
    ASSUME ShapeInv, CreateSession
    PROVE  /\ ShapeInv' /\ KeepsRequests
           /\ Cookie + 1 \in Sessions /\ sess[Cookie + 1] = NoSession
           /\ \A t \in Sessions : t # Cookie + 1 => sess'[t] = sess[t]
           /\ sess'[Cookie + 1].state = "live" /\ sess'[Cookie + 1].topics = First
  <1>0. SessionsOK /\ ExtrasOK /\ ControlsOK /\ TypeOK /\ InSequence
    BY RestLemma DEF RestOK, ShapeInv
  <1>1. PICK k : k = Cookie + 1
    OBVIOUS
  <1>2. PICK x : x = [state |-> "live", topics |-> First, used |-> FALSE, over |-> FALSE]
    OBVIOUS
  <1>3. /\ k \in Sessions /\ sess[k] = NoSession
        /\ \A t \in Sessions : t < k <=> sess[t] # NoSession
    <2>1. Cookie \in 0 .. MaxSessions /\ Cookie < MaxSessions /\ MaxSessions \in Nat
      BY <1>0, CookieLemma, Bounds DEF CreateSession
    <2>2. k \in Sessions /\ ~(k <= Cookie)
      BY <1>1, <2>1 DEF Sessions
    <2>3. \A t \in Sessions : t < k <=> t <= Cookie
      BY <1>1, <2>1, Bounds DEF Sessions
    <2> QED BY <1>0, <2>2, <2>3, CookieLemma
  <1>4. x \in Session /\ x # NoSession /\ Cardinality(x.topics) <= MaxTopics
        /\ x.state = "live" /\ x.topics = First
    BY <1>2, ConstantsAssumption DEF Session, NoSession
  <1>5. sess' = [sess EXCEPT ![k] = x]
        /\ UNCHANGED <<store, disp, arrived, ctl, req, hub, client, history, extras>>
    BY <1>1, <1>2 DEF CreateSession
  <1>6. /\ sess'[k] = x /\ \A t \in Sessions : t # k => sess'[t] = sess[t]
        /\ SessionsOK' /\ ControlsOK'
    BY <1>0, <1>3, <1>4, <1>5 DEF SessionsOK, ControlsOK
  <1>7. SessionsGrow
    <2>1. \A s \in Sessions : sess'[s] # NoSession <=> s <= k
      <3>1. \A s \in Sessions : s <= k <=> s < k \/ s = k
        BY <1>3, Bounds
      <3>2. \A s \in Sessions : s # k => (sess'[s] # NoSession <=> s < k)
        BY <1>3, <1>6
      <3>3. ~(k < k)
        BY <1>3, Bounds
      <3> QED BY <1>4, <1>6, <3>1, <3>2
    <2>2. \A s \in Sessions : \A t \in 1 .. s : t \in Sessions /\ (s <= k => t <= k)
      BY <1>3, Bounds DEF Sessions
    <2>3. \A s \in Sessions : sess[s] # NoSession => sess'[s] # NoSession
      BY <1>3, <1>4, <1>6
    <2>4. ASSUME NEW c \in Controls, ctl'[c] # NoControl PROVE sess'[ctl'[c].s] # NoSession
      <3>1. ctl[c] # NoControl /\ ctl'[c] = ctl[c]
        BY <1>5, <2>4
      <3>2. ctl[c].s \in Sessions /\ sess[ctl[c].s] # NoSession
        BY <1>0, <3>1 DEF ControlsOK, Control, ShapeInv, SessionsKnown
      <3> QED BY <2>3, <3>1, <3>2
    <2> QED BY <2>1, <2>2, <2>3, <2>4 DEF SessionsGrow
  <1>8. KeepsRequests
    BY <1>5, KeepUnchanged
  <1>9. ClientOK' /\ HistoryOK' /\ ExtrasOK' /\ cur' = cur
    BY <1>0, <1>5, ClientUnchanged, HistoryUnchanged, ExtrasLemma DEF client
  <1>10. ShapeInv'
    BY <1>5, <1>6, <1>7, <1>8, <1>9, LogUnchanged, ShapeFollows DEF RestOK, KeepsRequests
  <1> QED BY <1>1, <1>3, <1>4, <1>6, <1>8, <1>10

LEMMA ShapeListTopics ==
    ASSUME ShapeInv, NEW c \in Controls, ListTopics(c)
    PROVE  /\ ShapeInv' /\ KeepsRequests /\ ctl[c] \in Control /\ ctl[c].s \in Sessions
           /\ \A d \in Controls : d # c => ctl'[d] = ctl[d]
           /\ ctl'[c].s = ctl[c].s
           /\ ctl'[c].pc = IF Exists(ctl[c].s) THEN "publish" ELSE "done"
           /\ ctl'[c].topics = sess[ctl[c].s].topics
  <1>0. SessionsOK /\ ExtrasOK /\ ControlsOK
    BY RestLemma DEF RestOK
  <1>1. ctl[c] \in Control /\ ctl[c] # NoControl
    BY <1>0 DEF ControlsOK, NoControl, ListTopics
  <1>2. ctl[c].s \in Sessions /\ sess[ctl[c].s] # NoSession
    BY <1>1 DEF Control, ShapeInv, SessionsKnown
  <1>3. PICK pc : pc = IF Exists(ctl[c].s) THEN "publish" ELSE "done"
    OBVIOUS
  <1>4. PICK T : T = sess[ctl[c].s].topics
    OBVIOUS
  <1>5. ctl' = [ctl EXCEPT ![c].pc = pc, ![c].topics = T]
        /\ UNCHANGED <<store, disp, arrived, sess, req, hub, client, history, extras>>
    BY <1>3, <1>4 DEF ListTopics, Listed
  <1>6. T \in SUBSET Topics
    BY <1>0, <1>2, <1>4 DEF SessionsOK, Session
  <1>7. /\ \A d \in Controls : d # c => ctl'[d] = ctl[d]
        /\ ctl'[c] \in Control /\ ctl'[c].s = ctl[c].s /\ ctl'[c].pc = pc /\ ctl'[c].topics = T
        /\ ControlsOK'
    <2>1. ctl'[c] = [ctl[c] EXCEPT !.pc = pc, !.topics = T]
      BY <1>0, <1>5 DEF ControlsOK
    <2>2. ctl'[c] \in Control /\ ctl'[c].s = ctl[c].s /\ ctl'[c].pc = pc /\ ctl'[c].topics = T
      BY <1>1, <1>3, <1>6, <2>1 DEF Control
    <2>3. \A d \in Controls : d # c => ctl'[d] = ctl[d]
      BY <1>0, <1>5 DEF ControlsOK
    <2> QED BY <1>0, <1>5, <2>2, <2>3 DEF ControlsOK
  <1>8. SessionsOK' /\ SessionsSteady
    <2>1. SessionsOK'
      BY <1>0, <1>5 DEF SessionsOK
    <2>2. \A d \in Controls : ctl'[d] # NoControl => sess[ctl'[d].s] # NoSession
      BY <1>2, <1>7 DEF ShapeInv, SessionsKnown
    <2> QED BY <1>5, <2>1, <2>2 DEF SessionsSteady
  <1>9. KeepsRequests
    BY <1>5, KeepUnchanged
  <1>10. ClientOK' /\ HistoryOK' /\ ExtrasOK' /\ cur' = cur
    BY <1>0, <1>5, ClientUnchanged, HistoryUnchanged, ExtrasLemma DEF client
  <1>11. ShapeInv'
    BY <1>5, <1>7, <1>8, <1>9, <1>10, LogUnchanged, ShapeKept DEF RestOK
  <1> QED BY <1>1, <1>2, <1>3, <1>4, <1>7, <1>9, <1>11

LEMMA ShapeChangeTopics ==
    ASSUME ShapeInv, NEW c \in Controls, NEW T \in SUBSET Topics, ChangeTopics(c, T)
    PROVE  /\ ShapeInv' /\ KeepsRequests /\ ctl[c] = NoControl /\ Cookie \in Sessions
           /\ \A d \in Controls : d # c => ctl'[d] = ctl[d]
           /\ ctl'[c].pc = "list" /\ ctl'[c].s = Cookie
           /\ \A t \in Sessions : t # Cookie => sess'[t] = sess[t]
           /\ sess'[Cookie].state = sess[Cookie].state /\ sess'[Cookie].over = sess[Cookie].over
           /\ sess'[Cookie].used = sess[Cookie].used
           /\ unsure' = IF Busy(Cookie) THEN unsure \cup {Cookie} ELSE unsure
  <1>0. SessionsOK /\ ExtrasOK /\ ControlsOK /\ HistoryOK /\ TypeOK /\ InSequence
    BY RestLemma DEF RestOK, ShapeInv
  <1>1. PICK k : k = Cookie
    OBVIOUS
  <1>2. k \in Sessions /\ sess[k] \in Session /\ Exists(k) /\ sess[k] # NoSession
    <2>1. Cookie \in 0 .. MaxSessions /\ Cookie # 0
      BY <1>0, CookieLemma DEF ChangeTopics
    <2>2. k \in Sessions
      BY <1>1, <2>1, Bounds DEF Sessions
    <2> QED BY <1>1, <2>2, SessionLemma DEF ChangeTopics
  <1>3. PICK x : x = [sess[k] EXCEPT !.topics = T]
    OBVIOUS
  <1>4. x \in Session /\ x.topics = T /\ x.state = sess[k].state /\ x.over = sess[k].over
        /\ x.used = sess[k].used
    BY <1>2, <1>3 DEF Session
  <1>5. x # NoSession
    BY <1>2, <1>4 DEF Exists, NoSession
  <1>6. Cardinality(T) <= MaxTopics
    <2>1. CASE T \subseteq sess[k].topics
      <3>1. sess[k].topics \in SUBSET Topics /\ Cardinality(sess[k].topics) <= MaxTopics
        BY <1>0, <1>2 DEF SessionsOK, Session
      <3>2. PICK old : old = sess[k].topics
        OBVIOUS
      <3>3. IsFiniteSet(old) /\ Cardinality(old) \in Nat
        BY <3>1, <3>2, Bounds, FS_Subset, FS_CardinalityType
      <3>4. Cardinality(T) <= Cardinality(old) /\ Cardinality(T) \in Nat
        BY <2>1, <3>2, <3>3, FS_Subset, FS_CardinalityType
      <3> QED BY <3>1, <3>2, <3>3, <3>4, Bounds
    <2> QED BY <1>1, <2>1 DEF ChangeTopics
  <1>7. PICK U : U = T \ sess[k].topics
    OBVIOUS
  <1>8. /\ sess' = [sess EXCEPT ![k] = x] /\ Extra /\ ctl[c] = NoControl
        /\ ctl' = [ctl EXCEPT ![c] = [pc |-> "list", s |-> k, topics |-> U]]
        /\ unsure' = IF Busy(k) THEN unsure \cup {k} ELSE unsure
        /\ UNCHANGED <<store, disp, arrived, req, hub, client, published, excused, raced, stale>>
    BY <1>1, <1>3, <1>7 DEF ChangeTopics
  <1>9. /\ SessionsOK' /\ sess'[k] = x
        /\ \A t \in Sessions : t # k => sess'[t] = sess[t]
        /\ \A t \in Sessions : sess'[t] = NoSession <=> sess[t] = NoSession
    BY <1>2, <1>4, <1>5, <1>6, <1>8, SessionChanged
  <1>10. /\ \A d \in Controls : d # c => ctl'[d] = ctl[d]
         /\ ctl'[c] = [pc |-> "list", s |-> k, topics |-> U]
         /\ ControlsOK'
    <2>1. [pc |-> "list", s |-> k, topics |-> U] \in Control
      BY <1>2, <1>7 DEF Control
    <2> QED BY <1>0, <1>8, <2>1 DEF ControlsOK
  <1>11. SessionsSteady
    <2>1. ASSUME NEW d \in Controls, ctl'[d] # NoControl PROVE sess'[ctl'[d].s] # NoSession
      <3>1. CASE d = c
        BY <1>5, <1>9, <1>10, <3>1
      <3>2. CASE d # c
        <4>1. ctl[d] # NoControl /\ ctl'[d] = ctl[d]
          BY <1>10, <2>1, <3>2
        <4>2. ctl[d].s \in Sessions /\ sess[ctl[d].s] # NoSession
          BY <1>0, <4>1 DEF ControlsOK, Control, ShapeInv, SessionsKnown
        <4> QED BY <1>9, <4>1, <4>2
      <3> QED BY <3>1, <3>2
    <2> QED BY <1>9, <2>1 DEF SessionsSteady
  <1>12. KeepsRequests
    BY <1>8, KeepUnchanged
  <1>13. HistoryOK'
    BY <1>0, <1>2, <1>8 DEF HistoryOK
  <1>14. ClientOK' /\ ExtrasOK' /\ cur' = cur
    BY <1>0, <1>8, ClientUnchanged, ExtrasLemma DEF client
  <1>15. ShapeInv'
    BY <1>8, <1>9, <1>10, <1>11, <1>12, <1>13, <1>14, LogUnchanged, ShapeKept DEF RestOK
  <1> QED BY <1>1, <1>2, <1>4, <1>8, <1>9, <1>10, <1>12, <1>15

LEMMA ShapeTopicsUpdated ==
    ASSUME ShapeInv, NEW c \in Controls, TopicsUpdated(c)
    PROVE  /\ ShapeInv' /\ KeepsShape /\ ctl[c] \in Control /\ ctl[c].s \in Sessions /\ ctl[c].pc = "publish"
           /\ \A d \in Controls : d # c => ctl'[d] = ctl[d]
           /\ ctl'[c].pc = "done" /\ hub' = hub /\ sess' = sess
           /\ \A r \in Requests : req'[r] # req[r] =>
                /\ r \in Told(ctl[c].s) /\ Opened(r) /\ req'[r].pc = req[r].pc
                /\ req'[r].topics = ctl[c].topics /\ req'[r].scan = req[r].scan
                /\ req'[r].buffer = req[r].buffer /\ req'[r].paused = req[r].paused
                /\ req'[r].ended = req[r].ended
           /\ \/ /\ \A r \in Requests : r \in Told(ctl[c].s) => req'[r].topics = ctl[c].topics
                 /\ stale' = stale \cup Untold(ctl[c].s) /\ unsure' = unsure
              \/ unsure' = unsure \cup {ctl[c].s} /\ req' = req /\ stale' = stale
  <1>0. SessionsOK /\ ExtrasOK /\ ControlsOK /\ HistoryOK /\ TypeOK
    BY RestLemma DEF RestOK, ShapeInv
  <1>1. ctl[c] \in Control /\ ctl[c] # NoControl /\ ctl[c].pc = "publish"
    BY <1>0 DEF ControlsOK, NoControl, TopicsUpdated
  <1>2. PICK s, T : s = ctl[c].s /\ T = ctl[c].topics
    OBVIOUS
  <1>3. s \in Sessions /\ T \in SUBSET Topics /\ sess[s] # NoSession
    BY <1>1, <1>2 DEF Control, ShapeInv, SessionsKnown
  <1>4. /\ ctl' = [ctl EXCEPT ![c].pc = "done"]
        /\ \/ /\ req' = [r \in Requests |-> IF r \in Told(s)
                            THEN [req[r] EXCEPT !.topics = T] ELSE req[r]]
              /\ stale' = stale \cup Untold(s)
              /\ UNCHANGED <<unsure, extras>>
           \/ /\ Extra /\ unsure' = unsure \cup {s}
              /\ UNCHANGED <<req, stale>>
        /\ UNCHANGED <<store, disp, arrived, sess, hub, client, published, excused, raced>>
    BY <1>2 DEF TopicsUpdated
  <1>5. /\ \A d \in Controls : d # c => ctl'[d] = ctl[d]
        /\ ctl'[c].pc = "done" /\ ctl'[c].s = s /\ ctl'[c] \in Control
        /\ ControlsOK'
    <2>1. ctl'[c] = [ctl[c] EXCEPT !.pc = "done"] /\ \A d \in Controls : d # c => ctl'[d] = ctl[d]
      BY <1>0, <1>4 DEF ControlsOK
    <2>2. ctl'[c].pc = "done" /\ ctl'[c].s = s /\ ctl'[c] \in Control
      BY <1>1, <1>2, <2>1 DEF Control
    <2> QED BY <1>0, <1>4, <2>1, <2>2 DEF ControlsOK
  <1>6. \A r \in Requests : r \in Told(s) => Opened(r) /\ req[r] \in FitRequest
    BY <1>3, HubLemma, Bounds DEF Told
  <1>7. ASSUME NEW x \in FitRequest
        PROVE  LET y == [x EXCEPT !.topics = T]
               IN  /\ Follows(x, y) /\ y.pc = x.pc /\ y.topics = T /\ y.scan = x.scan
                   /\ y.buffer = x.buffer /\ y.paused = x.paused /\ y.ended = x.ended /\ y.cleaned = x.cleaned
    BY <1>3 DEF Follows, FitRequest, Request
  <1>8. /\ req' = [r \in Requests |-> req'[r]]
        /\ \A r \in Requests : \/ req'[r] = req[r]
                               \/ r \in Told(s) /\ req'[r] = [req[r] EXCEPT !.topics = T]
    <2>1. CASE req' = req
      BY <1>0, <2>1 DEF TypeOK
    <2>2. CASE req' = [r \in Requests |-> IF r \in Told(s) THEN [req[r] EXCEPT !.topics = T] ELSE req[r]]
      BY <2>2
    <2> QED BY <1>4, <2>1, <2>2
  <1>9. ASSUME NEW r \in Requests, req'[r] # req[r]
        PROVE  /\ r \in Told(s) /\ Opened(r) /\ Follows(req[r], req'[r]) /\ req'[r].pc = req[r].pc
               /\ req'[r].topics = T /\ req'[r].scan = req[r].scan
               /\ req'[r].buffer = req[r].buffer /\ req'[r].paused = req[r].paused
               /\ req'[r].ended = req[r].ended /\ req'[r].cleaned = req[r].cleaned
    <2>1. r \in Told(s) /\ req'[r] = [req[r] EXCEPT !.topics = T]
      BY <1>8, <1>9
    <2>2. Opened(r) /\ req[r] \in FitRequest
      BY <1>6, <2>1
    <2> QED BY <1>7, <2>1, <2>2
  <1>10. RequestsFollow
    BY <1>0, <1>9, RequestLemma, SameFollows DEF RequestsFollow
  <1>11. KeepsShape
    <2>1. \A r \in Requests : Opened(r) /\ req[r].pc \in Running /\ ~req[r].ended /\ ~req[r].cleaned =>
               req'[r].pc \in Running /\ ~req'[r].ended /\ ~req'[r].cleaned
      <3> SUFFICES ASSUME NEW r \in Requests, Opened(r), req[r].pc \in Running, ~req[r].ended, ~req[r].cleaned
                   PROVE  req'[r].pc \in Running /\ ~req'[r].ended /\ ~req'[r].cleaned
        OBVIOUS
      <3>1. CASE req'[r] = req[r]
        BY <3>1
      <3>2. CASE req'[r] # req[r]
        BY <1>9, <3>2
      <3> QED BY <3>1, <3>2
    <2>2. WaitersWait
      <3> SUFFICES ASSUME NEW r \in Requests, Opened(r) PROVE Untouched(req[r], req'[r])
        BY DEF WaitersWait
      <3>1. CASE req'[r] = req[r]
        BY <3>1 DEF Untouched
      <3>2. CASE req'[r] # req[r]
        BY <1>9, <3>2 DEF Untouched
      <3> QED BY <3>1, <3>2
    <2> QED BY <1>4, <1>8, <1>10, <2>1, <2>2, FollowInPlace
  <1>12. SessionsOK' /\ SessionsSteady
    <2>1. SessionsOK'
      BY <1>0, <1>4 DEF SessionsOK
    <2>2. \A d \in Controls : ctl'[d] # NoControl => sess[ctl'[d].s] # NoSession
      BY <1>3, <1>5 DEF ShapeInv, SessionsKnown
    <2> QED BY <1>4, <2>1, <2>2 DEF SessionsSteady
  <1>13. HistoryOK'
    <2>1. Untold(s) \subseteq Requests
      BY DEF Untold
    <2> QED BY <1>0, <1>3, <1>4, <2>1 DEF HistoryOK
  <1>14. ClientOK' /\ ExtrasOK' /\ cur' = cur
    BY <1>0, <1>4, ClientUnchanged, ExtrasLemma DEF client
  <1>15. ShapeInv'
    BY <1>4, <1>5, <1>11, <1>12, <1>13, <1>14, LogUnchanged, SteadyGrow, ShapeFollows DEF RestOK
  <1>16. \/ /\ \A r \in Requests : r \in Told(s) => req'[r].topics = T
            /\ stale' = stale \cup Untold(s) /\ unsure' = unsure
         \/ unsure' = unsure \cup {s} /\ req' = req /\ stale' = stale
    <2>1. ASSUME NEW r \in Requests, r \in Told(s),
                 req' = [q \in Requests |-> IF q \in Told(s) THEN [req[q] EXCEPT !.topics = T] ELSE req[q]]
          PROVE  req'[r].topics = T
      <3>1. req'[r] = [req[r] EXCEPT !.topics = T]
        BY <2>1
      <3> QED BY <1>6, <1>7, <2>1, <3>1
    <2> QED BY <1>4, <2>1
  <1> QED BY <1>1, <1>2, <1>3, <1>4, <1>5, <1>9, <1>11, <1>15, <1>16

\* The next request is opened.
LEMMA KeepConnect ==
    ASSUME ShapeInv, NEW p \in Processes, Connect(p)
    PROVE  LET r == Asked + 1 IN
           /\ r \in Requests /\ ~Opened(r) /\ cur = 0 /\ cur' = r
           /\ \A q \in Requests : q # r => req'[q] = req[q]
           /\ \A q \in Requests : q < r <=> Opened(q)
           /\ req'[r] \in FitRequest
           /\ req'[r].pc = "claim" /\ req'[r].p = p /\ req'[r].s = Cookie /\ ~req'[r].ended
           /\ ~req'[r].paused /\ req'[r].buffer = << >> /\ req'[r].topics = sess[Cookie].topics
           /\ req'[r].scan.from = last /\ req'[r].scan.offset = 0
           /\ req'[r].scan.found = << >> /\ req'[r].scan.missing = {}
           /\ Cookie \in Sessions /\ Exists(Cookie) /\ RequestsOK' /\ ~req'[r].cleaned
  <1>0. TypeOK /\ InSequence /\ SessionsOK /\ ClientOK
    BY RestLemma DEF ShapeInv, RestOK
  <1>1. PICK r, k : r = Asked + 1 /\ k = Cookie
    OBVIOUS
  <1>2. r \in Requests /\ ~Opened(r) /\ \A q \in Requests : q < r <=> Opened(q)
    <2>1. Asked \in 0 .. MaxRequests /\ Asked < MaxRequests /\ MaxRequests \in Nat
      BY <1>0, AskedLemma, Bounds DEF Connect
    <2>2. r \in Requests /\ ~(r <= Asked)
      BY <1>1, <2>1 DEF Requests
    <2>3. \A q \in Requests : q < r <=> q <= Asked
      BY <1>1, <2>1, Bounds DEF Requests
    <2> QED BY <1>0, <2>2, <2>3, AskedLemma
  <1>3. k \in Sessions /\ Exists(k) /\ cur = 0
    <2>1. Cookie \in 0 .. MaxSessions /\ Cookie # 0
      BY <1>0, CookieLemma DEF Connect
    <2>2. k \in Sessions
      BY <1>1, <2>1, Bounds DEF Sessions
    <2> QED BY <1>1, <2>2 DEF Connect
  <1>4. PICK T : T = sess[k].topics
    OBVIOUS
  <1>5. T \in SUBSET Topics
    BY <1>0, <1>3, <1>4 DEF SessionsOK, Session
  <1>6. PICK z : z = [NoScan EXCEPT !.from = last, !.topics = T]
    OBVIOUS
  <1>7. z \in Scan /\ z.from = last /\ z.offset = 0 /\ z.found = << >> /\ z.missing = {}
    <2>1. << >> \in Seq(Item)
      OBVIOUS
    <2> QED BY <1>0, <1>5, <1>6, <2>1 DEF NoScan, Scan, ClientOK
  <1>8. PICK x : x = [pc |-> "claim", p |-> p, s |-> k, topics |-> T,
                      paused |-> FALSE, buffer |-> << >>, ended |-> FALSE, cleaned |-> FALSE, scan |-> z]
    OBVIOUS
  <1>9. /\ x \in FitRequest
        /\ x.pc = "claim" /\ x.p = p /\ x.s = k /\ ~x.ended /\ ~x.paused /\ x.buffer = << >>
        /\ x.topics = T /\ x.scan = z /\ ~x.cleaned
    <2>1. << >> \in Seq(Item) /\ Len(<< >>) = 0
      OBVIOUS
    <2>2. x \in Request
      BY <1>3, <1>5, <1>7, <1>8, <2>1 DEF Request
    <2>3. x.pc = "claim" /\ x.p = p /\ x.s = k /\ ~x.ended /\ ~x.paused /\ x.buffer = << >>
          /\ x.topics = T /\ x.scan = z /\ ~x.cleaned
      BY <1>8
    <2> QED BY <1>7, <2>1, <2>2, <2>3, LimitsLemma DEF FitRequest
  <1>10. req' = [req EXCEPT ![r] = x] /\ cur' = r
    BY <1>1, <1>4, <1>6, <1>8 DEF Connect
  <1>11. /\ \A q \in Requests : q # r => req'[q] = req[q]
         /\ req'[r] = x /\ req' = [q \in Requests |-> req'[q]]
    BY <1>0, <1>2, <1>10 DEF TypeOK
  <1>12. RequestsOK'
    BY <1>0, <1>9, <1>11, RequestLemma DEF RequestsOK
  <1> QED BY <1>1, <1>2, <1>3, <1>4, <1>7, <1>9, <1>10, <1>11, <1>12

LEMMA ShapeConnect ==
    ASSUME ShapeInv, NEW p \in Processes, Connect(p)
    PROVE  ShapeInv'
  <1>0. TypeOK /\ InSequence /\ SessionsOK /\ ControlsOK /\ ExtrasOK /\ ClientOK
    BY RestLemma DEF ShapeInv, RestOK
  <1>1. PICK r, k : r = Asked + 1 /\ k = Cookie
    OBVIOUS
  <1>2. /\ r \in Requests /\ ~Opened(r) /\ cur = 0 /\ cur' = r
        /\ \A q \in Requests : q # r => req'[q] = req[q]
        /\ \A q \in Requests : q < r <=> Opened(q)
        /\ req'[r] \in FitRequest
        /\ req'[r].pc = "claim" /\ req'[r].s = k
        /\ ~req'[r].ended /\ ~req'[r].cleaned /\ ~req'[r].paused /\ req'[r].buffer = << >>
        /\ req'[r].scan.found = << >> /\ req'[r].scan.missing = {}
        /\ k \in Sessions /\ Exists(k) /\ RequestsOK'
    BY <1>1, KeepConnect
  <1>3. UNCHANGED <<store, disp, arrived, sess, ctl, hub, last, got, history, extras>>
    BY DEF Connect
  <1>4. \A q \in Requests : Opened(q)' <=> q <= r
    <2>1. \A q \in Requests : q <= r <=> q < r \/ q = r
      BY <1>2, Bounds
    <2>2. ~(r < r)
      BY <1>2, Bounds
    <2>3. Opened(r)'
      BY <1>2 DEF Opened, FitRequest, Request, NoRequest
    <2>4. \A q \in Requests : q # r => (Opened(q)' <=> Opened(q))
      BY <1>2 DEF Opened
    <2> QED BY <1>2, <2>1, <2>2, <2>3, <2>4
  <1>5. InSequence'
    <2>1. \A q \in Requests : \A u \in 1 .. q : u \in Requests /\ (q <= r => u <= r)
      BY <1>2, Bounds DEF Requests
    <2>2. \A s \in Sessions : \A t \in 1 .. s : sess'[s] # NoSession => sess'[t] # NoSession
      BY <1>0, <1>3 DEF InSequence
    <2>3. \A q \in Requests : \A u \in 1 .. q : Opened(q)' => Opened(u)'
      BY <1>4, <2>1
    <2> QED BY <2>2, <2>3 DEF InSequence
  <1>6. HubOK'
    <2> SUFFICES ASSUME NEW q \in Processes, NEW s \in Sessions, hub'[q][s] # 0
                 PROVE  Connected(q, s, hub[q][s])'
      BY DEF HubOK
    <2>1. PICK u : u = hub[q][s]
      OBVIOUS
    <2>2. u \in Requests /\ Connected(q, s, u) /\ Opened(u) /\ hub'[q][s] = u
      BY <1>3, <2>1, HubLemma
    <2>3. u # r
      BY <1>2, <2>2
    <2>4. Connected(q, s, u)'
      BY <1>2, <2>2, <2>3 DEF Connected, Opened
    <2> QED BY <2>2, <2>4 DEF Connected, Opened
  <1>7. SessionsKnown'
    <2>1. ASSUME NEW q \in Requests, Opened(q)' PROVE sess'[req'[q].s] # NoSession
      <3>1. CASE q = r
        BY <1>2, <1>3, <3>1, SessionLemma
      <3>2. CASE q # r
        BY <1>2, <1>3, <2>1, <3>2 DEF Opened, ShapeInv, SessionsKnown
      <3> QED BY <3>1, <3>2
    <2>2. \A c \in Controls : ctl'[c] # NoControl => sess'[ctl'[c].s] # NoSession
      BY <1>3 DEF ShapeInv, SessionsKnown
    <2> QED BY <2>1, <2>2 DEF SessionsKnown
  <1>8. SessionsOK' /\ ControlsOK' /\ ExtrasOK' /\ HistoryOK'
    BY <1>0, <1>3, SessionsUnchanged, HistoryUnchanged, ExtrasLemma
  <1>9. LogOK' /\ DispatchOK' /\ NumbersOnce'
    BY <1>3, LogUnchanged
  <1>10. ClientOK' /\ HubsOK'
    BY <1>0, <1>2, <1>3 DEF ClientOK, HubsOK, TypeOK
  <1>11. TypeOK'
    <2>1. (/\ LogOK /\ DispatchOK /\ SessionsOK /\ ControlsOK /\ RequestsOK
           /\ HubsOK /\ ClientOK /\ HistoryOK /\ ExtrasOK)' => TypeOK'
      BY PartsLemma, PTL
    <2> QED BY <1>2, <1>8, <1>9, <1>10, <2>1
  <1>12. (cur # 0 => Opened(cur))'
    <2>1. Opened(r)'
      BY <1>2, <1>4, Bounds
    <2> QED BY <1>2, <2>1 DEF Opened
  <1>13. Fresh'
    <2>1. \A q \in Requests : q # r => req'[q] = req[q]
      BY <1>2
    <2> QED BY <1>2, <2>1 DEF ShapeInv, Fresh
  <1> QED BY <1>5, <1>6, <1>7, <1>9, <1>11, <1>12, <1>13 DEF ShapeInv

LEMMA KeepRegister ==
    ASSUME ShapeInv, NEW r \in Requests, Register(r)
    PROVE  /\ Opened(r) /\ req[r].pc = "register" /\ req[r] \in FitRequest
           /\ req[r].p \in Processes /\ req[r].s \in Sessions
           /\ req'[r] = Handle(req[r]) /\ RequestsFollow /\ RequestsOK'
           /\ \A q \in Requests : q # r => req'[q] = req[q]
           /\ hub'[req[r].p][req[r].s] = r /\ HubsOK'
           /\ \A p \in Processes, s \in Sessions :
                p # req[r].p \/ s # req[r].s => hub'[p][s] = hub[p][s]
  <1>0. TypeOK /\ req[r].pc = "register" /\ Opened(r) /\ req[r] \in FitRequest
    BY RequestLemma DEF Register, ShapeInv
  <1>1. PICK y : y = Handle(req[r])
    OBVIOUS
  <1>2. PICK p, s : p = req[r].p /\ s = req[r].s
    OBVIOUS
  <1>3. p \in Processes /\ s \in Sessions
    BY <1>0, <1>2 DEF FitRequest, Request
  <1>4. req' = [req EXCEPT ![r] = y] /\ hub' = [hub EXCEPT ![p][s] = r]
    BY <1>1, <1>2 DEF Register
  <1>5. req'[r] = y /\ \A q \in Requests : q # r => req'[q] = req[q]
    BY <1>0, <1>4 DEF TypeOK
  <1>6. Follows(req[r], y)
    BY <1>0, <1>1, HandleLemma
  <1>7. RequestsFollow
    BY <1>0, <1>5, <1>6, RequestLemma, SameFollows DEF RequestsFollow
  <1>8. RequestsOK'
    BY <1>0, <1>4, <1>6, RequestLemma DEF RequestsOK, Follows
  <1>9. /\ hub'[p][s] = r /\ HubsOK'
        /\ \A q \in Processes, t \in Sessions : q # p \/ t # s => hub'[q][t] = hub[q][t]
    BY <1>0, <1>3, <1>4 DEF TypeOK, HubsOK
  <1> QED BY <1>0, <1>1, <1>2, <1>3, <1>5, <1>7, <1>8, <1>9

LEMMA ShapeRegister ==
    ASSUME ShapeInv, NEW r \in Requests, Register(r)
    PROVE  ShapeInv'
  <1>0. TypeOK /\ InSequence /\ SessionsOK /\ ControlsOK /\ ExtrasOK /\ ClientOK
    BY RestLemma DEF ShapeInv, RestOK
  <1>1. PICK p, s : p = req[r].p /\ s = req[r].s
    OBVIOUS
  <1>2. /\ Opened(r) /\ req[r].pc = "register" /\ req[r] \in FitRequest
        /\ p \in Processes /\ s \in Sessions
        /\ req'[r] = Handle(req[r]) /\ RequestsFollow /\ RequestsOK'
        /\ \A q \in Requests : q # r => req'[q] = req[q]
        /\ hub'[p][s] = r /\ HubsOK'
        /\ \A q \in Processes, t \in Sessions : q # p \/ t # s => hub'[q][t] = hub[q][t]
    BY <1>1, KeepRegister
  <1>3. UNCHANGED <<store, disp, arrived, sess, ctl, client, history, extras>>
    BY DEF Register
  <1>4. /\ req'[r].pc \in {"open", "page"} /\ req'[r].p = p /\ req'[r].s = s
        /\ req'[r].ended = req[r].ended /\ req'[r].cleaned = req[r].cleaned
    BY <1>1, <1>2, HandleLemma DEF Follows
  <1>5. \A q \in Requests : Opened(q)' <=> Opened(q)
    <2>1. Opened(r)'
      BY <1>4 DEF Opened, NoRequest
    <2> QED BY <1>2, <2>1 DEF Opened
  <1>6. InSequence'
    <2>1. \A q \in Requests : \A u \in 1 .. q : u \in Requests
      BY Bounds DEF Requests
    <2>2. \A k \in Sessions : \A t \in 1 .. k : sess'[k] # NoSession => sess'[t] # NoSession
      BY <1>0, <1>3 DEF InSequence
    <2>3. \A q \in Requests : \A u \in 1 .. q : Opened(q)' => Opened(u)'
      BY <1>0, <1>5, <2>1 DEF InSequence
    <2> QED BY <2>2, <2>3 DEF InSequence
  <1>7. HubOK'
    <2> SUFFICES ASSUME NEW q \in Processes, NEW t \in Sessions, hub'[q][t] # 0
                 PROVE  Connected(q, t, hub[q][t])'
      BY DEF HubOK
    <2>1. CASE q = p /\ t = s
      <3>1. ~req[r].ended /\ ~req[r].cleaned
        BY <1>2 DEF ShapeInv, Fresh
      <3>2. Opened(r)'
        BY <1>2, <1>5
      <3> QED BY <1>2, <1>4, <2>1, <3>1, <3>2 DEF Connected, Opened
    <2>2. CASE q # p \/ t # s
      <3>1. PICK u : u = hub[q][t]
        OBVIOUS
      <3>2. hub'[q][t] = u
        BY <1>2, <2>2, <3>1
      <3>3. u \in Requests /\ Connected(q, t, u)
        BY <3>1, <3>2, HubLemma
      <3>4. u # r
        BY <1>2, <3>3 DEF Connected
      <3>5. Connected(q, t, u)'
        BY <1>2, <1>5, <3>3, <3>4 DEF Connected
      <3> QED BY <3>2, <3>5 DEF Connected, Opened
    <2> QED BY <2>1, <2>2
  <1>8. SessionsKnown'
    <2>1. \A q \in Requests : Opened(q)' => sess'[req'[q].s] # NoSession
      BY <1>1, <1>2, <1>3, <1>4, <1>5 DEF ShapeInv, SessionsKnown
    <2>2. \A c \in Controls : ctl'[c] # NoControl => sess'[ctl'[c].s] # NoSession
      BY <1>3 DEF ShapeInv, SessionsKnown
    <2> QED BY <2>1, <2>2 DEF SessionsKnown
  <1>9. SessionsOK' /\ ControlsOK' /\ ExtrasOK' /\ HistoryOK'
    BY <1>0, <1>3, SessionsUnchanged, HistoryUnchanged, ExtrasLemma
  <1>10. LogOK' /\ DispatchOK' /\ NumbersOnce'
    BY <1>3, LogUnchanged
  <1>11. ClientOK' /\ cur' = cur
    BY <1>0, <1>3, ClientUnchanged DEF client
  <1>12. TypeOK'
    <2>1. (/\ LogOK /\ DispatchOK /\ SessionsOK /\ ControlsOK /\ RequestsOK
           /\ HubsOK /\ ClientOK /\ HistoryOK /\ ExtrasOK)' => TypeOK'
      BY PartsLemma, PTL
    <2> QED BY <1>2, <1>9, <1>10, <1>11, <2>1
  <1>13. (cur # 0 => Opened(cur))'
    <2>1. cur # 0 => cur \in Requests /\ Opened(cur)
      BY DEF ShapeInv, TypeOK
    <2> QED BY <1>2, <1>4, <1>5, <1>11, <2>1 DEF Opened, NoRequest
  <1>14. Fresh'
    BY <1>2, <1>4 DEF ShapeInv, Fresh
  <1> QED BY <1>6, <1>7, <1>8, <1>10, <1>12, <1>13, <1>14 DEF ShapeInv

LEMMA ShapeUnchanged == ASSUME ShapeInv, UNCHANGED vars PROVE ShapeInv' /\ KeepsRequests
  <1>1. UNCHANGED <<store, disp, arrived, sess, ctl, req, hub, client, history, extras>>
    BY DEF vars
  <1>2. KeepsRequests
    BY <1>1, KeepUnchanged
  <1>3. ExtrasOK' /\ HistoryOK' /\ ClientOK' /\ cur' \in {0, cur}
    BY <1>1, RestLemma, ExtrasLemma, HistoryUnchanged, ClientUnchanged DEF RestOK, client
  <1> QED BY <1>1, <1>2, <1>3, ShapeOfRequests

LEMMA ShapeNext == ShapeInv /\ [Next]_vars => ShapeInv'
  <1> SUFFICES ASSUME ShapeInv, [Next]_vars PROVE ShapeInv'
    OBVIOUS
  <1>1. CASE CreateSession
    BY <1>1, ShapeCreateSession
  <1>2. CASE Disconnect
    BY <1>2, ShapeDisconnect
  <1>3. ASSUME NEW e \in Private, PrivateMessage(e) PROVE ShapeInv'
    BY <1>3, ShapePrivateMessage
  <1>4. ASSUME NEW p \in Processes, NEW e \in Public, Incr(p, e) PROVE ShapeInv'
    BY <1>4, ShapeIncr
  <1>5. ASSUME NEW p \in Processes, NEW e \in Public, Bypass(p, e) PROVE ShapeInv'
    BY <1>5, ShapeBypass
  <1>6. ASSUME NEW p \in Processes, Store(p) PROVE ShapeInv'
    BY <1>6, ShapeStore
  <1>7. ASSUME NEW p \in Processes, NotStored(p) PROVE ShapeInv'
    BY <1>7, ShapeNotStored
  <1>8. ASSUME NEW p \in Processes, Publish(p) PROVE ShapeInv'
    BY <1>8, ShapePublish
  <1>9. ASSUME NEW p \in Processes, Connect(p) PROVE ShapeInv'
    BY <1>9, ShapeConnect
  <1>10. ASSUME NEW p \in Processes, Heartbeat(p) PROVE ShapeInv'
    BY <1>10, ShapeHeartbeat
  <1>11. ASSUME NEW n \in Numbers, ExpireEvent(n) PROVE ShapeInv'
    BY <1>11, ShapeExpireEvent
  <1>12. ASSUME NEW r \in Requests, Claim(r) PROVE ShapeInv'
    BY <1>12, ShapeClaim
  <1>13. ASSUME NEW r \in Requests, Register(r) PROVE ShapeInv'
    BY <1>13, ShapeRegister
  <1>14. ASSUME NEW r \in Requests, Page(r) PROVE ShapeInv'
    BY <1>14, ShapePage
  <1>15. ASSUME NEW r \in Requests, Send(r) PROVE ShapeInv'
    BY <1>15, ShapeSend
  <1>16. ASSUME NEW r \in Requests, ReplayFails(r) PROVE ShapeInv'
    BY <1>16, ShapeReplayFails
  <1>17. ASSUME NEW r \in Requests, SendFails(r) PROVE ShapeInv'
    BY <1>17, ShapeSendFails
  <1>18. ASSUME NEW r \in Requests, Cleanup(r) PROVE ShapeInv'
    BY <1>18, ShapeCleanup
  <1>19. ASSUME NEW s \in Sessions, Revoke(s) PROVE ShapeInv'
    BY <1>19, ShapeRevoke
  <1>20. ASSUME NEW s \in Sessions, Revoked(s) PROVE ShapeInv'
    BY <1>20, ShapeRevoked
  <1>21. ASSUME NEW s \in Sessions, ExpireSession(s) PROVE ShapeInv'
    BY <1>21, ShapeExpireSession
  <1>22. ASSUME NEW c \in Controls, NEW T \in SUBSET Topics, ChangeTopics(c, T) PROVE ShapeInv'
    BY <1>22, ShapeChangeTopics
  <1>23. ASSUME NEW c \in Controls, ListTopics(c) PROVE ShapeInv'
    BY <1>23, ShapeListTopics
  <1>24. ASSUME NEW c \in Controls, TopicsUpdated(c) PROVE ShapeInv'
    BY <1>24, ShapeTopicsUpdated
  <1>25. CASE UNCHANGED vars
    BY <1>25, ShapeUnchanged
  <1> QED BY <1>1, <1>2, <1>3, <1>4, <1>5, <1>6, <1>7, <1>8, <1>9, <1>10, <1>11, <1>12, <1>13, <1>14,
             <1>15, <1>16, <1>17, <1>18, <1>19, <1>20, <1>21, <1>22, <1>23, <1>24, <1>25 DEF Next

\* Types, requests and sessions opened in sequence, hubs that hold running
\* connections of their own process and session, one number per event.
THEOREM ShapeInvariant == Spec => []ShapeInv
  BY InitShape, ShapeNext, PTL DEF Spec

\* The records, sets and limits of the stream are what the code's types and
\* configured limits say: the index, the buffers, the replay and the sessions
\* never exceed them, and every hub entry is of a request.
THEOREM TypeCorrect == Spec => []TypeOK
  <1>1. ShapeInv => TypeOK
    BY DEF ShapeInv
  <1> QED BY <1>1, ShapeInvariant, PTL

-----------------------------------------------------------------------------
\* Tickets, revocation and topics

\* A session whose ticket let a request in keeps the mark as long as it is found.
TicketInv ==
    /\ TicketUsedOnce
    /\ \A r \in Requests : req[r].pc \in Past /\ Exists(req[r].s) => sess[req[r].s].used

\* A request in its handshake when a revocation is announced is not reached by it.
RevokedInv ==
    /\ RevokedIsClosed
    /\ \A r \in Requests : req[r].pc \in Waiting /\ sess[req[r].s].state = "revoked" => r \in raced

\* Before it registers, a request has the topics of its session; what is about to
\* be announced is what the session has; and only one change is on its way.
HandshakeTopics ==
    \A r \in Requests :
        /\ req[r].pc \in Waiting /\ Exists(req[r].s) /\ ~Busy(req[r].s)
        /\ req[r].s \notin unsure /\ r \notin stale
        => req[r].topics = sess[req[r].s].topics

ListedTopics ==
    \A c \in Controls : ctl[c].pc = "publish" /\ Exists(ctl[c].s) /\ ctl[c].s \notin unsure
        => ctl[c].topics = sess[ctl[c].s].topics

OneChange ==
    \A c, d \in Controls :
        /\ c # d /\ ctl[c].pc \in {"list", "publish"} /\ ctl[d].pc \in {"list", "publish"}
        /\ ctl[c].s = ctl[d].s
        => ctl[c].s \in unsure

TopicsInv == TopicsFollow /\ HandshakeTopics /\ ListedTopics /\ OneChange

\* What a step may do to the sessions that were opened.
SameUsed ==
    \A s \in Sessions : sess[s] # NoSession /\ Exists(s)' => Exists(s) /\ (sess[s].used => sess'[s].used)
SameTopics ==
    \A s \in Sessions : sess[s] # NoSession /\ Exists(s)' => Exists(s) /\ sess'[s].topics = sess[s].topics
SameRevoked ==
    \A s \in Sessions : sess'[s].state = "revoked" => sess[s].state = "revoked"

LEMMA SameSessions == UNCHANGED sess => SameUsed /\ SameTopics /\ SameRevoked
  BY DEF SameUsed, SameTopics, SameRevoked, Exists

\* Nobody is let in.
NoneAdmitted ==
    \A r \in Requests : req'[r].pc \in Past => Opened(r) /\ req[r].pc \in Past /\ req'[r].s = req[r].s

LEMMA KeepAdmits ==
    ASSUME ShapeInv, KeepsRequests
    PROVE  NoneAdmitted
  <1>1. \A r \in Requests : ~Opened(r) => req'[r].pc = "none"
    BY DEF KeepsRequests, KeepsShape, RequestsFollow, Opened, NoRequest
  <1>2. \A r \in Requests : Opened(r) => req'[r].s = req[r].s /\ (req'[r].pc \in Past => req[r].pc \in Past)
    BY DEF KeepsRequests, KeepsShape, RequestsFollow, Follows, Steady
  <1> QED BY <1>1, <1>2 DEF NoneAdmitted, Past

LEMMA OpenedLemma ==
    ASSUME ShapeInv, NEW r \in Requests, req[r].pc # "none"
    PROVE  Opened(r) /\ req[r] \in FitRequest /\ req[r].s \in Sessions /\ sess[req[r].s] # NoSession
  <1>1. Opened(r) /\ req[r] \in FitRequest
    BY RequestLemma DEF ShapeInv
  <1> QED BY <1>1 DEF ShapeInv, SessionsKnown, FitRequest, Request

LEMMA TicketKept ==
    ASSUME ShapeInv, TicketInv, NoneAdmitted, SameUsed
    PROVE  TicketInv'
  <1>1. ASSUME NEW r \in Requests, req'[r].pc \in Past
        PROVE  /\ req[r].pc \in Past /\ req'[r].s = req[r].s
               /\ req[r].s \in Sessions /\ sess[req[r].s] # NoSession
    <2>1. Opened(r) /\ req[r].pc \in Past /\ req'[r].s = req[r].s
      BY <1>1 DEF NoneAdmitted
    <2>2. req[r].pc # "none"
      BY <2>1 DEF Past
    <2> QED BY <2>1, <2>2, OpenedLemma
  <1>2. \A q, r \in Requests : q # r /\ {req'[q].pc, req'[r].pc} \subseteq Past /\ req'[q].s = req'[r].s
            => ~Exists(req[q].s)'
    <2> SUFFICES ASSUME NEW q \in Requests, NEW r \in Requests, q # r,
                        req'[q].pc \in Past, req'[r].pc \in Past, req'[q].s = req'[r].s
                 PROVE  ~Exists(req[q].s)'
      BY DEF Exists
    <2>1. PICK s : s = req[q].s
      OBVIOUS
    <2>2. s \in Sessions /\ sess[s] # NoSession /\ req'[q].s = s
      BY <1>1, <2>1
    <2>3. ~Exists(s)
      BY <1>1, <2>1 DEF TicketInv, TicketUsedOnce, Past
    <2>4. ~Exists(s)'
      BY <2>2, <2>3 DEF SameUsed
    <2> QED BY <2>2, <2>4 DEF Exists
  <1>3. \A r \in Requests : req'[r].pc \in Past /\ Exists(req[r].s)' => sess'[req'[r].s].used
    <2> SUFFICES ASSUME NEW r \in Requests, req'[r].pc \in Past, Exists(req[r].s)'
                 PROVE  sess'[req'[r].s].used
      OBVIOUS
    <2>1. PICK s : s = req[r].s
      OBVIOUS
    <2>2. req[r].pc \in Past /\ s \in Sessions /\ sess[s] # NoSession /\ req'[r].s = s
      BY <1>1, <2>1
    <2>3. Exists(s)'
      BY <2>2 DEF Exists
    <2>4. Exists(s)
      BY <2>2, <2>3 DEF SameUsed
    <2>5. sess[s].used
      BY <2>1, <2>2, <2>4 DEF TicketInv
    <2> QED BY <2>2, <2>3, <2>5 DEF SameUsed
  <1>4. TicketUsedOnce'
    BY <1>2 DEF TicketUsedOnce, Past, Exists
  <1> QED BY <1>3, <1>4 DEF TicketInv

LEMMA RevokedKept ==
    ASSUME ShapeInv, RevokedInv, KeepsShape, SameRevoked, raced \subseteq raced'
    PROVE  RevokedInv'
  <1>1. RevokedIsClosed'
    <2> SUFFICES ASSUME NEW p \in Processes, NEW s \in Sessions, sess'[s].state = "revoked", hub'[p][s] # 0
                 PROVE  hub'[p][s] \in raced'
      BY DEF RevokedIsClosed
    <2>1. hub'[p][s] = hub[p][s]
      BY DEF KeepsShape, HubsShrink
    <2>2. sess[s].state = "revoked"
      BY DEF SameRevoked
    <2> QED BY <2>1, <2>2 DEF RevokedInv, RevokedIsClosed
  <1>2. ASSUME NEW r \in Requests, req'[r].pc \in Waiting, sess'[req'[r].s].state = "revoked"
        PROVE  r \in raced'
    <2>1. Opened(r)
      <3>1. ~Opened(r) => req'[r] = NoRequest
        BY DEF KeepsShape, RequestsFollow, Opened
      <3> QED BY <1>2, <3>1 DEF NoRequest, Waiting
    <2>2. req[r].pc \in Waiting
      BY <1>2, <2>1 DEF KeepsShape, WaitersWait, Untouched
    <2>3. req'[r].s = req[r].s
      BY <2>1 DEF KeepsShape, RequestsFollow, Follows
    <2>4. req[r].s \in Sessions
      BY <2>2, OpenedLemma DEF Waiting
    <2>5. sess[req[r].s].state = "revoked"
      BY <1>2, <2>3, <2>4 DEF SameRevoked
    <2> QED BY <2>2, <2>5 DEF RevokedInv
  <1> QED BY <1>1, <1>2 DEF RevokedInv

\* Topics of requests stay until they are over.
TopicsStay ==
    \A r \in Requests : Opened(r) /\ req'[r].pc \in Waiting \cup Running => req'[r].topics = req[r].topics

LEMMA TopicsKept ==
    ASSUME ShapeInv, TopicsInv, KeepsShape, TopicsStay, SameTopics,
           stale \subseteq stale', unsure \subseteq unsure', UNCHANGED ctl
    PROVE  TopicsInv'
  <1>1. \A s \in Sessions : Busy(s)' <=> Busy(s)
    BY DEF Busy
  <1>2. TopicsFollow'
    <2> SUFFICES ASSUME NEW p \in Processes, NEW s \in Sessions,
                        Exists(s)', ~Busy(s)', s \notin unsure', hub'[p][s] \notin stale' \cup {0}
                 PROVE  req'[hub'[p][s]].topics = sess'[s].topics
      BY DEF TopicsFollow
    <2>1. PICK r : r = hub[p][s]
      OBVIOUS
    <2>2. hub'[p][s] = r /\ req'[r].pc \in Running
      BY <2>1 DEF KeepsShape, HubsShrink
    <2>3. r \in Requests /\ Opened(r) /\ Connected(p, s, r)
      BY <2>1, <2>2, HubLemma
    <2>4. sess[s] # NoSession
      BY <2>3 DEF ShapeInv, SessionsKnown, Connected
    <2>5. Exists(s) /\ sess'[s].topics = sess[s].topics
      BY <2>4 DEF SameTopics
    <2>6. req[r].topics = sess[s].topics
      BY <1>1, <2>1, <2>2, <2>5 DEF TopicsInv, TopicsFollow
    <2>7. req'[r].topics = req[r].topics
      BY <2>2, <2>3 DEF TopicsStay
    <2> QED BY <2>2, <2>5, <2>6, <2>7
  <1>3. HandshakeTopics'
    <2> SUFFICES ASSUME NEW r \in Requests, req'[r].pc \in Waiting, Exists(req[r].s)', ~Busy(req[r].s)',
                        req'[r].s \notin unsure', r \notin stale'
                 PROVE  req'[r].topics = sess'[req'[r].s].topics
      BY DEF HandshakeTopics
    <2>1. Opened(r)
      <3>1. ~Opened(r) => req'[r] = NoRequest
        BY DEF KeepsShape, RequestsFollow, Opened
      <3> QED BY <3>1 DEF NoRequest, Waiting
    <2>2. PICK s : s = req[r].s
      OBVIOUS
    <2>3. req[r].pc \in Waiting
      BY <2>1 DEF KeepsShape, WaitersWait, Untouched
    <2>4. req'[r].s = s
      BY <2>1, <2>2 DEF KeepsShape, RequestsFollow, Follows
    <2>5. s \in Sessions /\ sess[s] # NoSession
      BY <2>2, <2>3, OpenedLemma DEF Waiting
    <2>6. Exists(s)' /\ ~Busy(s)'
      BY <2>4 DEF Exists, Busy
    <2>7. Exists(s) /\ sess'[s].topics = sess[s].topics /\ ~Busy(s)
      BY <1>1, <2>5, <2>6 DEF SameTopics
    <2>8. req[r].topics = sess[s].topics
      BY <2>2, <2>3, <2>4, <2>7 DEF TopicsInv, HandshakeTopics
    <2>9. req'[r].topics = req[r].topics
      BY <2>1 DEF TopicsStay
    <2> QED BY <2>4, <2>7, <2>8, <2>9
  <1>4. ListedTopics'
    <2> SUFFICES ASSUME NEW c \in Controls, ctl'[c].pc = "publish", Exists(ctl[c].s)', ctl'[c].s \notin unsure'
                 PROVE  ctl'[c].topics = sess'[ctl'[c].s].topics
      BY DEF ListedTopics
    <2>1. PICK s : s = ctl[c].s
      OBVIOUS
    <2>2. ctl[c].pc = "publish" /\ ctl'[c] = ctl[c] /\ s \notin unsure
      BY <2>1
    <2>3. s \in Sessions /\ sess[s] # NoSession
      <3>1. ctl[c] \in Control /\ ctl[c] # NoControl
        BY <2>2 DEF ShapeInv, TypeOK, NoControl
      <3> QED BY <2>1, <3>1 DEF Control, ShapeInv, SessionsKnown
    <2>4. Exists(s)'
      BY <2>1, <2>2 DEF Exists
    <2>5. Exists(s) /\ sess'[s].topics = sess[s].topics
      BY <2>3, <2>4 DEF SameTopics
    <2> QED BY <2>1, <2>2, <2>5 DEF TopicsInv, ListedTopics
  <1>5. OneChange'
    BY DEF TopicsInv, OneChange
  <1> QED BY <1>2, <1>3, <1>4, <1>5 DEF TopicsInv

LEMMA Ordinary ==
    ASSUME ShapeInv, TicketInv, RevokedInv, TopicsInv, KeepsRequests, SameUsed, SameTopics, SameRevoked,
           raced \subseteq raced', stale \subseteq stale', unsure \subseteq unsure', UNCHANGED ctl
    PROVE  TicketInv' /\ RevokedInv' /\ TopicsInv'
  <1>1. KeepsShape /\ TopicsStay
    BY DEF KeepsRequests, Steady, TopicsStay
  <1> QED BY <1>1, KeepAdmits, TicketKept, RevokedKept, TopicsKept

LEMMA OrdinarySessions ==
    ASSUME ShapeInv, TicketInv, RevokedInv, TopicsInv, KeepsRequests, UNCHANGED <<sess, ctl>>,
           UNCHANGED <<raced, stale, unsure>>
    PROVE  TicketInv' /\ RevokedInv' /\ TopicsInv'
  BY SameSessions, Ordinary

LEMMA AccessConnect ==
    ASSUME ShapeInv, TicketInv, RevokedInv, TopicsInv, NEW p \in Processes, Connect(p)
    PROVE  TicketInv' /\ RevokedInv' /\ TopicsInv'
  <1>1. PICK r \in Requests : r = Asked + 1
    BY KeepConnect
  <1>2. /\ ~Opened(r) /\ \A q \in Requests : q # r => req'[q] = req[q]
        /\ req'[r].pc = "claim" /\ req'[r].s = Cookie /\ req'[r].topics = sess[Cookie].topics
        /\ Exists(Cookie) /\ Cookie \in Sessions
    BY <1>1, KeepConnect
  <1>3. UNCHANGED <<sess, ctl, hub, raced, stale, unsure>>
    BY DEF Connect, history
  <1>4. \A q \in Requests : q # r => req'[q] = req[q] /\ (req[q].pc \in Past => Opened(q))
    BY <1>2 DEF Past, Opened, NoRequest
  <1>5. NoneAdmitted
    BY <1>2, <1>4 DEF NoneAdmitted, Past
  <1>6. TicketInv'
    BY <1>3, <1>5, SameSessions, TicketKept
  <1>7. RevokedInv'
    <2>1. RevokedIsClosed'
      BY <1>3 DEF RevokedInv, RevokedIsClosed
    <2>2. sess[Cookie].state # "revoked"
      BY <1>2 DEF Exists
    <2>3. \A q \in Requests : req'[q].pc \in Waiting /\ sess'[req'[q].s].state = "revoked" => q \in raced'
      BY <1>2, <1>3, <2>2 DEF RevokedInv
    <2> QED BY <2>1, <2>3 DEF RevokedInv
  <1>8. \A s \in Sessions : /\ Exists(s)' <=> Exists(s)
                            /\ Busy(s)' <=> Busy(s)
    BY <1>3 DEF Exists, Busy
  <1>9. TopicsFollow'
    <2> SUFFICES ASSUME NEW t \in Processes, NEW s \in Sessions,
                        Exists(s)', ~Busy(s)', s \notin unsure', hub'[t][s] \notin stale' \cup {0}
                 PROVE  req'[hub'[t][s]].topics = sess'[s].topics
      BY DEF TopicsFollow
    <2>1. hub[t][s] \in Requests /\ Opened(hub[t][s])
      BY <1>3, HubLemma
    <2>2. req'[hub[t][s]] = req[hub[t][s]]
      BY <1>2, <2>1
    <2> QED BY <1>3, <1>8, <2>2 DEF TopicsInv, TopicsFollow
  <1>10. HandshakeTopics'
    <2> SUFFICES ASSUME NEW q \in Requests, req'[q].pc \in Waiting, Exists(req[q].s)', ~Busy(req[q].s)',
                        req'[q].s \notin unsure', q \notin stale'
                 PROVE  req'[q].topics = sess'[req'[q].s].topics
      BY DEF HandshakeTopics
    <2>1. CASE q = r
      BY <1>2, <1>3, <2>1
    <2>2. CASE q # r
      <3>1. req'[q] = req[q]
        BY <1>2, <2>2
      <3>2. Exists(req[q].s) /\ ~Busy(req[q].s)
        BY <1>3, <3>1 DEF Exists, Busy
      <3> QED BY <1>3, <3>1, <3>2 DEF TopicsInv, HandshakeTopics
    <2> QED BY <2>1, <2>2
  <1>11. ListedTopics' /\ OneChange'
    BY <1>3 DEF TopicsInv, ListedTopics, OneChange, Exists
  <1> QED BY <1>6, <1>7, <1>9, <1>10, <1>11 DEF TopicsInv

LEMMA AccessClaim ==
    ASSUME ShapeInv, TicketInv, RevokedInv, TopicsInv, NEW r \in Requests, Claim(r)
    PROVE  TicketInv' /\ RevokedInv' /\ TopicsInv'
  <1>1. PICK s : s = req[r].s
    OBVIOUS
  <1>2. /\ KeepsShape /\ Opened(r) /\ req[r].pc = "claim"
        /\ \A q \in Requests : q # r => req'[q] = req[q]
        /\ Taken(s) => req'[r] = Over(req[r], "refused")
        /\ ~Taken(s) => req'[r].pc = "register" /\ req'[r].topics = req[r].topics
    BY <1>1, KeepClaim
  <1>3. s \in Sessions
    BY <1>1, <1>2, OpenedLemma
  <1>4. UNCHANGED <<ctl, raced, stale, unsure>>
    BY DEF Claim, history
  <1>5. \A t \in Sessions : /\ sess'[t].state = sess[t].state /\ sess'[t].over = sess[t].over
                            /\ sess'[t].topics = sess[t].topics
                            /\ sess[t].used => sess'[t].used
                            /\ t = s => sess'[t].used
    <2>1. sess' = [sess EXCEPT ![s].used = TRUE]
      BY <1>1 DEF Claim
    <2>2. sess \in [Sessions -> Session]
      BY DEF ShapeInv, TypeOK
    <2> QED BY <1>3, <2>1, <2>2 DEF Session
  <1>6. SameUsed /\ SameTopics /\ SameRevoked
    BY <1>5 DEF SameUsed, SameTopics, SameRevoked, Exists
  <1>7. req'[r].s = s
    BY <1>1, <1>2 DEF KeepsShape, RequestsFollow, Follows
  <1>8. Taken(s) => req'[r].pc = "refused"
    <2>1. req[r] \in FitRequest
      BY KeepClaim
    <2> QED BY <1>2, <2>1, OverLemma
  <1>9. RevokedInv'
    BY <1>2, <1>4, <1>6, RevokedKept
  <1>10. TopicsInv'
    <2>1. TopicsStay
      BY <1>2, <1>8 DEF TopicsStay, Waiting, Running
    <2> QED BY <1>2, <1>4, <1>6, <2>1, TopicsKept
  <1>11. ASSUME NEW q \in Requests, q # r, req'[q].pc \in Past, Exists(s), req'[q].s = s
         PROVE  sess[s].used
    BY <1>2, <1>11 DEF TicketInv
  <1>12. ASSUME NEW q \in Requests, NEW t \in Requests, q # t, req'[q].pc \in Past, req'[t].pc \in Past,
                req'[q].s = req'[t].s
         PROVE  ~Exists(req[q].s)'
    <2>1. PICK u : u = req'[q].s
      OBVIOUS
    <2>2. ~Exists(u)
      <3>1. CASE q = r
        <4>1. u = s /\ ~Taken(s)
          BY <1>7, <1>8, <1>12, <2>1, <3>1 DEF Past
        <4> QED BY <1>11, <1>12, <2>1, <3>1, <4>1 DEF Taken
      <3>2. CASE t = r
        <4>1. u = s /\ ~Taken(s)
          BY <1>7, <1>8, <1>12, <2>1, <3>2 DEF Past
        <4> QED BY <1>11, <1>12, <2>1, <3>2, <4>1 DEF Taken
      <3>3. CASE q # r /\ t # r
        <4>1. req'[q] = req[q] /\ req'[t] = req[t]
          BY <1>2, <3>3
        <4> QED BY <1>12, <2>1, <4>1 DEF TicketInv, TicketUsedOnce, Past
      <3> QED BY <3>1, <3>2, <3>3
    <2>3. u \in Sessions
      <3>1. CASE q = r
        BY <1>3, <1>7, <2>1, <3>1
      <3>2. CASE q # r
        BY <1>2, <1>12, <2>1, <3>2, OpenedLemma DEF Past
      <3> QED BY <3>1, <3>2
    <2>4. ~Exists(u)'
      BY <1>5, <2>2, <2>3 DEF Exists
    <2> QED BY <2>1, <2>4 DEF Exists
  <1>13. TicketUsedOnce'
    BY <1>12 DEF TicketUsedOnce, Past, Exists
  <1>14. ASSUME NEW q \in Requests, req'[q].pc \in Past, Exists(req[q].s)'
         PROVE  sess'[req'[q].s].used
    <2>1. CASE q = r
      BY <1>3, <1>5, <1>7, <2>1
    <2>2. CASE q # r
      <3>1. PICK u : u = req[q].s
        OBVIOUS
      <3>2. req'[q] = req[q] /\ u \in Sessions
        BY <1>2, <1>14, <2>2, <3>1, OpenedLemma DEF Past
      <3>3. Exists(u)
        BY <1>5, <1>14, <3>1, <3>2 DEF Exists
      <3>4. sess[u].used
        BY <1>14, <3>1, <3>2, <3>3 DEF TicketInv
      <3> QED BY <1>5, <3>1, <3>2, <3>4
    <2> QED BY <2>1, <2>2
  <1> QED BY <1>9, <1>10, <1>13, <1>14 DEF TicketInv

LEMMA AccessRegister ==
    ASSUME ShapeInv, TicketInv, RevokedInv, TopicsInv, NEW r \in Requests, Register(r)
    PROVE  TicketInv' /\ RevokedInv' /\ TopicsInv'
  <1> DEFINE s0 == req[r].s
             p0 == req[r].p
  <1>1. /\ Opened(r) /\ req[r].pc = "register" /\ p0 \in Processes /\ s0 \in Sessions
        /\ req'[r] = Handle(req[r]) /\ req[r] \in FitRequest
        /\ \A q \in Requests : q # r => req'[q] = req[q]
        /\ hub'[p0][s0] = r
        /\ \A p \in Processes, s \in Sessions : p # p0 \/ s # s0 => hub'[p][s] = hub[p][s]
    BY KeepRegister
  <1>2. UNCHANGED <<sess, ctl, raced, stale, unsure>>
    BY DEF Register, history
  <1>3. req'[r].pc \in {"page", "open"} /\ req'[r].topics = req[r].topics /\ req'[r].s = s0
    BY <1>1, HandleLemma DEF Follows
  <1>4. \A q \in Requests : q # r => req'[q] = req[q] /\ (req[q].pc \in Past => Opened(q))
    BY <1>1 DEF Past, Opened, NoRequest
  <1>5. NoneAdmitted
    BY <1>1, <1>3, <1>4 DEF NoneAdmitted, Past
  <1>6. TicketInv'
    BY <1>2, <1>5, SameSessions, TicketKept
  <1>7. ASSUME NEW p \in Processes, NEW s \in Sessions, hub'[p][s] # 0, p # p0 \/ s # s0
        PROVE  /\ hub'[p][s] = hub[p][s] /\ hub[p][s] \in Requests
               /\ req'[hub[p][s]] = req[hub[p][s]]
    <2>1. hub'[p][s] = hub[p][s]
      BY <1>1, <1>7
    <2>2. hub[p][s] \in Requests /\ Connected(p, s, hub[p][s])
      BY <1>7, <2>1, HubLemma
    <2>3. hub[p][s] # r
      BY <1>1, <2>2 DEF Connected
    <2> QED BY <1>1, <2>1, <2>2, <2>3
  <1>8. RevokedInv'
    <2>1. RevokedIsClosed'
      <3> SUFFICES ASSUME NEW p \in Processes, NEW s \in Sessions, sess'[s].state = "revoked", hub'[p][s] # 0
                   PROVE  hub'[p][s] \in raced'
        BY DEF RevokedIsClosed
      <3>1. CASE p = p0 /\ s = s0
        BY <1>1, <1>2, <3>1 DEF RevokedInv, Waiting
      <3>2. CASE p # p0 \/ s # s0
        BY <1>2, <1>7, <3>2 DEF RevokedInv, RevokedIsClosed
      <3> QED BY <3>1, <3>2
    <2>2. \A q \in Requests : req'[q].pc \in Waiting /\ sess'[req'[q].s].state = "revoked" => q \in raced'
      BY <1>1, <1>2, <1>3 DEF RevokedInv, Waiting
    <2> QED BY <2>1, <2>2 DEF RevokedInv
  <1>9. TopicsFollow'
    <2> SUFFICES ASSUME NEW p \in Processes, NEW s \in Sessions,
                        Exists(s)', ~Busy(s)', s \notin unsure', hub'[p][s] \notin stale' \cup {0}
                 PROVE  req'[hub'[p][s]].topics = sess'[s].topics
      BY DEF TopicsFollow
    <2>1. Exists(s) /\ ~Busy(s)
      BY <1>2 DEF Exists, Busy
    <2>2. CASE p = p0 /\ s = s0
      BY <1>1, <1>2, <1>3, <2>1, <2>2 DEF TopicsInv, HandshakeTopics, Waiting
    <2>3. CASE p # p0 \/ s # s0
      BY <1>2, <1>7, <2>1, <2>3 DEF TopicsInv, TopicsFollow
    <2> QED BY <2>2, <2>3
  <1>10. HandshakeTopics'
    <2> SUFFICES ASSUME NEW q \in Requests, req'[q].pc \in Waiting, Exists(req[q].s)', ~Busy(req[q].s)',
                        req'[q].s \notin unsure', q \notin stale'
                 PROVE  req'[q].topics = sess'[req'[q].s].topics
      BY DEF HandshakeTopics
    <2>1. req'[q] = req[q]
      BY <1>1, <1>3 DEF Waiting
    <2>2. Exists(req[q].s) /\ ~Busy(req[q].s)
      BY <1>2, <2>1 DEF Exists, Busy
    <2> QED BY <1>2, <2>1, <2>2 DEF TopicsInv, HandshakeTopics
  <1>11. ListedTopics' /\ OneChange'
    BY <1>2 DEF TopicsInv, ListedTopics, OneChange, Exists
  <1> QED BY <1>6, <1>8, <1>9, <1>10, <1>11 DEF TopicsInv

LEMMA AccessRevoked ==
    ASSUME ShapeInv, TicketInv, RevokedInv, TopicsInv, NEW s \in Sessions, Revoked(s)
    PROVE  TicketInv' /\ RevokedInv' /\ TopicsInv'
  <1>1. /\ KeepsRequests
        /\ \A t \in Sessions : t # s => sess'[t] = sess[t]
        /\ ~Exists(s)'
        /\ \/ hub' = Without(Told(s)) /\ raced' = raced \cup Untold(s)
           \/ hub' = hub /\ raced' = raced \cup Untold(s) \cup Told(s)
    BY ShapeRevoked
  <1>2. UNCHANGED <<ctl, stale, unsure>>
    BY DEF Revoked
  <1>3. SameUsed /\ SameTopics
    BY <1>1 DEF SameUsed, SameTopics, Exists
  <1>4. KeepsShape /\ TopicsStay
    BY <1>1 DEF KeepsRequests, Steady, TopicsStay
  <1>5. TicketInv'
    BY <1>1, <1>3, KeepAdmits, TicketKept
  <1>6. TopicsInv'
    BY <1>2, <1>3, <1>4, TopicsKept
  <1>7. \A p \in Processes, t \in Sessions : hub'[p][t] # 0 => hub'[p][t] = hub[p][t]
    BY <1>4 DEF KeepsShape, HubsShrink
  <1>8. RevokedIsClosed'
    <2> SUFFICES ASSUME NEW p \in Processes, NEW t \in Sessions, sess'[t].state = "revoked", hub'[p][t] # 0
                 PROVE  hub'[p][t] \in raced'
      BY DEF RevokedIsClosed
    <2>1. hub'[p][t] = hub[p][t]
      BY <1>7
    <2>2. CASE t # s
      BY <1>1, <2>1, <2>2 DEF RevokedInv, RevokedIsClosed
    <2>3. CASE t = s
      <3>1. hub[p][s] \in Requests
        BY <2>1, <2>3, HubLemma
      <3>2. hub[p][s] \in Told(s)
        BY <3>1 DEF Told
      <3>3. \A q \in Requests : q \in Told(s) => Opened(q)
        BY HubLemma, Bounds DEF Told
      <3>4. hub' # Without(Told(s))
        <4>1. TypeOK
          BY DEF ShapeInv
        <4>2. Without(Told(s))[p][s] = 0
          BY <3>2, <3>3, <4>1, ClosedLemma
        <4> QED BY <2>3, <4>2
      <3> QED BY <1>1, <2>1, <2>3, <3>2, <3>4
    <2> QED BY <2>2, <2>3
  <1>9. ASSUME NEW q \in Requests, req'[q].pc \in Waiting, sess'[req'[q].s].state = "revoked"
        PROVE  q \in raced'
    <2>1. Opened(q)
      <3>1. ~Opened(q) => req'[q] = NoRequest
        BY <1>4 DEF KeepsShape, RequestsFollow, Opened
      <3> QED BY <1>9, <3>1 DEF NoRequest, Waiting
    <2>2. req[q].pc \in Waiting /\ req'[q].s = req[q].s
      BY <1>4, <1>9, <2>1 DEF KeepsShape, WaitersWait, Untouched, RequestsFollow, Follows
    <2>3. req[q].s \in Sessions
      BY <2>2, OpenedLemma DEF Waiting
    <2>4. CASE req[q].s = s
      <3>1. q \in Untold(s)
        BY <2>2, <2>4 DEF Untold, Waiting
      <3> QED BY <1>1, <3>1
    <2>5. CASE req[q].s # s
      BY <1>1, <1>9, <2>2, <2>3, <2>5 DEF RevokedInv
    <2> QED BY <2>4, <2>5
  <1> QED BY <1>5, <1>6, <1>8, <1>9 DEF RevokedInv

LEMMA AccessChangeTopics ==
    ASSUME ShapeInv, TicketInv, RevokedInv, TopicsInv,
           NEW c \in Controls, NEW T \in SUBSET Topics, ChangeTopics(c, T)
    PROVE  TicketInv' /\ RevokedInv' /\ TopicsInv'
  <1>0. PICK k \in Sessions : k = Cookie
    BY ShapeChangeTopics
  <1>1. /\ KeepsRequests /\ ctl[c] = NoControl
        /\ \A d \in Controls : d # c => ctl'[d] = ctl[d]
        /\ ctl'[c].pc = "list" /\ ctl'[c].s = k
        /\ \A t \in Sessions : t # k => sess'[t] = sess[t]
        /\ sess'[k].state = sess[k].state /\ sess'[k].over = sess[k].over /\ sess'[k].used = sess[k].used
        /\ unsure' = IF Busy(k) THEN unsure \cup {k} ELSE unsure
    BY <1>0, ShapeChangeTopics
  <1>2. UNCHANGED <<req, hub, raced, stale>>
    BY DEF ChangeTopics
  <1>3. SameUsed /\ SameRevoked
    BY <1>1 DEF SameUsed, SameRevoked, Exists
  <1>4. KeepsShape
    BY <1>1 DEF KeepsRequests
  <1>5. TicketInv'
    BY <1>1, <1>3, KeepAdmits, TicketKept
  <1>6. RevokedInv'
    BY <1>2, <1>3, <1>4, RevokedKept
  <1>7. Busy(k)'
    BY <1>1 DEF Busy
  <1>8. ASSUME NEW s \in Sessions, s # k
        PROVE  (Exists(s)' <=> Exists(s)) /\ (Busy(s)' <=> Busy(s)) /\ sess'[s] = sess[s]
    <2>1. Busy(s)' <=> Busy(s)
      BY <1>1, <1>8 DEF Busy, NoControl
    <2> QED BY <1>1, <1>8, <2>1 DEF Exists
  <1>9. unsure \subseteq unsure' /\ (Busy(k) => k \in unsure')
    BY <1>1
  <1>10. TopicsFollow'
    <2> SUFFICES ASSUME NEW p \in Processes, NEW s \in Sessions,
                        Exists(s)', ~Busy(s)', s \notin unsure', hub'[p][s] \notin stale' \cup {0}
                 PROVE  req'[hub'[p][s]].topics = sess'[s].topics
      BY DEF TopicsFollow
    <2>1. s # k
      BY <1>7
    <2> QED BY <1>2, <1>8, <1>9, <2>1 DEF TopicsInv, TopicsFollow
  <1>11. HandshakeTopics'
    <2> SUFFICES ASSUME NEW q \in Requests, req'[q].pc \in Waiting, Exists(req[q].s)', ~Busy(req[q].s)',
                        req'[q].s \notin unsure', q \notin stale'
                 PROVE  req'[q].topics = sess'[req'[q].s].topics
      BY DEF HandshakeTopics
    <2>1. PICK s : s = req[q].s
      OBVIOUS
    <2>2. req[q].pc \in Waiting /\ req'[q] = req[q] /\ s \in Sessions
      BY <1>2, <2>1, OpenedLemma DEF Waiting
    <2>3. Exists(s)' /\ ~Busy(s)'
      BY <2>1, <2>2 DEF Exists, Busy
    <2>4. s # k
      BY <1>7, <2>3
    <2>5. Exists(s) /\ ~Busy(s) /\ sess'[s] = sess[s]
      BY <1>8, <2>2, <2>3, <2>4
    <2> QED BY <1>2, <1>9, <2>1, <2>2, <2>5 DEF TopicsInv, HandshakeTopics
  <1>12. ListedTopics'
    <2> SUFFICES ASSUME NEW d \in Controls, ctl'[d].pc = "publish", Exists(ctl[d].s)', ctl'[d].s \notin unsure'
                 PROVE  ctl'[d].topics = sess'[ctl'[d].s].topics
      BY DEF ListedTopics
    <2>1. d # c /\ ctl'[d] = ctl[d]
      BY <1>1
    <2>2. PICK s : s = ctl[d].s
      OBVIOUS
    <2>3. s \in Sessions
      <3>1. ctl[d] \in Control
        BY <2>1 DEF ShapeInv, TypeOK, NoControl
      <3> QED BY <2>2, <3>1 DEF Control
    <2>4. s # k
      BY <1>9, <2>1, <2>2 DEF Busy
    <2>5. Exists(s)'
      BY <2>1, <2>2 DEF Exists
    <2> QED BY <1>8, <1>9, <2>1, <2>2, <2>3, <2>4, <2>5 DEF TopicsInv, ListedTopics
  <1>13. OneChange'
    <2> SUFFICES ASSUME NEW d \in Controls, NEW e \in Controls, d # e,
                        ctl'[d].pc \in {"list", "publish"}, ctl'[e].pc \in {"list", "publish"},
                        ctl'[d].s = ctl'[e].s
                 PROVE  ctl'[d].s \in unsure'
      BY DEF OneChange
    <2>1. CASE d = c
      <3>1. ctl'[e] = ctl[e] /\ ctl[e].s = k
        BY <1>1, <2>1
      <3>2. Busy(k)
        BY <3>1 DEF Busy
      <3> QED BY <1>1, <1>9, <2>1, <3>2
    <2>2. CASE e = c
      <3>1. ctl'[d] = ctl[d] /\ ctl[d].s = k
        BY <1>1, <2>2
      <3>2. Busy(k)
        BY <3>1 DEF Busy
      <3> QED BY <1>9, <3>1, <3>2
    <2>3. CASE d # c /\ e # c
      BY <1>1, <1>9, <2>3 DEF TopicsInv, OneChange
    <2> QED BY <2>1, <2>2, <2>3
  <1> QED BY <1>5, <1>6, <1>10, <1>11, <1>12, <1>13 DEF TopicsInv

LEMMA AccessListTopics ==
    ASSUME ShapeInv, TicketInv, RevokedInv, TopicsInv, NEW c \in Controls, ListTopics(c)
    PROVE  TicketInv' /\ RevokedInv' /\ TopicsInv'
  <1>1. /\ KeepsRequests /\ ctl[c].s \in Sessions
        /\ \A d \in Controls : d # c => ctl'[d] = ctl[d]
        /\ ctl'[c].s = ctl[c].s
        /\ ctl'[c].pc = IF Exists(ctl[c].s) THEN "publish" ELSE "done"
        /\ ctl'[c].topics = sess[ctl[c].s].topics
    BY ShapeListTopics
  <1>2. ctl[c].pc = "list" /\ UNCHANGED <<sess, req, hub, raced, stale, unsure>>
    BY DEF ListTopics, history
  <1>3. KeepsShape
    BY <1>1 DEF KeepsRequests
  <1>4. TicketInv' /\ RevokedInv'
    BY <1>1, <1>2, <1>3, SameSessions, KeepAdmits, TicketKept, RevokedKept
  <1>5. ASSUME NEW s \in Sessions, Exists(s)', ~Busy(s)'
        PROVE  Exists(s) /\ ~Busy(s)
    <2>1. Exists(s)
      BY <1>2, <1>5 DEF Exists
    <2>2. \A d \in Controls : ctl[d].pc \in {"list", "publish"} /\ ctl[d].s = s
            => ctl'[d].pc \in {"list", "publish"} /\ ctl'[d].s = s
      BY <1>1, <2>1
    <2> QED BY <1>5, <2>1, <2>2 DEF Busy
  <1>6. TopicsFollow'
    BY <1>2, <1>5 DEF TopicsInv, TopicsFollow
  <1>7. HandshakeTopics'
    <2> SUFFICES ASSUME NEW q \in Requests, req'[q].pc \in Waiting, Exists(req[q].s)', ~Busy(req[q].s)',
                        req'[q].s \notin unsure', q \notin stale'
                 PROVE  req'[q].topics = sess'[req'[q].s].topics
      BY DEF HandshakeTopics
    <2>1. PICK s : s = req[q].s
      OBVIOUS
    <2>2. req'[q] = req[q] /\ s \in Sessions
      BY <1>2, <2>1, OpenedLemma DEF Waiting
    <2>3. Exists(s)' /\ ~Busy(s)'
      BY <2>1, <2>2 DEF Exists, Busy
    <2>4. Exists(s) /\ ~Busy(s)
      BY <1>5, <2>2, <2>3
    <2> QED BY <1>2, <2>1, <2>2, <2>4 DEF TopicsInv, HandshakeTopics
  <1>8. ListedTopics'
    <2> SUFFICES ASSUME NEW d \in Controls, ctl'[d].pc = "publish", Exists(ctl[d].s)', ctl'[d].s \notin unsure'
                 PROVE  ctl'[d].topics = sess'[ctl'[d].s].topics
      BY DEF ListedTopics
    <2>1. CASE d = c
      BY <1>1, <1>2, <2>1
    <2>2. CASE d # c
      BY <1>1, <1>2, <2>2 DEF TopicsInv, ListedTopics, Exists
    <2> QED BY <2>1, <2>2
  <1>9. OneChange'
    <2>1. \A d \in Controls : ctl'[d].s = ctl[d].s
                           /\ (ctl'[d].pc \in {"list", "publish"} => ctl[d].pc \in {"list", "publish"})
      BY <1>1, <1>2
    <2> QED BY <1>2, <2>1 DEF TopicsInv, OneChange
  <1> QED BY <1>4, <1>6, <1>7, <1>8, <1>9 DEF TopicsInv

LEMMA AccessTopicsUpdated ==
    ASSUME ShapeInv, TicketInv, RevokedInv, TopicsInv, NEW c \in Controls, TopicsUpdated(c)
    PROVE  TicketInv' /\ RevokedInv' /\ TopicsInv'
  <1>0. PICK s0 \in Sessions : s0 = ctl[c].s
    BY ShapeTopicsUpdated
  <1>1. /\ KeepsShape /\ ctl[c].pc = "publish" /\ ctl'[c].pc = "done"
        /\ \A d \in Controls : d # c => ctl'[d] = ctl[d]
        /\ hub' = hub /\ sess' = sess
        /\ \A r \in Requests : req'[r] # req[r] => r \in Told(s0) /\ Opened(r) /\ req'[r].pc = req[r].pc
        /\ \/ /\ \A r \in Requests : r \in Told(s0) => req'[r].topics = ctl[c].topics
              /\ stale' = stale \cup Untold(s0) /\ unsure' = unsure
           \/ unsure' = unsure \cup {s0} /\ req' = req /\ stale' = stale
    BY <1>0, ShapeTopicsUpdated
  <1>2. raced' = raced
    BY DEF TopicsUpdated
  <1>3. \A r \in Requests : r \in Told(s0) => req[r].pc \in Running /\ req[r].s = s0
    <2> SUFFICES ASSUME NEW r \in Requests, r \in Told(s0)
                 PROVE  req[r].pc \in Running /\ req[r].s = s0
      OBVIOUS
    <2>1. PICK p \in Processes : hub[p][s0] = r
      BY DEF Told
    <2>2. Connected(p, s0, r)
      BY <2>1, HubLemma, Bounds
    <2> QED BY <2>2 DEF Connected, Running
  <1>4. \A r \in Requests : req'[r].pc = req[r].pc
                         /\ (req'[r].pc \in Waiting => req'[r] = req[r])
    BY <1>1, <1>3 DEF Waiting, Running
  <1>5. \A r \in Requests : Opened(r) => req'[r].s = req[r].s
    BY <1>1 DEF KeepsShape, RequestsFollow, Follows
  <1>6. \A r \in Requests : req[r].pc \in Past => Opened(r)
    BY DEF Past, Opened, NoRequest
  <1>7. NoneAdmitted
    BY <1>4, <1>5, <1>6 DEF NoneAdmitted
  <1>8. TicketInv' /\ RevokedInv'
    BY <1>1, <1>2, <1>7, SameSessions, TicketKept, RevokedKept
  <1>9. ASSUME NEW s \in Sessions
        PROVE  /\ Exists(s)' <=> Exists(s)
               /\ s # s0 => (Busy(s)' <=> Busy(s))
    <2>1. s # s0 => (Busy(s)' <=> Busy(s))
      BY <1>0, <1>1 DEF Busy
    <2> QED BY <1>1, <2>1 DEF Exists
  <1>10. stale \subseteq stale' /\ unsure \subseteq unsure'
    BY <1>1
  <1>11. TopicsFollow'
    <2> SUFFICES ASSUME NEW p \in Processes, NEW s \in Sessions,
                        Exists(s)', ~Busy(s)', s \notin unsure', hub'[p][s] \notin stale' \cup {0}
                 PROVE  req'[hub'[p][s]].topics = sess'[s].topics
      BY DEF TopicsFollow
    <2>1. PICK r : r = hub[p][s]
      OBVIOUS
    <2>2. r \in Requests /\ Connected(p, s, r) /\ hub'[p][s] = r /\ r \notin stale \cup {0}
      BY <1>1, <1>10, <2>1, HubLemma
    <2>3. CASE s = s0
      <3>1. r \in Told(s0) /\ s0 \notin unsure
        BY <1>10, <2>1, <2>2, <2>3 DEF Told
      <3>2. req'[r].topics = ctl[c].topics
        BY <1>1, <2>2, <2>3, <3>1
      <3>3. Exists(s0)
        BY <1>9, <2>3
      <3>4. ctl[c].topics = sess[s0].topics
        BY <1>0, <1>1, <3>1, <3>3 DEF TopicsInv, ListedTopics
      <3> QED BY <1>1, <2>2, <2>3, <3>2, <3>4
    <2>4. CASE s # s0
      <3>1. req'[r] = req[r]
        BY <1>1, <1>3, <2>2, <2>4 DEF Connected
      <3>2. Exists(s) /\ ~Busy(s) /\ s \notin unsure
        BY <1>9, <1>10, <2>4
      <3> QED BY <1>1, <2>1, <2>2, <3>1, <3>2 DEF TopicsInv, TopicsFollow
    <2> QED BY <2>3, <2>4
  <1>12. HandshakeTopics'
    <2> SUFFICES ASSUME NEW q \in Requests, req'[q].pc \in Waiting, Exists(req[q].s)', ~Busy(req[q].s)',
                        req'[q].s \notin unsure', q \notin stale'
                 PROVE  req'[q].topics = sess'[req'[q].s].topics
      BY DEF HandshakeTopics
    <2>1. PICK s : s = req[q].s
      OBVIOUS
    <2>2. req'[q] = req[q] /\ req[q].pc \in Waiting /\ s \in Sessions
      BY <1>4, <2>1, OpenedLemma DEF Waiting
    <2>3. Exists(s)' /\ ~Busy(s)'
      BY <2>1, <2>2 DEF Exists, Busy
    <2>4. s # s0
      <3>1. SUFFICES ASSUME s = s0 PROVE FALSE
        OBVIOUS
      <3>2. q \in Untold(s0)
        BY <2>1, <2>2, <3>1 DEF Untold, Waiting
      <3> QED BY <1>1, <2>1, <2>2, <3>1, <3>2
    <2>5. Exists(s) /\ ~Busy(s)
      BY <1>9, <2>2, <2>3, <2>4
    <2> QED BY <1>1, <1>10, <2>1, <2>2, <2>5 DEF TopicsInv, HandshakeTopics
  <1>13. ListedTopics'
    <2> SUFFICES ASSUME NEW d \in Controls, ctl'[d].pc = "publish", Exists(ctl[d].s)', ctl'[d].s \notin unsure'
                 PROVE  ctl'[d].topics = sess'[ctl'[d].s].topics
      BY DEF ListedTopics
    <2>1. ctl'[d] = ctl[d]
      BY <1>1
    <2> QED BY <1>1, <1>10, <2>1 DEF TopicsInv, ListedTopics, Exists
  <1>14. OneChange'
    <2> SUFFICES ASSUME NEW d \in Controls, NEW e \in Controls, d # e,
                        ctl'[d].pc \in {"list", "publish"}, ctl'[e].pc \in {"list", "publish"},
                        ctl'[d].s = ctl'[e].s
                 PROVE  ctl'[d].s \in unsure'
      BY DEF OneChange
    <2>1. ctl'[d] = ctl[d] /\ ctl'[e] = ctl[e]
      BY <1>1
    <2> QED BY <1>10, <2>1 DEF TopicsInv, OneChange
  <1> QED BY <1>8, <1>11, <1>12, <1>13, <1>14 DEF TopicsInv

LEMMA AccessCreateSession ==
    ASSUME ShapeInv, TicketInv, RevokedInv, TopicsInv, CreateSession
    PROVE  TicketInv' /\ RevokedInv' /\ TopicsInv'
  <1>1. PICK k \in Sessions : k = Cookie + 1
    BY ShapeCreateSession
  <1>2. /\ KeepsRequests /\ sess[k] = NoSession /\ sess'[k].state = "live"
        /\ \A t \in Sessions : t # k => sess'[t] = sess[t]
    BY <1>1, ShapeCreateSession
  <1>3. SameUsed /\ SameTopics /\ SameRevoked
    BY <1>2 DEF SameUsed, SameTopics, SameRevoked, Exists
  <1>4. UNCHANGED <<ctl, raced, stale, unsure>>
    BY DEF CreateSession, history
  <1> QED BY <1>2, <1>3, <1>4, Ordinary

LEMMA AccessRevoke ==
    ASSUME ShapeInv, TicketInv, RevokedInv, TopicsInv, NEW s \in Sessions, Revoke(s)
    PROVE  TicketInv' /\ RevokedInv' /\ TopicsInv'
  <1>1. /\ KeepsRequests /\ ~Exists(s)' /\ sess'[s].state = "deleted"
        /\ \A t \in Sessions : t # s => sess'[t] = sess[t]
    BY ShapeRevoke
  <1>2. SameUsed /\ SameTopics /\ SameRevoked
    BY <1>1 DEF SameUsed, SameTopics, SameRevoked, Exists
  <1>3. UNCHANGED <<ctl, raced, stale, unsure>>
    BY DEF Revoke, history
  <1> QED BY <1>1, <1>2, <1>3, Ordinary

LEMMA AccessExpireSession ==
    ASSUME ShapeInv, TicketInv, RevokedInv, TopicsInv, NEW s \in Sessions, ExpireSession(s)
    PROVE  TicketInv' /\ RevokedInv' /\ TopicsInv'
  <1>1. /\ KeepsRequests /\ ~Exists(s)' /\ sess'[s].state = sess[s].state
        /\ \A t \in Sessions : t # s => sess'[t] = sess[t]
    BY ShapeExpireSession
  <1>2. SameUsed /\ SameTopics /\ SameRevoked
    BY <1>1 DEF SameUsed, SameTopics, SameRevoked, Exists
  <1>3. UNCHANGED <<ctl, raced, stale, unsure>>
    BY DEF ExpireSession, history
  <1> QED BY <1>1, <1>2, <1>3, Ordinary

AccessInv == ShapeInv /\ TicketInv /\ RevokedInv /\ TopicsInv

LEMMA AccessOfRequests ==
    ASSUME AccessInv,
           \/ Disconnect
           \/ \E e \in Private : PrivateMessage(e)
           \/ \E p \in Processes :
                \/ \E e \in Public : Incr(p, e) \/ Bypass(p, e)
                \/ Store(p) \/ NotStored(p) \/ Publish(p) \/ Heartbeat(p)
           \/ \E n \in Numbers : ExpireEvent(n)
           \/ \E r \in Requests : Page(r) \/ Send(r) \/ ReplayFails(r) \/ SendFails(r) \/ Cleanup(r)
           \/ UNCHANGED vars
    PROVE  TicketInv' /\ RevokedInv' /\ TopicsInv'
  <1>1. UNCHANGED <<sess, ctl>> /\ UNCHANGED <<raced, stale, unsure>>
    BY DEF Disconnect, PrivateMessage, Incr, Bypass, Store, NotStored, Publish, Heartbeat, ExpireEvent,
           Page, Send, ReplayFails, SendFails, Cleanup, history, vars
  <1>2. 0 \in {0} \cup Numbers /\ Private \subseteq Events /\ Public \subseteq Events
    BY ConstantsAssumption DEF Public, Events
  <1>3. ASSUME NEW e \in Private, PrivateMessage(e) PROVE KeepsRequests
    <2>1. HubPublish(Processes, e, 0) /\ e \in Events
      BY <1>2, <1>3 DEF PrivateMessage
    <2> QED BY <1>2, <2>1, KeepPublishes DEF AccessInv
  <1>4. ASSUME NEW p \in Processes, NEW e \in Public, Bypass(p, e) PROVE KeepsRequests
    <2>1. HubPublish({p}, e, 0) /\ e \in Events
      BY <1>2, <1>4 DEF Bypass
    <2> QED BY <1>2, <2>1, KeepPublishes DEF AccessInv
  <1>5. ASSUME NEW p \in Processes,
               (\E e \in Public : Incr(p, e)) \/ Store(p) \/ NotStored(p) \/ Publish(p) \/ Heartbeat(p)
        PROVE  KeepsRequests
    BY <1>5, ShapeIncr, ShapeStore, ShapeNotStored, ShapePublish, ShapeHeartbeat DEF AccessInv
  <1>6. ASSUME NEW r \in Requests, Page(r) \/ Send(r) \/ ReplayFails(r) \/ SendFails(r) \/ Cleanup(r)
        PROVE  KeepsRequests
    BY <1>6, KeepPage, KeepSend, KeepReplayFails, ShapeSendFails, KeepCleanup DEF AccessInv
  <1>7. KeepsRequests
    BY <1>3, <1>4, <1>5, <1>6, ShapeDisconnect, ShapeExpireEvent, ShapeUnchanged DEF AccessInv
  <1> QED BY <1>1, <1>7, OrdinarySessions DEF AccessInv

LEMMA InitAccess == Init => AccessInv
  <1> SUFFICES ASSUME Init PROVE AccessInv
    OBVIOUS
  <1>1. \A r \in Requests : req[r].pc = "none"
    BY DEF Init, NoRequest
  <1>2. \A c \in Controls : ctl[c].pc = "none"
    BY DEF Init, NoControl
  <1>3. \A p \in Processes, s \in Sessions : hub[p][s] = 0
    BY DEF Init
  <1>4. TicketInv
    BY <1>1 DEF TicketInv, TicketUsedOnce, Past
  <1>5. RevokedInv
    BY <1>1, <1>3 DEF RevokedInv, RevokedIsClosed, Waiting
  <1>6. TopicsInv
    BY <1>1, <1>2, <1>3 DEF TopicsInv, TopicsFollow, HandshakeTopics, ListedTopics, OneChange, Waiting
  <1> QED BY <1>4, <1>5, <1>6, InitShape DEF AccessInv

LEMMA AccessNext == AccessInv /\ [Next]_vars => AccessInv'
  <1> SUFFICES ASSUME AccessInv, [Next]_vars PROVE AccessInv'
    OBVIOUS
  <1>1. ShapeInv'
    BY ShapeNext DEF AccessInv
  <1>2. CASE CreateSession
    BY <1>1, <1>2, AccessCreateSession DEF AccessInv
  <1>3. ASSUME NEW p \in Processes, Connect(p) PROVE AccessInv'
    BY <1>1, <1>3, AccessConnect DEF AccessInv
  <1>4. ASSUME NEW r \in Requests, Claim(r) PROVE AccessInv'
    BY <1>1, <1>4, AccessClaim DEF AccessInv
  <1>5. ASSUME NEW r \in Requests, Register(r) PROVE AccessInv'
    BY <1>1, <1>5, AccessRegister DEF AccessInv
  <1>6. ASSUME NEW s \in Sessions, Revoke(s) PROVE AccessInv'
    BY <1>1, <1>6, AccessRevoke DEF AccessInv
  <1>7. ASSUME NEW s \in Sessions, Revoked(s) PROVE AccessInv'
    BY <1>1, <1>7, AccessRevoked DEF AccessInv
  <1>8. ASSUME NEW s \in Sessions, ExpireSession(s) PROVE AccessInv'
    BY <1>1, <1>8, AccessExpireSession DEF AccessInv
  <1>9. ASSUME NEW c \in Controls, NEW T \in SUBSET Topics, ChangeTopics(c, T) PROVE AccessInv'
    BY <1>1, <1>9, AccessChangeTopics DEF AccessInv
  <1>10. ASSUME NEW c \in Controls, ListTopics(c) PROVE AccessInv'
    BY <1>1, <1>10, AccessListTopics DEF AccessInv
  <1>11. ASSUME NEW c \in Controls, TopicsUpdated(c) PROVE AccessInv'
    BY <1>1, <1>11, AccessTopicsUpdated DEF AccessInv
  <1>12. CASE \/ Disconnect
              \/ \E e \in Private : PrivateMessage(e)
              \/ \E p \in Processes :
                    \/ \E e \in Public : Incr(p, e) \/ Bypass(p, e)
                    \/ Store(p) \/ NotStored(p) \/ Publish(p) \/ Heartbeat(p)
              \/ \E n \in Numbers : ExpireEvent(n)
              \/ \E r \in Requests : Page(r) \/ Send(r) \/ ReplayFails(r) \/ SendFails(r) \/ Cleanup(r)
              \/ UNCHANGED vars
    BY <1>1, <1>12, AccessOfRequests DEF AccessInv
  <1> QED BY <1>2, <1>3, <1>4, <1>5, <1>6, <1>7, <1>8, <1>9, <1>10, <1>11, <1>12 DEF Next

LEMMA AccessInvariant == Spec => []AccessInv
  BY InitAccess, AccessNext, PTL DEF Spec

\* A ticket lets one request in: SET NX of the consumed key is between two
\* requests with the same cookie, as long as the session is found.
THEOREM TicketOnce == Spec => []TicketUsedOnce
  <1>1. AccessInv => TicketUsedOnce
    BY DEF AccessInv, TicketInv
  <1> QED BY <1>1, AccessInvariant, PTL

\* A revocation closes the connections of its session in every hub, except those
\* the message does not reach or whose handshake it overtakes.
THEOREM RevocationCloses == Spec => []RevokedIsClosed
  <1>1. AccessInv => RevokedIsClosed
    BY DEF AccessInv, RevokedInv
  <1> QED BY <1>1, AccessInvariant, PTL

\* Announced changes of topics bring every registered connection to the topics
\* its session has in Redis, unless changes overlap or one is not announced.
THEOREM TopicsFollowSession == Spec => []TopicsFollow
  <1>1. AccessInv => TopicsFollow
    BY DEF AccessInv, TopicsInv
  <1> QED BY <1>1, AccessInvariant, PTL

-----------------------------------------------------------------------------
\* Numbers and what was ever stored

\* What is stored has its key and is in the index until it is excused; what a
\* dispatcher is about to store was not stored before.
NumberInv ==
    /\ excused \cup published \subseteq {event[n] : n \in Stored}
    /\ index \subseteq Stored
    /\ \A n \in Stored : event[n] \in excused \/ n \in index \cap keys
    /\ \A p \in Processes :
        /\ disp[p].step = "store" => disp[p].n \notin Stored
        /\ disp[p].step = "publish" /\ disp[p].n # 0 => disp[p].n \in Stored /\ event[disp[p].n] = disp[p].e
    /\ \A p, q \in Processes :
        p # q /\ disp[p].step = "store" /\ disp[q].step = "store" => disp[p].n # disp[q].n

\* Numbers in a batch; its numbers and events belong together; they ascend, but
\* for events without a number; none of the numbers W is passed over.
Ids(b) == {b[i].id : i \in DOMAIN b}
Sound(b, S, ev) == \A i \in DOMAIN b : b[i].id # 0 => b[i].id \in S /\ b[i].e = ev[b[i].id]
Ascends(b) == \A i, j \in DOMAIN b : i < j /\ b[j].id # 0 => b[i].id < b[j].id
Gapless(b, W) == \A k \in DOMAIN b : \A n \in W : n <= b[k].id => \E i \in 1 .. k : b[i].id = n

\* What the request x holds, when S was stored under the events ev, and those in
\* exc are excused.
Holding(x, S, ev, exc) ==
    /\ Sound(x.buffer, S, ev) /\ Ascends(x.buffer)
    /\ Sound(x.scan.found, S, ev) /\ 0 \notin Ids(x.scan.found)
    /\ x.scan.from \in {0} \cup S
    /\ x.pc \in {"page", "send"} => x.scan.from # 0
    /\ x.pc \in {"claim", "register"} => x.scan.offset = 0
    /\ \A n \in x.scan.missing : n \in S /\ ev[n] \in exc

\* Numbers a process publishes are above those its connections hold back.
BuffersBelow ==
    \A r \in Requests : Opened(r) /\ disp[req[r].p].step # "rest" /\ disp[req[r].p].n # 0 =>
        \A i \in DOMAIN req[r].buffer : req[r].buffer[i].id < disp[req[r].p].n

HoldsInv ==
    /\ last \in {0} \cup Stored
    /\ \A r \in Requests : Opened(r) => Holding(req[r], Stored, event, excused)
    /\ BuffersBelow

\* The events the request x has to send, and those of its topics.
Later(x, S) == {n \in S : n > x.scan.from}
Owed(x, S, ev, exc) == {n \in Later(x, S) : ev[n] \notin exc}
Wanted(x, S, ev, exc) == {n \in Owed(x, S, ev, exc) : Matches(ev[n], x.scan.topics)}

\* A scan of the index I that nobody disturbed has found what it has passed.
Scanning(x, S, ev, exc, I) ==
    /\ x.pc = "page" => Len(x.scan.found) < MaxReplay
    /\ x.pc = "page" /\ ~x.scan.shifted =>
        /\ x.scan.offset <= Cardinality(Later(x, I))
        /\ \A n \in Wanted(x, S, ev, exc) :
            Cardinality(Below(Later(x, I), n)) < x.scan.offset => n \in Ids(x.scan.found)
        /\ Gapless(x.scan.found, Wanted(x, S, ev, exc))
    /\ x.pc = "send" => Gapless(x.scan.found, Owed(x, S, ev, exc))

ScanInv == \A r \in Requests : Opened(r) => Scanning(req[r], Stored, event, excused, index)

\* The published events the client has not read.
Missed == {n \in Stored : event[n] \in published /\ event[n] \notin got \cup excused}

\* A connection the client reads: nothing is missed while it is not held back,
\* and what is missed when its replay ends is in what will be sent.
Reaching(x, M) ==
    /\ ~x.paused => M = {}
    /\ x.pc = "send" => M \subseteq Ids(x.buffer) \cup Ids(x.scan.found)

\* The replay starts at the client's cursor, unless another request let the
\* connection go early: then what is not excused comes after it.
Resuming(x, S, ev, exc) ==
    /\ x.pc \in {"claim", "register"} => last = x.scan.from
    /\ x.pc \in {"page", "send"} /\ x.paused => last = x.scan.from
    /\ x.pc \in {"page", "send"} /\ ~x.paused => \A n \in S : n <= x.scan.from => ev[n] \in exc

GapInv ==
    /\ \A n \in Missed : n > last
    /\ last = 0 => Missed = {}
    /\ Registered(cur) => Reaching(req[cur], Missed)
    /\ cur # 0 => Resuming(req[cur], Stored, event, excused)

\* What a step may do to the numbers: those it stores after a greater one are
\* excused.
LogGrows ==
    /\ Stored \subseteq Stored'
    /\ \A n \in Stored : event'[n] = event[n]
    /\ excused \subseteq excused'
    /\ \A n \in Stored' \ Stored : (\E m \in Stored : m > n) => event'[n] \in excused'
    /\ index' \subseteq index \cup (Stored' \ Stored)

LEMMA StoredLemma ==
    ASSUME ShapeInv
    PROVE  /\ seqno \in Nat /\ event \in [1 .. seqno -> Public] /\ keys \subseteq Stored
           /\ Stored \in SUBSET (1 .. seqno) /\ Stored \in SUBSET Numbers /\ Stored \in SUBSET Nat
           /\ IsFiniteSet(Stored)
           /\ \A m, n \in Stored : event[m] = event[n] => m = n
  <1>1. seqno \in Nat /\ seqno \in {0} \cup Numbers /\ event \in [1 .. seqno -> Public] /\ keys \subseteq 1 .. seqno
    BY Bounds DEF ShapeInv, TypeOK
  <1>2. 1 .. seqno \subseteq Numbers /\ 1 .. seqno \subseteq Nat
    BY <1>1, Bounds DEF Numbers
  <1>3. Stored \in SUBSET (1 .. seqno) /\ keys \subseteq Stored
    BY <1>1 DEF Stored
  <1>4. IsFiniteSet(Stored)
    <2>1. 1 \in Int /\ seqno \in Int
      BY <1>1
    <2>2. IsFiniteSet(1 .. seqno)
      BY <2>1, FS_Interval
    <2> QED BY <1>3, <2>2, FS_Subset
  <1>5. \A m, n \in Stored : event[m] = event[n] => m = n
    BY <1>3 DEF ShapeInv, NumbersOnce
  <1> QED BY <1>1, <1>2, <1>3, <1>4, <1>5

\* Events are only excused when they are stored.
LEMMA ExcusedLemma ==
    ASSUME ShapeInv, UNCHANGED <<seqno, event>>, NEW K, keys' = K, keys \subseteq K \cup Stored,
           K \subseteq Stored,
           excused \subseteq excused', excused' \subseteq excused \cup {event[n] : n \in Stored},
           \A n \in keys : n \in K \/ event[n] \in excused'
    PROVE  Stored' = Stored
  <1>1. ASSUME NEW n \in Stored PROVE n \in Stored'
    <2>1. n \in 1 .. seqno /\ (n \in keys \/ event[n] \in excused)
      BY <1>1 DEF Stored
    <2>2. n \in 1 .. seqno' /\ (n \in keys' \/ event'[n] \in excused')
      BY <2>1
    <2> QED BY <2>2 DEF Stored
  <1>2. ASSUME NEW n \in Stored' PROVE n \in Stored
    <2>1. n \in 1 .. seqno /\ (n \in K \/ event[n] \in excused')
      BY <1>2 DEF Stored
    <2>2. CASE n \in K
      BY <2>2
    <2>3. CASE event[n] \in excused
      BY <2>1, <2>3 DEF Stored
    <2>4. CASE event[n] \in {event[m] : m \in Stored}
      <3>1. PICK m \in Stored : event[n] = event[m]
        BY <2>4
      <3>2. m \in 1 .. seqno
        BY StoredLemma
      <3>3. m = n
        BY <2>1, <3>1, <3>2 DEF ShapeInv, NumbersOnce
      <3> QED BY <3>3
    <2> QED BY <2>1, <2>2, <2>3, <2>4
  <1> QED BY <1>1, <1>2

\* The dispatchers only go on with what they have.
DispatchGoesOn ==
    \A p \in Processes :
        /\ disp'[p].step = "store" => disp'[p] = disp[p]
        /\ disp'[p].step = "publish" /\ disp'[p].n # 0 =>
            /\ disp[p].step = "publish" /\ disp'[p].n = disp[p].n /\ disp'[p].e = disp[p].e

LEMMA NumbersKept ==
    ASSUME ShapeInv, NumberInv, DispatchGoesOn, UNCHANGED <<seqno, event>>, Stored' = Stored,
           excused \subseteq excused', index' \subseteq index,
           excused' \cup published' \subseteq excused \cup published \cup {event[n] : n \in Stored},
           \A n \in Stored : event[n] \in excused' \/ n \in index' \cap keys'
    PROVE  NumberInv' /\ LogGrows
  <1>1. LogGrows
    BY DEF LogGrows
  <1>2. excused' \cup published' \subseteq {event'[n] : n \in Stored'} /\ index' \subseteq Stored'
    BY DEF NumberInv
  <1>3. \A n \in Stored' : event'[n] \in excused' \/ n \in index' \cap keys'
    OBVIOUS
  <1>4. \A p \in Processes :
        /\ disp'[p].step = "store" => disp'[p].n \notin Stored'
        /\ disp'[p].step = "publish" /\ disp'[p].n # 0 =>
            disp'[p].n \in Stored' /\ event'[disp'[p].n] = disp'[p].e
    BY DEF NumberInv, DispatchGoesOn
  <1>5. \A p, q \in Processes :
        p # q /\ disp'[p].step = "store" /\ disp'[q].step = "store" => disp'[p].n # disp'[q].n
    BY DEF NumberInv, DispatchGoesOn
  <1> QED BY <1>1, <1>2, <1>3, <1>4, <1>5 DEF NumberInv

LEMMA NumbersQuiet ==
    ASSUME ShapeInv, NumberInv, UNCHANGED <<store, disp, published, excused>>
    PROVE  NumberInv' /\ LogGrows /\ Stored' = Stored /\ DispatchGoesOn
  <1>1. UNCHANGED <<seqno, event, index, keys, disp, published, excused>>
    BY DEF store
  <1>2. Stored' = Stored
    BY <1>1 DEF Stored
  <1>3. DispatchGoesOn
    BY <1>1 DEF DispatchGoesOn
  <1>4. \A n \in Stored : event[n] \in excused' \/ n \in index' \cap keys'
    BY <1>1 DEF NumberInv
  <1> QED BY <1>1, <1>2, <1>3, <1>4, NumbersKept

LEMMA NumbersNotStored ==
    ASSUME ShapeInv, NumberInv, NEW p \in Processes, NotStored(p)
    PROVE  NumberInv' /\ LogGrows /\ Stored' = Stored /\ DispatchGoesOn
  <1>1. UNCHANGED <<seqno, event, index, keys, published, excused>>
    BY DEF NotStored, store, history
  <1>2. Stored' = Stored
    BY <1>1 DEF Stored
  <1>3. DispatchGoesOn
    <2>1. disp' = [disp EXCEPT ![p].step = "publish", ![p].n = 0]
      BY DEF NotStored
    <2>2. disp[p] \in Dispatch
      BY ShapeNotStored
    <2>3. \A q \in Processes : q # p => disp'[q] = disp[q]
      BY <2>1 DEF ShapeInv, TypeOK
    <2>4. disp'[p].step = "publish" /\ disp'[p].n = 0
      BY <2>1, <2>2 DEF ShapeInv, TypeOK, Dispatch
    <2> QED BY <2>3, <2>4 DEF DispatchGoesOn
  <1>4. \A n \in Stored : event[n] \in excused' \/ n \in index' \cap keys'
    BY <1>1 DEF NumberInv
  <1> QED BY <1>1, <1>2, <1>3, <1>4, NumbersKept

LEMMA NumbersExpire ==
    ASSUME ShapeInv, NumberInv, NEW n \in Numbers, ExpireEvent(n)
    PROVE  NumberInv' /\ LogGrows /\ Stored' = Stored /\ DispatchGoesOn
  <1>1. /\ n \in keys /\ keys' = keys \ {n} /\ excused' = excused \cup {event[n]}
        /\ UNCHANGED <<seqno, event, index, disp, published>>
    BY DEF ExpireEvent
  <1>2. n \in Stored /\ keys \subseteq Stored
    BY <1>1, StoredLemma
  <1>3. Stored' = Stored
    <2>1. excused' \subseteq excused \cup {event[m] : m \in Stored}
      BY <1>1, <1>2
    <2> QED BY <1>1, <1>2, <2>1, ExcusedLemma
  <1>4. DispatchGoesOn
    BY <1>1 DEF DispatchGoesOn
  <1>5. \A m \in Stored : event[m] \in excused' \/ m \in index' \cap keys'
    BY <1>1 DEF NumberInv
  <1>6. excused' \cup published' \subseteq excused \cup published \cup {event[m] : m \in Stored}
    BY <1>1, <1>2
  <1> QED BY <1>1, <1>3, <1>4, <1>5, <1>6, NumbersKept

\* Stored events are excused and taken from the index.
LEMMA NumbersExcused ==
    ASSUME ShapeInv, NumberInv, UNCHANGED <<seqno, event, keys>>, DispatchGoesOn,
           excused \subseteq excused', excused' \subseteq excused \cup {event[n] : n \in Stored},
           published' \subseteq published \cup {event[n] : n \in Stored},
           index' \subseteq index, \A n \in index \ index' : event[n] \in excused'
    PROVE  NumberInv' /\ LogGrows /\ Stored' = Stored
  <1>1. Stored' = Stored
    <2>1. keys \subseteq Stored
      BY StoredLemma
    <2> QED BY <2>1, ExcusedLemma
  <1>2. \A n \in Stored : event[n] \in excused' \/ n \in index' \cap keys'
    BY DEF NumberInv
  <1> QED BY <1>1, <1>2, NumbersKept

LEMMA NumbersPublish ==
    ASSUME ShapeInv, NumberInv, NEW p \in Processes, Publish(p)
    PROVE  /\ NumberInv' /\ LogGrows /\ Stored' = Stored /\ DispatchGoesOn
           /\ disp[p].n # 0 => disp[p].n \in Stored /\ event[disp[p].n] = disp[p].e
  <1>1. /\ disp[p].step = "publish" /\ disp' = [disp EXCEPT ![p] = Resting]
        /\ UNCHANGED <<seqno, event, index, keys>>
        /\ published' = published \/ (published' = published \cup {disp[p].e} /\ disp[p].n # 0)
        /\ excused' = excused \/ (excused' = excused \cup {disp[p].e} /\ disp[p].n # 0)
    BY DEF Publish, store
  <1>2. disp[p].n # 0 => disp[p].n \in Stored /\ event[disp[p].n] = disp[p].e
    BY <1>1 DEF NumberInv
  <1>3. DispatchGoesOn
    <2>1. \A q \in Processes : q # p => disp'[q] = disp[q]
      BY <1>1 DEF ShapeInv, TypeOK
    <2>2. disp'[p].step = "rest"
      BY <1>1 DEF ShapeInv, TypeOK, Resting
    <2> QED BY <2>1, <2>2 DEF DispatchGoesOn
  <1>4. /\ excused \subseteq excused' /\ excused' \subseteq excused \cup {event[n] : n \in Stored}
        /\ published' \subseteq published \cup {event[n] : n \in Stored}
    BY <1>1, <1>2
  <1> QED BY <1>1, <1>2, <1>3, <1>4, NumbersExcused

LEMMA NumbersIncr ==
    ASSUME ShapeInv, NumberInv, NEW p \in Processes, NEW e \in Public, Incr(p, e)
    PROVE  /\ NumberInv' /\ LogGrows /\ Stored' = Stored
           /\ disp'[p].n = seqno' /\ \A q \in Processes : q # p => disp'[q] = disp[q]
  <1>1. /\ seqno' = seqno + 1 /\ event'[seqno'] = e /\ \A n \in 1 .. seqno : event'[n] = event[n]
        /\ ShapeInv'
    BY ShapeIncr
  <1>2. /\ UNCHANGED <<index, keys, published, excused>> /\ e \notin arrived
        /\ disp' = [disp EXCEPT ![p] = [e |-> e, step |-> "store", n |-> seqno']]
    BY DEF Incr, history
  <1>3. /\ Stored \in SUBSET (1 .. seqno) /\ seqno \in Nat
        /\ Stored' \in SUBSET (1 .. seqno')
        /\ index \cup keys \subseteq 1 .. seqno
    <2>1. Stored' \in SUBSET (1 .. seqno')
      BY DEF Stored
    <2> QED BY <2>1, StoredLemma DEF ShapeInv, TypeOK
  <1>4. \A n \in Stored : event'[n] = event[n] /\ event[n] # e /\ event[n] \in arrived
    BY <1>1, <1>2, <1>3 DEF ShapeInv, NumbersOnce
  <1>5. seqno' \notin 1 .. seqno /\ \A n \in 1 .. seqno' : n \in 1 .. seqno \/ n = seqno'
    BY <1>1, <1>3
  <1>6. seqno' \notin Stored'
    <2>1. seqno' \notin keys
      BY <1>3, <1>5
    <2>2. e \notin excused
      BY <1>4 DEF NumberInv
    <2> QED BY <1>1, <1>2, <2>1, <2>2 DEF Stored
  <1>7. Stored' = Stored
    <2>1. ASSUME NEW n \in Stored PROVE n \in Stored'
      <3>1. n \in 1 .. seqno' /\ event'[n] = event[n]
        BY <1>1, <1>3
      <3>2. n \in keys \/ event[n] \in excused
        BY <2>1 DEF Stored
      <3> QED BY <1>2, <3>1, <3>2 DEF Stored
    <2>2. ASSUME NEW n \in Stored' PROVE n \in Stored
      <3>1. n \in 1 .. seqno
        BY <1>3, <1>5, <1>6, <2>2
      <3>2. n \in keys' \/ event'[n] \in excused'
        BY <2>2 DEF Stored
      <3> QED BY <1>1, <1>2, <3>1, <3>2 DEF Stored
    <2> QED BY <2>1, <2>2
  <1>8. LogGrows
    BY <1>2, <1>4, <1>7 DEF LogGrows
  <1>9. /\ \A q \in Processes : q # p => disp'[q] = disp[q]
        /\ disp'[p].step = "store" /\ disp'[p].n = seqno'
    BY <1>2 DEF ShapeInv, TypeOK
  <1>10. \A q \in Processes :
        /\ disp'[q].step = "store" => disp'[q].n \notin Stored'
        /\ disp'[q].step = "publish" /\ disp'[q].n # 0 =>
            disp'[q].n \in Stored' /\ event'[disp'[q].n] = disp'[q].e
    <2> SUFFICES ASSUME NEW q \in Processes
                 PROVE  /\ disp'[q].step = "store" => disp'[q].n \notin Stored'
                        /\ disp'[q].step = "publish" /\ disp'[q].n # 0 =>
                            disp'[q].n \in Stored' /\ event'[disp'[q].n] = disp'[q].e
      OBVIOUS
    <2>1. CASE q = p
      BY <1>6, <1>9, <2>1
    <2>2. CASE q # p
      <3>1. disp'[q] = disp[q]
        BY <1>9, <2>2
      <3> QED BY <1>4, <1>7, <3>1 DEF NumberInv
    <2> QED BY <2>1, <2>2
  <1>11. \A q, r \in Processes :
        q # r /\ disp'[q].step = "store" /\ disp'[r].step = "store" => disp'[q].n # disp'[r].n
    <2>1. \A q \in Processes : q # p /\ disp'[q].step = "store" => disp'[q].n \in 1 .. seqno
      BY <1>9 DEF ShapeInv, NumbersOnce
    <2> QED BY <1>5, <1>9, <2>1 DEF NumberInv
  <1>12. excused' \cup published' \subseteq {event'[n] : n \in Stored'} /\ index' \subseteq Stored'
    BY <1>2, <1>4, <1>7 DEF NumberInv
  <1>13. \A n \in Stored' : event'[n] \in excused' \/ n \in index' \cap keys'
    BY <1>2, <1>4, <1>7 DEF NumberInv
  <1> QED BY <1>7, <1>8, <1>9, <1>10, <1>11, <1>12, <1>13 DEF NumberInv

\* An event is stored: what the limit takes from the index is excused, and so is
\* the event itself if a greater number is there.
LEMMA NumbersStore ==
    ASSUME ShapeInv, NumberInv, NEW p \in Processes, Store(p)
    PROVE  /\ NumberInv' /\ LogGrows
           /\ \A q \in Processes : q # p => disp'[q] = disp[q]
           /\ disp'[p].step = "publish" /\ disp'[p].n \in {0, disp[p].n}
           /\ \E S : /\ req' = Shifted(S)
                     /\ \A m \in index \cup (Stored' \ Stored) : m \in index' \/ m \in S
  <1> DEFINE n == disp[p].n
             I == index \cup {n}
             R == Trimmed(I)
  <1>1. /\ disp[p].step = "store" /\ n \in 1 .. seqno /\ event[n] = disp[p].e /\ n \notin Stored
        /\ disp[p] \in Dispatch
    BY ShapeStore DEF Store, ShapeInv, NumbersOnce, NumberInv
  <1>2. /\ index' = I \ R /\ keys' = keys \cup {n} /\ req' = Shifted(R)
        /\ excused' = excused \cup {event[m] : m \in R}
                              \cup (IF \E m \in Stored : m > n THEN {event[n]} ELSE {})
        /\ UNCHANGED <<seqno, event, published>>
    BY DEF Store
  <1>3. /\ \A q \in Processes : q # p => disp'[q] = disp[q]
        /\ disp'[p].step = "publish" /\ disp'[p].n \in {0, n} /\ disp'[p].e = disp[p].e
    <2>1. \/ disp' = [disp EXCEPT ![p].step = "publish"]
          \/ disp' = [disp EXCEPT ![p].step = "publish", ![p].n = 0]
      BY DEF Store
    <2> QED BY <1>1, <2>1 DEF ShapeInv, TypeOK, Dispatch
  <1>4. R \subseteq I /\ I \subseteq Stored \cup {n} /\ Stored \in SUBSET (1 .. seqno)
    BY StoredLemma DEF Trimmed, NumberInv
  <1> HIDE DEF R
  <1>5. Stored' = Stored \cup {n}
    <2>1. ASSUME NEW m \in Stored \cup {n} PROVE m \in Stored'
      <3>1. m \in 1 .. seqno
        BY <1>1, <1>4
      <3>2. m \in keys \/ event[m] \in excused \/ m = n
        BY <2>1 DEF Stored
      <3> QED BY <1>2, <3>1, <3>2 DEF Stored
    <2>2. ASSUME NEW m \in Stored' PROVE m \in Stored \cup {n}
      <3>1. m \in 1 .. seqno /\ (m \in keys \cup {n} \/ event[m] \in excused')
        BY <1>2, <2>2 DEF Stored
      <3>2. CASE m \in keys \cup {n} \/ event[m] \in excused
        BY <3>1, <3>2 DEF Stored
      <3>3. CASE \E k \in Stored \cup {n} : event[m] = event[k]
        <4>1. PICK k \in Stored \cup {n} : event[m] = event[k]
          BY <3>3
        <4>2. k \in 1 .. seqno
          BY <1>1, <1>4
        <4>3. m = k
          BY <3>1, <4>1, <4>2 DEF ShapeInv, NumbersOnce
        <4> QED BY <4>3
      <3>4. excused' \subseteq excused \cup {event[k] : k \in Stored \cup {n}}
        BY <1>2, <1>4
      <3> QED BY <3>1, <3>2, <3>3, <3>4
    <2> QED BY <2>1, <2>2
  <1>6. LogGrows
    <2>1. \A m \in Stored' \ Stored : m = n
      BY <1>5
    <2>2. (\E m \in Stored : m > n) => event'[n] \in excused'
      BY <1>2
    <2>3. index' \subseteq index \cup (Stored' \ Stored)
      BY <1>1, <1>2, <1>5
    <2>4. Stored \subseteq Stored' /\ (\A m \in Stored : event'[m] = event[m]) /\ excused \subseteq excused'
      BY <1>2, <1>5
    <2> QED BY <2>1, <2>2, <2>3, <2>4 DEF LogGrows
  <1>7. /\ excused' \cup published' \subseteq {event'[m] : m \in Stored'}
        /\ index' \subseteq Stored'
    <2>1. {event[m] : m \in Stored} \subseteq {event'[m] : m \in Stored'}
      BY <1>2, <1>5
    <2>2. excused \cup published \subseteq {event'[m] : m \in Stored'}
      BY <2>1 DEF NumberInv
    <2>3. excused' \subseteq excused \cup {event[m] : m \in Stored \cup {n}}
      BY <1>2, <1>4
    <2> QED BY <1>2, <1>4, <1>5, <2>2, <2>3
  <1>8. \A m \in Stored' : event'[m] \in excused' \/ m \in index' \cap keys'
    <2> SUFFICES ASSUME NEW m \in Stored \cup {n}, event[m] \notin excused' PROVE m \in index' \cap keys'
      BY <1>2, <1>5
    <2>1. m \notin R /\ event[m] \notin excused
      BY <1>2
    <2>2. m \in I /\ m \in keys \cup {n}
      BY <2>1 DEF NumberInv
    <2> QED BY <1>2, <2>1, <2>2
  <1>9. \A q \in Processes :
        /\ disp'[q].step = "store" => disp'[q].n \notin Stored'
        /\ disp'[q].step = "publish" /\ disp'[q].n # 0 =>
            disp'[q].n \in Stored' /\ event'[disp'[q].n] = disp'[q].e
    <2> SUFFICES ASSUME NEW q \in Processes
                 PROVE  /\ disp'[q].step = "store" => disp'[q].n \notin Stored'
                        /\ disp'[q].step = "publish" /\ disp'[q].n # 0 =>
                            disp'[q].n \in Stored' /\ event'[disp'[q].n] = disp'[q].e
      OBVIOUS
    <2>1. CASE q = p
      BY <1>1, <1>2, <1>3, <1>5, <2>1
    <2>2. CASE q # p
      <3>1. disp'[q] = disp[q]
        BY <1>3, <2>2
      <3>2. disp[q].step = "store" => disp[q].n # n
        BY <1>1, <2>2 DEF NumberInv
      <3> QED BY <1>2, <1>5, <3>1, <3>2 DEF NumberInv
    <2> QED BY <2>1, <2>2
  <1>10. \A q, r \in Processes :
        q # r /\ disp'[q].step = "store" /\ disp'[r].step = "store" => disp'[q].n # disp'[r].n
    BY <1>3 DEF NumberInv
  <1>11. \A m \in index \cup (Stored' \ Stored) : m \in index' \/ m \in R
    BY <1>1, <1>2, <1>5
  <1> QED BY <1>2, <1>3, <1>6, <1>7, <1>8, <1>9, <1>10, <1>11 DEF NumberInv

-----------------------------------------------------------------------------
\* What the requests hold, when the numbers grow

\* A request goes on, its scan at most moved; or it is over or past its replay.
Stays(x, y) ==
    /\ y.buffer = x.buffer /\ y.paused = x.paused /\ y.scan \in {x.scan, Moved(x.scan)}
    /\ y.pc = x.pc \/ {x.pc, y.pc} \subseteq Waiting

Done(x, y) ==
    /\ y.pc \in {"open", "closed", "refused"} /\ y.scan = NoScan
    /\ y.buffer \in {x.buffer, << >>}

\* The same of its scan alone.
Scans(x, y) ==
    \/ y.scan \in {x.scan, Moved(x.scan)} /\ (y.pc = x.pc \/ {x.pc, y.pc} \subseteq Waiting)
    \/ y.pc \in {"open", "closed", "refused"} /\ y.scan = NoScan

LEMMA ScansLemma == \A x, y : Stays(x, y) \/ Done(x, y) => Scans(x, y)
  BY DEF Stays, Done, Scans

\* T continues S: the events of S are the same, and a number put before one of S
\* is excused.
Continues(S, T, ev, f, exc, exd) ==
    /\ S \subseteq T /\ exc \subseteq exd
    /\ \A n \in S : f[n] = ev[n]
    /\ \A n \in T \ S : (\E m \in S : m > n) => f[n] \in exd

LEMMA SoundKept ==
    ASSUME NEW S, NEW T, NEW ev, NEW f, NEW exc, NEW exd, Continues(S, T, ev, f, exc, exd),
           NEW b, Sound(b, S, ev)
    PROVE  Sound(b, T, f)
  BY DEF Continues, Sound

LEMMA EmptyLemma ==
    /\ \A S, ev : Sound(<< >>, S, ev)
    /\ Ascends(<< >>) /\ Ids(<< >>) = {} /\ \A W : Gapless(<< >>, W)
  BY DEF Sound, Ascends, Ids, Gapless

LEMMA HoldingKept ==
    ASSUME NEW S, NEW T, NEW ev, NEW f, NEW exc, NEW exd, Continues(S, T, ev, f, exc, exd),
           NEW x \in FitRequest, NEW y, Holding(x, S, ev, exc), Scans(x, y),
           Sound(y.buffer, T, f), Ascends(y.buffer)
    PROVE  Holding(y, T, f, exd)
  <1>1. CASE /\ y.scan \in {x.scan, Moved(x.scan)}
             /\ y.pc = x.pc \/ {x.pc, y.pc} \subseteq Waiting
    <2>1. x.scan \in Scan
      BY DEF FitRequest, Request
    <2>2. /\ y.scan.found = x.scan.found /\ y.scan.from = x.scan.from
          /\ y.scan.offset = x.scan.offset /\ y.scan.missing = x.scan.missing
      BY <1>1, <2>1, MovedLemma
    <2>3. Sound(y.scan.found, T, f)
      BY <2>2, SoundKept DEF Holding
    <2>4. \A n \in y.scan.missing : n \in T /\ f[n] \in exd
      BY <2>2 DEF Holding, Continues
    <2>5. y.scan.from \in {0} \cup T
      BY <2>2 DEF Holding, Continues
    <2>6. /\ y.pc \in {"page", "send"} => y.scan.from # 0
          /\ y.pc \in {"claim", "register"} => y.scan.offset = 0
      BY <1>1, <2>2 DEF Holding, Waiting
    <2> QED BY <2>2, <2>3, <2>4, <2>5, <2>6 DEF Holding
  <1>2. CASE y.pc \in {"open", "closed", "refused"} /\ y.scan = NoScan
    BY <1>2, EmptyLemma DEF Holding, NoScan
  <1> QED BY <1>1, <1>2 DEF Scans

\* Where a scan is not moved, all that it has still to read stays in the index.
Undisturbed(x, y, N, J) ==
    x.pc = "page" /\ y.pc = "page" /\ ~y.scan.shifted => \A n \in N : n > x.scan.from => n \in J

LEMMA ScanningKept ==
    ASSUME NEW S, NEW T \in SUBSET Nat, IsFiniteSet(T),
           NEW ev, NEW f, NEW exc, NEW exd, Continues(S, T, ev, f, exc, exd),
           NEW I \in SUBSET S, NEW J \in SUBSET T,
           NEW x \in FitRequest, NEW y, Holding(x, S, ev, exc), Scanning(x, S, ev, exc, I),
           Scans(x, y), Undisturbed(x, y, I \cup (T \ S), J)
    PROVE  Scanning(y, T, f, exd, J)
  <1> SUFFICES ASSUME y.pc \in {"page", "send"} PROVE Scanning(y, T, f, exd, J)
    BY DEF Scanning
  <1> DEFINE F == x.scan.found
             o == x.scan.offset
  <1>1. y.pc = x.pc /\ y.scan \in {x.scan, Moved(x.scan)} /\ x.scan \in Scan
    BY DEF Scans, Waiting, FitRequest, Request
  <1>2. /\ y.scan.found = F /\ y.scan.from = x.scan.from /\ y.scan.topics = x.scan.topics
        /\ y.scan.offset = o /\ (x.scan.shifted => y.scan.shifted)
    BY <1>1, MovedLemma DEF Scan
  <1>3. S \subseteq T /\ S \subseteq Nat
    BY DEF Continues
  <1>4. \A i \in DOMAIN F : F[i].id \in S /\ F[i].id \in Nat
    BY <1>3 DEF Holding, Sound, Ids
  <1>5. \A n \in Owed(y, T, f, exd) : n \in Nat /\ (n \in S => n \in Owed(x, S, ev, exc))
                                     /\ (n \notin S => n \in T \ S /\ \A m \in S : ~(m > n))
    BY <1>2 DEF Owed, Later, Continues
  <1>6. \A n \in Wanted(y, T, f, exd) : n \in Owed(y, T, f, exd) /\ (n \in S => n \in Wanted(x, S, ev, exc))
    BY <1>2, <1>5 DEF Wanted, Continues
  <1>7. ASSUME NEW n \in Owed(y, T, f, exd), NEW i \in DOMAIN F, n <= F[i].id
        PROVE  n \in S
    BY <1>4, <1>5, <1>7
  <1>8. CASE y.pc = "send"
    <2>1. Gapless(F, Owed(y, T, f, exd))
      <3>1. Gapless(F, Owed(x, S, ev, exc))
        BY <1>1, <1>8 DEF Scanning
      <3> QED BY <1>5, <1>7, <3>1 DEF Gapless
    <2> QED BY <1>2, <1>8, <2>1 DEF Scanning
  <1>9. CASE y.pc = "page" /\ y.scan.shifted
    BY <1>1, <1>2, <1>9 DEF Scanning
  <1>10. CASE y.pc = "page" /\ ~y.scan.shifted
    <2>0. x.pc = "page" /\ ~x.scan.shifted /\ o \in Nat
      <3>1. x.scan.offset \in {0} \cup Numbers
        BY <1>1 DEF Scan
      <3>2. {0} \cup Numbers \subseteq Nat
        BY Bounds
      <3>3. x.pc = "page" /\ ~x.scan.shifted
        BY <1>1, <1>2, <1>10
      <3>4. o \in Nat
        BY <3>1, <3>2, Zenon
      <3> QED BY <3>3, <3>4
    <2>1. /\ Len(F) < MaxReplay /\ o <= Cardinality(Later(x, I)) /\ o \in Nat
          /\ \A n \in Wanted(x, S, ev, exc) : Cardinality(Below(Later(x, I), n)) < o => n \in Ids(F)
          /\ Gapless(F, Wanted(x, S, ev, exc))
      BY <2>0 DEF Scanning
    <2>2. Later(x, I) \in SUBSET Later(y, J) /\ Later(y, J) \in SUBSET T
      BY <1>1, <1>2, <1>10 DEF Later, Undisturbed
    <2>3. IsFiniteSet(Later(y, J)) /\ IsFiniteSet(Later(x, I))
      BY <2>2, FS_Subset
    <2>4. /\ Cardinality(Later(x, I)) <= Cardinality(Later(y, J))
          /\ Cardinality(Later(x, I)) \in Nat /\ Cardinality(Later(y, J)) \in Nat
      BY <2>2, <2>3, FS_Subset, FS_CardinalityType
    <2>5. o <= Cardinality(Later(y, J))
      BY <2>1, <2>4
    <2>6. ASSUME NEW n \in Wanted(y, T, f, exd), Cardinality(Below(Later(y, J), n)) < o
          PROVE  n \in Ids(F)
      <3>1. Below(Later(y, J), n) \in SUBSET Later(y, J)
        BY DEF Below
      <3>2. IsFiniteSet(Below(Later(y, J), n)) /\ Cardinality(Below(Later(y, J), n)) \in Nat
        BY <2>3, <3>1, FS_Subset, FS_CardinalityType
      <3>3. CASE n \in S
        <4>1. Below(Later(x, I), n) \in SUBSET Below(Later(y, J), n)
          BY <2>2 DEF Below
        <4>2. /\ Cardinality(Below(Later(x, I), n)) <= Cardinality(Below(Later(y, J), n))
              /\ Cardinality(Below(Later(x, I), n)) \in Nat
          BY <3>2, <4>1, FS_Subset, FS_CardinalityType
        <4>3. Cardinality(Below(Later(x, I), n)) < o
          BY <2>1, <2>6, <3>2, <4>2
        <4> QED BY <1>6, <2>1, <3>3, <4>3
      <3>4. CASE n \notin S
        <4>1. n \in T \ S /\ n \in Nat /\ \A m \in S : ~(m > n)
          BY <1>5, <1>6, <3>4
        <4>2. ASSUME NEW m \in Later(x, I) PROVE m < n
          <5>1. m \in S /\ m \in Nat /\ m # n
            BY <1>3, <3>4 DEF Later
          <5> QED BY <4>1, <5>1
        <4>3. Later(x, I) \in SUBSET Below(Later(y, J), n)
          BY <2>2, <4>2 DEF Below
        <4>4. Cardinality(Later(x, I)) <= Cardinality(Below(Later(y, J), n))
          BY <3>2, <4>3, FS_Subset
        <4> QED BY <2>1, <2>4, <2>6, <3>2, <4>4
      <3> QED BY <3>3, <3>4
    <2>7. Gapless(F, Wanted(y, T, f, exd))
      BY <1>6, <1>7, <2>1 DEF Gapless
    <2> HIDE DEF F, o
    <2> QED BY <1>2, <1>10, <2>1, <2>5, <2>6, <2>7 DEF Scanning
  <1> QED BY <1>8, <1>9, <1>10

-----------------------------------------------------------------------------
\* Steps that let the client read nothing

\* What requests hold, how far scans are, and what the client misses.
StreamInv == NumberInv /\ HoldsInv /\ ScanInv /\ GapInv

LEMMA StoredFinite == ShapeInv => Stored \in SUBSET Nat /\ IsFiniteSet(Stored)
  BY StoredLemma

LEMMA RequestKept ==
    ASSUME ShapeInv, ShapeInv', StreamInv, NumberInv', LogGrows, NEW r \in Requests, Opened(r),
           Scans(req[r], req'[r]), Sound(req'[r].buffer, Stored', event'), Ascends(req'[r].buffer),
           Undisturbed(req[r], req'[r], index \cup (Stored' \ Stored), index')
    PROVE  /\ Holding(req'[r], Stored', event', excused')
           /\ Scanning(req'[r], Stored', event', excused', index')
  <1>1. Continues(Stored, Stored', event, event', excused, excused')
    BY DEF LogGrows, Continues
  <1>2. req[r] \in FitRequest
    BY RequestLemma DEF ShapeInv
  <1>3. Holding(req[r], Stored, event, excused) /\ Scanning(req[r], Stored, event, excused, index)
    BY DEF StreamInv, HoldsInv, ScanInv
  <1>4. index \in SUBSET Stored
    BY DEF StreamInv, NumberInv
  <1>5. index' \in SUBSET Stored'
    BY DEF NumberInv
  <1>6. Stored' \in SUBSET Nat /\ IsFiniteSet(Stored')
    <2>1. (Stored \in SUBSET Nat /\ IsFiniteSet(Stored))'
      BY StoredFinite, PTL
    <2> QED BY <2>1
  <1>7. Holding(req'[r], Stored', event', excused')
    BY <1>1, <1>2, <1>3, HoldingKept
  <1>8. Scanning(req'[r], Stored', event', excused', index')
    BY <1>1, <1>2, <1>3, <1>4, <1>5, <1>6, ScanningKept
  <1> QED BY <1>7, <1>8

LEMMA BuffersKept ==
    ASSUME ShapeInv, ShapeInv', BuffersBelow, DispatchGoesOn,
           \A r \in Requests : Opened(r)' =>
                \/ Opened(r) /\ req'[r].p = req[r].p /\ req'[r].buffer \in {req[r].buffer, << >>}
                \/ req'[r].buffer = << >>
    PROVE  BuffersBelow'
  <1> SUFFICES ASSUME NEW r \in Requests, Opened(r)', disp'[req'[r].p].step # "rest", disp'[req'[r].p].n # 0,
                      NEW i \in DOMAIN req'[r].buffer
               PROVE  req'[r].buffer[i].id < disp'[req'[r].p].n
    BY DEF BuffersBelow
  <1>1. Opened(r) /\ req'[r].p = req[r].p /\ req'[r].buffer = req[r].buffer
    OBVIOUS
  <1>2. PICK p : p = req[r].p
    OBVIOUS
  <1>3. p \in Processes
    BY <1>1, <1>2, RequestLemma DEF ShapeInv, FitRequest, Request
  <1>4. disp'[p] \in {Resting} \cup Dispatch
    BY <1>3 DEF ShapeInv, TypeOK
  <1>5. disp'[p].step \in {"store", "publish"}
    BY <1>1, <1>2, <1>4 DEF Resting, Dispatch
  <1>6. disp[p].step # "rest" /\ disp[p].n = disp'[p].n
    BY <1>1, <1>2, <1>3, <1>5 DEF DispatchGoesOn
  <1> QED BY <1>1, <1>2, <1>6 DEF BuffersBelow

\* What was missed before may be read or excused; nothing else is missed.
LEMMA MissedLemma ==
    ASSUME ShapeInv, ShapeInv', NumberInv, NumberInv', LogGrows, published' = published, got \subseteq got'
    PROVE  Missed' \subseteq Missed
  <1> SUFFICES ASSUME NEW n \in Missed' PROVE n \in Missed
    OBVIOUS
  <1>1. n \in Stored' /\ event'[n] \in published /\ event'[n] \notin got' \cup excused'
    BY DEF Missed
  <1>2. PICK m \in Stored : event'[n] = event[m]
    BY <1>1 DEF NumberInv
  <1>3. m \in Stored' /\ event'[m] = event[m]
    BY DEF LogGrows
  <1>4. Stored' \subseteq 1 .. seqno'
    BY DEF Stored
  <1>5. m = n
    BY <1>1, <1>2, <1>3, <1>4 DEF ShapeInv, NumbersOnce
  <1> QED BY <1>1, <1>2, <1>3, <1>5 DEF Missed, LogGrows

LEMMA HubsShrunk ==
    ASSUME ShapeInv, KeepsShape, NEW r \in Requests, Registered(r)'
    PROVE  Registered(r) /\ req'[r].pc \in Running /\ ~req'[r].ended
  <1>1. req'[r] # NoRequest /\ hub'[req'[r].p][req'[r].s] = r /\ r # 0
    BY DEF Registered, Holder
  <1>2. Opened(r) /\ Follows(req[r], req'[r])
    BY <1>1 DEF KeepsShape, RequestsFollow, Opened
  <1>3. req'[r].p = req[r].p /\ req'[r].s = req[r].s /\ req[r].p \in Processes /\ req[r].s \in Sessions
    BY <1>2, RequestLemma DEF ShapeInv, Follows, FitRequest, Request
  <1>4. hub[req[r].p][req[r].s] = r /\ req'[r].pc \in Running /\ ~req'[r].ended
    BY <1>1, <1>3 DEF KeepsShape, HubsShrink
  <1> QED BY <1>1, <1>2, <1>4 DEF Registered, Holder, Opened

\* An event put behind the start of a replay is excused.
LEMMA ResumingKept ==
    ASSUME NEW S \in SUBSET Nat, NEW T \in SUBSET Nat, NEW ev, NEW f, NEW exc, NEW exd,
           Continues(S, T, ev, f, exc, exd), NEW x \in FitRequest, NEW y, Holding(x, S, ev, exc),
           Resuming(x, S, ev, exc), last' = last, Stays(x, y)
    PROVE  /\ y.pc \in {"claim", "register"} => last' = y.scan.from
           /\ y.pc \in {"page", "send"} /\ y.paused => last' = y.scan.from
           /\ y.pc \in {"page", "send"} /\ ~y.paused => \A n \in T : n <= y.scan.from => f[n] \in exd
  <1>1. y.scan.from = x.scan.from /\ y.paused = x.paused
    <2>1. x.scan \in Scan
      BY DEF FitRequest, Request
    <2> QED BY <2>1, MovedLemma DEF Stays
  <1>2. y.pc \in {"claim", "register"} => last' = y.scan.from
    BY <1>1 DEF Stays, Resuming, Waiting
  <1>3. y.pc \in {"page", "send"} => x.pc = y.pc
    BY DEF Stays, Waiting
  <1>4. ASSUME y.pc \in {"page", "send"}, ~y.paused, NEW n \in T, n <= y.scan.from
        PROVE  f[n] \in exd
    <2>1. x.scan.from \in S /\ \A m \in S : m <= x.scan.from => ev[m] \in exc
      BY <1>1, <1>3, <1>4 DEF Holding, Resuming
    <2>2. CASE n \in S
      BY <1>1, <1>4, <2>1, <2>2 DEF Continues
    <2>3. CASE n \notin S
      <3>1. x.scan.from \in Nat /\ n \in Nat /\ n # x.scan.from
        BY <2>1, <2>3
      <3>2. x.scan.from > n
        BY <1>1, <1>4, <3>1
      <3> QED BY <2>1, <2>3, <3>2 DEF Continues
    <2> QED BY <2>2, <2>3
  <1> QED BY <1>1, <1>2, <1>3, <1>4 DEF Resuming

LEMMA StreamKept ==
    ASSUME ShapeInv, ShapeInv', KeepsShape, StreamInv, NumberInv', LogGrows, BuffersBelow',
           UNCHANGED <<published, last, got>>, cur' \in {0, cur},
           \A r \in Requests : Opened(r) => Stays(req[r], req'[r]) \/ Done(req[r], req'[r]),
           \A r \in Requests : Opened(r) =>
                Undisturbed(req[r], req'[r], index \cup (Stored' \ Stored), index'),
           cur # 0 => Stays(req[cur], req'[cur]) \/ (Done(req[cur], req'[cur]) /\ ~Registered(cur)')
    PROVE  StreamInv'
  <1>1. Continues(Stored, Stored', event, event', excused, excused')
    BY DEF LogGrows, Continues
  <1>2. \A r \in Requests : Opened(r)' => Opened(r)
    BY DEF KeepsShape, RequestsFollow, Opened
  <1>3. ASSUME NEW r \in Requests, Opened(r)
        PROVE  /\ Holding(req'[r], Stored', event', excused')
               /\ Scanning(req'[r], Stored', event', excused', index')
    <2>1. Scans(req[r], req'[r])
      BY <1>3, ScansLemma
    <2>2. req'[r].buffer \in {req[r].buffer, << >>}
      BY <1>3 DEF Stays, Done
    <2>3. Sound(req[r].buffer, Stored, event) /\ Ascends(req[r].buffer)
      BY <1>3 DEF StreamInv, HoldsInv, Holding
    <2>4. Sound(req'[r].buffer, Stored', event') /\ Ascends(req'[r].buffer)
      BY <1>1, <2>2, <2>3, SoundKept, EmptyLemma
    <2> QED BY <1>3, <2>1, <2>4, RequestKept
  <1>4. HoldsInv'
    <2>1. last' \in {0} \cup Stored'
      BY <1>1 DEF StreamInv, HoldsInv, Continues
    <2> QED BY <1>2, <1>3, <2>1 DEF HoldsInv
  <1>5. ScanInv'
    BY <1>2, <1>3 DEF ScanInv
  <1>6. Missed' \subseteq Missed
    BY MissedLemma DEF StreamInv
  <1>7. /\ \A n \in Missed' : n > last'
        /\ last' = 0 => Missed' = {}
    BY <1>6 DEF StreamInv, GapInv
  <1>8. ASSUME cur' # 0
        PROVE  /\ Registered(cur)' => Reaching(req'[cur], Missed')
               /\ Resuming(req[cur], Stored, event, excused)'
    <2>1. PICK c \in Requests : c = cur /\ cur' = c /\ Opened(c)
      BY <1>8 DEF ShapeInv, TypeOK
    <2>2. req[c] \in FitRequest /\ Holding(req[c], Stored, event, excused)
      BY <2>1, RequestLemma DEF ShapeInv, StreamInv, HoldsInv
    <2>3. CASE Stays(req[c], req'[c])
      <3>1. Resuming(req[c], Stored, event, excused)
        BY <1>8, <2>1 DEF StreamInv, GapInv
      <3>2. Stored \in SUBSET Nat
        BY StoredLemma
      <3>3. Stored' \in SUBSET Nat
        BY Bounds DEF Stored, ShapeInv, TypeOK
      <3>4. /\ req'[c].pc \in {"claim", "register"} => last' = req'[c].scan.from
            /\ req'[c].pc \in {"page", "send"} /\ req'[c].paused => last' = req'[c].scan.from
            /\ req'[c].pc \in {"page", "send"} /\ ~req'[c].paused =>
                \A n \in Stored' : n <= req'[c].scan.from => event'[n] \in excused'
        BY <1>1, <2>2, <2>3, <3>1, <3>2, <3>3, ResumingKept
      <3>5. Registered(c)' => Reaching(req'[c], Missed')
        <4> SUFFICES ASSUME Registered(c)' PROVE Reaching(req'[c], Missed')
          OBVIOUS
        <4>1. Registered(c) /\ req'[c].pc \in Running
          BY HubsShrunk
        <4>2. Reaching(req[c], Missed)
          BY <2>1, <4>1 DEF StreamInv, GapInv
        <4>3. /\ req'[c].scan.found = req[c].scan.found /\ req'[c].pc = req[c].pc
              /\ req'[c].buffer = req[c].buffer /\ req'[c].paused = req[c].paused
          <5>1. req[c].scan \in Scan
            BY <2>2 DEF FitRequest, Request
          <5> QED BY <2>3, <4>1, <5>1, MovedLemma DEF Stays, Waiting, Running
        <4> QED BY <1>6, <4>2, <4>3 DEF Reaching
      <3>6. Registered(cur)' => Registered(c)'
        BY <2>1 DEF Registered, Holder
      <3> QED BY <2>1, <3>4, <3>5, <3>6 DEF Resuming
    <2>4. CASE Done(req[c], req'[c]) /\ ~Registered(cur)'
      BY <2>1, <2>4 DEF Done, Resuming
    <2> QED BY <1>8, <2>1, <2>3, <2>4
  <1>9. cur' = 0 => ~Registered(cur)'
    BY DEF Registered
  <1>10. Registered(cur)' => Reaching(req[cur], Missed)'
    BY <1>8, <1>9 DEF Reaching
  <1>11. GapInv'
    BY <1>7, <1>8, <1>10 DEF GapInv
  <1> QED BY <1>4, <1>5, <1>11 DEF StreamInv

LEMMA StaysLemma ==
    /\ \A x : Stays(x, x)
    /\ \A x \in FitRequest : Stays(x, Stopped(x)) /\ Stays(x, Cleaned(x))
  BY StoppedLemma, CleanedLemma DEF Stays

\* The numbers stay, the client reads nothing.
LEMMA QuietKept ==
    ASSUME ShapeInv, ShapeInv', KeepsShape, StreamInv, UNCHANGED <<store, disp, published, excused, last, got>>,
           cur' \in {0, cur},
           \A r \in Requests : Opened(r) => Stays(req[r], req'[r]) \/ Done(req[r], req'[r]),
           cur # 0 => Stays(req[cur], req'[cur]) \/ (Done(req[cur], req'[cur]) /\ ~Registered(cur)')
    PROVE  StreamInv'
  <1>1. NumberInv' /\ LogGrows /\ Stored' = Stored /\ DispatchGoesOn
    BY NumbersQuiet DEF StreamInv
  <1>2. index' = index
    BY DEF store
  <1>3. \A r \in Requests : Opened(r) => Undisturbed(req[r], req'[r], index \cup (Stored' \ Stored), index')
    BY <1>1, <1>2 DEF Undisturbed
  <1>4. BuffersBelow'
    <2>1. ASSUME NEW r \in Requests, Opened(r)'
          PROVE  Opened(r) /\ req'[r].p = req[r].p /\ req'[r].buffer \in {req[r].buffer, << >>}
      <3>1. Opened(r)
        BY <2>1 DEF KeepsShape, RequestsFollow, Opened
      <3>2. req'[r].p = req[r].p
        BY <3>1 DEF KeepsShape, RequestsFollow, Follows
      <3> QED BY <3>1, <3>2 DEF Stays, Done
    <2> QED BY <1>1, <2>1, BuffersKept DEF StreamInv, HoldsInv
  <1> QED BY <1>1, <1>3, <1>4, StreamKept

\* Requests that are only ended, or not touched.
LEMMA EndingKept ==
    ASSUME ShapeInv, ShapeInv', KeepsShape, StreamInv, UNCHANGED <<store, disp, published, excused, last, got>>,
           cur' \in {0, cur},
           \A r \in Requests : Opened(r) => req'[r] \in {req[r], Stopped(req[r]), Cleaned(req[r])}
    PROVE  StreamInv'
  <1>1. \A r \in Requests : Opened(r) => req[r] \in FitRequest
    BY RequestLemma DEF ShapeInv
  <1>2. \A r \in Requests : Opened(r) => Stays(req[r], req'[r])
    BY <1>1, StaysLemma
  <1>3. cur # 0 => cur \in Requests /\ Opened(cur)
    BY DEF ShapeInv, TypeOK
  <1> QED BY <1>2, <1>3, QuietKept

LEMMA StreamOfSessions ==
    ASSUME ShapeInv, ShapeInv', StreamInv, KeepsShape,
           UNCHANGED <<store, disp, published, excused, last, got, req>>, cur' \in {0, cur}
    PROVE  StreamInv'
  BY EndingKept

LEMMA StreamClosed ==
    ASSUME ShapeInv, ShapeInv', StreamInv, KeepsShape, NEW R, req' = Ended(R) \/ req' = req,
           UNCHANGED <<store, disp, published, excused, last, got>>, cur' \in {0, cur}
    PROVE  StreamInv'
  <1>1. \A r \in Requests : req'[r] \in {req[r], Stopped(req[r]), Cleaned(req[r])}
    BY DEF Ended, Stopped
  <1> QED BY <1>1, EndingKept

LEMMA StreamReplayFails ==
    ASSUME ShapeInv, ShapeInv', StreamInv, NEW r \in Requests, ReplayFails(r)
    PROVE  StreamInv'
  <1>1. /\ KeepsShape /\ Opened(r)
        /\ \A q \in Requests : /\ q # r /\ q # Holder(r) => req'[q] = req[q]
                               /\ q # r /\ q = Holder(r) => req'[q] = Stopped(req[q])
                               /\ q = r /\ q # Holder(r) => req'[q] = Replayed(req[q])
                               /\ q = r /\ q = Holder(r) => req'[q] = Replayed(Stopped(req[q]))
    BY KeepReplayFails DEF KeepsRequests
  <1>2. /\ UNCHANGED <<store, disp, published, excused, last, got, cur>>
        /\ hub' = Without({Holder(r)} \ {0})
    BY DEF ReplayFails, history, client
  <1>3. \A q \in Requests : Opened(q) => req[q] \in FitRequest
    BY RequestLemma DEF ShapeInv
  <1>4. \A q \in Requests : q # r /\ Opened(q) => Stays(req[q], req'[q])
    BY <1>1, <1>3, StaysLemma
  <1>5. Done(req[r], req'[r])
    <2>1. PICK x : x = IF r = Holder(r) THEN Stopped(req[r]) ELSE req[r]
      OBVIOUS
    <2>2. req'[r] = Replayed(x) /\ x \in FitRequest /\ x.buffer = req[r].buffer
      BY <1>1, <1>3, <2>1, StoppedLemma
    <2> QED BY <2>2, ReplayedLemma DEF Done
  <1>6. ~Registered(r)'
    <2> SUFFICES ASSUME Registered(r)' PROVE FALSE
      OBVIOUS
    <2>1. Registered(r)
      BY <1>1, HubsShrunk
    <2>2. hub[req[r].p][req[r].s] = r /\ req[r].p \in Processes /\ req[r].s \in Sessions /\ Holder(r) = r
      BY <1>1, <1>3, <2>1 DEF Registered, Holder, FitRequest, Request
    <2>3. hub'[req[r].p][req[r].s] = 0
      BY <1>2, <2>2, Bounds DEF Without
    <2>4. req'[r].p = req[r].p /\ req'[r].s = req[r].s
      BY <1>1 DEF KeepsShape, RequestsFollow, Follows
    <2> QED BY <2>3, <2>4 DEF Registered, Holder
  <1>7. cur = r => ~Registered(cur)'
    BY <1>2, <1>6 DEF Registered, Holder
  <1>8. cur # 0 => cur \in Requests /\ Opened(cur)
    BY DEF ShapeInv, TypeOK
  <1> QED BY <1>1, <1>2, <1>4, <1>5, <1>7, <1>8, QuietKept

LEMMA StreamCleanup ==
    ASSUME ShapeInv, ShapeInv', StreamInv, NEW r \in Requests, Cleanup(r)
    PROVE  StreamInv'
  <1>1. /\ KeepsShape /\ Opened(r) /\ cur # r
        /\ \A q \in Requests : q # r => req'[q] = req[q]
        /\ req'[r] = IF req[r].pc = "open" THEN Over(req[r], "closed") ELSE Cleaned(req[r])
    BY KeepCleanup DEF KeepsRequests
  <1>2. UNCHANGED <<store, disp, published, excused, last, got, cur>>
    BY DEF Cleanup, history, client
  <1>3. req[r] \in FitRequest
    BY <1>1, RequestLemma DEF ShapeInv
  <1>4. Stays(req[r], req'[r]) \/ Done(req[r], req'[r])
    <2>1. CASE req[r].pc = "open"
      BY <1>1, <1>3, <2>1, OverLemma DEF Done
    <2>2. CASE req[r].pc # "open"
      BY <1>1, <1>3, <2>2, StaysLemma
    <2> QED BY <2>1, <2>2
  <1>5. \A q \in Requests : q # r => Stays(req[q], req'[q])
    BY <1>1, StaysLemma
  <1>6. cur # 0 => cur \in Requests /\ Opened(cur)
    BY DEF ShapeInv, TypeOK
  <1> QED BY <1>1, <1>2, <1>4, <1>5, <1>6, QuietKept

LEMMA StreamClaim ==
    ASSUME ShapeInv, ShapeInv', StreamInv, NEW r \in Requests, Claim(r)
    PROVE  StreamInv'
  <1>1. /\ KeepsShape /\ Opened(r) /\ req[r].pc = "claim" /\ req[r] \in FitRequest
        /\ \A q \in Requests : q # r => req'[q] = req[q]
        /\ Taken(req[r].s) => req'[r] = Over(req[r], "refused")
        /\ ~Taken(req[r].s) => /\ req'[r].pc = "register" /\ req'[r].scan = req[r].scan
                               /\ req'[r].buffer = req[r].buffer /\ req'[r].paused = req[r].paused
    BY KeepClaim
  <1>2. UNCHANGED <<store, disp, published, excused, last, got, cur>>
    BY DEF Claim, history, client
  <1>3. Stays(req[r], req'[r]) \/ (Done(req[r], req'[r]) /\ req'[r].pc = "refused")
    <2>1. CASE Taken(req[r].s)
      BY <1>1, <2>1, OverLemma DEF Done
    <2>2. CASE ~Taken(req[r].s)
      BY <1>1, <2>2 DEF Stays, Waiting
    <2> QED BY <2>1, <2>2
  <1>4. Stays(req[r], req'[r]) \/ (Done(req[r], req'[r]) /\ ~Registered(r)')
    <2>1. req'[r].pc = "refused" => ~Registered(r)'
      BY <1>1, HubsShrunk DEF Running
    <2> QED BY <1>3, <2>1
  <1>5. \A q \in Requests : q # r => Stays(req[q], req'[q])
    BY <1>1, StaysLemma
  <1>6. cur = r => (Registered(cur)' <=> Registered(r)')
    BY <1>2 DEF Registered, Holder
  <1>7. cur # 0 => cur \in Requests /\ Opened(cur)
    BY DEF ShapeInv, TypeOK
  <1> QED BY <1>1, <1>2, <1>4, <1>5, <1>6, <1>7, QuietKept

LEMMA StreamTopicsUpdated ==
    ASSUME ShapeInv, ShapeInv', StreamInv, NEW c \in Controls, TopicsUpdated(c)
    PROVE  StreamInv'
  <1>1. /\ KeepsShape
        /\ \A r \in Requests : req'[r] # req[r] =>
            /\ req'[r].pc = req[r].pc /\ req'[r].scan = req[r].scan
            /\ req'[r].buffer = req[r].buffer /\ req'[r].paused = req[r].paused
    BY ShapeTopicsUpdated
  <1>2. UNCHANGED <<store, disp, published, excused, last, got, cur>>
    BY DEF TopicsUpdated, client
  <1>3. \A r \in Requests : Stays(req[r], req'[r])
    BY <1>1, StaysLemma DEF Stays
  <1>4. cur # 0 => cur \in Requests /\ Opened(cur)
    BY DEF ShapeInv, TypeOK
  <1> QED BY <1>1, <1>2, <1>3, <1>4, QuietKept

-----------------------------------------------------------------------------
\* Steps of the log

\* The requests stay as they are, the log grows.
LEMMA LogKept ==
    ASSUME ShapeInv, ShapeInv', KeepsShape, StreamInv, NumberInv', LogGrows, BuffersBelow',
           UNCHANGED <<req, client, published, index>>, Stored' = Stored
    PROVE  StreamInv'
  <1>1. UNCHANGED <<published, last, got, cur>>
    BY DEF client
  <1>2. \A r \in Requests : Opened(r) => Stays(req[r], req'[r])
    BY StaysLemma
  <1>3. \A r \in Requests : Opened(r) => Undisturbed(req[r], req'[r], index \cup (Stored' \ Stored), index')
    BY DEF Undisturbed
  <1>4. cur # 0 => cur \in Requests /\ Opened(cur)
    BY DEF ShapeInv, TypeOK
  <1> QED BY <1>1, <1>2, <1>3, <1>4, StreamKept

LEMMA BuffersQuiet ==
    ASSUME ShapeInv, ShapeInv', BuffersBelow, DispatchGoesOn, req' = req
    PROVE  BuffersBelow'
  <1>1. \A r \in Requests : Opened(r)' => Opened(r) /\ req'[r].p = req[r].p /\ req'[r].buffer \in {req[r].buffer, << >>}
    BY DEF Opened
  <1> QED BY <1>1, BuffersKept

LEMMA StreamIncr ==
    ASSUME ShapeInv, ShapeInv', StreamInv, NEW p \in Processes, NEW e \in Public, Incr(p, e)
    PROVE  StreamInv'
  <1>1. KeepsShape /\ seqno' = seqno + 1
    BY ShapeIncr DEF KeepsRequests
  <1>2. /\ NumberInv' /\ LogGrows /\ Stored' = Stored
        /\ disp'[p].n = seqno' /\ \A q \in Processes : q # p => disp'[q] = disp[q]
    BY NumbersIncr DEF StreamInv
  <1>3. UNCHANGED <<req, client, published, index>>
    BY DEF Incr, history
  <1>4. BuffersBelow'
    <2> SUFFICES ASSUME NEW r \in Requests, Opened(r)', disp'[req'[r].p].step # "rest",
                        disp'[req'[r].p].n # 0, NEW i \in DOMAIN req'[r].buffer
                 PROVE  req'[r].buffer[i].id < disp'[req'[r].p].n
      BY DEF BuffersBelow
    <2>1. Opened(r) /\ req[r] \in FitRequest
      BY <1>3, RequestLemma DEF ShapeInv, Opened
    <2>2. PICK b : b = req[r].buffer
      OBVIOUS
    <2>3. b \in Seq(Item) /\ req[r].p \in Processes
      BY <2>1, <2>2 DEF FitRequest, Request
    <2>4. CASE req[r].p = p
      <3>1. Sound(b, Stored, event)
        BY <2>1, <2>2 DEF StreamInv, HoldsInv, Holding
      <3>2. b[i].id = 0 \/ b[i].id \in Stored
        BY <1>3, <2>2, <3>1 DEF Sound
      <3>3. seqno \in Nat /\ Stored \in SUBSET (1 .. seqno)
        BY StoredLemma
      <3>4. b[i].id < seqno + 1
        BY <3>2, <3>3
      <3> QED BY <1>1, <1>2, <1>3, <2>2, <2>4, <3>4
    <2>5. CASE req[r].p # p
      <3>1. disp'[req[r].p] = disp[req[r].p]
        BY <1>2, <2>3, <2>5
      <3> QED BY <1>3, <2>1, <3>1 DEF StreamInv, HoldsInv, BuffersBelow
    <2> QED BY <2>4, <2>5
  <1> QED BY <1>1, <1>2, <1>3, <1>4, LogKept

LEMMA StreamNotStored ==
    ASSUME ShapeInv, ShapeInv', StreamInv, NEW p \in Processes, NotStored(p)
    PROVE  StreamInv'
  <1>1. KeepsShape
    BY ShapeNotStored DEF KeepsRequests
  <1>2. NumberInv' /\ LogGrows /\ Stored' = Stored /\ DispatchGoesOn
    BY NumbersNotStored DEF StreamInv
  <1>3. UNCHANGED <<req, client, published, index>>
    BY DEF NotStored, history, store
  <1>4. BuffersBelow'
    BY <1>2, <1>3, BuffersQuiet DEF StreamInv, HoldsInv
  <1> QED BY <1>1, <1>2, <1>3, <1>4, LogKept

LEMMA StreamExpireEvent ==
    ASSUME ShapeInv, ShapeInv', StreamInv, NEW n \in Numbers, ExpireEvent(n)
    PROVE  StreamInv'
  <1>1. KeepsShape
    BY ShapeExpireEvent DEF KeepsRequests
  <1>2. NumberInv' /\ LogGrows /\ Stored' = Stored /\ DispatchGoesOn
    BY NumbersExpire DEF StreamInv
  <1>3. UNCHANGED <<req, client, published, index>>
    BY DEF ExpireEvent
  <1>4. BuffersBelow'
    BY <1>2, <1>3, BuffersQuiet DEF StreamInv, HoldsInv
  <1> QED BY <1>1, <1>2, <1>3, <1>4, LogKept

\* The requests in the middle of a scan are moved.
LEMMA ShiftedStays ==
    ASSUME ShapeInv, NEW S, NEW r \in Requests, Opened(r)
    PROVE  /\ Stays(req[r], Shifted(S)[r]) /\ Shifted(S)[r] \in FitRequest
           /\ Shifted(S)[r].p = req[r].p
           /\ \A N, J : (\A m \in N : m \in J \/ m \in S) => Undisturbed(req[r], Shifted(S)[r], N, J)
  <1> DEFINE y == Shifted(S)[r]
  <1>1. /\ Follows(req[r], y) /\ y.pc = req[r].pc /\ y.paused = req[r].paused /\ y.buffer = req[r].buffer
        /\ \/ y.scan = req[r].scan /\ (req[r].pc = "page" => \A n \in S : ~(n > req[r].scan.from))
           \/ y.scan = Moved(req[r].scan)
    BY ShiftedLemma DEF ShapeInv
  <1>2. req[r].scan \in Scan
    BY RequestLemma DEF ShapeInv, FitRequest, Request
  <1> HIDE DEF y
  <1>3. Stays(req[r], y)
    BY <1>1 DEF Stays
  <1>4. ASSUME NEW N, NEW J, \A m \in N : m \in J \/ m \in S
        PROVE  Undisturbed(req[r], y, N, J)
    <2>1. CASE y.scan = Moved(req[r].scan)
      BY <1>2, <2>1, MovedLemma DEF Undisturbed
    <2>2. CASE req[r].pc = "page" => \A n \in S : ~(n > req[r].scan.from)
      BY <1>4, <2>2 DEF Undisturbed
    <2> QED BY <1>1, <2>1, <2>2
  <1>5. y \in FitRequest /\ y.p = req[r].p
    BY <1>1 DEF Follows
  <1> QED BY <1>3, <1>4, <1>5 DEF y

LEMMA StreamStore ==
    ASSUME ShapeInv, ShapeInv', StreamInv, NEW p \in Processes, Store(p)
    PROVE  StreamInv'
  <1>1. KeepsShape
    BY ShapeStore DEF KeepsRequests
  <1>2. /\ NumberInv' /\ LogGrows
        /\ \A q \in Processes : q # p => disp'[q] = disp[q]
        /\ disp'[p].step = "publish" /\ disp'[p].n \in {0, disp[p].n}
    BY NumbersStore DEF StreamInv
  <1>3. PICK S : /\ req' = Shifted(S)
                 /\ \A m \in index \cup (Stored' \ Stored) : m \in index' \/ m \in S
    BY NumbersStore DEF StreamInv
  <1>4. UNCHANGED <<published, last, got, cur>> /\ disp[p].step = "store"
    BY DEF Store, client
  <1>5. \A r \in Requests : Opened(r) => Stays(req[r], req'[r]) /\ req'[r].p = req[r].p
    BY <1>3, ShiftedStays
  <1>6. \A r \in Requests : Opened(r) => Undisturbed(req[r], req'[r], index \cup (Stored' \ Stored), index')
    BY <1>3, ShiftedStays
  <1>7. cur # 0 => cur \in Requests /\ Opened(cur)
    BY DEF ShapeInv, TypeOK
  <1>8. BuffersBelow'
    <2> SUFFICES ASSUME NEW r \in Requests, Opened(r)', disp'[req'[r].p].step # "rest",
                        disp'[req'[r].p].n # 0, NEW i \in DOMAIN req'[r].buffer
                 PROVE  req'[r].buffer[i].id < disp'[req'[r].p].n
      BY DEF BuffersBelow
    <2>1. Opened(r)
      BY <1>1 DEF KeepsShape, RequestsFollow, Opened
    <2>2. req'[r].p = req[r].p /\ req'[r].buffer = req[r].buffer /\ req[r].p \in Processes
      BY <1>5, <2>1, RequestLemma DEF Stays, ShapeInv, FitRequest, Request
    <2>3. disp[req[r].p].step # "rest" /\ disp[req[r].p].n = disp'[req[r].p].n
      BY <1>2, <1>4, <2>2
    <2> QED BY <2>1, <2>2, <2>3 DEF StreamInv, HoldsInv, BuffersBelow
  <1> QED BY <1>1, <1>2, <1>4, <1>5, <1>6, <1>7, <1>8, StreamKept

-----------------------------------------------------------------------------
\* Events that go through a hub

LEMMA OnlyReached ==
    ASSUME NEW P, NEW e, NEW id, HubPublish(P, e, id), NEW r \in Requests, req'[r] # req[r]
    PROVE  req[r].p \in P
  <1> DEFINE i == [e |-> e, id |-> id]
             hit == {q \in Requests : Registered(q) /\ req[q].p \in P /\ Matches(e, req[q].topics)}
             full == {q \in hit : req[q].paused /\ Len(req[q].buffer) >= MaxBuffer}
  <1>1. req' = [q \in Requests |->
                    CASE q \in full -> [req[q] EXCEPT !.ended = TRUE]
                      [] q \in hit \ full /\ req[q].paused -> [req[q] EXCEPT !.buffer = Append(@, i)]
                      [] OTHER -> req[q]]
    BY Zenon DEF HubPublish
  <1>2. r \notin hit => req'[r] = req[r]
    BY <1>1
  <1> QED BY <1>2

\* An event a request holds back comes last in its buffer.
LEMMA HeldBackLemma ==
    ASSUME ShapeInv, NEW r \in Requests, NEW e \in Events, NEW id \in {0} \cup Numbers, HeldBack(r, e, id)
    PROVE  LET b == req[r].buffer IN
           /\ req'[r].scan = req[r].scan /\ req'[r].pc = req[r].pc
           /\ req'[r].paused = req[r].paused /\ req[r].paused
           /\ b \in Seq(Item) /\ req'[r].buffer = Append(b, [e |-> e, id |-> id])
           /\ Len(req'[r].buffer) = Len(b) + 1 /\ DOMAIN req'[r].buffer = 1 .. Len(b) + 1
           /\ req'[r].buffer[Len(b) + 1] = [e |-> e, id |-> id]
           /\ \A i \in 1 .. Len(b) : req'[r].buffer[i] = b[i]
  <1>1. PICK i : i = [e |-> e, id |-> id]
    OBVIOUS
  <1>2. i \in Item /\ req[r] \in FitRequest
    BY <1>1, RegisteredLemma DEF HeldBack, Item
  <1>3. PICK b : b = req[r].buffer
    OBVIOUS
  <1>4. b \in Seq(Item) /\ req'[r] = [req[r] EXCEPT !.buffer = Append(b, i)]
    BY <1>1, <1>2, <1>3 DEF HeldBack, FitRequest, Request
  <1>5. req'[r].buffer = Append(b, i) /\ req'[r].scan = req[r].scan /\ req'[r].pc = req[r].pc
        /\ req'[r].paused = req[r].paused
    BY <1>2, <1>4 DEF FitRequest, Request
  <1>6. /\ Len(Append(b, i)) = Len(b) + 1 /\ DOMAIN Append(b, i) = 1 .. Len(b) + 1
        /\ Append(b, i)[Len(b) + 1] = i
        /\ \A j \in 1 .. Len(b) : Append(b, i)[j] = b[j]
    BY <1>2, <1>4
  <1> QED BY <1>1, <1>3, <1>4, <1>5, <1>6 DEF HeldBack

LEMMA PublishKept ==
    ASSUME ShapeInv, ShapeInv', StreamInv, NumberInv', LogGrows, DispatchGoesOn,
           UNCHANGED <<event, index>>, Stored' = Stored,
           NEW P, NEW e \in Events, NEW id \in {0} \cup Numbers, HubPublish(P, e, id),
           id # 0 => /\ id \in Stored /\ event[id] = e
                     /\ \A r \in Requests : Opened(r) /\ req[r].p \in P =>
                            /\ disp'[req[r].p].step = "rest"
                            /\ \A i \in DOMAIN req[r].buffer : req[r].buffer[i].id < id,
           \A n \in Missed' \ Missed :
                /\ n = id /\ 0 < last' /\ last' < n /\ e \notin got'
                /\ Registered(cur) /\ Registered(cur)' => req'[cur] # req[cur]
    PROVE  StreamInv'
  <1>1. /\ \A r \in Requests : req'[r] = req[r] \/ HeldBack(r, e, id) \/ FallsBehind(r)
        /\ \A p \in Processes, s \in Sessions : hub'[p][s] # 0 =>
                /\ hub'[p][s] = hub[p][s]
                /\ req'[hub[p][s]] = req[hub[p][s]] \/ HeldBack(hub[p][s], e, id)
        /\ cur' = cur
        /\ \/ got' = got /\ last' = last
           \/ Registered(cur) /\ ~req[cur].paused /\ got' = got \cup {e} /\ last' = id
    BY PublishesLemma
  <1>2. KeepsShape
    BY KeepPublishes DEF KeepsRequests
  <1>3. \A r \in Requests : Opened(r)' => Opened(r) /\ req'[r].p = req[r].p
    BY <1>2 DEF KeepsShape, RequestsFollow, Opened, Follows
  <1>4. \A r \in Requests : Opened(r) => req[r] \in FitRequest
    BY RequestLemma DEF ShapeInv
  <1>5. ASSUME NEW r \in Requests, Opened(r)
        PROVE  /\ req'[r].scan = req[r].scan /\ req'[r].pc = req[r].pc /\ req'[r].paused = req[r].paused
               /\ req'[r].buffer = req[r].buffer \/ HeldBack(r, e, id)
    <2>1. CASE req'[r] = req[r]
      BY <2>1
    <2>2. CASE HeldBack(r, e, id)
      BY <2>2, HeldBackLemma
    <2>3. CASE FallsBehind(r)
      <3>1. req'[r] = Stopped(req[r])
        BY <2>3 DEF FallsBehind, Stopped
      <3> QED BY <1>4, <1>5, <3>1, StoppedLemma
    <2> QED BY <1>1, <2>1, <2>2, <2>3
  <1>6. ASSUME NEW r \in Requests, Opened(r), HeldBack(r, e, id)
        PROVE  Sound(req'[r].buffer, Stored, event) /\ Ascends(req'[r].buffer)
    <2>1. PICK b : b = req[r].buffer
      OBVIOUS
    <2>2. PICK c : c = req'[r].buffer
      OBVIOUS
    <2>3. PICK i : i = [e |-> e, id |-> id]
      OBVIOUS
    <2>4. /\ b \in Seq(Item) /\ DOMAIN c = 1 .. Len(b) + 1 /\ c[Len(b) + 1] = i
          /\ \A j \in 1 .. Len(b) : c[j] = b[j]
      BY <1>6, <2>1, <2>2, <2>3, HeldBackLemma
    <2>5. Sound(b, Stored, event) /\ Ascends(b)
      BY <1>6, <2>1 DEF StreamInv, HoldsInv, Holding
    <2>6. i.e = e /\ i.id = id
      BY <2>3
    <2>7. id # 0 => \A j \in DOMAIN b : b[j].id < id
      <3>1. req'[r] # req[r]
        <4>1. b # c
          BY <2>4
        <4> QED BY <2>1, <2>2, <4>1
      <3>2. req[r].p \in P
        BY <3>1, OnlyReached
      <3> QED BY <1>6, <2>1, <3>2
    <2>8. DOMAIN b = 1 .. Len(b) /\ Len(b) \in Nat
      BY <2>4
    <2>9. Sound(c, Stored, event)
      BY <2>4, <2>5, <2>6, <2>8 DEF Sound
    <2>10. Ascends(c)
      <3> SUFFICES ASSUME NEW j \in DOMAIN c, NEW k \in DOMAIN c, j < k, c[k].id # 0
                   PROVE  c[j].id < c[k].id
        BY DEF Ascends
      <3>1. j \in 1 .. Len(b) /\ c[j] = b[j]
        BY <2>4, <2>8
      <3>2. CASE k \in 1 .. Len(b)
        BY <2>4, <2>5, <2>8, <3>1, <3>2 DEF Ascends
      <3>3. CASE k = Len(b) + 1
        BY <2>4, <2>6, <2>7, <2>8, <3>1, <3>3
      <3> QED BY <2>4, <2>8, <3>2, <3>3
    <2> QED BY <2>2, <2>9, <2>10
  <1>7. ASSUME NEW r \in Requests, Opened(r)
        PROVE  /\ Holding(req'[r], Stored', event', excused')
               /\ Scanning(req'[r], Stored', event', excused', index')
    <2>1. Scans(req[r], req'[r]) /\ Undisturbed(req[r], req'[r], index \cup (Stored' \ Stored), index')
      BY <1>5, <1>7 DEF Scans, Undisturbed
    <2>2. Sound(req[r].buffer, Stored, event) /\ Ascends(req[r].buffer)
      BY <1>7 DEF StreamInv, HoldsInv, Holding
    <2>3. Sound(req'[r].buffer, Stored', event') /\ Ascends(req'[r].buffer)
      BY <1>5, <1>6, <1>7, <2>2
    <2> QED BY <1>7, <2>1, <2>3, RequestKept
  <1>8. BuffersBelow'
    <2> SUFFICES ASSUME NEW r \in Requests, Opened(r)', disp'[req'[r].p].step # "rest",
                        disp'[req'[r].p].n # 0, NEW i \in DOMAIN req'[r].buffer
                 PROVE  req'[r].buffer[i].id < disp'[req'[r].p].n
      BY DEF BuffersBelow
    <2>1. PICK p : p = req[r].p
      OBVIOUS
    <2>2. Opened(r) /\ req'[r].p = p /\ p \in Processes
      BY <1>3, <1>4, <2>1 DEF FitRequest, Request
    <2>3. disp'[p] \in {Resting} \cup Dispatch
      BY <2>2 DEF ShapeInv, TypeOK
    <2>4. disp'[p].step \in {"store", "publish"} /\ disp'[p].n \in {0} \cup Numbers
      BY <2>2, <2>3 DEF Resting, Dispatch
    <2>5. disp[p].step # "rest" /\ disp[p].n = disp'[p].n
      BY <2>2, <2>4 DEF DispatchGoesOn
    <2>6. PICK b : b = req[r].buffer
      OBVIOUS
    <2>7. \A j \in DOMAIN b : b[j].id < disp'[p].n
      BY <2>1, <2>2, <2>5, <2>6 DEF StreamInv, HoldsInv, BuffersBelow
    <2>8. CASE req'[r].buffer = b
      BY <2>2, <2>7, <2>8
    <2>9. CASE HeldBack(r, e, id)
      <3>1. PICK c : c = req'[r].buffer
        OBVIOUS
      <3>2. PICK x : x = [e |-> e, id |-> id]
        OBVIOUS
      <3>3. /\ b \in Seq(Item) /\ DOMAIN c = 1 .. Len(b) + 1 /\ c[Len(b) + 1] = x
            /\ \A j \in 1 .. Len(b) : c[j] = b[j]
        BY <2>6, <2>9, <3>1, <3>2, HeldBackLemma
      <3>4. DOMAIN b = 1 .. Len(b) /\ x.id = id /\ Len(b) \in Nat
        BY <3>2, <3>3
      <3>5. b # c
        BY <3>3, <3>4
      <3>6. p \in P
        BY <2>1, <2>6, <3>1, <3>5, OnlyReached
      <3>7. id = 0
        BY <2>1, <2>2, <3>6
      <3>8. 0 < disp'[p].n
        <4>1. disp'[p].n # 0
          BY <2>2
        <4>2. disp'[p].n \in Nat
          <5>1. {0} \cup Numbers \subseteq Nat
            BY Bounds
          <5> QED BY <2>4, <5>1, Zenon
        <4> QED BY <4>1, <4>2
      <3>9. c[i].id < disp'[p].n
        <4>1. CASE i \in 1 .. Len(b)
          BY <2>7, <3>3, <3>4, <4>1
        <4>2. CASE i = Len(b) + 1
          BY <3>3, <3>4, <3>7, <3>8, <4>2
        <4> QED BY <3>1, <3>3, <3>4, <4>1, <4>2
      <3> QED BY <2>2, <3>1, <3>9
    <2> QED BY <1>5, <2>2, <2>6, <2>8, <2>9
  <1>9. HoldsInv'
    <2>1. last' \in {0} \cup Stored'
      BY <1>1 DEF StreamInv, HoldsInv
    <2> QED BY <1>3, <1>7, <1>8, <2>1 DEF HoldsInv
  <1>10. ScanInv'
    BY <1>3, <1>7 DEF ScanInv
  <1>11. Missed' \subseteq Missed \cup {id}
    OBVIOUS
  <1>12. Stored \in SUBSET Nat /\ 0 \notin Stored /\ Missed' \subseteq Stored /\ Missed \subseteq Stored
    <2>1. Stored \in SUBSET Nat /\ 0 \notin Stored
      BY StoredLemma, Bounds
    <2>2. Missed' \subseteq Stored'
      BY DEF Missed
    <2> QED BY <2>1, <2>2 DEF Missed
  <1>13. ASSUME ~(got' = got /\ last' = last)
         PROVE  Missed' = {} /\ Registered(cur) /\ ~req[cur].paused
    <2>1. Registered(cur) /\ ~req[cur].paused /\ got' = got \cup {e}
      BY <1>1, <1>13
    <2>2. Missed = {}
      BY <2>1 DEF StreamInv, GapInv, Reaching
    <2> QED BY <2>1, <2>2
  <1>14. \A n \in Missed' : n > last'
    <2> SUFFICES ASSUME NEW n \in Missed' PROVE n > last'
      OBVIOUS
    <2>1. got' = got /\ last' = last
      BY <1>13
    <2>2. CASE n \in Missed
      BY <2>1, <2>2 DEF StreamInv, GapInv
    <2>3. CASE n \notin Missed
      <3>1. last' < n /\ n \in Nat /\ last' \in Nat
        BY <1>12, <2>1, <2>3 DEF StreamInv, HoldsInv
      <3> QED BY <3>1
    <2> QED BY <2>2, <2>3
  <1>15. last' = 0 => Missed' = {}
    <2> SUFFICES ASSUME last' = 0, NEW n \in Missed' PROVE FALSE
      OBVIOUS
    <2>1. got' = got /\ last' = last
      BY <1>13
    <2>2. n \in Missed
      <3>1. n \notin Missed => 0 < last'
        OBVIOUS
      <3> QED BY <3>1
    <2> QED BY <2>1, <2>2 DEF StreamInv, GapInv
  <1>16. ASSUME Registered(cur)' PROVE Reaching(req[cur], Missed)'
    <2>1. PICK c \in Requests : c = cur /\ cur' = c
      BY <1>1, <1>16 DEF Registered, ShapeInv, TypeOK
    <2>2. Registered(c)'
      BY <1>16, <2>1 DEF Registered, Holder
    <2>3. Registered(c) /\ Opened(c)
      BY <1>2, <2>2, HubsShrunk DEF Registered, Opened
    <2>4. Reaching(req[c], Missed)
      BY <2>1, <2>3 DEF StreamInv, GapInv
    <2>5. PICK p : p = req[c].p
      OBVIOUS
    <2>6. PICK s : s = req[c].s
      OBVIOUS
    <2>7. p \in Processes /\ s \in Sessions /\ c # 0
      BY <1>4, <2>3, <2>5, <2>6, Bounds DEF FitRequest, Request
    <2>8. hub[p][s] = c
      BY <2>3, <2>5, <2>6 DEF Registered, Holder
    <2>9. req'[c].p = p /\ req'[c].s = s
      BY <1>2, <2>3, <2>5, <2>6 DEF KeepsShape, RequestsFollow, Follows
    <2>10. hub'[p][s] # 0
      BY <2>2, <2>7, <2>9 DEF Registered, Holder
    <2>11. req'[c] = req[c] \/ HeldBack(c, e, id)
      BY <1>1, <2>7, <2>8, <2>10
    <2>12. id \in Missed' \ Missed => HeldBack(c, e, id)
      BY <2>1, <2>3, <2>11, <1>16
    <2>13. CASE req'[c] = req[c] /\ ~HeldBack(c, e, id)
      <3>1. Missed' \subseteq Missed
        BY <1>11, <2>12, <2>13
      <3>2. Reaching(req'[c], Missed')
        BY <2>4, <2>13, <3>1 DEF Reaching
      <3> QED BY <2>1, <3>2 DEF Reaching
    <2>14. CASE HeldBack(c, e, id)
      <3>1. PICK b : b = req[c].buffer
        OBVIOUS
      <3>2. PICK d : d = req'[c].buffer
        OBVIOUS
      <3>3. PICK x : x = [e |-> e, id |-> id]
        OBVIOUS
      <3>4. /\ req'[c].scan = req[c].scan /\ req'[c].pc = req[c].pc /\ req'[c].paused
            /\ b \in Seq(Item) /\ DOMAIN d = 1 .. Len(b) + 1 /\ d[Len(b) + 1] = x
            /\ \A i \in 1 .. Len(b) : d[i] = b[i]
        BY <2>14, <3>1, <3>2, <3>3, HeldBackLemma
      <3>5. x.id = id /\ DOMAIN b = 1 .. Len(b) /\ Len(b) \in Nat
        BY <3>3, <3>4
      <3>6. Ids(b) \cup {id} \subseteq Ids(d)
        BY <3>4, <3>5 DEF Ids
      <3>7. req'[c].pc = "send" => Missed' \subseteq Ids(d) \cup Ids(req'[c].scan.found)
        BY <1>11, <2>4, <3>1, <3>4, <3>6 DEF Reaching
      <3> QED BY <2>1, <3>2, <3>4, <3>7 DEF Reaching
    <2> QED BY <2>11, <2>13, <2>14
  <1>17. ASSUME cur' # 0 PROVE Resuming(req[cur], Stored, event, excused)'
    <2>1. PICK c \in Requests : c = cur /\ cur' = c /\ Opened(c) /\ cur # 0
      BY <1>1, <1>17 DEF ShapeInv, TypeOK
    <2>2. Resuming(req[c], Stored, event, excused)
      BY <2>1 DEF StreamInv, GapInv
    <2>3. req'[c].scan = req[c].scan /\ req'[c].pc = req[c].pc /\ req'[c].paused = req[c].paused
      BY <1>5, <2>1
    <2>4. req[c].pc \in {"claim", "register"} \/ req[c].paused => last' = last
      <3>1. Registered(c) => req[c].pc \in {"page", "send", "open"}
        BY RegisteredLemma DEF Connected
      <3> QED BY <1>13, <2>1, <3>1
    <2>5. \A n \in Stored' : n <= req'[c].scan.from /\ event[n] \in excused => event'[n] \in excused'
      BY DEF LogGrows
    <2> QED BY <2>1, <2>2, <2>3, <2>4, <2>5 DEF Resuming
  <1> QED BY <1>9, <1>10, <1>14, <1>15, <1>16, <1>17 DEF StreamInv, GapInv

LEMMA NotMissed ==
    ASSUME ShapeInv, ShapeInv', StreamInv, NumberInv', LogGrows, published' = published,
           NEW P, NEW e \in Events, NEW id \in {0} \cup Numbers, HubPublish(P, e, id)
    PROVE  Missed' \subseteq Missed
  <1>1. got \subseteq got'
    BY PublishesLemma
  <1> QED BY <1>1, MissedLemma DEF StreamInv

LEMMA StreamUnstored ==
    ASSUME ShapeInv, ShapeInv', StreamInv, NEW P, NEW e \in Events, HubPublish(P, e, 0),
           UNCHANGED <<store, disp, published, excused>>
    PROVE  StreamInv'
  <1>1. NumberInv' /\ LogGrows /\ Stored' = Stored /\ DispatchGoesOn
    BY NumbersQuiet DEF StreamInv
  <1>2. UNCHANGED <<event, index, published>>
    BY DEF store
  <1>3. Missed' \subseteq Missed
    BY <1>1, <1>2, NotMissed
  <1>4. \A n \in Missed' \ Missed :
                /\ n = 0 /\ 0 < last' /\ last' < n /\ e \notin got'
                /\ Registered(cur) /\ Registered(cur)' => req'[cur] # req[cur]
    BY <1>3
  <1>5. PICK id \in {0} \cup Numbers : id = 0
    OBVIOUS
  <1> QED BY <1>1, <1>2, <1>4, <1>5, PublishKept

LEMMA StreamPrivateMessage ==
    ASSUME ShapeInv, ShapeInv', StreamInv, NEW e \in Private, PrivateMessage(e)
    PROVE  StreamInv'
  <1>1. e \in Events
    BY ConstantsAssumption DEF Events
  <1> QED BY <1>1, StreamUnstored DEF PrivateMessage, history

LEMMA StreamBypass ==
    ASSUME ShapeInv, ShapeInv', StreamInv, NEW p \in Processes, NEW e \in Public, Bypass(p, e)
    PROVE  StreamInv'
  <1>1. e \in Events
    BY DEF Public
  <1> QED BY <1>1, StreamUnstored DEF Bypass, history

LEMMA StreamPublish ==
    ASSUME ShapeInv, ShapeInv', StreamInv, NEW p \in Processes, Publish(p)
    PROVE  StreamInv'
  <1>1. disp[p] \in Dispatch /\ disp[p].e \in Events
    BY ShapePublish
  <1>2. PICK e \in Events : e = disp[p].e
    BY <1>1
  <1>3. PICK n \in {0} \cup Numbers : n = disp[p].n
    BY <1>1 DEF Dispatch
  <1>4. /\ NumberInv' /\ LogGrows /\ Stored' = Stored /\ DispatchGoesOn
        /\ n # 0 => n \in Stored /\ event[n] = e
    BY <1>2, <1>3, NumbersPublish DEF StreamInv
  <1>5. /\ disp[p].step = "publish" /\ HubPublish({p}, e, n)
        /\ disp' = [disp EXCEPT ![p] = Resting]
        /\ n = 0 => UNCHANGED <<published, excused>>
        /\ n # 0 =>
             /\ published' = published \cup {e}
             /\ \/ excused' = excused \cup {e}
                \/ e \in got'
                \/ /\ 0 < last' /\ last' < n
                   /\ Registered(cur) /\ Registered(cur)' => req'[cur] # req[cur]
        /\ UNCHANGED <<event, index>>
    BY <1>2, <1>3 DEF Publish, store
  <1>6. \A r \in Requests : Opened(r) /\ req[r].p \in {p} =>
            /\ disp'[req[r].p].step = "rest"
            /\ n # 0 => \A i \in DOMAIN req[r].buffer : req[r].buffer[i].id < n
    <2>1. disp'[p].step = "rest"
      BY <1>5 DEF ShapeInv, TypeOK, Resting
    <2> QED BY <1>3, <1>5, <2>1 DEF StreamInv, HoldsInv, BuffersBelow
  <1>7. ASSUME NEW m \in Missed' \ Missed
        PROVE  /\ m = n /\ 0 < last' /\ last' < m /\ e \notin got'
               /\ Registered(cur) /\ Registered(cur)' => req'[cur] # req[cur]
    <2>1. m \in Stored /\ event[m] \in published' /\ event[m] \notin got' \cup excused'
      BY <1>4, <1>5 DEF Missed
    <2>2. got \subseteq got' /\ excused \subseteq excused'
      BY <1>4, <1>5, PublishesLemma DEF LogGrows
    <2>3. event[m] \notin published
      BY <2>1, <2>2, <1>7 DEF Missed
    <2>4. n # 0 /\ event[m] = e
      BY <1>5, <2>1, <2>3
    <2>5. m = n
      BY <1>4, <2>1, <2>4, StoredLemma
    <2> QED BY <1>5, <2>1, <2>4, <2>5
  <1> QED BY <1>4, <1>5, <1>6, <1>7, PublishKept

-----------------------------------------------------------------------------
\* Requests that are opened and registered

LEMMA StreamConnect ==
    ASSUME ShapeInv, ShapeInv', StreamInv, NEW p \in Processes, Connect(p)
    PROVE  StreamInv'
  <1>1. PICK r : r = Asked + 1
    OBVIOUS
  <1>2. /\ r \in Requests /\ ~Opened(r) /\ cur = 0 /\ cur' = r
        /\ \A q \in Requests : q # r => req'[q] = req[q]
        /\ req'[r].pc = "claim" /\ req'[r].buffer = << >>
        /\ req'[r].scan.from = last /\ req'[r].scan.offset = 0
        /\ req'[r].scan.found = << >> /\ req'[r].scan.missing = {}
    BY <1>1, KeepConnect
  <1>3. UNCHANGED <<store, disp, hub, last, got, published, excused>>
    BY DEF Connect, history
  <1>4. NumberInv' /\ Stored' = Stored /\ DispatchGoesOn /\ UNCHANGED <<event, index>>
    BY <1>3, NumbersQuiet DEF StreamInv, store
  <1>5. \A q \in Requests : Opened(q)' /\ q # r => Opened(q) /\ req'[q] = req[q]
    BY <1>2 DEF Opened
  <1>6. BuffersBelow'
    <2>1. \A q \in Requests : Opened(q)' =>
                \/ Opened(q) /\ req'[q].p = req[q].p /\ req'[q].buffer \in {req[q].buffer, << >>}
                \/ req'[q].buffer = << >>
      BY <1>2, <1>5
    <2> QED BY <1>4, <2>1, BuffersKept DEF StreamInv, HoldsInv
  <1>7. HoldsInv'
    <2>1. \A q \in Requests : Opened(q)' => Holding(req'[q], Stored', event', excused')
      <3>1. Holding(req'[r], Stored, event, excused)
        BY <1>2, EmptyLemma DEF Holding, StreamInv, HoldsInv
      <3> QED BY <1>3, <1>4, <1>5, <3>1 DEF StreamInv, HoldsInv
    <2> QED BY <1>3, <1>4, <1>6, <2>1 DEF StreamInv, HoldsInv
  <1>8. ScanInv'
    <2>1. Scanning(req'[r], Stored, event, excused, index)
      BY <1>2 DEF Scanning
    <2> QED BY <1>3, <1>4, <1>5, <2>1 DEF StreamInv, ScanInv
  <1>9. Missed' = Missed
    BY <1>3, <1>4 DEF Missed
  <1>10. ~Registered(cur)'
    <2> SUFFICES ASSUME Registered(cur)' PROVE FALSE
      OBVIOUS
    <2>1. hub[req'[r].p][req'[r].s] = r
      BY <1>2, <1>3 DEF Registered, Holder
    <2>2. req'[r].p \in Processes /\ req'[r].s \in Sessions /\ r # 0
      BY <1>1, <1>2, KeepConnect, Bounds
    <2> QED BY <1>2, <2>1, <2>2, HubLemma
  <1>11. Resuming(req[cur], Stored, event, excused)'
    BY <1>2, <1>3 DEF Resuming
  <1> QED BY <1>3, <1>4, <1>7, <1>8, <1>9, <1>10, <1>11 DEF StreamInv, GapInv

LEMMA StreamRegister ==
    ASSUME ShapeInv, ShapeInv', StreamInv, NEW r \in Requests, Register(r)
    PROVE  StreamInv'
  <1>1. /\ Opened(r) /\ req[r].pc = "register" /\ req[r] \in FitRequest
        /\ req[r].p \in Processes /\ req[r].s \in Sessions
        /\ req'[r] = Handle(req[r]) /\ RequestsFollow
        /\ \A q \in Requests : q # r => req'[q] = req[q]
        /\ \A p \in Processes, s \in Sessions :
                p # req[r].p \/ s # req[r].s => hub'[p][s] = hub[p][s]
        /\ hub'[req[r].p][req[r].s] = r
    BY KeepRegister
  <1>2. UNCHANGED <<store, disp, cur, last, got, published, excused>>
    BY DEF Register, client, history
  <1>3. NumberInv' /\ Stored' = Stored /\ DispatchGoesOn /\ UNCHANGED <<event, index>>
    BY <1>2, NumbersQuiet DEF StreamInv, store
  <1>4. PICK x : x = req[r]
    OBVIOUS
  <1>5. PICK y : y = req'[r]
    OBVIOUS
  <1>6. /\ x \in FitRequest /\ x.pc = "register" /\ ~x.paused /\ x.buffer = << >> /\ x.scan.found = << >>
        /\ Holding(x, Stored, event, excused)
    BY <1>1, <1>4 DEF ShapeInv, Fresh, StreamInv, HoldsInv
  <1>7. /\ y.buffer = << >> /\ y.pc \in {"open", "page"}
        /\ x.scan.from = 0 => y.pc = "open" /\ y.scan = NoScan
        /\ x.scan.from # 0 => y.pc = "page" /\ y.paused /\ y.scan = x.scan
    BY <1>1, <1>4, <1>5, <1>6, HandleLemma
  <1>8. \A q \in Requests : Opened(q)' => Opened(q) /\ req'[q].p = req[q].p /\ req'[q].s = req[q].s
    BY <1>1 DEF RequestsFollow, Opened, Follows
  <1>9. BuffersBelow'
    <2>1. \A q \in Requests : Opened(q)' =>
                \/ Opened(q) /\ req'[q].p = req[q].p /\ req'[q].buffer \in {req[q].buffer, << >>}
                \/ req'[q].buffer = << >>
      BY <1>1, <1>5, <1>7, <1>8
    <2> QED BY <1>3, <2>1, BuffersKept DEF StreamInv, HoldsInv
  <1>10. HoldsInv'
    <2>1. Holding(y, Stored, event, excused)
      <3>1. CASE x.scan.from = 0
        BY <1>6, <1>7, <3>1, EmptyLemma DEF Holding, NoScan
      <3>2. CASE x.scan.from # 0
        BY <1>6, <1>7, <3>2, EmptyLemma DEF Holding
      <3> QED BY <3>1, <3>2
    <2>2. \A q \in Requests : Opened(q)' => Holding(req'[q], Stored', event', excused')
      BY <1>1, <1>2, <1>3, <1>5, <1>8, <2>1 DEF StreamInv, HoldsInv
    <2> QED BY <1>2, <1>3, <1>9, <2>2 DEF StreamInv, HoldsInv
  <1>11. ScanInv'
    <2>1. Scanning(y, Stored, event, excused, index)
      <3>1. CASE y.pc = "open"
        BY <3>1 DEF Scanning
      <3>2. CASE y.pc # "open"
        <4>1. y.pc = "page" /\ y.scan.found = << >> /\ y.scan.offset = 0
          BY <1>6, <1>7, <3>2 DEF Holding
        <4>2. Len(<< >>) < MaxReplay
          BY Bounds
        <4>3. \A S \in SUBSET Stored : Cardinality(S) \in Nat
          BY StoredLemma, FS_Subset, FS_CardinalityType
        <4>4. Later(y, index) \in SUBSET Stored
          BY DEF Later, StreamInv, NumberInv
        <4>5. \A n : Below(Later(y, index), n) \in SUBSET Stored
          BY <4>4 DEF Below
        <4>6. 0 <= Cardinality(Later(y, index))
          BY <4>3, <4>4
        <4>7. \A n : ~(Cardinality(Below(Later(y, index), n)) < 0)
          BY <4>3, <4>5
        <4> QED BY <4>1, <4>2, <4>6, <4>7, EmptyLemma DEF Scanning
      <3> QED BY <3>1, <3>2
    <2> QED BY <1>1, <1>2, <1>3, <1>5, <1>8, <2>1 DEF StreamInv, ScanInv
  <1>12. Missed' = Missed
    BY <1>2, <1>3 DEF Missed
  <1>13. ASSUME Registered(cur)' PROVE Reaching(req[cur], Missed)'
    <2>1. PICK c \in Requests : c = cur /\ cur' = c
      BY <1>2, <1>13 DEF Registered, ShapeInv, TypeOK
    <2>2. Opened(c)'
      BY <1>13, <2>1 DEF Registered, Opened
    <2>3. CASE c = r
      <3>1. Resuming(x, Stored, event, excused)
        BY <1>4, <2>1, <2>3, Bounds DEF StreamInv, GapInv
      <3>2. x.scan.from = 0 => Missed = {}
        BY <1>6, <3>1 DEF Resuming, StreamInv, GapInv
      <3>3. Reaching(y, Missed)
        BY <1>7, <3>2 DEF Reaching
      <3> QED BY <1>5, <1>12, <2>1, <2>3, <3>3 DEF Reaching
    <2>4. CASE c # r
      <3>1. req'[c] = req[c] /\ Opened(c) /\ req[c].p \in Processes /\ req[c].s \in Sessions
        BY <1>1, <1>8, <2>2, <2>4, RequestLemma DEF ShapeInv, FitRequest, Request
      <3>2. hub'[req[c].p][req[c].s] = c /\ c # 0
        BY <1>13, <2>1, <3>1 DEF Registered, Holder
      <3>3. hub[req[c].p][req[c].s] = c
        BY <1>1, <2>4, <3>1, <3>2
      <3>4. Registered(c)
        BY <3>1, <3>2, <3>3 DEF Registered, Holder, Opened
      <3> QED BY <1>12, <2>1, <3>1, <3>4 DEF StreamInv, GapInv, Reaching
    <2> QED BY <2>3, <2>4
  <1>14. ASSUME cur' # 0 PROVE Resuming(req[cur], Stored, event, excused)'
    <2>1. PICK c \in Requests : c = cur /\ cur' = c
      BY <1>2, <1>14 DEF ShapeInv, TypeOK
    <2>2. Resuming(req[c], Stored, event, excused)
      BY <1>2, <1>14, <2>1 DEF StreamInv, GapInv
    <2>3. CASE c = r
      BY <1>2, <1>4, <1>5, <1>6, <1>7, <2>1, <2>2, <2>3 DEF Resuming
    <2>4. CASE c # r
      BY <1>1, <1>2, <1>3, <2>1, <2>2, <2>4 DEF Resuming
    <2> QED BY <2>3, <2>4
  <1> QED BY <1>2, <1>3, <1>10, <1>11, <1>12, <1>13, <1>14 DEF StreamInv, GapInv

-----------------------------------------------------------------------------
\* One round of a scan

LEMMA PositionLemma ==
    ASSUME NEW S \in SUBSET Nat, IsFiniteSet(S), NEW k \in 1 .. Cardinality(S), NEW n \in S, n <= Sorted(S)[k]
    PROVE  \E j \in 1 .. k : Sorted(S)[j] = n
  <1> DEFINE j == Cardinality(Below(S, n)) + 1
  <1>1. j \in 1 .. Cardinality(S) /\ Sorted(S)[j] = n
    BY SortedLemma
  <1>2. Cardinality(S) \in Nat /\ Sorted(S)[k] \in S
    BY SortedLemma, FS_CardinalityType
  <1> HIDE DEF j
  <1>3. k < j => Sorted(S)[k] < n
    BY <1>1, SortedLemma
  <1>4. j <= k
    <2>1. PICK m \in Nat : m = Sorted(S)[k]
      BY <1>2
    <2>2. n \in Nat /\ j \in Nat /\ k \in Nat /\ ~(k < j)
      BY <1>1, <1>2, <1>3, <2>1
    <2> QED BY <2>2
  <1> QED BY <1>1, <1>2, <1>4

\* What is wanted and not excused is in the index and has its key.
LEMMA WantedLemma ==
    ASSUME ShapeInv, NumberInv, NEW r \in Requests, NEW n \in Wanted(req[r], Stored, event, excused)
    PROVE  /\ n \in Ahead(r) /\ n \in keys /\ n \in Nat /\ req[r].scan.topics # {}
           /\ Matches(event[n], req[r].scan.topics)
  <1>1. n \in Stored /\ n > req[r].scan.from /\ event[n] \notin excused /\ Matches(event[n], req[r].scan.topics)
    BY DEF Wanted, Owed, Later
  <1>2. n \in index \cap keys
    BY <1>1 DEF NumberInv
  <1> QED BY <1>1, <1>2, StoredLemma DEF Ahead, Matches

LEMMA RoundLemma ==
    ASSUME ShapeInv, NumberInv, NEW r \in Requests, Opened(r), req[r].pc = "page", ~req[r].scan.shifted,
           Scanning(req[r], Stored, event, excused, index)
    PROVE  LET W == Wanted(req[r], Stored, event, excused) IN
           /\ Gapless(Found(r), W)
           /\ Len(Found(r)) < MaxReplay =>
                \A n \in W : Cardinality(Below(Ahead(r), n)) < req[r].scan.offset + Cardinality(Members(r))
                             => n \in Ids(Found(r))
  <1> DEFINE W == Wanted(req[r], Stored, event, excused)
             A == Ahead(r)
             old == req[r].scan.found
             new == Found(r)
             G == Good(r)
             o == req[r].scan.offset
             rank(n) == Cardinality(Below(A, n))
  <1>0. TypeOK /\ req[r] \in FitRequest
    BY RequestLemma DEF ShapeInv
  <1>1. /\ \A n \in W : rank(n) < o => n \in Ids(old)
        /\ Gapless(old, W)
    <2>1. Later(req[r], index) = A
      BY DEF Later, Ahead
    <2> QED BY <2>1 DEF Scanning
  <1>2. /\ new \in Seq(Item) /\ old \in Seq(Item) /\ G \in SUBSET Nat /\ IsFiniteSet(G) /\ Cardinality(G) \in Nat
        /\ Len(old) <= Len(new) /\ Len(new) <= Len(old) + Cardinality(G)
        /\ Len(new) < MaxReplay => Len(new) = Len(old) + Cardinality(G)
        /\ \A i \in 1 .. Len(old) : new[i] = old[i]
    <2>1. old \in Seq(Item)
      BY <1>0 DEF FitRequest, Request, Scan
    <2> QED BY <1>0, <2>1, FoundLemma
  <1>3. \A i \in Len(old) + 1 .. Len(new) : new[i].id = Sorted(G)[i - Len(old)]
    BY <1>0, FoundLemma
  <1>4. /\ Cardinality(Members(r)) \in 0 .. Batch /\ o \in Nat /\ Batch \in Nat /\ MaxReplay \in Nat
        /\ A \in SUBSET Nat /\ IsFiniteSet(A)
        /\ Members(r) = {n \in A : req[r].scan.topics # {} /\ rank(n) \in o .. o + Batch - 1}
    BY <1>0, OffsetLemma, AheadLemma, Bounds
  <1>5. \A n \in A : rank(n) \in Nat
    <2>1. \A n \in A : Below(A, n) \in SUBSET A
      BY DEF Below
    <2> QED BY <1>4, <2>1, FS_Subset, FS_CardinalityType
  <1>6. ASSUME NEW n \in W, rank(n) < o + Batch
        PROVE  n \in Ids(old) \/ n \in G
    <2>1. n \in A /\ n \in keys /\ req[r].scan.topics # {} /\ Matches(event[n], req[r].scan.topics)
      BY WantedLemma
    <2>2. CASE rank(n) < o
      BY <1>1, <2>2
    <2>3. CASE ~(rank(n) < o)
      <3>1. rank(n) \in o .. o + Batch - 1
        BY <1>4, <1>5, <1>6, <2>1, <2>3
      <3>2. n \in Members(r)
        BY <1>4, <2>1, <3>1
      <3> QED BY <2>1, <3>2 DEF Good
    <2> QED BY <2>2, <2>3
  <1>7. Ids(old) \subseteq Ids(new)
    <2>1. DOMAIN old = 1 .. Len(old) /\ DOMAIN new = 1 .. Len(new) /\ Len(old) \in Nat /\ Len(new) \in Nat
      BY <1>2
    <2>2. \A i \in DOMAIN old : i \in DOMAIN new /\ new[i] = old[i]
      BY <1>2, <2>1
    <2> QED BY <2>2 DEF Ids
  <1>8. Gapless(new, W)
    <2> SUFFICES ASSUME NEW k \in 1 .. Len(new), NEW n \in W, n <= new[k].id
                 PROVE  \E i \in 1 .. k : new[i].id = n
      BY <1>2 DEF Gapless
    <2>1. Len(old) \in Nat /\ Len(new) \in Nat
      BY <1>2
    <2>2. CASE k <= Len(old)
      <3>1. k \in DOMAIN old /\ new[k] = old[k] /\ \A i \in 1 .. k : new[i] = old[i]
        BY <1>2, <2>1, <2>2
      <3> QED BY <1>1, <3>1 DEF Gapless
    <2>3. CASE k > Len(old)
      <3>1. PICK c : c = k - Len(old)
        OBVIOUS
      <3>2. c \in 1 .. Cardinality(G) /\ new[k].id = Sorted(G)[c]
        BY <1>2, <1>3, <2>1, <2>3, <3>1
      <3>3. PICK g \in G : g = Sorted(G)[c]
        BY <1>2, <3>2, SortedLemma
      <3>4. g \in A /\ rank(g) < o + Batch /\ n \in A /\ n \in Nat /\ n <= g
        <4>1. g \in Members(r)
          BY <3>3 DEF Good
        <4>2. g \in A /\ rank(g) \in o .. o + Batch - 1
          BY <1>4, <4>1
        <4>3. rank(g) < o + Batch
          BY <1>4, <1>5, <4>2
        <4> QED BY <3>2, <3>3, <4>2, <4>3, WantedLemma
      <3>5. rank(n) < o + Batch
        <4>1. n < g => rank(n) < rank(g)
          BY <1>4, <3>4, RankLemma
        <4>2. n = g \/ n < g
          BY <1>4, <3>4
        <4> QED BY <1>4, <1>5, <3>4, <4>1, <4>2
      <3>6. CASE n \in Ids(old)
        <4>1. PICK i \in DOMAIN old : old[i].id = n
          BY <3>6 DEF Ids
        <4>2. i \in 1 .. Len(old) /\ i \in 1 .. k
          BY <1>2, <2>1, <2>3, <4>1
        <4> QED BY <1>2, <4>1, <4>2
      <3>7. CASE n \in G
        <4>1. PICK j \in 1 .. c : Sorted(G)[j] = n
          BY <1>2, <3>2, <3>3, <3>4, <3>7, PositionLemma
        <4>2. PICK i : i = j + Len(old)
          OBVIOUS
        <4>3. i \in Len(old) + 1 .. Len(new) /\ i \in 1 .. k /\ i - Len(old) = j
          <5>1. j \in Nat /\ j >= 1 /\ j <= c /\ k \in Nat /\ k <= Len(new)
            BY <2>1, <3>2, <4>1
          <5>2. PICK L \in Nat : L = Len(old)
            BY <2>1
          <5>3. k - L = c /\ i = j + L
            BY <3>1, <4>2, <5>2
          <5>4. i >= L + 1 /\ i <= k /\ i - L = j /\ i \in Nat
            BY <5>1, <5>3
          <5>5. i \in 1 .. k /\ i <= Len(new)
            BY <2>1, <5>1, <5>4
          <5> QED BY <2>1, <5>2, <5>4, <5>5
        <4> QED BY <1>3, <4>1, <4>3
      <3> QED BY <1>6, <3>5, <3>6, <3>7
    <2> QED BY <2>1, <2>2, <2>3
  <1>9. ASSUME Len(new) < MaxReplay, NEW n \in W, rank(n) < o + Cardinality(Members(r))
        PROVE  n \in Ids(new)
    <2>1. rank(n) < o + Batch
      <3>1. n \in A
        BY WantedLemma
      <3> QED BY <1>4, <1>5, <1>9, <3>1
    <2>2. CASE n \in Ids(old)
      BY <1>7, <2>2
    <2>3. CASE n \in G
      <3>1. PICK j : j = Cardinality(Below(G, n)) + 1
        OBVIOUS
      <3>2. j \in 1 .. Cardinality(G) /\ Sorted(G)[j] = n
        BY <1>2, <2>3, <3>1, SortedLemma
      <3>3. PICK i : i = Len(old) + j
        OBVIOUS
      <3>4. i \in Len(old) + 1 .. Len(new) /\ i - Len(old) = j /\ i \in DOMAIN new
        BY <1>2, <1>9, <3>2, <3>3
      <3> QED BY <1>3, <3>2, <3>4 DEF Ids
    <2> QED BY <1>6, <2>1, <2>2, <2>3
  <1> HIDE DEF W, A, new, o
  <1> QED BY <1>8, <1>9 DEF W, A, new, o

\* What a round finds is stored and has its event.
LEMMA FoundSound ==
    ASSUME ShapeInv, NumberInv, NEW r \in Requests, Opened(r),
           Sound(req[r].scan.found, Stored, event), 0 \notin Ids(req[r].scan.found)
    PROVE  Sound(Found(r), Stored, event) /\ 0 \notin Ids(Found(r))
  <1>1. PICK old : old = req[r].scan.found
    OBVIOUS
  <1>2. PICK new : new = Found(r)
    OBVIOUS
  <1>3. old \in Seq(Item) /\ new \in Seq(Item) /\ \A i \in 1 .. Len(old) : new[i] = old[i]
    <2>1. old \in Seq(Item)
      BY <1>1, RequestLemma DEF ShapeInv, FitRequest, Request, Scan
    <2> QED BY <1>1, <1>2, <2>1, FoundLemma DEF ShapeInv
  <1>4. /\ Len(old) \in Nat /\ Len(new) \in Nat
        /\ DOMAIN old = 1 .. Len(old) /\ DOMAIN new = 1 .. Len(new)
    BY <1>3
  <1>5. ASSUME NEW i \in DOMAIN new
        PROVE  new[i].id # 0 /\ new[i].id \in Stored /\ new[i].e = event[new[i].id]
    <2>1. CASE i \in 1 .. Len(old)
      <3>1. new[i] = old[i] /\ i \in DOMAIN old
        BY <1>3, <1>4, <2>1
      <3> QED BY <1>1, <3>1 DEF Sound, Ids
    <2>2. CASE i \notin 1 .. Len(old)
      <3>1. i \in Len(old) + 1 .. Len(new)
        BY <1>4, <1>5, <2>2
      <3>2. new[i].id \in Good(r) /\ new[i].e = event[new[i].id]
        BY <1>1, <1>2, <3>1, FoundLemma DEF ShapeInv
      <3>3. new[i].id \in keys
        BY <3>2 DEF Good
      <3>4. keys \subseteq Stored /\ Stored \subseteq Numbers
        BY StoredLemma
      <3> QED BY <3>2, <3>3, <3>4, Bounds
    <2> QED BY <2>1, <2>2
  <1> QED BY <1>2, <1>5 DEF Sound, Ids

\* What the scan of r excuses when it ends.
Skips(r) ==
    {n \in Ahead(r) :
        \/ req[r].scan.shifted \/ ~Matches(event[n], req[r].scan.topics)
        \/ Len(Found(r)) >= MaxReplay /\ n \notin Ids(Found(r))}

LEMMA SkipsLemma ==
    ASSUME NEW r \in Requests, Page(r)
    PROVE  /\ excused' = IF Members(r) = {} \/ Len(Found(r)) >= MaxReplay
                         THEN excused \cup {event[n] : n \in Skips(r)} ELSE excused
           /\ UNCHANGED <<store, disp, hub, client, published>>
  BY Zenon DEF Page, Skips, Ids

\* A scan that has ended has found all it owes.
LEMMA OwedLemma ==
    ASSUME ShapeInv, StreamInv, NEW r \in Requests, Page(r), Members(r) = {} \/ Len(Found(r)) >= MaxReplay
    PROVE  LET O == Owed(req[r], Stored, event, excused') IN
           /\ Gapless(Found(r), O) /\ O \subseteq Ids(Found(r))
  <1> DEFINE O == Owed(req[r], Stored, event, excused')
             W == Wanted(req[r], Stored, event, excused)
             full == Len(Found(r)) >= MaxReplay
  <1>1. req[r].pc = "page" /\ Opened(r)
    BY KeepPage
  <1>2. excused' = excused \cup {event[n] : n \in Skips(r)}
    BY SkipsLemma
  <1>3. ASSUME NEW n \in O
        PROVE  n \in W /\ n \in Ahead(r) /\ ~req[r].scan.shifted /\ (full => n \in Ids(Found(r)))
    <2>1. n \in Stored /\ n > req[r].scan.from /\ event[n] \notin excused /\ n \notin Skips(r)
      BY <1>2 DEF Owed, Later
    <2>2. n \in index
      BY <2>1 DEF StreamInv, NumberInv
    <2>3. n \in Ahead(r)
      BY <2>1, <2>2 DEF Ahead
    <2>4. Matches(event[n], req[r].scan.topics) /\ ~req[r].scan.shifted /\ (full => n \in Ids(Found(r)))
      BY <2>1, <2>3 DEF Skips
    <2> QED BY <2>1, <2>3, <2>4 DEF Wanted, Owed, Later
  <1>4. CASE req[r].scan.shifted
    <2>1. O = {}
      BY <1>3, <1>4
    <2> HIDE DEF O
    <2> QED BY <2>1 DEF O, Gapless
  <1>5. CASE ~req[r].scan.shifted
    <2>1. /\ Gapless(Found(r), W)
          /\ Len(Found(r)) < MaxReplay =>
               \A n \in W : Cardinality(Below(Ahead(r), n)) < req[r].scan.offset + Cardinality(Members(r))
                            => n \in Ids(Found(r))
      BY <1>1, <1>5, RoundLemma DEF StreamInv, ScanInv
    <2>2. Gapless(Found(r), O)
      BY <1>3, <2>1 DEF Gapless
    <2>3. ASSUME NEW n \in O, ~full PROVE n \in Ids(Found(r))
      <3>1. Members(r) = {} /\ n \in W /\ n \in Ahead(r) /\ req[r].scan.topics # {}
        BY <1>3, <2>3, WantedLemma DEF StreamInv
      <3>2. /\ Cardinality(Below(Ahead(r), n)) < req[r].scan.offset /\ req[r].scan.offset \in Nat
        BY <1>1, <3>1, OffsetLemma DEF ShapeInv
      <3>3. Cardinality(Members(r)) = 0
        BY <3>1, FS_EmptySet
      <3>4. Len(Found(r)) < MaxReplay
        <4>1. Found(r) \in Seq(Item)
          BY <1>1, FoundLemma DEF ShapeInv
        <4>2. Len(Found(r)) \in Nat
          BY <4>1
        <4> QED BY <2>3, <4>2, Bounds
      <3> QED BY <2>1, <3>1, <3>2, <3>3, <3>4
    <2> QED BY <1>3, <2>2, <2>3
  <1> QED BY <1>4, <1>5

LEMMA StreamPage ==
    ASSUME ShapeInv, ShapeInv', StreamInv, NEW r \in Requests, Page(r)
    PROVE  StreamInv'
  <1> DEFINE ends == Members(r) = {} \/ Len(Found(r)) >= MaxReplay
  <1>1. PICK x : x = req[r]
    OBVIOUS
  <1>2. PICK y : y = req'[r]
    OBVIOUS
  <1>3. /\ KeepsShape /\ Opened(r) /\ x.pc = "page" /\ x \in FitRequest
        /\ \A q \in Requests : q # r => req'[q] = req[q]
        /\ y.pc = IF ends THEN "send" ELSE "page"
        /\ y.scan.from = x.scan.from /\ y.scan.topics = x.scan.topics /\ y.scan.shifted = x.scan.shifted
        /\ y.scan.offset = x.scan.offset + Cardinality(Members(r))
        /\ y.scan.found = Found(r)
        /\ y.buffer = x.buffer /\ y.paused = x.paused
    BY <1>1, <1>2, KeepPage, RequestLemma DEF KeepsRequests, ShapeInv
  <1>4. PICK seen \in SUBSET Members(r) : y.scan.missing = x.scan.missing \cup (seen \ keys)
    BY <1>1, <1>2, KeepPage
  <1>5. /\ excused' = IF ends THEN excused \cup {event[n] : n \in Skips(r)} ELSE excused
        /\ UNCHANGED <<seqno, event, index, keys, disp, hub, cur, last, got, published>>
    BY SkipsLemma DEF store, client
  <1> HIDE DEF ends
  <1>6. Members(r) \subseteq index /\ Skips(r) \subseteq Stored /\ index \subseteq Stored
    <2>1. index \subseteq Stored /\ Ahead(r) \subseteq index
      BY DEF StreamInv, NumberInv, Ahead
    <2> QED BY <2>1 DEF Members, Skips
  <1>7. excused \subseteq excused' /\ excused' \subseteq excused \cup {event[n] : n \in Stored}
    BY <1>5, <1>6
  <1>8. DispatchGoesOn
    BY <1>5 DEF DispatchGoesOn
  <1>9. NumberInv' /\ LogGrows /\ Stored' = Stored
    BY <1>5, <1>7, <1>8, NumbersExcused DEF StreamInv
  <1>10. Holding(x, Stored, event, excused) /\ Scanning(x, Stored, event, excused, index)
    BY <1>1, <1>3 DEF StreamInv, HoldsInv, ScanInv
  <1>11. Holding(y, Stored, event, excused')
    <2>1. Sound(Found(r), Stored, event) /\ 0 \notin Ids(Found(r))
      BY <1>1, <1>3, <1>10, FoundSound DEF StreamInv, Holding
    <2>2. \A n \in y.scan.missing : n \in Stored /\ event[n] \in excused'
      <3>1. \A n \in x.scan.missing : n \in Stored /\ event[n] \in excused
        BY <1>10 DEF Holding
      <3>2. \A n \in seen \ keys : n \in Stored /\ event[n] \in excused
        BY <1>4, <1>6 DEF StreamInv, NumberInv
      <3> QED BY <1>4, <1>7, <3>1, <3>2
    <2>3. y.pc \in {"page", "send"}
      BY <1>3
    <2> QED BY <1>3, <1>10, <2>1, <2>2, <2>3 DEF Holding
  <1>12. Scanning(y, Stored, event, excused', index)
    <2>1. CASE ends
      <3>1. Gapless(Found(r), Owed(x, Stored, event, excused'))
        BY <1>1, <2>1, OwedLemma DEF ends
      <3>2. Owed(x, Stored, event, excused') = Owed(y, Stored, event, excused')
        BY <1>3 DEF Owed, Later
      <3> QED BY <1>3, <2>1, <3>1, <3>2 DEF Scanning
    <2>2. CASE ~ends
      <3>1. Members(r) # {} /\ ~(Len(Found(r)) >= MaxReplay) /\ excused' = excused /\ y.pc = "page"
        BY <1>3, <1>5, <2>2 DEF ends
      <3>2. Len(Found(r)) < MaxReplay
        <4>1. Found(r) \in Seq(Item)
          BY <1>3, FoundLemma DEF ShapeInv
        <4>2. Len(Found(r)) \in Nat
          BY <4>1
        <4> QED BY <3>1, <4>2, Bounds
      <3>3. CASE x.scan.shifted
        BY <1>3, <3>1, <3>2, <3>3 DEF Scanning
      <3>4. CASE ~x.scan.shifted
        <4>1. Later(y, index) = Ahead(r) /\ Wanted(y, Stored, event, excused) = Wanted(x, Stored, event, excused)
          BY <1>1, <1>3 DEF Later, Ahead, Wanted, Owed
        <4>2. y.scan.offset <= Cardinality(Later(y, index))
          BY <1>1, <1>3, <3>1, <4>1, OffsetLemma DEF ShapeInv
        <4>3. /\ Gapless(Found(r), Wanted(x, Stored, event, excused))
              /\ \A n \in Wanted(x, Stored, event, excused) :
                    Cardinality(Below(Ahead(r), n)) < y.scan.offset => n \in Ids(Found(r))
          BY <1>1, <1>3, <1>10, <3>2, <3>4, RoundLemma DEF StreamInv
        <4> QED BY <1>3, <3>1, <3>2, <4>1, <4>2, <4>3 DEF Scanning
      <3> QED BY <3>3, <3>4
    <2> QED BY <2>1, <2>2
  <1>13. \A q \in Requests : Opened(q)' => Opened(q) /\ req'[q].p = req[q].p /\ req'[q].buffer = req[q].buffer
    BY <1>1, <1>2, <1>3 DEF KeepsShape, RequestsFollow, Opened, Follows
  <1>14. ASSUME NEW q \in Requests, Opened(q), q # r
         PROVE  /\ Holding(req'[q], Stored', event', excused')
                /\ Scanning(req'[q], Stored', event', excused', index')
    <2>1. req'[q] = req[q]
      BY <1>3, <1>14
    <2>2. Scans(req[q], req'[q]) /\ Undisturbed(req[q], req'[q], index \cup (Stored' \ Stored), index')
      BY <1>5, <1>9, <2>1 DEF Scans, Undisturbed
    <2>3. Sound(req'[q].buffer, Stored', event') /\ Ascends(req'[q].buffer)
      BY <1>5, <1>9, <1>14, <2>1 DEF StreamInv, HoldsInv, Holding
    <2> QED BY <1>9, <1>14, <2>2, <2>3, RequestKept
  <1>15. HoldsInv'
    <2>1. BuffersBelow'
      BY <1>8, <1>13, BuffersKept DEF StreamInv, HoldsInv
    <2>2. \A q \in Requests : Opened(q)' => Holding(req'[q], Stored', event', excused')
      BY <1>2, <1>5, <1>9, <1>11, <1>13, <1>14
    <2> QED BY <1>5, <1>9, <2>1, <2>2 DEF StreamInv, HoldsInv
  <1>16. ScanInv'
    <2>1. \A q \in Requests : Opened(q)' => Scanning(req'[q], Stored', event', excused', index')
      BY <1>2, <1>5, <1>9, <1>12, <1>13, <1>14
    <2> QED BY <2>1 DEF ScanInv
  <1>17. Missed' \subseteq Missed
    BY <1>5, <1>9, MissedLemma DEF StreamInv
  <1>18. ASSUME cur' # 0
         PROVE  /\ Registered(cur)' => Reaching(req'[cur], Missed')
                /\ Resuming(req[cur], Stored, event, excused)'
    <2>1. PICK c \in Requests : c = cur /\ cur' = c /\ c # 0 /\ Opened(c)
      BY <1>5, <1>18 DEF ShapeInv, TypeOK
    <2>2. Resuming(req[c], Stored, event, excused)
      BY <2>1 DEF StreamInv, GapInv
    <2>3. Registered(cur)' => Registered(c)
      <3>1. Registered(cur)' => Registered(c)'
        BY <2>1 DEF Registered, Holder
      <3> QED BY <1>3, <2>1, <3>1, HubsShrunk
    <2>4. Registered(c) => Reaching(req[c], Missed)
      BY <2>1 DEF StreamInv, GapInv
    <2>5. CASE c # r
      <3>1. req'[c] = req[c]
        BY <1>3, <2>5
      <3> QED BY <1>5, <1>7, <1>9, <1>17, <2>1, <2>2, <2>3, <2>4, <3>1 DEF Reaching, Resuming
    <2>6. CASE c = r
      <3>1. y.pc \in {"page", "send"} /\ y.pc \notin {"claim", "register"}
        BY <1>3
      <3>2. Resuming(req[cur], Stored, event, excused)'
        BY <1>1, <1>2, <1>3, <1>5, <1>7, <1>9, <2>1, <2>2, <2>6, <3>1 DEF Resuming
      <3>3. ASSUME Registered(c) PROVE Reaching(y, Missed')
        <4>1. ~y.paused => Missed' = {}
          BY <1>1, <1>3, <1>17, <2>4, <2>6, <3>3 DEF Reaching
        <4>2. ASSUME y.pc = "send", y.paused PROVE Missed' \subseteq Ids(y.scan.found)
          <5>1. ends /\ last = x.scan.from
            BY <1>1, <1>3, <2>2, <2>6, <4>2 DEF Resuming
          <5>2. Owed(x, Stored, event, excused') \subseteq Ids(Found(r))
            BY <1>1, <5>1, OwedLemma DEF ends
          <5>3. ASSUME NEW n \in Missed' PROVE n \in Owed(x, Stored, event, excused')
            <6>1. n \in Stored /\ event[n] \notin excused'
              BY <1>5, <1>9 DEF Missed
            <6>2. n > last
              BY <1>17 DEF StreamInv, GapInv
            <6> QED BY <5>1, <6>1, <6>2 DEF Owed, Later
          <5> QED BY <1>3, <5>2, <5>3
        <4> QED BY <4>1, <4>2 DEF Reaching
      <3> QED BY <1>2, <2>1, <2>3, <2>6, <3>2, <3>3
    <2> QED BY <2>5, <2>6
  <1>19. Registered(cur)' => cur' # 0
    BY DEF Registered
  <1>20. Registered(cur)' => Reaching(req[cur], Missed)'
    BY <1>5, <1>18, <1>19 DEF Reaching
  <1>21. /\ \A n \in Missed' : n > last'
         /\ last' = 0 => Missed' = {}
    BY <1>5, <1>17 DEF StreamInv, GapInv
  <1> QED BY <1>9, <1>15, <1>16, <1>18, <1>20, <1>21 DEF StreamInv, GapInv

-----------------------------------------------------------------------------
\* The end of a replay

LEMMA JoinLemma ==
    ASSUME NEW f \in Seq(Item), NEW c \in Seq(Item)
    PROVE  /\ f \o c \in Seq(Item) /\ Len(f \o c) = Len(f) + Len(c) /\ Len(f) \in Nat /\ Len(c) \in Nat
           /\ DOMAIN f = 1 .. Len(f) /\ DOMAIN c = 1 .. Len(c) /\ DOMAIN (f \o c) = 1 .. Len(f) + Len(c)
           /\ \A i \in 1 .. Len(f) : (f \o c)[i] = f[i]
           /\ \A j \in 1 .. Len(c) : (f \o c)[Len(f) + j] = c[j]
  OBVIOUS

\* A replay f and the live events c held back meanwhile: what was stored as the
\* numbers S under ev, with nothing of W passed over in f, and with the numbers M
\* of W in one of them, if anything is held back.
Replay(f, c, S, ev, M, W) ==
    /\ f \in Seq(Item) /\ c \in Seq(Item) /\ S \in SUBSET Nat
    /\ Sound(f, S, ev) /\ Sound(c, S, ev) /\ Ascends(c) /\ Gapless(f, W)
    /\ M \in SUBSET W /\ M \subseteq S /\ 0 \notin M
    /\ c # << >> => M \subseteq Ids(f) \cup Ids(c)

\* A client that reads the events b in order passes over none of the numbers M.
ReadsInOrder(b, ev, M) ==
    \A k \in 1 .. Len(b), n \in M :
        n <= b[k].id => \E i \in 1 .. k : b[i].id = n /\ b[i].e = ev[n]

LEMMA BatchLemma ==
    ASSUME NEW f, NEW c, NEW S, NEW ev, NEW M, NEW O, Replay(f, c, S, ev, M, O)
    PROVE  ReadsInOrder(f \o c, ev, M)
  <1> SUFFICES ASSUME f \in Seq(Item), c \in Seq(Item), S \in SUBSET Nat,
                      Sound(f, S, ev), Sound(c, S, ev), Ascends(c), Gapless(f, O),
                      M \in SUBSET O, M \subseteq S, 0 \notin M,
                      c # << >> => M \subseteq Ids(f) \cup Ids(c),
                      NEW b, b = f \o c, NEW k \in 1 .. Len(b), NEW n \in M, n <= b[k].id
               PROVE  \E i \in 1 .. k : b[i].id = n /\ b[i].e = ev[n]
    BY DEF Replay, ReadsInOrder
  <1>1. /\ b \in Seq(Item) /\ Len(b) = Len(f) + Len(c) /\ Len(f) \in Nat /\ Len(c) \in Nat
        /\ DOMAIN f = 1 .. Len(f) /\ DOMAIN c = 1 .. Len(c)
        /\ \A i \in 1 .. Len(f) : b[i] = f[i]
        /\ \A j \in 1 .. Len(c) : b[Len(f) + j] = c[j]
    BY JoinLemma
  <1>2. k \in Nat /\ k >= 1 /\ n \in Nat /\ n # 0
    BY <1>1
  <1>3. ASSUME NEW i \in DOMAIN f, f[i].id = n, i <= k
        PROVE  \E j \in 1 .. k : b[j].id = n /\ b[j].e = ev[n]
    <2>1. f[i].e = ev[n] /\ b[i] = f[i] /\ i \in 1 .. k
      BY <1>1, <1>2, <1>3 DEF Sound
    <2> QED BY <1>3, <2>1
  <1>4. CASE k <= Len(f)
    <2>1. k \in DOMAIN f /\ b[k] = f[k]
      BY <1>1, <1>2, <1>4
    <2>2. PICK i \in 1 .. k : f[i].id = n
      BY <2>1 DEF Gapless
    <2>3. i \in DOMAIN f /\ i <= k
      BY <1>1, <1>2, <1>4, <2>2
    <2> QED BY <1>3, <2>2, <2>3
  <1>5. CASE k > Len(f)
    <2>1. PICK j : j = k - Len(f)
      OBVIOUS
    <2>2. j \in 1 .. Len(c) /\ k = Len(f) + j
      BY <1>1, <1>2, <1>5, <2>1
    <2>3. b[k] = c[j] /\ c # << >>
      BY <1>1, <2>2
    <2>4. CASE n \in Ids(f)
      <3>1. PICK i \in DOMAIN f : f[i].id = n
        BY <2>4 DEF Ids
      <3>2. i <= k
        BY <1>1, <1>2, <1>5
      <3> QED BY <1>3, <3>1, <3>2
    <2>5. CASE n \in Ids(c)
      <3>1. PICK i \in DOMAIN c : c[i].id = n
        BY <2>5 DEF Ids
      <3>2. c[i].e = ev[n] /\ b[Len(f) + i] = c[i]
        BY <1>1, <1>2, <3>1 DEF Sound
      <3>3. i <= j
        <4> SUFFICES ASSUME i > j PROVE FALSE
          BY <1>1, <2>2
        <4>1. c[j].id < n
          BY <1>1, <1>2, <2>2, <3>1 DEF Ascends
        <4>2. c[j].id \in Nat
          <5>1. c[j] \in Item /\ {0} \cup Numbers \subseteq Nat
            BY <1>1, <2>2, Bounds
          <5>2. c[j].id \in {0} \cup Numbers
            BY <5>1 DEF Item
          <5> QED BY <5>1, <5>2, Zenon
        <4> QED BY <1>2, <2>3, <4>1, <4>2
      <3>4. Len(f) + i \in 1 .. k
        BY <1>1, <1>2, <2>2, <3>3
      <3> QED BY <3>1, <3>2, <3>4
    <2> QED BY <2>3, <2>4, <2>5
  <1> QED BY <1>1, <1>2, <1>4, <1>5

\* One that reads them all has read each of them.
AllOf(b, ev, N) == \A n \in N : n # 0 => \E i \in 1 .. Len(b) : b[i].id = n /\ b[i].e = ev[n]

LEMMA WholeBatchLemma ==
    ASSUME NEW f, NEW c, NEW S, NEW ev, NEW M, NEW O, Replay(f, c, S, ev, M, O)
    PROVE  AllOf(f \o c, ev, Ids(f) \cup Ids(c))
  <1> SUFFICES ASSUME f \in Seq(Item), c \in Seq(Item), Sound(f, S, ev), Sound(c, S, ev),
                      NEW b, b = f \o c, NEW n \in Ids(f) \cup Ids(c), n # 0
               PROVE  \E i \in 1 .. Len(b) : b[i].id = n /\ b[i].e = ev[n]
    BY DEF Replay, AllOf
  <1>1. /\ b \in Seq(Item) /\ Len(b) = Len(f) + Len(c) /\ Len(f) \in Nat /\ Len(c) \in Nat
        /\ DOMAIN f = 1 .. Len(f) /\ DOMAIN c = 1 .. Len(c)
        /\ \A i \in 1 .. Len(f) : b[i] = f[i]
        /\ \A j \in 1 .. Len(c) : b[Len(f) + j] = c[j]
    BY JoinLemma
  <1>2. CASE n \in Ids(f)
    <2>1. PICK i \in DOMAIN f : f[i].id = n
      BY <1>2 DEF Ids
    <2>2. f[i].e = ev[n] /\ b[i] = f[i] /\ i \in 1 .. Len(b)
      BY <1>1, <2>1 DEF Sound
    <2> QED BY <2>1, <2>2
  <1>3. CASE n \in Ids(c)
    <2>1. PICK i \in DOMAIN c : c[i].id = n
      BY <1>3 DEF Ids
    <2>2. c[i].e = ev[n] /\ b[Len(f) + i] = c[i] /\ Len(f) + i \in 1 .. Len(b)
      BY <1>1, <2>1 DEF Sound
    <2> QED BY <2>1, <2>2
  <1> QED BY <1>2, <1>3

\* What the connection of r holds back, when it is still in its hub.
Held(r) == IF Holder(r) = r THEN req[r].buffer ELSE << >>

LEMMA SendLemma ==
    ASSUME ShapeInv, NEW r \in Requests, Send(r)
    PROVE  /\ index' = index \ req[r].scan.missing
           /\ cur = r \/ Holder(r) = 0 => Reads(r, req[r].scan.found \o Held(r))
           /\ ~(cur = r \/ Holder(r) = 0) => Reads(Holder(r), req[Holder(r)].buffer)
           /\ \E X, Y : /\ excused' = excused \cup X \cup Y
                        /\ X \subseteq {event[n] : n \in Stored} /\ Y \subseteq published
                        /\ Holder(r) \notin {0, r} /\ Holder(r) = cur => X = {event[n] : n \in Stored}
                        /\ last' = 0 => Y = published \ got'
           /\ UNCHANGED <<seqno, event, keys, disp, hub, published>>
  <1> DEFINE X == IF Holder(r) \notin {0, r} /\ Holder(r) = cur THEN {event[n] : n \in Stored} ELSE {}
             Y == IF last' = 0 THEN published \ got' ELSE {}
  <1>1. /\ excused' = excused \cup X \cup Y
        /\ index' = index \ req[r].scan.missing
        /\ UNCHANGED <<seqno, event, keys, disp, hub, published>>
    BY Zenon DEF Send
  <1>2. IF cur = r \/ Holder(r) = 0 THEN Reads(r, req[r].scan.found \o Held(r))
        ELSE Reads(Holder(r), req[Holder(r)].buffer)
    BY Zenon DEF Send, Held
  <1>3. /\ X \subseteq {event[n] : n \in Stored} /\ Y \subseteq published
        /\ Holder(r) \notin {0, r} /\ Holder(r) = cur => X = {event[n] : n \in Stored}
        /\ last' = 0 => Y = published \ got'
    OBVIOUS
  <1> HIDE DEF X, Y
  <1> QED BY <1>1, <1>2, <1>3

LEMMA SendNumbers ==
    ASSUME ShapeInv, StreamInv, NEW r \in Requests, Send(r)
    PROVE  NumberInv' /\ LogGrows /\ Stored' = Stored /\ DispatchGoesOn
  <1>1. PICK X, Y : /\ excused' = excused \cup X \cup Y
                    /\ X \subseteq {event[n] : n \in Stored} /\ Y \subseteq published
    BY SendLemma
  <1>2. index' = index \ req[r].scan.missing /\ UNCHANGED <<seqno, event, keys, disp, published>>
    BY SendLemma
  <1>3. published \subseteq {event[n] : n \in Stored}
    BY DEF StreamInv, NumberInv
  <1>4. excused \subseteq excused' /\ excused' \subseteq excused \cup {event[n] : n \in Stored}
    BY <1>1, <1>3
  <1>5. \A n \in index \ index' : event[n] \in excused'
    <2>1. Opened(r)
      BY KeepSend
    <2>2. \A n \in req[r].scan.missing : event[n] \in excused
      BY <2>1 DEF StreamInv, HoldsInv, Holding
    <2> QED BY <1>2, <1>4, <2>2
  <1>6. DispatchGoesOn
    BY <1>2 DEF DispatchGoesOn
  <1>7. index' \subseteq index /\ published' \subseteq published \cup {event[n] : n \in Stored}
    BY <1>2
  <1>8. NumberInv' /\ LogGrows /\ Stored' = Stored
    BY <1>2, <1>4, <1>5, <1>6, <1>7, NumbersExcused DEF StreamInv
  <1> QED BY <1>6, <1>8

\* The request itself is past its replay; others are at most moved, and the one in
\* the hub is let go.
LEMMA SendRequest ==
    ASSUME ShapeInv, StreamInv, NEW r \in Requests, Send(r), NEW q \in Requests, Opened(q)
    PROVE  /\ Scans(req[q], req'[q]) /\ req'[q].buffer \in {req[q].buffer, << >>}
           /\ Undisturbed(req[q], req'[q], index \cup (Stored' \ Stored), index')
           /\ q = r => req'[q].pc \in {"open", "closed"}
           /\ q # r => req'[q].pc = req[q].pc
           /\ q # r /\ q # Holder(r) => Stays(req[q], req'[q])
           /\ q = Holder(r) => ~req'[q].paused
  <1>1. PICK S : S = req[r].scan.missing
    OBVIOUS
  <1>2. PICK x : x = IF q = r THEN Replayed(req[q]) ELSE Shifted(S)[q]
    OBVIOUS
  <1>3. req'[q] = IF q = Holder(r) THEN Resumed(x) ELSE x
    BY <1>1, <1>2, KeepSend
  <1>4. req[q] \in FitRequest /\ (q = r => req[q].pc = "send")
    BY KeepSend, RequestLemma DEF ShapeInv
  <1>5. \A m \in index \cup (Stored' \ Stored) : m \in index' \/ m \in S
    BY <1>1, SendLemma, SendNumbers
  <1>6. /\ x \in FitRequest
        /\ q = r => x.pc \in {"open", "closed"} /\ x.scan = NoScan /\ x.buffer \in {req[q].buffer, << >>}
        /\ q # r => /\ Stays(req[q], x) /\ x.pc = req[q].pc /\ x.buffer = req[q].buffer
                    /\ Undisturbed(req[q], x, index \cup (Stored' \ Stored), index')
    <2>1. CASE q = r
      <3>1. x = Replayed(req[q])
        BY <1>2, <2>1
      <3> QED BY <1>4, <2>1, <3>1, ReplayedLemma DEF Follows
    <2>2. CASE q # r
      <3>1. x = Shifted(S)[q]
        BY <1>2, <2>2
      <3>2. x.pc = req[q].pc /\ x.buffer = req[q].buffer
        BY <3>1, ShiftedLemma DEF ShapeInv
      <3>3. Stays(req[q], x) /\ x \in FitRequest
        BY <3>1, ShiftedStays
      <3>4. Undisturbed(req[q], x, index \cup (Stored' \ Stored), index')
        BY <1>5, <3>1, ShiftedStays
      <3> QED BY <2>2, <3>2, <3>3, <3>4
    <2> QED BY <2>1, <2>2
  <1>7. /\ req'[q].pc = x.pc /\ req'[q].scan = x.scan /\ req'[q].buffer \in {x.buffer, << >>}
        /\ q = Holder(r) => ~req'[q].paused
        /\ q # Holder(r) => req'[q] = x
    BY <1>3, <1>6, ResumedLemma
  <1>8. CASE q = r
    BY <1>4, <1>6, <1>7, <1>8 DEF Scans, Undisturbed
  <1>9. CASE q # r
    BY <1>6, <1>7, <1>9 DEF Scans, Undisturbed, Stays
  <1> QED BY <1>8, <1>9

\* The client reads from one connection at most.
LEMMA SendReads ==
    ASSUME ShapeInv, StreamInv, NEW r \in Requests, Send(r)
    PROVE  /\ got \subseteq got' /\ cur' \in {0, cur} /\ last' \in {0} \cup Stored
           /\ cur # r /\ (cur = 0 \/ cur # Holder(r)) => UNCHANGED client
           /\ cur = r => LET b == req[r].scan.found \o Held(r) IN
                \/ UNCHANGED client /\ (b = << >> \/ req[r].ended)
                \/ \E k \in 1 .. Len(b) :
                    /\ got' = got \cup {b[i].e : i \in 1 .. k}
                    /\ last' = b[k].id
                    /\ cur' = IF k < Len(b) THEN 0 ELSE cur
  <1>0. /\ TypeOK /\ Opened(r) /\ req[r] \in FitRequest
        /\ Holder(r) # 0 => Holder(r) \in Requests /\ Opened(Holder(r))
    BY KeepSend, RequestLemma DEF ShapeInv, Connected
  <1>1. \A q \in Requests : Opened(q) => Sound(req[q].buffer, Stored, event) /\ req[q].buffer \in Seq(Item)
    BY RequestLemma DEF ShapeInv, StreamInv, HoldsInv, Holding, FitRequest, Request
  <1>2. Sound(req[r].scan.found, Stored, event) /\ req[r].scan.found \in Seq(Item)
    BY <1>0 DEF StreamInv, HoldsInv, Holding, FitRequest, Request, Scan
  <1>3. Sound(Held(r), Stored, event) /\ Held(r) \in Seq(Item)
    <2>1. << >> \in Seq(Item)
      OBVIOUS
    <2> QED BY <1>0, <1>1, <2>1, EmptyLemma DEF Held
  <1>4. PICK b : b = req[r].scan.found \o Held(r)
    OBVIOUS
  <1>5. b \in Seq(Item) /\ Sound(b, Stored, event)
    <2>1. PICK f \in Seq(Item) : f = req[r].scan.found
      BY <1>2
    <2>2. PICK c \in Seq(Item) : c = Held(r)
      BY <1>3
    <2>3. /\ b \in Seq(Item) /\ DOMAIN b = 1 .. Len(f) + Len(c) /\ Len(f) \in Nat /\ Len(c) \in Nat
          /\ DOMAIN f = 1 .. Len(f) /\ DOMAIN c = 1 .. Len(c)
          /\ \A i \in 1 .. Len(f) : b[i] = f[i]
          /\ \A j \in 1 .. Len(c) : b[Len(f) + j] = c[j]
      BY <1>4, <2>1, <2>2, JoinLemma
    <2>4. ASSUME NEW i \in DOMAIN b, b[i].id # 0 PROVE b[i].id \in Stored /\ b[i].e = event[b[i].id]
      <3>1. CASE i <= Len(f)
        <4>1. i \in DOMAIN f /\ b[i] = f[i]
          BY <2>3, <3>1
        <4> QED BY <1>2, <2>1, <2>4, <4>1 DEF Sound
      <3>2. CASE i > Len(f)
        <4>1. PICK j : j = i - Len(f)
          OBVIOUS
        <4>2. j \in DOMAIN c /\ i = Len(f) + j
          BY <2>3, <3>2, <4>1
        <4>3. b[i] = c[j]
          BY <2>3, <4>2
        <4> QED BY <1>3, <2>2, <2>4, <4>2, <4>3 DEF Sound
      <3> QED BY <2>3, <3>1, <3>2
    <2> QED BY <2>3, <2>4 DEF Sound
  <1>6. last \in {0} \cup Stored
    BY DEF StreamInv, HoldsInv
  <1>7. ASSUME NEW d \in Seq(Item), Sound(d, Stored, event), NEW q, Reads(q, d)
        PROVE  /\ got \subseteq got' /\ cur' \in {0, cur} /\ last' \in {0} \cup Stored
               /\ cur # q \/ q = 0 => UNCHANGED client
               /\ \/ UNCHANGED client /\ (~(cur = q /\ q # 0 /\ ~req[q].ended) \/ d = << >>)
                  \/ \E k \in 1 .. Len(d) :
                        /\ got' = got \cup {d[i].e : i \in 1 .. k}
                        /\ last' = d[k].id
                        /\ cur' = IF k < Len(d) THEN 0 ELSE cur
    <2>1. CASE UNCHANGED client /\ (~(cur = q /\ q # 0 /\ ~req[q].ended) \/ d = << >>)
      BY <1>6, <2>1 DEF client
    <2>2. CASE /\ cur = q /\ q # 0
               /\ \E k \in 1 .. Len(d) :
                    /\ got' = got \cup {d[i].e : i \in 1 .. k}
                    /\ last' = d[k].id
                    /\ cur' = IF k < Len(d) THEN 0 ELSE cur
      <3>1. PICK k \in 1 .. Len(d) :
                    /\ got' = got \cup {d[i].e : i \in 1 .. k}
                    /\ last' = d[k].id
                    /\ cur' = IF k < Len(d) THEN 0 ELSE cur
        BY <2>2
      <3>2. k \in DOMAIN d
        BY <1>7
      <3>3. last' \in {0} \cup Stored
        BY <1>7, <3>1, <3>2 DEF Sound
      <3>4. got \subseteq got' /\ cur' \in {0, cur}
        BY <3>1
      <3> QED BY <2>2, <3>3, <3>4
    <2> QED BY <1>0, <1>7, <2>1, <2>2, ReadsLemma
  <1>8. CASE cur = r \/ Holder(r) = 0
    <2>1. Reads(r, b)
      BY <1>4, <1>8, SendLemma
    <2> HIDE DEF client
    <2> QED BY <1>4, <1>5, <1>7, <1>8, <2>1, Bounds
  <1>9. CASE ~(cur = r \/ Holder(r) = 0)
    <2>1. PICK h : h = Holder(r)
      OBVIOUS
    <2>2. PICK d : d = req[h].buffer
      OBVIOUS
    <2>3. Reads(h, d)
      BY <1>9, <2>1, <2>2, SendLemma
    <2>4. d \in Seq(Item) /\ Sound(d, Stored, event)
      BY <1>0, <1>1, <1>9, <2>1, <2>2
    <2> QED BY <1>7, <1>9, <2>1, <2>3, <2>4
  <1> QED BY <1>8, <1>9

\* The client that reads a replay passes over nothing.
LEMMA SendGap ==
    ASSUME ShapeInv, StreamInv, NEW r \in Requests, Send(r), cur = r, Missed' \subseteq Missed
    PROVE  /\ \A n \in Missed' : n > last'
           /\ Holder(r) = r /\ cur' = r => Missed' = {}
  <1> DEFINE x == req[r]
             f == x.scan.found
             c == Held(r)
             b == f \o c
             O == Owed(x, Stored, event, excused)
  <1>1. /\ Opened(r) /\ x.pc = "send" /\ x \in FitRequest /\ r # 0
        /\ Holder(r) # 0 => Connected(x.p, x.s, Holder(r))
    BY KeepSend, Bounds
  <1>2. Holding(x, Stored, event, excused) /\ Scanning(x, Stored, event, excused, index)
    BY <1>1 DEF StreamInv, HoldsInv, ScanInv
  <1>3. f \in Seq(Item) /\ c \in Seq(Item)
    <2>1. f \in Seq(Item) /\ x.buffer \in Seq(Item)
      BY <1>1 DEF FitRequest, Request, Scan
    <2>2. << >> \in Seq(Item)
      OBVIOUS
    <2> QED BY <2>1, <2>2 DEF Held
  <1>4. Sound(f, Stored, event) /\ Sound(c, Stored, event) /\ Ascends(c) /\ Gapless(f, O)
    BY <1>1, <1>2, EmptyLemma DEF Holding, Scanning, Held
  <1>5. Stored \in SUBSET Nat /\ 0 \notin Stored /\ Missed \subseteq Stored
    BY StoredLemma, Bounds DEF Missed
  <1>6. Missed \in SUBSET O
    <2> SUFFICES ASSUME NEW n \in Missed PROVE n \in O
      OBVIOUS
    <2>1. n \in Stored /\ event[n] \notin excused /\ n > last
      BY DEF Missed, StreamInv, GapInv
    <2>2. Resuming(x, Stored, event, excused)
      BY <1>1 DEF StreamInv, GapInv
    <2>3. n > x.scan.from
      <3>1. CASE x.paused
        BY <1>1, <2>1, <2>2, <3>1 DEF Resuming
      <3>2. CASE ~x.paused
        <4>1. ~(n <= x.scan.from)
          BY <1>1, <2>1, <2>2, <3>2 DEF Resuming
        <4>2. x.scan.from \in {0} \cup Stored
          BY <1>2 DEF Holding
        <4>3. x.scan.from \in Nat /\ n \in Nat
          <5>1. {0} \cup Stored \subseteq Nat
            BY <1>5
          <5> QED BY <2>1, <4>2, <5>1, Zenon
        <4> QED BY <4>1, <4>3
      <3> QED BY <3>1, <3>2
    <2> QED BY <2>1, <2>3 DEF Owed, Later
  <1>7. c # << >> \/ Holder(r) = r => Missed \subseteq Ids(f) \cup Ids(c)
    <2> SUFFICES ASSUME Holder(r) = r PROVE Missed \subseteq Ids(f) \cup Ids(c)
      BY DEF Held
    <2>1. Registered(r) /\ c = x.buffer
      BY <1>1 DEF Registered, Opened, Held
    <2>2. Reaching(x, Missed)
      BY <2>1 DEF StreamInv, GapInv
    <2> QED BY <1>1, <2>1, <2>2 DEF Reaching
  <1>8. 0 \notin Missed
    BY <1>5
  <1>9. \/ UNCHANGED client /\ (b = << >> \/ x.ended)
        \/ \E k \in 1 .. Len(b) :
                /\ got' = got \cup {b[i].e : i \in 1 .. k}
                /\ last' = b[k].id
                /\ cur' = IF k < Len(b) THEN 0 ELSE cur
    BY SendReads
  <1>10. \A n \in Missed' : event[n] \notin got'
    BY SendLemma DEF Missed
  <1>11. CASE UNCHANGED client /\ (b = << >> \/ x.ended)
    <2>1. \A n \in Missed' : n > last'
      BY <1>11 DEF client, StreamInv, GapInv
    <2>2. ASSUME Holder(r) = r PROVE Missed' = {}
      <3>1. ~x.ended
        BY <1>1, <2>2 DEF Connected
      <3>2. b = << >> /\ Len(b) = 0
        BY <1>11, <3>1
      <3>3. Len(b) = Len(f) + Len(c) /\ Len(f) \in Nat /\ Len(c) \in Nat
            /\ DOMAIN f = 1 .. Len(f) /\ DOMAIN c = 1 .. Len(c)
        BY <1>3, JoinLemma
      <3>4. DOMAIN f = {} /\ DOMAIN c = {}
        <4>1. Len(f) = 0 /\ Len(c) = 0
          BY <3>2, <3>3
        <4> QED BY <3>3, <4>1
      <3>5. Ids(f) = {} /\ Ids(c) = {}
        BY <3>4 DEF Ids
      <3> QED BY <1>7, <2>2, <3>5
    <2> QED BY <2>1, <2>2
  <1>12. CASE \E k \in 1 .. Len(b) :
                /\ got' = got \cup {b[i].e : i \in 1 .. k}
                /\ last' = b[k].id
                /\ cur' = IF k < Len(b) THEN 0 ELSE cur
    <2>1. PICK k \in 1 .. Len(b) :
                /\ got' = got \cup {b[i].e : i \in 1 .. k}
                /\ last' = b[k].id
                /\ cur' = IF k < Len(b) THEN 0 ELSE cur
      BY <1>12
    <2>2. PICK d : d = b
      OBVIOUS
    <2>3. d \in Seq(Item) /\ d = f \o c /\ Len(d) \in Nat /\ DOMAIN d = 1 .. Len(d) /\ k \in 1 .. Len(d)
      <3>1. b \in Seq(Item)
        BY <1>3, JoinLemma
      <3> QED BY <2>1, <2>2, <3>1
    <2>4. last' \in Nat
      <3>1. {0} \cup Stored \subseteq Nat
        BY <1>5
      <3>2. last' \in {0} \cup Stored
        BY SendReads
      <3> QED BY <3>1, <3>2, Zenon
    <2>5. PICK S, ev, M, W : S = Stored /\ ev = event /\ M = Missed /\ W = O
      OBVIOUS
    <2>6. PICK g \in Seq(Item), h \in Seq(Item) : g = f /\ h = c
      BY <1>3
    <2>7. /\ Replay(g, h, S, ev, M, W) /\ d = g \o h /\ 0 \notin M
          /\ Holder(r) = r => M \subseteq Ids(g) \cup Ids(h)
      BY <1>4, <1>5, <1>6, <1>7, <1>8, <2>3, <2>5, <2>6 DEF Replay
    <2>8. ReadsInOrder(d, ev, M) /\ AllOf(d, ev, Ids(g) \cup Ids(h))
      <3> HIDE DEF x, f, c, b, O
      <3>1. ReadsInOrder(g \o h, ev, M)
        BY <2>7, BatchLemma
      <3>2. AllOf(g \o h, ev, Ids(g) \cup Ids(h))
        BY <2>7, WholeBatchLemma
      <3> QED BY <2>7, <3>1, <3>2
    <2>9. ASSUME NEW n \in Missed' PROVE n > last'
      <3>1. n \in M /\ n \in Nat
        BY <1>5, <2>5
      <3> SUFFICES ASSUME n <= d[k].id PROVE FALSE
        <4>1. last' = d[k].id
          BY <2>1, <2>2
        <4> QED BY <2>4, <3>1, <4>1
      <3>2. \E i \in 1 .. k : d[i].id = n /\ d[i].e = ev[n]
        BY <2>3, <2>8, <3>1 DEF ReadsInOrder
      <3> QED BY <1>10, <2>1, <2>2, <2>5, <3>2
    <2>10. ASSUME Holder(r) = r, cur' = r PROVE Missed' = {}
      <3> SUFFICES ASSUME NEW n \in Missed' PROVE FALSE
        OBVIOUS
      <3>1. k = Len(d)
        <4>1. ~(k < Len(d))
          BY <1>1, <2>1, <2>2, <2>10
        <4>2. k \in Nat /\ k <= Len(d) /\ Len(d) \in Nat
          BY <2>3
        <4> QED BY <4>1, <4>2
      <3>2. n \in Ids(g) \cup Ids(h) /\ n # 0
        BY <2>5, <2>7, <2>10
      <3>3. \E i \in 1 .. Len(d) : d[i].id = n /\ d[i].e = ev[n]
        BY <2>8, <3>2 DEF AllOf
      <3> QED BY <1>10, <2>1, <2>2, <2>5, <3>1, <3>3
    <2> QED BY <2>9, <2>10
  <1> QED BY <1>9, <1>11, <1>12

LEMMA StreamSend ==
    ASSUME ShapeInv, ShapeInv', StreamInv, NEW r \in Requests, Send(r)
    PROVE  StreamInv'
  <1>1. NumberInv' /\ LogGrows /\ Stored' = Stored /\ DispatchGoesOn
    BY SendNumbers
  <1>2. KeepsShape /\ Opened(r) /\ (Holder(r) # 0 => Connected(req[r].p, req[r].s, Holder(r)))
    BY KeepSend DEF KeepsRequests
  <1>3. UNCHANGED <<seqno, event, keys, disp, hub, published>>
    BY SendLemma
  <1>4. got \subseteq got' /\ cur' \in {0, cur} /\ last' \in {0} \cup Stored
    BY SendReads
  <1>5. \A q \in Requests : Opened(q)' => Opened(q) /\ req'[q].p = req[q].p /\ req'[q].s = req[q].s
    BY <1>2 DEF KeepsShape, RequestsFollow, Opened, Follows
  <1>6. ASSUME NEW q \in Requests, Opened(q)
        PROVE  /\ Holding(req'[q], Stored', event', excused')
               /\ Scanning(req'[q], Stored', event', excused', index')
               /\ req'[q].buffer \in {req[q].buffer, << >>}
    <2>1. /\ Scans(req[q], req'[q]) /\ req'[q].buffer \in {req[q].buffer, << >>}
          /\ Undisturbed(req[q], req'[q], index \cup (Stored' \ Stored), index')
      BY <1>6, SendRequest
    <2>2. Sound(req[q].buffer, Stored, event) /\ Ascends(req[q].buffer)
      BY <1>6 DEF StreamInv, HoldsInv, Holding
    <2>3. Sound(req'[q].buffer, Stored', event') /\ Ascends(req'[q].buffer)
      BY <1>1, <1>3, <2>1, <2>2, EmptyLemma
    <2> QED BY <1>1, <1>6, <2>1, <2>3, RequestKept
  <1>7. BuffersBelow'
    BY <1>1, <1>5, <1>6, BuffersKept DEF StreamInv, HoldsInv
  <1>8. HoldsInv'
    BY <1>1, <1>4, <1>5, <1>6, <1>7 DEF HoldsInv
  <1>9. ScanInv'
    BY <1>5, <1>6 DEF ScanInv
  <1>10. Missed' \subseteq Missed
    BY <1>1, <1>3, <1>4, MissedLemma DEF StreamInv
  <1>11. last' = 0 => Missed' = {}
    <2> SUFFICES ASSUME last' = 0, NEW n \in Missed' PROVE FALSE
      OBVIOUS
    <2>1. published \ got' \subseteq excused'
      BY SendLemma
    <2> QED BY <1>3, <2>1 DEF Missed
  <1>12. \A n \in Stored : event[n] \in excused => event'[n] \in excused'
    BY <1>1, <1>3 DEF LogGrows
  <1>13. CASE cur = 0
    <2>1. UNCHANGED client
      BY <1>13, SendReads, Bounds
    <2>2. \A n \in Missed' : n > last'
      BY <1>10, <2>1 DEF client, StreamInv, GapInv
    <2>3. cur' = 0 /\ ~Registered(cur)'
      BY <1>13, <2>1 DEF client, Registered
    <2> QED BY <1>1, <1>8, <1>9, <1>11, <2>2, <2>3 DEF StreamInv, GapInv
  <1>14. CASE cur = r
    <2>1. \A n \in Missed' : n > last'
      BY <1>10, <1>14, SendGap
    <2>2. req'[r].pc \in {"open", "closed"}
      BY <1>2, SendRequest
    <2>3. cur' # 0 => Resuming(req[cur], Stored, event, excused)'
      BY <1>4, <1>14, <2>2 DEF Resuming
    <2>4. Registered(cur)' => Reaching(req[cur], Missed)'
      <3> SUFFICES ASSUME Registered(cur)' PROVE Reaching(req[cur], Missed)'
        OBVIOUS
      <3>1. cur' = r
        BY <1>4, <1>14 DEF Registered
      <3>2. Holder(r)' = r
        BY <3>1 DEF Registered, Holder
      <3>3. Opened(r)'
        BY <3>1 DEF Registered, Opened
      <3>4. Holder(r) = r
        BY <1>3, <1>5, <3>2, <3>3 DEF Holder
      <3>5. Missed' = {}
        BY <1>10, <1>14, <3>1, <3>4, SendGap
      <3> QED BY <3>5 DEF Reaching
    <2> QED BY <1>1, <1>8, <1>9, <1>11, <2>1, <2>3, <2>4 DEF StreamInv, GapInv
  <1>15. CASE cur # 0 /\ cur # r /\ cur = Holder(r)
    <2>1. {event[n] : n \in Stored} \subseteq excused'
      BY <1>15, SendLemma
    <2>2. Missed' = {}
      BY <1>1, <1>3, <2>1 DEF Missed
    <2>3. cur' # 0 => Resuming(req[cur], Stored, event, excused)'
      <3>1. PICK h \in Requests : h = cur /\ Opened(h)
        BY <1>15 DEF ShapeInv, TypeOK
      <3>2. req[h].pc \in {"page", "send", "open"} /\ req'[h].pc = req[h].pc /\ ~req'[h].paused
        BY <1>2, <1>15, <3>1, SendRequest DEF Connected
      <3>3. \A n \in Stored' : event'[n] \in excused'
        BY <1>1, <1>3, <2>1
      <3> QED BY <1>4, <3>1, <3>2, <3>3 DEF Resuming
    <2>4. Reaching(req[cur], Missed)'
      BY <2>2 DEF Reaching
    <2>5. \A n \in Missed' : n > last'
      BY <2>2
    <2> QED BY <1>1, <1>8, <1>9, <1>11, <2>3, <2>4, <2>5 DEF StreamInv, GapInv
  <1>16. CASE cur # 0 /\ cur # r /\ cur # Holder(r)
    <2>1. UNCHANGED client
      BY <1>16, SendReads
    <2>2. \A n \in Missed' : n > last'
      BY <1>10, <2>1 DEF client, StreamInv, GapInv
    <2>3. PICK c \in Requests : c = cur /\ cur' = c /\ Opened(c) /\ last' = last
      BY <1>16, <2>1 DEF client, ShapeInv, TypeOK
    <2>4. Stays(req[c], req'[c]) /\ req[c] \in FitRequest /\ Holding(req[c], Stored, event, excused)
      BY <1>16, <2>3, SendRequest, RequestLemma DEF ShapeInv, StreamInv, HoldsInv
    <2>5. Resuming(req[c], Stored, event, excused)
      BY <1>16, <2>3 DEF StreamInv, GapInv
    <2>6. Resuming(req[cur], Stored, event, excused)'
      <3>1. Continues(Stored, Stored', event, event', excused, excused')
        BY <1>1 DEF LogGrows, Continues
      <3>2. Stored \in SUBSET Nat /\ Stored' \in SUBSET Nat
        BY <1>1, StoredLemma
      <3>3. /\ req'[c].pc \in {"claim", "register"} => last' = req'[c].scan.from
            /\ req'[c].pc \in {"page", "send"} /\ req'[c].paused => last' = req'[c].scan.from
            /\ req'[c].pc \in {"page", "send"} /\ ~req'[c].paused =>
                \A n \in Stored' : n <= req'[c].scan.from => event'[n] \in excused'
        BY <2>3, <2>4, <2>5, <3>1, <3>2, ResumingKept
      <3> QED BY <2>3, <3>3 DEF Resuming
    <2>7. Registered(cur)' => Reaching(req[cur], Missed)'
      <3> SUFFICES ASSUME Registered(cur)' PROVE Reaching(req[cur], Missed)'
        OBVIOUS
      <3>1. Registered(c)'
        BY <2>3 DEF Registered, Holder
      <3>2. Registered(c) /\ req'[c].pc \in Running
        BY <1>2, <3>1, HubsShrunk
      <3>3. Reaching(req[c], Missed)
        BY <2>3, <3>2 DEF StreamInv, GapInv
      <3>4. /\ req'[c].scan.found = req[c].scan.found /\ req'[c].pc = req[c].pc
            /\ req'[c].buffer = req[c].buffer /\ req'[c].paused = req[c].paused
        <4>1. req[c].scan \in Scan
          BY <2>4 DEF FitRequest, Request
        <4> QED BY <2>4, <3>2, <4>1, MovedLemma DEF Stays, Waiting, Running
      <3>5. Reaching(req'[c], Missed')
        BY <1>10, <3>3, <3>4 DEF Reaching
      <3> QED BY <2>3, <3>5 DEF Reaching
    <2> QED BY <1>1, <1>8, <1>9, <1>11, <2>2, <2>6, <2>7 DEF StreamInv, GapInv
  <1> QED BY <1>13, <1>14, <1>15, <1>16

-----------------------------------------------------------------------------
\* Every step keeps StreamInv: no gap is silent

LEMMA InitStream == Init => StreamInv
  <1> SUFFICES ASSUME Init PROVE StreamInv
    OBVIOUS
  <1>1. Stored = {} /\ Missed = {}
    BY DEF Init, Stored, Missed
  <1>2. \A r \in Requests : ~Opened(r)
    BY DEF Init, Opened, NoRequest
  <1>3. NumberInv
    <2>1. \A p \in Processes : disp[p] = Resting
      BY DEF Init
    <2> QED BY <1>1, <2>1 DEF NumberInv, Init, Resting
  <1>4. HoldsInv
    BY <1>1, <1>2 DEF HoldsInv, BuffersBelow, Init
  <1>5. ScanInv
    BY <1>2 DEF ScanInv
  <1>6. ~Registered(cur)
    BY Bounds DEF Init, Registered
  <1>7. GapInv
    BY <1>1, <1>6 DEF GapInv, Init
  <1> QED BY <1>3, <1>4, <1>5, <1>7 DEF StreamInv

LEMMA StreamSessions ==
    ASSUME ShapeInv, ShapeInv', StreamInv,
           \/ CreateSession \/ Disconnect \/ UNCHANGED vars
           \/ \E s \in Sessions : Revoke(s) \/ ExpireSession(s)
           \/ \E c \in Controls : (\E T \in SUBSET Topics : ChangeTopics(c, T)) \/ ListTopics(c)
    PROVE  StreamInv'
  <1>1. KeepsShape
    BY ShapeCreateSession, ShapeDisconnect, ShapeUnchanged, ShapeRevoke, ShapeExpireSession,
       ShapeChangeTopics, ShapeListTopics DEF KeepsRequests
  <1>2. UNCHANGED <<store, disp, published, excused, last, got, req>> /\ cur' \in {0, cur}
    BY DEF CreateSession, Disconnect, vars, Revoke, ExpireSession, ChangeTopics, ListTopics, client, history
  <1> QED BY <1>1, <1>2, StreamOfSessions

LEMMA StreamEnds ==
    ASSUME ShapeInv, ShapeInv', StreamInv,
           \/ \E r \in Requests : SendFails(r)
           \/ \E p \in Processes : Heartbeat(p)
           \/ \E s \in Sessions : Revoked(s)
    PROVE  StreamInv'
  <1>1. KeepsShape
    BY ShapeSendFails, ShapeHeartbeat, ShapeRevoked DEF KeepsRequests
  <1>2. UNCHANGED <<store, disp, published, excused, last, got>> /\ cur' \in {0, cur}
    BY DEF SendFails, Heartbeat, Revoked, client, history
  <1>3. \E R : req' = Ended(R) \/ req' = req
    BY DEF SendFails, Heartbeat, Revoked
  <1> QED BY <1>1, <1>2, <1>3, StreamClosed

LEMMA StreamNext == ShapeInv /\ StreamInv /\ [Next]_vars => StreamInv'
  <1> SUFFICES ASSUME ShapeInv, StreamInv, [Next]_vars PROVE StreamInv'
    OBVIOUS
  <1>0. ShapeInv'
    BY ShapeNext
  <1>1. CASE \/ CreateSession \/ Disconnect \/ UNCHANGED vars
             \/ \E s \in Sessions : Revoke(s) \/ ExpireSession(s)
             \/ \E c \in Controls : (\E T \in SUBSET Topics : ChangeTopics(c, T)) \/ ListTopics(c)
    BY <1>0, <1>1, StreamSessions
  <1>2. CASE \/ \E r \in Requests : SendFails(r)
             \/ \E p \in Processes : Heartbeat(p)
             \/ \E s \in Sessions : Revoked(s)
    BY <1>0, <1>2, StreamEnds
  <1>3. ASSUME NEW e \in Private, PrivateMessage(e) PROVE StreamInv'
    BY <1>0, <1>3, StreamPrivateMessage
  <1>4. ASSUME NEW p \in Processes, NEW e \in Public, Incr(p, e) \/ Bypass(p, e) PROVE StreamInv'
    BY <1>0, <1>4, StreamIncr, StreamBypass
  <1>5. ASSUME NEW p \in Processes, Store(p) \/ NotStored(p) \/ Publish(p) \/ Connect(p) PROVE StreamInv'
    BY <1>0, <1>5, StreamStore, StreamNotStored, StreamPublish, StreamConnect
  <1>6. ASSUME NEW n \in Numbers, ExpireEvent(n) PROVE StreamInv'
    BY <1>0, <1>6, StreamExpireEvent
  <1>7. ASSUME NEW r \in Requests, Claim(r) \/ Register(r) \/ Page(r) PROVE StreamInv'
    BY <1>0, <1>7, StreamClaim, StreamRegister, StreamPage
  <1>8. ASSUME NEW r \in Requests, Send(r) \/ ReplayFails(r) \/ Cleanup(r) PROVE StreamInv'
    BY <1>0, <1>8, StreamSend, StreamReplayFails, StreamCleanup
  <1>9. ASSUME NEW c \in Controls, TopicsUpdated(c) PROVE StreamInv'
    BY <1>0, <1>9, StreamTopicsUpdated
  <1> QED BY <1>1, <1>2, <1>3, <1>4, <1>5, <1>6, <1>7, <1>8, <1>9 DEF Next

LEMMA StreamInvariant == Spec => []StreamInv
  BY ShapeInvariant, InitStream, StreamNext, PTL DEF Spec

\* No gap: a client that registers before it replays, and whose live events are
\* held back meanwhile, has read every published event up to its last
\* Last-Event-ID, unless a limit, an expiration, a late store, another process
\* or another request of its ticket kept the event away.
THEOREM NoGap == Spec => []NoSilentGap
  <1>1. ShapeInv /\ StreamInv => NoSilentGap
    <2> SUFFICES ASSUME ShapeInv, StreamInv, NEW n \in 1 .. seqno,
                        event[n] \in published, n <= last
                 PROVE  event[n] \in got \cup excused
      BY DEF NoSilentGap
    <2>1. PICK m \in Stored : event[m] = event[n]
      BY DEF StreamInv, NumberInv
    <2>2. seqno \in Nat /\ m \in 1 .. seqno
      BY StoredLemma
    <2>3. m = n
      BY <2>1, <2>2 DEF ShapeInv, NumbersOnce
    <2>4. last \in Nat
      <3>1. {0} \cup Stored \subseteq Nat /\ last \in {0} \cup Stored
        BY StoredLemma DEF StreamInv, HoldsInv
      <3> QED BY <3>1, Zenon
    <2>5. ~(n > last)
      BY <2>2, <2>3, <2>4
    <2>6. n \notin Missed
      BY <2>5 DEF StreamInv, GapInv
    <2> QED BY <2>1, <2>3, <2>6 DEF Missed
  <1> QED BY <1>1, ShapeInvariant, StreamInvariant, PTL
=============================================================================
