------------------------ MODULE OutboundDeliveryProofs ------------------------
(***************************************************************************)
(* Proofs about OutboundDelivery for any jobs, handlers and limits: every  *)
(* step keeps DeliveryInv, hence no accepted job is lost.                  *)
(***************************************************************************)
EXTENDS OutboundDelivery, TLAPS

HandlerOrIdle == Handler \cup {Idle}

\* Control states in which a handler neither acknowledges nor retries.
CalmPc == {"idle", "parkSleep", "parkDlq", "free", "catchDlq", "catchRelease"}

\* The record r of a handler that works on what the record q works on.
SameWork(r, q) == r.pc = "idle" \/ (r.msg = q.msg /\ r.copy = q.copy)

\* A function extended at one point (XADD, ZADD/HSET, SET of a claim).
LEMMA WithLemma ==
    ASSUME NEW S, NEW T, NEW f, NEW m \in S, NEW v \in T,
           DOMAIN f \subseteq S, f \in [DOMAIN f -> T]
    PROVE  /\ DOMAIN With(f, m, v) = DOMAIN f \cup {m}
           /\ DOMAIN With(f, m, v) \subseteq S
           /\ With(f, m, v) \in [DOMAIN With(f, m, v) -> T]
           /\ With(f, m, v)[m] = v
           /\ \A x \in DOMAIN f : x # m => With(f, m, v)[x] = f[x]
  BY DEF With

\* A function restricted (XACK, HDEL, DEL of a claim).
LEMMA WithoutLemma ==
    ASSUME NEW S, NEW T, NEW f, NEW m,
           DOMAIN f \subseteq S, f \in [DOMAIN f -> T]
    PROVE  /\ DOMAIN Without(f, m) = DOMAIN f \ {m}
           /\ DOMAIN Without(f, m) \subseteq S
           /\ Without(f, m) \in [DOMAIN Without(f, m) -> T]
           /\ \A x \in DOMAIN f : x # m => Without(f, m)[x] = f[x]
  BY DEF Without

LEMMA Ranges ==
    /\ 0 \in 0 .. MaxTime + ClaimTtl
    /\ 0 \in 0 .. MaxTime
    /\ 0 \in 0 .. MaxDefers
    /\ 0 \in 0 .. MaxAttempts - 1
    /\ {0, ClaimTtl, RateDelay} \subseteq 0 .. ClaimTtl + RateDelay
  BY ConstantsAssumption

LEMMA CaughtLemma ==
    ASSUME NEW r \in Handler
    PROVE  /\ Caught(r) \in Handler
           /\ Caught(r).pc \in CalmPc
           /\ SameWork(Caught(r), r)
  BY Ranges DEF Caught, Handler, CalmPc, CatchPc, SameWork

\* Wherever a call throws, the handler keeps its work, drops no entry and
\* starts no retry.
LEMMA ThrownLemma ==
    ASSUME NEW r \in Handler, r.pc # "parkSleep"
    PROVE  /\ Thrown(r) \in HandlerOrIdle
           /\ Thrown(r).pc \in CalmPc
           /\ SameWork(Thrown(r), r)
  <1>1. CASE r.pc \in {"expire", "expireAck", "parkAck", "catchDlq", "catchAck"}
    BY <1>1 DEF Thrown, WorkerPc, HandlerOrIdle, Idle, CalmPc, SameWork
  <1>2. CASE r.pc = "park"
    <2>1. Thrown(r) = [r EXCEPT !.pc = "parkSleep"]
      BY <1>2 DEF Thrown, WorkerPc
    <2> QED BY <2>1 DEF HandlerOrIdle, Handler, CalmPc, SameWork, ConsumerPc
  <1>3. CASE r.pc = "parkDlq"
    <2>1. Thrown(r) = r
      BY <1>3 DEF Thrown, WorkerPc
    <2> QED BY <1>3, <2>1 DEF HandlerOrIdle, CalmPc, SameWork
  <1>4. CASE r.pc = "complete"
    <2>1. Thrown(r) = [r EXCEPT !.pc = "free"]
      BY <1>4 DEF Thrown, WorkerPc
    <2> QED BY <2>1 DEF HandlerOrIdle, Handler, CalmPc, SameWork, WorkerPc
  <1>5. CASE r.pc = "catchRelease"
    <2>1. Thrown(r) = [r EXCEPT !.pc = "catchDlq", !.token = NoToken, !.until = 0]
      BY <1>5 DEF Thrown, WorkerPc
    <2> QED BY <2>1, Ranges DEF HandlerOrIdle, Handler, CalmPc, SameWork, CatchPc
  <1>6. CASE r.pc = "free"
    <2>1. Thrown(r) = Caught(r)
      BY <1>6 DEF Thrown, WorkerPc
    <2> QED BY <2>1, CaughtLemma DEF HandlerOrIdle
  <1>7. CASE r.pc \in {"start", "admit", "post", "release", "dlq", "retry", "defer", "ack"}
    <2>1. Thrown(r) = IF r.slot THEN [r EXCEPT !.pc = "free", !.err = TRUE] ELSE Caught(r)
      BY <1>7 DEF Thrown, WorkerPc
    <2>2. [r EXCEPT !.pc = "free", !.err = TRUE] \in Handler
      BY DEF Handler, WorkerPc
    <2>3. SameWork([r EXCEPT !.pc = "free", !.err = TRUE], r)
      BY DEF SameWork, Handler
    <2>4. [r EXCEPT !.pc = "free", !.err = TRUE].pc = "free"
      BY DEF Handler
    <2> QED BY <2>1, <2>2, <2>3, <2>4, CaughtLemma DEF HandlerOrIdle, CalmPc
  <1> QED BY <1>1, <1>2, <1>3, <1>4, <1>5, <1>6, <1>7
          DEF Handler, ConsumerPc, WorkerPc, CatchPc

LEMMA BusyLemma ==
    ASSUME TypeOK, NEW w \in Workers
    PROVE  /\ Busy(w) <=> h[w] \in Handler
           /\ Busy(w) \/ h[w] = Idle
  BY DEF TypeOK, Busy, Idle, Handler, ConsumerPc, WorkerPc, CatchPc

LEMMA GoLemma ==
    ASSUME TypeOK, NEW w \in Workers, NEW r \in HandlerOrIdle, Go(w, r)
    PROVE  /\ h' \in [Workers -> HandlerOrIdle]
           /\ h'[w] = r
           /\ \A v \in Workers : v # w => h'[v] = h[v]
  BY DEF TypeOK, Go, HandlerOrIdle

\* After a call that took effect the handler has moved on or unwinds.
LEMMA ReplyLemma ==
    ASSUME TypeOK, NEW w \in Workers, Busy(w), h[w].pc # "parkSleep",
           NEW r \in HandlerOrIdle, SameWork(r, h[w]), Reply(w, r)
    PROVE  /\ faults' \in 0 .. MaxFaults
           /\ \E q \in HandlerOrIdle :
                 /\ Go(w, q) /\ SameWork(q, h[w])
                 /\ q = r \/ q.pc \in CalmPc
  <1>1. h[w] \in Handler
    BY BusyLemma
  <1>2. CASE Go(w, r) /\ UNCHANGED faults
    BY <1>2 DEF TypeOK
  <1>3. CASE faults < MaxFaults /\ faults' = faults + 1 /\ Go(w, Thrown(h[w]))
    <2>1. faults' \in 0 .. MaxFaults
      BY <1>3, ConstantsAssumption DEF TypeOK
    <2> QED BY <1>1, <1>3, <2>1, ThrownLemma
  <1> QED BY <1>2, <1>3 DEF Reply

\* A job that is durable beside every entry a handler works on.
Apart(j) ==
    \/ j \in DOMAIN delayed \/ j \in completed \/ j \in dlq
    \/ \E m \in DOMAIN stream :
          stream[m].job = j /\ \A v \in Workers : Busy(v) => h[v].msg # m

\* Why no step of a handler loses a job: it gives up its entry only when the
\* job is durable apart from it.
LEMMA KeptLemma ==
    ASSUME DeliveryInv, NEW w \in Workers, Busy(w), NEW i, i = h[w].copy.job,
           NEW q \in HandlerOrIdle, Go(w, q), SameWork(q, h[w]),
           accepted' = accepted,
           DOMAIN delayed \subseteq DOMAIN delayed',
           completed \subseteq completed', dlq \subseteq dlq',
           \A m \in DOMAIN stream :
             \/ m \in DOMAIN stream' /\ stream'[m] = stream[m]
             \/ m = h[w].msg /\ (h[w].pc \in AckPc \/ Apart(i)'),
           q.pc \in AckPc => h[w].pc \in AckPc \/ Apart(i)'
    PROVE  \A j \in Jobs : accepted'[j] # {} => Kept(j)'
  <1> SUFFICES ASSUME NEW j \in Jobs, accepted'[j] # {} PROVE Kept(j)'
    OBVIOUS
  <1>0. /\ h' \in [Workers -> HandlerOrIdle] /\ h'[w] = q
        /\ \A v \in Workers : v # w => h'[v] = h[v]
    BY GoLemma DEF DeliveryInv
  <1>1. Kept(j)
    BY DEF DeliveryInv
  <1>2. Apart(j)' => Kept(j)'
    <2> SUFFICES ASSUME NEW m \in DOMAIN stream', stream'[m].job = j,
                        \A v \in Workers : Busy(v)' => h'[v].msg # m
                 PROVE  m \notin AckPending'
      BY DEF Apart, Kept
    <2> QED BY DEF AckPending, Busy, AckPc
  <1>3. CASE j \in DOMAIN delayed \/ j \in completed \/ j \in dlq
    BY <1>3 DEF Kept
  <1>4. CASE \E m \in DOMAIN stream \ AckPending : stream[m].job = j
    <2> PICK m \in DOMAIN stream \ AckPending : stream[m].job = j
      BY <1>4
    <2>1. CASE m # h[w].msg
      <3>1. m \in DOMAIN stream' /\ stream'[m] = stream[m]
        BY <2>1
      <3>2. m \notin AckPending'
        BY <1>0, <2>1 DEF AckPending, SameWork, AckPc
      <3> QED BY <3>1, <3>2 DEF Kept
    <2>2. CASE m = h[w].msg
      <3>1. h[w].pc \notin AckPc
        BY <2>2 DEF AckPending
      <3>2. h[w].copy.job = j
        BY <2>2 DEF DeliveryInv, SameJob
      <3>3. CASE Apart(j)'
        BY <3>3, <1>2
      <3>4. CASE ~Apart(j)'
        <4>1. q.pc \notin AckPc
          BY <3>1, <3>2, <3>4
        <4>2. m \notin AckPending'
          BY <1>0, <4>1 DEF AckPending
        <4>3. m \in DOMAIN stream' /\ stream'[m] = stream[m]
          BY <3>1, <3>2, <3>4
        <4> QED BY <4>2, <4>3 DEF Kept
      <3> QED BY <3>3, <3>4
    <2> QED BY <2>1, <2>2
  <1> QED BY <1>1, <1>3, <1>4 DEF Kept

\* TypeOK, in three parts, and what keeps the parts of DeliveryInv together.
QueueOK ==
    /\ DOMAIN stream \subseteq MsgIds /\ stream \in [DOMAIN stream -> Copy]
    /\ DOMAIN delayed \subseteq Jobs /\ delayed \in [DOMAIN delayed -> Copy]
    /\ DelayedKeyed

RestOK ==
    /\ now \in Time
    /\ DOMAIN claims \subseteq Jobs
    /\ claims \in [DOMAIN claims -> [token : Tokens, until : Nat]]
    /\ completed \subseteq Jobs
    /\ dlq \subseteq Jobs
    /\ accepted \in [Jobs -> SUBSET Time]
    /\ accepts \in 0 .. MaxAccepts
    /\ received \in [Jobs -> 0 .. 2]
    /\ excused \subseteq Jobs
    /\ faults \in 0 .. MaxFaults
    /\ crashes \in 0 .. MaxCrashes

Retrying(r) == r.pc = "retry" \/ (r.pc = "release" /\ r.then = "retry")

\* A step of handler w from h[w] to r, or to an unwinding record.
LEMMA StepLemma ==
    ASSUME DeliveryInv, NEW w \in Workers, Busy(w), NEW i, i = h[w].copy.job,
           NEW r \in HandlerOrIdle,
           NEW q \in HandlerOrIdle, Go(w, q), SameWork(q, h[w]), q = r \/ q.pc \in CalmPc,
           accepted' = accepted, RestOK', QueueOK',
           DOMAIN delayed \subseteq DOMAIN delayed',
           completed \subseteq completed', dlq \subseteq dlq',
           \A m \in DOMAIN stream :
             \/ m \in DOMAIN stream' /\ stream'[m] = stream[m]
             \/ m = h[w].msg /\ (h[w].pc \in AckPc \/ Apart(i)'),
           \A m \in DOMAIN stream' :
             \/ m \in DOMAIN stream /\ stream'[m] = stream[m]
             \/ \A v \in Workers : Busy(v) => h[v].msg # m,
           r.pc \in AckPc => h[w].pc \in AckPc \/ Apart(i)',
           Retrying(r) => r.copy.attempt + 1 < MaxAttempts
    PROVE  DeliveryInv'
  <1>0. /\ h' \in [Workers -> HandlerOrIdle] /\ h'[w] = q
        /\ \A v \in Workers : v # w => h'[v] = h[v]
    BY GoLemma DEF DeliveryInv
  <1>1. TypeOK'
    BY <1>0 DEF TypeOK, RestOK, QueueOK, HandlerOrIdle
  <1>2. \A j \in Jobs : accepted'[j] # {} => Kept(j)'
    <2>1. q.pc \in AckPc => h[w].pc \in AckPc \/ Apart(i)'
      BY DEF CalmPc, AckPc
    <2> QED BY <2>1, KeptLemma
  <1>3. SameJob'
    <2> SUFFICES ASSUME NEW v \in Workers, h'[v].pc # "idle", h'[v].msg \in DOMAIN stream'
                 PROVE  stream'[h'[v].msg].job = h'[v].copy.job
      BY DEF SameJob, Busy
    <2>1. Busy(v) /\ h'[v].msg = h[v].msg /\ h'[v].copy = h[v].copy
      BY <1>0 DEF SameWork, Busy
    <2> QED BY <2>1 DEF DeliveryInv, SameJob
  <1>4. DelayedKeyed'
    BY DEF QueueOK
  <1>5. AttemptLeft'
    <2> SUFFICES ASSUME NEW v \in Workers,
                        h'[v].pc = "retry" \/ (h'[v].pc = "release" /\ h'[v].then = "retry")
                 PROVE  h'[v].copy.attempt + 1 < MaxAttempts
      BY DEF AttemptLeft, At
    <2>1. CASE v = w
      BY <1>0, <2>1 DEF Retrying, CalmPc
    <2>2. CASE v # w
      BY <1>0, <2>2 DEF DeliveryInv, AttemptLeft, At
    <2> QED BY <2>1, <2>2
  <1> QED BY <1>1, <1>2, <1>3, <1>4, <1>5 DEF DeliveryInv

\* The special case of a step that leaves Stream, delayed store and DLQ alone.
LEMMA QuietStepLemma ==
    ASSUME DeliveryInv, NEW w \in Workers, Busy(w),
           NEW r \in HandlerOrIdle,
           NEW q \in HandlerOrIdle, Go(w, q), SameWork(q, h[w]), q = r \/ q.pc \in CalmPc,
           accepted' = accepted, RestOK', UNCHANGED store, completed \subseteq completed',
           r.pc \in AckPc => h[w].pc \in AckPc \/ h[w].copy.job \in completed',
           Retrying(r) => r.copy.attempt + 1 < MaxAttempts
    PROVE  DeliveryInv'
  <1> DEFINE i == h[w].copy.job
  <1>1. QueueOK'
    BY DEF QueueOK, DeliveryInv, TypeOK, DelayedKeyed, store
  <1>2. PICK k : k = i
    OBVIOUS
  <1>3. r.pc \in AckPc => h[w].pc \in AckPc \/ Apart(k)'
    BY <1>2 DEF Apart
  <1> QED BY <1>1, <1>2, <1>3, StepLemma DEF store

-----------------------------------------------------------------------------
\* The queue operations

LEMMA LaterLemma ==
    ASSUME now \in Time, NEW d \in Nat
    PROVE  Later(d) \in 0 .. MaxTime
  BY ConstantsAssumption DEF Later, Time

\* XADD puts the job under an id that no entry and no handler has.
LEMMA AddReadyLemma ==
    ASSUME now \in Time, QueueOK, NEW c \in Copy, AddReady(c)
    PROVE  \E m \in MsgIds \ DOMAIN stream, d \in Copy :
              /\ d.job = c.job
              /\ d.stamp = IF c.stamp = 0 THEN now ELSE c.stamp
              /\ \A v \in Workers : Busy(v) => h[v].msg # m
              /\ DOMAIN stream' = DOMAIN stream \cup {m}
              /\ DOMAIN stream' \subseteq MsgIds
              /\ stream' \in [DOMAIN stream' -> Copy]
              /\ stream'[m] = d
              /\ \A x \in DOMAIN stream : stream'[x] = stream[x]
  <1> DEFINE m == CHOOSE x \in FreshIds : TRUE
             e == EnsureFirstQueuedAt(c, now)
             d == [e EXCEPT !.notBefore = IF @ <= now THEN 0 ELSE @]
  <1>1. m \in FreshIds
    BY DEF AddReady
  <1>2. e \in Copy /\ e.job = c.job /\ e.stamp = IF c.stamp = 0 THEN now ELSE c.stamp
    BY DEF EnsureFirstQueuedAt, Copy, Time
  <1>3. d \in Copy /\ d.job = c.job /\ d.stamp = e.stamp
    <2> HIDE DEF e
    <2> QED BY <1>2, Ranges DEF Copy
  <1>4. m \in MsgIds \ DOMAIN stream /\ \A v \in Workers : Busy(v) => h[v].msg # m
    <2> HIDE DEF m
    <2> QED BY <1>1 DEF FreshIds
  <1>5. stream' = With(stream, m, d)
    BY DEF AddReady
  <1> HIDE DEF m, d, e
  <1>6. stream' \in [DOMAIN stream' -> Copy] /\ DOMAIN stream' = DOMAIN stream \cup {m}
    BY <1>3, <1>5 DEF QueueOK, With
  <1>7. stream'[m] = d /\ \A x \in DOMAIN stream : stream'[x] = stream[x]
    BY <1>4, <1>5 DEF With
  <1> QED BY <1>2, <1>3, <1>4, <1>6, <1>7 DEF QueueOK

\* The delayed store holds the job afterwards, whichever copy wins.
LEMMA StoreDelayedLemma ==
    ASSUME QueueOK, NEW c \in Copy, StoreDelayed(c)
    PROVE  /\ DOMAIN delayed' = DOMAIN delayed \cup {c.job}
           /\ DOMAIN delayed' \subseteq Jobs
           /\ delayed' \in [DOMAIN delayed' -> Copy]
           /\ \A j \in DOMAIN delayed' :
                 /\ delayed'[j].job = j
                 /\ delayed'[j] = c \/ (j \in DOMAIN delayed /\ delayed'[j] = delayed[j])
  <1>0. c.job \in Jobs
    BY DEF Copy
  <1>1. CASE delayed' = delayed /\ c.job \in DOMAIN delayed
    BY <1>1 DEF QueueOK, DelayedKeyed
  <1>2. CASE delayed' = With(delayed, c.job, c)
    <2>1. delayed' \in [DOMAIN delayed' -> Copy] /\ DOMAIN delayed' = DOMAIN delayed \cup {c.job}
      BY <1>2 DEF QueueOK, With
    <2>2. \A j \in DOMAIN delayed' : delayed'[j] = IF j = c.job THEN c ELSE delayed[j]
      BY <1>2 DEF With
    <2> QED BY <1>0, <2>1, <2>2 DEF QueueOK, DelayedKeyed
  <1> QED BY <1>1, <1>2 DEF StoreDelayed

\* What a retry or a deferral relies on before it acknowledges its entry.
LEMMA EnqueueLemma ==
    ASSUME now \in Time, QueueOK, NEW c \in Copy, NEW i, i = c.job, Enqueue(c)
    PROVE  /\ QueueOK'
           /\ \/ i \in DOMAIN delayed'
              \/ \E m \in DOMAIN stream' :
                    stream'[m].job = i /\ \A v \in Workers : Busy(v) => h[v].msg # m
           /\ DOMAIN delayed \subseteq DOMAIN delayed'
           /\ \A m \in DOMAIN stream : m \in DOMAIN stream' /\ stream'[m] = stream[m]
           /\ \A m \in DOMAIN stream' :
                \/ m \in DOMAIN stream /\ stream'[m] = stream[m]
                \/ \A v \in Workers : Busy(v) => h[v].msg # m
  <1>1. CASE StoreDelayed(c) /\ UNCHANGED stream
    BY <1>1, StoreDelayedLemma DEF QueueOK, DelayedKeyed
  <1>2. CASE AddReady(c) /\ UNCHANGED delayed
    <2>1. PICK m \in MsgIds \ DOMAIN stream, d \in Copy :
              /\ d.job = c.job
              /\ \A v \in Workers : Busy(v) => h[v].msg # m
              /\ DOMAIN stream' = DOMAIN stream \cup {m}
              /\ DOMAIN stream' \subseteq MsgIds
              /\ stream' \in [DOMAIN stream' -> Copy]
              /\ stream'[m] = d
              /\ \A x \in DOMAIN stream : stream'[x] = stream[x]
      BY <1>2, AddReadyLemma
    <2> QED BY <1>2, <2>1 DEF QueueOK, DelayedKeyed
  <1> QED BY <1>1, <1>2 DEF Enqueue

\* An entry that no handler had before the step, none has after it.
LEMMA ApartLemma ==
    ASSUME TypeOK, NEW w \in Workers, Busy(w), NEW q \in HandlerOrIdle,
           Go(w, q), SameWork(q, h[w]), NEW i, NEW m \in DOMAIN stream',
           stream'[m].job = i, \A v \in Workers : Busy(v) => h[v].msg # m
    PROVE  Apart(i)'
  <1>1. ASSUME NEW v \in Workers, h'[v].pc # "idle" PROVE h'[v].msg # m
    BY <1>1, GoLemma DEF SameWork, Busy
  <1> QED BY <1>1 DEF Apart, Busy

\* A call that took effect on the queues, answered or not.
LEMMA ReplyStepLemma ==
    ASSUME DeliveryInv, NEW w \in Workers, Busy(w), NEW i, i = h[w].copy.job,
           h[w].pc # "parkSleep", NEW r \in HandlerOrIdle, SameWork(r, h[w]), Reply(w, r),
           accepted' = accepted, faults' \in 0 .. MaxFaults => RestOK', QueueOK',
           DOMAIN delayed \subseteq DOMAIN delayed',
           completed \subseteq completed', dlq \subseteq dlq',
           \/ h[w].pc \in AckPc
           \/ i \in DOMAIN delayed' \/ i \in completed' \/ i \in dlq'
           \/ \E m \in DOMAIN stream' :
                 stream'[m].job = i /\ \A v \in Workers : Busy(v) => h[v].msg # m,
           \A m \in DOMAIN stream :
             (m \in DOMAIN stream' /\ stream'[m] = stream[m]) \/ m = h[w].msg,
           \A m \in DOMAIN stream' :
             \/ m \in DOMAIN stream /\ stream'[m] = stream[m]
             \/ \A v \in Workers : Busy(v) => h[v].msg # m,
           Retrying(r) => r.copy.attempt + 1 < MaxAttempts
    PROVE  DeliveryInv'
  <1>1. TypeOK
    BY DEF DeliveryInv
  <1>2. RestOK'
    BY <1>1, ReplyLemma
  <1>3. PICK q \in HandlerOrIdle : Go(w, q) /\ SameWork(q, h[w]) /\ (q = r \/ q.pc \in CalmPc)
    BY <1>1, ReplyLemma
  <1>4. h[w].pc \in AckPc \/ Apart(i)'
    <2>1. CASE i \in DOMAIN delayed' \/ i \in completed' \/ i \in dlq'
      BY <2>1 DEF Apart
    <2>2. CASE \E m \in DOMAIN stream' :
                 stream'[m].job = i /\ \A v \in Workers : Busy(v) => h[v].msg # m
      BY <1>1, <1>3, <2>2, ApartLemma
    <2> QED BY <2>1, <2>2
  <1> QED BY <1>2, <1>3, <1>4, StepLemma

\* A call that leaves the queues alone, answered or not.
LEMMA QuietReplyLemma ==
    ASSUME DeliveryInv, NEW w \in Workers, Busy(w),
           h[w].pc # "parkSleep", NEW r \in HandlerOrIdle, SameWork(r, h[w]), Reply(w, r),
           accepted' = accepted, faults' \in 0 .. MaxFaults => RestOK',
           UNCHANGED store, completed \subseteq completed',
           r.pc \in AckPc => h[w].pc \in AckPc \/ h[w].copy.job \in completed',
           Retrying(r) => r.copy.attempt + 1 < MaxAttempts
    PROVE  DeliveryInv'
  <1>1. TypeOK
    BY DEF DeliveryInv
  <1>2. RestOK'
    BY <1>1, ReplyLemma
  <1>3. PICK q \in HandlerOrIdle : Go(w, q) /\ SameWork(q, h[w]) /\ (q = r \/ q.pc \in CalmPc)
    BY <1>1, ReplyLemma
  <1> QED BY <1>2, <1>3, QuietStepLemma

-----------------------------------------------------------------------------
\* Handler steps that leave Stream, delayed store and DLQ alone

LEMMA RefuseKeeps ==
    ASSUME DeliveryInv, NEW w \in Workers, Refuse(w) PROVE DeliveryInv'
  <1> DEFINE r == [h[w] EXCEPT !.pc = "dlq"]
  <1>1. Busy(w) /\ h[w] \in Handler
    BY BusyLemma DEF Refuse, At, Busy, DeliveryInv
  <1>2. r \in HandlerOrIdle /\ SameWork(r, h[w]) /\ r.pc \notin AckPc /\ ~Retrying(r)
    BY <1>1 DEF HandlerOrIdle, Handler, WorkerPc, SameWork, AckPc, Retrying
  <1>3. RestOK' /\ Go(w, r) /\ UNCHANGED store /\ accepted' = accepted /\ completed' = completed
    BY DEF Refuse, DeliveryInv, TypeOK, RestOK, store, counts
  <1> HIDE DEF r
  <1> QED BY <1>1, <1>2, <1>3, QuietStepLemma

LEMMA ClaimKeeps ==
    ASSUME DeliveryInv, NEW w \in Workers, Claim(w) PROVE DeliveryInv'
  <1> DEFINE j == h[w].copy.job
             t == CHOOSE t \in FreshTokens : TRUE
             deferred == [h[w] EXCEPT !.pc = "defer", !.delay = ClaimTtl]
             claimed == [h[w] EXCEPT !.pc = "admit", !.token = t, !.until = now + ClaimTtl]
  <1>1. Busy(w) /\ h[w] \in Handler /\ h[w].pc = "start"
    BY BusyLemma DEF Claim, At, Busy, DeliveryInv
  <1>2. UNCHANGED store /\ accepted' = accepted /\ completed' = completed
    BY DEF Claim, store, counts
  <1>3. CASE j \in completed /\ Reply(w, Secured(h[w])) /\ UNCHANGED claims
    <2>1. Secured(h[w]) \in HandlerOrIdle /\ SameWork(Secured(h[w]), h[w]) /\ ~Retrying(Secured(h[w]))
      BY <1>1, Ranges DEF Secured, HandlerOrIdle, Handler, WorkerPc, SameWork, Retrying
    <2>2. faults' \in 0 .. MaxFaults => RestOK'
      BY <1>3 DEF Claim, DeliveryInv, TypeOK, RestOK, store, counts
    <2> QED BY <1>1, <1>2, <1>3, <2>1, <2>2, QuietReplyLemma
  <1>4. CASE Reply(w, deferred) /\ UNCHANGED claims
    <2>1. /\ deferred \in HandlerOrIdle /\ SameWork(deferred, h[w])
          /\ deferred.pc \notin AckPc /\ ~Retrying(deferred)
      BY <1>1, Ranges DEF HandlerOrIdle, Handler, WorkerPc, SameWork, AckPc, Retrying
    <2>2. faults' \in 0 .. MaxFaults => RestOK'
      BY <1>4 DEF Claim, DeliveryInv, TypeOK, RestOK, store, counts
    <2> HIDE DEF deferred
    <2> QED BY <1>1, <1>2, <1>4, <2>1, <2>2, QuietReplyLemma
  <1>5. CASE /\ FreshTokens # {}
             /\ claims' = With(claims, j, [token |-> t, until |-> now + ClaimTtl])
             /\ Reply(w, claimed)
    <2>1. t \in Tokens
      BY <1>5 DEF FreshTokens
    <2>2. j \in Jobs /\ now + ClaimTtl \in 0 .. MaxTime + ClaimTtl /\ now + ClaimTtl \in Nat
      BY <1>1, ConstantsAssumption DEF Handler, Copy, DeliveryInv, TypeOK, Time
    <2> HIDE DEF t
    <2>3. /\ claimed \in HandlerOrIdle /\ SameWork(claimed, h[w])
          /\ claimed.pc \notin AckPc /\ ~Retrying(claimed)
      BY <1>1, <2>1, <2>2 DEF HandlerOrIdle, Handler, WorkerPc, SameWork, AckPc, Retrying
    <2>4. /\ DOMAIN claims' \subseteq Jobs
          /\ claims' \in [DOMAIN claims' -> [token : Tokens, until : Nat]]
      BY <1>5, <2>1, <2>2 DEF With, DeliveryInv, TypeOK
    <2>5. faults' \in 0 .. MaxFaults => RestOK'
      BY <2>4 DEF Claim, DeliveryInv, TypeOK, RestOK, store, counts
    <2> HIDE DEF claimed
    <2> QED BY <1>1, <1>2, <1>5, <2>3, <2>5, QuietReplyLemma
  <1> QED BY <1>3, <1>4, <1>5 DEF Claim, Proved

LEMMA AdmitKeeps ==
    ASSUME DeliveryInv, NEW w \in Workers, Admit(w) PROVE DeliveryInv'
  <1>1. Busy(w) /\ h[w] \in Handler /\ h[w].pc = "admit"
    BY BusyLemma DEF Admit, At, Busy, DeliveryInv
  <1>2. UNCHANGED store /\ accepted' = accepted /\ completed' = completed
    BY DEF Admit, store, counts
  <1>3. faults' \in 0 .. MaxFaults => RestOK'
    BY DEF Admit, DeliveryInv, TypeOK, RestOK, store, counts
  <1>4. PICK r : /\ Reply(w, r)
                 /\ \/ r = ToRelease(h[w], "dlq")
                    \/ \E d \in {RateDelay, 0} : r = [ToRelease(h[w], "defer") EXCEPT !.delay = d]
                    \/ r = [ToRelease(h[w], "dlq") EXCEPT !.slot = TRUE]
                    \/ r = [h[w] EXCEPT !.pc = "post", !.slot = TRUE]
    BY DEF Admit
  <1>5. \A t \in {"dlq", "defer"} :
          LET q == ToRelease(h[w], t)
          IN  /\ q \in Handler /\ q.pc = "release" /\ q.then = t
              /\ q.msg = h[w].msg /\ q.copy = h[w].copy
    BY <1>1 DEF ToRelease, Handler, WorkerPc
  <1>6. r \in HandlerOrIdle /\ SameWork(r, h[w]) /\ r.pc \notin AckPc /\ ~Retrying(r)
    <2>1. CASE r = ToRelease(h[w], "dlq") \/ r = [ToRelease(h[w], "dlq") EXCEPT !.slot = TRUE]
      BY <1>5, <2>1 DEF HandlerOrIdle, Handler, SameWork, AckPc, Retrying
    <2>2. CASE \E d \in {RateDelay, 0} : r = [ToRelease(h[w], "defer") EXCEPT !.delay = d]
      BY <1>5, <2>2, Ranges DEF HandlerOrIdle, Handler, SameWork, AckPc, Retrying
    <2>3. CASE r = [h[w] EXCEPT !.pc = "post", !.slot = TRUE]
      BY <1>1, <2>3 DEF HandlerOrIdle, Handler, WorkerPc, SameWork, AckPc, Retrying
    <2> QED BY <1>4, <2>1, <2>2, <2>3
  <1> QED BY <1>1, <1>2, <1>3, <1>4, <1>6, QuietReplyLemma

LEMMA PostTooLateKeeps ==
    ASSUME DeliveryInv, NEW w \in Workers, PostTooLate(w) PROVE DeliveryInv'
  <1> DEFINE r == Thrown(h[w])
  <1>1. Busy(w) /\ h[w] \in Handler /\ h[w].pc = "post"
    BY BusyLemma DEF PostTooLate, At, Busy, DeliveryInv
  <1>2. r \in HandlerOrIdle /\ SameWork(r, h[w]) /\ r.pc \in CalmPc
    BY <1>1, ThrownLemma
  <1>3. RestOK' /\ Go(w, r) /\ UNCHANGED store /\ accepted' = accepted /\ completed' = completed
    BY DEF PostTooLate, DeliveryInv, TypeOK, RestOK, store, counts
  <1>4. r.pc \notin AckPc /\ ~Retrying(r)
    BY <1>2 DEF CalmPc, AckPc, Retrying
  <1> HIDE DEF r
  <1> QED BY <1>1, <1>2, <1>3, <1>4, QuietStepLemma

\* Only an attempt that is not the last one is followed by a retry.
LEMMA AfterTransientLemma ==
    ASSUME NEW r \in Handler
    PROVE  LET q == AfterTransient(r)
           IN  /\ q \in Handler /\ q.msg = r.msg /\ q.copy = r.copy /\ q.pc \notin AckPc
               /\ Retrying(q) => q.copy.attempt + 1 < MaxAttempts
  <1>1. r.copy.attempt \in Nat /\ MaxAttempts \in Nat
    BY ConstantsAssumption DEF Handler, Copy
  <1>2. CASE r.copy.attempt + 1 >= MaxAttempts
    BY <1>1, <1>2 DEF AfterTransient, ToRelease, Handler, WorkerPc, AckPc, Retrying
  <1>3. CASE ~(r.copy.attempt + 1 >= MaxAttempts)
    <2>1. AfterTransient(r) = [r EXCEPT !.pc = "release", !.then = "retry"]
      BY <1>3 DEF AfterTransient, ToRelease
    <2>2. r.copy.attempt + 1 < MaxAttempts
      BY <1>1, <1>3
    <2> QED BY <2>1, <2>2 DEF Handler, WorkerPc, AckPc, Retrying
  <1> QED BY <1>2, <1>3

LEMMA PostKeeps ==
    ASSUME DeliveryInv, NEW w \in Workers, Post(w) PROVE DeliveryInv'
  <1>1. Busy(w) /\ h[w] \in Handler /\ h[w].pc = "post"
    BY BusyLemma DEF Post, At, Busy, DeliveryInv
  <1>2. UNCHANGED store /\ accepted' = accepted /\ completed' = completed
    BY DEF Post, store, counts
  <1>3. h[w].copy.job \in Jobs
    BY <1>1 DEF Handler, Copy
  <1>4. received' \in [Jobs -> 0 .. 2] /\ excused' \subseteq Jobs
    BY <1>3 DEF Post, DeliveryInv, TypeOK
  <1>5. RestOK'
    BY <1>4 DEF Post, DeliveryInv, TypeOK, RestOK, store, counts
  <1>6. PICK r : /\ Go(w, r)
                 /\ \/ r = [h[w] EXCEPT !.pc = "complete"]
                    \/ r = ToRelease(h[w], "dlq")
                    \/ r = AfterTransient(h[w])
    BY DEF Post
  <1>7. CASE r = [h[w] EXCEPT !.pc = "complete"] \/ r = ToRelease(h[w], "dlq")
    <2>1. r \in HandlerOrIdle /\ SameWork(r, h[w]) /\ r.pc \notin AckPc /\ ~Retrying(r)
      BY <1>1, <1>7 DEF ToRelease, HandlerOrIdle, Handler, WorkerPc, SameWork, AckPc, Retrying
    <2> QED BY <1>1, <1>2, <1>5, <1>6, <2>1, QuietStepLemma
  <1>8. CASE r = AfterTransient(h[w])
    <2>1. /\ r \in HandlerOrIdle /\ SameWork(r, h[w]) /\ r.pc \notin AckPc
          /\ Retrying(r) => r.copy.attempt + 1 < MaxAttempts
      BY <1>1, <1>8, AfterTransientLemma DEF HandlerOrIdle, SameWork
    <2> QED BY <1>1, <1>2, <1>5, <1>6, <2>1, QuietStepLemma
  <1> QED BY <1>6, <1>7, <1>8

LEMMA ReleaseClaimLemma ==
    ASSUME TypeOK, NEW j, NEW t
    PROVE  /\ DOMAIN ReleaseClaim(j, t) \subseteq Jobs
           /\ ReleaseClaim(j, t) \in [DOMAIN ReleaseClaim(j, t) -> [token : Tokens, until : Nat]]
  BY DEF TypeOK, ReleaseClaim, Without

LEMMA CompleteKeeps ==
    ASSUME DeliveryInv, NEW w \in Workers, Complete(w) PROVE DeliveryInv'
  <1> DEFINE r == [Secured(h[w]) EXCEPT !.token = NoToken, !.until = 0]
  <1>1. Busy(w) /\ h[w] \in Handler /\ h[w].pc = "complete"
    BY BusyLemma DEF Complete, At, Busy, DeliveryInv
  <1>2. h[w].copy.job \in Jobs
    BY <1>1 DEF Handler, Copy
  <1>3. /\ DOMAIN claims' \subseteq Jobs
        /\ claims' \in [DOMAIN claims' -> [token : Tokens, until : Nat]]
    BY ReleaseClaimLemma DEF Complete, DeliveryInv
  <1>4. faults' \in 0 .. MaxFaults => RestOK'
    BY <1>2, <1>3 DEF Complete, DeliveryInv, TypeOK, RestOK, store, counts
  <1>5. r \in HandlerOrIdle /\ SameWork(r, h[w]) /\ ~Retrying(r)
    BY <1>1, Ranges DEF Secured, HandlerOrIdle, Handler, WorkerPc, SameWork, Retrying
  <1>6. /\ Reply(w, r) /\ UNCHANGED store /\ accepted' = accepted
        /\ completed \subseteq completed' /\ h[w].copy.job \in completed'
    BY DEF Complete, store, counts
  <1> HIDE DEF r
  <1> QED BY <1>1, <1>4, <1>5, <1>6, QuietReplyLemma

LEMMA ReleaseKeeps ==
    ASSUME DeliveryInv, NEW w \in Workers, Release(w) PROVE DeliveryInv'
  <1> DEFINE r == [h[w] EXCEPT !.pc = IF @ = "release" THEN h[w].then ELSE "catchDlq",
                               !.token = NoToken, !.until = 0]
  <1>1. Busy(w) /\ h[w] \in Handler /\ h[w].pc \in {"release", "catchRelease"}
    BY BusyLemma DEF Release, Busy, DeliveryInv
  <1>2. /\ DOMAIN claims' \subseteq Jobs
        /\ claims' \in [DOMAIN claims' -> [token : Tokens, until : Nat]]
    BY ReleaseClaimLemma DEF Release, DeliveryInv
  <1>3. faults' \in 0 .. MaxFaults => RestOK'
    BY <1>2 DEF Release, DeliveryInv, TypeOK, RestOK, store, counts
  <1>4. /\ r \in HandlerOrIdle /\ SameWork(r, h[w]) /\ r.pc \notin AckPc
        /\ Retrying(r) => Retrying(h[w]) /\ r.copy = h[w].copy
    BY <1>1, Ranges
       DEF HandlerOrIdle, Handler, WorkerPc, CatchPc, SameWork, AckPc, Retrying
  <1>5. Retrying(r) => r.copy.attempt + 1 < MaxAttempts
    BY <1>4 DEF Retrying, DeliveryInv, AttemptLeft, At
  <1>6. /\ Reply(w, r) /\ UNCHANGED store /\ accepted' = accepted /\ completed' = completed
    BY DEF Release, store, counts
  <1> HIDE DEF r
  <1> QED BY <1>1, <1>3, <1>4, <1>5, <1>6, QuietReplyLemma

LEMMA FreeKeeps ==
    ASSUME DeliveryInv, NEW w \in Workers, Free(w) PROVE DeliveryInv'
  <1> DEFINE r == IF h[w].err THEN Caught(h[w]) ELSE Idle
  <1>1. Busy(w) /\ h[w] \in Handler /\ h[w].pc = "free"
    BY BusyLemma DEF Free, At, Busy, DeliveryInv
  <1>2. r \in HandlerOrIdle /\ SameWork(r, h[w]) /\ r.pc \in CalmPc
    BY <1>1, CaughtLemma DEF HandlerOrIdle, Idle, SameWork, CalmPc
  <1>3. r.pc \notin AckPc /\ ~Retrying(r)
    BY <1>2 DEF CalmPc, AckPc, Retrying
  <1>4. faults' \in 0 .. MaxFaults => RestOK'
    BY DEF Free, DeliveryInv, TypeOK, RestOK, store, counts
  <1>5. /\ Reply(w, r) /\ UNCHANGED store /\ accepted' = accepted /\ completed' = completed
    BY DEF Free, store, counts
  <1> HIDE DEF r
  <1> QED BY <1>1, <1>2, <1>3, <1>4, <1>5, QuietReplyLemma

LEMMA UnparkKeeps ==
    ASSUME DeliveryInv, NEW w \in Workers, Unpark(w) PROVE DeliveryInv'
  <1>1. Busy(w) /\ h[w] \in Handler
    BY BusyLemma DEF Unpark, At, Busy, DeliveryInv
  <1>2. PICK pc : /\ pc \in {"parkDlq", "park", "start"}
                  /\ Go(w, [h[w] EXCEPT !.pc = pc])
    BY DEF Unpark
  <1> DEFINE r == [h[w] EXCEPT !.pc = pc]
  <1>3. r \in HandlerOrIdle /\ SameWork(r, h[w]) /\ r.pc \notin AckPc /\ ~Retrying(r)
    BY <1>1, <1>2
       DEF HandlerOrIdle, Handler, ConsumerPc, WorkerPc, SameWork, AckPc, Retrying
  <1>4. RestOK' /\ UNCHANGED store /\ accepted' = accepted /\ completed' = completed
    BY DEF Unpark, DeliveryInv, TypeOK, RestOK, store, counts
  <1>5. Go(w, r)
    BY <1>2
  <1> HIDE DEF r
  <1> QED BY <1>1, <1>3, <1>4, <1>5, QuietStepLemma

\* A call that failed without effect.
LEMMA CallFailsKeeps ==
    ASSUME DeliveryInv, NEW w \in Workers, CallFails(w) PROVE DeliveryInv'
  <1> DEFINE r == Thrown(h[w])
  <1>1. Busy(w) /\ h[w] \in Handler /\ h[w].pc # "parkSleep"
    BY BusyLemma DEF CallFails, CallPc, DeliveryInv
  <1>2. r \in HandlerOrIdle /\ SameWork(r, h[w]) /\ r.pc \in CalmPc
    BY <1>1, ThrownLemma
  <1>3. faults' \in 0 .. MaxFaults /\ excused' \subseteq Jobs
    <2>1. h[w].copy.job \in Jobs
      BY <1>1 DEF Handler, Copy
    <2> QED BY <2>1, ConstantsAssumption DEF CallFails, DeliveryInv, TypeOK
  <1>4. RestOK' /\ Go(w, r) /\ UNCHANGED store /\ accepted' = accepted /\ completed' = completed
    BY <1>3 DEF CallFails, DeliveryInv, TypeOK, RestOK, store, counts
  <1>5. r.pc \notin AckPc /\ ~Retrying(r)
    BY <1>2 DEF CalmPc, AckPc, Retrying
  <1> HIDE DEF r
  <1> QED BY <1>1, <1>2, <1>4, <1>5, QuietStepLemma

-----------------------------------------------------------------------------
\* Handler steps that move the job

LEMMA MoveToDlqKeeps ==
    ASSUME DeliveryInv, NEW w \in Workers, MoveToDlq(w) PROVE DeliveryInv'
  <1>1. Busy(w) /\ h[w] \in Handler
    BY BusyLemma DEF MoveToDlq, DeliveryInv
  <1>2. PICK r : /\ Reply(w, r) /\ h[w].pc # "parkSleep"
                 /\ \/ r = Secured(h[w])
                    \/ \E pc \in {"expireAck", "parkAck", "catchAck"} :
                          r = [h[w] EXCEPT !.pc = pc]
    BY DEF MoveToDlq, At
  <1>3. r \in HandlerOrIdle /\ SameWork(r, h[w]) /\ ~Retrying(r)
    BY <1>1, <1>2, Ranges
       DEF Secured, HandlerOrIdle, Handler, ConsumerPc, WorkerPc, CatchPc, SameWork, Retrying
  <1>4. PICK i : i = h[w].copy.job
    OBVIOUS
  <1>5. i \in Jobs /\ i \in dlq' /\ dlq \subseteq dlq' /\ dlq' \subseteq Jobs
    BY <1>1, <1>4 DEF MoveToDlq, Handler, Copy, DeliveryInv, TypeOK
  <1>6. faults' \in 0 .. MaxFaults => RestOK'
    BY <1>5 DEF MoveToDlq, DeliveryInv, TypeOK, RestOK, counts
  <1>7. /\ QueueOK' /\ accepted' = accepted /\ completed' = completed
        /\ stream' = stream /\ delayed' = delayed
    BY DEF MoveToDlq, DeliveryInv, TypeOK, QueueOK, DelayedKeyed, counts
  <1> QED BY <1>1, <1>2, <1>3, <1>4, <1>5, <1>6, <1>7, ReplyStepLemma

LEMMA AckKeeps ==
    ASSUME DeliveryInv, NEW w \in Workers, Ack(w) PROVE DeliveryInv'
  <1> DEFINE r == IF h[w].pc = "ack" /\ h[w].slot THEN [h[w] EXCEPT !.pc = "free"] ELSE Idle
  <1>1. Busy(w) /\ h[w] \in Handler /\ h[w].pc \in AckPc /\ h[w].pc # "parkSleep"
    BY BusyLemma DEF Ack, AckPc, Busy, DeliveryInv
  <1>2. r \in HandlerOrIdle /\ SameWork(r, h[w]) /\ ~Retrying(r) /\ Reply(w, r)
    BY <1>1 DEF Ack, HandlerOrIdle, Handler, WorkerPc, Idle, SameWork, Retrying
  <1>3. PICK i : i = h[w].copy.job
    OBVIOUS
  <1>4. /\ stream' \in [DOMAIN stream' -> Copy] /\ DOMAIN stream' = DOMAIN stream \ {h[w].msg}
        /\ \A m \in DOMAIN stream : m # h[w].msg => stream'[m] = stream[m]
    BY DEF Ack, Without, DeliveryInv, TypeOK
  <1>5. QueueOK' /\ delayed' = delayed
    BY <1>4 DEF Ack, DeliveryInv, TypeOK, QueueOK, DelayedKeyed
  <1>6. faults' \in 0 .. MaxFaults => RestOK'
    BY DEF Ack, DeliveryInv, TypeOK, RestOK, counts
  <1>7. accepted' = accepted /\ completed' = completed /\ dlq' = dlq
    BY DEF Ack, counts
  <1> HIDE DEF r
  <1> QED BY <1>1, <1>2, <1>3, <1>4, <1>5, <1>6, <1>7, ReplyStepLemma

LEMMA ParkKeeps ==
    ASSUME DeliveryInv, NEW w \in Workers, Park(w) PROVE DeliveryInv'
  <1>1. Busy(w) /\ h[w] \in Handler /\ h[w].pc # "parkSleep"
    BY BusyLemma DEF Park, At, Busy, DeliveryInv
  <1>2. Idle \in HandlerOrIdle /\ SameWork(Idle, h[w]) /\ ~Retrying(Idle) /\ Reply(w, Idle)
    BY DEF Park, HandlerOrIdle, Idle, SameWork, Retrying
  <1>3. PICK i : i = h[w].copy.job
    OBVIOUS
  <1>4. /\ stream' \in [DOMAIN stream' -> Copy] /\ DOMAIN stream' = DOMAIN stream \ {h[w].msg}
        /\ \A m \in DOMAIN stream : m # h[w].msg => stream'[m] = stream[m]
    BY DEF Park, Without, DeliveryInv, TypeOK
  <1>5. /\ DOMAIN delayed' = DOMAIN delayed \cup {i} /\ DOMAIN delayed' \subseteq Jobs
        /\ delayed' \in [DOMAIN delayed' -> Copy]
        /\ \A j \in DOMAIN delayed' : delayed'[j].job = j
    <2>1. h[w].copy \in Copy
      BY <1>1 DEF Handler
    <2>2. QueueOK /\ StoreDelayed(h[w].copy)
      BY DEF Park, QueueOK, DeliveryInv, TypeOK
    <2> QED BY <1>3, <2>1, <2>2, StoreDelayedLemma
  <1>6. QueueOK'
    BY <1>4, <1>5 DEF DeliveryInv, TypeOK, QueueOK, DelayedKeyed
  <1>7. faults' \in 0 .. MaxFaults => RestOK'
    BY DEF Park, DeliveryInv, TypeOK, RestOK, counts
  <1>8. accepted' = accepted /\ completed' = completed /\ dlq' = dlq
    BY DEF Park, counts
  <1> QED BY <1>1, <1>2, <1>3, <1>4, <1>5, <1>6, <1>7, <1>8, ReplyStepLemma

LEMMA RetryKeeps ==
    ASSUME DeliveryInv, NEW w \in Workers, Retry(w) PROVE DeliveryInv'
  <1> DEFINE r == Secured(h[w])
             c == [h[w].copy EXCEPT !.attempt = @ + 1, !.notBefore = Later(Backoff)]
  <1>1. Busy(w) /\ h[w] \in Handler /\ h[w].pc = "retry"
    BY BusyLemma DEF Retry, At, Busy, DeliveryInv
  <1>2. r \in HandlerOrIdle /\ SameWork(r, h[w]) /\ ~Retrying(r) /\ Reply(w, r)
    BY <1>1, Ranges DEF Retry, Secured, HandlerOrIdle, Handler, WorkerPc, SameWork, Retrying
  <1>3. PICK i : i = h[w].copy.job
    OBVIOUS
  <1>4. c \in Copy /\ c.job = i
    <2>1. h[w].copy \in Copy /\ h[w].copy.attempt + 1 < MaxAttempts
      BY <1>1 DEF Handler, DeliveryInv, AttemptLeft, At
    <2>2. h[w].copy.attempt + 1 \in 0 .. MaxAttempts - 1
      BY <2>1, ConstantsAssumption DEF Copy
    <2>3. Later(Backoff) \in 0 .. MaxTime
      BY LaterLemma, ConstantsAssumption DEF DeliveryInv, TypeOK
    <2> QED BY <1>3, <2>1, <2>2, <2>3 DEF Copy
  <1>5. Enqueue(c) /\ now \in Time /\ QueueOK
    BY DEF Retry, DeliveryInv, TypeOK, QueueOK
  <1>6. faults' \in 0 .. MaxFaults => RestOK'
    BY DEF Retry, DeliveryInv, TypeOK, RestOK, counts
  <1>7. accepted' = accepted /\ completed' = completed /\ dlq' = dlq
    BY DEF Retry, counts
  <1> HIDE DEF r, c
  <1>8. /\ QueueOK'
        /\ \/ i \in DOMAIN delayed'
           \/ \E m \in DOMAIN stream' :
                 stream'[m].job = i /\ \A v \in Workers : Busy(v) => h[v].msg # m
        /\ DOMAIN delayed \subseteq DOMAIN delayed'
        /\ \A m \in DOMAIN stream : m \in DOMAIN stream' /\ stream'[m] = stream[m]
        /\ \A m \in DOMAIN stream' :
             \/ m \in DOMAIN stream /\ stream'[m] = stream[m]
             \/ \A v \in Workers : Busy(v) => h[v].msg # m
    BY <1>4, <1>5, EnqueueLemma
  <1> QED BY <1>1, <1>2, <1>3, <1>6, <1>7, <1>8, ReplyStepLemma

LEMMA DeferKeeps ==
    ASSUME DeliveryInv, NEW w \in Workers, Defer(w) PROVE DeliveryInv'
  <1> DEFINE r == Secured(h[w])
             c == [h[w].copy EXCEPT !.defers = @ + 1, !.notBefore = Later(h[w].delay)]
  <1>1. Busy(w) /\ h[w] \in Handler /\ h[w].pc = "defer"
    BY BusyLemma DEF Defer, At, Busy, DeliveryInv
  <1>2. r \in HandlerOrIdle /\ SameWork(r, h[w]) /\ ~Retrying(r) /\ Reply(w, r)
    BY <1>1, Ranges DEF Defer, Secured, HandlerOrIdle, Handler, WorkerPc, SameWork, Retrying
  <1>3. PICK i : i = h[w].copy.job
    OBVIOUS
  <1>4. h[w].copy \in Copy /\ i \in Jobs
    BY <1>1, <1>3 DEF Handler, Copy
  <1>5. accepted' = accepted /\ completed' = completed /\ QueueOK
    BY DEF Defer, DeliveryInv, TypeOK, QueueOK, counts
  <1>6. CASE h[w].copy.defers + 1 > MaxDefers
    <2>1. i \in dlq' /\ dlq \subseteq dlq' /\ dlq' \subseteq Jobs /\ UNCHANGED <<stream, delayed>>
      BY <1>3, <1>4, <1>6 DEF Defer, DeliveryInv, TypeOK
    <2>2. faults' \in 0 .. MaxFaults => RestOK'
      BY <2>1 DEF Defer, DeliveryInv, TypeOK, RestOK, counts
    <2>3. QueueOK'
      BY <1>5, <2>1 DEF QueueOK, DelayedKeyed
    <2> HIDE DEF r
    <2> QED BY <1>1, <1>2, <1>3, <1>5, <2>1, <2>2, <2>3, ReplyStepLemma
  <1>7. CASE ~(h[w].copy.defers + 1 > MaxDefers)
    <2>1. Enqueue(c) /\ dlq' = dlq /\ now \in Time
      BY <1>7 DEF Defer, DeliveryInv, TypeOK
    <2>2. c \in Copy /\ c.job = i
      <3>1. h[w].copy.defers + 1 \in 0 .. MaxDefers
        BY <1>4, <1>7, ConstantsAssumption DEF Copy
      <3>2. Later(h[w].delay) \in 0 .. MaxTime
        <4>1. h[w].delay \in Nat
          BY <1>1 DEF Handler
        <4> QED BY <4>1, <2>1, LaterLemma
      <3> QED BY <1>3, <1>4, <3>1, <3>2 DEF Copy
    <2>3. faults' \in 0 .. MaxFaults => RestOK'
      BY <2>1 DEF Defer, DeliveryInv, TypeOK, RestOK, counts
    <2> HIDE DEF r, c
    <2>4. /\ QueueOK'
          /\ \/ i \in DOMAIN delayed'
             \/ \E m \in DOMAIN stream' :
                   stream'[m].job = i /\ \A v \in Workers : Busy(v) => h[v].msg # m
          /\ DOMAIN delayed \subseteq DOMAIN delayed'
          /\ \A m \in DOMAIN stream : m \in DOMAIN stream' /\ stream'[m] = stream[m]
          /\ \A m \in DOMAIN stream' :
               \/ m \in DOMAIN stream /\ stream'[m] = stream[m]
               \/ \A v \in Workers : Busy(v) => h[v].msg # m
      BY <1>5, <2>1, <2>2, EnqueueLemma
    <2> QED BY <1>1, <1>2, <1>3, <1>5, <2>1, <2>3, <2>4, ReplyStepLemma
  <1> QED BY <1>6, <1>7

LEMMA HandleKeeps ==
    ASSUME DeliveryInv, NEW w \in Workers, Handle(w) PROVE DeliveryInv'
  BY MoveToDlqKeeps, AckKeeps, ParkKeeps, UnparkKeeps, RefuseKeeps, ClaimKeeps, AdmitKeeps,
     PostTooLateKeeps, PostKeeps, CompleteKeeps, ReleaseKeeps, RetryKeeps, DeferKeeps,
     FreeKeeps DEF Handle

-----------------------------------------------------------------------------
\* The steps around the handlers

LEMMA ReceiveKeeps ==
    ASSUME DeliveryInv, NEW w \in Workers, NEW m \in MsgIds, Receive(w, m)
    PROVE  DeliveryInv'
  <1>1. PICK pc : /\ pc \in {"expire", "park", "start"}
                  /\ Go(w, [pc |-> pc, msg |-> m, copy |-> stream[m], token |-> NoToken,
                            until |-> 0, slot |-> FALSE, err |-> FALSE, then |-> "dlq",
                            delay |-> 0])
    BY DEF Receive
  <1> DEFINE r == [pc |-> pc, msg |-> m, copy |-> stream[m], token |-> NoToken, until |-> 0,
                   slot |-> FALSE, err |-> FALSE, then |-> "dlq", delay |-> 0]
  <1>2. m \in DOMAIN stream /\ UNCHANGED <<now, store, claims, completed, counts, received, excused, faults>>
    BY DEF Receive
  <1>3. r \in Handler
    BY <1>1, <1>2, Ranges DEF Handler, ConsumerPc, WorkerPc, DeliveryInv, TypeOK
  <1>4. /\ h' \in [Workers -> HandlerOrIdle] /\ h'[w] = r
        /\ \A v \in Workers : v # w => h'[v] = h[v]
    BY <1>1, <1>3, GoLemma DEF HandlerOrIdle, DeliveryInv
  <1>5. TypeOK'
    BY <1>2, <1>4 DEF TypeOK, DeliveryInv, store, counts, HandlerOrIdle
  <1>6. \A j \in Jobs : accepted'[j] # {} => Kept(j)'
    <2>1. AckPending' \subseteq AckPending
      BY <1>1, <1>4 DEF AckPending, AckPc
    <2> QED BY <1>2, <2>1 DEF DeliveryInv, Kept, store, counts
  <1>7. SameJob'
    <2> SUFFICES ASSUME NEW v \in Workers, h'[v].pc # "idle", h'[v].msg \in DOMAIN stream
                 PROVE  stream[h'[v].msg].job = h'[v].copy.job
      BY <1>2 DEF SameJob, Busy, store
    <2> QED BY <1>4 DEF DeliveryInv, SameJob, Busy
  <1>8. DelayedKeyed'
    BY <1>2 DEF DeliveryInv, DelayedKeyed, store
  <1>9. AttemptLeft'
    BY <1>1, <1>4 DEF DeliveryInv, AttemptLeft, At
  <1> QED BY <1>5, <1>6, <1>7, <1>8, <1>9 DEF DeliveryInv

\* An entry more, under an id nobody has, disturbs nothing.
LEMMA MoreEntriesLemma ==
    ASSUME DeliveryInv, h' = h, RestOK', QueueOK', completed' = completed, dlq' = dlq,
           \A m \in DOMAIN stream : m \in DOMAIN stream' /\ stream'[m] = stream[m],
           \A m \in DOMAIN stream' :
             \/ m \in DOMAIN stream /\ stream'[m] = stream[m]
             \/ \A v \in Workers : Busy(v) => h[v].msg # m,
           \A j \in Jobs :
             \/ accepted'[j] = accepted[j] /\ (j \in DOMAIN delayed => j \in DOMAIN delayed')
             \/ \E m \in DOMAIN stream' :
                   stream'[m].job = j /\ \A v \in Workers : Busy(v) => h[v].msg # m
    PROVE  DeliveryInv'
  <1>1. TypeOK'
    BY DEF TypeOK, DeliveryInv, RestOK, QueueOK
  <1>2. AckPending' = AckPending
    BY DEF AckPending
  <1>3. ASSUME NEW j \in Jobs, accepted'[j] # {} PROVE Kept(j)'
    <2>1. CASE accepted'[j] = accepted[j] /\ (j \in DOMAIN delayed => j \in DOMAIN delayed')
      <3>1. Kept(j)
        BY <1>3, <2>1 DEF DeliveryInv
      <3> QED BY <1>2, <2>1, <3>1 DEF Kept
    <2>2. ASSUME NEW m \in DOMAIN stream', stream'[m].job = j,
                 \A v \in Workers : Busy(v) => h[v].msg # m
          PROVE  Kept(j)'
      <3>1. m \notin AckPending
        BY <2>2 DEF AckPending, Busy, AckPc
      <3> QED BY <1>2, <2>2, <3>1 DEF Kept
    <2> QED BY <2>1, <2>2
  <1>4. SameJob'
    BY DEF DeliveryInv, SameJob, Busy
  <1>5. DelayedKeyed' /\ AttemptLeft'
    BY DEF QueueOK, DeliveryInv, AttemptLeft, At
  <1> QED BY <1>1, <1>3, <1>4, <1>5 DEF DeliveryInv

LEMMA AcceptKeeps ==
    ASSUME DeliveryInv, NEW j \in Jobs, Accept(j) PROVE DeliveryInv'
  <1>1. PICK t \in 0 .. MaxTime :
           AddReady([job |-> j, attempt |-> 0, defers |-> 0, notBefore |-> t, stamp |-> 0])
    <2>1. Later(1) \in 0 .. MaxTime
      BY LaterLemma DEF DeliveryInv, TypeOK
    <2> QED BY <2>1, Ranges DEF Accept
  <1> DEFINE c == [job |-> j, attempt |-> 0, defers |-> 0, notBefore |-> t, stamp |-> 0]
  <1>2. c \in Copy /\ c.job = j
    BY <1>1, Ranges DEF Copy
  <1>3. now \in Time /\ QueueOK
    BY DEF DeliveryInv, TypeOK, QueueOK
  <1>4. PICK m \in MsgIds \ DOMAIN stream, d \in Copy :
              /\ d.job = c.job
              /\ \A v \in Workers : Busy(v) => h[v].msg # m
              /\ DOMAIN stream' = DOMAIN stream \cup {m}
              /\ DOMAIN stream' \subseteq MsgIds
              /\ stream' \in [DOMAIN stream' -> Copy]
              /\ stream'[m] = d
              /\ \A x \in DOMAIN stream : stream'[x] = stream[x]
    <2> HIDE DEF c
    <2> QED BY <1>1, <1>2, <1>3, AddReadyLemma DEF c
  <1>5. accepts' \in 0 .. MaxAccepts /\ accepted' \in [Jobs -> SUBSET Time]
        /\ \A i \in Jobs : i # j => accepted'[i] = accepted[i]
    BY ConstantsAssumption DEF Accept, DeliveryInv, TypeOK
  <1>6. RestOK'
    BY <1>5 DEF Accept, DeliveryInv, TypeOK, RestOK
  <1>7. /\ QueueOK' /\ h' = h /\ delayed' = delayed /\ completed' = completed /\ dlq' = dlq
    BY <1>3, <1>4 DEF Accept, QueueOK, DelayedKeyed
  <1> HIDE DEF c
  <1>8. \A i \in Jobs :
             \/ accepted'[i] = accepted[i] /\ (i \in DOMAIN delayed => i \in DOMAIN delayed')
             \/ \E n \in DOMAIN stream' :
                   stream'[n].job = i /\ \A v \in Workers : Busy(v) => h[v].msg # n
    BY <1>2, <1>4, <1>5, <1>7
  <1>9. /\ \A n \in DOMAIN stream : n \in DOMAIN stream' /\ stream'[n] = stream[n]
        /\ \A n \in DOMAIN stream' :
             \/ n \in DOMAIN stream /\ stream'[n] = stream[n]
             \/ \A v \in Workers : Busy(v) => h[v].msg # n
    BY <1>4
  <1> QED BY <1>6, <1>7, <1>8, <1>9, MoreEntriesLemma

LEMMA PromoteKeeps ==
    ASSUME DeliveryInv, NEW j \in Jobs, Promote(j) PROVE DeliveryInv'
  <1>1. delayed[j] \in Copy /\ delayed[j].job = j /\ AddReady(delayed[j])
    BY DEF Promote, DeliveryInv, TypeOK, DelayedKeyed
  <1>2. PICK c : c = delayed[j]
    OBVIOUS
  <1>3. now \in Time /\ QueueOK
    BY DEF DeliveryInv, TypeOK, QueueOK
  <1>4. PICK m \in MsgIds \ DOMAIN stream, d \in Copy :
              /\ d.job = c.job
              /\ \A v \in Workers : Busy(v) => h[v].msg # m
              /\ DOMAIN stream' = DOMAIN stream \cup {m}
              /\ DOMAIN stream' \subseteq MsgIds
              /\ stream' \in [DOMAIN stream' -> Copy]
              /\ stream'[m] = d
              /\ \A x \in DOMAIN stream : stream'[x] = stream[x]
    BY <1>1, <1>2, <1>3, AddReadyLemma
  <1>5. /\ DOMAIN delayed' = DOMAIN delayed \ {j} /\ delayed' \in [DOMAIN delayed' -> Copy]
        /\ \A i \in DOMAIN delayed' : delayed'[i] = delayed[i]
    BY <1>3 DEF Promote, Without, QueueOK
  <1>6. QueueOK'
    BY <1>3, <1>4, <1>5 DEF QueueOK, DelayedKeyed
  <1>7. RestOK' /\ h' = h /\ accepted' = accepted /\ completed' = completed /\ dlq' = dlq
    BY DEF Promote, DeliveryInv, TypeOK, RestOK, counts
  <1>8. \A i \in Jobs :
             \/ accepted'[i] = accepted[i] /\ (i \in DOMAIN delayed => i \in DOMAIN delayed')
             \/ \E n \in DOMAIN stream' :
                   stream'[n].job = i /\ \A v \in Workers : Busy(v) => h[v].msg # n
    BY <1>1, <1>2, <1>4, <1>5, <1>7
  <1>9. /\ \A n \in DOMAIN stream : n \in DOMAIN stream' /\ stream'[n] = stream[n]
        /\ \A n \in DOMAIN stream' :
             \/ n \in DOMAIN stream /\ stream'[n] = stream[n]
             \/ \A v \in Workers : Busy(v) => h[v].msg # n
    BY <1>4
  <1> QED BY <1>6, <1>7, <1>8, <1>9, MoreEntriesLemma

LEMMA TickKeeps ==
    ASSUME DeliveryInv, Tick PROVE DeliveryInv'
  <1>1. now' \in Time
    BY ConstantsAssumption DEF Tick, DeliveryInv, TypeOK, Time
  <1>2. excused' \subseteq Jobs
    <2>1. \A v \in Workers : Overran(v) => h[v].copy.job \in Jobs
      BY BusyLemma DEF Overran, Handler, Copy, DeliveryInv
    <2> QED BY <2>1 DEF Tick, DeliveryInv, TypeOK
  <1>3. /\ DOMAIN claims' \subseteq Jobs
        /\ claims' \in [DOMAIN claims' -> [token : Tokens, until : Nat]]
    BY DEF Tick, DeliveryInv, TypeOK
  <1>4. RestOK' /\ QueueOK'
    BY <1>1, <1>2, <1>3
       DEF Tick, DeliveryInv, TypeOK, RestOK, QueueOK, DelayedKeyed, store, counts
  <1> QED BY <1>4, MoreEntriesLemma DEF Tick, store, counts

LEMMA CrashKeeps ==
    ASSUME DeliveryInv, Crash PROVE DeliveryInv'
  <1>1. PICK W \in SUBSET {w \in Workers : Busy(w)} :
           /\ h' = [w \in Workers |-> IF w \in W THEN Idle ELSE h[w]]
           /\ excused' = excused \cup {h[w].copy.job : w \in {v \in W : Unproved(v)}}
    BY DEF Crash
  <1>2. \A w \in Workers : h'[w] = Idle \/ h'[w] = h[w]
    BY <1>1
  <1>3. excused' \subseteq Jobs
    <2>1. \A v \in Workers : Busy(v) => h[v].copy.job \in Jobs
      BY BusyLemma DEF Handler, Copy, DeliveryInv
    <2> QED BY <1>1, <2>1 DEF DeliveryInv, TypeOK
  <1>4. crashes' \in 0 .. MaxCrashes
    BY ConstantsAssumption DEF Crash, DeliveryInv, TypeOK
  <1>5. TypeOK'
    <2>1. h' \in [Workers -> Handler \cup {Idle}]
      BY <1>1 DEF DeliveryInv, TypeOK
    <2> QED BY <1>3, <1>4, <2>1 DEF Crash, DeliveryInv, TypeOK, store
  <1>6. \A j \in Jobs : accepted'[j] # {} => Kept(j)'
    <2>1. AckPending' \subseteq AckPending
      BY <1>2 DEF AckPending, Idle, AckPc
    <2> QED BY <2>1 DEF Crash, DeliveryInv, Kept, store
  <1>7. SameJob' /\ AttemptLeft' /\ DelayedKeyed'
    BY <1>2 DEF Crash, DeliveryInv, SameJob, AttemptLeft, DelayedKeyed, Busy, At, Idle, store
  <1> QED BY <1>5, <1>6, <1>7 DEF DeliveryInv

-----------------------------------------------------------------------------

LEMMA InitKeeps == Init => DeliveryInv
  <1> SUFFICES ASSUME Init PROVE DeliveryInv
    OBVIOUS
  <1>1. TypeOK
    BY ConstantsAssumption DEF Init, TypeOK, Empty, Time, Idle
  <1>2. SameJob /\ DelayedKeyed /\ AttemptLeft
    BY DEF Init, SameJob, DelayedKeyed, AttemptLeft, Empty, Idle, Busy, At
  <1>3. \A j \in Jobs : accepted[j] = {}
    BY DEF Init
  <1> QED BY <1>1, <1>2, <1>3 DEF DeliveryInv

LEMMA StutterKeeps == DeliveryInv /\ UNCHANGED vars => DeliveryInv'
  BY DEF DeliveryInv, TypeOK, Kept, AckPending, SameJob, DelayedKeyed, AttemptLeft, Busy, At,
         vars, store, counts

\* What every reachable state satisfies: types, every accepted job durable
\* apart from entries about to be acknowledged, entries and handlers that agree
\* on the job, a delayed store keyed by job and no retry past maxAttempts.
THEOREM DeliveryInvariant == Spec => []DeliveryInv
  <1>1. DeliveryInv /\ Next => DeliveryInv'
    BY AcceptKeeps, PromoteKeeps, HandleKeeps, CallFailsKeeps, ReceiveKeeps, TickKeeps,
       CrashKeeps DEF Next
  <1>2. DeliveryInv /\ [Next]_vars => DeliveryInv'
    BY <1>1, StutterKeeps
  <1> QED BY InitKeeps, <1>2, PTL DEF Spec

\* Types of the Redis structures and of the handlers of outbound-worker.ts;
\* in particular no copy ever reaches maxAttempts or notReadyMaxRequeues.
THEOREM TypeCorrect == Spec => []TypeOK
  <1>1. DeliveryInv => TypeOK
    BY DEF DeliveryInv
  <1> QED BY DeliveryInvariant, <1>1, PTL

\* "There is no ACK -> write failure -> lost work gap", for any number of jobs,
\* handlers, attempts, failed calls and crashes: an accepted job is in the
\* ready Stream, in the delayed store, in the DLQ, or proved delivered.
THEOREM NoJobIsLost == Spec => []NoLostJob
  <1>1. DeliveryInv => NoLostJob
    BY DEF DeliveryInv, Kept, NoLostJob, Durable, InStream
  <1> QED BY DeliveryInvariant, <1>1, PTL
=============================================================================
