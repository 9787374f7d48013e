-------------------------- MODULE OutboxIntentProofs --------------------------
(***************************************************************************)
(* Proofs about OutboxIntent for any intents, handlers and limits: every   *)
(* step keeps IntentInv, hence no accepted intent is lost, each is fanned  *)
(* out at most once, and only after it is in the event log.                *)
(***************************************************************************)
EXTENDS OutboxIntent, TLAPS

HandlerOrIdle == Handler \cup {Idle}

\* A handler that gives up its entry, or turns to the catch block with it.
Unwound(t, r) ==
    \/ t = Idle
    \/ /\ t.msg = r.msg /\ t.copy = r.copy /\ t.pc \in {"dlq", "retry"}
       /\ t.pc = "retry" => t.copy.attempt + 1 < MaxAttempts

\* TypeOK and DelayedKeyed, in two parts.
QueueOK ==
    /\ DOMAIN stream \subseteq MsgIds /\ stream \in [DOMAIN stream -> Entry]
    /\ DOMAIN delayed \subseteq Intents /\ delayed \in [DOMAIN delayed -> Copy]
    /\ DelayedKeyed

RestOK ==
    /\ now \in Time
    /\ {logged, enqueued, completed, dlq, raced} \subseteq SUBSET Intents
    /\ log \in [Intents -> 0 .. 2]
    /\ fanned \in [Intents -> 0 .. 2]
    /\ accepted \in [Intents -> SUBSET Time]
    /\ accepts \in 0 .. MaxAccepts
    /\ faults \in 0 .. MaxFaults
    /\ crashes \in 0 .. MaxCrashes

LEMMA BusyLemma ==
    ASSUME TypeOK, NEW w \in Workers, Busy(w)
    PROVE  h[w] \in Handler /\ h[w].copy \in Copy /\ h[w].copy.intent \in Intents
  BY DEF TypeOK, Busy, Idle, Handler, Copy

LEMMA FailedLemma ==
    ASSUME NEW r \in Handler, NEW permanent \in BOOLEAN
    PROVE  Failed(r, permanent) \in Handler /\ Unwound(Failed(r, permanent), r)
  <1>1. r.copy.attempt \in Nat /\ MaxAttempts \in Nat
    BY ConstantsAssumption DEF Handler, Copy
  <1>2. CASE permanent \/ r.copy.attempt + 1 >= MaxAttempts
    <2>1. Failed(r, permanent) = [r EXCEPT !.pc = "dlq"]
      BY <1>2 DEF Failed
    <2> QED BY <2>1 DEF Handler, Pc, Unwound
  <1>3. CASE ~(permanent \/ r.copy.attempt + 1 >= MaxAttempts)
    <2>1. Failed(r, permanent) = [r EXCEPT !.pc = "retry"]
      BY <1>3 DEF Failed
    <2>2. r.copy.attempt + 1 < MaxAttempts
      BY <1>1, <1>3
    <2> QED BY <2>1, <2>2 DEF Handler, Pc, Unwound
  <1> QED BY <1>2, <1>3

LEMMA ThrownLemma ==
    ASSUME NEW r \in Handler
    PROVE  Thrown(r) \in HandlerOrIdle /\ Unwound(Thrown(r), r)
  BY FailedLemma DEF Thrown, HandlerOrIdle, Unwound

LEMMA GoLemma ==
    ASSUME TypeOK, NEW w \in Workers, NEW r \in HandlerOrIdle, Go(w, r)
    PROVE  /\ h' \in [Workers -> HandlerOrIdle]
           /\ h'[w] = r
           /\ \A v \in Workers : v # w => h'[v] = h[v]
  BY DEF TypeOK, Go, HandlerOrIdle

\* A step of handler w from h[w] to q.  Handlers add no entry to the Stream,
\* and drop one only when its intent is safe elsewhere.
LEMMA StepLemma ==
    ASSUME IntentInv, NEW w \in Workers, Busy(w), NEW i, i = h[w].copy.intent,
           NEW q \in HandlerOrIdle, Go(w, q),
           \/ q = Idle
           \/ /\ q.msg = h[w].msg /\ q.copy = h[w].copy
              /\ q.pc = "mark"   => log'[i] > 0
              /\ q.pc = "fanout" => i \in logged'
              /\ q.pc = "finish" => i \in enqueued'
              /\ q.pc = "ack"    => i \in completed'
              /\ q.pc = "dlqAck" => i \in dlq'
              /\ q.pc = "retry"  => q.copy.attempt + 1 < MaxAttempts,
           RestOK', QueueOK', HandedOn', accepted' = accepted,
           logged \subseteq logged', enqueued \subseteq enqueued',
           completed \subseteq completed', dlq \subseteq dlq',
           \A j \in Intents : log[j] > 0 => log'[j] > 0,
           DOMAIN delayed \subseteq DOMAIN delayed',
           \A m \in DOMAIN stream' : m \in DOMAIN stream /\ stream'[m] = stream[m],
           \A m \in DOMAIN stream :
             \/ m \in DOMAIN stream'
             \/ m = h[w].msg /\ (i \in DOMAIN delayed' \/ i \in completed' \/ i \in dlq')
    PROVE  IntentInv'
  <1>0. /\ h' \in [Workers -> HandlerOrIdle] /\ h'[w] = q
        /\ \A v \in Workers : v # w => h'[v] = h[v]
    BY GoLemma DEF IntentInv
  <1>1. TypeOK'
    BY <1>0 DEF TypeOK, RestOK, QueueOK, HandlerOrIdle
  <1>2. NoLostIntent'
    <2> SUFFICES ASSUME NEW j \in Intents, accepted[j] # {},
                        j \notin DOMAIN delayed', j \notin completed', j \notin dlq'
                 PROVE  \E m \in DOMAIN stream' : stream'[m].copy.intent = j
      BY DEF NoLostIntent
    <2>1. PICK m \in DOMAIN stream : stream[m].copy.intent = j
      BY DEF IntentInv, NoLostIntent
    <2>2. m = h[w].msg => i = j
      BY <2>1 DEF IntentInv, SameIntent
    <2> QED BY <2>1, <2>2
  <1>3. SameIntent'
    <2> SUFFICES ASSUME NEW v \in Workers, h'[v].pc # "idle", h'[v].msg \in DOMAIN stream'
                 PROVE  stream'[h'[v].msg].copy.intent = h'[v].copy.intent
      BY DEF SameIntent, Busy
    <2>1. h[v].pc # "idle" /\ h'[v].msg = h[v].msg /\ h'[v].copy = h[v].copy
      BY <1>0 DEF Busy, Idle
    <2> QED BY <2>1 DEF IntentInv, SameIntent, Busy
  <1>4. \A v \in Workers : Busy(v)' => Stage(h[v])'
    <2> SUFFICES ASSUME NEW v \in Workers, h'[v].pc # "idle" PROVE Stage(h[v])'
      BY DEF Busy
    <2>1. CASE v = w
      BY <1>0, <2>1 DEF Stage, Idle
    <2>2. CASE v # w
      <3>1. h'[v] = h[v] /\ Busy(v) /\ Stage(h[v]) /\ h[v].copy.intent \in Intents
        BY <1>0, <2>2, BusyLemma DEF IntentInv, Busy
      <3> QED BY <3>1 DEF Stage
    <2> QED BY <2>1, <2>2
  <1> QED BY <1>1, <1>2, <1>3, <1>4 DEF IntentInv, QueueOK

\* A call that took effect, answered or not.
LEMMA ReplyStepLemma ==
    ASSUME IntentInv, NEW w \in Workers, Busy(w), NEW i, i = h[w].copy.intent,
           NEW r \in HandlerOrIdle, Reply(w, r),
           \/ r = Idle
           \/ /\ r.msg = h[w].msg /\ r.copy = h[w].copy
              /\ r.pc = "mark"   => log'[i] > 0
              /\ r.pc = "fanout" => i \in logged'
              /\ r.pc = "finish" => i \in enqueued'
              /\ r.pc = "ack"    => i \in completed'
              /\ r.pc = "dlqAck" => i \in dlq'
              /\ r.pc # "retry",
           faults' \in 0 .. MaxFaults => RestOK', QueueOK', HandedOn', accepted' = accepted,
           logged \subseteq logged', enqueued \subseteq enqueued',
           completed \subseteq completed', dlq \subseteq dlq',
           \A j \in Intents : log[j] > 0 => log'[j] > 0,
           DOMAIN delayed \subseteq DOMAIN delayed',
           \A m \in DOMAIN stream' : m \in DOMAIN stream /\ stream'[m] = stream[m],
           \A m \in DOMAIN stream :
             \/ m \in DOMAIN stream'
             \/ m = h[w].msg /\ (i \in DOMAIN delayed' \/ i \in completed' \/ i \in dlq')
    PROVE  IntentInv'
  <1>1. h[w] \in Handler
    BY BusyLemma DEF IntentInv
  <1>2. faults' \in 0 .. MaxFaults
    BY ConstantsAssumption DEF Reply, IntentInv, TypeOK
  <1>3. PICK q \in HandlerOrIdle : Go(w, q) /\ (q = r \/ Unwound(q, h[w]))
    BY <1>1, ThrownLemma DEF Reply
  <1>4. \/ q = Idle
        \/ /\ q.msg = h[w].msg /\ q.copy = h[w].copy
           /\ q.pc = "mark"   => log'[i] > 0
           /\ q.pc = "fanout" => i \in logged'
           /\ q.pc = "finish" => i \in enqueued'
           /\ q.pc = "ack"    => i \in completed'
           /\ q.pc = "dlqAck" => i \in dlq'
           /\ q.pc = "retry"  => q.copy.attempt + 1 < MaxAttempts
    BY <1>3 DEF Unwound
  <1> QED BY <1>2, <1>3, <1>4, StepLemma

\* The special case of a step that leaves everything but the handler alone.
LEMMA QuietStepLemma ==
    ASSUME IntentInv, NEW w \in Workers, Busy(w), NEW i, i = h[w].copy.intent,
           NEW q \in HandlerOrIdle, Go(w, q),
           \/ q = Idle
           \/ /\ q.msg = h[w].msg /\ q.copy = h[w].copy
              /\ q.pc # "mark" /\ q.pc # "finish" /\ q.pc # "dlqAck"
              /\ q.pc = "fanout" => i \in logged
              /\ q.pc = "ack"    => i \in completed
              /\ q.pc = "retry"  => q.copy.attempt + 1 < MaxAttempts,
           RestOK', UNCHANGED <<queues, state, outputs>>, accepted' = accepted
    PROVE  IntentInv'
  <1>1. QueueOK'
    BY DEF QueueOK, IntentInv, TypeOK, DelayedKeyed, queues
  <1>2. HandedOn'
    BY DEF IntentInv, HandedOn, state, outputs
  <1> QED BY <1>1, <1>2, StepLemma DEF queues, state, outputs

-----------------------------------------------------------------------------
\* Steps of a handler

LEMMA StartKeeps ==
    ASSUME IntentInv, NEW w \in Workers, Start(w) PROVE IntentInv'
  <1>1. Busy(w) /\ h[w] \in Handler
    BY BusyLemma DEF Start, At, Busy, IntentInv
  <1>2. PICK q : /\ Go(w, q)
                 /\ q \in {Failed(h[w], TRUE), [h[w] EXCEPT !.pc = "park"], [h[w] EXCEPT !.pc = "state"]}
    BY DEF Start
  <1>3. q \in HandlerOrIdle
    BY <1>1, <1>2, FailedLemma DEF HandlerOrIdle, Handler, Pc
  <1>4. /\ q.msg = h[w].msg /\ q.copy = h[w].copy
        /\ q.pc \in {"park", "state", "dlq", "retry"}
        /\ q.pc = "retry" => q.copy.attempt + 1 < MaxAttempts
    <2>1. CASE q = Failed(h[w], TRUE)
      BY <1>1, <2>1 DEF Failed, Handler
    <2> QED BY <1>1, <1>2, <2>1 DEF Handler
  <1>5. RestOK' /\ UNCHANGED <<queues, state, outputs>> /\ accepted' = accepted
    BY DEF Start, IntentInv, TypeOK, RestOK, state, queues, outputs, counts
  <1> QED BY <1>1, <1>2, <1>3, <1>4, <1>5, QuietStepLemma

LEMMA ReadStateKeeps ==
    ASSUME IntentInv, NEW w \in Workers, ReadState(w) PROVE IntentInv'
  <1>1. Busy(w) /\ h[w] \in Handler /\ h[w].copy.intent \in Intents
    BY BusyLemma DEF ReadState, At, Busy, IntentInv
  <1>2. PICK q : q = AfterState(w)
    OBVIOUS
  <1>3. /\ q \in HandlerOrIdle /\ Go(w, q)
        /\ q.msg = h[w].msg /\ q.copy = h[w].copy
        /\ q.pc \in {"ack", "publish", "fanout", "dlq", "retry"}
        /\ q.pc = "ack" => h[w].copy.intent \in completed
        /\ q.pc = "fanout" => h[w].copy.intent \in logged
        /\ q.pc = "retry" => q.copy.attempt + 1 < MaxAttempts
    <2>0. Go(w, q)
      BY <1>2 DEF ReadState
    <2>1. CASE q = Failed(h[w], TRUE)
      BY <1>1, <2>0, <2>1, FailedLemma DEF Failed, HandlerOrIdle, Handler
    <2>2. CASE q # Failed(h[w], TRUE)
      <3>1. \/ h[w].copy.intent \in completed /\ q = [h[w] EXCEPT !.pc = "ack"]
            \/ q = [h[w] EXCEPT !.pc = "publish"]
            \/ h[w].copy.intent \in logged /\ q = [h[w] EXCEPT !.pc = "fanout"]
        BY <1>2, <2>2 DEF AfterState, NeedsLog
      <3> QED BY <1>1, <2>0, <3>1 DEF HandlerOrIdle, Handler, Pc
    <2> QED BY <2>1, <2>2
  <1>4. raced' \subseteq Intents
    BY <1>1 DEF ReadState, IntentInv, TypeOK
  <1>5. RestOK' /\ UNCHANGED <<queues, state, outputs>> /\ accepted' = accepted
    BY <1>4 DEF ReadState, IntentInv, TypeOK, RestOK, state, queues, outputs, counts
  <1> QED BY <1>1, <1>3, <1>5, QuietStepLemma

LEMMA CallFailsKeeps ==
    ASSUME IntentInv, NEW w \in Workers, CallFails(w) PROVE IntentInv'
  <1>1. Busy(w) /\ h[w] \in Handler /\ h[w].copy.intent \in Intents
    BY BusyLemma DEF CallFails, IntentInv
  <1>2. PICK q : q = Thrown(h[w])
    OBVIOUS
  <1>3. q \in HandlerOrIdle /\ Go(w, q) /\ Unwound(q, h[w])
    BY <1>1, <1>2, ThrownLemma DEF CallFails
  <1>4. raced' \subseteq Intents /\ faults' \in 0 .. MaxFaults
    BY <1>1, ConstantsAssumption DEF CallFails, IntentInv, TypeOK
  <1>5. RestOK' /\ UNCHANGED <<queues, state, outputs>> /\ accepted' = accepted
    BY <1>4 DEF CallFails, IntentInv, TypeOK, RestOK, state, queues, outputs, counts
  <1> QED BY <1>1, <1>3, <1>5, QuietStepLemma DEF Unwound

LEMMA OneMoreLemma ==
    ASSUME NEW f \in [Intents -> 0 .. 2], NEW i \in Intents
    PROVE  /\ OneMore(f, i) \in [Intents -> 0 .. 2]
           /\ OneMore(f, i)[i] > 0
           /\ \A j \in Intents : f[j] > 0 => OneMore(f, i)[j] > 0
           /\ f[i] = 0 => OneMore(f, i)[i] = 1
           /\ \A j \in Intents : j # i => OneMore(f, i)[j] = f[j]
  BY DEF OneMore

LEMMA PublishKeeps ==
    ASSUME IntentInv, NEW w \in Workers, Publish(w) PROVE IntentInv'
  <1> DEFINE r == [h[w] EXCEPT !.pc = "mark"]
  <1>1. Busy(w) /\ h[w] \in Handler /\ h[w].copy.intent \in Intents
    BY BusyLemma DEF Publish, At, Busy, IntentInv
  <1>2. PICK i \in Intents : i = h[w].copy.intent
    BY <1>1
  <1>3. r \in HandlerOrIdle /\ r.msg = h[w].msg /\ r.copy = h[w].copy /\ r.pc = "mark" /\ Reply(w, r)
    BY <1>1 DEF Publish, HandlerOrIdle, Handler, Pc
  <1>4. /\ log' \in [Intents -> 0 .. 2] /\ log'[i] > 0
        /\ \A j \in Intents : log[j] > 0 => log'[j] > 0
    BY <1>2, OneMoreLemma DEF Publish, IntentInv, TypeOK
  <1>5. raced' \subseteq Intents
    BY <1>1 DEF Publish, IntentInv, TypeOK
  <1>6. faults' \in 0 .. MaxFaults => RestOK'
    BY <1>4, <1>5 DEF Publish, IntentInv, TypeOK, RestOK, queues, state, counts
  <1>7. QueueOK' /\ UNCHANGED <<queues, state>> /\ accepted' = accepted
    BY DEF Publish, QueueOK, IntentInv, TypeOK, DelayedKeyed, queues, counts
  <1>8. HandedOn'
    BY <1>4 DEF Publish, HandedOn, IntentInv, TypeOK, state
  <1> HIDE DEF r
  <1> QED BY <1>1, <1>2, <1>3, <1>4, <1>6, <1>7, <1>8, ReplyStepLemma DEF queues, state

LEMMA MarkKeeps ==
    ASSUME IntentInv, NEW w \in Workers, Mark(w) PROVE IntentInv'
  <1> DEFINE r == [h[w] EXCEPT !.pc = "fanout"]
  <1>1. Busy(w) /\ h[w] \in Handler /\ h[w].copy.intent \in Intents /\ h[w].pc = "mark"
    BY BusyLemma DEF Mark, At, Busy, IntentInv
  <1>2. PICK i \in Intents : i = h[w].copy.intent
    BY <1>1
  <1>3. r \in HandlerOrIdle /\ r.msg = h[w].msg /\ r.copy = h[w].copy /\ r.pc = "fanout" /\ Reply(w, r)
    BY <1>1 DEF Mark, HandlerOrIdle, Handler, Pc
  <1>4. log[i] > 0
    BY <1>1, <1>2 DEF IntentInv, Stage
  <1>5. logged' = logged \cup {i}
    BY <1>2 DEF Mark
  <1>6. faults' \in 0 .. MaxFaults => RestOK'
    BY <1>5 DEF Mark, IntentInv, TypeOK, RestOK, queues, outputs, counts
  <1>7. /\ QueueOK' /\ UNCHANGED <<queues, outputs>> /\ accepted' = accepted
        /\ enqueued' = enqueued /\ completed' = completed
    BY DEF Mark, QueueOK, IntentInv, TypeOK, DelayedKeyed, queues, counts
  <1>8. HandedOn'
    BY <1>4, <1>5, <1>7 DEF HandedOn, IntentInv, outputs
  <1> HIDE DEF r
  <1> QED BY <1>1, <1>2, <1>3, <1>5, <1>6, <1>7, <1>8, ReplyStepLemma DEF queues, outputs

LEMMA FanOutKeeps ==
    ASSUME IntentInv, NEW w \in Workers, FanOut(w) PROVE IntentInv'
  <1>1. Busy(w) /\ h[w] \in Handler /\ h[w].copy.intent \in Intents /\ h[w].pc = "fanout"
    BY BusyLemma DEF FanOut, At, Busy, IntentInv
  <1>2. PICK i \in Intents : i = h[w].copy.intent
    BY <1>1
  <1>3. i \in logged
    BY <1>1, <1>2 DEF IntentInv, Stage
  <1>4. CASE Go(w, Failed(h[w], TRUE)) /\ UNCHANGED <<enqueued, fanned, faults>>
    <2>1. PICK q : q = Failed(h[w], TRUE)
      OBVIOUS
    <2>2. q \in HandlerOrIdle /\ Unwound(q, h[w]) /\ Go(w, q)
      BY <1>1, <1>4, <2>1, FailedLemma DEF HandlerOrIdle
    <2>3. RestOK' /\ UNCHANGED <<queues, state, outputs>> /\ accepted' = accepted
      BY <1>4 DEF FanOut, IntentInv, TypeOK, RestOK, state, queues, outputs, counts
    <2> QED BY <1>1, <2>2, <2>3, QuietStepLemma DEF Unwound
  <1>5. CASE /\ fanned' = IF i \in ZeroTarget \/ i \in enqueued THEN fanned ELSE OneMore(fanned, i)
             /\ enqueued' = enqueued \cup {i}
             /\ Reply(w, [h[w] EXCEPT !.pc = "finish"])
    <2> DEFINE r == [h[w] EXCEPT !.pc = "finish"]
    <2>1. r \in HandlerOrIdle /\ r.msg = h[w].msg /\ r.copy = h[w].copy /\ r.pc = "finish" /\ Reply(w, r)
      BY <1>1, <1>5 DEF HandlerOrIdle, Handler, Pc
    <2>2. /\ fanned' \in [Intents -> 0 .. 2]
          /\ \A j \in Intents : fanned'[j] = IF j \in enqueued' \ ZeroTarget THEN 1 ELSE 0
      <3>0. /\ fanned \in [Intents -> 0 .. 2]
            /\ \A j \in Intents : fanned[j] = IF j \in enqueued \ ZeroTarget THEN 1 ELSE 0
        BY DEF IntentInv, TypeOK, HandedOn
      <3>1. CASE i \in ZeroTarget \/ i \in enqueued
        BY <1>5, <3>0, <3>1
      <3>2. CASE ~(i \in ZeroTarget \/ i \in enqueued)
        BY <1>5, <3>0, <3>2, OneMoreLemma
      <3> QED BY <3>1, <3>2
    <2>3. faults' \in 0 .. MaxFaults => RestOK'
      BY <1>5, <2>2 DEF FanOut, IntentInv, TypeOK, RestOK, queues, counts
    <2>4. /\ QueueOK' /\ UNCHANGED queues /\ accepted' = accepted
          /\ logged' = logged /\ completed' = completed /\ log' = log
      BY DEF FanOut, QueueOK, IntentInv, TypeOK, DelayedKeyed, queues, counts
    <2>5. HandedOn'
      BY <1>3, <1>5, <2>2, <2>4 DEF HandedOn, IntentInv
    <2> HIDE DEF r
    <2> QED BY <1>1, <1>2, <1>5, <2>1, <2>3, <2>4, <2>5, ReplyStepLemma DEF queues
  <1> QED BY <1>2, <1>4, <1>5 DEF FanOut, FannedOut

LEMMA FinishKeeps ==
    ASSUME IntentInv, NEW w \in Workers, Finish(w) PROVE IntentInv'
  <1> DEFINE r == [h[w] EXCEPT !.pc = "ack"]
  <1>1. Busy(w) /\ h[w] \in Handler /\ h[w].copy.intent \in Intents /\ h[w].pc = "finish"
    BY BusyLemma DEF Finish, At, Busy, IntentInv
  <1>2. PICK i \in Intents : i = h[w].copy.intent
    BY <1>1
  <1>3. r \in HandlerOrIdle /\ r.msg = h[w].msg /\ r.copy = h[w].copy /\ r.pc = "ack" /\ Reply(w, r)
    BY <1>1 DEF Finish, HandlerOrIdle, Handler, Pc
  <1>4. i \in enqueued
    BY <1>1, <1>2 DEF IntentInv, Stage
  <1>5. completed' = completed \cup {i}
    BY <1>2 DEF Finish
  <1>6. faults' \in 0 .. MaxFaults => RestOK'
    BY <1>5 DEF Finish, IntentInv, TypeOK, RestOK, queues, outputs, counts
  <1>7. /\ QueueOK' /\ UNCHANGED <<queues, outputs>> /\ accepted' = accepted
        /\ enqueued' = enqueued /\ logged' = logged
    BY DEF Finish, QueueOK, IntentInv, TypeOK, DelayedKeyed, queues, counts
  <1>8. HandedOn'
    BY <1>4, <1>5, <1>7 DEF HandedOn, IntentInv, outputs
  <1> HIDE DEF r
  <1> QED BY <1>1, <1>2, <1>3, <1>5, <1>6, <1>7, <1>8, ReplyStepLemma DEF queues, outputs

LEMMA AckKeeps ==
    ASSUME IntentInv, NEW w \in Workers, Ack(w) PROVE IntentInv'
  <1>1. Busy(w) /\ h[w].pc \in {"ack", "dlqAck"}
    BY DEF Ack, Busy
  <1>2. PICK i : i = h[w].copy.intent
    OBVIOUS
  <1>3. i \in completed \/ i \in dlq
    BY <1>1, <1>2 DEF IntentInv, Stage
  <1>4. /\ stream' \in [DOMAIN stream' -> Entry] /\ DOMAIN stream' = DOMAIN stream \ {h[w].msg}
        /\ \A m \in DOMAIN stream' : stream'[m] = stream[m]
    BY DEF Ack, Without, IntentInv, TypeOK
  <1>5. QueueOK' /\ delayed' = delayed
    BY <1>4 DEF Ack, QueueOK, IntentInv, TypeOK, DelayedKeyed
  <1>6. faults' \in 0 .. MaxFaults => RestOK'
    BY DEF Ack, IntentInv, TypeOK, RestOK, state, outputs, counts
  <1>7. /\ dlq' = dlq /\ UNCHANGED <<state, outputs>> /\ accepted' = accepted /\ Reply(w, Idle)
    BY DEF Ack, counts
  <1>8. HandedOn'
    BY <1>7 DEF HandedOn, IntentInv, state, outputs
  <1> QED BY <1>1, <1>2, <1>3, <1>4, <1>5, <1>6, <1>7, <1>8, ReplyStepLemma
          DEF state, outputs, HandlerOrIdle

LEMMA MoveToDlqKeeps ==
    ASSUME IntentInv, NEW w \in Workers, MoveToDlq(w) PROVE IntentInv'
  <1> DEFINE r == [h[w] EXCEPT !.pc = "dlqAck"]
  <1>1. Busy(w) /\ h[w] \in Handler /\ h[w].copy.intent \in Intents
    BY BusyLemma DEF MoveToDlq, At, Busy, IntentInv
  <1>2. PICK i \in Intents : i = h[w].copy.intent
    BY <1>1
  <1>3. r \in HandlerOrIdle /\ r.msg = h[w].msg /\ r.copy = h[w].copy /\ r.pc = "dlqAck" /\ Reply(w, r)
    BY <1>1 DEF MoveToDlq, HandlerOrIdle, Handler, Pc
  <1>4. dlq' = dlq \cup {i}
    BY <1>2 DEF MoveToDlq
  <1>5. faults' \in 0 .. MaxFaults => RestOK'
    BY <1>4 DEF MoveToDlq, IntentInv, TypeOK, RestOK, state, outputs, counts
  <1>6. /\ QueueOK' /\ UNCHANGED <<stream, delayed, state, outputs>> /\ accepted' = accepted
    BY DEF MoveToDlq, QueueOK, IntentInv, TypeOK, DelayedKeyed, counts
  <1>7. HandedOn'
    BY <1>6 DEF HandedOn, IntentInv, state, outputs
  <1> HIDE DEF r
  <1> QED BY <1>1, <1>2, <1>3, <1>4, <1>5, <1>6, <1>7, ReplyStepLemma DEF state, outputs

\* persistReplacementAndAck keeps the intent, whichever copy wins.
LEMMA ReplaceLemma ==
    ASSUME IntentInv, NEW c \in Copy, NEW msg, Replace(c, msg)
    PROVE  /\ QueueOK'
           /\ DOMAIN delayed' = DOMAIN delayed \cup {c.intent}
           /\ DOMAIN stream' = DOMAIN stream \ {msg}
           /\ \A m \in DOMAIN stream' : stream'[m] = stream[m]
           /\ \A j \in DOMAIN delayed' :
                delayed'[j] = c \/ (j \in DOMAIN delayed /\ delayed'[j] = delayed[j])
  <1>0. c.intent \in Intents
    BY DEF Copy
  <1>1. /\ stream' \in [DOMAIN stream' -> Entry] /\ DOMAIN stream' = DOMAIN stream \ {msg}
        /\ \A m \in DOMAIN stream' : stream'[m] = stream[m]
    BY DEF Replace, Without, IntentInv, TypeOK
  <1>2. CASE delayed' = delayed /\ c.intent \in DOMAIN delayed
    BY <1>0, <1>1, <1>2 DEF QueueOK, DelayedKeyed, IntentInv, TypeOK
  <1>3. CASE delayed' = With(delayed, c.intent, c)
    <2>1. /\ delayed' \in [DOMAIN delayed' -> Copy] /\ DOMAIN delayed' = DOMAIN delayed \cup {c.intent}
          /\ \A j \in DOMAIN delayed' : delayed'[j] = IF j = c.intent THEN c ELSE delayed[j]
      BY <1>3 DEF With, IntentInv, TypeOK
    <2> QED BY <1>0, <1>1, <2>1 DEF QueueOK, DelayedKeyed, IntentInv, TypeOK
  <1> QED BY <1>1, <1>2, <1>3 DEF Replace

LEMMA ParkKeeps ==
    ASSUME IntentInv, NEW w \in Workers, Park(w) PROVE IntentInv'
  <1>1. Busy(w) /\ h[w].copy \in Copy
    BY BusyLemma DEF Park, At, Busy, IntentInv
  <1>2. PICK i : i = h[w].copy.intent
    OBVIOUS
  <1>3. UNCHANGED <<dlq, state, outputs>> /\ accepted' = accepted
    BY DEF Park, counts
  <1>4. HandedOn'
    BY <1>3 DEF HandedOn, IntentInv, state, outputs
  <1>5. faults' \in 0 .. MaxFaults => RestOK'
    BY DEF Park, IntentInv, TypeOK, RestOK, state, outputs, counts
  <1>6. CASE Replace(h[w].copy, h[w].msg) /\ Reply(w, Idle)
    <2>1. /\ QueueOK' /\ DOMAIN delayed' = DOMAIN delayed \cup {i}
          /\ DOMAIN stream' = DOMAIN stream \ {h[w].msg}
          /\ \A m \in DOMAIN stream' : stream'[m] = stream[m]
      BY <1>1, <1>2, <1>6, ReplaceLemma
    <2> QED BY <1>1, <1>2, <1>3, <1>4, <1>5, <1>6, <2>1, ReplyStepLemma
            DEF state, outputs, HandlerOrIdle
  <1>7. CASE Go(w, Idle) /\ UNCHANGED <<stream, delayed, faults>>
    <2>1. RestOK'
      BY <1>5, <1>7 DEF IntentInv, TypeOK
    <2> QED BY <1>1, <1>3, <1>7, <2>1, QuietStepLemma DEF queues, HandlerOrIdle
  <1> QED BY <1>6, <1>7 DEF Park

LEMMA RetryKeeps ==
    ASSUME IntentInv, NEW w \in Workers, Retry(w) PROVE IntentInv'
  <1> DEFINE c == [h[w].copy EXCEPT !.attempt = @ + 1, !.notBefore = Later(Backoff)]
  <1>1. Busy(w) /\ h[w].copy \in Copy /\ h[w].pc = "retry"
    BY BusyLemma DEF Retry, At, Busy, IntentInv
  <1>2. PICK i : i = h[w].copy.intent
    OBVIOUS
  <1>3. c \in Copy /\ c.intent = i
    <2>1. h[w].copy.attempt + 1 \in 0 .. MaxAttempts - 1
      BY <1>1, ConstantsAssumption DEF Copy, IntentInv, Stage
    <2>2. Later(Backoff) \in 0 .. MaxTime
      BY ConstantsAssumption DEF Later, IntentInv, TypeOK, Time
    <2> QED BY <1>1, <1>2, <2>1, <2>2 DEF Copy
  <1>4. /\ UNCHANGED <<dlq, state, outputs>> /\ accepted' = accepted
        /\ Reply(w, Idle) /\ Replace(c, h[w].msg)
    BY DEF Retry, counts
  <1>5. HandedOn'
    BY <1>4 DEF HandedOn, IntentInv, state, outputs
  <1>6. faults' \in 0 .. MaxFaults => RestOK'
    BY DEF Retry, IntentInv, TypeOK, RestOK, state, outputs, counts
  <1> HIDE DEF c
  <1>7. /\ QueueOK' /\ DOMAIN delayed' = DOMAIN delayed \cup {i}
        /\ DOMAIN stream' = DOMAIN stream \ {h[w].msg}
        /\ \A m \in DOMAIN stream' : stream'[m] = stream[m]
    BY <1>3, <1>4, ReplaceLemma
  <1> QED BY <1>1, <1>2, <1>4, <1>5, <1>6, <1>7, ReplyStepLemma
          DEF state, outputs, HandlerOrIdle

LEMMA HandleKeeps ==
    ASSUME IntentInv, NEW w \in Workers, Handle(w) PROVE IntentInv'
  BY StartKeeps, ParkKeeps, ReadStateKeeps, PublishKeeps, MarkKeeps, FanOutKeeps, FinishKeeps,
     AckKeeps, RetryKeeps, MoveToDlqKeeps DEF Handle

-----------------------------------------------------------------------------
\* The steps around the handlers

LEMMA ReceiveKeeps ==
    ASSUME IntentInv, NEW w \in Workers, NEW m \in MsgIds, Receive(w, m)
    PROVE  IntentInv'
  <1> DEFINE r == [pc |-> "start", msg |-> m, copy |-> stream[m].copy]
  <1>1. /\ m \in DOMAIN stream /\ Go(w, r)
        /\ UNCHANGED <<now, queues, state, outputs, counts, raced, faults>>
    BY DEF Receive
  <1>2. r \in Handler
    BY <1>1 DEF Handler, Pc, IntentInv, TypeOK, Entry
  <1>3. /\ h' \in [Workers -> HandlerOrIdle] /\ h'[w] = r
        /\ \A v \in Workers : v # w => h'[v] = h[v]
    BY <1>1, <1>2, GoLemma DEF HandlerOrIdle, IntentInv
  <1>4. TypeOK'
    BY <1>1, <1>3 DEF TypeOK, IntentInv, queues, state, outputs, counts, HandlerOrIdle
  <1>5. NoLostIntent' /\ HandedOn' /\ DelayedKeyed'
    BY <1>1 DEF IntentInv, NoLostIntent, HandedOn, DelayedKeyed, queues, state, outputs, counts
  <1>6. SameIntent'
    <2> SUFFICES ASSUME NEW v \in Workers, h'[v].pc # "idle", h'[v].msg \in DOMAIN stream
                 PROVE  stream[h'[v].msg].copy.intent = h'[v].copy.intent
      BY <1>1 DEF SameIntent, Busy, queues
    <2> QED BY <1>3 DEF IntentInv, SameIntent, Busy
  <1>7. \A v \in Workers : Busy(v)' => Stage(h[v])'
    BY <1>1, <1>3 DEF IntentInv, Busy, Stage, queues, state, outputs
  <1> QED BY <1>4, <1>5, <1>6, <1>7 DEF IntentInv

\* An entry more, under an id nobody has, disturbs nothing.
LEMMA MoreEntriesLemma ==
    ASSUME IntentInv, h' = h, UNCHANGED <<dlq, state, outputs>>, RestOK', QueueOK',
           \A m \in DOMAIN stream : m \in DOMAIN stream' /\ stream'[m] = stream[m],
           \A m \in DOMAIN stream' :
             \/ m \in DOMAIN stream /\ stream'[m] = stream[m]
             \/ \A v \in Workers : Busy(v) => h[v].msg # m,
           \A i \in Intents :
             \/ accepted'[i] = accepted[i] /\ (i \in DOMAIN delayed => i \in DOMAIN delayed')
             \/ \E m \in DOMAIN stream' : stream'[m].copy.intent = i
    PROVE  IntentInv'
  <1>1. TypeOK'
    BY DEF TypeOK, IntentInv, RestOK, QueueOK
  <1>2. NoLostIntent'
    <2> SUFFICES ASSUME NEW i \in Intents, accepted'[i] # {},
                        i \notin DOMAIN delayed', i \notin completed, i \notin dlq
                 PROVE  \E m \in DOMAIN stream' : stream'[m].copy.intent = i
      BY DEF NoLostIntent, state
    <2> QED BY DEF IntentInv, NoLostIntent
  <1>3. SameIntent'
    BY DEF IntentInv, SameIntent, Busy
  <1>4. HandedOn' /\ DelayedKeyed'
    BY DEF QueueOK, IntentInv, HandedOn, state, outputs
  <1>5. \A v \in Workers : Busy(v)' => Stage(h[v])'
    BY DEF IntentInv, Busy, Stage, state, outputs
  <1> QED BY <1>1, <1>2, <1>3, <1>4, <1>5 DEF IntentInv

\* XADD puts the intent under an id that no entry and no handler has.
LEMMA AddReadyLemma ==
    ASSUME IntentInv, NEW c \in Copy, NEW b \in BOOLEAN, AddReady(c, b)
    PROVE  /\ DOMAIN stream' \subseteq MsgIds
           /\ stream' \in [DOMAIN stream' -> Entry]
           /\ \E m \in DOMAIN stream' : stream'[m].copy.intent = c.intent
           /\ \A m \in DOMAIN stream : m \in DOMAIN stream' /\ stream'[m] = stream[m]
           /\ \A m \in DOMAIN stream' :
                \/ m \in DOMAIN stream /\ stream'[m] = stream[m]
                \/ /\ \A v \in Workers : Busy(v) => h[v].msg # m
                   /\ stream'[m].copy.intent = c.intent
                   /\ stream'[m].copy.created = c.created
  <1> DEFINE m == CHOOSE x \in FreshIds : TRUE
             d == [c EXCEPT !.notBefore = IF @ <= now THEN 0 ELSE @]
             e == [copy |-> d, readable |-> b]
  <1>1. m \in FreshIds
    BY DEF AddReady
  <1>2. d \in Copy /\ d.intent = c.intent /\ d.created = c.created
    BY ConstantsAssumption DEF Copy
  <1>3. e \in Entry /\ e.copy.intent = c.intent /\ e.copy.created = c.created
    <2> HIDE DEF d
    <2> QED BY <1>2 DEF Entry
  <1>4. m \in MsgIds \ DOMAIN stream /\ \A v \in Workers : Busy(v) => h[v].msg # m
    <2> HIDE DEF m
    <2> QED BY <1>1 DEF FreshIds
  <1>5. stream' = With(stream, m, e)
    BY DEF AddReady
  <1> HIDE DEF m, e
  <1>6. /\ stream' \in [DOMAIN stream' -> Entry] /\ DOMAIN stream' = DOMAIN stream \cup {m}
    BY <1>3, <1>5 DEF With, IntentInv, TypeOK
  <1>7. stream'[m] = e /\ \A x \in DOMAIN stream : stream'[x] = stream[x]
    BY <1>4, <1>5 DEF With
  <1> QED BY <1>3, <1>4, <1>6, <1>7 DEF IntentInv, TypeOK

LEMMA AcceptKeeps ==
    ASSUME IntentInv, NEW i \in Intents, Accept(i) PROVE IntentInv'
  <1>1. PICK t \in 0 .. MaxTime :
           AddReady([intent |-> i, attempt |-> 0, notBefore |-> t, created |-> now], TRUE)
    <2>1. Later(1) \in 0 .. MaxTime /\ 0 \in 0 .. MaxTime
      BY ConstantsAssumption DEF Later, IntentInv, TypeOK, Time
    <2> QED BY <2>1 DEF Accept
  <1>2. PICK c : c = [intent |-> i, attempt |-> 0, notBefore |-> t, created |-> now]
    OBVIOUS
  <1>3. c \in Copy /\ c.intent = i /\ AddReady(c, TRUE)
    <2>1. 0 \in 0 .. MaxAttempts - 1
      BY ConstantsAssumption
    <2>2. c \in Copy /\ c.intent = i
      BY <1>1, <1>2, <2>1 DEF Copy, IntentInv, TypeOK
    <2> QED BY <1>1, <1>2, <2>2
  <1>4. /\ DOMAIN stream' \subseteq MsgIds
        /\ stream' \in [DOMAIN stream' -> Entry]
        /\ \E m \in DOMAIN stream' : stream'[m].copy.intent = i
        /\ \A m \in DOMAIN stream : m \in DOMAIN stream' /\ stream'[m] = stream[m]
        /\ \A m \in DOMAIN stream' :
             \/ m \in DOMAIN stream /\ stream'[m] = stream[m]
             \/ \A v \in Workers : Busy(v) => h[v].msg # m
    BY <1>3, AddReadyLemma
  <1>5. /\ accepts' \in 0 .. MaxAccepts /\ accepted' \in [Intents -> SUBSET Time]
        /\ \A j \in Intents : j # i => accepted'[j] = accepted[j]
    BY ConstantsAssumption DEF Accept, IntentInv, TypeOK
  <1>6. RestOK'
    BY <1>5 DEF Accept, IntentInv, TypeOK, RestOK, state, outputs
  <1>7. /\ QueueOK' /\ h' = h /\ delayed' = delayed /\ UNCHANGED <<dlq, state, outputs>>
    BY <1>4 DEF Accept, QueueOK, DelayedKeyed, IntentInv, TypeOK
  <1>8. \A j \in Intents :
             \/ accepted'[j] = accepted[j] /\ (j \in DOMAIN delayed => j \in DOMAIN delayed')
             \/ \E m \in DOMAIN stream' : stream'[m].copy.intent = j
    BY <1>4, <1>5, <1>7
  <1> QED BY <1>4, <1>6, <1>7, <1>8, MoreEntriesLemma

LEMMA PromoteKeeps ==
    ASSUME IntentInv, NEW i \in Intents, Promote(i) PROVE IntentInv'
  <1>1. PICK c : c = delayed[i]
    OBVIOUS
  <1>2. PICK b \in BOOLEAN : b = (i \notin ZeroTarget)
    OBVIOUS
  <1>3. c \in Copy /\ c.intent = i /\ AddReady(c, b)
    BY <1>1, <1>2 DEF Promote, IntentInv, TypeOK, DelayedKeyed
  <1>4. /\ DOMAIN stream' \subseteq MsgIds
        /\ stream' \in [DOMAIN stream' -> Entry]
        /\ \E m \in DOMAIN stream' : stream'[m].copy.intent = i
        /\ \A m \in DOMAIN stream : m \in DOMAIN stream' /\ stream'[m] = stream[m]
        /\ \A m \in DOMAIN stream' :
             \/ m \in DOMAIN stream /\ stream'[m] = stream[m]
             \/ \A v \in Workers : Busy(v) => h[v].msg # m
    BY <1>3, AddReadyLemma
  <1>5. /\ DOMAIN delayed' = DOMAIN delayed \ {i} /\ delayed' \in [DOMAIN delayed' -> Copy]
        /\ \A j \in DOMAIN delayed' : delayed'[j] = delayed[j]
    BY DEF Promote, Without, IntentInv, TypeOK
  <1>6. QueueOK'
    BY <1>4, <1>5 DEF QueueOK, DelayedKeyed, IntentInv, TypeOK
  <1>7. /\ RestOK' /\ h' = h /\ accepted' = accepted /\ UNCHANGED <<dlq, state, outputs>>
    BY DEF Promote, IntentInv, TypeOK, RestOK, state, outputs, counts
  <1>8. \A j \in Intents :
             \/ accepted'[j] = accepted[j] /\ (j \in DOMAIN delayed => j \in DOMAIN delayed')
             \/ \E m \in DOMAIN stream' : stream'[m].copy.intent = j
    BY <1>4, <1>5, <1>7
  <1> QED BY <1>4, <1>6, <1>7, <1>8, MoreEntriesLemma

LEMMA TickKeeps ==
    ASSUME IntentInv, Tick PROVE IntentInv'
  <1>1. now' \in Time
    BY ConstantsAssumption DEF Tick, IntentInv, TypeOK, Time
  <1>2. RestOK' /\ QueueOK'
    BY <1>1 DEF Tick, IntentInv, TypeOK, RestOK, QueueOK, DelayedKeyed, queues, state, outputs, counts
  <1> QED BY <1>2, MoreEntriesLemma DEF Tick, queues, counts

LEMMA CrashKeeps ==
    ASSUME IntentInv, Crash PROVE IntentInv'
  <1>1. PICK W \in SUBSET {w \in Workers : Busy(w)} :
           /\ h' = [w \in Workers |-> IF w \in W THEN Idle ELSE h[w]]
           /\ raced' = raced \cup {h[w].copy.intent : w \in {v \in W : At(v, "mark")}}
    BY DEF Crash
  <1>2. \A w \in Workers : h'[w] = Idle \/ h'[w] = h[w]
    BY <1>1
  <1>3. raced' \subseteq Intents
    <2>1. \A v \in Workers : Busy(v) => h[v].copy.intent \in Intents
      BY BusyLemma DEF IntentInv
    <2> QED BY <1>1, <2>1 DEF IntentInv, TypeOK
  <1>4. crashes' \in 0 .. MaxCrashes
    BY ConstantsAssumption DEF Crash, IntentInv, TypeOK
  <1>5. TypeOK'
    <2>1. h' \in [Workers -> Handler \cup {Idle}]
      BY <1>1 DEF IntentInv, TypeOK
    <2> QED BY <1>3, <1>4, <2>1 DEF Crash, IntentInv, TypeOK, queues, state, outputs
  <1>6. NoLostIntent' /\ HandedOn' /\ DelayedKeyed'
    BY DEF Crash, IntentInv, NoLostIntent, HandedOn, DelayedKeyed, queues, state, outputs
  <1>7. SameIntent'
    BY <1>2 DEF Crash, IntentInv, SameIntent, Busy, Idle, queues
  <1>8. \A v \in Workers : Busy(v)' => Stage(h[v])'
    BY <1>2 DEF Crash, IntentInv, Busy, Stage, Idle, queues, state, outputs
  <1> QED BY <1>5, <1>6, <1>7, <1>8 DEF IntentInv

-----------------------------------------------------------------------------

LEMMA InitKeeps == Init => IntentInv
  <1> SUFFICES ASSUME Init PROVE IntentInv
    OBVIOUS
  <1>1. TypeOK
    BY ConstantsAssumption DEF Init, TypeOK, Empty, Time, Idle
  <1>2. NoLostIntent /\ HandedOn /\ SameIntent /\ DelayedKeyed
    BY DEF Init, NoLostIntent, HandedOn, SameIntent, DelayedKeyed, Empty, Idle, Busy
  <1>3. \A w \in Workers : Busy(w) => Stage(h[w])
    BY DEF Init, Busy, Idle
  <1> QED BY <1>1, <1>2, <1>3 DEF IntentInv

LEMMA StutterKeeps == IntentInv /\ UNCHANGED vars => IntentInv'
  BY DEF IntentInv, TypeOK, NoLostIntent, HandedOn, SameIntent, DelayedKeyed, Busy, Stage,
         vars, queues, state, outputs, counts

\* What every reachable state satisfies.
THEOREM IntentInvariant == Spec => []IntentInv
  <1>1. IntentInv /\ Next => IntentInv'
    BY AcceptKeeps, PromoteKeeps, HandleKeeps, CallFailsKeeps, ReceiveKeeps, TickKeeps,
       CrashKeeps DEF Next
  <1>2. IntentInv /\ [Next]_vars => IntentInv'
    BY <1>1, StutterKeeps
  <1> QED BY InitKeeps, <1>2, PTL DEF Spec

\* Types of the Redis structures and of the handlers of outbox-intent-worker.ts;
\* in particular no copy of an intent ever reaches maxAttempts.
THEOREM TypeCorrect == Spec => []TypeOK
  <1>1. IntentInv => TypeOK
    BY DEF IntentInv
  <1> QED BY IntentInvariant, <1>1, PTL

\* The 202 of the webhook is durable: no interleaving of handlers, failed
\* calls, crashes and redeliveries loses an accepted intent.
THEOREM NoIntentIsLost == Spec => []NoLostIntent
  <1>1. IntentInv => NoLostIntent
    BY DEF IntentInv
  <1> QED BY IntentInvariant, <1>1, PTL

\* The fan-out script adds the jobs of an intent at most once, however often
\* the intent is handed over, retried or processed side by side.
THEOREM FannedOutAtMostOnce == Spec => []FanOutOnce
  <1>1. IntentInv => FanOutOnce
    BY DEF IntentInv, HandedOn, FanOutOnce
  <1> QED BY IntentInvariant, <1>1, PTL

\* Nothing is fanned out that the event log does not have.
THEOREM LoggedFirst == Spec => []LoggedBeforeFanOut
  <1>1. IntentInv => LoggedBeforeFanOut
    BY DEF IntentInv, HandedOn, LoggedBeforeFanOut
  <1> QED BY IntentInvariant, <1>1, PTL

\* completedAt is never written before the event log and the outbound Stream
\* have the intent.
THEOREM CompletedIsHandedOn == Spec => []CompletedMeansHandedOn
  <1>1. IntentInv => CompletedMeansHandedOn
    BY DEF IntentInv, TypeOK, HandedOn, CompletedMeansHandedOn
  <1> QED BY IntentInvariant, <1>1, PTL

-----------------------------------------------------------------------------
\* The event log

\* Between its reading of the state and the marker.
LogPc == {"publish", "mark"}

\* Two handlers are never both about to log an intent that did not race.
LogsAlone ==
    \A w, v \in Workers :
        w # v /\ h[w].pc \in LogPc /\ h[v].pc \in LogPc
        /\ h[w].copy.intent = h[v].copy.intent => h[w].copy.intent \in raced

\* A handler that is about to publish finds no record yet.
PublishesFirst ==
    \A w \in Workers :
        At(w, "publish") => log[h[w].copy.intent] = 0 \/ h[w].copy.intent \in raced

\* A record without its marker is about to be marked.
MarkFollows ==
    \A i \in Intents : log[i] > 0 =>
        \/ i \in logged \/ i \in raced
        \/ \E w \in Workers : At(w, "mark") /\ h[w].copy.intent = i

LogInv == LogsAlone /\ PublishesFirst /\ MarkFollows /\ SecondRecordOnlyIfRaced

LEMMA GoOthers ==
    ASSUME TypeOK, NEW w \in Workers, NEW q, Go(w, q)
    PROVE  h'[w] = q /\ \A v \in Workers : v # w => h'[v] = h[v]
  BY DEF TypeOK, Go

\* What all steps of a handler have in common, except the reading of the state
\* and the publication.
QuietStep(w) ==
    /\ log' = log /\ logged \subseteq logged' /\ raced \subseteq raced'
    /\ At(w, "mark") => h[w].copy.intent \in raced' \cup logged'
    /\ \E q \in HandlerOrIdle :
          Go(w, q) /\ (q = Idle \/ (q.copy = h[w].copy /\ q.pc \notin LogPc))

LEMMA HandlerStepsAreQuiet ==
    ASSUME IntentInv, NEW w \in Workers, Handle(w) \/ CallFails(w),
           ~ReadState(w), ~Publish(w)
    PROVE  Busy(w) /\ QuietStep(w)
  <1>1. Busy(w) /\ h[w] \in Handler /\ TypeOK
    <2>1. Busy(w)
      BY DEF Handle, CallFails, Start, Park, Mark, FanOut, Finish, Ack, Retry, MoveToDlq, At, Busy
    <2> QED BY <2>1, BusyLemma DEF IntentInv
  <1>2. log' = log /\ logged \subseteq logged' /\ raced \subseteq raced'
    BY DEF Handle, CallFails, Start, Park, Mark, FanOut, Finish, Ack, Retry, MoveToDlq,
       state, outputs
  <1>3. At(w, "mark") => h[w].copy.intent \in raced' \cup logged'
    BY DEF Handle, CallFails, Start, Park, Mark, FanOut, Finish, Ack, Retry, MoveToDlq, At
  <1>4. \A p \in BOOLEAN : /\ Failed(h[w], p) \in HandlerOrIdle
                           /\ Failed(h[w], p).copy = h[w].copy
                           /\ Failed(h[w], p).pc \notin LogPc
    BY <1>1, FailedLemma DEF Unwound, HandlerOrIdle, Idle, Failed, Handler, LogPc
  <1>5. /\ Thrown(h[w]) \in HandlerOrIdle
        /\ \/ Thrown(h[w]) = Idle
           \/ Thrown(h[w]).copy = h[w].copy /\ Thrown(h[w]).pc \notin LogPc
    BY <1>1, ThrownLemma DEF Unwound, LogPc
  <1>6. \A pc \in Pc \ LogPc :
           /\ [h[w] EXCEPT !.pc = pc] \in HandlerOrIdle
           /\ [h[w] EXCEPT !.pc = pc].copy = h[w].copy
           /\ [h[w] EXCEPT !.pc = pc].pc \notin LogPc
    BY <1>1 DEF HandlerOrIdle, Handler
  <1>7. Idle \in HandlerOrIdle
    BY DEF HandlerOrIdle
  <1>8. PICK q : /\ Go(w, q)
                 /\ \/ q \in {Idle, Thrown(h[w]), Failed(h[w], TRUE)}
                    \/ \E pc \in Pc \ LogPc : q = [h[w] EXCEPT !.pc = pc]
    <2>1. CASE Start(w)
      BY <2>1 DEF Start, Pc, LogPc
    <2>2. CASE CallFails(w)
      BY <2>2 DEF CallFails
    <2>3. CASE Park(w) \/ Ack(w) \/ Retry(w)
      BY <2>3 DEF Park, Ack, Retry, Reply
    <2>4. CASE Mark(w) \/ FanOut(w) \/ Finish(w) \/ MoveToDlq(w)
      BY <2>4 DEF Mark, FanOut, Finish, MoveToDlq, Reply, Pc, LogPc
    <2> QED BY <2>1, <2>2, <2>3, <2>4 DEF Handle
  <1> QED BY <1>1, <1>2, <1>3, <1>4, <1>5, <1>6, <1>7, <1>8 DEF QuietStep

LEMMA QuietKeepsLog ==
    ASSUME IntentInv, LogInv, NEW w \in Workers, Busy(w), QuietStep(w)
    PROVE  LogInv'
  <1>1. PICK q \in HandlerOrIdle :
           Go(w, q) /\ (q = Idle \/ (q.copy = h[w].copy /\ q.pc \notin LogPc))
    BY DEF QuietStep
  <1>2. h'[w] = q /\ \A v \in Workers : v # w => h'[v] = h[v]
    BY <1>1, GoOthers DEF IntentInv
  <1>3. log' = log /\ logged \subseteq logged' /\ raced \subseteq raced'
    BY DEF QuietStep
  <1>4. \A v \in Workers : h'[v].pc \in LogPc => v # w /\ h'[v] = h[v]
    BY <1>1, <1>2 DEF Idle, LogPc
  <1>5. LogsAlone' /\ PublishesFirst'
    BY <1>3, <1>4 DEF LogInv, LogsAlone, PublishesFirst, At, LogPc
  <1>6. MarkFollows'
    <2> SUFFICES ASSUME NEW i \in Intents, log[i] > 0, i \notin logged', i \notin raced'
                 PROVE  \E v \in Workers : h'[v].pc = "mark" /\ h'[v].copy.intent = i
      BY <1>3 DEF MarkFollows, At
    <2>1. PICK v \in Workers : At(v, "mark") /\ h[v].copy.intent = i
      BY <1>3 DEF LogInv, MarkFollows
    <2>2. v # w
      BY <2>1 DEF QuietStep
    <2> QED BY <1>2, <2>1, <2>2 DEF At
  <1>7. SecondRecordOnlyIfRaced'
    BY <1>3 DEF LogInv, SecondRecordOnlyIfRaced
  <1> QED BY <1>5, <1>6, <1>7 DEF LogInv

\* A handler that decides to publish while another one is about to, races.
LEMMA ReadStateKeepsLog ==
    ASSUME IntentInv, LogInv, NEW w \in Workers, ReadState(w) PROVE LogInv'
  <1>1. Busy(w) /\ h[w] \in Handler /\ h[w].copy.intent \in Intents /\ h[w].pc = "state"
    BY BusyLemma DEF ReadState, At, Busy, IntentInv
  <1>2. PICK q : q = AfterState(w)
    OBVIOUS
  <1>3. PICK i \in Intents : i = h[w].copy.intent
    BY <1>1
  <1>4. /\ q.copy = h[w].copy /\ q.pc # "mark"
        /\ q.pc = "publish" => i \notin logged
    <2>1. CASE q = Failed(h[w], TRUE)
      BY <1>1, <2>1 DEF Failed, Handler
    <2>2. CASE q # Failed(h[w], TRUE)
      <3>1. \/ q = [h[w] EXCEPT !.pc = "ack"]
            \/ q = [h[w] EXCEPT !.pc = "publish"] /\ i \notin logged
            \/ q = [h[w] EXCEPT !.pc = "fanout"]
        BY <1>2, <1>3, <2>2 DEF AfterState, NeedsLog
      <3> QED BY <1>1, <3>1 DEF Handler
    <2> QED BY <2>1, <2>2
  <1>5. h'[w] = q /\ \A v \in Workers : v # w => h'[v] = h[v]
    <2>1. Go(w, q)
      BY <1>2 DEF ReadState
    <2> QED BY <2>1, GoOthers DEF IntentInv
  <1>6. log' = log /\ logged' = logged /\ raced \subseteq raced'
    BY DEF ReadState, state, outputs
  <1>7. BeingLogged(w, i) => i \in raced'
    BY <1>3 DEF ReadState
  <1>8. LogsAlone'
    <2> SUFFICES ASSUME NEW u \in Workers, NEW v \in Workers, u # v, h'[u].pc \in LogPc,
                        h'[v].pc \in LogPc, h'[u].copy.intent = h'[v].copy.intent,
                        h'[u].copy.intent \notin raced'
                 PROVE  FALSE
      BY DEF LogsAlone
    <2>1. CASE u # w /\ v # w
      BY <1>5, <1>6, <2>1 DEF LogInv, LogsAlone
    <2>2. CASE u = w
      <3>1. BeingLogged(w, i)
        BY <1>3, <1>4, <1>5, <2>2 DEF BeingLogged, LogPc, Busy
      <3> QED BY <1>3, <1>4, <1>5, <1>7, <2>2, <3>1
    <2>3. CASE v = w
      <3>1. BeingLogged(w, i)
        BY <1>3, <1>4, <1>5, <2>3 DEF BeingLogged, LogPc, Busy
      <3> QED BY <1>3, <1>4, <1>5, <1>7, <2>3, <3>1
    <2> QED BY <2>1, <2>2, <2>3
  <1>9. PublishesFirst'
    <2> SUFFICES ASSUME NEW v \in Workers, h'[v].pc = "publish", h'[v].copy.intent \notin raced'
                 PROVE  log[h'[v].copy.intent] = 0
      BY <1>6 DEF PublishesFirst, At
    <2>1. CASE v # w
      BY <1>5, <1>6, <2>1 DEF LogInv, PublishesFirst, At
    <2>2. CASE v = w
      <3>1. i \notin logged /\ i \notin raced' /\ ~BeingLogged(w, i) /\ h'[v].copy.intent = i
        BY <1>3, <1>4, <1>5, <1>7, <2>2
      <3>2. ~(log[i] > 0)
        BY <1>1, <1>6, <3>1 DEF LogInv, MarkFollows, BeingLogged, At, Busy
      <3> QED BY <3>1, <3>2 DEF IntentInv, TypeOK
    <2> QED BY <2>1, <2>2
  <1>10. MarkFollows'
    <2>1. \A v \in Workers : At(v, "mark") => h'[v] = h[v]
      BY <1>1, <1>5 DEF At
    <2> QED BY <1>6, <2>1 DEF LogInv, MarkFollows, At
  <1>11. SecondRecordOnlyIfRaced'
    BY <1>6 DEF LogInv, SecondRecordOnlyIfRaced
  <1> QED BY <1>8, <1>9, <1>10, <1>11 DEF LogInv

LEMMA PublishKeepsLog ==
    ASSUME IntentInv, LogInv, NEW w \in Workers, Publish(w) PROVE LogInv'
  <1>1. Busy(w) /\ h[w] \in Handler /\ h[w].copy.intent \in Intents /\ h[w].pc = "publish"
    BY BusyLemma DEF Publish, At, Busy, IntentInv
  <1>2. PICK i \in Intents : i = h[w].copy.intent
    BY <1>1
  <1>3. /\ log[i] = 0 => log'[i] = 1
        /\ \A j \in Intents : j # i => log'[j] = log[j]
    BY <1>2, OneMoreLemma DEF Publish, IntentInv, TypeOK
  <1>4. logged' = logged /\ raced \subseteq raced'
    BY DEF Publish, state
  <1>5. PICK q : /\ Go(w, q)
                 /\ \/ q = [h[w] EXCEPT !.pc = "mark"]
                    \/ q = Thrown(h[w]) /\ i \in raced'
    <2>1. faults \in Int
      BY ConstantsAssumption DEF IntentInv, TypeOK
    <2> QED BY <1>2, <2>1 DEF Publish, Reply
  <1>6. h'[w] = q /\ \A v \in Workers : v # w => h'[v] = h[v]
    BY <1>5, GoOthers DEF IntentInv
  <1>7. /\ q.pc # "publish"
        /\ q.pc \in LogPc => q.pc = "mark" /\ q.copy = h[w].copy
        /\ i \notin raced' => q.pc = "mark" /\ q.copy = h[w].copy
    <2>1. CASE q = [h[w] EXCEPT !.pc = "mark"]
      BY <1>1, <2>1 DEF Handler
    <2>2. CASE q = Thrown(h[w]) /\ i \in raced'
      BY <1>1, <2>2, ThrownLemma DEF Unwound, Idle, LogPc
    <2> QED BY <1>5, <2>1, <2>2
  <1>8. \A v \in Workers : h'[v].pc \in LogPc =>
           h[v].pc \in LogPc /\ h'[v].copy.intent = h[v].copy.intent
    BY <1>1, <1>6, <1>7 DEF LogPc
  <1>9. LogsAlone'
    BY <1>4, <1>8 DEF LogInv, LogsAlone
  <1>10. PublishesFirst'
    <2> SUFFICES ASSUME NEW v \in Workers, h'[v].pc = "publish", h'[v].copy.intent \notin raced'
                 PROVE  log'[h'[v].copy.intent] = 0
      BY DEF PublishesFirst, At
    <2>1. v # w /\ h'[v] = h[v]
      BY <1>6, <1>7
    <2>2. h[v].copy.intent \in Intents
      BY <2>1, BusyLemma DEF Busy, IntentInv
    <2>3. h[v].copy.intent # i
      BY <1>1, <1>2, <1>4, <2>1 DEF LogInv, LogsAlone, LogPc
    <2> QED BY <1>3, <1>4, <2>1, <2>2, <2>3 DEF LogInv, PublishesFirst, At
  <1>11. MarkFollows'
    <2> SUFFICES ASSUME NEW j \in Intents, log'[j] > 0, j \notin logged, j \notin raced'
                 PROVE  \E v \in Workers : h'[v].pc = "mark" /\ h'[v].copy.intent = j
      BY <1>4 DEF MarkFollows, At
    <2>1. CASE j = i
      BY <1>2, <1>6, <1>7, <2>1
    <2>2. CASE j # i
      <3>1. PICK v \in Workers : At(v, "mark") /\ h[v].copy.intent = j
        BY <1>3, <1>4, <2>2 DEF LogInv, MarkFollows
      <3> QED BY <1>1, <1>6, <3>1 DEF At
    <2> QED BY <2>1, <2>2
  <1>12. SecondRecordOnlyIfRaced'
    <2> SUFFICES ASSUME NEW j \in Intents, log'[j] > 1, j \notin raced'
                 PROVE  FALSE
      BY DEF SecondRecordOnlyIfRaced
    <2>1. j = i
      BY <1>3, <1>4 DEF LogInv, SecondRecordOnlyIfRaced
    <2>2. log[i] = 0
      BY <1>1, <1>2, <1>4, <2>1 DEF LogInv, PublishesFirst, At
    <2> QED BY <1>3, <2>1, <2>2
  <1> QED BY <1>9, <1>10, <1>11, <1>12 DEF LogInv

LEMMA NextKeepsLog ==
    ASSUME IntentInv, LogInv, [Next]_vars PROVE LogInv'
  <1>1. ASSUME UNCHANGED <<log, logged, raced, h>> PROVE LogInv'
    BY <1>1 DEF LogInv, LogsAlone, PublishesFirst, MarkFollows, SecondRecordOnlyIfRaced, At
  <1>2. CASE UNCHANGED vars \/ Tick \/ \E i \in Intents : Accept(i) \/ Promote(i)
    <2>1. UNCHANGED <<log, logged, raced, h>>
      BY <1>2 DEF vars, Tick, Accept, Promote, state, outputs
    <2> QED BY <1>1, <2>1
  <1>3. ASSUME NEW w \in Workers, Handle(w) \/ CallFails(w) PROVE LogInv'
    <2>1. CASE ReadState(w)
      BY <2>1, ReadStateKeepsLog
    <2>2. CASE Publish(w)
      BY <2>2, PublishKeepsLog
    <2>3. CASE ~ReadState(w) /\ ~Publish(w)
      BY <1>3, <2>3, HandlerStepsAreQuiet, QuietKeepsLog
    <2> QED BY <2>1, <2>2, <2>3
  <1>4. ASSUME NEW w \in Workers, NEW m \in MsgIds, Receive(w, m) PROVE LogInv'
    <2>1. PICK q : Go(w, q) /\ q.pc = "start"
      BY <1>4 DEF Receive
    <2>2. h'[w] = q /\ \A v \in Workers : v # w => h'[v] = h[v]
      BY <2>1, GoOthers DEF IntentInv
    <2>3. UNCHANGED <<log, logged, raced>> /\ ~Busy(w)
      BY <1>4 DEF Receive, state, outputs
    <2> QED BY <2>1, <2>2, <2>3
            DEF LogInv, LogsAlone, PublishesFirst, MarkFollows, SecondRecordOnlyIfRaced, At,
                Busy, LogPc
  <1>5. CASE Crash
    <2>1. PICK W \in SUBSET {w \in Workers : Busy(w)} :
             /\ h' = [w \in Workers |-> IF w \in W THEN Idle ELSE h[w]]
             /\ raced' = raced \cup {h[w].copy.intent : w \in {v \in W : At(v, "mark")}}
      BY <1>5 DEF Crash
    <2>2. \A w \in Workers : IF w \in W THEN h'[w].pc = "idle" ELSE h'[w] = h[w]
      BY <2>1 DEF Idle
    <2>3. log' = log /\ logged' = logged /\ raced \subseteq raced'
      BY <1>5, <2>1 DEF Crash, state, outputs
    <2>4. \A v \in Workers : h'[v].pc \in LogPc => h'[v] = h[v]
      BY <2>2 DEF LogPc
    <2>5. LogsAlone' /\ PublishesFirst' /\ SecondRecordOnlyIfRaced'
      BY <2>3, <2>4 DEF LogInv, LogsAlone, PublishesFirst, SecondRecordOnlyIfRaced, At, LogPc
    <2>6. MarkFollows'
      <3> SUFFICES ASSUME NEW i \in Intents, log[i] > 0, i \notin logged, i \notin raced'
                   PROVE  \E v \in Workers : h'[v].pc = "mark" /\ h'[v].copy.intent = i
        BY <2>3 DEF MarkFollows, At
      <3>1. PICK v \in Workers : At(v, "mark") /\ h[v].copy.intent = i
        BY <2>3 DEF LogInv, MarkFollows
      <3>2. v \notin W
        BY <2>1, <3>1
      <3> QED BY <2>2, <3>1, <3>2 DEF At
    <2> QED BY <2>5, <2>6 DEF LogInv
  <1> QED BY <1>2, <1>3, <1>4, <1>5 DEF Next

LEMMA InitLog == Init => LogInv
  BY DEF Init, LogInv, LogsAlone, PublishesFirst, MarkFollows, SecondRecordOnlyIfRaced, At,
     Idle, LogPc

\* The event log has an intent twice only after a crash or a failed call
\* between record and marker, or if two handlers read the state side by side.
THEOREM SecondRecordIsRaced == Spec => []SecondRecordOnlyIfRaced
  <1>1. LogInv => SecondRecordOnlyIfRaced
    BY DEF LogInv
  <1> QED BY IntentInvariant, InitLog, NextKeepsLog, <1>1, PTL DEF Spec

-----------------------------------------------------------------------------
\* The age of an intent

\* Every copy of an intent carries the instant of one of its hand-overs.
Dated(c) == c.created \in accepted[c.intent]

AgesKept ==
    /\ \A m \in DOMAIN stream : Dated(stream[m].copy)
    /\ \A i \in DOMAIN delayed : Dated(delayed[i])
    /\ \A w \in Workers : Busy(w) => Dated(h[w].copy)

\* A handler works on the copy it read.
LEMMA CopyStays ==
    ASSUME IntentInv, NEW w \in Workers, Handle(w) \/ CallFails(w)
    PROVE  \A v \in Workers : Busy(v)' => Busy(v) /\ h'[v].copy = h[v].copy
  <1>1. Busy(w) /\ h[w] \in Handler
    <2>1. Busy(w)
      BY DEF Handle, CallFails, Start, Park, ReadState, Publish, Mark, FanOut, Finish, Ack,
         Retry, MoveToDlq, At, Busy
    <2> QED BY <2>1, BusyLemma DEF IntentInv
  <1>2. PICK q : Go(w, q) /\ (q = Idle \/ q.copy = h[w].copy)
    <2>1. CASE ReadState(w)
      <3>1. AfterState(w).copy = h[w].copy
        BY <1>1 DEF AfterState, Failed, Handler
      <3> QED BY <2>1, <3>1 DEF ReadState
    <2>2. CASE Publish(w)
      <3>1. [h[w] EXCEPT !.pc = "mark"].copy = h[w].copy
        BY <1>1 DEF Handler
      <3>2. Thrown(h[w]) = Idle \/ Thrown(h[w]).copy = h[w].copy
        BY <1>1, ThrownLemma DEF Unwound
      <3> QED BY <2>2, <3>1, <3>2 DEF Publish, Reply
    <2>3. CASE ~ReadState(w) /\ ~Publish(w)
      BY <2>3, HandlerStepsAreQuiet DEF QuietStep
    <2> QED BY <2>1, <2>2, <2>3
  <1>3. h'[w] = q /\ \A v \in Workers : v # w => h'[v] = h[v]
    BY <1>2, GoOthers DEF IntentInv
  <1> QED BY <1>1, <1>2, <1>3 DEF Busy, Idle

LEMMA HandleKeepsAges ==
    ASSUME IntentInv, AgesKept, NEW w \in Workers, Handle(w) \/ CallFails(w)
    PROVE  AgesKept'
  <1>0. accepted' = accepted
    BY DEF Handle, CallFails, Start, Park, ReadState, Publish, Mark, FanOut, Finish, Ack,
       Retry, MoveToDlq, counts
  <1>1. \A v \in Workers : Busy(v)' => Dated(h[v].copy)'
    BY <1>0, CopyStays DEF AgesKept, Dated
  <1>2. ASSUME NEW c \in Copy, Dated(c), Replace(c, h[w].msg)
        PROVE  AgesKept'
    <2>1. /\ \A m \in DOMAIN stream' : m \in DOMAIN stream /\ stream'[m] = stream[m]
          /\ \A j \in DOMAIN delayed' :
               delayed'[j] = c \/ (j \in DOMAIN delayed /\ delayed'[j] = delayed[j])
      BY <1>2, ReplaceLemma
    <2> QED BY <1>0, <1>1, <1>2, <2>1 DEF AgesKept, Dated
  <1>3. ASSUME UNCHANGED <<stream, delayed>> PROVE AgesKept'
    BY <1>0, <1>1, <1>3 DEF AgesKept, Dated
  <1>4. Busy(w) => h[w].copy \in Copy /\ Dated(h[w].copy)
    BY BusyLemma DEF IntentInv, AgesKept
  <1>5. CASE Park(w)
    BY <1>2, <1>3, <1>4, <1>5 DEF Park, At, Busy
  <1>6. CASE Retry(w)
    <2> DEFINE c == [h[w].copy EXCEPT !.attempt = @ + 1, !.notBefore = Later(Backoff)]
    <2>1. h[w].copy \in Copy /\ Dated(h[w].copy) /\ h[w].pc = "retry" /\ Busy(w)
      BY <1>4, <1>6 DEF Retry, At, Busy
    <2>2. h[w].copy.attempt + 1 \in 0 .. MaxAttempts - 1
      BY <2>1, ConstantsAssumption DEF Copy, IntentInv, Stage
    <2>3. Later(Backoff) \in 0 .. MaxTime
      BY ConstantsAssumption DEF Later, IntentInv, TypeOK, Time
    <2>4. c \in Copy /\ Dated(c)
      BY <2>1, <2>2, <2>3 DEF Copy, Dated
    <2>5. Replace(c, h[w].msg)
      BY <1>6 DEF Retry
    <2> HIDE DEF c
    <2> QED BY <1>2, <2>4, <2>5
  <1>7. CASE Ack(w)
    BY <1>0, <1>1, <1>7 DEF Ack, Without, AgesKept, Dated
  <1>8. CASE ~Park(w) /\ ~Retry(w) /\ ~Ack(w)
    BY <1>3, <1>8 DEF Handle, CallFails, Start, ReadState, Publish, Mark, FanOut, Finish,
       MoveToDlq, queues
  <1> QED BY <1>5, <1>6, <1>7, <1>8

LEMMA NextKeepsAges ==
    ASSUME IntentInv, AgesKept, [Next]_vars PROVE AgesKept'
  <1>1. CASE UNCHANGED vars \/ Tick
    BY <1>1 DEF vars, Tick, queues, counts, AgesKept, Dated, Busy
  <1>2. ASSUME NEW w \in Workers, Handle(w) \/ CallFails(w) PROVE AgesKept'
    BY <1>2, HandleKeepsAges
  <1>3. ASSUME NEW w \in Workers, NEW m \in MsgIds, Receive(w, m) PROVE AgesKept'
    <2>1. PICK q : Go(w, q) /\ q.copy = stream[m].copy
      BY <1>3 DEF Receive
    <2>2. h'[w] = q /\ \A v \in Workers : v # w => h'[v] = h[v]
      BY <2>1, GoOthers DEF IntentInv
    <2>3. UNCHANGED <<stream, delayed, accepted>> /\ m \in DOMAIN stream
      BY <1>3 DEF Receive, queues, counts
    <2> QED BY <2>1, <2>2, <2>3 DEF AgesKept, Dated, Busy
  <1>4. CASE Crash
    <2>1. UNCHANGED <<stream, delayed, accepted>>
      BY <1>4 DEF Crash, queues
    <2>2. \A v \in Workers : h'[v].pc # "idle" => h'[v] = h[v]
      BY <1>4 DEF Crash, Idle
    <2> QED BY <2>1, <2>2 DEF AgesKept, Dated, Busy
  <1>5. ASSUME NEW c \in Copy, NEW b \in BOOLEAN, AddReady(c, b), h' = h,
               c.created \in accepted'[c.intent],
               \A j \in Intents : accepted[j] \subseteq accepted'[j],
               \A j \in DOMAIN delayed' : j \in DOMAIN delayed /\ delayed'[j] = delayed[j]
        PROVE  AgesKept'
    <2>1. \A m \in DOMAIN stream' :
             \/ m \in DOMAIN stream /\ stream'[m] = stream[m]
             \/ stream'[m].copy.intent = c.intent /\ stream'[m].copy.created = c.created
      BY <1>5, AddReadyLemma
    <2>2. /\ \A m \in DOMAIN stream : stream[m].copy.intent \in Intents
          /\ \A j \in DOMAIN delayed : delayed[j].intent \in Intents
          /\ \A w \in Workers : Busy(w) => h[w].copy.intent \in Intents
      BY BusyLemma DEF IntentInv, TypeOK, Entry, Copy
    <2> QED BY <1>5, <2>1, <2>2 DEF AgesKept, Dated, Busy
  <1>6. ASSUME NEW i \in Intents, Accept(i) PROVE AgesKept'
    <2>1. PICK t \in 0 .. MaxTime :
             AddReady([intent |-> i, attempt |-> 0, notBefore |-> t, created |-> now], TRUE)
      <3>1. Later(1) \in 0 .. MaxTime /\ 0 \in 0 .. MaxTime
        BY ConstantsAssumption DEF Later, IntentInv, TypeOK, Time
      <3> QED BY <1>6, <3>1 DEF Accept
    <2> DEFINE c == [intent |-> i, attempt |-> 0, notBefore |-> t, created |-> now]
    <2>2. c \in Copy /\ c.intent = i /\ c.created = now /\ AddReady(c, TRUE)
      <3>1. 0 \in 0 .. MaxAttempts - 1
        BY ConstantsAssumption
      <3> QED BY <2>1, <3>1 DEF Copy, IntentInv, TypeOK
    <2> HIDE DEF c
    <2>3. /\ h' = h /\ delayed' = delayed /\ now \in accepted'[i]
          /\ \A j \in Intents : accepted[j] \subseteq accepted'[j]
      BY <1>6 DEF Accept, IntentInv, TypeOK
    <2> QED BY <1>5, <2>2, <2>3
  <1>7. ASSUME NEW i \in Intents, Promote(i) PROVE AgesKept'
    <2>1. PICK b \in BOOLEAN : b = (i \notin ZeroTarget)
      OBVIOUS
    <2>2. PICK c \in Copy : c = delayed[i] /\ AddReady(c, b) /\ Dated(c)
      BY <1>7, <2>1 DEF Promote, IntentInv, TypeOK, AgesKept
    <2>3. /\ h' = h /\ accepted' = accepted
          /\ \A j \in DOMAIN delayed' : j \in DOMAIN delayed /\ delayed'[j] = delayed[j]
      BY <1>7 DEF Promote, counts, Without
    <2> QED BY <1>5, <2>2, <2>3 DEF Dated
  <1> QED BY <1>1, <1>2, <1>3, <1>4, <1>6, <1>7 DEF Next

LEMMA InitAges == Init => AgesKept
  BY DEF Init, AgesKept, Empty, Busy, Idle

\* Copies of an intent keep the age of one of its hand-overs, through retries,
\* parking and promotion.
THEOREM AgeInvariant == Spec => []AgesKept
  BY IntentInvariant, InitAges, NextKeepsAges, PTL DEF Spec

LEMMA FanOutsAreTimely ==
    ASSUME IntentInv, AgesKept, [Next]_vars, NEW i \in Intents, fanned'[i] > fanned[i]
    PROVE  \E t \in accepted[i] : now - t <= MaxAge
  <1>0. fanned[i] \in Int
    BY DEF IntentInv, TypeOK
  <1>1. PICK w \in Workers : FanOut(w)
    <2>1. fanned' # fanned
      BY <1>0
    <2>2. \A w \in Workers : Handle(w) /\ ~FanOut(w) => fanned' = fanned
      BY DEF Handle, Start, Park, ReadState, Publish, Mark, Finish, Ack, Retry, MoveToDlq, outputs
    <2>3. ~(\E w \in Workers : CallFails(w) \/ \E m \in MsgIds : Receive(w, m))
      BY <2>1 DEF CallFails, Receive, outputs
    <2>4. ~(\E j \in Intents : Accept(j) \/ Promote(j)) /\ ~Tick /\ ~Crash /\ ~UNCHANGED vars
      BY <2>1 DEF Accept, Promote, Tick, Crash, vars, outputs
    <2>5. PICK w \in Workers : Handle(w)
      BY <2>3, <2>4 DEF Next
    <2> QED BY <2>1, <2>2, <2>5
  <1>2. Busy(w) /\ h[w].copy \in Copy /\ Dated(h[w].copy)
    BY <1>1, BusyLemma DEF FanOut, At, Busy, IntentInv, AgesKept
  <1>3. /\ h[w].copy.intent \notin ZeroTarget /\ ~FanOutRejected(h[w])
        /\ fanned' = OneMore(fanned, h[w].copy.intent)
    <2>1. fanned' # fanned
      BY <1>0
    <2> QED BY <2>1, <1>1 DEF FanOut
  <1>4. h[w].copy.intent = i
    BY <1>0, <1>2, <1>3, OneMoreLemma DEF IntentInv, TypeOK, Copy
  <1>5. ~(now - h[w].copy.created > MaxAge)
    BY <1>3 DEF FanOutRejected, TooOldToFanOut, TooOld
  <1>6. now - h[w].copy.created <= MaxAge
    BY <1>2, <1>5, ConstantsAssumption DEF IntentInv, TypeOK, Copy, Time
  <1> QED BY <1>2, <1>4, <1>6 DEF Dated

\* However long publication took, jobs are created only within MaxAge of a
\* hand-over of the intent.
THEOREM NoLateFanOut == Spec => NoFanOutPastAge
  <1>1. ASSUME IntentInv, AgesKept, [Next]_vars
        PROVE  [\A i \in Intents : fanned'[i] > fanned[i] =>
                  \E t \in accepted[i] : now - t <= MaxAge]_vars
    BY <1>1, FanOutsAreTimely
  <1> QED BY <1>1, IntentInvariant, AgeInvariant, PTL DEF Spec, NoFanOutPastAge
=============================================================================
