----------------------------- MODULE OutboxIntent -----------------------------
(***************************************************************************)
(* From the webhook's 202 to the outbound Stream: outbox intents in their  *)
(* ready Stream, the delayed store of their retries, the state hash of     *)
(* each intent, the event log they are published to and the fan-out into   *)
(* outbound jobs.  Sources: outbox-intent-worker.ts,                       *)
(* outbox-intent-delay-scheduler.ts and the outbox-intent operations of    *)
(* sidecar-redis-queue-core.ts under fedify-sidecar/src.                   *)
(*                                                                         *)
(* A worker of the model is one handler slot of processIntent.  Every call *)
(* to Redis or to the event log is a step of its own and may fail before   *)
(* or after it took effect.                                                *)
(***************************************************************************)
EXTENDS Integers, FiniteSets

CONSTANTS
    Intents,     \* intent ids
    ZeroTarget,  \* intents that deliver to nobody
    Malformed,   \* intents whose activity does not parse
    Unusable,    \* intents with targets, none of them a valid delivery URL
    Workers,     \* handler slots, over all sidecar processes
    MsgIds,      \* ids of Stream entries
    MaxAge,      \* APDM_OUTBOX_INTENT_MAX_AGE_MS
    Backoff,     \* backoffMs of a retry
    MaxAttempts, \* maxAttempts of an intent
    EarlyEntries,\* entries of the ready Stream may be future-dated
    MaxTime,     \* bound: the last instant of the clock
    MaxAccepts,  \* bound: how often the producer hands intents over
    MaxFaults,   \* bound: calls that fail
    MaxCrashes   \* bound: process crashes

ASSUME ConstantsAssumption ==
    /\ ZeroTarget \cup Malformed \cup Unusable \subseteq Intents
    /\ {MaxAge, MaxAccepts, MaxFaults, MaxCrashes} \subseteq Nat
    /\ {Backoff, MaxAttempts, MaxTime} \subseteq Nat \ {0}
    /\ EarlyEntries \in BOOLEAN

VARIABLES
    now,       \* the clock every process reads
    stream,    \* ready Stream: id -> entry, for the entries not acknowledged
    delayed,   \* delayed store: intent -> copy
    logged,    \* intents whose state has eventLogPublishedAt
    enqueued,  \* intents whose state has outboundEnqueuedAt
    completed, \* intents whose state has completedAt
    dlq,       \* intents with a record in the outbox-intent DLQ
    log,       \* history: intent -> records in the event log (2: or more)
    fanned,    \* history: intent -> times its jobs were added (2: or more)
    h,         \* the handlers
    accepted,  \* history: intent -> instants at which it was accepted
    accepts,   \* number of hand-overs so far
    raced,     \* history: intents whose log record lost its marker, or that
               \* two handlers published side by side
    faults,    \* number of failed calls so far
    crashes    \* number of crashes so far

state == <<logged, enqueued, completed>>
queues == <<stream, delayed, dlq>>
outputs == <<log, fanned>>
counts == <<accepted, accepts, crashes>>
vars == <<now, queues, state, outputs, h, counts, raced, faults>>

Time == 1 .. MaxTime

\* An intent as it travels: a notBefore of 0 is "not set".
Copy == [intent : Intents, attempt : 0 .. MaxAttempts - 1,
         notBefore : 0 .. MaxTime, created : Time]

\* An entry is readable if its targets still are an array.
Entry == [copy : Copy, readable : BOOLEAN]

Pc == {"start", "park", "state", "publish", "mark", "fanout", "finish", "ack",
       "retry", "dlq", "dlqAck"}

Handler == [pc : Pc, msg : MsgIds, copy : Copy]
Idle == [pc |-> "idle"]

TypeOK ==
    /\ now \in Time
    /\ DOMAIN stream \subseteq MsgIds
    /\ stream \in [DOMAIN stream -> Entry]
    /\ DOMAIN delayed \subseteq Intents
    /\ delayed \in [DOMAIN delayed -> Copy]
    /\ {logged, enqueued, completed, dlq, raced} \subseteq SUBSET Intents
    /\ log \in [Intents -> 0 .. 2]
    /\ fanned \in [Intents -> 0 .. 2]
    /\ h \in [Workers -> Handler \cup {Idle}]
    /\ accepted \in [Intents -> SUBSET Time]
    /\ accepts \in 0 .. MaxAccepts
    /\ faults \in 0 .. MaxFaults
    /\ crashes \in 0 .. MaxCrashes

-----------------------------------------------------------------------------
\* Helpers

Busy(w) == h[w].pc # "idle"
At(w, pc) == h[w].pc = pc
Go(w, r) == h' = [h EXCEPT ![w] = r]

\* The empty function; f without m; f with the value v at m.
Empty == [x \in {} |-> x]
Without(f, m) == [x \in DOMAIN f \ {m} |-> f[x]]
With(f, m, v) == [x \in DOMAIN f \cup {m} |-> IF x = m THEN v ELSE f[x]]

\* One record more in a history that counts to two.
OneMore(f, i) == [f EXCEPT ![i] = IF @ = 2 THEN 2 ELSE @ + 1]

\* A Stream id no entry has and no handler remembers; Redis never reuses one.
FreshIds == MsgIds \ (DOMAIN stream \cup {h[w].msg : w \in {v \in Workers : Busy(v)}})

\* XADD; a deadline that has passed reads as none.
AddReady(c, readable) ==
    /\ FreshIds # {}
    /\ stream' = With(stream, CHOOSE m \in FreshIds : TRUE,
                      [copy |-> [c EXCEPT !.notBefore = IF @ <= now THEN 0 ELSE @],
                       readable |-> readable])

\* Past the bound of the clock every deadline is its last instant.
Later(d) == IF now + d > MaxTime THEN MaxTime ELSE now + d

\* assertIntentWithinReplayHorizon fails.
TooOld(c) == now - c.created > MaxAge

\* A stored copy wins over a new one of an earlier attempt, or of the same
\* attempt that is due no later.
Outlives(old, new) ==
    \/ old.attempt > new.attempt
    \/ old.attempt = new.attempt /\ old.notBefore >= new.notBefore

\* persistReplacementAndAck: one script stores the copy and acknowledges the
\* entry.
Replace(c, msg) ==
    /\ delayed' = IF c.intent \in DOMAIN delayed /\ Outlives(delayed[c.intent], c)
                  THEN delayed ELSE With(delayed, c.intent, c)
    /\ stream' = Without(stream, msg)

\* Wrong: the attempt limit is off by one.
FailedOneMore(r, permanent) ==
    [r EXCEPT !.pc = IF permanent \/ r.copy.attempt + 1 > MaxAttempts THEN "dlq" ELSE "retry"]

\* Wrong: the entry is acknowledged without a DLQ record.
FailedNoDlq(r, permanent) ==
    [r EXCEPT !.pc = IF permanent \/ r.copy.attempt + 1 >= MaxAttempts THEN "dlqAck" ELSE "retry"]

\* The catch block of processIntent: the DLQ for a permanent failure or the
\* last attempt, a retry otherwise.
Failed(r, permanent) ==
    [r EXCEPT !.pc = IF permanent \/ r.copy.attempt + 1 >= MaxAttempts THEN "dlq" ELSE "retry"]

\* Steps of the try block that call Redis or the event log.
TryPc == {"state", "publish", "mark", "fanout", "finish", "ack"}

\* Wrong: a failed fan-out is logged and the intent completed.
ThrownSwallowed(r) ==
    IF r.pc = "fanout" THEN [r EXCEPT !.pc = "finish"]
    ELSE IF r.pc \in TryPc THEN Failed(r, FALSE) ELSE Idle

\* The handler after its call threw: the try block enters the catch block; a
\* failed parking or a failed call of the catch block leaves the entry pending.
Thrown(r) == IF r.pc \in TryPc THEN Failed(r, FALSE) ELSE Idle

\* The call took effect; its reply arrives, or is lost and the call throws.
Reply(w, r) ==
    \/ Go(w, r) /\ UNCHANGED faults
    \/ /\ faults < MaxFaults
       /\ faults' = faults + 1
       /\ Go(w, Thrown(h[w]))

\* The call throws without having taken effect; the event log may also be
\* unavailable to the worker altogether.
CallFails(w) ==
    /\ Busy(w) /\ ~At(w, "start")
    /\ faults < MaxFaults
    /\ faults' = faults + 1
    /\ Go(w, Thrown(h[w]))
    /\ raced' = IF At(w, "mark") THEN raced \cup {h[w].copy.intent} ELSE raced
    /\ UNCHANGED <<now, queues, state, outputs, counts>>

-----------------------------------------------------------------------------
\* Producer, promotion, clock, crash

\* The webhook accepts a hand-over; a repeated one creates a new record of the
\* same intent.
Accept(i) ==
    /\ accepts < MaxAccepts
    /\ accepts' = accepts + 1
    /\ accepted' = [accepted EXCEPT ![i] = @ \cup {now}]
    /\ \E t \in {0} \cup (IF EarlyEntries THEN {Later(1)} ELSE {}) :
         AddReady([intent |-> i, attempt |-> 0, notBefore |-> t, created |-> now], TRUE)
    /\ UNCHANGED <<now, delayed, dlq, state, outputs, h, raced, faults, crashes>>

\* ZRANGEBYSCORE -inf now.
Due(c) == c.notBefore <= now

\* promoteDue: one script moves a due intent back to the ready Stream.  It
\* decodes and encodes the targets again, and cjson encodes an empty table as
\* an object.
Promote(i) ==
    /\ i \in DOMAIN delayed
    /\ Due(delayed[i])
    /\ AddReady(delayed[i], i \notin ZeroTarget)
    /\ delayed' = Without(delayed, i)
    /\ UNCHANGED <<now, dlq, state, outputs, h, counts, raced, faults>>

Tick ==
    /\ now < MaxTime
    /\ now' = now + 1
    /\ UNCHANGED <<queues, state, outputs, h, counts, raced, faults>>

\* A process dies with the handlers W it hosts.
Crash ==
    /\ crashes < MaxCrashes
    /\ crashes' = crashes + 1
    /\ \E W \in SUBSET {w \in Workers : Busy(w)} :
        /\ W # {}
        /\ h' = [w \in Workers |-> IF w \in W THEN Idle ELSE h[w]]
        /\ raced' = raced \cup {h[w].copy.intent : w \in {v \in W : At(v, "mark")}}
    /\ UNCHANGED <<now, queues, state, outputs, accepted, accepts, faults>>

-----------------------------------------------------------------------------
\* consumeOutboxIntents and processIntent

\* XREADGROUP of a new entry or XAUTOCLAIM of one that idles in the
\* pending-entry list, also while a handler still works on it.
\* deserializeOutboxIntent rejects an entry whose targets are no array; it
\* stays pending.
Receive(w, m) ==
    /\ ~Busy(w)
    /\ m \in DOMAIN stream
    /\ stream[m].readable
    /\ Go(w, [pc |-> "start", msg |-> m, copy |-> stream[m].copy])
    /\ UNCHANGED <<now, queues, state, outputs, counts, raced, faults>>

\* The horizon is checked first, then the intent's own deadline.
Start(w) ==
    /\ At(w, "start")
    /\ LET r == h[w] IN
       \/ TooOld(r.copy) /\ Go(w, Failed(r, TRUE))
       \/ ~TooOld(r.copy) /\ now < r.copy.notBefore /\ Go(w, [r EXCEPT !.pc = "park"])
       \/ ~TooOld(r.copy) /\ now >= r.copy.notBefore /\ Go(w, [r EXCEPT !.pc = "state"])
    /\ UNCHANGED <<now, queues, state, outputs, counts, raced, faults>>

\* A future-dated intent moves to the delayed store unchanged; by now it may
\* be due, and the scheduler refuses it.
Park(w) ==
    /\ At(w, "park")
    /\ \/ /\ now < h[w].copy.notBefore
          /\ Replace(h[w].copy, h[w].msg)
          /\ Reply(w, Idle)
       \/ /\ now >= h[w].copy.notBefore
          /\ Go(w, Idle)
          /\ UNCHANGED <<stream, delayed, faults>>
    /\ UNCHANGED <<now, dlq, state, outputs, counts, raced>>

\* Wrong: every handler publishes, whatever the state says.
NeedsLogAlways(i) == TRUE

\* Wrong: no handler publishes.
NeedsLogNever(i) == FALSE

\* The state read has no eventLogPublishedAt.
NeedsLog(i) == i \notin logged

\* getOutboxIntentState, and what it decides: a completed intent is only
\* acknowledged.
AfterState(w) ==
    LET i == h[w].copy.intent
    IN  CASE i \in completed -> [h[w] EXCEPT !.pc = "ack"]
          [] i \notin completed /\ i \in Malformed -> Failed(h[w], TRUE)
          [] i \notin completed \cup Malformed /\ NeedsLog(i) -> [h[w] EXCEPT !.pc = "publish"]
          [] OTHER -> [h[w] EXCEPT !.pc = "fanout"]

\* Another handler is about to publish intent i, or to mark it published.
BeingLogged(w, i) ==
    \E v \in Workers \ {w} : Busy(v) /\ h[v].pc \in {"publish", "mark"} /\ h[v].copy.intent = i

ReadState(w) ==
    /\ At(w, "state")
    /\ Go(w, AfterState(w))
    /\ raced' = IF BeingLogged(w, h[w].copy.intent) THEN raced \cup {h[w].copy.intent} ELSE raced
    /\ UNCHANGED <<now, queues, state, outputs, counts, faults>>

\* publishEventLog: the event log took the record, and says so or not.
Publish(w) ==
    /\ At(w, "publish")
    /\ log' = OneMore(log, h[w].copy.intent)
    /\ Reply(w, [h[w] EXCEPT !.pc = "mark"])
    /\ raced' = IF faults' # faults THEN raced \cup {h[w].copy.intent} ELSE raced
    /\ UNCHANGED <<now, queues, state, fanned, counts>>

\* markOutboxIntentEventLogPublished.
Mark(w) ==
    /\ At(w, "mark")
    /\ logged' = logged \cup {h[w].copy.intent}
    /\ Reply(w, [h[w] EXCEPT !.pc = "fanout"])
    /\ UNCHANGED <<now, queues, enqueued, completed, outputs, counts, raced>>

\* Wrong: the script does not look at outboundEnqueuedAt.
FannedOutNever(i) == FALSE

\* The script finds outboundEnqueuedAt.
FannedOut(i) == i \in enqueued

\* Wrong: the age is not checked again.
TooOldNever(c) == FALSE

\* The horizon check at "outbound fan-out".
TooOldToFanOut(c) == TooOld(c)

\* The targets are normalised and the age is read again before the fan-out.
FanOutRejected(r) ==
    /\ r.copy.intent \notin ZeroTarget
    /\ r.copy.intent \in Unusable \/ TooOldToFanOut(r.copy)

\* enqueueOutboundBatchForIntent: one script adds the jobs of all targets and
\* writes outboundEnqueuedAt, unless it is there; with no target it only
\* writes it.
FanOut(w) ==
    /\ At(w, "fanout")
    /\ LET i == h[w].copy.intent IN
       \/ /\ FanOutRejected(h[w])
          /\ Go(w, Failed(h[w], TRUE))
          /\ UNCHANGED <<enqueued, fanned, faults>>
       \/ /\ ~FanOutRejected(h[w])
          /\ fanned' = IF i \in ZeroTarget \/ FannedOut(i) THEN fanned ELSE OneMore(fanned, i)
          /\ enqueued' = enqueued \cup {i}
          /\ Reply(w, [h[w] EXCEPT !.pc = "finish"])
    /\ UNCHANGED <<now, queues, logged, completed, log, counts, raced>>

\* markOutboxIntentCompleted.
Finish(w) ==
    /\ At(w, "finish")
    /\ completed' = completed \cup {h[w].copy.intent}
    /\ Reply(w, [h[w] EXCEPT !.pc = "ack"])
    /\ UNCHANGED <<now, queues, logged, enqueued, outputs, counts, raced>>

\* XACK, of a completed intent or of one that is in the DLQ.
Ack(w) ==
    /\ h[w].pc \in {"ack", "dlqAck"}
    /\ stream' = Without(stream, h[w].msg)
    /\ Reply(w, Idle)
    /\ UNCHANGED <<now, delayed, dlq, state, outputs, counts, raced>>

\* The replacement of a failed attempt; its deadline counts from the failure.
Retry(w) ==
    /\ At(w, "retry")
    /\ Replace([h[w].copy EXCEPT !.attempt = @ + 1, !.notBefore = Later(Backoff)], h[w].msg)
    /\ Reply(w, Idle)
    /\ UNCHANGED <<now, dlq, state, outputs, counts, raced>>

MoveToDlq(w) ==
    /\ At(w, "dlq")
    /\ dlq' = dlq \cup {h[w].copy.intent}
    /\ Reply(w, [h[w] EXCEPT !.pc = "dlqAck"])
    /\ UNCHANGED <<now, stream, delayed, state, outputs, counts, raced>>

-----------------------------------------------------------------------------

Init ==
    /\ now = 1
    /\ stream = Empty /\ delayed = Empty
    /\ logged = {} /\ enqueued = {} /\ completed = {} /\ dlq = {}
    /\ log = [i \in Intents |-> 0] /\ fanned = [i \in Intents |-> 0]
    /\ h = [w \in Workers |-> Idle]
    /\ accepted = [i \in Intents |-> {}] /\ accepts = 0
    /\ raced = {} /\ faults = 0 /\ crashes = 0

\* The next step of a handler that has work.
Handle(w) ==
    \/ Start(w) \/ Park(w) \/ ReadState(w) \/ Publish(w) \/ Mark(w) \/ FanOut(w)
    \/ Finish(w) \/ Ack(w) \/ Retry(w) \/ MoveToDlq(w)

Next ==
    \/ \E i \in Intents : Accept(i) \/ Promote(i)
    \/ \E w \in Workers : Handle(w) \/ CallFails(w) \/ \E m \in MsgIds : Receive(w, m)
    \/ Tick
    \/ Crash

Spec == Init /\ [][Next]_vars

\* Handlers, the consumer loop, the promotion timer and time never stop for
\* good; nothing is assumed of the producer, of failures or of crashes.
Fairness ==
    /\ \A w \in Workers : WF_vars(Handle(w))
    /\ \A w \in Workers : WF_vars(\E m \in MsgIds : Receive(w, m))
    /\ \A i \in Intents : WF_vars(Promote(i))
    /\ WF_vars(Tick)

FairSpec == Spec /\ Fairness

-----------------------------------------------------------------------------
\* Properties

\* The 202 of the webhook is a durable acceptance: whatever fails, an accepted
\* intent is in the ready Stream, in the delayed store, completed or in the
\* DLQ (replacement or DLQ record before XACK in processIntent).
NoLostIntent ==
    \A i \in Intents : accepted[i] # {} =>
        \/ \E m \in DOMAIN stream : stream[m].copy.intent = i
        \/ i \in DOMAIN delayed \/ i \in completed \/ i \in dlq

\* The strengthening of the invariants below that every step preserves: the
\* state hash records the stages in their order and agrees with what was done,
\* a handler is at most one stage ahead of it, and entries, handlers and
\* delayed copies agree on their intent.
HandedOn ==
    /\ completed \subseteq enqueued /\ enqueued \subseteq logged
    /\ \A i \in logged : log[i] > 0
    /\ \A i \in Intents : fanned[i] = IF i \in enqueued \ ZeroTarget THEN 1 ELSE 0

Stage(r) ==
    /\ r.pc = "mark"   => log[r.copy.intent] > 0
    /\ r.pc = "fanout" => r.copy.intent \in logged
    /\ r.pc = "finish" => r.copy.intent \in enqueued
    /\ r.pc = "ack"    => r.copy.intent \in completed
    /\ r.pc = "dlqAck" => r.copy.intent \in dlq
    /\ r.pc = "retry"  => r.copy.attempt + 1 < MaxAttempts

SameIntent ==
    \A w \in Workers :
        Busy(w) /\ h[w].msg \in DOMAIN stream
        => stream[h[w].msg].copy.intent = h[w].copy.intent

DelayedKeyed == \A i \in DOMAIN delayed : delayed[i].intent = i

IntentInv ==
    /\ TypeOK /\ NoLostIntent /\ HandedOn /\ SameIntent /\ DelayedKeyed
    /\ \A w \in Workers : Busy(w) => Stage(h[w])

\* However often an intent is handed over, retried, redelivered or processed
\* by two handlers at once, its jobs enter the outbound Stream at most once
\* (the outboundEnqueuedAt check inside the fan-out script).
FanOutOnce == \A i \in Intents : fanned[i] <= 1

\* Nothing leaves for a remote inbox that the event log does not have: log
\* record, then marker, then fan-out, across any number of attempts.
LoggedBeforeFanOut == \A i \in Intents : fanned[i] > 0 => log[i] > 0

\* A completed intent was published and, if it has targets, fanned out, even
\* if other handlers of it failed, expired or were dead-lettered meanwhile.
CompletedMeansHandedOn ==
    \A i \in completed : log[i] > 0 /\ (i \in ZeroTarget \/ fanned[i] > 0)

\* The event log has a second record of an intent only after a crash or failed
\* call between record and marker, or if a second handler read the state while
\* a first one was between its own read and its marker; retries and repeated
\* hand-overs in sequence never cause it.
SecondRecordOnlyIfRaced == \A i \in Intents : log[i] > 1 => i \in raced

\* Jobs are created only within MaxAge of a hand-over of the intent, although
\* publication may take any time between the first check and the fan-out.
NoFanOutPastAge ==
    [][\A i \in Intents : fanned'[i] > fanned[i] =>
         \E t \in accepted[i] : now - t <= MaxAge]_vars

\* "A committed Activity with no remote recipients is a legitimate APDM
\* outcome, not a malformed delivery request."
ZeroTargetSettles ==
    \A i \in ZeroTarget : accepted[i] # {} ~> i \in completed \cup dlq
=============================================================================
