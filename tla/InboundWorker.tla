----------------------------- MODULE InboundWorker -----------------------------
(***************************************************************************)
(* Inbound ActivityPub: envelopes in the inbound Stream and the handlers   *)
(* that take each of them through processEnvelope: screening, policy, the  *)
(* two deduplication guards, the moderation store, ActivityPods, the event *)
(* streams, the retry and the DLQ.  Sources: delivery/inbound-worker.ts,   *)
(* InboundIdempotencyGuard.ts, ProviderAnnounceGuard.ts, the inbound part  *)
(* of queue/sidecar-redis-queue-core.ts and admin/moderation/              *)
(* store.redis.ts under fedify-sidecar/src.                                *)
(*                                                                         *)
(* A worker of the model is one running processEnvelope, in any process.   *)
(* A call to Redis may fail before or after it took effect; processEnvelope *)
(* then ends in its catch block, which acknowledges the entry.  Signature  *)
(* verification, POSTs to ActivityPods and publications never throw.  The  *)
(* guards' keys (7 days, 24 hours) outlive everything that is modelled.    *)
(***************************************************************************)
EXTENDS Naturals, FiniteSets

CONSTANTS
    Acts,          \* what remote servers deliver: an activity at one of the
                   \* inboxes it is posted to, with that inbox
    IdOf,          \* what is delivered -> the id of its activity
    Flags,         \* reports
    Provided,      \* for the provider actor, other than reports
    Bypassed,      \* by a local or sidecar actor, or for a sidecar actor's inbox
    Anonymous,     \* without an activity id
    Boosts,        \* Announces of one object by one actor
    Workers,       \* running handlers, over all sidecar processes
    MsgIds,        \* ids of Stream entries
    MaxAttempts,   \* MAX_INBOUND_ATTEMPTS
    Backoff,       \* backoffMs of a retry
    MaxTime,       \* bound: the last instant of the clock
    MaxDeliveries, \* bound: how often remote servers deliver
    Mixes,         \* bound: sets of activities delivered in one behaviour
    MaxMishaps     \* bound: Redis calls that fail and processes that crash

ASSUME ConstantsAssumption ==
    /\ {MaxAttempts, MaxTime, MaxDeliveries, MaxMishaps} \subseteq Nat
    /\ Backoff \in Nat \ {0}
    /\ IdOf = [a \in Acts |-> IdOf[a]]
    /\ Flags \cup Provided \cup Bypassed \cup Anonymous \cup Boosts \subseteq Acts
    /\ Flags \cap Provided = {} /\ (Flags \cup Provided) \cap Boosts = {}
    /\ (Flags \cup Provided) \cap Bypassed = {}
    /\ Mixes \subseteq SUBSET Acts

\* What the idempotency guard deduplicates by its id, at whichever inbox it
\* arrives; reports and provider events have a deduplication of their own.
Guarded == Acts \ (Flags \cup Provided \cup Anonymous)

VARIABLES
    now,         \* the clock
    stream,      \* inbound Stream: id -> envelope, for entries not acknowledged
    dlq,         \* what has a record in the inbound DLQ
    claimed,     \* activity ids the idempotency guard has seen
    boosted,     \* the announce guard has seen the pair of Boosts
    cases,       \* report -> moderation cases stored for it (2: or more)
    caseKeys,    \* reports whose dedupe key, hashed over the activity and the
                 \* inbox, points to a case
    pods,        \* how often ActivityPods took it (2: or more)
    emitted,     \* publications to the event streams (2: or more)
    h,           \* the handlers
    delivered,   \* what a remote server got a 202 for
    deliveries,  \* number of deliveries so far
    refused,     \* history: turned away by screening or by policy
    erred,       \* history: a Redis call for it failed
    interrupted, \* history: a handler crashed past its acknowledgement
    raced,       \* history: reports looked up while another handler stored them
    mishaps      \* number of failed Redis calls and crashes so far

guards == <<claimed, boosted>>
moderation == <<cases, caseKeys>>
effects == <<pods, emitted>>
arrivals == <<delivered, deliveries>>
history == <<refused, interrupted, raced>>
vars == <<now, stream, dlq, guards, moderation, effects, h, arrivals, history,
          erred, mishaps>>

\* A notBefore of 0 is "not set".
Envelope == [act : Acts, attempt : 0 .. MaxAttempts, notBefore : 0 .. MaxTime]

\* Where a handler is: the call it makes next.
Throwing == {"requeue", "policy", "findCase", "addCase", "patchCase", "claim",
             "boost", "ack", "dlq", "retry", "catchAck"}
Handler == [pc : Throwing \cup {"screen", "event", "forward", "publish"},
            msg : MsgIds, env : Envelope,
            then : {"done", "dlq", "retry", "publish"}] \* what follows the ack

Idle == [pc |-> "idle"]

Few == 0 .. 2

TypeOK ==
    /\ now \in 0 .. MaxTime
    /\ DOMAIN stream \subseteq MsgIds
    /\ stream \in [DOMAIN stream -> Envelope]
    /\ dlq \subseteq Acts /\ claimed \subseteq {IdOf[a] : a \in Guarded}
    /\ boosted \in BOOLEAN
    /\ cases \in [Acts -> Few] /\ caseKeys \subseteq Flags
    /\ pods \in [Acts -> Few] /\ emitted \in [Acts -> Few]
    /\ h \in [Workers -> Handler \cup {Idle}]
    /\ delivered \subseteq Acts /\ deliveries \in 0 .. MaxDeliveries
    /\ refused \subseteq Acts /\ erred \subseteq Acts /\ interrupted \subseteq Acts
    /\ raced \subseteq Flags
    /\ mishaps \in 0 .. MaxMishaps

-----------------------------------------------------------------------------
\* Redis and the control flow of a handler

Busy(w) == h[w].pc # "idle"
At(w, pc) == h[w].pc = pc
Go(w, r) == h' = [h EXCEPT ![w] = r]
Act(w) == h[w].env.act

Bump(f, a) == [f EXCEPT ![a] = IF @ = 2 THEN 2 ELSE @ + 1]

\* A Stream id no entry has and no handler remembers; Redis never reuses one.
FreshIds == MsgIds \ (DOMAIN stream \cup {h[w].msg : w \in {v \in Workers : Busy(v)}})

\* enqueueInbound
EnqueueInbound(e) ==
    /\ FreshIds # {}
    /\ LET m == CHOOSE m \in FreshIds : TRUE
       IN  stream' = [x \in DOMAIN stream \cup {m} |-> IF x = m THEN e ELSE stream[x]]

\* Past the bound of the clock every deadline is its last instant.
Later(d) == IF now + d > MaxTime THEN MaxTime ELSE now + d

To(r, pc) == [r EXCEPT !.pc = pc]

\* Acknowledge, then do what "then" says.
AckThen(r, then) == [r EXCEPT !.pc = "ack", !.then = then]

\* The catch block acknowledges; an error in there only ends the handler.
Thrown(r) == IF r.pc = "catchAck" THEN Idle ELSE [r EXCEPT !.pc = "catchAck", !.then = "done"]

\* The call took effect; its reply arrives, or is lost and the call throws.
Reply(w, r) ==
    \/ Go(w, r) /\ UNCHANGED <<erred, mishaps>>
    \/ /\ mishaps < MaxMishaps
       /\ mishaps' = mishaps + 1
       /\ erred' = erred \cup {Act(w)}
       /\ Go(w, Thrown(h[w]))

\* The call throws without having taken effect.
CallFails(w) ==
    /\ h[w].pc \in Throwing
    /\ mishaps < MaxMishaps
    /\ mishaps' = mishaps + 1
    /\ erred' = erred \cup {Act(w)}
    /\ Go(w, Thrown(h[w]))
    /\ UNCHANGED <<now, stream, dlq, guards, moderation, effects, arrivals, history>>

-----------------------------------------------------------------------------
\* Delivery, clock, crash

\* The HTTP route answers 202 once the envelope is in the Stream.  Remote
\* servers deliver an activity again, and to several inboxes.
Deliver(a) ==
    /\ deliveries < MaxDeliveries
    /\ deliveries' = deliveries + 1
    /\ \E M \in Mixes : delivered \cup {a} \subseteq M
    /\ EnqueueInbound([act |-> a, attempt |-> 0, notBefore |-> 0])
    /\ delivered' = delivered \cup {a}
    /\ UNCHANGED <<now, dlq, guards, moderation, effects, h, history, erred, mishaps>>

Tick ==
    /\ now < MaxTime
    /\ now' = now + 1
    /\ UNCHANGED <<stream, dlq, guards, moderation, effects, h, arrivals, history,
                   erred, mishaps>>

\* A handler whose entry is acknowledged and whose work is not done.
PastAck(w) == h[w].pc \in {"dlq", "retry", "publish"} /\ h[w].msg \notin DOMAIN stream

\* A process dies with the handlers W it hosts.
Crash ==
    /\ mishaps < MaxMishaps
    /\ mishaps' = mishaps + 1
    /\ \E W \in SUBSET {w \in Workers : Busy(w)} :
        /\ W # {}
        /\ h' = [w \in Workers |-> IF w \in W THEN Idle ELSE h[w]]
        /\ interrupted' = interrupted \cup {Act(w) : w \in {v \in W : PastAck(v)}}
    /\ UNCHANGED <<now, stream, dlq, guards, moderation, effects, arrivals, refused,
                   raced, erred>>

-----------------------------------------------------------------------------
\* consumeInbound and processEnvelope

\* XREADGROUP of a new entry or XAUTOCLAIM of one that idles in the
\* pending-entry list, also while a handler still works on it.
Receive(w, m) ==
    /\ ~Busy(w)
    /\ m \in DOMAIN stream
    /\ Go(w, [pc |-> IF stream[m].notBefore > now THEN "requeue" ELSE "screen",
              msg |-> m, env |-> stream[m], then |-> "done"])
    /\ UNCHANGED <<now, stream, dlq, guards, moderation, effects, arrivals, history,
                   erred, mishaps>>

\* A retry that is not due goes to the end of the Stream, over and over.
Requeue(w) ==
    /\ At(w, "requeue")
    /\ EnqueueInbound(h[w].env)
    /\ Reply(w, AckThen(h[w], "done"))
    /\ UNCHANGED <<now, dlq, guards, moderation, effects, arrivals, history>>

\* Capability gate, JSON, required fields, signature or trusted verification,
\* actor match: on to the policies, or the DLQ; a body of JSON "null" throws.
Screen(w) ==
    /\ At(w, "screen")
    /\ \/ Go(w, To(h[w], "policy")) /\ UNCHANGED refused
       \/ /\ refused' = refused \cup {Act(w)}
          /\ Go(w, AckThen(h[w], "dlq")) \/ Go(w, Thrown(h[w]))
    /\ UNCHANGED <<now, stream, dlq, guards, moderation, effects, arrivals, interrupted,
                   raced, erred, mishaps>>

\* The last stage: ActivityPods, or for bypassed activities the event streams
\* alone, after the acknowledgement.
Route(r) == IF r.env.act \in Bypassed THEN AckThen(r, "publish") ELSE To(r, "forward")

\* Wrong: a boost with an id of its own is not compared with others.
AfterClaimById(r) == Route(r)

AfterClaim(r) == IF r.env.act \in Boosts THEN To(r, "boost") ELSE Route(r)

\* Reports and provider events come before the guards.
AfterPolicy(r) ==
    CASE r.env.act \in Flags     -> To(r, "findCase")
      [] r.env.act \in Provided  -> To(r, "event")
      [] r.env.act \in Guarded   -> To(r, "claim")
      [] OTHER                   -> AfterClaim(r)

\* isDomainBlocked, the subject policy and the spam evaluator.
Policy(w) ==
    /\ At(w, "policy")
    /\ \/ Reply(w, AfterPolicy(h[w])) /\ UNCHANGED refused
       \/ Reply(w, AckThen(h[w], "done")) /\ refused' = refused \cup {Act(w)}
    /\ UNCHANGED <<now, stream, dlq, guards, moderation, effects, arrivals, interrupted,
                   raced>>

\* Wrong: every report is new.
KnownCaseNever(a) == FALSE

\* Wrong: the dedupe key leaves out the inbox.
KnownCaseAnyInbox(a) == \E b \in caseKeys : IdOf[b] = IdOf[a]

\* The dedupe key of the report at its inbox points to a case.
KnownCase(a) == a \in caseKeys

\* findCaseByDedupeKey; a report that arrives before the moderation store is
\* registered is dropped.
FindCase(w) ==
    /\ At(w, "findCase")
    /\ \/ /\ Reply(w, IF KnownCase(Act(w)) THEN AckThen(h[w], "done") ELSE To(h[w], "addCase"))
          /\ raced' = raced \cup {Act(v) : v \in {v \in Workers \ {w} :
                                                   At(v, "addCase") /\ Act(v) = Act(w)}}
          /\ UNCHANGED refused
       \/ /\ Go(w, AckThen(h[w], "done"))
          /\ refused' = refused \cup {Act(w)}
          /\ UNCHANGED <<raced, erred, mishaps>>
    /\ UNCHANGED <<now, stream, dlq, guards, moderation, effects, arrivals, interrupted>>

\* addCase: a pipeline of the case and then its dedupe key.  An error of one
\* of its commands is not raised, and a lost connection cuts the pipeline.
AddCase(w) ==
    /\ At(w, "addCase")
    /\ LET a == Act(w) IN
       \/ /\ cases' = Bump(cases, a) /\ caseKeys' = caseKeys \cup {a}
          /\ Reply(w, To(h[w], "patchCase"))
       \/ /\ mishaps < MaxMishaps
          /\ mishaps' = mishaps + 1 /\ erred' = erred \cup {a}
          /\ cases' \in {cases, Bump(cases, a)} /\ UNCHANGED caseKeys
          /\ Go(w, To(h[w], "patchCase"))
    /\ UNCHANGED <<now, stream, dlq, guards, effects, arrivals, history>>

\* The canonical report event, and its outcome noted on the case.
PatchCase(w) ==
    /\ At(w, "patchCase")
    /\ Reply(w, AckThen(h[w], "done"))
    /\ UNCHANGED <<now, stream, dlq, guards, moderation, effects, arrivals, history>>

\* Wrong: a transient failure is acknowledged as well.
NotAcceptedAcked(r) == AckThen(r, "done")

\* ActivityPods did not answer, or not for good: the entry stays pending.
NotAccepted(r) == Idle

\* forwardProviderInboxEvent
SendEvent(w) ==
    /\ At(w, "event")
    /\ \/ pods' = Bump(pods, Act(w)) /\ Go(w, AckThen(h[w], "done")) /\ UNCHANGED refused
       \/ pods' = Bump(pods, Act(w)) /\ Go(w, NotAccepted(h[w])) /\ UNCHANGED refused
       \/ UNCHANGED <<pods, refused>> /\ Go(w, NotAccepted(h[w]))
       \/ /\ refused' = refused \cup {Act(w)} /\ Go(w, AckThen(h[w], "done"))
          /\ UNCHANGED pods
    /\ UNCHANGED <<now, stream, dlq, guards, moderation, emitted, arrivals, interrupted,
                   raced, erred, mishaps>>

\* Wrong: the guard reports every activity as new.
SeenNever(a) == FALSE

\* claimIfNew found the key.
Seen(a) == IdOf[a] \in claimed

\* Wrong: the suppressed entry is not acknowledged.
DuplicateUnacked(r) == Idle

\* What a guard has seen before is acknowledged and dropped.
Duplicate(r) == AckThen(r, "done")

\* InboundIdempotencyGuard.claimIfNew
Claim(w) ==
    /\ At(w, "claim")
    /\ Reply(w, IF Seen(Act(w)) THEN Duplicate(h[w]) ELSE AfterClaim(h[w]))
    /\ claimed' = claimed \cup {IdOf[Act(w)]}
    /\ UNCHANGED <<now, stream, dlq, boosted, moderation, effects, arrivals, history>>

\* ProviderAnnounceGuard.claimIfNew
Boost(w) ==
    /\ At(w, "boost")
    /\ Reply(w, IF boosted THEN Duplicate(h[w]) ELSE Route(h[w]))
    /\ boosted' = TRUE
    /\ UNCHANGED <<now, stream, dlq, claimed, moderation, effects, arrivals, history>>

\* Wrong: one attempt more than MAX_INBOUND_ATTEMPTS.
AfterTransientOneMore(r) == AckThen(r, IF r.env.attempt > MaxAttempts THEN "dlq" ELSE "retry")

\* Wrong: the last attempt leaves no record.
AfterTransientDropped(r) == AckThen(r, IF r.env.attempt >= MaxAttempts THEN "done" ELSE "retry")

AfterTransient(r) == AckThen(r, IF r.env.attempt >= MaxAttempts THEN "dlq" ELSE "retry")

\* forwardToActivityPods: taken, taken without an answer, not taken for now,
\* or refused for good.
Forward(w) ==
    /\ At(w, "forward")
    /\ \/ pods' = Bump(pods, Act(w)) /\ Go(w, To(h[w], "publish"))
       \/ pods' = Bump(pods, Act(w)) /\ Go(w, AfterTransient(h[w]))
       \/ UNCHANGED pods /\ Go(w, AfterTransient(h[w]))
       \/ UNCHANGED pods /\ Go(w, AckThen(h[w], "dlq"))
    /\ UNCHANGED <<now, stream, dlq, guards, moderation, emitted, arrivals, history,
                   erred, mishaps>>

\* Stream1 or Stream2, tombstone, projection, canonical event, backfill and
\* reconciliation triggers: best effort.
Publish(w) ==
    /\ At(w, "publish")
    /\ emitted' \in {emitted, Bump(emitted, Act(w))}
    /\ Go(w, IF Act(w) \in Bypassed THEN Idle ELSE AckThen(h[w], "done"))
    /\ UNCHANGED <<now, stream, dlq, guards, moderation, pods, arrivals, history,
                   erred, mishaps>>

\* XACK
Ack(w) ==
    /\ h[w].pc \in {"ack", "catchAck"}
    /\ stream' = [m \in DOMAIN stream \ {h[w].msg} |-> stream[m]]
    /\ Reply(w, IF h[w].then = "done" THEN Idle ELSE To(h[w], h[w].then))
    /\ UNCHANGED <<now, dlq, guards, moderation, effects, arrivals, history>>

\* moveToDlq
MoveToDlq(w) ==
    /\ At(w, "dlq")
    /\ dlq' = dlq \cup {Act(w)}
    /\ Reply(w, Idle)
    /\ UNCHANGED <<now, stream, guards, moderation, effects, arrivals, history>>

\* A transient failure is retried as a new entry.
Retry(w) ==
    /\ At(w, "retry")
    /\ EnqueueInbound([h[w].env EXCEPT !.attempt = @ + 1, !.notBefore = Later(Backoff)])
    /\ Reply(w, Idle)
    /\ UNCHANGED <<now, dlq, guards, moderation, effects, arrivals, history>>

-----------------------------------------------------------------------------

Init ==
    /\ now = 0
    /\ stream = [m \in {} |-> m]
    /\ dlq = {} /\ claimed = {} /\ boosted = FALSE
    /\ cases = [a \in Acts |-> 0] /\ caseKeys = {}
    /\ pods = [a \in Acts |-> 0] /\ emitted = [a \in Acts |-> 0]
    /\ h = [w \in Workers |-> Idle]
    /\ delivered = {} /\ deliveries = 0
    /\ refused = {} /\ erred = {} /\ interrupted = {} /\ raced = {}
    /\ mishaps = 0

\* The next step of a running handler.
Process(w) ==
    \/ Requeue(w) \/ Screen(w) \/ Policy(w)
    \/ FindCase(w) \/ AddCase(w) \/ PatchCase(w) \/ SendEvent(w)
    \/ Claim(w) \/ Boost(w) \/ Forward(w) \/ Publish(w)
    \/ Ack(w) \/ MoveToDlq(w) \/ Retry(w)

Next ==
    \/ \E a \in Acts : Deliver(a)
    \/ \E w \in Workers : Process(w) \/ CallFails(w) \/ \E m \in MsgIds : Receive(w, m)
    \/ Tick
    \/ Crash

Spec == Init /\ [][Next]_vars

\* Handlers go on; every entry is read, since XREADGROUP and XAUTOCLAIM go
\* through the Stream in the order of the ids; time passes.  Nothing is
\* assumed of remote servers, ActivityPods, failures or crashes.
Fairness ==
    /\ \A w \in Workers : WF_vars(Process(w))
    /\ \A m \in MsgIds : SF_vars(\E w \in Workers : Receive(w, m))
    /\ WF_vars(Tick)

FairSpec == Spec /\ Fairness

-----------------------------------------------------------------------------
\* Properties

InStream(a) == \E m \in DOMAIN stream : stream[m].act = a

\* A handler has acknowledged the entry and still holds the work.
InHand(a) == \E w \in Workers : Busy(w) /\ Act(w) = a

\* What remains outside the Stream of what was delivered.
Recorded(a) == a \in dlq \/ cases[a] > 0 \/ pods[a] > 0

\* The idempotency guard has seen the id of its activity.
Claimed(a) == a \in Guarded /\ IdOf[a] \in claimed

\* Whatever crashes, redeliveries and overlapping handlers do, an activity
\* stays in the Stream, with a handler or on record, at every inbox it was
\* delivered to, until it is turned away or one of the guards has seen it;
\* only a failed Redis call, which the catch block of processEnvelope
\* acknowledges, or a crash between an early acknowledgement and what follows
\* it loses it before.
KeptUntilClaimed ==
    \A a \in delivered \ (Bypassed \cap Anonymous) :
        \/ InStream(a) \/ InHand(a) \/ Recorded(a) \/ Claimed(a)
        \/ a \in refused \cup erred \cup interrupted
        \/ a \in Boosts /\ boosted

\* Reports and provider events are never acknowledged before they are stored
\* or sent: no crash at all loses one, and a report at one inbox is not taken
\* for the same report at another.
ReportsSurviveCrashes ==
    \A a \in delivered \cap (Flags \cup Provided) :
        InStream(a) \/ Recorded(a) \/ a \in refused \/ a \in erred

\* One of two deliveries at most has the effect counted by f, and has it once.
AtMostOnce(f, a, b) == f[a] <= 1 /\ (a # b => f[a] = 0 \/ f[b] = 0)

\* An activity with an id reaches ActivityPods and the event streams at most
\* once, however often and at how many inboxes it is delivered, reclaimed or
\* retried.
EffectsOnce ==
    \A a, b \in Guarded :
        IdOf[a] = IdOf[b] => AtMostOnce(pods, a, b) /\ AtMostOnce(emitted, a, b)

\* Of the Announces of one object by one actor with ids of their own, one
\* reaches ActivityPods.
BoostOnce ==
    \A a, b \in Boosts \ Anonymous : a # b => pods[a] = 0 \/ pods[b] = 0

\* A report has two moderation cases for one inbox only if a second handler
\* looked it up between the first one's look-up and its write, or a write was
\* cut off.
SecondCaseOnlyIfRaced == \A a \in Flags : cases[a] > 1 => a \in raced \cup erred

\* Every activity but a provider event, which waits for ActivityPods for as
\* long as it takes, leaves the Stream and its handlers for good.
Decided == \A a \in Acts \ Provided : <>[](~InStream(a) /\ ~InHand(a))

\* "Work queues for inbound/outbound with at-least-once delivery": without
\* any crash or failed Redis call, an activity for ActivityPods that is gone
\* from the Stream and the handlers was taken, refused or recorded.
AtLeastOnce ==
    \A a \in delivered \ Bypassed :
        InStream(a) \/ InHand(a) \/ Recorded(a) \/ a \in refused
================================================================================
