# Formal model of the Mastopod federation sidecar

TLA+ modules, TLC configurations and TLAPS proofs for the durable ActivityPub
pipeline of `fedify-sidecar`. Paths below are relative to `src/`, source files
to `src/fedify-sidecar/src/` unless they start with another directory.

## 1. Inventory

### 1.1 What the system is

ActivityPods (a Moleculer provider in another process) owns actors and decides
who receives an activity. It hands a *Delivery Plan* to the sidecar by webhook.
The sidecar answers 202 after it has written an **outbox intent** to a Redis
Stream; from there its workers publish the activity to an event log (RedPanda,
"Stream1"), fan the intent out into one **outbound job** per remote inbox, and
deliver each job by a signed POST. Incoming activities take the reverse path
through an inbound Stream. Around this core stand an AT Protocol server, a
protocol bridge, feeds, search, moderation and a separate media service.

All queues are Redis Streams with one consumer group: an entry is read with
XREADGROUP, stays pending until XACK, and is taken over with XAUTOCLAIM after
60 s of idling, also when its reader is still working. Delayed work is kept in
a sorted set plus a hash until it is due, and promoted to a *new* Stream entry.

### 1.2 Components

| component | state it keeps | operations | hard behaviour | correct if |
|---|---|---|---|---|
| Outbound delivery: `queue/sidecar-redis-queue.ts`, `delivery/outbound-worker.ts`, `delivery/outbound-delivery-claims.ts` | ready Stream and its pending list, delayed store, claims with a TTL, completed markers, DLQ, handler memory | enqueue, consume, park, promote, claim, complete, release, deliver, retry, defer, DLQ, ack | redelivery to a second handler, a crash or failed call between any two calls, claims that end under their owner, copies of one job that meet | no accepted job is lost; a duplicate POST only after a lost proof; residence limit respected; every job ends |
| Outbox intents: `delivery/outbox-intent-worker.ts`, `delivery/outbox-intent-delay-scheduler.ts` | intent Stream, delayed store, state hash per intent, DLQ, event log | consume, park, read state, publish, mark, fan out, complete, retry, DLQ, ack | two systems without a transaction, repeated hand-overs, concurrent handlers of one intent | no accepted intent lost; fan-out once and only after the log record; every intent ends |
| Queue core: `queue/sidecar-redis-queue-core.ts` | the Streams and DLQs of all pipelines, domain blocks, rate counters, slot counters, actor cache | one method per Redis operation | atomic scripts next to plain calls, expiry of counters, MAXLEN trimming | scripts keep their counters coherent |
| Domain slots (part of the queue core) | counter `ap:domain:slots:<domain>` with a TTL | acquire, release | expiry under holders, lost replies, crashes | at most the limit of deliveries; never closed for good |
| Webhooks: `index.ts`, `delivery/outbound-webhook.ts` | none | validate, bind the plan identity, back-pressure, create an intent | producer retries | the same plan gets the same intent id; 202 only after the write |
| Inbound worker: `delivery/inbound-worker.ts`, guards beside it, `admin/moderation/store.redis.ts` | inbound Stream, idempotency and announce keys, moderation cases, DLQ | requeue, screen, apply policies, capture reports, send provider events, deduplicate, forward to ActivityPods, publish, retry, DLQ, ack | acknowledgement before the retry or the DLQ record, a claim that outlives a failed attempt, a catch block that acknowledges, one activity in several entries and handlers | effects once; reports and provider events survive crashes; nothing circulates for ever |
| Origin reconciliation: `federation/origin-reconciliation/`, `delivery/origin-reconciliation-worker.ts` | Stream, claim per object, mark per version, the window inside the job | claim, poll, mark, enqueue an update, reschedule, end | mark before update, acknowledgement before write-back, claim before job, redelivery | one chain of polls per object; a version handed on once; windows end on purpose |
| Replay horizon: `delivery/apdm-replay-horizon.ts`, migration in `outbound-delivery-claims.ts` | constants, cutover sentinel | age checks, one-time migration | clock skew, start-up races | no copy of a job outlives its completed marker |
| Event streams: `streams/` | Kafka topics | publish, govern topics, index | acknowledgement lost | records carry a stable intent id |
| Realtime (FEP-3ab2): `fep3ab2/` | sessions, tickets and topics in Redis, replay index and events, a hub of connections per process | open a session, connect, replay, publish, change topics, revoke, expire | reconnecting during publication, to another process; control messages that race a handshake | no silent gap; a ticket opens one connection; connections follow their session |
| AT Protocol: `at-adapter/`, `atproto/` | repositories, sequence, identities | commit, firehose, import | ordering of commits and events | firehose follows the commits |
| Protocol bridge: `protocol-bridge/`, `core-domain/` | provenance, link tables, retry queue | translate, project, deduplicate | loops between the protocols | nothing is projected back |
| Signing, federation runtime, feeds, search, admin, MRF, entryway, media helpers, capabilities, ADSP | see `PROJECT.json` | request handlers over stores | mostly sequential | |
| Media pipeline: `media-pipeline-sidecar/` | its own Streams, retry scheduler, DLQ, object store | fetch, process, finalize, repair | at-least-once stages with external storage | an asset is finalized once or dead-lettered |

Interaction on the modelled path:

    webhook --XADD--> intent Stream --> intent worker --+--> event log
                          ^                             |
                          +-- promotion <-- delayed <---+ (retry)
                                                        |  one script, per intent
                                                        v
                      outbound Stream --> outbound worker --> remote inbox
                          ^                  |   |   claims, markers, slots
                          +- promotion <- delayed (retry, defer, park)
                                             +--> DLQ

    remote server --202--> inbound Stream --> inbound worker --> ActivityPods
                               ^  ^   retry |      |
                               |  +---------+      +--> moderation cases, event streams, DLQ
                    synthetic  |                   |
                     updates   |                   v  opens a window
                          reconciliation worker <-- reconciliation Stream (polls)

    event streams --> dispatcher --> replay index (Redis)
                          |              | replay on reconnect
                          v              v
                      hub of the process --> client connection

### 1.3 Hazards

`PROJECT.json` lists each hazard with its line and the properties that watch it.
A hazard without a property has a note. Some of them the code does not guard
against at all; a property then can only name what goes wrong as one of the
causes it allows, and exclude all others, so it is not listed as a watch.

## 2. Plan

| step | module | state |
|---|---|---|
| 1 | `OutboundDelivery` with proofs | done |
| 2 | `OutboxIntent` with proofs | done |
| 3 | `DomainSlots` with proofs | done |
| 4 | `DeliveryPromise`: the abstract specification, and the refinement of `OutboundDelivery` to it | done |
| 5 | `FederationPipeline`: an intent and the jobs it fans out to, from the 202 to the last inbox | done |
| 6 | `InboundWorker` | done |
| 7 | `OriginReconciliation` | done |
| 8 | `RealtimeStream` (FEP-3ab2) | done |
| 9 | proofs about steps 4 to 8: every safety property of every passing run, and the refinement | done |
| 10 | `ReplayHorizon`: ages, skews, marker retention and cutover blackout, over a clock per process | candidate |
| 11 | `WebhookAdmission`: plan identity, back-pressure, MAXLEN trimming | candidate |
| 12 | media pipeline, bridge retry queue, entryway recovery | candidates |

Every invariant and action property that a passing run checks is now a theorem.
Left to prove are the theorems of steps 10 and 11: no copy of a job outlives its
completed marker, and one plan has one intent.

## 3. Modules

Each component has a module and an `MC...` module that adds the symmetry of the
handlers and the state constraint for TLC, if there is one, and a `...Proofs`
module (`OutboundDeliveryRefinement` continues `OutboundDeliveryProofs`). Definitions whose comment starts
with *Wrong:* are not used by any specification; each is a plausible mistake in
the definition below it and exists to show that the properties notice it.

### 3.1 OutboundDelivery

*State.* `stream` is the set of unacknowledged Stream entries; whether an entry
is unread or pending makes no difference to who may get it next, so one
function covers both. `delayed`, `claims`, `completed`, `dlq` are the delayed
store, claim keys, v2 markers and DLQ. `h[w]` is what a handler slot holds in
memory: the entry id, its own *copy* of the job (`job`, `attempt`, `defers`,
`notBefore`, `stamp`), its claim token, and in `pc` the call it makes next.

*Actions.* One per call with an effect on Redis or the remote inbox.

| action | code |
|---|---|
| `Accept` | one job of the fan-out script of an intent (`enqueueOutboundBatchForIntent`) |
| `Receive` | `consumeOutbound` up to its decision: expired, to be parked, to be processed |
| `Park`, `Unpark` | the park script and the retry loop around it |
| `Promote` | `promoteDueOutbound`, for one job |
| `Refuse`, `Claim`, `Admit`, `PostTooLate`, `Post` | `processJob` in its order: residence and capability gate; claim; blocked, rate, slot, residence again; the check at the POST; `deliver` |
| `Complete`, `Release`, `Retry`, `Defer`, `MoveToDlq`, `Ack`, `Free` | the calls after the answer |
| `CallFails` | any of these calls throws without effect |
| `Crash` | a process dies with any set of handlers |
| `Tick` | time passes, claims expire |

`Reply` adds to each call the outcome "took effect, but the reply was lost".
`Thrown` says where an exception takes the handler: out of `consumeOutbound`'s
try blocks, through the `finally` that frees the slot, into the outer catch
(`Caught`), or out of `processJob`, which leaves the entry pending.

*History.* `accepted` (instants of acceptance), `received` (how often the inbox
took the job) and `excused` (its proof was lost or late) are read only by the
properties.

*Abstractions.* One clock for all processes. Token and id pools are finite;
ids in use are never handed out again (Redis ids are unique). A legacy
completed marker counts as a completed marker, and markers do not expire
(`ReplayHorizon` is to justify that). The answers about other jobs of the
domain (blocked, rate, slot) are nondeterministic. An unsafe URL, a signing
error and an HTTP status are outcomes of `Post`. `Retry-After` only lengthens a
backoff. A clock unit is longer than the two seconds below which the code waits
inline, so inline waits do not appear. Deadlines beyond `MaxTime` are its last
instant, so that they are reached.

### 3.2 OutboxIntent

*State.* The intent Stream, where an entry also records whether its targets
still are an array; the delayed store; the three time stamps of the state hash
as the sets `logged`, `enqueued`, `completed`; the DLQ; the number of records in
the event log and of fan-outs. Handlers hold their copy of the intent.

*Actions.* `Accept` (the webhook's XADD, also a producer's repetition of the
same plan), `Receive`, `Start` (age, own deadline), `Park`, `ReadState`,
`Publish`, `Mark`, `FanOut`, `Finish`, `Ack`, and from the catch block `Retry`
and `MoveToDlq`; `Promote`, `Tick`, `Crash`, `CallFails` as above.

*Abstractions.* The intents are public, so that `Publish` always writes; a
tombstone and a Stream1 record count as one. `Malformed` intents (the activity
does not parse) cannot come from the producers in this repository, which
serialize it themselves, but the worker guards against them. `Unusable` ones
(no valid URL among the targets) can come from relay subscriptions and
moderation reports, which do not pass the webhook's normalisation. Future-dated
entries in the ready Stream (`EarlyEntries`) come from releases before the
delayed store. The state hash lives for seven days, longer than any copy of an
intent, and does not expire in the model. The scheduler's branch for corrupt
payloads is unreachable and left out.

### 3.3 DomainSlots

One counter: `Acquire` (granted, denied, or granted with the reply lost, which
leaks a slot), `Release` (performed, or failed, which leaks it), `Crash`,
`Tick` (the key expires whatever its value). `leaked` and `forgotten` are
history. A runtime change of the limit is not modelled.

### 3.4 DeliveryPromise and FederationPipeline

`DeliveryPromise` is what outbound delivery promises, without queues, handlers,
claims or time: jobs are taken over (`Hand`), the inbox takes a job at most once
unless an earlier POST is in doubt (`Send`, `Lose`), a proof follows a delivery
(`Prove`), a job may be given up at any time (`Bury`), and every job ends proved
or dead (`Settling`). That a delivered job may be buried is part of it, because
the code does it: a failing acknowledgement or slot release after the completed
marker throws into the outer catch of `processJob`, which dead-letters the job
(`outbound-worker.ts:634-651`), although `fedify-sidecar/README.md:82` calls that
queue "Permanent delivery failures".

`OutboundDelivery` instantiates it as `Promise`: `handed` is the set of jobs
accepted, `sent` is `received`, `doubt` is `excused`, `proved` is `completed`,
`dead` is `dlq`. `PromiseKept` is the abstract `Spec` under this mapping, and
`EveryJobSettles` its `Settling`. The mapping needs no auxiliary state beyond
the history the other properties read.

`FederationPipeline` extends `OutboxIntent` with the variables of
`DeliveryPromise` and lets the two meet where the code does, in the fan-out
script: in the step in which an intent's `fanned` count changes, the jobs of all
its inboxes are handed over. From then on the delivery side takes any step its
promise allows. So the composition rests on the refinement, which is proved
(section 5), and on `Settling`, which `outbound_settles` checks, and need not
repeat the states of the detailed module.

### 3.5 InboundWorker

*State.* What is delivered (`Acts`) is an activity at one of its inboxes;
deliveries of one activity to several inboxes have one id (`IdOf`). The Stream is
as above; an envelope has what it delivers, attempt and `notBefore`. The ids the
idempotency guard has seen, the announce guard's key, cases and their dedupe keys,
how often ActivityPods and the event streams took each delivery, the DLQ; a
handler is at the call it makes next and remembers what follows its
acknowledgement (`then`).

The two deduplications differ in their key. The idempotency guard goes by the
activity's id alone, so `EffectsOnce` counts an activity once over all its
inboxes. The dedupe key of a report hashes the inbox path with the activity, its
actor and what it reports (`buildFlagModerationCaseDedupeKey`), so a report opens
one case *per inbox*: that is what `SecondCaseOnlyIfRaced` bounds, and
`ReportsSurviveCrashes` asks for each of them.

*Kinds of activities* decide the path through `processEnvelope`: reports
(`Flags`), events for the provider actor (`Provided`), activities that bypass
ActivityPods (`Bypassed`), those without an id (`Anonymous`), announces of the
same object by the same actor (`Boosts`), and all others.

*Actions.* `Deliver` (the route that answers 202), `Receive`, `Requeue` (a retry
that is not due goes to the end of the Stream), `Screen` (everything up to the
verified actor; a body `null` parses and then throws into the catch block, which
acknowledges it without a DLQ record), `Policy`, `FindCase` (which drops a report
that arrives before the moderation store is registered), `AddCase`, `PatchCase`,
`SendEvent`, `Claim`, `Boost`, `Forward`, `Publish`, `Ack`, `MoveToDlq`, `Retry`; `Tick`,
`Crash`, `CallFails` as before. The order of `Ack` and what follows it is the
code's: retry copy, DLQ record and the publication of a bypassed activity come
*after* the acknowledgement. Any Redis call that throws leads to the catch
block, which acknowledges.

*Abstractions.* Screening, policies and ActivityPods answer nondeterministically.
Publications are best effort in the code and may or may not happen. Keys of the
guards do not expire. Counts of effects saturate at two.

### 3.6 OriginReconciliation

One object. `origin` and `local` are the versions at its server and the one last
handed to the inbound pipeline; `claim` is the key that keeps windows of one
object apart, `opening` the job between that claim and its XADD; `applied` are
the marks per version. A job carries its window, attempt, deadline, the version
it compares with and its counters of unchanged and missing answers.

`Activity` and `OpenWindow` are `scheduleFromActivity`; `Receive`, `Admit`,
`Fetch`, `Mark`, `Emit`, `Ack`, `WriteBack`, `MoveToDlq` are `processJob` in its
order; `Edit` is the origin server. `processJob` has no catch block: a call that
throws ends the handler and leaves the entry as it is.

`spoilt` collects what has gone wrong, by name (`Spoils`), so that each property
can say exactly which mishap excuses a deviation. Two of its members need no
failure at all: "returned" (a version comes back whose mark is less than seven
days old, so it is not handed on again) and "overtaken" (an activity changes the
local copy while a window is open).

*Abstractions.* The claim ends with its window; the code computes the two one
after the other, so the claim in Redis ends slightly before. The actor of the object is
known: without a hint and an `attributedTo`, `enqueueSyntheticUpdate` returns
early and the version stays marked without an update. One `Fetch` may stand for
several requests of the HTTP client.

### 3.7 RealtimeStream

One client that reconnects, several processes, one Redis. `seqno`, `event`,
`index`, `keys` are the replay store; `disp` is where each process is between
INCR, MULTI and the publication to its hub; `sess` the sessions with ticket and
topics; `req` the stream requests with their handshake, scan and held-back
events; `hub` the connections of each process; `ctl` the requests that change
topics. A topic is the set of events published to it.

The handshake is cut where the code awaits: resolve (`Connect`), claim the
ticket, register, read page by page, send. The topics of the replay are those
resolved at the handshake (`scan.topics`), while those of the connection may
change under it. A client may stop reading in the middle of a batch. `Stored` is
the set of numbers ever written to the replay store.

`excused` records for each event why the client may miss it:

* it expired, or the index or the replay limit dropped it;
* entries vanished from the index below a page already read, so that the scan
  by offset skips as many (`Shifted`);
* it was stored after an event with a higher number (two dispatchers);
* its topic was not among those of the replay;
* when it was published, the client was connected and did not get it, because
  its connection is in the hub of another process or filters by other topics, or
  its Last-Event-ID was already past it, or it had none to resume from;
* `resumeSession` of another request with the same ticket let the connection go
  before its own replay was sent: it finds the hub's connection by session id
  and does not ask whose it is (`Fep3ab2EventHub.ts:145`).

`NoSilentGap` says there is no other reason. The last excuse came out of the
proof of `NoGap`: with larger bounds than TLC's the property fails without it.

*Abstractions.* Public events arrive in one order (`InOrder`; they differ only in
their topic). Refusals before any change (origin, principal, user agent) are left
out. Private messages are assumed to carry ids that are not replay ids.

## 4. What TLC checks

| run | question | bounds |
|---|---|---|
| `outbound_faults` | loss, residence, POST after the limit, inductive invariant | 1 job, 2 handlers, 2 live entries, 2 attempts, 1 deferral, 3 instants, 1 failed call, old future-dated entries |
| `outbound_crash` | exclusion by claims, causes of duplicates, refinement of `DeliveryPromise` | the same with 1 crash and no failed call |
| `outbound_settles` | every accepted job ends (`Settling` of the promise); Stream and delayed store drain | 1 handler, 4 ids, 1 failed call and 1 crash, old future-dated entries (which are parked, and the park retried) |
| `intent_safety` | loss, single fan-out, log before fan-out, second records, age | 1 intent, 2 handlers, 3 ids, future-dated entries, and two of: failed calls, a crash, a second hand-over (`TwoTroubles`) |
| `pipeline_served` | an intent ends dead-lettered or with every inbox settled; completion means handed on | one intent of each of 4 kinds, one of them accepted, 2 inboxes, 1 handler, 1 failed call, 1 crash, future-dated entries |
| `intent_zero` | **violated**: a zero-target intent ends | 1 handler, 1 failed call |
| `slots_limit` | meaning, excess and recovery of the counter | 4 handlers, limit 2, TTL 2, 2 failed calls, 1 crash |
| `inbound_safety` | what can be lost and where, effects once, one boost, one case | two deliveries among one kind: a report at 2 inboxes, a provider event, an activity at 2 inboxes with one that bypasses ActivityPods, one without id, 2 boosts; 2 handlers, 3 ids, 1 retry, 1 failed call or crash |
| `inbound_settles` | nothing circulates for ever | the same with 1 report, 1 handler and 5 ids |
| `inbound_lost` | **violated**: at-least-once hand-over without faults | 1 activity, 1 handler, no mishap |
| `reconcile_polls` | one chain, each version once, purposeful end, staleness, number of polls | 2 versions (one marked by an earlier window), 2 handlers, 2 polls per window, 1 edit, 2 windows or a window and a mishap (`OneTrouble`) |
| `realtime_resume` | gaps, tickets, revocation, topics | 2 processes, 3 public and 1 private event, index and replay limits of 2, pages of 1, 2 sessions, 2 requests, 1 change of topics, 1 fault, expiry or control request |

*Why the bounds are enough.* Jobs meet only in the per-domain answers, which are
nondeterministic, and intents do not meet at all, so one job or intent exhibits
every interleaving; its copies, entries and handlers are what multiplies. Two
handlers suffice for a stale owner against a new one (a third would repeat the
second's part); two live entries for a retry beside its not yet acknowledged
source. Three instants allow: before the limit, on it, past it; claims of one
unit end inside a delivery. Inbound deliveries meet only by a
key: one id at several inboxes, reports of one id, boosts of one object; these occur
together (`Mixes`). In `reconcile_polls` a second window
and a mishap are looked at one at a time; both at once exceed TLC's reach. In
`realtime_resume` three events are one more than index and replay hold, and two
requests are one reconnect. Every counter bound is a constant named in its
guard (`MaxTime`, `MaxAccepts`, `MaxFaults`, `MaxCrashes`, `MaxMishaps`, ...), and
the proofs hold for all their values.

*Deadlock* is not checked: when the clock is at its bound, all work is done and
no hand-over is left, the model stops.

*Fairness.* Weak fairness of each handler's next step (`Handle`; a promise
settles or times out), of each idle handler's read (`consumeOutbound` loops for
ever), of promotion (a timer every second; a failed promotion is repeated) and
of `Tick`. Nothing is assumed about producers; failures and crashes are finite
in number, as liveness demands that Redis answers eventually. `FairSpec` never
assumes that a POST succeeds. `InboundWorker` has weak fairness of a running
handler and of `Tick`, and strong fairness of reading each entry: the Stream is
read in the order of its ids, and XAUTOCLAIM walks through the pending list, so
an entry is not passed over for ever although retries that are not due are
written back behind it. `FederationPipeline` adds weak fairness of `Settle` for
each job, which is `Settling`, the promise that `outbound_settles` checks.

*Symmetry* of handlers is used only in runs without liveness properties.

### Findings

* `intent_zero`: `promoteDue` re-encodes the payload with `cjson`, which turns an
  empty target list into `{}`; the entry is then rejected on every read and
  stays pending. `outbox-intent-worker.ts:169` calls zero targets "a legitimate
  APDM outcome".
* `inbound_lost`: `processEnvelope` claims an activity's id before it forwards the
  activity (`inbound-worker.ts:1314`). If ActivityPods answers 5xx or 429, or not
  at all, the entry is acknowledged and a retry is enqueued, which finds its own
  claim and is dropped as a duplicate. `fedify-sidecar/README.md:64` promises
  "at-least-once delivery" for the inbound queue, and the comment at
  `inbound-worker.ts:1260` avoids the same trap for provider events.

Facts of the code that the models show and no line of the repository denies:
the slot counter's expiry is set by the first take only, so a domain that stays
busy for an hour gets a fresh count while deliveries still run
(`BoundedByForgotten` says what does hold); a request whose replay was slow can
resume the connection of a later one with the same ticket (3.7); a reconciliation chain is lost by a
crash between acknowledgement and write-back; two overlapping changes of topics
may leave a connection with the older list; a delivered job may have a DLQ
record (3.4).

## 5. What TLAPS proves

Every safety property of every passing run, for all values of the constants
allowed by the `ConstantsAssumption` of its module; there is no other assumption.
The pattern is the same everywhere: an inductive invariant, one lemma per action
(or per group of actions that have an effect in common), and the property as a
consequence.

*OutboundDelivery.* `NoLostJob` is not inductive: a handler about to acknowledge
an entry relies on the job being safe elsewhere, which the invariant has to
know. `DeliveryInv` therefore asks that an accepted job is kept by an entry that
**no handler is about to acknowledge**, by the delayed store, a completed marker
or the DLQ; that the entry a handler holds, while it exists, is of its own job
(so that acknowledging cannot hit another one); that the delayed store is keyed
by job id (so that promotion moves the right job); and that a handler on its way
to a retry has an attempt left (type correctness of the copy it writes).

`OutboundDeliveryRefinement` adds `LeaseInv`, which relates tokens, expiry and
doubt: no two handlers hold one token (`OneToken`); until its claim ends, a
handler that delivers finds its own token in Redis (`HoldsClaim`); a delivery that
goes on after that is excused (`LateIsDoubted`); what the inbox took is in doubt,
proved or about to be proved by a handler (`TakenIsAccounted`); what is proved is
delivered by nobody unless in doubt (`ProvedIsLeftAlone`); and only what was taken
is proved (`AnsweredWasTaken`). From it follow `LeaseExclusive`,
`DuplicateOnlyAfterLostProof` and `Refinement`: each action is a step of
`DeliveryPromise` or a stutter. Most of them share one lemma, as they neither take
a claim nor get an answer nor write a marker (`QuietStep`). `ResidencePreserved` is
strengthened with what handlers, retries and deferrals carry, and gives
`NoPostPastResidence`.

*OutboxIntent.* `IntentInv` adds to type correctness and `NoLostIntent` that the
state hash records its stages in order (`completed` within `enqueued` within
`logged`), that it agrees with log and fan-out counts, and that each handler is
at most one stage ahead (`Stage`). The fan-out count of exactly one per enqueued
targeted intent gives `FanOutOnce`; the order of the stages gives
`LoggedBeforeFanOut` and `CompletedMeansHandedOn`. `SecondRecordOnlyIfRaced` needs
to know who may still write a record: handlers that read the state before it was
marked are all raced but one. `NoFanOutPastAge` needs that every copy carries the
time of a hand-over.

*DomainSlots.* From the account (`Accounted`), the limit on the counter itself
and type correctness follows `BoundedByForgotten`; `PositiveCounterExpires` is
inductive beside them.

*InboundWorker.* `HandlingInv` is type correctness, the stage of each handler
fitting the kind of its activity, and each handler working on its own entry.
`CarriedInv` says who answers for an activity that is not settled: an entry that
**no handler is about to drop**, or a handler with a retry or a record still to
write after its early acknowledgement; it gives `KeptUntilClaimed` and
`ReportsSurviveCrashes`. `OnceInv` makes the claim of an activity id a permission
that one handler has and gives away once, whichever inbox it came by
(`EffectsOnce`); `OneBoostInv` does the same for the announce guard, `OneCaseInv`
for the look-up of a moderation case for a report at one inbox.

*OriginReconciliation.* `OnceInv`: only the handler that marked a version
enqueues its update (`EachVersionOnce`). `EndsInv`: a handler acknowledges for good
only if its window is closed (`EndsOnPurpose`). `CurrentInv`: a job that may still
poll is of the newest window, which has the claim. On it rest `ChainInv` (the job
of a window is in one place until an entry is redelivered to a second handler:
`SingleFlight`), `BudgetInv` (a job has an attempt for each poll, but for those a
mishap undid: `PollsBounded`) and `LastInv` (a job compares with the local version,
wherever it is: `ComparesWithLocal`).

*FederationPipeline.* Its steps are steps of `OutboxIntent` on the intent side
and of `DeliveryPromise` on the other, so the theorems of both hold in it; the
delivery side has the jobs of exactly the intents that were fanned out
(`HandedAsFanned`), all of them for a completed one (`CompletedIsHandedOver`).
With the order of the promise itself (`DeliveredInOrder`: handed over, then taken,
then proved; taken twice only in doubt) and `LoggedBeforeFanOut` follows the one
property that spans the whole way: what any remote inbox took is on record in the
event log (`DeliveredIsLogged`).

*RealtimeStream.* `ShapeInv` is type correctness, requests used in sequence, hubs
that hold only open connections of their own process and session, and numbers
and events that belong together. `TicketInv`: the mark of a used ticket stays
while its session is found. `RevokedInv`: handshakes that wait while a revocation
is announced are raced. `TopicsInv`: a handshake has the topics of its session
unless stale, and one change at a time is under way unless unsure.

`NoSilentGap` speaks of the client only, and rests on the whole path of an event.
`StreamInv` is its strengthening, with four parts. `NumberInv`: what is stored has
key and index entry until it is excused, and no number is stored twice.
`HoldsInv`: held-back events are stored, ascend, and are below what their process
is about to publish, which is why a flush after the replay is in order.
`ScanInv`: a scan that nobody disturbed has found everything wanted that it has
passed, although it reads by offset and not by number. `GapInv`: what the
connected client misses comes after its last id; nothing is missed by a
connection that is not held back; and when the replay is about to be sent,
what is missed is in it or among the events held back.

Only model-checked: everything under fairness (`EveryJobSettles`, `QueuesDrain`,
`EveryInboxServed`, `Decided`, `DomainReopens`), since liveness is outside the
prover's reach, and the two runs that end in a violation.

## 6. Not modelled

See `components` in `PROJECT.json` for every part and the reason. Within the
modelled parts: MAXLEN trimming of Streams (500 000 entries by default), clock
skew between processes, expiry of completed markers and of intent states, the
marker migration at start-up, graceful stop (a stopped worker drops what a crash
drops), back-pressure and request validation of the webhooks, metrics, logging
and adapter callbacks. In the inbound worker: the followers-sync header, which is
fire-and-forget, and what the policies look at. Between reconciliation and the
inbound worker: `stripUnverifiedSyntheticVerification` removes the verification of
synthetic updates (`queue/sidecar-redis-queue.ts:43`), after which they fail
verification; each module models its own side of that. In the realtime part:
`replaceTopics`, which no route calls, shutdown, the scan limit, and redelivery of
events by Kafka.

The AT Protocol server, the bridge's translators, feeds, search and the entryway
are mostly request handlers and conversions over stores, where data rather than
interleaving decides; their size (see `PROJECT.json`) is why most lines of the
repository are not mapped.
