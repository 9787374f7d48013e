--------------------------- MODULE OutboundDelivery ---------------------------
(***************************************************************************)
(* Durable outbound ActivityPub delivery: the ready Stream with its        *)
(* pending-entry list, the delayed store, the delivery claims and          *)
(* completed markers, the DLQ, and the delivery handlers that take a job   *)
(* from the Stream to a remote inbox.  Sources: sidecar-redis-queue.ts,    *)
(* sidecar-redis-queue-core.ts, outbound-delivery-claims.ts and            *)
(* outbound-worker.ts under fedify-sidecar/src.                            *)
(*                                                                         *)
(* A worker of the model is one handler slot: the consumer code that reads *)
(* a Stream entry followed by processJob on it.  Every call to Redis is a  *)
(* step of its own and may fail before or after it took effect.  One unit  *)
(* of the clock is longer than the two seconds below which the code waits  *)
(* inline instead of using the delayed store.                              *)
(***************************************************************************)
EXTENDS Integers, FiniteSets

CONSTANTS
    Jobs,        \* job ids: an activity and a delivery URL
    Workers,     \* handler slots, over all sidecar processes
    MsgIds,      \* ids of Stream entries
    Tokens,      \* claim tokens
    NoToken,     \* the handler holds no claim
    Residence,   \* APDM_OUTBOUND_MESSAGE_MAX_RESIDENCE_MS
    ClaimTtl,    \* deliveryClaimTtlMs
    RateDelay,   \* delay of a job over its domain's rate limit
    Backoff,     \* backoffMs of a retry
    MaxAttempts, \* maxAttempts of a job
    MaxDefers,   \* notReadyMaxRequeues
    LegacyDelays,\* future-dated entries may be in the ready Stream
    MaxTime,     \* bound: the last instant of the clock
    MaxAccepts,  \* bound: how often the producer hands jobs over
    MaxFaults,   \* bound: Redis calls that fail
    MaxCrashes   \* bound: process crashes

ASSUME ConstantsAssumption ==
    /\ {Residence, MaxDefers, MaxAccepts, MaxFaults, MaxCrashes} \subseteq Nat
    /\ {ClaimTtl, RateDelay, Backoff, MaxAttempts, MaxTime} \subseteq Nat \ {0}
    /\ NoToken \notin Tokens
    /\ LegacyDelays \in BOOLEAN

VARIABLES
    now,       \* the clock every process reads
    stream,    \* ready Stream: id -> copy, for the entries not acknowledged
    delayed,   \* delayed store: job id -> copy
    claims,    \* delivery claims: job id -> token and expiry
    completed, \* jobs with a v2 completed marker
    dlq,       \* jobs with a record in the outbound DLQ
    h,         \* the handlers
    accepted,  \* job -> instants at which it was durably accepted
    accepts,   \* number of hand-overs so far
    received,  \* history: job -> times the remote inbox took it (2: or more)
    excused,   \* history: jobs whose delivery proof was lost or came late
    faults,    \* number of failed Redis calls so far
    crashes    \* number of crashes so far

store == <<stream, delayed, dlq>>
counts == <<accepted, accepts, crashes>>
vars == <<now, store, claims, completed, h, counts, received, excused, faults>>

Time == 1 .. MaxTime

\* A job as it travels: a notBefore or a stamp of 0 is "not set".
Copy == [job : Jobs, attempt : 0 .. MaxAttempts - 1, defers : 0 .. MaxDefers,
         notBefore : 0 .. MaxTime, stamp : 0 .. MaxTime]

\* Where a handler is: the call it makes next.
ConsumerPc == {"expire", "expireAck", "park", "parkSleep", "parkDlq", "parkAck"}
AckPc == {"expireAck", "parkAck", "ack", "catchAck"}
CatchPc == {"catchRelease", "catchDlq", "catchAck"}
WorkerPc == {"start", "admit", "post", "complete", "release", "dlq", "retry",
             "defer", "ack", "free"}

Handler == [pc : ConsumerPc \cup WorkerPc \cup CatchPc,
            msg : MsgIds, copy : Copy,
            token : Tokens \cup {NoToken},   \* NoToken: claimHeld is false
            until : 0 .. MaxTime + ClaimTtl, \* end of the claim it took
            slot : BOOLEAN,                  \* holds a domain slot
            err : BOOLEAN,                   \* unwinding to the outer catch
            then : {"dlq", "retry", "defer"}, \* what follows the release
            delay : 0 .. ClaimTtl + RateDelay]

Idle == [pc |-> "idle"]

TypeOK ==
    /\ now \in Time
    /\ DOMAIN stream \subseteq MsgIds
    /\ stream \in [DOMAIN stream -> Copy]
    /\ DOMAIN delayed \subseteq Jobs
    /\ delayed \in [DOMAIN delayed -> Copy]
    /\ DOMAIN claims \subseteq Jobs
    /\ claims \in [DOMAIN claims -> [token : Tokens, until : Nat]]
    /\ completed \subseteq Jobs
    /\ dlq \subseteq Jobs
    /\ h \in [Workers -> Handler \cup {Idle}]
    /\ accepted \in [Jobs -> SUBSET Time]
    /\ accepts \in 0 .. MaxAccepts
    /\ received \in [Jobs -> 0 .. 2]
    /\ excused \subseteq Jobs
    /\ faults \in 0 .. MaxFaults
    /\ crashes \in 0 .. MaxCrashes

-----------------------------------------------------------------------------
\* Redis structures

Busy(w) == h[w].pc # "idle"

\* The empty function; f without m; f with the value v at m.
Empty == [x \in {} |-> x]
Without(f, m) == [x \in DOMAIN f \ {m} |-> f[x]]
With(f, m, v) == [x \in DOMAIN f \cup {m} |-> IF x = m THEN v ELSE f[x]]

\* A Stream id no entry has and no handler remembers; Redis never reuses one.
FreshIds == MsgIds \ (DOMAIN stream \cup {h[w].msg : w \in {v \in Workers : Busy(v)}})
FreshTokens ==
    Tokens \ ({claims[j].token : j \in DOMAIN claims}
              \cup {h[w].token : w \in {v \in Workers : Busy(v)}})

\* Wrong: promotion to a new Stream id restarts the residence clock.
EnsureFirstQueuedAtAnew(c, t) == [c EXCEPT !.stamp = t]

\* The first enqueue time is written once and kept.  A job without one has
\* that of its Stream id, which consumeOutbound reads back later.
EnsureFirstQueuedAt(c, t) == IF c.stamp = 0 THEN [c EXCEPT !.stamp = t] ELSE c

\* XADD of the copy c to the ready Stream.  A deadline that has passed reads
\* as none.  Whether a consumer has read an entry makes no difference: unread
\* ones come by XREADGROUP, pending ones by XAUTOCLAIM, to any consumer.
AddReady(c) ==
    /\ FreshIds # {}
    /\ stream' = With(stream, CHOOSE m \in FreshIds : TRUE,
                      [EnsureFirstQueuedAt(c, now) EXCEPT
                         !.notBefore = IF @ <= now THEN 0 ELSE @])

\* A stored copy wins over a new one of an earlier attempt, or of the same
\* attempt that is due no later.
Outlives(old, new) ==
    \/ old.attempt > new.attempt
    \/ old.attempt = new.attempt /\ old.notBefore >= new.notBefore

StoreDelayed(c) ==
    delayed' = IF c.job \in DOMAIN delayed /\ Outlives(delayed[c.job], c)
               THEN delayed ELSE With(delayed, c.job, c)

\* enqueueOutbound: future work to the delayed store, due work to the Stream.
Enqueue(c) ==
    IF c.notBefore > now
    THEN StoreDelayed(c) /\ UNCHANGED stream
    ELSE AddReady(c) /\ UNCHANGED delayed

\* Past the bound of the clock every deadline is its last instant.
Later(d) == IF now + d > MaxTime THEN MaxTime ELSE now + d

\* Wrong: one unit too generous.
ExpiredLate(c) == now - c.stamp > Residence + 1

\* Past the residence limit.
Expired(c) == now - c.stamp > Residence

-----------------------------------------------------------------------------
\* Handler control flow

Go(w, r) == h' = [h EXCEPT ![w] = r]
At(w, pc) == h[w].pc = pc

\* Wrong: the job is acknowledged without a DLQ record.
CaughtNoDlq(r) ==
    [r EXCEPT !.pc = "catchAck", !.slot = FALSE, !.err = FALSE, !.then = "dlq", !.delay = 0]

\* Entry to the outer catch of processJob: release a held claim, DLQ, ack.
Caught(r) == [r EXCEPT !.pc = IF r.token = NoToken THEN "catchDlq" ELSE "catchRelease",
                       !.slot = FALSE, !.err = FALSE, !.then = "dlq", !.delay = 0]

\* Wrong: a delivered job's other entries are dropped without XACK.
SecuredButDelivered(r) ==
    IF r.copy.job \in completed THEN Idle ELSE [r EXCEPT !.pc = "ack", !.then = "dlq", !.delay = 0]

\* The job has moved on durably; only the acknowledgement is left.
Secured(r) == [r EXCEPT !.pc = "ack", !.then = "dlq", !.delay = 0]

\* Steps whose call may throw.
CallPc == (ConsumerPc \cup WorkerPc \cup CatchPc) \ {"parkSleep"}

\* The handler after the call it was making threw.
Thrown(r) ==
    CASE r.pc \in {"expire", "expireAck", "parkAck", "catchDlq", "catchAck"} -> Idle
      [] r.pc = "park"         -> [r EXCEPT !.pc = "parkSleep"]
      [] r.pc = "parkDlq"      -> r
      [] r.pc = "complete"     -> [r EXCEPT !.pc = "free"]
      [] r.pc = "catchRelease" -> [r EXCEPT !.pc = "catchDlq", !.token = NoToken, !.until = 0]
      [] r.pc = "free"         -> Caught(r)
      [] r.pc \in WorkerPc \ {"complete", "free"} ->
            IF r.slot THEN [r EXCEPT !.pc = "free", !.err = TRUE] ELSE Caught(r)

\* The call took effect; its reply arrives, or is lost and the call throws.
Reply(w, r) ==
    \/ Go(w, r) /\ UNCHANGED faults
    \/ /\ faults < MaxFaults
       /\ faults' = faults + 1
       /\ Go(w, Thrown(h[w]))

\* The call throws without having taken effect.
CallFails(w) ==
    /\ Busy(w) /\ h[w].pc \in CallPc
    /\ faults < MaxFaults
    /\ faults' = faults + 1
    /\ Go(w, Thrown(h[w]))
    /\ excused' = IF At(w, "complete") THEN excused \cup {h[w].copy.job} ELSE excused
    /\ UNCHANGED <<now, store, claims, completed, counts, received>>

-----------------------------------------------------------------------------
\* Producer, promotion, clock, crash

\* A job is durably handed over by the fan-out of an outbox intent; the job
\* carries no first enqueue time yet.  A release without the delayed store
\* wrote future-dated entries to the Stream as well.
Accept(j) ==
    /\ accepts < MaxAccepts
    /\ accepts' = accepts + 1
    /\ accepted' = [accepted EXCEPT ![j] = @ \cup {now}]
    /\ \E t \in {0} \cup (IF LegacyDelays THEN {Later(1)} ELSE {}) :
         AddReady([job |-> j, attempt |-> 0, defers |-> 0, notBefore |-> t, stamp |-> 0])
    /\ UNCHANGED <<now, delayed, dlq, claims, completed, h, crashes, received, excused, faults>>

\* ZRANGEBYSCORE -inf now.
Due(c) == c.notBefore <= now

\* promoteDueOutbound: one script moves a due job back to the ready Stream.
Promote(j) ==
    /\ j \in DOMAIN delayed
    /\ Due(delayed[j])
    /\ AddReady(delayed[j])
    /\ delayed' = Without(delayed, j)
    /\ UNCHANGED <<now, dlq, claims, completed, h, counts, received, excused, faults>>

\* A handler whose claim ends before it has recorded the delivery.
Overran(w) == Busy(w) /\ h[w].token # NoToken /\ h[w].until = now + 1

\* Time passes; claims whose time to live has ended disappear.
Tick ==
    /\ now < MaxTime
    /\ now' = now + 1
    /\ claims' = LET live == {j \in DOMAIN claims : claims[j].until > now + 1}
                 IN  [j \in live |-> claims[j]]
    /\ excused' = excused \cup {h[w].copy.job : w \in {v \in Workers : Overran(v)}}
    /\ UNCHANGED <<store, completed, h, counts, received, faults>>

\* The remote inbox took the job and no completed marker is written yet.
Unproved(w) == At(w, "complete")

\* A process dies with the handlers W it hosts; what they held in memory is gone.
Crash ==
    /\ crashes < MaxCrashes
    /\ crashes' = crashes + 1
    /\ \E W \in SUBSET {w \in Workers : Busy(w)} :
        /\ W # {}
        /\ h' = [w \in Workers |-> IF w \in W THEN Idle ELSE h[w]]
        /\ excused' = excused \cup {h[w].copy.job : w \in {v \in W : Unproved(v)}}
    /\ UNCHANGED <<now, store, claims, completed, accepted, accepts, received, faults>>

-----------------------------------------------------------------------------
\* consumeOutbound: from a Stream entry to processJob

\* XREADGROUP of a new entry or XAUTOCLAIM of one that idles in the
\* pending-entry list, also while a handler still works on it.
Receive(w, m) ==
    /\ ~Busy(w)
    /\ m \in DOMAIN stream
    /\ LET c == stream[m]
       IN  Go(w, [pc |-> CASE Expired(c) -> "expire"
                           [] ~Expired(c) /\ c.notBefore > now -> "park"
                           [] OTHER -> "start",
                  msg |-> m, copy |-> c, token |-> NoToken, until |-> 0,
                  slot |-> FALSE, err |-> FALSE, then |-> "dlq", delay |-> 0])
    /\ UNCHANGED <<now, store, claims, completed, counts, received, excused, faults>>

\* moveToDlq, at each of the places that call it.
MoveToDlq(w) ==
    /\ Busy(w)
    /\ \/ At(w, "expire")   /\ Reply(w, [h[w] EXCEPT !.pc = "expireAck"])
       \/ At(w, "parkDlq")  /\ Reply(w, [h[w] EXCEPT !.pc = "parkAck"])
       \/ At(w, "dlq")      /\ Reply(w, Secured(h[w]))
       \/ At(w, "catchDlq") /\ Reply(w, [h[w] EXCEPT !.pc = "catchAck"])
    /\ dlq' = dlq \cup {h[w].copy.job}
    /\ UNCHANGED <<now, stream, delayed, claims, completed, counts, received, excused>>

\* XACK; then the finally block frees the domain slot, if one is held.
Ack(w) ==
    /\ h[w].pc \in AckPc
    /\ stream' = Without(stream, h[w].msg)
    /\ Reply(w, IF h[w].pc = "ack" /\ h[w].slot THEN [h[w] EXCEPT !.pc = "free"] ELSE Idle)
    /\ UNCHANGED <<now, delayed, dlq, claims, completed, counts, received, excused>>

\* parkDelayedOutbound: one script stores the job and acknowledges the entry.
Park(w) ==
    /\ At(w, "park")
    /\ StoreDelayed(h[w].copy)
    /\ stream' = Without(stream, h[w].msg)
    /\ Reply(w, Idle)
    /\ UNCHANGED <<now, dlq, claims, completed, counts, received, excused>>

\* After a failed park: expired, due by now, or try again.
Unpark(w) ==
    /\ At(w, "parkSleep")
    /\ LET c == h[w].copy
       IN  Go(w, [h[w] EXCEPT !.pc = CASE Expired(c) -> "parkDlq"
                                       [] ~Expired(c) /\ c.notBefore > now -> "park"
                                       [] OTHER -> "start"])
    /\ UNCHANGED <<now, store, claims, completed, counts, received, excused, faults>>

-----------------------------------------------------------------------------
\* processJob

\* Residence is read again when processing starts; an expired job, or one the
\* egress capability gate denies, goes to the DLQ.
Refuse(w) ==
    /\ At(w, "start")
    /\ Go(w, [h[w] EXCEPT !.pc = "dlq"])
    /\ UNCHANGED <<now, store, claims, completed, counts, received, excused, faults>>

\* Wrong: the completed marker is never consulted.
ProvedNever(j) == FALSE

\* The completed marker exists.
Proved(j) == j \in completed

\* One script: a completed job is only acknowledged, a claimed one deferred.
Claim(w) ==
    /\ At(w, "start")
    /\ ~Expired(h[w].copy)
    /\ LET j == h[w].copy.job IN
       \/ /\ Proved(j)
          /\ Reply(w, Secured(h[w]))
          /\ UNCHANGED claims
       \/ /\ ~Proved(j) /\ j \in DOMAIN claims
          /\ Reply(w, [h[w] EXCEPT !.pc = "defer", !.delay = ClaimTtl])
          /\ UNCHANGED claims
       \/ /\ ~Proved(j) /\ j \notin DOMAIN claims
          /\ FreshTokens # {}
          /\ LET t == CHOOSE t \in FreshTokens : TRUE
             IN  /\ claims' = With(claims, j, [token |-> t, until |-> now + ClaimTtl])
                 /\ Reply(w, [h[w] EXCEPT !.pc = "admit", !.token = t,
                                          !.until = now + ClaimTtl])
    /\ UNCHANGED <<now, store, completed, counts, received, excused>>

ToRelease(r, then) == [r EXCEPT !.pc = "release", !.then = then]

\* isDomainBlocked, checkDomainRateLimit and acquireDomainSlot, whose answers
\* depend on the other jobs of the domain; with a slot, residence is read again.
Admit(w) ==
    /\ At(w, "admit")
    /\ \/ Reply(w, ToRelease(h[w], "dlq"))                            \* blocked
       \/ \E d \in {RateDelay, 0} :                \* rate limited, no slot
             Reply(w, [ToRelease(h[w], "defer") EXCEPT !.delay = d])
       \/ /\ Expired(h[w].copy)
          /\ Reply(w, [ToRelease(h[w], "dlq") EXCEPT !.slot = TRUE])
       \/ /\ ~Expired(h[w].copy)
          /\ Reply(w, [h[w] EXCEPT !.pc = "post", !.slot = TRUE])
    /\ UNCHANGED <<now, store, claims, completed, counts, received, excused>>

\* deliver: signing may have outlasted the residence limit, in which case
\* assertExternalPostAllowed throws.
PostTooLate(w) ==
    /\ At(w, "post")
    /\ Expired(h[w].copy)
    /\ Go(w, Thrown(h[w]))
    /\ UNCHANGED <<now, store, claims, completed, counts, received, excused, faults>>

\* Wrong: one attempt more than maxAttempts.
AfterTransientOneMore(r) ==
    ToRelease(r, IF r.copy.attempt + 1 > MaxAttempts THEN "dlq" ELSE "retry")

\* Wrong: no answer counts as delivered.
AfterTransientDelivered(r) == [r EXCEPT !.pc = "complete"]

AfterTransient(r) ==
    ToRelease(r, IF r.copy.attempt + 1 >= MaxAttempts THEN "dlq" ELSE "retry")

\* deliver: the remote inbox takes the job, and its answer arrives or not, or
\* it refuses the job for good or for now.  An unsafe URL and a signing error
\* count as a refusal, without a POST.
Post(w) ==
    /\ At(w, "post")
    /\ ~Expired(h[w].copy)
    /\ LET j == h[w].copy.job IN
       \/ /\ received' = [received EXCEPT ![j] = IF @ = 2 THEN 2 ELSE @ + 1]
          /\ \/ Go(w, [h[w] EXCEPT !.pc = "complete"]) /\ UNCHANGED excused
             \/ Go(w, AfterTransient(h[w])) /\ excused' = excused \cup {j}
       \/ /\ \/ Go(w, ToRelease(h[w], "dlq"))
             \/ Go(w, AfterTransient(h[w]))
          /\ UNCHANGED <<received, excused>>
    /\ UNCHANGED <<now, store, claims, completed, counts, faults>>

\* Wrong: whoever owns it.
ReleaseClaimOfAnyone(j, t) == IF j \in DOMAIN claims THEN Without(claims, j) ELSE claims

\* The claims without the one of job j, if token t owns it.
ReleaseClaim(j, t) ==
    IF j \in DOMAIN claims /\ claims[j].token = t THEN Without(claims, j) ELSE claims

\* One script: completed marker written, own claim deleted.
Complete(w) ==
    /\ At(w, "complete")
    /\ completed' = completed \cup {h[w].copy.job}
    /\ claims' = ReleaseClaim(h[w].copy.job, h[w].token)
    /\ Reply(w, [Secured(h[w]) EXCEPT !.token = NoToken, !.until = 0])
    /\ UNCHANGED <<now, store, counts, received, excused>>

\* The claim is released before the job moves on, also in the outer catch.
Release(w) ==
    /\ h[w].pc \in {"release", "catchRelease"}
    /\ claims' = ReleaseClaim(h[w].copy.job, h[w].token)
    /\ Reply(w, [h[w] EXCEPT !.pc = IF @ = "release" THEN h[w].then ELSE "catchDlq",
                             !.token = NoToken, !.until = 0])
    /\ UNCHANGED <<now, store, completed, counts, received, excused>>

\* A retry after backoffMs, as the next attempt.
Retry(w) ==
    /\ At(w, "retry")
    /\ Enqueue([h[w].copy EXCEPT !.attempt = @ + 1, !.notBefore = Later(Backoff)])
    /\ Reply(w, Secured(h[w]))
    /\ UNCHANGED <<now, dlq, claims, completed, counts, received, excused>>

\* deferOrParkJob: too many deferrals end in the DLQ.
Defer(w) ==
    /\ At(w, "defer")
    /\ LET c == h[w].copy
       IN  IF c.defers + 1 > MaxDefers
           THEN dlq' = dlq \cup {c.job} /\ UNCHANGED <<stream, delayed>>
           ELSE /\ Enqueue([c EXCEPT !.defers = @ + 1, !.notBefore = Later(h[w].delay)])
                /\ UNCHANGED dlq
    /\ Reply(w, Secured(h[w]))
    /\ UNCHANGED <<now, claims, completed, counts, received, excused>>

\* releaseDomainSlot in the finally block.
Free(w) ==
    /\ At(w, "free")
    /\ Reply(w, IF h[w].err THEN Caught(h[w]) ELSE Idle)
    /\ UNCHANGED <<now, store, claims, completed, counts, received, excused>>

-----------------------------------------------------------------------------

Init ==
    /\ now = 1
    /\ stream = Empty /\ delayed = Empty /\ claims = Empty
    /\ completed = {} /\ dlq = {}
    /\ h = [w \in Workers |-> Idle]
    /\ accepted = [j \in Jobs |-> {}] /\ accepts = 0
    /\ received = [j \in Jobs |-> 0] /\ excused = {}
    /\ faults = 0 /\ crashes = 0

\* The next step of a handler that has work.
Handle(w) ==
    \/ MoveToDlq(w) \/ Ack(w) \/ Park(w) \/ Unpark(w)
    \/ Refuse(w) \/ Claim(w) \/ Admit(w) \/ PostTooLate(w) \/ Post(w)
    \/ Complete(w) \/ Release(w) \/ Retry(w) \/ Defer(w) \/ Free(w)

Next ==
    \/ \E j \in Jobs : Accept(j) \/ Promote(j)
    \/ \E w \in Workers : Handle(w) \/ CallFails(w) \/ \E m \in MsgIds : Receive(w, m)
    \/ Tick
    \/ Crash

Spec == Init /\ [][Next]_vars

\* Handlers, the consumer loop, the promotion timer and time never stop for
\* good; nothing is assumed of the producer, of failures or of crashes.
Fairness ==
    /\ \A w \in Workers : WF_vars(Handle(w))
    /\ \A w \in Workers : WF_vars(\E m \in MsgIds : Receive(w, m))
    /\ \A j \in Jobs : WF_vars(Promote(j))
    /\ WF_vars(Tick)

FairSpec == Spec /\ Fairness

-----------------------------------------------------------------------------
\* Properties

InStream(j) == \E m \in DOMAIN stream : stream[m].job = j

\* Somewhere durable: in the ready Stream, in the delayed store, in the DLQ,
\* or proved delivered by its completed marker.
Durable(j) == InStream(j) \/ j \in DOMAIN delayed \/ j \in completed \/ j \in dlq

\* "There is no ACK -> write failure -> lost work gap": whatever crashes and
\* whichever Redis call fails, an accepted job is never only in the memory of
\* a handler (ack last in every path of processJob and consumeOutbound).
NoLostJob == \A j \in Jobs : accepted[j] # {} => Durable(j)

\* The strengthening of NoLostJob that every step preserves: an entry a handler
\* is about to acknowledge no longer counts, ids are not reused under a handler,
\* the delayed store is keyed by job id, and only a job with an attempt left is
\* on its way to a retry.
AckPending == {h[w].msg : w \in {v \in Workers : h[v].pc \in AckPc}}

Kept(j) ==
    \/ \E m \in DOMAIN stream \ AckPending : stream[m].job = j
    \/ j \in DOMAIN delayed \/ j \in completed \/ j \in dlq

SameJob ==
    \A w \in Workers :
        Busy(w) /\ h[w].msg \in DOMAIN stream => stream[h[w].msg].job = h[w].copy.job

DelayedKeyed == \A j \in DOMAIN delayed : delayed[j].job = j

AttemptLeft ==
    \A w \in Workers :
        \/ At(w, "retry")
        \/ At(w, "release") /\ h[w].then = "retry"
        => h[w].copy.attempt + 1 < MaxAttempts

DeliveryInv ==
    /\ TypeOK
    /\ \A j \in Jobs : accepted[j] # {} => Kept(j)
    /\ SameJob
    /\ DelayedKeyed
    /\ AttemptLeft

\* Between its claim and the end of its delivery.
Delivering(w) == Busy(w) /\ h[w].pc \in {"admit", "post", "complete"}

\* Two handlers deliver the same job only if the claim of one of them has
\* ended: a stale handler's release or complete cannot hand the job to a
\* third one (the token checks of claim, release and complete).
LeaseExclusive ==
    \A w, v \in Workers :
        w # v /\ Delivering(w) /\ Delivering(v) /\ h[w].copy.job = h[v].copy.job
        => h[w].until <= now \/ h[v].until <= now

\* The remote inbox takes a job twice only after a delivery of it that lost
\* its proof (crash or failure between the POST and the marker, or a lost
\* response) or that outlived its claim; redelivery by XAUTOCLAIM, duplicate
\* hand-overs, deferred copies and retries alone never cause it.
DuplicateOnlyAfterLostProof ==
    \A j \in Jobs : received[j] > 1 => j \in excused

\* Wherever a job travels (retry, deferral, delayed store, promotion to a new
\* Stream id), its residence clock is that of a hand-over of the job.
ResidencePreserved ==
    /\ \A m \in DOMAIN stream : stream[m].stamp \in accepted[stream[m].job]
    /\ \A j \in DOMAIN delayed : delayed[j].stamp \in accepted[j]
    /\ \A w \in Workers : Busy(w) => h[w].copy.stamp \in accepted[h[w].copy.job]

\* No POST leaves the sidecar later than the residence limit after a
\* hand-over of its job, however long the handler waited before it.
NoPostPastResidence ==
    [][\A w \in Workers :
         LET j == h[w].copy.job
         IN  At(w, "post") /\ h'[w].pc = "complete" =>
                \E t \in accepted[j] : now - t <= Residence]_vars

\* No entry stays in the Stream and no job in the delayed store for ever.
QueuesDrain == []<>(DOMAIN stream = {} /\ DOMAIN delayed = {})

\* The jobs that were ever handed over.
HandedOver == {j \in Jobs : accepted[j] # {}}

Promise == INSTANCE DeliveryPromise WITH
             handed <- HandedOver, sent <- received, doubt <- excused,
             proved <- completed, dead <- dlq

\* The queue, its handlers and their claims implement the promise: each of
\* their steps hands jobs over, delivers, doubts, proves or buries as
\* DeliveryPromise allows, or changes none of it.
PromiseKept == Promise!Spec

\* Every accepted job ends, delivered or in the DLQ.
EveryJobSettles == Promise!Settling
=============================================================================
