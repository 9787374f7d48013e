-------------------------- MODULE OriginReconciliation --------------------------
(***************************************************************************)
(* Reconciliation of one remote object with its origin server: an inbound  *)
(* activity opens a window of polls, each poll is a job of the             *)
(* reconciliation Stream that fetches the object, hands a changed version  *)
(* to the inbound queue as a synthetic update and reschedules itself.      *)
(* Sources: federation/origin-reconciliation/OriginReconciliationService.ts, *)
(* delivery/origin-reconciliation-worker.ts and the reconciliation part of *)
(* queue/sidecar-redis-queue-core.ts under fedify-sidecar/src.             *)
(*                                                                         *)
(* A version of the object is its fingerprint.  processJob has no catch: a *)
(* Redis call that throws ends the handler and leaves the entry as it is.  *)
(* The per-origin slot is that of DomainSlots; its release in the finally  *)
(* block changes nothing here.  The fingerprint marks (7 days) outlive     *)
(* everything that is modelled; one unit of the clock is far longer than a *)
(* Redis call.                                                             *)
(***************************************************************************)
EXTENDS Naturals, FiniteSets

CONSTANTS
    Versions,     \* versions of the object at its origin
    Marked,       \* versions marked as applied by windows of the last days
    Workers,      \* running handlers, over all sidecar processes
    MsgIds,       \* ids of Stream entries
    Window,       \* activationWindowMs, also the life time of the claim
    Delays,       \* delays to the next poll, of whatever kind, with their jitter
    MaxAttempts,  \* maxAttempts of a job
    MaxUnchanged, \* maxUnchangedSuccesses
    MaxTime,      \* bound: the last instant of the clock
    MaxWindows,   \* bound: windows opened
    MaxEdits,     \* bound: edits at the origin
    MaxMishaps    \* bound: Redis calls that fail, crashes, and entries redelivered
                  \* while a handler still has them

ASSUME ConstantsAssumption ==
    /\ {MaxAttempts, MaxTime, MaxWindows, MaxEdits, MaxMishaps} \subseteq Nat
    /\ Marked \subseteq Versions
    /\ {Window, MaxUnchanged} \subseteq Nat \ {0} /\ Delays \subseteq Nat

VARIABLES
    now,      \* the clock
    origin,   \* version at the origin
    local,    \* version last handed to the inbound pipeline
    claim,    \* end of the claim on the object; 0: none
    opening,  \* job of a claimed window that is not in the Stream yet, or none
    stream,   \* reconciliation Stream: id -> job, for entries not acknowledged
    applied,  \* versions marked as applied
    updates,  \* version -> synthetic updates enqueued for it (2: or more)
    dlq,      \* windows with a record in the reconciliation DLQ
    h,        \* the handlers
    windows,  \* number of windows opened so far
    polls,    \* window -> fetches made for it until an entry is redelivered
    closed,   \* history: windows that ended by a stop condition
    spoilt,   \* history: what went wrong so far, see Spoils
    edits,    \* number of edits so far
    mishaps   \* number of failed calls, crashes and early redeliveries so far

clocks == <<now, origin, edits>>
vars == <<clocks, local, claim, opening, stream, applied, updates, dlq, h, windows,
          polls, closed, spoilt, mishaps>>

\* update: a version was marked and not handed on; chain: an acknowledged job
\* was not written back; redelivered: two handlers had one entry; returned: an
\* earlier version was back at the origin; overtaken: local changed by
\* something else than the newest window; repeat: a poll that handed a version
\* on was not acknowledged and is done again.
Spoils == {"update", "chain", "redelivered", "returned", "overtaken", "repeat"}

Job == [win : 1 .. MaxWindows, attempt : 0 .. MaxAttempts, notBefore : 0 .. MaxTime,
        ends : 0 .. MaxTime + Window, last : Versions, unchanged : 0 .. MaxUnchanged,
        missing : 0 .. 1]

NoJob == [win |-> 0]

TooMany == MaxAttempts + MaxMishaps + 1

Handler == [pc : {"admit", "fetch", "mark", "emit", "ack", "enqueue", "dlq"},
            msg : MsgIds, job : Job,
            seen : Versions,                     \* version fetched
            then : {"done", "enqueue", "dlq"}]   \* what follows the ack

Idle == [pc |-> "idle"]

TypeOK ==
    /\ now \in 0 .. MaxTime
    /\ {origin, local} \cup applied \subseteq Versions
    /\ claim \in 0 .. MaxTime + Window
    /\ opening \in Job \cup {NoJob}
    /\ DOMAIN stream \subseteq MsgIds
    /\ stream \in [DOMAIN stream -> Job]
    /\ updates \in [Versions -> 0 .. 2]
    /\ dlq \subseteq 1 .. MaxWindows /\ closed \subseteq 1 .. MaxWindows
    /\ h \in [Workers -> Handler \cup {Idle}]
    /\ windows \in 0 .. MaxWindows
    /\ polls \in [1 .. MaxWindows -> 0 .. TooMany]
    /\ spoilt \subseteq Spoils
    /\ edits \in 0 .. MaxEdits /\ mishaps \in 0 .. MaxMishaps

-----------------------------------------------------------------------------
\* Redis and the control flow of a handler

Busy(w) == h[w].pc # "idle"
At(w, pc) == h[w].pc = pc
Go(w, r) == h' = [h EXCEPT ![w] = r]

\* Ids that no entry has and none of the handlers W remembers.
FreshIds(W) == MsgIds \ (DOMAIN stream \cup {h[w].msg : w \in {v \in W : Busy(v)}})

\* enqueueOriginReconciliation
Enqueue(j, W) ==
    /\ FreshIds(W) # {}
    /\ LET m == CHOOSE m \in FreshIds(W) : TRUE
       IN  stream' = [x \in DOMAIN stream \cup {m} |-> IF x = m THEN j ELSE stream[x]]

Later(d) == IF now + d > MaxTime THEN MaxTime ELSE now + d

AckThen(r, then) == [r EXCEPT !.pc = "ack", !.then = then]

\* Acknowledge, then write the job j back (rescheduleJob, deferJob).
Reschedule(r, j) == [AckThen(r, "enqueue") EXCEPT !.job = j]

\* What is lost when the handler stops before its next call takes effect.
Loses(r) ==
    CASE r.pc = "emit" -> {"update"}
      [] r.pc = "enqueue" -> {"chain"}
      [] r.pc = "ack" /\ r.msg \in DOMAIN stream /\ stream[r.msg].last # r.job.last -> {"repeat"}
      [] OTHER -> {}

\* ... and when it stops right after it.
LosesAfter(r) ==
    CASE r.pc = "mark" -> {"update"}
      [] r.pc = "emit" -> {"repeat"}
      [] r.pc = "ack" /\ r.then = "enqueue" -> {"chain"}
      [] OTHER -> {}

\* The call took effect; its reply arrives, or is lost and processJob throws.
Reply(w, r) ==
    \/ Go(w, r) /\ UNCHANGED mishaps
    \/ /\ mishaps < MaxMishaps
       /\ mishaps' = mishaps + 1
       /\ Go(w, Idle)

\* What the step adds to the history, given its own additions S.
Spoil(w, S) ==
    spoilt' = spoilt \cup S \cup (IF mishaps' > mishaps THEN LosesAfter(h[w]) ELSE {})

\* The call throws without having taken effect.
CallFails(w) ==
    /\ Busy(w) /\ ~At(w, "fetch")
    /\ mishaps < MaxMishaps
    /\ mishaps' = mishaps + 1
    /\ Go(w, Idle)
    /\ spoilt' = spoilt \cup Loses(h[w])
    /\ UNCHANGED <<clocks, local, claim, opening, stream, applied, updates, dlq, windows, polls, closed>>

-----------------------------------------------------------------------------
\* The origin, the clock, crashes

Edit(v) ==
    /\ edits < MaxEdits /\ v # origin
    /\ edits' = edits + 1
    /\ origin' = v
    /\ UNCHANGED <<now, local, claim, opening, stream, applied, updates, dlq, h, windows,
                   polls, closed, spoilt, mishaps>>

\* Time passes; a claim whose time to live has ended disappears.
Tick ==
    /\ now < MaxTime
    /\ now' = now + 1
    /\ claim' = IF claim <= now + 1 THEN 0 ELSE claim
    /\ UNCHANGED <<origin, edits, local, opening, stream, applied, updates, dlq, h, windows,
                   polls, closed, spoilt, mishaps>>

\* A process dies with the handlers W it hosts.
Crash ==
    /\ mishaps < MaxMishaps
    /\ mishaps' = mishaps + 1
    /\ \E W \in SUBSET {w \in Workers : Busy(w)} :
        /\ W # {}
        /\ h' = [w \in Workers |-> IF w \in W THEN Idle ELSE h[w]]
        /\ spoilt' = spoilt \cup UNION {Loses(h[w]) : w \in W}
    /\ UNCHANGED <<clocks, local, claim, opening, stream, applied, updates, dlq, windows, polls, closed>>

-----------------------------------------------------------------------------
\* scheduleFromActivity

\* Wrong: SET without NX.
UnclaimedAlways == TRUE

\* SET NX finds no claim.
Unclaimed == claim = 0

\* An activity with version v of the object went through the inbound worker.
\* If no window is open, one is claimed.
Activity(v) ==
    /\ opening = NoJob
    /\ windows < MaxWindows
    /\ v \in {origin, local}
    /\ local' = v
    /\ \/ /\ Unclaimed
          /\ claim' = now + Window
          /\ windows' = windows + 1
          /\ \E d \in Delays :
               opening' = [win |-> windows + 1, attempt |-> 0, notBefore |-> Later(d),
                           ends |-> now + Window, last |-> v, unchanged |-> 0, missing |-> 0]
          /\ UNCHANGED spoilt
       \/ /\ ~Unclaimed /\ v # local
          /\ spoilt' = spoilt \cup {"overtaken"}
          /\ UNCHANGED <<claim, windows, opening>>
    /\ UNCHANGED <<clocks, stream, applied, updates, dlq, h, polls, closed, mishaps>>

\* The first job of the window reaches the Stream; a failure is swallowed and
\* leaves the claim without a job.
OpenWindow ==
    /\ opening # NoJob
    /\ opening' = NoJob
    /\ \/ Enqueue(opening, Workers) /\ UNCHANGED <<mishaps, spoilt>>
       \/ /\ mishaps < MaxMishaps
          /\ mishaps' = mishaps + 1
          /\ spoilt' = spoilt \cup {"chain"}
          /\ UNCHANGED stream
    /\ UNCHANGED <<clocks, local, claim, applied, updates, dlq, h, windows, polls, closed>>

-----------------------------------------------------------------------------
\* processJob

\* Wrong: only the clock ends a window.
OverByTime(j) == now >= j.ends

\* The window has expired or its polls are used up.
Over(j) == now >= j.ends \/ j.attempt >= MaxAttempts

\* XREADGROUP or XAUTOCLAIM, then the checks before the first call.
Receive(w, m) ==
    /\ ~Busy(w)
    /\ m \in DOMAIN stream
    /\ LET j == stream[m]
           r == [pc |-> "admit", msg |-> m, job |-> j, seen |-> j.last, then |-> "done"]
       IN  \/ /\ j.notBefore > now
              /\ Go(w, Reschedule(r, j)) /\ UNCHANGED closed
           \/ /\ j.notBefore <= now /\ Over(j)
              /\ Go(w, AckThen(r, "done")) /\ closed' = closed \cup {j.win}
           \/ /\ j.notBefore <= now /\ ~Over(j)
              /\ Go(w, r) /\ UNCHANGED closed
    /\ IF \E v \in Workers : Busy(v) /\ h[v].msg = m
       THEN /\ mishaps < MaxMishaps
            /\ mishaps' = mishaps + 1
            /\ spoilt' = spoilt \cup {"redelivered"}
       ELSE UNCHANGED <<mishaps, spoilt>>
    /\ UNCHANGED <<clocks, local, claim, opening, stream, applied, updates, dlq, windows, polls>>

\* checkDomainRateLimit and acquireDomainSlot: go on, or defer the job.
Admit(w) ==
    /\ At(w, "admit")
    /\ \/ Reply(w, [h[w] EXCEPT !.pc = "fetch"])
       \/ \E d \in Delays : Reply(w, Reschedule(h[w], [h[w].job EXCEPT !.notBefore = Later(d)]))
    /\ UNCHANGED <<clocks, local, claim, opening, stream, applied, updates, dlq, windows,
                   polls, closed, spoilt>>

\* The job for the next poll.
Following(j, d) == [j EXCEPT !.attempt = @ + 1, !.notBefore = Later(d)]

Close(w, then) ==
    /\ Go(w, AckThen(h[w], then))
    /\ closed' = closed \cup {h[w].job.win}

\* The object has the version of the job: two such polls in a row end the window.
Unchanged(w, d) ==
    LET j == h[w].job
    IN  IF j.unchanged + 1 >= MaxUnchanged
        THEN Close(w, "done")
        ELSE /\ Go(w, Reschedule(h[w], [Following(j, d) EXCEPT !.unchanged = @ + 1]))
             /\ UNCHANGED closed

\* Wrong: a transient failure ends the window.
AfterTransientDropped(r, d) == AckThen(r, "done")

AfterTransient(r, d) == Reschedule(r, Following(r.job, d))

\* 404: once more if the window allows, then the window ends.
NotFound(w, d) ==
    LET j == h[w].job
    IN  IF j.missing = 0 /\ now + d < j.ends
        THEN /\ Go(w, Reschedule(h[w], [Following(j, d) EXCEPT !.missing = 1]))
             /\ UNCHANGED closed
        ELSE Close(w, "done")

\* fetchRemoteObject and handleFailedFetch.
Fetch(w) ==
    /\ At(w, "fetch")
    /\ \/ /\ origin # h[w].job.last
          /\ Go(w, [h[w] EXCEPT !.pc = "mark", !.seen = origin]) /\ UNCHANGED closed
       \/ \E d \in Delays :
            \/ origin = h[w].job.last /\ Unchanged(w, d)
            \/ Go(w, AfterTransient(h[w], d)) /\ UNCHANGED closed
            \/ NotFound(w, d)
       \/ Close(w, "done")  \* 410
       \/ Close(w, "dlq")   \* blocked URL, signing error, other answers
    /\ polls' = [polls EXCEPT ![h[w].job.win] = IF @ = TooMany \/ "redelivered" \in spoilt THEN @ ELSE @ + 1]
    /\ UNCHANGED <<clocks, local, claim, opening, stream, applied, updates, dlq, windows,
                   spoilt, mishaps>>

\* The job after a poll that saw another version.
Polled(r, d) ==
    Reschedule(r, [Following(r.job, d) EXCEPT !.unchanged = 0, !.missing = 0, !.last = r.seen])

\* Wrong: the mark is not consulted.
ShouldApplyAlways(v) == TRUE

\* The version was not marked before.
ShouldApply(v) == v \notin applied

\* Wrong: the update is enqueued only for a version that was applied before.
AfterMarkInverted(r, d) == IF ShouldApply(r.seen) THEN Polled(r, d) ELSE [r EXCEPT !.pc = "emit"]

AfterMark(r, d) == IF ShouldApply(r.seen) THEN [r EXCEPT !.pc = "emit"] ELSE Polled(r, d)

\* markOriginReconciliationApplied
Mark(w) ==
    /\ At(w, "mark")
    /\ \E d \in Delays : Reply(w, AfterMark(h[w], d))
    /\ applied' = applied \cup {h[w].seen}
    /\ Spoil(w, IF ~ShouldApply(h[w].seen) /\ local # h[w].seen THEN {"returned"} ELSE {})
    /\ UNCHANGED <<clocks, local, claim, opening, stream, updates, dlq, windows, polls, closed>>

\* enqueueSyntheticUpdate, for an object whose actor is known.
Emit(w) ==
    /\ At(w, "emit")
    /\ updates' = [updates EXCEPT ![h[w].seen] = IF @ = 2 THEN 2 ELSE @ + 1]
    /\ local' = h[w].seen
    /\ \E d \in Delays : Reply(w, Polled(h[w], d))
    /\ Spoil(w, IF h[w].job.win # windows THEN {"overtaken"} ELSE {})
    /\ UNCHANGED <<clocks, claim, opening, stream, applied, dlq, windows, polls, closed>>

\* XACK
Ack(w) ==
    /\ At(w, "ack")
    /\ stream' = [m \in DOMAIN stream \ {h[w].msg} |-> stream[m]]
    /\ Reply(w, IF h[w].then = "done" THEN Idle ELSE [h[w] EXCEPT !.pc = h[w].then])
    /\ Spoil(w, {})
    /\ UNCHANGED <<clocks, local, claim, opening, applied, updates, dlq, windows, polls, closed>>

\* The job is written back to the Stream.
WriteBack(w) ==
    /\ At(w, "enqueue")
    /\ Enqueue(h[w].job, Workers \ {w})
    /\ Reply(w, Idle)
    /\ UNCHANGED <<clocks, local, claim, opening, applied, updates, dlq, windows, polls, closed, spoilt>>

\* moveToDlq
MoveToDlq(w) ==
    /\ At(w, "dlq")
    /\ dlq' = dlq \cup {h[w].job.win}
    /\ Reply(w, Idle)
    /\ UNCHANGED <<clocks, local, claim, opening, stream, applied, updates, windows, polls, closed, spoilt>>

-----------------------------------------------------------------------------

Init ==
    /\ now = 0 /\ edits = 0
    /\ origin \in Versions /\ local = origin
    /\ claim = 0 /\ opening = NoJob
    /\ stream = [m \in {} |-> m]
    /\ applied = Marked
    /\ updates = [v \in Versions |-> 0] /\ dlq = {}
    /\ h = [w \in Workers |-> Idle]
    /\ windows = 0 /\ polls = [n \in 1 .. MaxWindows |-> 0] /\ closed = {} /\ spoilt = {} /\ mishaps = 0

\* The next step of a running handler.
Process(w) ==
    \/ Admit(w) \/ Fetch(w) \/ Mark(w) \/ Emit(w)
    \/ Ack(w) \/ WriteBack(w) \/ MoveToDlq(w)

Next ==
    \/ \E v \in Versions : Edit(v) \/ Activity(v)
    \/ OpenWindow
    \/ \E w \in Workers : Process(w) \/ CallFails(w) \/ \E m \in MsgIds : Receive(w, m)
    \/ Tick
    \/ Crash

Spec == Init /\ [][Next]_vars

-----------------------------------------------------------------------------
\* Properties

\* The windows with a job to come: being opened, in the Stream, or held by a
\* handler that has acknowledged its entry.
Pending ==
    {stream[m].win : m \in DOMAIN stream} \cup {opening.win}
    \cup {h[w].job.win : w \in {v \in Workers : Busy(v) /\ At(v, "enqueue")}}

\* "Apply idempotent merges keyed by canonical object identity plus version
\* fingerprint": a version is handed to the inbound pipeline at most once,
\* whichever handlers poll it, fail and are redelivered.
EachVersionOnce == \A v \in Versions : updates[v] <= 1

\* A window stops polling only by one of the stop conditions of processJob,
\* unless its job was lost between the acknowledgement and the write-back, or
\* at the start between the claim and the first job.
EndsOnPurpose == \A n \in 1 .. windows : n \in Pending \cup closed \/ "chain" \in spoilt

\* A job that a poll may still come from and no handler has.
Waiting(m) ==
    /\ stream[m].win = windows /\ now < stream[m].ends
    /\ \A w \in Workers : Busy(w) => h[w].msg # m

\* A waiting job compares the origin with what was last handed to the inbound
\* pipeline, so that the next poll repairs exactly what is stale: unless an
\* update was lost after its version was marked, an earlier version came
\* back, an entry was handled twice, at once or again after a failure, or
\* another activity overtook the window.
ComparesWithLocal ==
    spoilt \subseteq {"chain"} =>
        \A m \in DOMAIN stream : Waiting(m) => stream[m].last = local

\* "At most one active reconciliation job may exist per origin object URL":
\* two jobs from which polls may come exist only after an entry was handed to
\* two handlers.
SingleFlight ==
    \A m, n \in DOMAIN stream :
        m # n /\ now < stream[m].ends /\ now < stream[n].ends =>
            \/ "redelivered" \in spoilt
            \/ \E w \in Workers : Busy(w) /\ h[w].msg \in {m, n}

\* "Max polls per activation window": a window makes no more polls than its
\* attempts, and one more for each failed call or crash, unless an entry was
\* handed to two handlers; deferrals and requeues cost no poll.
PollsBounded ==
    "redelivered" \notin spoilt => \A n \in 1 .. windows : polls[n] <= MaxAttempts + mishaps
================================================================================
