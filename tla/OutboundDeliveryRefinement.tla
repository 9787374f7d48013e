----------------------- MODULE OutboundDeliveryRefinement -----------------------
(***************************************************************************)
(* Proofs about OutboundDelivery for any jobs, handlers and limits, on top *)
(* of DeliveryInv: residence clocks survive every move of a job, claims    *)
(* exclude each other until they end, the remote inbox takes a job twice   *)
(* only after a lost proof, and the whole queue implements                 *)
(* DeliveryPromise.                                                        *)
(***************************************************************************)
EXTENDS OutboundDeliveryProofs

DeliverPc == {"admit", "post", "complete"}

\* The record q of a handler that worked as r: same job, no claim it did not
\* have, delivering only if it was and not yet with an answer.
Continues(q, r) ==
    \/ q.pc = "idle"
    \/ /\ q.copy = r.copy
       /\ q.token \in {NoToken, r.token}
       /\ q.pc # "complete"
       /\ q.pc \in DeliverPc => r.pc \in DeliverPc /\ q.token = r.token /\ q.until = r.until

LEMMA ThrownContinues ==
    ASSUME NEW r \in Handler, r.pc # "parkSleep"
    PROVE  Continues(Thrown(r), r) /\ Thrown(r).pc \notin DeliverPc
  <1>0. /\ Caught(r).copy = r.copy /\ Caught(r).token = r.token
        /\ Caught(r).pc \in {"catchDlq", "catchRelease"}
    BY DEF Caught, Handler
  <1>1. CASE r.pc \in {"expire", "expireAck", "parkAck", "catchDlq", "catchAck"}
    <2>1. Thrown(r) = Idle
      BY <1>1 DEF Thrown, WorkerPc
    <2> QED BY <2>1 DEF Idle, Continues, DeliverPc
  <1>2. CASE r.pc = "park"
    <2>1. Thrown(r) = [r EXCEPT !.pc = "parkSleep"]
      BY <1>2 DEF Thrown, WorkerPc
    <2> QED BY <2>1 DEF Handler, Continues, DeliverPc
  <1>3. CASE r.pc = "parkDlq"
    <2>1. Thrown(r) = r
      BY <1>3 DEF Thrown, WorkerPc
    <2> QED BY <1>3, <2>1 DEF Continues, DeliverPc
  <1>4. CASE r.pc = "complete"
    <2>1. Thrown(r) = [r EXCEPT !.pc = "free"]
      BY <1>4 DEF Thrown, WorkerPc
    <2> QED BY <2>1 DEF Handler, Continues, DeliverPc
  <1>5. CASE r.pc = "catchRelease"
    <2>1. Thrown(r) = [r EXCEPT !.pc = "catchDlq", !.token = NoToken, !.until = 0]
      BY <1>5 DEF Thrown, WorkerPc
    <2> QED BY <2>1 DEF Handler, Continues, DeliverPc
  <1>6. CASE r.pc = "free"
    <2>1. Thrown(r) = Caught(r)
      BY <1>6 DEF Thrown, WorkerPc
    <2> QED BY <1>0, <2>1 DEF Continues, DeliverPc
  <1>7. CASE r.pc \in {"start", "admit", "post", "release", "dlq", "retry", "defer", "ack"}
    <2>1. Thrown(r) = IF r.slot THEN [r EXCEPT !.pc = "free", !.err = TRUE] ELSE Caught(r)
      BY <1>7 DEF Thrown, WorkerPc
    <2>2. /\ [r EXCEPT !.pc = "free", !.err = TRUE].pc = "free"
          /\ [r EXCEPT !.pc = "free", !.err = TRUE].copy = r.copy
          /\ [r EXCEPT !.pc = "free", !.err = TRUE].token = r.token
      BY DEF Handler
    <2> QED BY <1>0, <2>1, <2>2 DEF Continues, DeliverPc
  <1> QED BY <1>1, <1>2, <1>3, <1>4, <1>5, <1>6, <1>7
          DEF Handler, ConsumerPc, WorkerPc, CatchPc

\* Answered or not, a call leaves the handler with its job and its claim.
LEMMA ReplyContinues ==
    ASSUME TypeOK, NEW w \in Workers, Busy(w), h[w].pc # "parkSleep",
           NEW r \in HandlerOrIdle, Continues(r, h[w]), Reply(w, r)
    PROVE  \E q \in HandlerOrIdle :
              /\ Go(w, q) /\ Continues(q, h[w])
              /\ r.pc \notin DeliverPc => q.pc \notin DeliverPc
  <1>1. h[w] \in Handler
    BY BusyLemma
  <1>2. Thrown(h[w]) \in HandlerOrIdle
    BY <1>1, ThrownLemma
  <1> QED BY <1>1, <1>2, ThrownContinues DEF Reply

\* What all steps of a handler have in common, except taking a claim, an
\* answer of the remote inbox and the completed marker.
QuietStep(w) ==
    /\ UNCHANGED <<now, completed, received>> /\ excused \subseteq excused'
    /\ h[w].pc = "complete" => h[w].copy.job \in excused'
    /\ \E q \in HandlerOrIdle :
          /\ Go(w, q) /\ Continues(q, h[w])
          /\ \/ claims' = claims
             \/ /\ claims' = ReleaseClaim(h[w].copy.job, h[w].token)
                /\ q.pc \notin DeliverPc

\* Steps of the consumer loop and of processJob that no claim depends on.
LEMMA ConsumerStepsAreQuiet ==
    ASSUME DeliveryInv, NEW w \in Workers,
           MoveToDlq(w) \/ Ack(w) \/ Park(w) \/ Unpark(w) \/ Free(w)
    PROVE  Busy(w) /\ QuietStep(w)
  <1>1. Busy(w) /\ h[w] \in Handler /\ TypeOK
    BY BusyLemma DEF MoveToDlq, Ack, Park, Unpark, Free, At, AckPc, Busy, DeliveryInv
  <1>2. UNCHANGED <<now, completed, received, claims, excused>> /\ h[w].pc # "complete"
    BY DEF MoveToDlq, Ack, Park, Unpark, Free, At, AckPc
  <1>3. CASE Unpark(w)
    <2>1. PICK pc : pc \in {"parkDlq", "park", "start"} /\ Go(w, [h[w] EXCEPT !.pc = pc])
      BY <1>3 DEF Unpark
    <2> DEFINE r == [h[w] EXCEPT !.pc = pc]
    <2>2. r \in HandlerOrIdle /\ Continues(r, h[w])
      BY <1>1, <2>1 DEF HandlerOrIdle, Handler, ConsumerPc, WorkerPc, Continues, DeliverPc
    <2> QED BY <1>1, <1>2, <2>1, <2>2 DEF QuietStep
  <1>4. ASSUME NEW r \in HandlerOrIdle, Reply(w, r), h[w].pc # "parkSleep", Continues(r, h[w])
        PROVE  QuietStep(w)
    <2>1. PICK q \in HandlerOrIdle : Go(w, q) /\ Continues(q, h[w])
      BY <1>1, <1>4, ReplyContinues
    <2> QED BY <1>2, <2>1 DEF QuietStep
  <1>5. CASE MoveToDlq(w)
    <2>1. PICK r : /\ Reply(w, r) /\ h[w].pc # "parkSleep"
                   /\ \/ r = Secured(h[w])
                      \/ \E pc \in {"expireAck", "parkAck", "catchAck"} :
                            r = [h[w] EXCEPT !.pc = pc]
      BY <1>5 DEF MoveToDlq, At
    <2>2. r \in HandlerOrIdle /\ Continues(r, h[w])
      BY <1>1, <2>1, Ranges DEF Secured, HandlerOrIdle, Handler, ConsumerPc, WorkerPc, CatchPc,
         Continues, DeliverPc
    <2> QED BY <1>1, <1>4, <2>1, <2>2
  <1>6. CASE Ack(w)
    <2> DEFINE r == IF h[w].pc = "ack" /\ h[w].slot THEN [h[w] EXCEPT !.pc = "free"] ELSE Idle
    <2>1. Reply(w, r) /\ h[w].pc # "parkSleep"
      BY <1>6 DEF Ack, AckPc
    <2>2. r \in HandlerOrIdle /\ Continues(r, h[w])
      BY <1>1 DEF HandlerOrIdle, Handler, WorkerPc, Idle, Continues, DeliverPc
    <2> HIDE DEF r
    <2> QED BY <1>1, <1>4, <2>1, <2>2
  <1>7. CASE Park(w)
    <2>1. Reply(w, Idle) /\ h[w].pc # "parkSleep"
      BY <1>7 DEF Park, At
    <2>2. Idle \in HandlerOrIdle /\ Continues(Idle, h[w])
      BY DEF HandlerOrIdle, Idle, Continues
    <2> QED BY <1>1, <1>4, <2>1, <2>2
  <1>8. CASE Free(w)
    <2> DEFINE r == IF h[w].err THEN Caught(h[w]) ELSE Idle
    <2>1. Reply(w, r) /\ h[w].pc # "parkSleep"
      BY <1>8 DEF Free, At
    <2>2. r \in HandlerOrIdle /\ Continues(r, h[w])
      <3>1. Caught(h[w]) \in Handler
        BY <1>1, CaughtLemma
      <3>2. Continues(Caught(h[w]), h[w])
        BY <1>1 DEF Caught, Handler, Continues, DeliverPc
      <3>3. Idle \in HandlerOrIdle /\ Continues(Idle, h[w])
        BY DEF HandlerOrIdle, Idle, Continues
      <3> QED BY <3>1, <3>2, <3>3 DEF HandlerOrIdle
    <2> HIDE DEF r
    <2> QED BY <1>1, <1>4, <2>1, <2>2
  <1> QED BY <1>1, <1>3, <1>5, <1>6, <1>7, <1>8

\* Steps of processJob between its claim and the acknowledgement.
LEMMA WorkerStepsAreQuiet ==
    ASSUME DeliveryInv, NEW w \in Workers,
           Refuse(w) \/ Admit(w) \/ PostTooLate(w) \/ Release(w) \/ Retry(w) \/ Defer(w)
    PROVE  Busy(w) /\ QuietStep(w)
  <1>1. Busy(w) /\ h[w] \in Handler /\ TypeOK
    BY BusyLemma DEF Refuse, Admit, PostTooLate, Release, Retry, Defer, At, Busy, DeliveryInv
  <1>2. UNCHANGED <<now, completed, received, excused>> /\ h[w].pc \notin {"complete", "parkSleep"}
    BY DEF Refuse, Admit, PostTooLate, Release, Retry, Defer, At
  <1>3. ASSUME NEW r \in HandlerOrIdle, Reply(w, r), claims' = claims, Continues(r, h[w])
        PROVE  QuietStep(w)
    <2>1. PICK q \in HandlerOrIdle : Go(w, q) /\ Continues(q, h[w])
      BY <1>1, <1>2, <1>3, ReplyContinues
    <2> QED BY <1>2, <1>3, <2>1 DEF QuietStep
  <1>4. CASE Refuse(w)
    <2> DEFINE r == [h[w] EXCEPT !.pc = "dlq"]
    <2>1. r \in HandlerOrIdle /\ Continues(r, h[w])
      BY <1>1 DEF HandlerOrIdle, Handler, WorkerPc, Continues, DeliverPc
    <2>2. Go(w, r) /\ claims' = claims
      BY <1>4 DEF Refuse
    <2> HIDE DEF r
    <2> QED BY <1>1, <1>2, <2>1, <2>2 DEF QuietStep
  <1>5. CASE PostTooLate(w)
    <2>1. Go(w, Thrown(h[w])) /\ claims' = claims
      BY <1>5 DEF PostTooLate
    <2>2. Thrown(h[w]) \in HandlerOrIdle /\ Continues(Thrown(h[w]), h[w])
      BY <1>1, <1>2, ThrownLemma, ThrownContinues
    <2> QED BY <1>1, <1>2, <2>1, <2>2 DEF QuietStep
  <1>6. CASE Admit(w)
    <2>1. PICK r : /\ Reply(w, r)
                   /\ \/ r = ToRelease(h[w], "dlq")
                      \/ \E d \in {RateDelay, 0} : r = [ToRelease(h[w], "defer") EXCEPT !.delay = d]
                      \/ r = [ToRelease(h[w], "dlq") EXCEPT !.slot = TRUE]
                      \/ r = [h[w] EXCEPT !.pc = "post", !.slot = TRUE]
      BY <1>6 DEF Admit
    <2>2. \A t \in {"dlq", "defer"} :
            LET q == ToRelease(h[w], t)
            IN  /\ q \in Handler /\ q.pc = "release"
                /\ q.token = h[w].token /\ q.copy = h[w].copy
      BY <1>1 DEF ToRelease, Handler, WorkerPc
    <2>3. r \in HandlerOrIdle /\ Continues(r, h[w])
      <3>1. CASE r = ToRelease(h[w], "dlq") \/ r = [ToRelease(h[w], "dlq") EXCEPT !.slot = TRUE]
        BY <2>2, <3>1 DEF HandlerOrIdle, Handler, Continues, DeliverPc
      <3>2. CASE \E d \in {RateDelay, 0} : r = [ToRelease(h[w], "defer") EXCEPT !.delay = d]
        BY <2>2, <3>2, Ranges DEF HandlerOrIdle, Handler, Continues, DeliverPc
      <3>3. CASE r = [h[w] EXCEPT !.pc = "post", !.slot = TRUE]
        <4>1. At(w, "admit")
          BY <1>6 DEF Admit
        <4> QED BY <1>1, <3>3, <4>1
                DEF At, HandlerOrIdle, Handler, WorkerPc, Continues, DeliverPc
      <3> QED BY <2>1, <3>1, <3>2, <3>3
    <2>4. claims' = claims
      BY <1>6 DEF Admit
    <2> QED BY <1>1, <1>3, <2>1, <2>3, <2>4
  <1>7. CASE Release(w)
    <2> DEFINE r == [h[w] EXCEPT !.pc = IF @ = "release" THEN h[w].then ELSE "catchDlq",
                                 !.token = NoToken, !.until = 0]
    <2>1. /\ h[w].pc \in {"release", "catchRelease"} /\ Reply(w, r)
          /\ claims' = ReleaseClaim(h[w].copy.job, h[w].token)
      BY <1>7 DEF Release
    <2>2. r \in HandlerOrIdle /\ Continues(r, h[w]) /\ r.pc \notin DeliverPc
      BY <1>1, <2>1, Ranges DEF HandlerOrIdle, Handler, WorkerPc, CatchPc, Continues, DeliverPc
    <2> HIDE DEF r
    <2>3. PICK q \in HandlerOrIdle : Go(w, q) /\ Continues(q, h[w]) /\ q.pc \notin DeliverPc
      BY <1>1, <1>2, <2>1, <2>2, ReplyContinues
    <2> QED BY <1>1, <1>2, <2>1, <2>3 DEF QuietStep
  <1>8. CASE Retry(w) \/ Defer(w)
    <2>1. Reply(w, Secured(h[w])) /\ claims' = claims
      BY <1>8 DEF Retry, Defer
    <2>2. Secured(h[w]) \in HandlerOrIdle /\ Continues(Secured(h[w]), h[w])
      BY <1>1, Ranges DEF Secured, HandlerOrIdle, Handler, WorkerPc, Continues, DeliverPc
    <2> QED BY <1>1, <1>3, <2>1, <2>2
  <1> QED BY <1>1, <1>4, <1>5, <1>6, <1>7, <1>8

\* A failed call is quiet too: a marker that was not written leaves a doubt.
LEMMA CallFailsIsQuiet ==
    ASSUME DeliveryInv, NEW w \in Workers, CallFails(w)
    PROVE  Busy(w) /\ QuietStep(w)
  <1>1. Busy(w) /\ h[w] \in Handler /\ TypeOK /\ h[w].pc # "parkSleep"
    BY BusyLemma DEF CallFails, CallPc, DeliveryInv
  <1>2. Thrown(h[w]) \in HandlerOrIdle /\ Continues(Thrown(h[w]), h[w])
    BY <1>1, ThrownLemma, ThrownContinues
  <1>3. /\ UNCHANGED <<now, completed, received, claims>> /\ Go(w, Thrown(h[w]))
        /\ excused \subseteq excused'
        /\ h[w].pc = "complete" => h[w].copy.job \in excused'
    BY DEF CallFails, At
  <1> QED BY <1>1, <1>2, <1>3 DEF QuietStep

\* The claim script either leaves all claims alone or takes a free one.
TakesClaim(w) ==
    LET j == h[w].copy.job IN
    /\ h[w].pc = "start"
    /\ j \notin completed /\ j \notin DOMAIN claims
    /\ UNCHANGED <<now, completed, received, excused>>
    /\ \E t \in FreshTokens :
          /\ claims' = With(claims, j, [token |-> t, until |-> now + ClaimTtl])
          /\ \E q \in HandlerOrIdle :
                /\ Go(w, q)
                /\ q.pc = "idle" \/ q.copy = h[w].copy
                /\ \/ Continues(q, h[w]) /\ q.pc \notin DeliverPc
                   \/ q.pc = "admit" /\ q.token = t /\ q.until = now + ClaimTtl

LEMMA ClaimStep ==
    ASSUME DeliveryInv, NEW w \in Workers, Claim(w)
    PROVE  Busy(w) /\ (QuietStep(w) \/ TakesClaim(w))
  <1> DEFINE j == h[w].copy.job
             t == CHOOSE t \in FreshTokens : TRUE
             deferred == [h[w] EXCEPT !.pc = "defer", !.delay = ClaimTtl]
             claimed == [h[w] EXCEPT !.pc = "admit", !.token = t, !.until = now + ClaimTtl]
  <1>1. Busy(w) /\ h[w] \in Handler /\ h[w].pc = "start" /\ TypeOK
    BY BusyLemma DEF Claim, At, Busy, DeliveryInv
  <1>2. UNCHANGED <<now, completed, received, excused>>
    BY DEF Claim
  <1>3. ASSUME NEW r \in HandlerOrIdle, Reply(w, r), claims' = claims, Continues(r, h[w])
        PROVE  QuietStep(w)
    <2>1. PICK q \in HandlerOrIdle : Go(w, q) /\ Continues(q, h[w])
      BY <1>1, <1>3, ReplyContinues
    <2> QED BY <1>1, <1>2, <1>3, <2>1 DEF QuietStep
  <1>4. CASE Reply(w, Secured(h[w])) /\ UNCHANGED claims
    <2>1. Secured(h[w]) \in HandlerOrIdle /\ Continues(Secured(h[w]), h[w])
      BY <1>1, Ranges DEF Secured, HandlerOrIdle, Handler, WorkerPc, Continues, DeliverPc
    <2> QED BY <1>1, <1>3, <1>4, <2>1
  <1>5. CASE Reply(w, deferred) /\ UNCHANGED claims
    <2>1. deferred \in HandlerOrIdle /\ Continues(deferred, h[w])
      BY <1>1, Ranges DEF HandlerOrIdle, Handler, WorkerPc, Continues, DeliverPc
    <2> HIDE DEF deferred
    <2> QED BY <1>1, <1>3, <1>5, <2>1
  <1>6. CASE /\ j \notin completed /\ j \notin DOMAIN claims /\ FreshTokens # {}
             /\ claims' = With(claims, j, [token |-> t, until |-> now + ClaimTtl])
             /\ Reply(w, claimed)
    <2>1. t \in FreshTokens /\ t \in Tokens
      BY <1>6 DEF FreshTokens
    <2>2. now + ClaimTtl \in 0 .. MaxTime + ClaimTtl
      BY <1>1, ConstantsAssumption DEF TypeOK, Time
    <2> HIDE DEF t
    <2>3. /\ claimed \in HandlerOrIdle /\ claimed.pc = "admit" /\ claimed.token = t
          /\ claimed.until = now + ClaimTtl /\ claimed.copy = h[w].copy
      BY <1>1, <2>1, <2>2 DEF HandlerOrIdle, Handler, WorkerPc
    <2>4. Thrown(h[w]) \in HandlerOrIdle
      BY <1>1, ThrownLemma
    <2>5. Continues(Thrown(h[w]), h[w]) /\ Thrown(h[w]).pc \notin DeliverPc
      BY <1>1, ThrownContinues
    <2> HIDE DEF claimed
    <2>6. \E q \in HandlerOrIdle :
             /\ Go(w, q) /\ (q.pc = "idle" \/ q.copy = h[w].copy)
             /\ \/ Continues(q, h[w]) /\ q.pc \notin DeliverPc
                \/ q.pc = "admit" /\ q.token = t /\ q.until = now + ClaimTtl
      BY <1>6, <2>3, <2>4, <2>5 DEF Reply, Continues
    <2> QED BY <1>1, <1>2, <1>6, <2>1, <2>6 DEF TakesClaim
  <1> QED BY <1>1, <1>4, <1>5, <1>6 DEF Claim, Proved

-----------------------------------------------------------------------------
\* Claims and doubts

\* No two handlers hold the same claim.
OneToken ==
    \A w, v \in Workers :
        w # v /\ Busy(w) /\ Busy(v) /\ h[w].token = h[v].token => h[w].token = NoToken

\* Until its claim ends, a handler that delivers finds it in Redis.
HoldsClaim ==
    \A w \in Workers : Delivering(w) =>
        /\ h[w].token # NoToken
        /\ h[w].until > now =>
             /\ h[w].copy.job \in DOMAIN claims
             /\ claims[h[w].copy.job].token = h[w].token
             /\ claims[h[w].copy.job].until = h[w].until

\* After its claim ended, a delivery is in doubt.
LateIsDoubted ==
    \A w \in Workers : Delivering(w) /\ h[w].until <= now => h[w].copy.job \in excused

\* What the remote inbox took is in doubt, proved, or about to be proved.
TakenIsAccounted ==
    \A j \in Jobs : received[j] > 0 =>
        \/ j \in excused \/ j \in completed
        \/ \E w \in Workers : At(w, "complete") /\ h[w].copy.job = j

\* Nobody delivers what was proved, unless it is in doubt.
ProvedIsLeftAlone ==
    \A w \in Workers :
        Delivering(w) /\ h[w].copy.job \in completed => h[w].copy.job \in excused

\* Only what the remote inbox took is proved.
AnsweredWasTaken ==
    \A w \in Workers : At(w, "complete") => received[h[w].copy.job] > 0

LeaseInv ==
    /\ OneToken /\ HoldsClaim /\ LateIsDoubted
    /\ TakenIsAccounted /\ ProvedIsLeftAlone /\ AnsweredWasTaken
    /\ DuplicateOnlyAfterLostProof

\* Of two handlers that deliver the same job, one holds a claim that ended.
LEMMA LeaseLemma == TypeOK /\ OneToken /\ HoldsClaim => LeaseExclusive
  <1> SUFFICES ASSUME TypeOK, OneToken, HoldsClaim, NEW w \in Workers, NEW v \in Workers,
                      w # v, Delivering(w), Delivering(v), h[w].copy.job = h[v].copy.job,
                      ~(h[w].until <= now), ~(h[v].until <= now)
               PROVE  FALSE
    BY DEF LeaseExclusive
  <1>1. Busy(w) /\ Busy(v)
    BY DEF Delivering
  <1>2. h[w].until > now /\ h[v].until > now
    BY <1>1, BusyLemma, ConstantsAssumption DEF TypeOK, Handler, Time
  <1>3. h[w].token = h[v].token /\ h[w].token # NoToken
    BY <1>2 DEF HoldsClaim
  <1> QED BY <1>1, <1>3 DEF OneToken

\* The handlers after a step of handler w.
LEMMA GoOthers ==
    ASSUME TypeOK, NEW w \in Workers, NEW q, Go(w, q)
    PROVE  h'[w] = q /\ \A v \in Workers : v # w => h'[v] = h[v]
  BY DEF TypeOK, Go

LEMMA QuietKeepsLease ==
    ASSUME DeliveryInv, LeaseInv, NEW w \in Workers, Busy(w), QuietStep(w)
    PROVE  LeaseInv'
  <1>0. TypeOK
    BY DEF DeliveryInv
  <1>1. PICK q \in HandlerOrIdle :
           /\ Go(w, q) /\ Continues(q, h[w])
           /\ \/ claims' = claims
              \/ claims' = ReleaseClaim(h[w].copy.job, h[w].token) /\ q.pc \notin DeliverPc
    BY DEF QuietStep
  <1>2. h'[w] = q /\ \A v \in Workers : v # w => h'[v] = h[v]
    BY <1>0, <1>1, GoOthers
  <1>3. /\ UNCHANGED <<now, completed, received>> /\ excused \subseteq excused'
        /\ h[w].pc = "complete" => h[w].copy.job \in excused'
    BY DEF QuietStep
  <1>4. \A v \in Workers : Busy(v)' =>
           /\ Busy(v) /\ h'[v].copy = h[v].copy
           /\ h'[v].token \in {NoToken, h[v].token}
    BY <1>1, <1>2 DEF Busy, Continues
  <1>5. \A v \in Workers : Delivering(v)' =>
           /\ Delivering(v) /\ h'[v].copy = h[v].copy
           /\ h'[v].token = h[v].token /\ h'[v].until = h[v].until
    BY <1>1, <1>2 DEF Busy, Delivering, Continues, DeliverPc
  <1>6. \A v \in Workers : At(v, "complete")' <=> At(v, "complete") /\ v # w
    BY <1>1, <1>2 DEF At, Continues
  <1>7. OneToken'
    BY <1>4 DEF LeaseInv, OneToken
  <1>8. HoldsClaim'
    <2> SUFFICES ASSUME NEW v \in Workers, Delivering(v)'
                 PROVE  /\ h[v].token # NoToken
                        /\ h[v].until > now =>
                             /\ h[v].copy.job \in DOMAIN claims'
                             /\ claims'[h[v].copy.job].token = h[v].token
                             /\ claims'[h[v].copy.job].until = h[v].until
      BY <1>3, <1>5 DEF HoldsClaim
    <2>1. Delivering(v) /\ h[v].token # NoToken
      BY <1>5 DEF LeaseInv, HoldsClaim
    <2>2. ASSUME h[v].until > now
          PROVE  /\ h[v].copy.job \in DOMAIN claims
                 /\ claims[h[v].copy.job].token = h[v].token
                 /\ claims[h[v].copy.job].until = h[v].until
      BY <2>1, <2>2 DEF LeaseInv, HoldsClaim
    <2>3. CASE claims' = claims
      BY <2>1, <2>2, <2>3
    <2>4. CASE claims' = ReleaseClaim(h[w].copy.job, h[w].token) /\ q.pc \notin DeliverPc
      <3>1. v # w
        BY <1>2, <2>4 DEF Delivering, DeliverPc
      <3>2. h[v].token # h[w].token
        BY <2>1, <3>1 DEF LeaseInv, OneToken, Delivering
      <3> QED BY <2>1, <2>2, <2>4, <3>2 DEF ReleaseClaim, Without
    <2> QED BY <1>1, <2>3, <2>4
  <1>9. LateIsDoubted'
    BY <1>3, <1>5 DEF LeaseInv, LateIsDoubted
  <1>10. TakenIsAccounted'
    <2> SUFFICES ASSUME NEW j \in Jobs, received[j] > 0, j \notin excused', j \notin completed
                 PROVE  \E v \in Workers : At(v, "complete")' /\ h'[v].copy.job = j
      BY <1>3 DEF TakenIsAccounted
    <2>1. PICK v \in Workers : At(v, "complete") /\ h[v].copy.job = j
      BY <1>3 DEF LeaseInv, TakenIsAccounted
    <2>2. v # w
      BY <1>3, <2>1 DEF At
    <2> QED BY <1>2, <2>1, <2>2 DEF At
  <1>11. ProvedIsLeftAlone'
    BY <1>3, <1>5 DEF LeaseInv, ProvedIsLeftAlone
  <1>12. AnsweredWasTaken'
    BY <1>2, <1>3, <1>6 DEF LeaseInv, AnsweredWasTaken
  <1>13. DuplicateOnlyAfterLostProof'
    BY <1>3 DEF LeaseInv, DuplicateOnlyAfterLostProof
  <1> QED BY <1>7, <1>8, <1>9, <1>10, <1>11, <1>12, <1>13 DEF LeaseInv

LEMMA TakesClaimKeepsLease ==
    ASSUME DeliveryInv, LeaseInv, NEW w \in Workers, Busy(w), TakesClaim(w)
    PROVE  LeaseInv'
  <1> DEFINE j == h[w].copy.job
  <1>0. TypeOK
    BY DEF DeliveryInv
  <1>1. PICK t \in FreshTokens, q \in HandlerOrIdle :
           /\ claims' = With(claims, j, [token |-> t, until |-> now + ClaimTtl])
           /\ Go(w, q)
           /\ q.pc = "idle" \/ q.copy = h[w].copy
           /\ \/ Continues(q, h[w]) /\ q.pc \notin DeliverPc
              \/ q.pc = "admit" /\ q.token = t /\ q.until = now + ClaimTtl
    BY DEF TakesClaim
  <1>2. h'[w] = q /\ \A v \in Workers : v # w => h'[v] = h[v]
    BY <1>0, <1>1, GoOthers
  <1>3. /\ UNCHANGED <<now, completed, received, excused>>
        /\ j \notin completed /\ j \notin DOMAIN claims /\ h[w].pc = "start"
    BY DEF TakesClaim
  <1>4. /\ j \in DOMAIN claims' /\ claims'[j].token = t /\ claims'[j].until = now + ClaimTtl
        /\ \A i \in DOMAIN claims : i \in DOMAIN claims' /\ claims'[i] = claims[i]
    BY <1>1, <1>3 DEF With
  <1>5. t # NoToken /\ \A v \in Workers : Busy(v) => h[v].token # t
    BY ConstantsAssumption DEF FreshTokens
  <1>6. now + ClaimTtl > now
    BY <1>0, ConstantsAssumption DEF TypeOK, Time
  <1>7. \A v \in Workers : At(v, "complete")' <=> At(v, "complete")
    BY <1>1, <1>2, <1>3 DEF At, DeliverPc
  <1>8. Delivering(w)' => q.pc = "admit" /\ q.token = t /\ q.until = now + ClaimTtl
                          /\ q.copy = h[w].copy
    BY <1>1, <1>2 DEF Delivering, Busy, DeliverPc
  <1>9. OneToken'
    <2> SUFFICES ASSUME NEW u \in Workers, NEW v \in Workers, u # v, Busy(u)', Busy(v)',
                        h'[u].token = h'[v].token, h'[u].token # NoToken
                 PROVE  FALSE
      BY DEF OneToken
    <2>1. \A x \in Workers : x # w => (Busy(x)' <=> Busy(x)) /\ h'[x].token = h[x].token
      BY <1>2 DEF Busy
    <2>2. h'[w].token \in {NoToken, h[w].token, t} \/ ~Busy(w)'
      BY <1>1, <1>2 DEF Busy, Continues
    <2> QED BY <1>5, <2>1, <2>2 DEF LeaseInv, OneToken
  <1>10. HoldsClaim'
    <2> SUFFICES ASSUME NEW v \in Workers, Delivering(v)'
                 PROVE  /\ h'[v].token # NoToken
                        /\ h'[v].until > now =>
                             /\ h'[v].copy.job \in DOMAIN claims'
                             /\ claims'[h'[v].copy.job].token = h'[v].token
                             /\ claims'[h'[v].copy.job].until = h'[v].until
      BY <1>3 DEF HoldsClaim
    <2>1. CASE v = w
      BY <1>2, <1>4, <1>5, <1>8, <2>1
    <2>2. CASE v # w
      <3>1. Delivering(v) /\ h'[v] = h[v]
        BY <1>2, <2>2 DEF Delivering, Busy
      <3> QED BY <1>4, <3>1 DEF LeaseInv, HoldsClaim
    <2> QED BY <2>1, <2>2
  <1>11. LateIsDoubted'
    <2> SUFFICES ASSUME NEW v \in Workers, Delivering(v)', h'[v].until <= now
                 PROVE  h'[v].copy.job \in excused
      BY <1>3 DEF LateIsDoubted
    <2>1. v # w
      BY <1>0, <1>2, <1>8, ConstantsAssumption DEF TypeOK, Time
    <2> QED BY <1>2, <2>1 DEF LeaseInv, LateIsDoubted, Delivering, Busy
  <1>12. TakenIsAccounted'
    <2>1. \A v \in Workers : At(v, "complete") => h'[v] = h[v]
      BY <1>2, <1>3 DEF At
    <2> QED BY <1>3, <1>7, <2>1 DEF LeaseInv, TakenIsAccounted
  <1>13. ProvedIsLeftAlone'
    <2> SUFFICES ASSUME NEW v \in Workers, Delivering(v)', h'[v].copy.job \in completed
                 PROVE  h'[v].copy.job \in excused
      BY <1>3 DEF ProvedIsLeftAlone
    <2>1. v # w
      BY <1>2, <1>3, <1>8
    <2> QED BY <1>2, <2>1 DEF LeaseInv, ProvedIsLeftAlone, Delivering, Busy
  <1>14. AnsweredWasTaken'
    <2>1. \A v \in Workers : At(v, "complete") => h'[v] = h[v]
      BY <1>2, <1>3 DEF At
    <2> QED BY <1>3, <1>7, <2>1 DEF LeaseInv, AnsweredWasTaken
  <1>15. DuplicateOnlyAfterLostProof'
    BY <1>3 DEF LeaseInv, DuplicateOnlyAfterLostProof
  <1> QED BY <1>9, <1>10, <1>11, <1>12, <1>13, <1>14, <1>15 DEF LeaseInv

\* Why a delivery without doubt is alone: nobody else delivers the job, and
\* it was neither taken nor proved before.
LEMMA UndoubtedIsAlone ==
    ASSUME DeliveryInv, LeaseInv, NEW w \in Workers, Delivering(w),
           h[w].copy.job \notin excused
    PROVE  /\ h[w].copy.job \notin completed
           /\ \A v \in Workers : v # w /\ Delivering(v) => h[v].copy.job # h[w].copy.job
           /\ h[w].pc # "complete" => ~(received[h[w].copy.job] > 0)
  <1>0. TypeOK /\ h[w].copy.job \in Jobs
    BY BusyLemma DEF DeliveryInv, Delivering, Handler, Copy
  <1>1. h[w].copy.job \notin completed
    BY DEF LeaseInv, ProvedIsLeftAlone
  <1>2. ASSUME NEW v \in Workers, v # w, Delivering(v), h[v].copy.job = h[w].copy.job
        PROVE  FALSE
    <2>1. h[v].until <= now \/ h[w].until <= now
      BY <1>0, <1>2, LeaseLemma DEF LeaseInv, LeaseExclusive
    <2> QED BY <1>2, <2>1 DEF LeaseInv, LateIsDoubted
  <1>3. ASSUME h[w].pc # "complete", received[h[w].copy.job] > 0
        PROVE  FALSE
    <2>1. PICK v \in Workers : At(v, "complete") /\ h[v].copy.job = h[w].copy.job
      BY <1>0, <1>1, <1>3 DEF LeaseInv, TakenIsAccounted
    <2>2. v # w /\ Delivering(v)
      BY <1>3, <2>1 DEF At, Delivering, Busy
    <2> QED BY <1>2, <2>1, <2>2
  <1> QED BY <1>1, <1>2, <1>3

LEMMA CompleteKeepsLease ==
    ASSUME DeliveryInv, LeaseInv, NEW w \in Workers, Complete(w)
    PROVE  LeaseInv'
  <1> DEFINE j == h[w].copy.job
             r == [Secured(h[w]) EXCEPT !.token = NoToken, !.until = 0]
  <1>0. TypeOK /\ Busy(w) /\ h[w] \in Handler /\ h[w].pc = "complete" /\ Delivering(w)
    BY BusyLemma DEF DeliveryInv, Complete, At, Busy, Delivering
  <1>1. PICK q \in HandlerOrIdle : Go(w, q) /\ Continues(q, h[w]) /\ q.pc \notin DeliverPc
    <2>1. r \in HandlerOrIdle /\ Continues(r, h[w]) /\ r.pc \notin DeliverPc
      BY <1>0, Ranges DEF Secured, HandlerOrIdle, Handler, WorkerPc, Continues, DeliverPc
    <2>2. Reply(w, r)
      BY DEF Complete
    <2> HIDE DEF r
    <2> QED BY <1>0, <2>1, <2>2, ReplyContinues
  <1>2. h'[w] = q /\ \A v \in Workers : v # w => h'[v] = h[v]
    BY <1>0, <1>1, GoOthers
  <1>3. /\ UNCHANGED <<now, received, excused>> /\ completed' = completed \cup {j}
        /\ claims' = ReleaseClaim(j, h[w].token)
    BY DEF Complete
  <1>4. \A v \in Workers : Delivering(v)' => v # w /\ Delivering(v) /\ h'[v] = h[v]
    BY <1>1, <1>2 DEF Delivering, Busy, DeliverPc
  <1>5. \A v \in Workers : Busy(v)' => Busy(v) /\ h'[v].token \in {NoToken, h[v].token}
    BY <1>0, <1>1, <1>2 DEF Busy, Continues
  <1>6. OneToken'
    BY <1>5 DEF LeaseInv, OneToken
  <1>7. HoldsClaim'
    <2> SUFFICES ASSUME NEW v \in Workers, v # w, Delivering(v)
                 PROVE  /\ h[v].token # NoToken
                        /\ h[v].until > now =>
                             /\ h[v].copy.job \in DOMAIN claims'
                             /\ claims'[h[v].copy.job].token = h[v].token
                             /\ claims'[h[v].copy.job].until = h[v].until
      BY <1>3, <1>4 DEF HoldsClaim
    <2>1. h[v].token # NoToken /\ h[v].token # h[w].token
      BY <1>0 DEF LeaseInv, HoldsClaim, OneToken, Delivering
    <2>2. ASSUME h[v].until > now
          PROVE  /\ h[v].copy.job \in DOMAIN claims
                 /\ claims[h[v].copy.job].token = h[v].token
                 /\ claims[h[v].copy.job].until = h[v].until
      BY <2>2 DEF LeaseInv, HoldsClaim
    <2> QED BY <1>3, <2>1, <2>2 DEF ReleaseClaim, Without
  <1>8. LateIsDoubted'
    BY <1>3, <1>4 DEF LeaseInv, LateIsDoubted
  <1>9. TakenIsAccounted'
    <2> SUFFICES ASSUME NEW i \in Jobs, received[i] > 0, i \notin excused, i \notin completed, i # j
                 PROVE  \E v \in Workers : At(v, "complete")' /\ h'[v].copy.job = i
      BY <1>3 DEF TakenIsAccounted
    <2>1. PICK v \in Workers : At(v, "complete") /\ h[v].copy.job = i
      BY DEF LeaseInv, TakenIsAccounted
    <2> QED BY <1>2, <2>1 DEF At
  <1>10. ProvedIsLeftAlone'
    <2> SUFFICES ASSUME NEW v \in Workers, v # w, Delivering(v),
                        h[v].copy.job \in completed \/ h[v].copy.job = j,
                        h[v].copy.job \notin excused
                 PROVE  FALSE
      BY <1>3, <1>4 DEF ProvedIsLeftAlone
    <2> QED BY <1>0, UndoubtedIsAlone
  <1>11. AnsweredWasTaken'
    <2>1. \A v \in Workers : At(v, "complete")' => h'[v] = h[v] /\ At(v, "complete")
      BY <1>1, <1>2 DEF At, DeliverPc
    <2> QED BY <1>3, <2>1 DEF LeaseInv, AnsweredWasTaken
  <1>12. DuplicateOnlyAfterLostProof'
    BY <1>3 DEF LeaseInv, DuplicateOnlyAfterLostProof
  <1> QED BY <1>6, <1>7, <1>8, <1>9, <1>10, <1>11, <1>12 DEF LeaseInv

\* The remote inbox takes the job: its answer arrives, or a doubt remains.
Taken(w) ==
    LET j == h[w].copy.job IN
    /\ h[w].pc = "post" /\ ~Expired(h[w].copy)
    /\ UNCHANGED <<now, claims, completed>>
    /\ received' = [received EXCEPT ![j] = IF @ = 2 THEN 2 ELSE @ + 1]
    /\ \E q \in HandlerOrIdle :
          /\ Go(w, q) /\ q.copy = h[w].copy /\ q.token = h[w].token
          /\ \/ q.pc = "complete" /\ q.until = h[w].until /\ excused' = excused
             \/ q.pc = "release" /\ excused' = excused \cup {j}

LEMMA PostStep ==
    ASSUME DeliveryInv, NEW w \in Workers, Post(w)
    PROVE  Busy(w) /\ (QuietStep(w) \/ Taken(w))
  <1> DEFINE j == h[w].copy.job
             answered == [h[w] EXCEPT !.pc = "complete"]
             refused == ToRelease(h[w], "dlq")
             again == AfterTransient(h[w])
  <1>1. Busy(w) /\ h[w] \in Handler /\ h[w].pc = "post" /\ ~Expired(h[w].copy)
    BY BusyLemma DEF Post, At, Busy, DeliveryInv
  <1>2. UNCHANGED <<now, completed, claims>>
    BY DEF Post
  <1>3. \/ /\ received' = [received EXCEPT ![j] = IF @ = 2 THEN 2 ELSE @ + 1]
           /\ \/ Go(w, answered) /\ UNCHANGED excused
              \/ Go(w, again) /\ excused' = excused \cup {j}
        \/ (Go(w, refused) \/ Go(w, again)) /\ UNCHANGED <<received, excused>>
    BY DEF Post
  <1>4. /\ answered \in HandlerOrIdle /\ answered.pc = "complete" /\ answered.copy = h[w].copy
        /\ answered.token = h[w].token /\ answered.until = h[w].until
    BY <1>1 DEF HandlerOrIdle, Handler, WorkerPc
  <1>5. /\ refused \in HandlerOrIdle /\ refused.pc = "release" /\ refused.copy = h[w].copy
        /\ refused.token = h[w].token
    BY <1>1 DEF ToRelease, HandlerOrIdle, Handler, WorkerPc
  <1>6. /\ again \in HandlerOrIdle /\ again.pc = "release" /\ again.copy = h[w].copy
        /\ again.token = h[w].token
    BY <1>1 DEF AfterTransient, ToRelease, HandlerOrIdle, Handler, WorkerPc
  <1> HIDE DEF answered, refused, again
  <1>7. CASE /\ received' = [received EXCEPT ![j] = IF @ = 2 THEN 2 ELSE @ + 1]
             /\ \/ Go(w, answered) /\ UNCHANGED excused
                \/ Go(w, again) /\ excused' = excused \cup {j}
    BY <1>1, <1>2, <1>4, <1>6, <1>7 DEF Taken
  <1>8. CASE (Go(w, refused) \/ Go(w, again)) /\ UNCHANGED <<received, excused>>
    <2>1. Continues(refused, h[w]) /\ Continues(again, h[w])
      BY <1>5, <1>6 DEF Continues, DeliverPc
    <2> QED BY <1>1, <1>2, <1>5, <1>6, <1>8, <2>1 DEF QuietStep
  <1> QED BY <1>7, <1>8, <1>3

LEMMA TakenKeepsLease ==
    ASSUME DeliveryInv, LeaseInv, NEW w \in Workers, Busy(w), Taken(w)
    PROVE  LeaseInv'
  <1>0. TypeOK /\ h[w] \in Handler /\ h[w].pc = "post" /\ Delivering(w)
    BY BusyLemma DEF DeliveryInv, Taken, Delivering
  <1>1. PICK q \in HandlerOrIdle :
          /\ Go(w, q) /\ q.copy = h[w].copy /\ q.token = h[w].token
          /\ \/ q.pc = "complete" /\ q.until = h[w].until /\ excused' = excused
             \/ q.pc = "release" /\ excused' = excused \cup {h[w].copy.job}
    BY DEF Taken
  <1>2. h'[w] = q /\ \A v \in Workers : v # w => h'[v] = h[v]
    BY <1>0, <1>1, GoOthers
  <1>3. UNCHANGED <<now, completed, claims>> /\ excused \subseteq excused'
    BY <1>1 DEF Taken
  <1>4. PICK j \in Jobs : j = h[w].copy.job
    BY <1>0 DEF Handler, Copy
  <1>5. /\ received'[j] = IF received[j] = 2 THEN 2 ELSE received[j] + 1
        /\ received'[j] > 0
        /\ \A i \in Jobs : i # j => received'[i] = received[i]
    BY <1>0, <1>4 DEF Taken, TypeOK
  <1>6. \A v \in Workers : Busy(v)' => Busy(v) /\ h'[v].copy = h[v].copy /\ h'[v].token = h[v].token
    BY <1>1, <1>2 DEF Busy
  <1>7. \A v \in Workers : Delivering(v)' =>
           /\ Delivering(v) /\ h'[v].copy = h[v].copy
           /\ h'[v].token = h[v].token /\ h'[v].until = h[v].until
    BY <1>0, <1>1, <1>2 DEF Busy, Delivering
  <1>8. OneToken'
    BY <1>6 DEF LeaseInv, OneToken
  <1>9. HoldsClaim'
    BY <1>3, <1>7 DEF LeaseInv, HoldsClaim
  <1>10. LateIsDoubted'
    BY <1>3, <1>7 DEF LeaseInv, LateIsDoubted
  <1>11. TakenIsAccounted'
    <2> SUFFICES ASSUME NEW i \in Jobs, received'[i] > 0, i \notin excused', i \notin completed
                 PROVE  \E v \in Workers : At(v, "complete")' /\ h'[v].copy.job = i
      BY <1>3 DEF TakenIsAccounted
    <2>1. CASE i = j
      BY <1>1, <1>2, <1>4, <2>1 DEF At
    <2>2. CASE i # j
      <3>1. PICK v \in Workers : At(v, "complete") /\ h[v].copy.job = i
        BY <1>3, <1>5, <2>2 DEF LeaseInv, TakenIsAccounted
      <3> QED BY <1>2, <1>4, <2>2, <3>1 DEF At
    <2> QED BY <2>1, <2>2
  <1>12. ProvedIsLeftAlone'
    BY <1>3, <1>7 DEF LeaseInv, ProvedIsLeftAlone
  <1>13. AnsweredWasTaken'
    <2> SUFFICES ASSUME NEW v \in Workers, At(v, "complete")'
                 PROVE  received'[h'[v].copy.job] > 0
      BY DEF AnsweredWasTaken
    <2>1. CASE v = w
      BY <1>1, <1>2, <1>4, <1>5, <2>1
    <2>2. CASE v # w
      <3>1. h'[v] = h[v] /\ At(v, "complete")
        BY <1>2, <2>2 DEF At
      <3>2. h[v] \in Handler
        BY <1>0, <3>1, BusyLemma DEF At, Busy
      <3>3. received[h[v].copy.job] > 0 /\ h[v].copy.job \in Jobs
        BY <3>1, <3>2 DEF LeaseInv, AnsweredWasTaken, Handler, Copy
      <3> QED BY <1>5, <3>1, <3>3
    <2> QED BY <2>1, <2>2
  <1>14. DuplicateOnlyAfterLostProof'
    <2> SUFFICES ASSUME NEW i \in Jobs, received'[i] > 1, i \notin excused'
                 PROVE  FALSE
      BY DEF DuplicateOnlyAfterLostProof
    <2>1. i = j
      BY <1>3, <1>5 DEF LeaseInv, DuplicateOnlyAfterLostProof
    <2>2. ~(received[j] > 0)
      BY <1>0, <1>3, <1>4, <2>1, UndoubtedIsAlone
    <2>3. received[j] = 0
      BY <1>0, <2>2 DEF TypeOK
    <2> QED BY <1>5, <2>1, <2>3
  <1> QED BY <1>8, <1>9, <1>10, <1>11, <1>12, <1>13, <1>14 DEF LeaseInv

LEMMA ReceiveKeepsLease ==
    ASSUME DeliveryInv, LeaseInv, NEW w \in Workers, NEW m \in MsgIds, Receive(w, m)
    PROVE  LeaseInv'
  <1>1. PICK pc : /\ pc \in {"expire", "park", "start"}
                  /\ Go(w, [pc |-> pc, msg |-> m, copy |-> stream[m], token |-> NoToken,
                            until |-> 0, slot |-> FALSE, err |-> FALSE, then |-> "dlq",
                            delay |-> 0])
    BY DEF Receive
  <1> DEFINE q == [pc |-> pc, msg |-> m, copy |-> stream[m], token |-> NoToken, until |-> 0,
                   slot |-> FALSE, err |-> FALSE, then |-> "dlq", delay |-> 0]
  <1>2. h'[w] = q /\ \A v \in Workers : v # w => h'[v] = h[v]
    <2>1. TypeOK
      BY DEF DeliveryInv
    <2> QED BY <1>1, <2>1, GoOthers
  <1>3. q.token = NoToken /\ q.pc \notin DeliverPc
    BY <1>1 DEF DeliverPc
  <1> HIDE DEF q
  <1>4. UNCHANGED <<now, claims, completed, received, excused>> /\ ~Busy(w)
    BY DEF Receive
  <1>5. \A v \in Workers : Delivering(v)' => Delivering(v) /\ h'[v] = h[v]
    BY <1>2, <1>3 DEF Delivering, Busy, DeliverPc
  <1>6. \A v \in Workers : At(v, "complete") \/ At(v, "complete")' => h'[v] = h[v]
    BY <1>2, <1>3, <1>4 DEF At, Busy, DeliverPc
  <1>7. OneToken'
    BY <1>2, <1>3 DEF LeaseInv, OneToken, Busy
  <1>8. HoldsClaim' /\ LateIsDoubted' /\ ProvedIsLeftAlone'
    BY <1>4, <1>5 DEF LeaseInv, HoldsClaim, LateIsDoubted, ProvedIsLeftAlone
  <1>9. TakenIsAccounted' /\ AnsweredWasTaken' /\ DuplicateOnlyAfterLostProof'
    BY <1>4, <1>6
       DEF LeaseInv, TakenIsAccounted, AnsweredWasTaken, DuplicateOnlyAfterLostProof, At
  <1> QED BY <1>7, <1>8, <1>9 DEF LeaseInv

\* A claim ends in Redis when it ends for its handler, which leaves a doubt.
LEMMA TickKeepsLease ==
    ASSUME DeliveryInv, LeaseInv, Tick PROVE LeaseInv'
  <1>1. h' = h /\ completed' = completed /\ received' = received /\ excused \subseteq excused'
        /\ now' = now + 1 /\ now \in Time
    BY DEF Tick, DeliveryInv, TypeOK
  <1>2. \A w \in Workers : Delivering(w)' = Delivering(w)
    BY <1>1 DEF Delivering, Busy
  <1>3. \A w \in Workers : Delivering(w) => h[w] \in Handler /\ Busy(w) /\ h[w].until \in Nat
    <2>1. \A w \in Workers : Busy(w) => h[w] \in Handler
      BY BusyLemma DEF DeliveryInv
    <2> QED BY <2>1, ConstantsAssumption DEF Delivering, Handler
  <1>4. OneToken'
    BY <1>1 DEF LeaseInv, OneToken, Busy
  <1>5. HoldsClaim'
    <2> SUFFICES ASSUME NEW w \in Workers, Delivering(w)
                 PROVE  /\ h[w].token # NoToken
                        /\ h[w].until > now + 1 =>
                             /\ h[w].copy.job \in DOMAIN claims'
                             /\ claims'[h[w].copy.job].token = h[w].token
                             /\ claims'[h[w].copy.job].until = h[w].until
      BY <1>1, <1>2 DEF HoldsClaim
    <2>1. h[w].token # NoToken
      BY DEF LeaseInv, HoldsClaim
    <2>2. ASSUME h[w].until > now + 1
          PROVE  /\ h[w].copy.job \in DOMAIN claims
                 /\ claims[h[w].copy.job].token = h[w].token
                 /\ claims[h[w].copy.job].until = h[w].until
      <3>1. h[w].until > now
        BY <1>1, <1>3, <2>2 DEF Time
      <3> QED BY <3>1 DEF LeaseInv, HoldsClaim
    <2>3. claims' = [j \in {j \in DOMAIN claims : claims[j].until > now + 1} |-> claims[j]]
      BY DEF Tick
    <2> QED BY <2>1, <2>2, <2>3
  <1>6. LateIsDoubted'
    <2> SUFFICES ASSUME NEW w \in Workers, Delivering(w), h[w].until <= now + 1
                 PROVE  h[w].copy.job \in excused'
      BY <1>1, <1>2 DEF LateIsDoubted
    <2>1. CASE h[w].until <= now
      BY <1>1, <2>1 DEF LeaseInv, LateIsDoubted
    <2>2. CASE h[w].until = now + 1
      <3>1. Overran(w)
        BY <1>3, <2>2 DEF Overran, LeaseInv, HoldsClaim
      <3> QED BY <3>1 DEF Tick
    <2> QED BY <1>1, <1>3, <2>1, <2>2 DEF Time
  <1>7. TakenIsAccounted' /\ AnsweredWasTaken' /\ DuplicateOnlyAfterLostProof'
    BY <1>1 DEF LeaseInv, TakenIsAccounted, AnsweredWasTaken, DuplicateOnlyAfterLostProof, At
  <1>8. ProvedIsLeftAlone'
    BY <1>1, <1>2 DEF LeaseInv, ProvedIsLeftAlone
  <1> QED BY <1>4, <1>5, <1>6, <1>7, <1>8 DEF LeaseInv

LEMMA CrashKeepsLease ==
    ASSUME DeliveryInv, LeaseInv, Crash PROVE LeaseInv'
  <1>1. PICK W \in SUBSET {w \in Workers : Busy(w)} :
           /\ h' = [w \in Workers |-> IF w \in W THEN Idle ELSE h[w]]
           /\ excused' = excused \cup {h[w].copy.job : w \in {v \in W : Unproved(v)}}
    BY DEF Crash
  <1>2. \A w \in Workers : IF w \in W THEN h'[w].pc = "idle" ELSE h'[w] = h[w]
    BY <1>1 DEF Idle
  <1>3. UNCHANGED <<now, claims, completed, received>> /\ excused \subseteq excused'
    BY <1>1 DEF Crash
  <1>4. \A v \in Workers : Busy(v)' => Busy(v) /\ h'[v] = h[v]
    BY <1>2 DEF Busy
  <1>5. \A v \in Workers : Delivering(v)' => Delivering(v) /\ h'[v] = h[v]
    BY <1>4 DEF Delivering, Busy
  <1>6. OneToken'
    BY <1>4 DEF LeaseInv, OneToken
  <1>7. HoldsClaim' /\ LateIsDoubted' /\ ProvedIsLeftAlone'
    BY <1>3, <1>5 DEF LeaseInv, HoldsClaim, LateIsDoubted, ProvedIsLeftAlone
  <1>8. TakenIsAccounted'
    <2> SUFFICES ASSUME NEW j \in Jobs, received[j] > 0, j \notin excused', j \notin completed
                 PROVE  \E v \in Workers : At(v, "complete")' /\ h'[v].copy.job = j
      BY <1>3 DEF TakenIsAccounted
    <2>1. PICK v \in Workers : At(v, "complete") /\ h[v].copy.job = j
      BY <1>3 DEF LeaseInv, TakenIsAccounted
    <2>2. v \notin W
      BY <1>1, <2>1 DEF Unproved
    <2> QED BY <1>2, <2>1, <2>2 DEF At
  <1>9. AnsweredWasTaken'
    BY <1>2, <1>3 DEF LeaseInv, AnsweredWasTaken, At
  <1>10. DuplicateOnlyAfterLostProof'
    BY <1>3 DEF LeaseInv, DuplicateOnlyAfterLostProof
  <1> QED BY <1>6, <1>7, <1>8, <1>9, <1>10 DEF LeaseInv

LEMMA OthersKeepLease ==
    ASSUME LeaseInv, UNCHANGED <<now, claims, completed, h, received, excused>>
    PROVE  LeaseInv'
  BY DEF LeaseInv, OneToken, HoldsClaim, LateIsDoubted, TakenIsAccounted, ProvedIsLeftAlone,
     AnsweredWasTaken, DuplicateOnlyAfterLostProof, Delivering, Busy, At

LEMMA InitLease == Init => LeaseInv
  BY DEF Init, LeaseInv, OneToken, HoldsClaim, LateIsDoubted, TakenIsAccounted,
     ProvedIsLeftAlone, AnsweredWasTaken, DuplicateOnlyAfterLostProof, Delivering, Busy, At, Idle

LEMMA NextKeepsLease ==
    ASSUME DeliveryInv, LeaseInv, [Next]_vars PROVE LeaseInv'
  <1>1. CASE UNCHANGED vars \/ \E j \in Jobs : Accept(j) \/ Promote(j)
    <2>1. UNCHANGED <<now, claims, completed, h, received, excused>>
      BY <1>1 DEF vars, Accept, Promote
    <2> QED BY <2>1, OthersKeepLease
  <1>2. ASSUME NEW w \in Workers, Handle(w) \/ CallFails(w) PROVE LeaseInv'
    <2>1. CASE Complete(w)
      BY <2>1, CompleteKeepsLease
    <2>2. CASE ~Complete(w)
      <3>1. Busy(w) /\ (QuietStep(w) \/ TakesClaim(w) \/ Taken(w))
        BY <1>2, <2>2, ConsumerStepsAreQuiet, WorkerStepsAreQuiet, CallFailsIsQuiet, ClaimStep,
           PostStep DEF Handle
      <3> QED BY <3>1, QuietKeepsLease, TakesClaimKeepsLease, TakenKeepsLease
    <2> QED BY <2>1, <2>2
  <1> QED BY <1>1, <1>2, ReceiveKeepsLease, TickKeepsLease, CrashKeepsLease DEF Next

\* Claims exclude each other and account for every doubt, in every state.
THEOREM LeaseInvariant == Spec => []LeaseInv
  BY DeliveryInvariant, InitLease, NextKeepsLease, PTL DEF Spec

\* Whatever handlers crash, stall or come back, two deliver the same job at
\* once only if the claim of one of them has ended (claim, release and
\* complete compare tokens).
THEOREM LeasesExclude == Spec => []LeaseExclusive
  <1>1. DeliveryInv /\ LeaseInv => LeaseExclusive
    BY LeaseLemma DEF DeliveryInv, LeaseInv
  <1> QED BY DeliveryInvariant, LeaseInvariant, <1>1, PTL

\* The remote inbox takes a job twice only after a delivery that lost its proof
\* or outlived its claim, for any number of copies, retries and redeliveries.
THEOREM NoUnexcusedDuplicate == Spec => []DuplicateOnlyAfterLostProof
  <1>1. LeaseInv => DuplicateOnlyAfterLostProof
    BY DEF LeaseInv
  <1> QED BY LeaseInvariant, <1>1, PTL

-----------------------------------------------------------------------------
\* Residence clocks

\* The residence clock of a copy is that of a hand-over of its job.
Stamped(c) == c.stamp \in accepted[c.job]

\* XADD keeps a clock that is set and starts the one of a new job.
LEMMA AddReadyStamped ==
    ASSUME now \in Time, QueueOK, NEW c \in Copy, AddReady(c),
           c.stamp = 0 => now \in accepted'[c.job],
           c.stamp # 0 => c.stamp \in accepted'[c.job]
    PROVE  \A m \in DOMAIN stream' :
              (m \in DOMAIN stream /\ stream'[m] = stream[m]) \/ Stamped(stream[m])'
  <1>1. PICK m \in MsgIds \ DOMAIN stream, d \in Copy :
           /\ d.job = c.job
           /\ d.stamp = IF c.stamp = 0 THEN now ELSE c.stamp
           /\ DOMAIN stream' = DOMAIN stream \cup {m}
           /\ stream'[m] = d
           /\ \A x \in DOMAIN stream : stream'[x] = stream[x]
    BY AddReadyLemma
  <1>2. d.stamp \in accepted'[d.job]
    BY <1>1
  <1> QED BY <1>1, <1>2 DEF Stamped

\* A retry or a deferral keeps the clock, whichever store it goes to.
LEMMA EnqueueStamped ==
    ASSUME now \in Time, QueueOK, NEW c \in Copy, Enqueue(c),
           accepted \in [Jobs -> SUBSET Time], accepted' = accepted, Stamped(c)
    PROVE  /\ \A m \in DOMAIN stream' :
                 (m \in DOMAIN stream /\ stream'[m] = stream[m]) \/ Stamped(stream[m])'
           /\ \A j \in DOMAIN delayed' :
                 (j \in DOMAIN delayed /\ delayed'[j] = delayed[j]) \/ Stamped(delayed[j])'
  <1>1. c.stamp # 0 /\ c.stamp \in accepted'[c.job]
    <2>1. c.job \in Jobs
      BY DEF Copy
    <2> QED BY <2>1 DEF Stamped, Time
  <1>2. CASE StoreDelayed(c) /\ UNCHANGED stream
    <2>1. \A j \in DOMAIN delayed' :
             delayed'[j] = c \/ (j \in DOMAIN delayed /\ delayed'[j] = delayed[j])
      BY <1>2, StoreDelayedLemma
    <2> QED BY <1>1, <1>2, <2>1 DEF Stamped
  <1>3. CASE AddReady(c) /\ UNCHANGED delayed
    BY <1>1, <1>3, AddReadyStamped
  <1> QED BY <1>2, <1>3 DEF Enqueue

\* A handler never touches the copy it read.
LEMMA CopyStays ==
    ASSUME DeliveryInv, NEW w \in Workers, Handle(w) \/ CallFails(w)
    PROVE  \A v \in Workers : Busy(v)' => Busy(v) /\ h'[v].copy = h[v].copy
  <1>0. TypeOK
    BY DEF DeliveryInv
  <1>1. CASE Complete(w)
    <2> DEFINE r == [Secured(h[w]) EXCEPT !.token = NoToken, !.until = 0]
    <2>1. h[w].pc = "complete" /\ Busy(w) /\ h[w] \in Handler
      BY <1>0, <1>1, BusyLemma DEF Complete, At, Busy
    <2>2. r \in HandlerOrIdle /\ Continues(r, h[w]) /\ Reply(w, r)
      BY <1>1, <2>1, Ranges DEF Complete, Secured, HandlerOrIdle, Handler, WorkerPc, Continues,
         DeliverPc
    <2> HIDE DEF r
    <2>3. PICK q \in HandlerOrIdle : Go(w, q) /\ Continues(q, h[w])
      BY <1>0, <2>1, <2>2, ReplyContinues
    <2>4. h'[w] = q /\ \A v \in Workers : v # w => h'[v] = h[v]
      BY <1>0, <2>3, GoOthers
    <2> QED BY <2>1, <2>3, <2>4 DEF Continues, Busy
  <1>2. CASE ~Complete(w)
    <2>1. Busy(w) /\ (QuietStep(w) \/ TakesClaim(w) \/ Taken(w))
      BY <1>2, ConsumerStepsAreQuiet, WorkerStepsAreQuiet, CallFailsIsQuiet, ClaimStep,
         PostStep DEF Handle
    <2>2. PICK q : Go(w, q) /\ (q.pc = "idle" \/ q.copy = h[w].copy)
      BY <2>1 DEF QuietStep, TakesClaim, Taken, Continues
    <2>3. h'[w] = q /\ \A v \in Workers : v # w => h'[v] = h[v]
      BY <1>0, <2>2, GoOthers
    <2> QED BY <2>1, <2>2, <2>3 DEF Busy
  <1> QED BY <1>1, <1>2

\* What a handler step leaves in the Stream and in the delayed store.
LEMMA HandleStamped ==
    ASSUME DeliveryInv, ResidencePreserved, NEW w \in Workers, Handle(w) \/ CallFails(w)
    PROVE  /\ accepted' = accepted
           /\ \A m \in DOMAIN stream' :
                 (m \in DOMAIN stream /\ stream'[m] = stream[m]) \/ Stamped(stream[m])'
           /\ \A j \in DOMAIN delayed' :
                 (j \in DOMAIN delayed /\ delayed'[j] = delayed[j]) \/ Stamped(delayed[j])'
  <1>0. now \in Time /\ QueueOK /\ accepted \in [Jobs -> SUBSET Time]
    BY DEF DeliveryInv, TypeOK, QueueOK
  <1>1. accepted' = accepted
    BY DEF Handle, CallFails, MoveToDlq, Ack, Park, Unpark, Refuse, Claim, Admit, PostTooLate,
       Post, Complete, Release, Retry, Defer, Free, counts
  <1>2. CASE Retry(w)
    <2> DEFINE c == [h[w].copy EXCEPT !.attempt = @ + 1, !.notBefore = Later(Backoff)]
    <2>1. h[w] \in Handler /\ h[w].pc = "retry" /\ Busy(w) /\ Stamped(h[w].copy)
      BY <1>2, BusyLemma DEF Retry, At, Busy, DeliveryInv, ResidencePreserved, Stamped
    <2>2. h[w].copy \in Copy /\ h[w].copy.attempt + 1 \in 0 .. MaxAttempts - 1
      BY <2>1, ConstantsAssumption DEF Handler, Copy, DeliveryInv, AttemptLeft, At
    <2>3. Later(Backoff) \in 0 .. MaxTime
      BY <1>0, LaterLemma, ConstantsAssumption
    <2>4. c \in Copy /\ Stamped(c)
      BY <2>1, <2>2, <2>3 DEF Copy, Stamped
    <2>5. Enqueue(c)
      BY <1>2 DEF Retry
    <2> HIDE DEF c
    <2> QED BY <1>0, <1>1, <2>4, <2>5, EnqueueStamped
  <1>3. CASE Defer(w)
    <2> DEFINE c == [h[w].copy EXCEPT !.defers = @ + 1, !.notBefore = Later(h[w].delay)]
    <2>1. h[w] \in Handler /\ Busy(w) /\ Stamped(h[w].copy) /\ h[w].copy \in Copy
      BY <1>3, BusyLemma DEF Defer, At, Busy, DeliveryInv, ResidencePreserved, Stamped, Handler
    <2>2. CASE h[w].copy.defers + 1 > MaxDefers
      BY <1>1, <1>3, <2>2 DEF Defer
    <2>3. CASE ~(h[w].copy.defers + 1 > MaxDefers)
      <3>1. h[w].copy.defers + 1 \in 0 .. MaxDefers
        BY <2>1, <2>3, ConstantsAssumption DEF Copy
      <3>2. Later(h[w].delay) \in 0 .. MaxTime
        <4>1. h[w].delay \in Nat
          BY <2>1 DEF Handler
        <4> QED BY <1>0, <4>1, LaterLemma
      <3>3. c \in Copy /\ Stamped(c)
        BY <2>1, <3>1, <3>2 DEF Copy, Stamped
      <3>4. Enqueue(c)
        BY <1>3, <2>3 DEF Defer
      <3> HIDE DEF c
      <3> QED BY <1>0, <1>1, <3>3, <3>4, EnqueueStamped
    <2> QED BY <2>2, <2>3
  <1>4. CASE Park(w)
    <2>1. h[w].copy \in Copy /\ Stamped(h[w].copy)
      BY <1>4, BusyLemma DEF Park, At, Busy, DeliveryInv, ResidencePreserved, Stamped, Handler
    <2>2. StoreDelayed(h[w].copy) /\ stream' = Without(stream, h[w].msg)
      BY <1>4 DEF Park
    <2>3. \A j \in DOMAIN delayed' :
             delayed'[j] = h[w].copy \/ (j \in DOMAIN delayed /\ delayed'[j] = delayed[j])
      BY <1>0, <2>1, <2>2, StoreDelayedLemma
    <2> QED BY <1>1, <2>1, <2>2, <2>3 DEF Stamped, Without
  <1>5. CASE Ack(w)
    BY <1>1, <1>5 DEF Ack, Without
  <1>6. CASE ~(Retry(w) \/ Defer(w) \/ Park(w) \/ Ack(w))
    <2>1. stream' = stream /\ delayed' = delayed
      BY <1>6 DEF Handle, CallFails, MoveToDlq, Unpark, Refuse, Claim, Admit, PostTooLate, Post,
         Complete, Release, Free, store
    <2> QED BY <1>1, <2>1
  <1> QED BY <1>2, <1>3, <1>4, <1>5, <1>6

LEMMA NextKeepsResidence ==
    ASSUME DeliveryInv, DeliveryInv', ResidencePreserved, [Next]_vars
    PROVE  ResidencePreserved'
  <1>0. /\ now \in Time /\ QueueOK /\ TypeOK
        /\ \A j \in Jobs : accepted[j] \subseteq Time
        /\ \A m \in DOMAIN stream : stream[m] \in Copy /\ stream[m].job \in Jobs
        /\ \A j \in DOMAIN delayed : delayed[j] \in Copy /\ delayed[j].job = j /\ j \in Jobs
        /\ \A w \in Workers : Busy(w) => h[w].copy.job \in Jobs
    BY BusyLemma DEF DeliveryInv, TypeOK, QueueOK, DelayedKeyed, Copy, Handler
  <1>1. ASSUME \A j \in Jobs : accepted[j] \subseteq accepted'[j],
               \A m \in DOMAIN stream' :
                 (m \in DOMAIN stream /\ stream'[m] = stream[m]) \/ Stamped(stream[m])',
               \A j \in DOMAIN delayed' :
                 (j \in DOMAIN delayed /\ delayed'[j] = delayed[j]) \/ Stamped(delayed[j])',
               \A v \in Workers : Busy(v)' =>
                 \/ Busy(v) /\ h'[v].copy = h[v].copy
                 \/ \E m \in DOMAIN stream : h'[v].copy = stream[m]
        PROVE  ResidencePreserved'
    <2>1. \A j \in DOMAIN delayed' : delayed'[j].job = j
      BY DEF DeliveryInv, DelayedKeyed
    <2> QED BY <1>0, <1>1, <2>1 DEF ResidencePreserved, Stamped
  <1>2. CASE UNCHANGED vars
    BY <1>2 DEF vars, store, counts, ResidencePreserved, Busy
  <1>3. CASE Tick
    BY <1>3 DEF Tick, store, counts, ResidencePreserved, Busy
  <1>4. CASE Crash
    <2>1. UNCHANGED <<stream, delayed, accepted>>
      BY <1>4 DEF Crash, store
    <2>2. \A v \in Workers : Busy(v)' => Busy(v) /\ h'[v].copy = h[v].copy
      BY <1>4 DEF Crash, Busy, Idle
    <2> QED BY <1>1, <2>1, <2>2
  <1>5. ASSUME NEW w \in Workers, Handle(w) \/ CallFails(w) PROVE ResidencePreserved'
    BY <1>1, <1>5, HandleStamped, CopyStays
  <1>6. ASSUME NEW w \in Workers, NEW m \in MsgIds, Receive(w, m) PROVE ResidencePreserved'
    <2>1. UNCHANGED <<stream, delayed, accepted>> /\ m \in DOMAIN stream
      BY <1>6 DEF Receive, store, counts
    <2>2. PICK r : Go(w, r) /\ r.copy = stream[m]
      BY <1>6 DEF Receive
    <2>3. h'[w] = r /\ \A v \in Workers : v # w => h'[v] = h[v]
      BY <1>0, <2>2, GoOthers
    <2>4. \A v \in Workers : Busy(v)' =>
             \/ Busy(v) /\ h'[v].copy = h[v].copy
             \/ \E n \in DOMAIN stream : h'[v].copy = stream[n]
      BY <2>1, <2>2, <2>3 DEF Busy
    <2> QED BY <1>1, <2>1, <2>4
  <1>7. ASSUME NEW j \in Jobs, Accept(j) PROVE ResidencePreserved'
    <2>1. PICK t \in 0 .. MaxTime :
             AddReady([job |-> j, attempt |-> 0, defers |-> 0, notBefore |-> t, stamp |-> 0])
      <3>1. Later(1) \in 0 .. MaxTime
        BY <1>0, LaterLemma
      <3> QED BY <1>7, <3>1, Ranges DEF Accept
    <2> DEFINE c == [job |-> j, attempt |-> 0, defers |-> 0, notBefore |-> t, stamp |-> 0]
    <2>2. c \in Copy /\ c.job = j /\ c.stamp = 0 /\ AddReady(c)
      BY <2>1, Ranges DEF Copy
    <2> HIDE DEF c
    <2>3. /\ now \in accepted'[j] /\ UNCHANGED <<delayed, h>>
          /\ \A i \in Jobs : accepted[i] \subseteq accepted'[i]
      BY <1>0, <1>7 DEF Accept, TypeOK
    <2>4. \A m \in DOMAIN stream' :
             (m \in DOMAIN stream /\ stream'[m] = stream[m]) \/ Stamped(stream[m])'
      BY <1>0, <2>2, <2>3, AddReadyStamped
    <2> QED BY <1>1, <2>3, <2>4 DEF Busy
  <1>8. ASSUME NEW j \in Jobs, Promote(j) PROVE ResidencePreserved'
    <2>1. /\ j \in DOMAIN delayed /\ AddReady(delayed[j]) /\ UNCHANGED <<h, accepted>>
          /\ delayed' = Without(delayed, j)
      BY <1>8 DEF Promote, counts
    <2>2. PICK c \in Copy : c = delayed[j] /\ c.stamp \in accepted[c.job] /\ c.stamp # 0
      BY <1>0, <2>1 DEF ResidencePreserved, Time
    <2>3. \A m \in DOMAIN stream' :
             (m \in DOMAIN stream /\ stream'[m] = stream[m]) \/ Stamped(stream[m])'
      BY <1>0, <2>1, <2>2, AddReadyStamped
    <2> QED BY <1>1, <2>1, <2>3 DEF Busy, Without
  <1> QED BY <1>2, <1>3, <1>4, <1>5, <1>6, <1>7, <1>8 DEF Next

LEMMA InitResidence == Init => ResidencePreserved
  BY DEF Init, ResidencePreserved, Empty, Busy, Idle

\* Wherever a job travels, through retries, deferrals, the delayed store and
\* promotions to new Stream ids, its residence clock is that of a hand-over.
THEOREM ResidenceInvariant == Spec => []ResidencePreserved
  BY DeliveryInvariant, InitResidence, NextKeepsResidence, PTL DEF Spec

-----------------------------------------------------------------------------
\* No late POST

LEMMA PostsAreTimely ==
    ASSUME DeliveryInv, ResidencePreserved, [Next]_vars, NEW w \in Workers,
           At(w, "post"), h'[w].pc = "complete"
    PROVE  \E t \in accepted[h[w].copy.job] : now - t <= Residence
  <1>0. TypeOK /\ Busy(w) /\ h[w] \in Handler
    BY BusyLemma DEF DeliveryInv, At, Busy
  <1>1. CASE UNCHANGED h
    BY <1>1 DEF At
  <1>2. ASSUME NEW v \in Workers, Handle(v) \/ CallFails(v)
        PROVE  \E t \in accepted[h[w].copy.job] : now - t <= Residence
    <2>1. ~Complete(v) \/ v # w
      BY DEF Complete, At
    <2>2. CASE v # w
      <3>1. PICK q : Go(v, q)
        BY <1>2 DEF Handle, CallFails, MoveToDlq, Ack, Park, Unpark, Refuse, Claim, Admit,
           PostTooLate, Post, Complete, Release, Retry, Defer, Free, Reply
      <3>2. h'[w] = h[w]
        BY <1>0, <2>2, <3>1, GoOthers
      <3> QED BY <3>2 DEF At
    <2>3. CASE v = w /\ ~Complete(v)
      <3>1. QuietStep(w) \/ TakesClaim(w) \/ Taken(w)
        BY <1>2, <2>3, ConsumerStepsAreQuiet, WorkerStepsAreQuiet, CallFailsIsQuiet, ClaimStep,
           PostStep DEF Handle
      <3>2. ~TakesClaim(w)
        BY DEF TakesClaim, At
      <3>3. ~QuietStep(w)
        <4> SUFFICES ASSUME NEW q \in HandlerOrIdle, Go(w, q), Continues(q, h[w])
                     PROVE  FALSE
          BY DEF QuietStep
        <4>1. h'[w] = q
          BY <1>0, GoOthers
        <4> QED BY <4>1 DEF Continues
      <3>4. ~Expired(h[w].copy)
        BY <3>1, <3>2, <3>3 DEF Taken
      <3>5. h[w].copy.stamp \in accepted[h[w].copy.job] /\ h[w].copy.stamp \in Int /\ now \in Int
        BY <1>0, ConstantsAssumption DEF ResidencePreserved, Handler, Copy, TypeOK, Time
      <3>6. now - h[w].copy.stamp <= Residence
        BY <3>4, <3>5, ConstantsAssumption DEF Expired
      <3> QED BY <3>5, <3>6
    <2> QED BY <2>1, <2>2, <2>3
  <1>3. ASSUME NEW v \in Workers, NEW m \in MsgIds, Receive(v, m)
        PROVE  \E t \in accepted[h[w].copy.job] : now - t <= Residence
    <2>1. v # w
      BY <1>0, <1>3 DEF Receive
    <2>2. PICK q : Go(v, q)
      BY <1>3 DEF Receive
    <2>3. h'[w] = h[w]
      BY <1>0, <2>1, <2>2, GoOthers
    <2> QED BY <2>3 DEF At
  <1>4. CASE Crash
    <2>1. h'[w] = Idle \/ h'[w] = h[w]
      BY <1>4 DEF Crash
    <2> QED BY <2>1 DEF Idle, At
  <1> QED BY <1>1, <1>2, <1>3, <1>4 DEF Next, Accept, Promote, Tick, vars

\* However long a handler waited for its claim, its domain slot or its
\* signature, no POST leaves later than the residence limit after a hand-over.
THEOREM NoLatePost == Spec => NoPostPastResidence
  <1>1. ASSUME DeliveryInv, ResidencePreserved, [Next]_vars
        PROVE  [\A w \in Workers :
                  LET j == h[w].copy.job
                  IN  At(w, "post") /\ h'[w].pc = "complete" =>
                         \E t \in accepted[j] : now - t <= Residence]_vars
    BY <1>1, PostsAreTimely
  <1> QED BY <1>1, DeliveryInvariant, ResidenceInvariant, PTL DEF Spec, NoPostPastResidence

-----------------------------------------------------------------------------
\* The refinement of DeliveryPromise

\* What a handler works on has been handed over.
LEMMA WorkIsHandedOver ==
    ASSUME DeliveryInv, ResidencePreserved, NEW w \in Workers, Busy(w)
    PROVE  h[w].copy.job \in Jobs /\ h[w].copy.job \in HandedOver
  <1>1. h[w].copy.job \in Jobs
    BY BusyLemma DEF DeliveryInv, Handler, Copy
  <1> QED BY <1>1 DEF ResidencePreserved, HandedOver

LEMMA InitRefines == Init => Promise!Init
  BY DEF Init, Promise!Init, HandedOver

\* One step of a handler is one step of the promise, or none.
LEMMA HandleRefines ==
    ASSUME DeliveryInv, LeaseInv, ResidencePreserved, NEW w \in Workers, Handle(w)
    PROVE  Promise!Next \/ UNCHANGED Promise!promise
  <1>0. /\ TypeOK /\ Busy(w) /\ h[w] \in Handler
        /\ h[w].copy.job \in Jobs /\ h[w].copy.job \in HandedOver
    <2>1. Busy(w) /\ TypeOK
      BY DEF DeliveryInv, Handle, MoveToDlq, Ack, Park, Unpark, Refuse, Claim, Admit,
         PostTooLate, Post, Complete, Release, Retry, Defer, Free, At, Busy, AckPc
    <2> QED BY <2>1, BusyLemma, WorkIsHandedOver
  <1>1. HandedOver' = HandedOver
    <2>1. accepted' = accepted
      BY HandleStamped
    <2> QED BY <2>1 DEF HandedOver
  <1>2. CASE MoveToDlq(w) \/ (Defer(w) /\ dlq' # dlq)
    <2>1. Promise!Bury(h[w].copy.job)
      BY <1>0, <1>1, <1>2 DEF MoveToDlq, Defer, Promise!Bury
    <2> QED BY <1>0, <2>1 DEF Promise!Next
  <1>3. CASE Complete(w)
    <2>1. received[h[w].copy.job] > 0
      BY <1>3 DEF Complete, LeaseInv, AnsweredWasTaken
    <2>2. Promise!Prove(h[w].copy.job)
      BY <1>1, <1>3, <2>1 DEF Complete, store, Promise!Prove
    <2> QED BY <1>0, <2>2 DEF Promise!Next
  <1>4. CASE Post(w) /\ <<received, excused>>' # <<received, excused>>
    <2>1. UNCHANGED <<completed, dlq>> /\ h[w].pc = "post"
      BY <1>4 DEF Post, store, At
    <2>2. received[h[w].copy.job] = 0 \/ h[w].copy.job \in excused
      <3>1. Delivering(w)
        BY <1>0, <2>1 DEF Delivering
      <3> QED BY <1>0, <2>1, <3>1, UndoubtedIsAlone DEF TypeOK
    <2>3. /\ received' = [received EXCEPT ![h[w].copy.job] = IF @ = 2 THEN 2 ELSE @ + 1]
          /\ excused' \in {excused, excused \cup {h[w].copy.job}}
      BY <1>4 DEF Post
    <2>4. Promise!Send(h[w].copy.job)
      BY <1>0, <1>1, <2>1, <2>2, <2>3 DEF Promise!Send
    <2> QED BY <1>0, <2>4 DEF Promise!Next
  <1>5. CASE /\ ~MoveToDlq(w) /\ ~Complete(w)
             /\ ~(Defer(w) /\ dlq' # dlq)
             /\ ~(Post(w) /\ <<received, excused>>' # <<received, excused>>)
    <2>1. UNCHANGED <<received, excused, completed, dlq>>
      BY <1>5 DEF Handle, Ack, Park, Unpark, Refuse, Claim, Admit, PostTooLate, Post, Release,
         Retry, Defer, Free, store
    <2> QED BY <1>1, <2>1 DEF Promise!promise
  <1> QED BY <1>2, <1>3, <1>4, <1>5

LEMMA NextRefines ==
    ASSUME DeliveryInv, LeaseInv, ResidencePreserved, [Next]_vars
    PROVE  Promise!Next \/ UNCHANGED Promise!promise
  <1>1. CASE UNCHANGED vars \/ \E j \in Jobs : Promote(j)
    <2>1. UNCHANGED <<accepted, received, excused, completed, dlq>>
      BY <1>1 DEF vars, Promote, store, counts
    <2> QED BY <2>1 DEF HandedOver, Promise!promise
  <1>2. ASSUME NEW j \in Jobs, Accept(j) PROVE Promise!Next
    <2>1. UNCHANGED <<received, excused, completed, dlq>>
      BY <1>2 DEF Accept
    <2>2. HandedOver' = HandedOver \cup {j}
      BY <1>2 DEF Accept, HandedOver, DeliveryInv, TypeOK
    <2>3. Promise!Hand({j})
      BY <2>1, <2>2 DEF Promise!Hand
    <2> QED BY <2>3 DEF Promise!Next
  <1>3. ASSUME UNCHANGED <<accepted, received, completed, dlq>>,
               NEW J \in SUBSET Workers, \A w \in J : Busy(w),
               excused' = excused \cup {h[w].copy.job : w \in J}
        PROVE  Promise!Next
    <2> DEFINE L == {h[w].copy.job : w \in J}
    <2>1. L \subseteq HandedOver /\ L \in SUBSET Jobs
      BY <1>3, WorkIsHandedOver
    <2>2. HandedOver' = HandedOver
      BY <1>3 DEF HandedOver
    <2>3. Promise!Lose(L)
      BY <1>3, <2>1, <2>2 DEF Promise!Lose
    <2> QED BY <2>1, <2>3 DEF Promise!Next
  <1>4. CASE Tick
    <2> DEFINE J == {v \in Workers : Overran(v)}
    <2>1. J \in SUBSET Workers /\ \A w \in J : Busy(w)
      BY DEF Overran
    <2>2. UNCHANGED <<accepted, received, completed, dlq>>
      BY <1>4 DEF Tick, store, counts
    <2>3. excused' = excused \cup {h[w].copy.job : w \in J}
      BY <1>4 DEF Tick
    <2> HIDE DEF J
    <2> QED BY <1>3, <2>1, <2>2, <2>3
  <1>5. CASE Crash
    <2>1. PICK W \in SUBSET {w \in Workers : Busy(w)} :
             excused' = excused \cup {h[w].copy.job : w \in {v \in W : Unproved(v)}}
      BY <1>5 DEF Crash
    <2> QED BY <1>3, <1>5, <2>1 DEF Crash, store
  <1>6. ASSUME NEW w \in Workers, CallFails(w) PROVE Promise!Next \/ UNCHANGED Promise!promise
    <2>1. UNCHANGED <<accepted, received, completed, dlq>> /\ Busy(w)
      BY <1>6 DEF CallFails, store, counts
    <2>2. CASE At(w, "complete")
      <3> DEFINE J == {w}
      <3>1. excused' = excused \cup {h[v].copy.job : v \in J}
        BY <1>6, <2>2 DEF CallFails
      <3>2. J \in SUBSET Workers /\ \A v \in J : Busy(v)
        BY <2>1
      <3> HIDE DEF J
      <3> QED BY <1>3, <2>1, <3>1, <3>2
    <2>3. CASE ~At(w, "complete")
      BY <1>6, <2>1, <2>3 DEF CallFails, HandedOver, Promise!promise
    <2> QED BY <2>2, <2>3
  <1>7. ASSUME NEW w \in Workers, NEW m \in MsgIds, Receive(w, m)
        PROVE  UNCHANGED Promise!promise
    BY <1>7 DEF Receive, store, counts, HandedOver, Promise!promise
  <1> QED BY <1>1, <1>2, <1>4, <1>5, <1>6, <1>7, HandleRefines DEF Next

\* The queue, its handlers, claims, retries, faults and crashes implement
\* DeliveryPromise: nobody outside can tell them from a sidecar that hands
\* over, delivers, doubts, proves and buries as the promise says.
THEOREM Refinement == Spec => PromiseKept
  <1>1. Init => Promise!Init
    BY InitRefines
  <1>2. ASSUME DeliveryInv, LeaseInv, ResidencePreserved, [Next]_vars
        PROVE  [Promise!Next]_(Promise!promise)
    BY <1>2, NextRefines
  <1> QED BY <1>1, <1>2, DeliveryInvariant, LeaseInvariant, ResidenceInvariant, PTL
          DEF Spec, PromiseKept, Promise!Spec
=============================================================================
