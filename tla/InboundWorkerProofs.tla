-------------------------- MODULE InboundWorkerProofs --------------------------
(***************************************************************************)
(* Proofs about InboundWorker for any activities, handlers and limits.     *)
(* HandlingInv relates a running handler to its entry and its activity;    *)
(* on it rest CarriedInv (nothing delivered is lost), OnceInv (the claim   *)
(* of an activity id entitles one handler), OneBoostInv and OneCaseInv.    *)
(***************************************************************************)
EXTENDS InboundWorker, TLAPS

Reports == Flags \cup Provided

HandlerOrIdle == Handler \cup {Idle}

\* What the stage of a handler says about its activity and what it does next.
Fits(r) ==
    /\ r.pc \in {"findCase", "addCase", "patchCase"} => r.env.act \in Flags
    /\ r.pc = "event"   => r.env.act \in Provided
    /\ r.pc = "claim"   => r.env.act \in Guarded
    /\ r.pc = "boost"   => r.env.act \in Boosts
    /\ r.pc = "forward" => r.env.act \notin Reports \cup Bypassed
    /\ r.pc = "publish" => /\ r.env.act \notin Reports
                           /\ r.env.act \in Bypassed => r.then = "publish"
    /\ r.then = "publish" => r.env.act \in Bypassed
    /\ r.then = "retry"   => r.env.act \notin Reports \cup Bypassed /\ r.env.attempt < MaxAttempts
    /\ r.pc \in {"dlq", "retry"} => r.then = r.pc
    /\ r.pc \notin {"ack", "dlq", "retry", "publish"} => r.then = "done"

\* Nobody else's entry has the id a handler works on, and it is gone once the
\* handler has acknowledged it.
OwnEntry(r) ==
    /\ r.msg \in DOMAIN stream => stream[r.msg].act = r.env.act
    /\ r.pc \in {"dlq", "retry"} => r.msg \notin DOMAIN stream

HandlingInv ==
    /\ TypeOK
    /\ \A w \in Workers : Busy(w) => Fits(h[w])
    /\ \A w \in Workers : Busy(w) => OwnEntry(h[w])

-----------------------------------------------------------------------------
\* Nothing delivered is lost

\* Nothing more is owed to the activity.
Settled(a) ==
    \/ Recorded(a) \/ Claimed(a)
    \/ a \in refused \cup erred \cup interrupted
    \/ a \in Boosts /\ boosted

\* A handler that acknowledges its entry and leaves it at that.
Renounces(r) == r.pc \in {"ack", "catchAck"} /\ r.then = "done"

\* An entry that no handler is about to drop.
Live(m) == \A w \in Workers : Renounces(h[w]) => h[w].msg # m

\* Who answers for an activity that is not settled: an entry, or a handler
\* that has acknowledged its entry and has a retry or a record to write.
Carried(a) ==
    \/ \E m \in DOMAIN stream : stream[m].act = a /\ Live(m)
    \/ \E w \in Workers : h[w].pc \in {"dlq", "retry"} /\ Act(w) = a

\* Why a handler may drop its entry or its work.
Excused(r) ==
    LET a == r.env.act IN
    /\ r.pc = "patchCase" => Settled(a)
    /\ r.pc = "publish" => Settled(a) \/ a \in Bypassed \cap Anonymous
    /\ r.then = "publish" => Settled(a) \/ a \in Anonymous
    /\ r.then = "dlq" /\ a \in Reports => a \in refused

CarriedInv ==
    /\ \A w \in Workers : Busy(w) => Excused(h[w])
    /\ \A a \in caseKeys : cases[a] > 0
    /\ interrupted \cap Reports \subseteq refused
    /\ \A a \in delivered \ (Bypassed \cap Anonymous) : Settled(a) \/ Carried(a)

-----------------------------------------------------------------------------
\* One handler per claim

\* The handler got past the guard with the activity.
Entitled(r) ==
    \/ r.pc \in {"boost", "forward", "publish"}
    \/ r.pc = "ack" /\ r.then = "publish"

\* ... and the activity has the id i.
Holds(r, i) == Entitled(r) /\ r.env.act \in Guarded /\ IdOf[r.env.act] = i

\* No delivery of the activity with id i had the effect counted by f.
None(f, i) == \A a \in Guarded : IdOf[a] = i => f[a] = 0

\* One of the deliveries at most had each effect.
OnceFor(i) ==
    \A a, b \in Guarded :
        IdOf[a] = i /\ IdOf[b] = i => AtMostOnce(pods, a, b) /\ AtMostOnce(emitted, a, b)

Ids == {IdOf[a] : a \in Guarded}

OnceInv ==
    \A i \in Ids :
        /\ OnceFor(i)
        /\ i \notin claimed => None(pods, i) /\ None(emitted, i)
        /\ \A w \in Workers : Holds(h[w], i) =>
              /\ i \in claimed /\ None(emitted, i)
              /\ h[w].pc \in {"boost", "forward"} => None(pods, i)
              /\ \A v \in Workers : Holds(h[v], i) => v = w

\* One handler forwards a boost, the one that found the key of the announce
\* guard free.
OneBoostInv ==
    /\ \A w \in Workers : At(w, "forward") /\ Act(w) \in Boosts =>
          /\ boosted /\ \A b \in Boosts : pods[b] = 0
          /\ \A v \in Workers : At(v, "forward") /\ Act(v) \in Boosts => v = w
    /\ \A b \in Boosts : pods[b] > 0 => boosted
    /\ \A a, b \in Boosts : a # b => pods[a] = 0 \/ pods[b] = 0

\* Unless look-ups raced or a call failed, one handler adds a case for a
\* report at an inbox, the first.
OneCaseInv ==
    \A a \in Flags \ (raced \cup erred) :
        /\ cases[a] <= 1
        /\ cases[a] = 1 <=> a \in caseKeys
        /\ \A w \in Workers : At(w, "addCase") /\ Act(w) = a =>
              /\ cases[a] = 0
              /\ \A v \in Workers : At(v, "addCase") /\ Act(v) = a => v = w
-----------------------------------------------------------------------------
\* Steps of a handler

\* The variables of TypeOK but h.
RestOK ==
    /\ now \in 0 .. MaxTime
    /\ DOMAIN stream \subseteq MsgIds
    /\ stream \in [DOMAIN stream -> Envelope]
    /\ dlq \subseteq Acts /\ claimed \subseteq {IdOf[a] : a \in Guarded}
    /\ boosted \in BOOLEAN
    /\ cases \in [Acts -> Few] /\ caseKeys \subseteq Flags
    /\ pods \in [Acts -> Few] /\ emitted \in [Acts -> Few]
    /\ delivered \subseteq Acts /\ deliveries \in 0 .. MaxDeliveries
    /\ refused \subseteq Acts /\ erred \subseteq Acts /\ interrupted \subseteq Acts
    /\ raced \subseteq Flags
    /\ mishaps \in 0 .. MaxMishaps

\* The handler goes on with the entry and the activity it has, or ends.
Follows(q, r) ==
    \/ q = Idle
    \/ q \in Handler /\ q.msg = r.msg /\ q.env = r.env /\ Fits(q)

\* Entries keep their envelopes, and new ones have ids of their own.
StreamKept ==
    \A m \in DOMAIN stream' :
        \/ m \in DOMAIN stream /\ stream'[m] = stream[m]
        \/ m \in FreshIds

LEMMA BusyLemma ==
    ASSUME TypeOK, NEW w \in Workers, Busy(w)
    PROVE  h[w] \in Handler /\ h[w].env \in Envelope /\ Act(w) \in Acts
  BY DEF TypeOK, Busy, Idle, Handler, Envelope, Act

LEMMA ThrownLemma ==
    ASSUME NEW r \in Handler, Fits(r)
    PROVE  Follows(Thrown(r), r) /\ (Thrown(r) # Idle => Renounces(Thrown(r)))
  <1>1. CASE r.pc = "catchAck"
    BY <1>1 DEF Thrown, Follows
  <1>2. CASE r.pc # "catchAck"
    <2> DEFINE q == [r EXCEPT !.pc = "catchAck", !.then = "done"]
    <2>1. Thrown(r) = q
      BY <1>2 DEF Thrown
    <2>2. q \in Handler /\ q.pc = "catchAck" /\ q.then = "done"
      BY DEF Handler, Throwing
    <2>3. q.msg = r.msg /\ q.env = r.env
      BY DEF Handler
    <2> HIDE DEF q
    <2>4. Fits(q) /\ Renounces(q)
      BY <2>2 DEF Fits, Renounces
    <2> QED BY <2>1, <2>2, <2>3, <2>4 DEF Follows
  <1> QED BY <1>1, <1>2

LEMMA GoLemma ==
    ASSUME TypeOK, NEW w \in Workers, NEW q, Go(w, q)
    PROVE  h'[w] = q /\ \A v \in Workers : v # w => h'[v] = h[v]
  BY DEF TypeOK, Go

LEMMA ReplyLemma ==
    ASSUME TypeOK, NEW w \in Workers, Busy(w), NEW r, Reply(w, r)
    PROVE  /\ mishaps' \in 0 .. MaxMishaps /\ erred' \subseteq Acts
           /\ \/ Go(w, r) /\ erred' = erred
              \/ Go(w, Thrown(h[w])) /\ erred' = erred \cup {Act(w)}
  BY BusyLemma, ConstantsAssumption DEF Reply, TypeOK

LEMMA EnqueueLemma ==
    ASSUME TypeOK, NEW e \in Envelope, EnqueueInbound(e)
    PROVE  /\ DOMAIN stream' \subseteq MsgIds /\ stream' \in [DOMAIN stream' -> Envelope]
           /\ StreamKept
           /\ DOMAIN stream \subseteq DOMAIN stream'
           /\ \A m \in DOMAIN stream : stream'[m] = stream[m]
           /\ \E m \in FreshIds : m \in DOMAIN stream' /\ stream'[m] = e
  <1> DEFINE m == CHOOSE m \in FreshIds : TRUE
  <1>1. m \in FreshIds
    BY DEF EnqueueInbound
  <1>2. m \in MsgIds /\ m \notin DOMAIN stream
    BY <1>1 DEF FreshIds
  <1>3. stream' = [x \in DOMAIN stream \cup {m} |-> IF x = m THEN e ELSE stream[x]]
    BY DEF EnqueueInbound
  <1> HIDE DEF m
  <1> QED BY <1>1, <1>2, <1>3 DEF TypeOK, StreamKept

LEMMA FreshLemma ==
    ASSUME NEW m \in FreshIds
    PROVE  m \notin DOMAIN stream /\ \A w \in Workers : Busy(w) => h[w].msg # m
  BY DEF FreshIds

\* A step of handler w from h[w] to q.
LEMMA HandlingStep ==
    ASSUME HandlingInv, NEW w \in Workers, NEW q, Go(w, q), RestOK', StreamKept,
           \/ q = Idle
           \/ q \in Handler /\ Fits(q) /\ OwnEntry(q)'
    PROVE  HandlingInv'
  <1>1. h'[w] = q /\ \A v \in Workers : v # w => h'[v] = h[v]
    BY GoLemma DEF HandlingInv
  <1>2. TypeOK'
    BY <1>1 DEF HandlingInv, TypeOK, RestOK, Go
  <1>3. ASSUME NEW v \in Workers, Busy(v)' PROVE Fits(h[v])' /\ OwnEntry(h[v])'
    <2>1. CASE v = w
      BY <1>1, <1>3, <2>1 DEF Busy, Idle, Fits, OwnEntry
    <2>2. CASE v # w
      <3>1. h'[v] = h[v] /\ Busy(v) /\ Fits(h[v]) /\ OwnEntry(h[v])
        BY <1>1, <1>3, <2>2 DEF Busy, HandlingInv
      <3>2. h[v].msg \in DOMAIN stream' =>
              h[v].msg \in DOMAIN stream /\ stream'[h[v].msg] = stream[h[v].msg]
        BY <3>1, FreshLemma DEF StreamKept
      <3> QED BY <3>1, <3>2 DEF Fits, OwnEntry
    <2> QED BY <2>1, <2>2
  <1> QED BY <1>2, <1>3 DEF HandlingInv

LEMMA ToLemma ==
    ASSUME NEW r \in Handler, NEW pc \in Throwing \cup {"screen", "event", "forward", "publish"}
    PROVE  /\ To(r, pc) \in Handler /\ To(r, pc).pc = pc /\ To(r, pc).then = r.then
           /\ To(r, pc).msg = r.msg /\ To(r, pc).env = r.env
  BY DEF To, Handler

LEMMA AckThenLemma ==
    ASSUME NEW r \in Handler, NEW then \in {"done", "dlq", "retry", "publish"}
    PROVE  /\ AckThen(r, then) \in Handler
           /\ AckThen(r, then).pc = "ack" /\ AckThen(r, then).then = then
           /\ AckThen(r, then).msg = r.msg /\ AckThen(r, then).env = r.env
  BY DEF AckThen, Handler, Throwing

\* A step that leaves the Stream alone or drops entries from it.
LEMMA PlainStep ==
    ASSUME HandlingInv, NEW w \in Workers, Busy(w), NEW q, Go(w, q), RestOK',
           Follows(q, h[w]), q.pc \in {"dlq", "retry"} => h[w].msg \notin DOMAIN stream',
           \A m \in DOMAIN stream' : m \in DOMAIN stream /\ stream'[m] = stream[m]
    PROVE  HandlingInv'
  <1>1. ASSUME q # Idle PROVE q \in Handler /\ Fits(q) /\ OwnEntry(q)'
    <2>1. OwnEntry(h[w]) /\ q \in Handler /\ Fits(q) /\ q.msg = h[w].msg /\ q.env = h[w].env
      BY <1>1 DEF HandlingInv, Follows
    <2> QED BY <2>1 DEF OwnEntry
  <1>2. StreamKept
    BY DEF StreamKept
  <1> QED BY <1>1, <1>2, HandlingStep

\* A call that took effect, answered or not, and adds no entry.
LEMMA PlainReply ==
    ASSUME HandlingInv, NEW w \in Workers, Busy(w), NEW r, Reply(w, r),
           mishaps' \in 0 .. MaxMishaps /\ erred' \subseteq Acts => RestOK',
           Follows(r, h[w]), r.pc \in {"dlq", "retry"} => h[w].msg \notin DOMAIN stream',
           \A m \in DOMAIN stream' : m \in DOMAIN stream /\ stream'[m] = stream[m]
    PROVE  HandlingInv'
  <1>1. h[w] \in Handler /\ Fits(h[w]) /\ TypeOK
    BY BusyLemma DEF HandlingInv
  <1>2. /\ RestOK'
        /\ Go(w, r) \/ Go(w, Thrown(h[w]))
    BY <1>1, ReplyLemma
  <1>3. Follows(Thrown(h[w]), h[w]) /\ Thrown(h[w]).pc \notin {"dlq", "retry"}
    BY <1>1, ThrownLemma DEF Renounces, Idle
  <1> DEFINE t == Thrown(h[w])
  <1> HIDE DEF t
  <1>4. Follows(t, h[w]) /\ t.pc \notin {"dlq", "retry"} /\ (Go(w, r) \/ Go(w, t))
    BY <1>2, <1>3 DEF t
  <1> QED BY <1>2, <1>4, PlainStep

\* A call that took effect, answered or not, and adds an entry.
LEMMA EnqueueReply ==
    ASSUME HandlingInv, NEW w \in Workers, Busy(w), NEW r, Reply(w, r),
           mishaps' \in 0 .. MaxMishaps /\ erred' \subseteq Acts => RestOK',
           Follows(r, h[w]), r.pc \notin {"dlq", "retry"}, StreamKept
    PROVE  HandlingInv'
  <1>1. h[w] \in Handler /\ Fits(h[w]) /\ TypeOK /\ OwnEntry(h[w])
    BY BusyLemma DEF HandlingInv
  <1> DEFINE t == Thrown(h[w])
  <1>2. RestOK' /\ (Go(w, r) \/ Go(w, t))
    BY <1>1, ReplyLemma
  <1>3. Follows(t, h[w]) /\ t.pc \notin {"dlq", "retry"}
    BY <1>1, ThrownLemma DEF Renounces, Idle
  <1> HIDE DEF t
  <1>4. h[w].msg \in DOMAIN stream' => stream'[h[w].msg].act = h[w].env.act
    BY <1>1, FreshLemma DEF OwnEntry, StreamKept
  <1>5. ASSUME NEW q \in {r, t}, q # Idle PROVE q \in Handler /\ Fits(q) /\ OwnEntry(q)'
    BY <1>3, <1>4, <1>5 DEF OwnEntry, Follows
  <1> QED BY <1>2, <1>5, HandlingStep

LEMMA ScreenHandles == ASSUME HandlingInv, NEW w \in Workers, Screen(w) PROVE HandlingInv'
  <1>1. Busy(w) /\ h[w] \in Handler /\ Fits(h[w]) /\ Act(w) \in Acts /\ h[w].pc = "screen"
    BY BusyLemma DEF Screen, HandlingInv, At, Busy
  <1>2. RestOK' /\ \A m \in DOMAIN stream' : m \in DOMAIN stream /\ stream'[m] = stream[m]
    BY <1>1 DEF Screen, guards, moderation, effects, arrivals, HandlingInv, TypeOK, RestOK
  <1>3. PICK t : t = Thrown(h[w])
    OBVIOUS
  <1>4. Follows(t, h[w]) /\ t.pc \notin {"dlq", "retry"}
    BY <1>1, <1>3, ThrownLemma DEF Renounces, Idle
  <1>5. PICK q \in {To(h[w], "policy"), AckThen(h[w], "dlq"), t} : Go(w, q)
    BY <1>3 DEF Screen
  <1>6. Follows(q, h[w]) /\ q.pc \notin {"dlq", "retry"}
    BY <1>1, <1>4, <1>5, ToLemma, AckThenLemma DEF Follows, Fits, Throwing
  <1> QED BY <1>1, <1>2, <1>5, <1>6, PlainStep

LEMMA RequeueHandles == ASSUME HandlingInv, NEW w \in Workers, Requeue(w) PROVE HandlingInv'
  <1>1. Busy(w) /\ h[w] \in Handler /\ Fits(h[w]) /\ h[w].env \in Envelope
    BY BusyLemma DEF Requeue, HandlingInv, At, Busy
  <1>2. mishaps' \in 0 .. MaxMishaps /\ erred' \subseteq Acts => RestOK'
    BY <1>1, EnqueueLemma DEF Requeue, guards, moderation, effects, arrivals, history,
       HandlingInv, TypeOK, RestOK
  <1>3. Reply(w, AckThen(h[w], "done")) /\ StreamKept
    BY <1>1, EnqueueLemma DEF Requeue, HandlingInv
  <1>4. Follows(AckThen(h[w], "done"), h[w]) /\ AckThen(h[w], "done").pc = "ack"
    BY <1>1, AckThenLemma DEF Follows, Fits
  <1> QED BY <1>1, <1>2, <1>3, <1>4, EnqueueReply

LEMMA RouteLemma ==
    ASSUME NEW r \in Handler, r.then = "done", r.env.act \notin Reports
    PROVE  /\ Follows(Route(r), r)
           /\ \/ Route(r).pc = "forward" /\ Route(r).then = "done"
              \/ /\ Route(r).pc = "ack" /\ Route(r).then = "publish"
                 /\ r.env.act \in Bypassed
  <1>1. CASE r.env.act \in Bypassed
    BY <1>1, AckThenLemma DEF Route, Follows, Fits
  <1>2. CASE r.env.act \notin Bypassed
    BY <1>2, ToLemma DEF Route, Follows, Fits
  <1> QED BY <1>1, <1>2

LEMMA AfterClaimLemma ==
    ASSUME NEW r \in Handler, r.then = "done", r.env.act \notin Reports
    PROVE  /\ Follows(AfterClaim(r), r)
           /\ \/ AfterClaim(r).pc = "boost" /\ r.env.act \in Boosts
              \/ AfterClaim(r).pc = "forward" /\ r.env.act \notin Boosts
              \/ /\ AfterClaim(r).pc = "ack" /\ AfterClaim(r).then = "publish"
                 /\ r.env.act \in Bypassed \ Boosts
  <1>1. CASE r.env.act \in Boosts
    BY <1>1, ToLemma DEF AfterClaim, Follows, Fits, Throwing
  <1>2. CASE r.env.act \notin Boosts
    BY <1>2, RouteLemma DEF AfterClaim
  <1> QED BY <1>1, <1>2

LEMMA AfterPolicyLemma ==
    ASSUME NEW r \in Handler, r.then = "done", r.env.act \in Acts
    PROVE  /\ Follows(AfterPolicy(r), r)
           /\ \/ AfterPolicy(r).pc = "findCase"
              \/ AfterPolicy(r).pc = "event"
              \/ AfterPolicy(r).pc = "claim"
              \/ /\ r.env.act \in Anonymous \ Reports
                 /\ AfterPolicy(r) = AfterClaim(r)
                 /\ AfterPolicy(r).pc \in {"boost", "forward", "ack"}
  <1>1. CASE r.env.act \in Flags
    <2>1. AfterPolicy(r) = To(r, "findCase")
      BY <1>1, ConstantsAssumption DEF AfterPolicy, Guarded
    <2> QED BY <1>1, <2>1, ToLemma DEF Follows, Fits, Throwing
  <1>2. CASE r.env.act \in Provided
    <2>1. AfterPolicy(r) = To(r, "event")
      BY <1>2, ConstantsAssumption DEF AfterPolicy, Guarded
    <2> QED BY <1>2, <2>1, ToLemma DEF Follows, Fits, Throwing
  <1>3. CASE r.env.act \in Guarded
    <2>1. AfterPolicy(r) = To(r, "claim")
      BY <1>3 DEF AfterPolicy, Guarded, Reports
    <2> QED BY <1>3, <2>1, ToLemma DEF Follows, Fits, Throwing
  <1>4. CASE r.env.act \in Anonymous \ Reports
    <2>1. AfterPolicy(r) = AfterClaim(r)
      BY <1>4 DEF AfterPolicy, Guarded, Reports
    <2> QED BY <1>4, <2>1, AfterClaimLemma
  <1> QED BY <1>1, <1>2, <1>3, <1>4 DEF Guarded, Reports

LEMMA AfterTransientLemma ==
    ASSUME NEW r \in Handler, NEW e \in Envelope, e = r.env, e.act \notin Reports \cup Bypassed
    PROVE  /\ Follows(AfterTransient(r), r)
           /\ AfterTransient(r).pc = "ack" /\ AfterTransient(r).then \in {"dlq", "retry"}
  <1>1. e.attempt \in Nat /\ MaxAttempts \in Nat
    BY ConstantsAssumption DEF Envelope
  <1>2. CASE e.attempt >= MaxAttempts
    BY <1>2, AckThenLemma DEF AfterTransient, Follows, Fits
  <1>3. CASE ~(e.attempt >= MaxAttempts)
    <2>1. AfterTransient(r) = AckThen(r, "retry") /\ e.attempt < MaxAttempts
      BY <1>1, <1>3 DEF AfterTransient
    <2> QED BY <2>1, AckThenLemma DEF Follows, Fits
  <1> QED BY <1>2, <1>3

LEMMA PolicyHandles == ASSUME HandlingInv, NEW w \in Workers, Policy(w) PROVE HandlingInv'
  <1>1. Busy(w) /\ h[w] \in Handler /\ h[w].then = "done" /\ Act(w) \in Acts
    BY BusyLemma DEF Policy, HandlingInv, At, Busy, Fits
  <1>2. mishaps' \in 0 .. MaxMishaps /\ erred' \subseteq Acts => RestOK'
    BY <1>1 DEF Policy, guards, moderation, effects, arrivals, HandlingInv, TypeOK, RestOK
  <1>3. \A m \in DOMAIN stream' : m \in DOMAIN stream /\ stream'[m] = stream[m]
    BY DEF Policy
  <1>4. PICK r \in {AfterPolicy(h[w]), AckThen(h[w], "done")} : Reply(w, r)
    BY DEF Policy
  <1>5. Follows(r, h[w]) /\ r.pc \notin {"dlq", "retry"}
    BY <1>1, <1>4, AfterPolicyLemma, AckThenLemma DEF Follows, Fits, Act
  <1> QED BY <1>1, <1>2, <1>3, <1>4, <1>5, PlainReply

LEMMA FindCaseHandles == ASSUME HandlingInv, NEW w \in Workers, FindCase(w) PROVE HandlingInv'
  <1>1. Busy(w) /\ h[w] \in Handler /\ h[w].then = "done" /\ Act(w) \in Flags
    BY BusyLemma DEF FindCase, HandlingInv, At, Busy, Fits, Act
  <1>2. \A v \in Workers : At(v, "addCase") => Act(v) \in Flags
    BY DEF HandlingInv, At, Busy, Fits, Act
  <1>3. mishaps' \in 0 .. MaxMishaps /\ erred' \subseteq Acts => RestOK'
    <2>1. raced' \subseteq Flags
      BY <1>2 DEF FindCase, HandlingInv, TypeOK
    <2>2. refused' \subseteq Acts
      BY <1>1, ConstantsAssumption DEF FindCase, HandlingInv, TypeOK
    <2>3. UNCHANGED <<now, stream, dlq, guards, moderation, effects, arrivals, interrupted>>
      BY DEF FindCase
    <2> QED BY <2>1, <2>2, <2>3
            DEF guards, moderation, effects, arrivals, HandlingInv, TypeOK, RestOK
  <1>4. \A m \in DOMAIN stream' : m \in DOMAIN stream /\ stream'[m] = stream[m]
    BY DEF FindCase
  <1>5. PICK r \in {AckThen(h[w], "done"), To(h[w], "addCase")} :
          Reply(w, r) \/ (Go(w, r) /\ erred' = erred /\ mishaps' = mishaps)
    BY DEF FindCase
  <1>6. Follows(r, h[w]) /\ r.pc \notin {"dlq", "retry"}
    BY <1>1, <1>5, AckThenLemma, ToLemma DEF Follows, Fits, Act, Throwing
  <1>7. CASE Reply(w, r)
    BY <1>1, <1>3, <1>4, <1>6, <1>7, PlainReply
  <1>8. CASE Go(w, r) /\ erred' = erred /\ mishaps' = mishaps
    BY <1>1, <1>3, <1>4, <1>6, <1>8, PlainStep DEF HandlingInv, TypeOK
  <1> QED BY <1>5, <1>7, <1>8

LEMMA BumpLemma ==
    ASSUME NEW f \in [Acts -> Few], NEW a \in Acts
    PROVE  /\ Bump(f, a) \in [Acts -> Few]
           /\ Bump(f, a)[a] > 0
           /\ f[a] = 0 => Bump(f, a)[a] = 1
           /\ \A b \in Acts : f[b] <= Bump(f, a)[b] /\ (b # a => Bump(f, a)[b] = f[b])
  BY DEF Bump, Few

LEMMA AddCaseHandles == ASSUME HandlingInv, NEW w \in Workers, AddCase(w) PROVE HandlingInv'
  <1>1. Busy(w) /\ h[w] \in Handler /\ h[w].then = "done" /\ Act(w) \in Flags /\ Act(w) \in Acts
    BY BusyLemma DEF AddCase, HandlingInv, At, Busy, Fits, Act
  <1>2. Bump(cases, Act(w)) \in [Acts -> Few] /\ MaxMishaps \in Nat
    BY <1>1, BumpLemma, ConstantsAssumption DEF HandlingInv, TypeOK
  <1>3. mishaps' \in 0 .. MaxMishaps /\ erred' \subseteq Acts => RestOK'
    BY <1>1, <1>2 DEF AddCase, guards, effects, arrivals, history, HandlingInv, TypeOK, RestOK
  <1>4. \A m \in DOMAIN stream' : m \in DOMAIN stream /\ stream'[m] = stream[m]
    BY DEF AddCase
  <1> DEFINE r == To(h[w], "patchCase")
  <1>5. Follows(r, h[w]) /\ r.pc \notin {"dlq", "retry"}
    BY <1>1, ToLemma DEF Follows, Fits, Act, Throwing
  <1>6. \/ Reply(w, r)
        \/ Go(w, r) /\ mishaps' \in 0 .. MaxMishaps /\ erred' \subseteq Acts
    BY <1>1, <1>2 DEF AddCase, HandlingInv, TypeOK
  <1> HIDE DEF r
  <1> QED BY <1>1, <1>3, <1>4, <1>5, <1>6, PlainReply, PlainStep

LEMMA PatchCaseHandles == ASSUME HandlingInv, NEW w \in Workers, PatchCase(w) PROVE HandlingInv'
  <1>1. Busy(w) /\ h[w] \in Handler /\ Act(w) \in Acts
    BY BusyLemma DEF PatchCase, HandlingInv, At, Busy
  <1>2. mishaps' \in 0 .. MaxMishaps /\ erred' \subseteq Acts => RestOK'
    BY DEF PatchCase, guards, moderation, effects, arrivals, history, HandlingInv, TypeOK, RestOK
  <1>3. \A m \in DOMAIN stream' : m \in DOMAIN stream /\ stream'[m] = stream[m]
    BY DEF PatchCase
  <1>4. Follows(AckThen(h[w], "done"), h[w]) /\ AckThen(h[w], "done").pc = "ack"
    BY <1>1, AckThenLemma DEF Follows, Fits
  <1> QED BY <1>1, <1>2, <1>3, <1>4, PlainReply DEF PatchCase

LEMMA SendEventHandles == ASSUME HandlingInv, NEW w \in Workers, SendEvent(w) PROVE HandlingInv'
  <1>1. Busy(w) /\ h[w] \in Handler /\ h[w].then = "done" /\ Act(w) \in Acts
    BY BusyLemma DEF SendEvent, HandlingInv, At, Busy, Fits
  <1>2. Bump(pods, Act(w)) \in [Acts -> Few]
    BY <1>1, BumpLemma DEF HandlingInv, TypeOK
  <1>3. RestOK' /\ \A m \in DOMAIN stream' : m \in DOMAIN stream /\ stream'[m] = stream[m]
    BY <1>1, <1>2 DEF SendEvent, guards, moderation, arrivals, HandlingInv, TypeOK, RestOK
  <1>4. PICK q \in {Idle, AckThen(h[w], "done")} : Go(w, q)
    BY DEF SendEvent, NotAccepted
  <1>5. Follows(q, h[w]) /\ q.pc \notin {"dlq", "retry"}
    BY <1>1, <1>4, AckThenLemma DEF Follows, Fits, Idle
  <1> QED BY <1>1, <1>3, <1>4, <1>5, PlainStep

LEMMA ClaimHandles == ASSUME HandlingInv, NEW w \in Workers, Claim(w) PROVE HandlingInv'
  <1>1. Busy(w) /\ h[w] \in Handler /\ h[w].then = "done" /\ Act(w) \in Guarded
    BY BusyLemma DEF Claim, HandlingInv, At, Busy, Fits, Act
  <1>2. mishaps' \in 0 .. MaxMishaps /\ erred' \subseteq Acts => RestOK'
    BY <1>1 DEF Claim, guards, moderation, effects, arrivals, history, HandlingInv, TypeOK,
       RestOK, Guarded
  <1>3. \A m \in DOMAIN stream' : m \in DOMAIN stream /\ stream'[m] = stream[m]
    BY DEF Claim
  <1>4. PICK r \in {AfterClaim(h[w]), AckThen(h[w], "done")} : Reply(w, r)
    BY DEF Claim, Duplicate
  <1>5. Follows(r, h[w]) /\ r.pc \notin {"dlq", "retry"}
    BY <1>1, <1>4, AfterClaimLemma, AckThenLemma DEF Follows, Fits, Act, Guarded, Reports
  <1> QED BY <1>1, <1>2, <1>3, <1>4, <1>5, PlainReply

LEMMA BoostHandles == ASSUME HandlingInv, NEW w \in Workers, Boost(w) PROVE HandlingInv'
  <1>1. Busy(w) /\ h[w] \in Handler /\ h[w].then = "done" /\ Act(w) \in Boosts /\ Act(w) \in Acts
    BY BusyLemma DEF Boost, HandlingInv, At, Busy, Fits, Act
  <1>2. mishaps' \in 0 .. MaxMishaps /\ erred' \subseteq Acts => RestOK'
    BY DEF Boost, moderation, effects, arrivals, history, HandlingInv, TypeOK, RestOK
  <1>3. \A m \in DOMAIN stream' : m \in DOMAIN stream /\ stream'[m] = stream[m]
    BY DEF Boost
  <1>4. PICK r \in {Route(h[w]), AckThen(h[w], "done")} : Reply(w, r)
    BY DEF Boost, Duplicate
  <1>5. Follows(r, h[w]) /\ r.pc \notin {"dlq", "retry"}
    BY <1>1, <1>4, RouteLemma, AckThenLemma, ConstantsAssumption DEF Follows, Fits, Act, Reports
  <1> QED BY <1>1, <1>2, <1>3, <1>4, <1>5, PlainReply

LEMMA ForwardHandles == ASSUME HandlingInv, NEW w \in Workers, Forward(w) PROVE HandlingInv'
  <1>1. /\ Busy(w) /\ h[w] \in Handler /\ h[w].env \in Envelope
        /\ Act(w) \in Acts /\ Act(w) \notin Reports \cup Bypassed
        /\ h[w].then = "done"
    BY BusyLemma DEF Forward, HandlingInv, At, Busy, Fits, Act
  <1>2. Bump(pods, Act(w)) \in [Acts -> Few]
    BY <1>1, BumpLemma DEF HandlingInv, TypeOK
  <1>3. RestOK' /\ \A m \in DOMAIN stream' : m \in DOMAIN stream /\ stream'[m] = stream[m]
    BY <1>1, <1>2 DEF Forward, guards, moderation, arrivals, history, HandlingInv, TypeOK, RestOK
  <1>4. PICK q \in {To(h[w], "publish"), AfterTransient(h[w]), AckThen(h[w], "dlq")} : Go(w, q)
    BY DEF Forward
  <1>5. Follows(q, h[w]) /\ q.pc \notin {"dlq", "retry"}
    <2>1. CASE q = To(h[w], "publish")
      BY <1>1, <2>1, ToLemma DEF Follows, Fits, Act
    <2>2. CASE q = AfterTransient(h[w])
      BY <1>1, <2>2, AfterTransientLemma DEF Act
    <2>3. CASE q = AckThen(h[w], "dlq")
      BY <1>1, <2>3, AckThenLemma DEF Follows, Fits
    <2> QED BY <1>4, <2>1, <2>2, <2>3
  <1> QED BY <1>1, <1>3, <1>4, <1>5, PlainStep

LEMMA PublishHandles == ASSUME HandlingInv, NEW w \in Workers, Publish(w) PROVE HandlingInv'
  <1>1. Busy(w) /\ h[w] \in Handler /\ Act(w) \in Acts
    BY BusyLemma DEF Publish, HandlingInv, At, Busy
  <1>2. Bump(emitted, Act(w)) \in [Acts -> Few]
    BY <1>1, BumpLemma DEF HandlingInv, TypeOK
  <1>3. RestOK' /\ \A m \in DOMAIN stream' : m \in DOMAIN stream /\ stream'[m] = stream[m]
    BY <1>1, <1>2 DEF Publish, guards, moderation, arrivals, history, HandlingInv, TypeOK, RestOK
  <1>4. PICK q \in {Idle, AckThen(h[w], "done")} : Go(w, q)
    BY DEF Publish
  <1>5. Follows(q, h[w]) /\ q.pc \notin {"dlq", "retry"}
    BY <1>1, <1>4, AckThenLemma DEF Follows, Fits, Idle
  <1> QED BY <1>1, <1>3, <1>4, <1>5, PlainStep

LEMMA AckHandles == ASSUME HandlingInv, NEW w \in Workers, Ack(w) PROVE HandlingInv'
  <1>1. Busy(w) /\ h[w] \in Handler /\ Fits(h[w]) /\ Act(w) \in Acts
    BY BusyLemma DEF Ack, HandlingInv, Busy
  <1>2. \A m \in DOMAIN stream' : m \in DOMAIN stream /\ stream'[m] = stream[m] /\ m # h[w].msg
    BY DEF Ack, HandlingInv, TypeOK
  <1>3. DOMAIN stream' \subseteq MsgIds /\ stream' \in [DOMAIN stream' -> Envelope]
    BY DEF Ack, HandlingInv, TypeOK
  <1>4. mishaps' \in 0 .. MaxMishaps /\ erred' \subseteq Acts => RestOK'
    BY <1>3 DEF Ack, guards, moderation, effects, arrivals, history, HandlingInv, TypeOK, RestOK
  <1> DEFINE r == IF h[w].then = "done" THEN Idle ELSE To(h[w], h[w].then)
  <1>5. Reply(w, r)
    BY DEF Ack
  <1>6. Follows(r, h[w])
    <2>1. CASE h[w].then = "done"
      BY <2>1 DEF Follows
    <2>2. CASE h[w].then # "done"
      <3>1. h[w].then \in {"dlq", "retry", "publish"}
        BY <1>1, <2>2 DEF Handler
      <3>2. /\ r \in Handler /\ r.pc = h[w].then /\ r.then = h[w].then
            /\ r.msg = h[w].msg /\ r.env = h[w].env
        BY <1>1, <2>2, <3>1, ToLemma DEF Throwing
      <3>3. r.env.act \in Bypassed => r.env.act \notin Reports
        BY ConstantsAssumption DEF Reports
      <3> HIDE DEF r
      <3>4. Fits(r)
        BY <1>1, <3>1, <3>2, <3>3 DEF Fits
      <3> QED BY <3>2, <3>4 DEF Follows
    <2> QED BY <2>1, <2>2
  <1> HIDE DEF r
  <1> QED BY <1>1, <1>2, <1>4, <1>5, <1>6, PlainReply

LEMMA MoveToDlqHandles == ASSUME HandlingInv, NEW w \in Workers, MoveToDlq(w) PROVE HandlingInv'
  <1>1. Busy(w) /\ Act(w) \in Acts
    BY BusyLemma DEF MoveToDlq, HandlingInv, At, Busy
  <1>2. mishaps' \in 0 .. MaxMishaps /\ erred' \subseteq Acts => RestOK'
    BY <1>1 DEF MoveToDlq, guards, moderation, effects, arrivals, history, HandlingInv, TypeOK, RestOK
  <1>3. Follows(Idle, h[w]) /\ Idle.pc = "idle"
    BY DEF Follows, Idle
  <1>4. Reply(w, Idle) /\ stream' = stream
    BY DEF MoveToDlq
  <1> QED BY <1>1, <1>2, <1>3, <1>4, PlainReply

LEMMA LaterLemma == now \in 0 .. MaxTime => Later(Backoff) \in 0 .. MaxTime
  BY ConstantsAssumption DEF Later

LEMMA RetryHandles == ASSUME HandlingInv, NEW w \in Workers, Retry(w) PROVE HandlingInv'
  <1>1. Busy(w) /\ h[w].env \in Envelope /\ h[w].env.attempt < MaxAttempts
    BY BusyLemma DEF Retry, HandlingInv, At, Busy, Fits
  <1> DEFINE e == [h[w].env EXCEPT !.attempt = @ + 1, !.notBefore = Later(Backoff)]
  <1>2. e \in Envelope /\ EnqueueInbound(e)
    <2>1. Later(Backoff) \in 0 .. MaxTime
      BY LaterLemma DEF HandlingInv, TypeOK
    <2>2. h[w].env.attempt + 1 \in 0 .. MaxAttempts
      BY <1>1, ConstantsAssumption DEF Envelope
    <2>3. e \in Envelope
      BY <1>1, <2>1, <2>2 DEF Envelope
    <2> QED BY <2>3 DEF Retry
  <1> HIDE DEF e
  <1>3. mishaps' \in 0 .. MaxMishaps /\ erred' \subseteq Acts => RestOK'
    BY <1>2, EnqueueLemma DEF Retry, guards, moderation, effects, arrivals, history,
       HandlingInv, TypeOK, RestOK
  <1>4. Reply(w, Idle) /\ StreamKept
    BY <1>2, EnqueueLemma DEF Retry, HandlingInv
  <1>5. Follows(Idle, h[w]) /\ Idle.pc = "idle"
    BY DEF Follows, Idle
  <1> QED BY <1>1, <1>3, <1>4, <1>5, EnqueueReply

LEMMA CallFailsHandles == ASSUME HandlingInv, NEW w \in Workers, CallFails(w) PROVE HandlingInv'
  <1>1. Busy(w) /\ h[w] \in Handler /\ Fits(h[w]) /\ Act(w) \in Acts
    BY BusyLemma DEF CallFails, HandlingInv, Busy, Throwing
  <1> DEFINE t == Thrown(h[w])
  <1>2. Follows(t, h[w]) /\ t.pc \notin {"dlq", "retry"}
    BY <1>1, ThrownLemma DEF Renounces, Idle
  <1>3. Go(w, t)
    BY DEF CallFails
  <1> HIDE DEF t
  <1>4. RestOK' /\ stream' = stream
    BY <1>1, ConstantsAssumption DEF CallFails, guards, moderation, effects, arrivals, history,
       HandlingInv, TypeOK, RestOK
  <1> QED BY <1>1, <1>2, <1>3, <1>4, PlainStep

LEMMA ReceiveHandles ==
    ASSUME HandlingInv, NEW w \in Workers, NEW m \in MsgIds, Receive(w, m)
    PROVE  HandlingInv'
  <1>0. PICK q :
          q = [pc |-> IF stream[m].notBefore > now THEN "requeue" ELSE "screen",
               msg |-> m, env |-> stream[m], then |-> "done"]
    OBVIOUS
  <1>1. m \in DOMAIN stream /\ stream[m] \in Envelope /\ Go(w, q)
    BY <1>0 DEF Receive, HandlingInv, TypeOK
  <1>2. /\ q \in Handler /\ q.pc \in {"requeue", "screen"} /\ q.then = "done"
        /\ q.msg = m /\ q.env = stream[m]
    BY <1>0, <1>1 DEF Handler, Throwing
  <1>3. RestOK' /\ StreamKept /\ stream' = stream
    BY DEF Receive, guards, moderation, effects, arrivals, history, HandlingInv, TypeOK, RestOK,
       StreamKept
  <1>4. Fits(q) /\ OwnEntry(q)'
    BY <1>2, <1>3 DEF Fits, OwnEntry
  <1> QED BY <1>1, <1>2, <1>3, <1>4, HandlingStep

\* The handlers stay where they are.
LEMMA StandStill ==
    ASSUME HandlingInv, h' = h, RestOK', StreamKept
    PROVE  HandlingInv'
  <1>1. ASSUME NEW v \in Workers, Busy(v) PROVE OwnEntry(h[v])'
    BY <1>1, FreshLemma DEF HandlingInv, OwnEntry, StreamKept
  <1> QED BY <1>1 DEF HandlingInv, RestOK, TypeOK, Busy, Fits

LEMMA DeliverHandles == ASSUME HandlingInv, NEW a \in Acts, Deliver(a) PROVE HandlingInv'
  <1> DEFINE e == [act |-> a, attempt |-> 0, notBefore |-> 0]
  <1>1. e \in Envelope /\ EnqueueInbound(e)
    BY ConstantsAssumption DEF Deliver, Envelope
  <1> HIDE DEF e
  <1>2. deliveries' \in 0 .. MaxDeliveries
    BY ConstantsAssumption DEF Deliver, HandlingInv, TypeOK
  <1>3. RestOK' /\ StreamKept /\ h' = h
    BY <1>1, <1>2, EnqueueLemma DEF Deliver, guards, moderation, effects, history, HandlingInv,
       TypeOK, RestOK
  <1> QED BY <1>3, StandStill

LEMMA TickHandles == ASSUME HandlingInv, Tick PROVE HandlingInv'
  <1>1. now' \in 0 .. MaxTime
    BY ConstantsAssumption DEF Tick, HandlingInv, TypeOK
  <1> QED BY <1>1, StandStill DEF Tick, guards, moderation, effects, arrivals, history,
             HandlingInv, TypeOK, RestOK, StreamKept

LEMMA CrashHandles == ASSUME HandlingInv, Crash PROVE HandlingInv'
  <1>1. PICK W \in SUBSET {w \in Workers : Busy(w)} :
          /\ h' = [w \in Workers |-> IF w \in W THEN Idle ELSE h[w]]
          /\ interrupted' = interrupted \cup {Act(w) : w \in {v \in W : PastAck(v)}}
    BY DEF Crash
  <1>2. interrupted' \subseteq Acts
    BY <1>1, BusyLemma DEF HandlingInv, TypeOK
  <1>3. RestOK'
    BY <1>2, ConstantsAssumption DEF Crash, guards, moderation, effects, arrivals, HandlingInv,
       TypeOK, RestOK
  <1>4. TypeOK'
    BY <1>1, <1>3 DEF HandlingInv, TypeOK, RestOK
  <1>5. ASSUME NEW v \in Workers, Busy(v)' PROVE h'[v] = h[v] /\ Busy(v)
    BY <1>1, <1>5 DEF Busy, Idle
  <1>6. stream' = stream
    BY DEF Crash
  <1>7. ASSUME NEW v \in Workers, Busy(v)' PROVE Fits(h[v])' /\ OwnEntry(h[v])'
    <2>1. h'[v] = h[v] /\ Fits(h[v]) /\ OwnEntry(h[v])
      BY <1>5, <1>7 DEF HandlingInv
    <2> QED BY <1>6, <2>1 DEF Fits, OwnEntry
  <1> QED BY <1>4, <1>7 DEF HandlingInv

LEMMA ProcessHandles == ASSUME HandlingInv, NEW w \in Workers, Process(w) PROVE HandlingInv'
  BY RequeueHandles, ScreenHandles, PolicyHandles, FindCaseHandles, AddCaseHandles,
     PatchCaseHandles, SendEventHandles, ClaimHandles, BoostHandles, ForwardHandles,
     PublishHandles, AckHandles, MoveToDlqHandles, RetryHandles
  DEF Process

LEMMA InitHandles == Init => HandlingInv
  <1> SUFFICES ASSUME Init PROVE HandlingInv
    OBVIOUS
  <1>1. DOMAIN stream = {} /\ stream \in [DOMAIN stream -> Envelope]
    BY DEF Init
  <1>2. \A w \in Workers : h[w] = Idle /\ ~Busy(w)
    BY DEF Init, Busy, Idle
  <1>3. now \in 0 .. MaxTime /\ deliveries \in 0 .. MaxDeliveries /\ mishaps \in 0 .. MaxMishaps
    BY ConstantsAssumption DEF Init
  <1>4. h \in [Workers -> Handler \cup {Idle}]
    BY DEF Init
  <1>5. cases \in [Acts -> Few] /\ pods \in [Acts -> Few] /\ emitted \in [Acts -> Few]
    BY DEF Init, Few
  <1>6. /\ DOMAIN stream \subseteq MsgIds
        /\ dlq \subseteq Acts /\ claimed \subseteq {IdOf[a] : a \in Guarded} /\ boosted \in BOOLEAN
        /\ caseKeys \subseteq Flags /\ delivered \subseteq Acts /\ refused \subseteq Acts
        /\ erred \subseteq Acts /\ interrupted \subseteq Acts /\ raced \subseteq Flags
    BY <1>1 DEF Init
  <1>7. TypeOK
    BY <1>1, <1>3, <1>4, <1>5, <1>6 DEF TypeOK
  <1> QED BY <1>2, <1>7 DEF HandlingInv

\* A running handler is at a stage its activity may be at, and the entry it
\* works on is its own, through redelivery, overlap and crashes.
THEOREM HandlingInvariant == Spec => []HandlingInv
  <1>1. ASSUME HandlingInv, [Next]_vars PROVE HandlingInv'
    <2>1. CASE UNCHANGED vars
      BY <1>1, <2>1, StandStill DEF vars, guards, moderation, effects, arrivals, history,
         HandlingInv, TypeOK, RestOK, StreamKept
    <2> QED BY <1>1, <2>1, DeliverHandles, ProcessHandles, CallFailsHandles, ReceiveHandles,
               TickHandles, CrashHandles DEF Next
  <1> QED BY InitHandles, <1>1, PTL DEF Spec

\* Every variable of the inbound side keeps its type; in particular no retry
\* is written for an activity that has used up MAX_INBOUND_ATTEMPTS.
THEOREM TypeCorrect == Spec => []TypeOK
  BY HandlingInvariant, PTL DEF HandlingInv

-----------------------------------------------------------------------------
\* Nothing delivered is lost

\* No step undoes what was recorded of an activity.
NothingUndone ==
    /\ dlq \subseteq dlq' /\ claimed \subseteq claimed' /\ refused \subseteq refused'
    /\ erred \subseteq erred' /\ interrupted \subseteq interrupted'
    /\ boosted => boosted'
    /\ \A a \in Acts : cases[a] <= cases'[a] /\ pods[a] <= pods'[a]

LEMMA SettledLemma ==
    ASSUME HandlingInv, HandlingInv', NothingUndone, NEW a \in Acts, Settled(a)
    PROVE  Settled(a)'
  <1>1. cases[a] \in Nat /\ cases'[a] \in Nat /\ pods[a] \in Nat /\ pods'[a] \in Nat
    BY DEF HandlingInv, TypeOK, Few
  <1>2. Recorded(a) => Recorded(a)'
    BY <1>1 DEF Recorded, NothingUndone
  <1> QED BY <1>2 DEF Settled, Claimed, NothingUndone

LEMMA ProcessUndoesNothing ==
    ASSUME HandlingInv, NEW w \in Workers, Process(w) PROVE NothingUndone
  <1>1. Busy(w) /\ Act(w) \in Acts
    <2>1. Busy(w)
      BY DEF Process, Requeue, Screen, Policy, FindCase, AddCase, PatchCase, SendEvent, Claim,
         Boost, Forward, Publish, Ack, MoveToDlq, Retry, At, Busy
    <2> QED BY <2>1, BusyLemma DEF HandlingInv
  <1>2. \A r : Reply(w, r) => erred \subseteq erred'
    BY DEF Reply
  <1>3. \A f \in [Acts -> Few] : \A a \in Acts : f[a] <= f[a] /\ f[a] <= Bump(f, Act(w))[a]
    BY <1>1, BumpLemma DEF Few
  <1>4. cases \in [Acts -> Few] /\ pods \in [Acts -> Few]
    BY DEF HandlingInv, TypeOK
  <1>5. /\ pods' = pods \/ pods' = Bump(pods, Act(w))
        /\ cases' = cases \/ cases' = Bump(cases, Act(w))
    BY DEF Process, Requeue, Screen, Policy, FindCase, AddCase, PatchCase, SendEvent, Claim,
       Boost, Forward, Publish, Ack, MoveToDlq, Retry, moderation, effects
  <1>6. /\ dlq \subseteq dlq' /\ claimed \subseteq claimed' /\ refused \subseteq refused'
        /\ interrupted \subseteq interrupted' /\ (boosted => boosted')
    BY DEF Process, Requeue, Screen, Policy, FindCase, AddCase, PatchCase, SendEvent, Claim,
       Boost, Forward, Publish, Ack, MoveToDlq, Retry, guards, history
  <1>7. erred \subseteq erred'
    <2>1. CASE Screen(w) \/ SendEvent(w) \/ Forward(w) \/ Publish(w)
      BY <2>1 DEF Screen, SendEvent, Forward, Publish
    <2>2. CASE AddCase(w)
      BY <1>2, <2>2 DEF AddCase
    <2>3. CASE ~(Screen(w) \/ SendEvent(w) \/ Forward(w) \/ Publish(w) \/ AddCase(w))
      BY <1>2, <2>3 DEF Process, Requeue, Policy, FindCase, PatchCase, Claim, Boost, Ack,
         MoveToDlq, Retry
    <2> QED BY <2>1, <2>2, <2>3
  <1>8. \A a \in Acts : cases[a] <= cases'[a] /\ pods[a] <= pods'[a]
    BY <1>3, <1>4, <1>5
  <1> QED BY <1>6, <1>7, <1>8 DEF NothingUndone

LEMMA NextUndoesNothing == ASSUME HandlingInv, [Next]_vars PROVE NothingUndone
  <1>1. \A a \in Acts : cases[a] <= cases[a] /\ pods[a] <= pods[a]
    BY DEF HandlingInv, TypeOK, Few
  <1>2. ASSUME NEW w \in Workers, CallFails(w) PROVE NothingUndone
    BY <1>1, <1>2 DEF CallFails, guards, moderation, effects, history, NothingUndone
  <1>4. ASSUME NEW w \in Workers, NEW m \in MsgIds, Receive(w, m) PROVE NothingUndone
    BY <1>1, <1>4 DEF Receive, guards, moderation, effects, history, NothingUndone
  <1>3. ASSUME NEW a \in Acts, Deliver(a) PROVE NothingUndone
    BY <1>1, <1>3 DEF Deliver, guards, moderation, effects, history, NothingUndone
  <1>5. CASE Tick
    BY <1>1, <1>5 DEF Tick, guards, moderation, effects, history, NothingUndone
  <1>6. CASE Crash
    BY <1>1, <1>6 DEF Crash, guards, moderation, effects, NothingUndone
  <1>7. CASE UNCHANGED vars
    BY <1>1, <1>7 DEF vars, guards, moderation, effects, history, NothingUndone
  <1> QED BY <1>2, <1>3, <1>4, <1>5, <1>6, <1>7, ProcessUndoesNothing DEF Next

\* Why a step of w to q leaves its activity a to somebody.
HandsOn(w, a, q) ==
    \/ Settled(a)' \/ a \in Bypassed \cap Anonymous
    \/ ~Renounces(q) /\ h[w].pc \notin {"dlq", "retry"} /\ stream' = stream
    \/ Renounces(h[w])
    \/ q.pc \in {"dlq", "retry"}
    \/ \E m \in FreshIds : m \in DOMAIN stream' /\ stream'[m].act = a

LEMMA CarriedStep ==
    ASSUME HandlingInv, HandlingInv', CarriedInv, NothingUndone,
           NEW w \in Workers, Busy(w), NEW q, Go(w, q), Follows(q, h[w]),
           NEW c, c = Act(w), HandsOn(w, c, q), q # Idle => Excused(q)',
           \A m \in DOMAIN stream : m # h[w].msg => m \in DOMAIN stream' /\ stream'[m] = stream[m],
           delivered' = delivered, interrupted' = interrupted,
           \A a \in caseKeys' : a \in caseKeys \/ cases'[a] > 0
    PROVE  CarriedInv'
  <1>1. h'[w] = q /\ \A v \in Workers : v # w => h'[v] = h[v]
    BY GoLemma DEF HandlingInv
  <1>2. \A a \in Acts : Settled(a) => Settled(a)'
    BY SettledLemma
  <1>3. ASSUME NEW v \in Workers, Busy(v)' PROVE Excused(h[v])'
    <2>1. CASE v = w
      BY <1>1, <1>3, <2>1 DEF Busy, Idle, Excused
    <2>2. CASE v # w
      <3>1. h'[v] = h[v] /\ Excused(h[v]) /\ h[v].env.act \in Acts
        BY <1>1, <1>3, <2>2, BusyLemma DEF Busy, CarriedInv, HandlingInv, Act
      <3> QED BY <1>2, <3>1 DEF Excused, NothingUndone
    <2> QED BY <2>1, <2>2
  <1>4. ASSUME NEW a \in caseKeys' PROVE cases'[a] > 0
    <2>1. CASE a \in caseKeys
      <3>1. cases[a] > 0 /\ a \in Acts /\ cases[a] \in Nat /\ cases'[a] \in Nat
        BY <2>1, ConstantsAssumption DEF CarriedInv, HandlingInv, TypeOK, Few
      <3> QED BY <3>1 DEF NothingUndone
    <2> QED BY <2>1
  <1>5. interrupted' \cap Reports \subseteq refused'
    BY DEF CarriedInv, NothingUndone
  <1>6. ASSUME NEW b \in delivered' \ (Bypassed \cap Anonymous), ~Settled(b)'
        PROVE  Carried(b)'
    <2>1. b \in Acts /\ ~Settled(b) /\ Carried(b)
      BY <1>2, <1>6 DEF CarriedInv, HandlingInv, TypeOK
    <2>2. CASE b # c
      <3>1. ASSUME NEW m \in DOMAIN stream, stream[m].act = b, Live(m)
            PROVE  m \in DOMAIN stream' /\ stream'[m].act = b /\ Live(m)'
        <4>1. m # h[w].msg
          BY <2>2, <3>1 DEF HandlingInv, OwnEntry, Act
        <4>2. ASSUME NEW v \in Workers, Renounces(h'[v]) PROVE h'[v].msg # m
          BY <1>1, <3>1, <4>1, <4>2 DEF Live, Follows, Renounces, Idle
        <4> QED BY <3>1, <4>1, <4>2 DEF Live
      <3>2. ASSUME NEW v \in Workers, h[v].pc \in {"dlq", "retry"}, Act(v) = b
            PROVE  h'[v].pc \in {"dlq", "retry"} /\ Act(v)' = b
        BY <1>1, <2>2, <3>2 DEF Act
      <3> QED BY <2>1, <3>1, <3>2 DEF Carried
    <2>3. CASE b = c
      <3>1. CASE \E m \in FreshIds : m \in DOMAIN stream' /\ stream'[m].act = b
        <4>1. PICK m \in FreshIds : m \in DOMAIN stream' /\ stream'[m].act = b
          BY <3>1
        <4>2. ASSUME NEW v \in Workers, Renounces(h'[v]) PROVE h'[v].msg # m
          <5>1. Busy(v) /\ h'[v].msg = h[v].msg
            BY <1>1, <4>2 DEF Renounces, Busy, Follows, Idle
          <5> QED BY <5>1, FreshLemma
        <4> QED BY <4>1, <4>2 DEF Carried, Live
      <3>2. CASE q.pc \in {"dlq", "retry"}
        <4>1. Act(w)' = b
          BY <1>1, <2>3, <3>2 DEF Act, Follows, Idle
        <4> QED BY <1>1, <3>2, <4>1 DEF Carried
      <3>3. ASSUME h[w].pc \notin {"dlq", "retry"},
                   \A m \in DOMAIN stream : Live(m) =>
                      /\ m \in DOMAIN stream' /\ stream'[m] = stream[m]
                      /\ Renounces(q) => q.msg # m
            PROVE  Carried(b)'
        <4>1. ASSUME NEW m \in DOMAIN stream, stream[m].act = b, Live(m)
              PROVE  m \in DOMAIN stream' /\ stream'[m].act = b /\ Live(m)'
          BY <1>1, <3>3, <4>1 DEF Live
        <4>2. ASSUME NEW v \in Workers, h[v].pc \in {"dlq", "retry"}, Act(v) = b
              PROVE  h'[v].pc \in {"dlq", "retry"} /\ Act(v)' = b
          BY <1>1, <3>3, <4>2 DEF Act
        <4> QED BY <2>1, <4>1, <4>2 DEF Carried
      <3>4. CASE Renounces(h[w])
        <4>1. h[w].pc \notin {"dlq", "retry"}
          BY <3>4 DEF Renounces
        <4>2. ASSUME NEW m \in DOMAIN stream, Live(m)
              PROVE  /\ m \in DOMAIN stream' /\ stream'[m] = stream[m]
                     /\ Renounces(q) => q.msg # m
          BY <3>4, <4>2 DEF Live, Follows, Renounces, Idle
        <4> QED BY <3>3, <4>1, <4>2
      <3>5. CASE ~Renounces(q) /\ h[w].pc \notin {"dlq", "retry"} /\ stream' = stream
        BY <3>3, <3>5
      <3>6. b \notin Bypassed \cap Anonymous /\ ~Settled(b)'
        BY <1>6
      <3> QED BY <2>3, <3>1, <3>2, <3>4, <3>5, <3>6 DEF HandsOn
    <2> QED BY <2>2, <2>3
  <1> QED BY <1>3, <1>4, <1>5, <1>6 DEF CarriedInv

\* A call that took effect, answered or not.
LEMMA CarriedReply ==
    ASSUME HandlingInv, HandlingInv', CarriedInv, NothingUndone,
           NEW w \in Workers, Busy(w), NEW r, Reply(w, r), Follows(r, h[w]),
           NEW c, c = Act(w), HandsOn(w, c, r), r # Idle => Excused(r)',
           \A m \in DOMAIN stream : m # h[w].msg => m \in DOMAIN stream' /\ stream'[m] = stream[m],
           delivered' = delivered, interrupted' = interrupted,
           \A a \in caseKeys' : a \in caseKeys \/ cases'[a] > 0
    PROVE  CarriedInv'
  <1>1. h[w] \in Handler /\ Fits(h[w]) /\ TypeOK
    BY BusyLemma DEF HandlingInv
  <1>2. PICK t : t = Thrown(h[w])
    OBVIOUS
  <1>3. Follows(t, h[w]) /\ (t # Idle => Renounces(t))
    BY <1>1, <1>2, ThrownLemma
  <1>4. \/ Go(w, r)
        \/ Go(w, t) /\ c \in erred'
    BY <1>1, <1>2, ReplyLemma
  <1>5. ASSUME c \in erred' PROVE HandsOn(w, c, t) /\ (t # Idle => Excused(t)')
    <2>1. Settled(c)'
      BY <1>5 DEF Settled
    <2> QED BY <2>1, <1>3 DEF HandsOn, Excused, Renounces, Act, Follows
  <1> QED BY <1>3, <1>4, <1>5, CarriedStep

LEMMA RequeueCarries ==
    ASSUME HandlingInv, HandlingInv', CarriedInv, NothingUndone, NEW w \in Workers, Requeue(w)
    PROVE  CarriedInv'
  <1>1. Busy(w) /\ h[w] \in Handler /\ h[w].env \in Envelope /\ Fits(h[w]) /\ Excused(h[w])
    BY BusyLemma DEF Requeue, HandlingInv, CarriedInv, At, Busy
  <1>2. PICK c \in Acts : c = Act(w) /\ c = h[w].env.act
    BY <1>1, BusyLemma DEF HandlingInv, Act
  <1>3. /\ delivered' = delivered /\ interrupted' = interrupted /\ caseKeys' = caseKeys
        /\ \A m \in DOMAIN stream : m \in DOMAIN stream' /\ stream'[m] = stream[m]
        /\ \E m \in FreshIds : m \in DOMAIN stream' /\ stream'[m].act = c
    BY <1>1, <1>2, EnqueueLemma DEF Requeue, moderation, arrivals, history, HandlingInv
  <1>4. PICK r : r = AckThen(h[w], "done") /\ Reply(w, r)
    BY DEF Requeue
  <1>5. Follows(r, h[w]) /\ HandsOn(w, c, r) /\ Excused(r)'
    BY <1>1, <1>3, <1>4, AckThenLemma DEF Follows, Fits, HandsOn, Excused
  <1> QED BY <1>1, <1>2, <1>3, <1>4, <1>5, CarriedReply

LEMMA ScreenCarries ==
    ASSUME HandlingInv, HandlingInv', CarriedInv, NothingUndone, NEW w \in Workers, Screen(w)
    PROVE  CarriedInv'
  <1>1. Busy(w) /\ h[w] \in Handler /\ h[w].env \in Envelope /\ Fits(h[w]) /\ Excused(h[w])
    BY BusyLemma DEF Screen, HandlingInv, CarriedInv, At, Busy
  <1>2. PICK c \in Acts : c = Act(w) /\ c = h[w].env.act
    BY <1>1, BusyLemma DEF HandlingInv, Act
  <1>3. /\ stream' = stream /\ delivered' = delivered /\ interrupted' = interrupted
        /\ caseKeys' = caseKeys
    BY DEF Screen, moderation, arrivals, history
  <1>4. PICK q : \/ q = To(h[w], "policy") /\ Go(w, q)
                 \/ q = AckThen(h[w], "dlq") /\ Go(w, q) /\ c \in refused'
                 \/ q = Thrown(h[w]) /\ Go(w, q) /\ c \in refused'
    BY <1>2 DEF Screen
  <1>5. h[w].pc = "screen" /\ h[w].then = "done"
    BY <1>1 DEF Screen, At, Fits
  <1>6. CASE q = To(h[w], "policy")
    <2>1. Follows(q, h[w]) /\ q.pc = "policy" /\ q.then = "done"
      BY <1>1, <1>5, <1>6, ToLemma DEF Follows, Fits, Throwing
    <2>2. HandsOn(w, c, q) /\ Excused(q)'
      BY <1>3, <1>5, <2>1 DEF HandsOn, Excused, Renounces
    <2> QED BY <1>1, <1>2, <1>3, <1>4, <2>1, <2>2, CarriedStep
  <1>7. CASE q = AckThen(h[w], "dlq") /\ c \in refused'
    <2>1. Follows(q, h[w]) /\ q.pc = "ack" /\ q.then = "dlq" /\ q.env.act = c
      BY <1>1, <1>2, <1>7, AckThenLemma DEF Follows, Fits
    <2>2. HandsOn(w, c, q) /\ Excused(q)'
      BY <1>7, <2>1 DEF HandsOn, Excused, Settled
    <2> QED BY <1>1, <1>2, <1>3, <1>4, <2>1, <2>2, CarriedStep
  <1>8. CASE q = Thrown(h[w]) /\ c \in refused'
    <2>1. Follows(q, h[w]) /\ (q # Idle => Renounces(q))
      BY <1>1, <1>8, ThrownLemma
    <2>2. Settled(c)'
      BY <1>8 DEF Settled
    <2>3. HandsOn(w, c, q) /\ (q # Idle => Excused(q)')
      BY <2>1, <2>2 DEF HandsOn, Excused, Renounces
    <2> QED BY <1>1, <1>2, <1>3, <1>4, <2>1, <2>3, CarriedStep
  <1> QED BY <1>4, <1>6, <1>7, <1>8

LEMMA PolicyCarries ==
    ASSUME HandlingInv, HandlingInv', CarriedInv, NothingUndone, NEW w \in Workers, Policy(w)
    PROVE  CarriedInv'
  <1>1. Busy(w) /\ h[w] \in Handler /\ h[w].env \in Envelope /\ Fits(h[w]) /\ Excused(h[w])
    BY BusyLemma DEF Policy, HandlingInv, CarriedInv, At, Busy
  <1>2. PICK c \in Acts : c = Act(w) /\ c = h[w].env.act
    BY <1>1, BusyLemma DEF HandlingInv, Act
  <1>3. /\ stream' = stream /\ delivered' = delivered /\ interrupted' = interrupted
        /\ caseKeys' = caseKeys
    BY DEF Policy, moderation, arrivals, history
  <1>4. PICK r : \/ r = AfterPolicy(h[w]) /\ Reply(w, r)
                 \/ r = AckThen(h[w], "done") /\ Reply(w, r) /\ c \in refused'
    BY <1>2 DEF Policy
  <1>5. h[w].pc = "policy" /\ h[w].then = "done"
    BY <1>1 DEF Policy, At, Fits
  <1>6. CASE r = AfterPolicy(h[w])
    <2>1. Follows(r, h[w]) /\ r # Idle /\ ~Renounces(r)
      BY <1>1, <1>2, <1>5, <1>6, AfterPolicyLemma, AfterClaimLemma DEF Renounces, Reports, Idle
    <2>2. r.then = "done" \/ (r.then = "publish" /\ c \in Anonymous)
      BY <1>1, <1>2, <1>5, <1>6, <2>1, AfterPolicyLemma, AfterClaimLemma DEF Follows, Fits, Reports
    <2>3. r.pc \notin {"patchCase", "publish"} /\ r.env.act = c
      BY <1>1, <1>2, <1>5, <1>6, <2>1, AfterPolicyLemma DEF Follows
    <2>4. HandsOn(w, c, r) /\ Excused(r)'
      BY <1>3, <1>5, <2>1, <2>2, <2>3 DEF HandsOn, Excused
    <2> QED BY <1>1, <1>2, <1>3, <1>4, <1>6, <2>1, <2>4, CarriedReply
  <1>7. CASE r = AckThen(h[w], "done") /\ c \in refused'
    <2>1. Follows(r, h[w]) /\ r.pc = "ack" /\ r.then = "done"
      BY <1>1, <1>7, AckThenLemma DEF Follows, Fits
    <2>2. HandsOn(w, c, r) /\ Excused(r)'
      BY <1>7, <2>1 DEF HandsOn, Excused, Settled
    <2> QED BY <1>1, <1>2, <1>3, <1>4, <2>1, <2>2, CarriedReply
  <1> QED BY <1>4, <1>6, <1>7

LEMMA FindCaseCarries ==
    ASSUME HandlingInv, HandlingInv', CarriedInv, NothingUndone, NEW w \in Workers, FindCase(w)
    PROVE  CarriedInv'
  <1>1. Busy(w) /\ h[w] \in Handler /\ h[w].env \in Envelope /\ Fits(h[w]) /\ Excused(h[w])
    BY BusyLemma DEF FindCase, HandlingInv, CarriedInv, At, Busy
  <1>2. PICK c \in Acts : c = Act(w) /\ c = h[w].env.act
    BY <1>1, BusyLemma DEF HandlingInv, Act
  <1>3. /\ stream' = stream /\ delivered' = delivered /\ interrupted' = interrupted
        /\ caseKeys' = caseKeys
    BY DEF FindCase, moderation, arrivals, history
  <1>4. PICK r : \/ r = To(h[w], "addCase") /\ Reply(w, r)
                 \/ r = AckThen(h[w], "done") /\ Reply(w, r) /\ c \in caseKeys
                 \/ r = AckThen(h[w], "done") /\ Go(w, r) /\ c \in refused'
    BY <1>2 DEF FindCase, KnownCase
  <1>5. h[w].pc = "findCase" /\ h[w].then = "done"
    BY <1>1 DEF FindCase, At, Fits
  <1>6. CASE r = To(h[w], "addCase") /\ Reply(w, r)
    <2>1. Follows(r, h[w]) /\ r.pc = "addCase" /\ r.then = "done"
      BY <1>1, <1>5, <1>6, ToLemma DEF Follows, Fits, Throwing
    <2>2. HandsOn(w, c, r) /\ Excused(r)'
      BY <1>3, <1>5, <2>1 DEF HandsOn, Excused, Renounces
    <2> QED BY <1>1, <1>2, <1>3, <1>6, <2>1, <2>2, CarriedReply
  <1>7. CASE r = AckThen(h[w], "done") /\ Reply(w, r) /\ c \in caseKeys
    <2>1. Follows(r, h[w]) /\ r.pc = "ack" /\ r.then = "done"
      BY <1>1, <1>7, AckThenLemma DEF Follows, Fits
    <2>2. Settled(c)'
      BY <1>2, <1>7, SettledLemma DEF CarriedInv, Settled, Recorded
    <2>3. HandsOn(w, c, r) /\ Excused(r)'
      BY <2>1, <2>2 DEF HandsOn, Excused
    <2> QED BY <1>1, <1>2, <1>3, <1>7, <2>1, <2>3, CarriedReply
  <1>8. CASE r = AckThen(h[w], "done") /\ Go(w, r) /\ c \in refused'
    <2>1. Follows(r, h[w]) /\ r.pc = "ack" /\ r.then = "done"
      BY <1>1, <1>8, AckThenLemma DEF Follows, Fits
    <2>2. HandsOn(w, c, r) /\ Excused(r)'
      BY <1>8, <2>1 DEF HandsOn, Excused, Settled
    <2> QED BY <1>1, <1>2, <1>3, <1>8, <2>1, <2>2, CarriedStep
  <1> QED BY <1>4, <1>6, <1>7, <1>8

LEMMA AddCaseCarries ==
    ASSUME HandlingInv, HandlingInv', CarriedInv, NothingUndone, NEW w \in Workers, AddCase(w)
    PROVE  CarriedInv'
  <1>1. Busy(w) /\ h[w] \in Handler /\ h[w].env \in Envelope /\ Fits(h[w]) /\ Excused(h[w])
    BY BusyLemma DEF AddCase, HandlingInv, CarriedInv, At, Busy
  <1>2. PICK c \in Acts : c = Act(w) /\ c = h[w].env.act
    BY <1>1, BusyLemma DEF HandlingInv, Act
  <1>3. stream' = stream /\ delivered' = delivered /\ interrupted' = interrupted
    BY DEF AddCase, arrivals, history
  <1>4. Bump(cases, c)[c] > 0
    BY <1>2, BumpLemma DEF HandlingInv, TypeOK
  <1>5. /\ \A a \in caseKeys' : a \in caseKeys \/ cases'[a] > 0
        /\ cases'[c] > 0 \/ c \in erred'
    BY <1>2, <1>4 DEF AddCase
  <1>6. PICK r : r = To(h[w], "patchCase") /\ (Reply(w, r) \/ Go(w, r))
    BY DEF AddCase
  <1>7. Settled(c)'
    BY <1>5 DEF Settled, Recorded
  <1>8. Follows(r, h[w]) /\ HandsOn(w, c, r) /\ Excused(r)'
    <2>1. h[w].then = "done" /\ c \in Flags
      BY <1>1, <1>2 DEF AddCase, At, Fits
    <2>2. Follows(r, h[w]) /\ r.pc = "patchCase" /\ r.then = "done" /\ r.env.act = c
      BY <1>1, <1>2, <1>6, <2>1, ToLemma DEF Follows, Fits, Throwing
    <2> QED BY <1>7, <2>2 DEF HandsOn, Excused
  <1> QED BY <1>1, <1>2, <1>3, <1>5, <1>6, <1>8, CarriedReply, CarriedStep

LEMMA PatchCaseCarries ==
    ASSUME HandlingInv, HandlingInv', CarriedInv, NothingUndone, NEW w \in Workers, PatchCase(w)
    PROVE  CarriedInv'
  <1>1. Busy(w) /\ h[w] \in Handler /\ h[w].env \in Envelope /\ Fits(h[w]) /\ Excused(h[w])
    BY BusyLemma DEF PatchCase, HandlingInv, CarriedInv, At, Busy
  <1>2. PICK c \in Acts : c = Act(w) /\ c = h[w].env.act
    BY <1>1, BusyLemma DEF HandlingInv, Act
  <1>3. /\ stream' = stream /\ delivered' = delivered /\ interrupted' = interrupted
        /\ caseKeys' = caseKeys
    BY DEF PatchCase, moderation, arrivals, history
  <1>4. PICK r : r = AckThen(h[w], "done") /\ Reply(w, r)
    BY DEF PatchCase
  <1>5. Settled(c)'
    BY <1>1, <1>2, SettledLemma DEF PatchCase, At, Excused
  <1>6. Follows(r, h[w]) /\ HandsOn(w, c, r) /\ Excused(r)'
    BY <1>1, <1>4, <1>5, AckThenLemma DEF Follows, Fits, HandsOn, Excused
  <1> QED BY <1>1, <1>2, <1>3, <1>4, <1>6, CarriedReply

LEMMA SendEventCarries ==
    ASSUME HandlingInv, HandlingInv', CarriedInv, NothingUndone, NEW w \in Workers, SendEvent(w)
    PROVE  CarriedInv'
  <1>1. Busy(w) /\ h[w] \in Handler /\ h[w].env \in Envelope /\ Fits(h[w]) /\ Excused(h[w])
    BY BusyLemma DEF SendEvent, HandlingInv, CarriedInv, At, Busy
  <1>2. PICK c \in Acts : c = Act(w) /\ c = h[w].env.act
    BY <1>1, BusyLemma DEF HandlingInv, Act
  <1>3. /\ stream' = stream /\ delivered' = delivered /\ interrupted' = interrupted
        /\ caseKeys' = caseKeys
    BY DEF SendEvent, moderation, arrivals, history
  <1>4. Bump(pods, c)[c] > 0
    BY <1>2, BumpLemma DEF HandlingInv, TypeOK
  <1>5. PICK q : \/ q = AckThen(h[w], "done") /\ Go(w, q) /\ (c \in refused' \/ pods'[c] > 0)
                 \/ q = Idle /\ Go(w, q)
    BY <1>2, <1>4 DEF SendEvent, NotAccepted
  <1>6. h[w].pc = "event" /\ h[w].then = "done"
    BY <1>1 DEF SendEvent, At, Fits
  <1>7. CASE q = Idle
    <2>1. Follows(q, h[w]) /\ HandsOn(w, c, q)
      BY <1>3, <1>6, <1>7 DEF Follows, HandsOn, Renounces, Idle
    <2> QED BY <1>1, <1>2, <1>3, <1>5, <1>7, <2>1, CarriedStep
  <1>8. CASE q = AckThen(h[w], "done") /\ (c \in refused' \/ pods'[c] > 0)
    <2>1. Follows(q, h[w]) /\ q.pc = "ack" /\ q.then = "done"
      BY <1>1, <1>8, AckThenLemma DEF Follows, Fits
    <2>2. HandsOn(w, c, q) /\ Excused(q)'
      BY <1>8, <2>1 DEF HandsOn, Excused, Settled, Recorded
    <2> QED BY <1>1, <1>2, <1>3, <1>5, <1>8, <2>1, <2>2, CarriedStep
  <1> QED BY <1>5, <1>7, <1>8

LEMMA ClaimCarries ==
    ASSUME HandlingInv, HandlingInv', CarriedInv, NothingUndone, NEW w \in Workers, Claim(w)
    PROVE  CarriedInv'
  <1>1. Busy(w) /\ h[w] \in Handler /\ h[w].env \in Envelope /\ Fits(h[w]) /\ Excused(h[w])
    BY BusyLemma DEF Claim, HandlingInv, CarriedInv, At, Busy
  <1>2. PICK c \in Acts : c = Act(w) /\ c = h[w].env.act
    BY <1>1, BusyLemma DEF HandlingInv, Act
  <1>3. /\ stream' = stream /\ delivered' = delivered /\ interrupted' = interrupted
        /\ caseKeys' = caseKeys
    BY DEF Claim, moderation, arrivals, history
  <1>4. c \in Guarded /\ IdOf[c] \in claimed'
    BY <1>1, <1>2 DEF Claim, At, Fits
  <1>5. Settled(c)' /\ h[w].then = "done" /\ c \notin Reports
    BY <1>1, <1>4 DEF Settled, Claimed, Claim, At, Fits, Guarded, Reports
  <1>6. PICK r \in {AfterClaim(h[w]), AckThen(h[w], "done")} : Reply(w, r)
    BY DEF Claim, Duplicate
  <1>7. Follows(r, h[w])
    BY <1>1, <1>2, <1>5, <1>6, AfterClaimLemma, AckThenLemma DEF Follows, Fits
  <1>8. HandsOn(w, c, r) /\ (r # Idle => Excused(r)')
    BY <1>2, <1>4, <1>5, <1>7 DEF HandsOn, Excused, Follows
  <1> QED BY <1>1, <1>2, <1>3, <1>6, <1>7, <1>8, CarriedReply

LEMMA BoostCarries ==
    ASSUME HandlingInv, HandlingInv', CarriedInv, NothingUndone, NEW w \in Workers, Boost(w)
    PROVE  CarriedInv'
  <1>1. Busy(w) /\ h[w] \in Handler /\ h[w].env \in Envelope /\ Fits(h[w]) /\ Excused(h[w])
    BY BusyLemma DEF Boost, HandlingInv, CarriedInv, At, Busy
  <1>2. PICK c \in Acts : c = Act(w) /\ c = h[w].env.act
    BY <1>1, BusyLemma DEF HandlingInv, Act
  <1>3. /\ stream' = stream /\ delivered' = delivered /\ interrupted' = interrupted
        /\ caseKeys' = caseKeys
    BY DEF Boost, moderation, arrivals, history
  <1>4. Settled(c)'
    BY <1>1, <1>2 DEF Boost, Settled, At, Fits
  <1>5. h[w].then = "done" /\ c \notin Reports
    BY <1>1, <1>2, ConstantsAssumption DEF Boost, At, Fits, Reports
  <1>6. PICK r \in {Route(h[w]), AckThen(h[w], "done")} : Reply(w, r)
    BY DEF Boost, Duplicate
  <1>7. Follows(r, h[w])
    BY <1>1, <1>2, <1>5, <1>6, RouteLemma, AckThenLemma DEF Follows, Fits
  <1>8. HandsOn(w, c, r) /\ (r # Idle => Excused(r)')
    BY <1>2, <1>4, <1>5, <1>7 DEF HandsOn, Excused, Follows
  <1> QED BY <1>1, <1>2, <1>3, <1>6, <1>7, <1>8, CarriedReply

LEMMA ForwardCarries ==
    ASSUME HandlingInv, HandlingInv', CarriedInv, NothingUndone, NEW w \in Workers, Forward(w)
    PROVE  CarriedInv'
  <1>1. Busy(w) /\ h[w] \in Handler /\ h[w].env \in Envelope /\ Fits(h[w]) /\ Excused(h[w])
    BY BusyLemma DEF Forward, HandlingInv, CarriedInv, At, Busy
  <1>2. PICK c \in Acts : c = Act(w) /\ c = h[w].env.act
    BY <1>1, BusyLemma DEF HandlingInv, Act
  <1>3. /\ stream' = stream /\ delivered' = delivered /\ interrupted' = interrupted
        /\ caseKeys' = caseKeys
    BY DEF Forward, moderation, arrivals, history
  <1>4. Bump(pods, c)[c] > 0
    BY <1>2, BumpLemma DEF HandlingInv, TypeOK
  <1>5. PICK q : \/ q = To(h[w], "publish") /\ Go(w, q) /\ pods'[c] > 0
                 \/ q \in {AfterTransient(h[w]), AckThen(h[w], "dlq")} /\ Go(w, q)
    BY <1>2, <1>4 DEF Forward
  <1>6. h[w].pc = "forward" /\ h[w].then = "done" /\ c \notin Reports \cup Bypassed
    BY <1>1, <1>2 DEF Forward, At, Fits
  <1>7. CASE q = To(h[w], "publish") /\ pods'[c] > 0
    <2>1. Follows(q, h[w]) /\ q.pc = "publish" /\ q.then = "done" /\ q.env.act = c
      BY <1>1, <1>2, <1>6, <1>7, ToLemma DEF Follows, Fits
    <2>2. HandsOn(w, c, q) /\ Excused(q)'
      BY <1>7, <2>1 DEF HandsOn, Excused, Settled, Recorded
    <2> QED BY <1>1, <1>2, <1>3, <1>5, <1>7, <2>1, <2>2, CarriedStep
  <1>8. CASE q \in {AfterTransient(h[w]), AckThen(h[w], "dlq")} /\ Go(w, q)
    <2>1. Follows(q, h[w]) /\ q.pc = "ack" /\ q.then \in {"dlq", "retry"} /\ q.env.act = c
      BY <1>1, <1>2, <1>6, <1>8, AfterTransientLemma, AckThenLemma DEF Follows, Fits, Idle
    <2>2. HandsOn(w, c, q) /\ Excused(q)'
      BY <1>3, <1>6, <2>1 DEF HandsOn, Excused, Renounces
    <2> QED BY <1>1, <1>2, <1>3, <1>8, <2>1, <2>2, CarriedStep
  <1> QED BY <1>5, <1>7, <1>8

LEMMA PublishCarries ==
    ASSUME HandlingInv, HandlingInv', CarriedInv, NothingUndone, NEW w \in Workers, Publish(w)
    PROVE  CarriedInv'
  <1>1. Busy(w) /\ h[w] \in Handler /\ h[w].env \in Envelope /\ Fits(h[w]) /\ Excused(h[w])
    BY BusyLemma DEF Publish, HandlingInv, CarriedInv, At, Busy
  <1>2. PICK c \in Acts : c = Act(w) /\ c = h[w].env.act
    BY <1>1, BusyLemma DEF HandlingInv, Act
  <1>3. /\ stream' = stream /\ delivered' = delivered /\ interrupted' = interrupted
        /\ caseKeys' = caseKeys
    BY DEF Publish, moderation, arrivals, history
  <1>4. Settled(c)' \/ c \in Bypassed \cap Anonymous
    BY <1>1, <1>2, SettledLemma DEF Publish, At, Excused
  <1>5. PICK q : q \in {Idle, AckThen(h[w], "done")} /\ Go(w, q)
    BY DEF Publish
  <1>6. /\ Follows(q, h[w]) /\ HandsOn(w, c, q)
        /\ q # Idle => Excused(q)'
    BY <1>1, <1>4, <1>5, AckThenLemma DEF Follows, Fits, HandsOn, Excused
  <1> QED BY <1>1, <1>2, <1>3, <1>5, <1>6, CarriedStep

LEMMA AckCarries ==
    ASSUME HandlingInv, HandlingInv', CarriedInv, NothingUndone, NEW w \in Workers, Ack(w)
    PROVE  CarriedInv'
  <1>1. Busy(w) /\ h[w] \in Handler /\ h[w].env \in Envelope /\ Fits(h[w]) /\ Excused(h[w])
    BY BusyLemma DEF Ack, HandlingInv, CarriedInv, At, Busy
  <1>2. PICK c \in Acts : c = Act(w) /\ c = h[w].env.act
    BY <1>1, BusyLemma DEF HandlingInv, Act
  <1>3. /\ delivered' = delivered /\ interrupted' = interrupted /\ caseKeys' = caseKeys
        /\ \A m \in DOMAIN stream : m # h[w].msg => m \in DOMAIN stream' /\ stream'[m] = stream[m]
    BY DEF Ack, moderation, arrivals, history
  <1>4. PICK r : /\ r = IF h[w].then = "done" THEN Idle ELSE To(h[w], h[w].then)
                 /\ Reply(w, r)
    BY DEF Ack
  <1>5. CASE h[w].then = "done"
    <2>1. Follows(r, h[w]) /\ HandsOn(w, c, r) /\ r = Idle
      BY <1>4, <1>5 DEF Ack, Follows, HandsOn, Renounces
    <2> QED BY <1>1, <1>2, <1>3, <1>4, <2>1, CarriedReply
  <1>6. CASE h[w].then # "done"
    <2>1. h[w].then \in {"dlq", "retry", "publish"}
      BY <1>1, <1>6 DEF Handler
    <2>2. /\ r \in Handler /\ r.pc = h[w].then /\ r.then = h[w].then
          /\ r.msg = h[w].msg /\ r.env = h[w].env
      BY <1>1, <1>4, <1>6, <2>1, ToLemma DEF Throwing
    <2>3. Follows(r, h[w])
      <3>1. c \in Bypassed => c \notin Reports
        BY ConstantsAssumption DEF Reports
      <3> QED BY <1>1, <1>2, <2>1, <2>2, <3>1 DEF Fits, Follows
    <2>4. r.then = "publish" => Settled(c)' \/ c \in Bypassed \cap Anonymous
      BY <1>1, <1>2, <2>2, SettledLemma DEF Excused, Fits
    <2>5. HandsOn(w, c, r)
      BY <2>1, <2>2, <2>4 DEF HandsOn
    <2>6. Excused(r)'
      <3>1. r.then = "dlq" /\ c \in Reports => c \in refused'
        BY <1>1, <1>2, <2>2 DEF Excused, NothingUndone
      <3>2. r.env.act = c /\ r.pc # "patchCase"
        BY <1>2, <2>1, <2>2
      <3> QED BY <2>2, <2>4, <3>1, <3>2 DEF Excused
    <2> QED BY <1>1, <1>2, <1>3, <1>4, <2>3, <2>5, <2>6, CarriedReply
  <1> QED BY <1>5, <1>6

LEMMA MoveToDlqCarries ==
    ASSUME HandlingInv, HandlingInv', CarriedInv, NothingUndone, NEW w \in Workers, MoveToDlq(w)
    PROVE  CarriedInv'
  <1>1. Busy(w) /\ h[w] \in Handler /\ h[w].env \in Envelope /\ Fits(h[w]) /\ Excused(h[w])
    BY BusyLemma DEF MoveToDlq, HandlingInv, CarriedInv, At, Busy
  <1>2. PICK c \in Acts : c = Act(w) /\ c = h[w].env.act
    BY <1>1, BusyLemma DEF HandlingInv, Act
  <1>3. /\ stream' = stream /\ delivered' = delivered /\ interrupted' = interrupted
        /\ caseKeys' = caseKeys
    BY DEF MoveToDlq, moderation, arrivals, history
  <1>4. PICK r : r = Idle /\ Reply(w, r)
    BY DEF MoveToDlq
  <1>5. Settled(c)'
    BY <1>2 DEF MoveToDlq, Settled, Recorded
  <1>6. Follows(r, h[w]) /\ HandsOn(w, c, r)
    BY <1>4, <1>5 DEF Follows, HandsOn
  <1> QED BY <1>1, <1>2, <1>3, <1>4, <1>6, CarriedReply

LEMMA RetryCarries ==
    ASSUME HandlingInv, HandlingInv', CarriedInv, NothingUndone, NEW w \in Workers, Retry(w)
    PROVE  CarriedInv'
  <1>1. Busy(w) /\ h[w] \in Handler /\ h[w].env \in Envelope /\ Fits(h[w]) /\ Excused(h[w])
    BY BusyLemma DEF Retry, HandlingInv, CarriedInv, At, Busy
  <1>2. PICK c \in Acts : c = Act(w) /\ c = h[w].env.act
    BY <1>1, BusyLemma DEF HandlingInv, Act
  <1> DEFINE e == [h[w].env EXCEPT !.attempt = @ + 1, !.notBefore = Later(Backoff)]
  <1>3. EnqueueInbound(e) /\ e \in Envelope /\ e.act = c
    <2>1. h[w].env.attempt < MaxAttempts
      BY <1>1 DEF Retry, At, Fits
    <2>2. h[w].env.attempt + 1 \in 0 .. MaxAttempts
      BY <1>1, <2>1, ConstantsAssumption DEF Envelope
    <2>3. e \in Envelope /\ e.act = c
      BY <1>1, <1>2, <2>2, LaterLemma DEF Envelope, HandlingInv, TypeOK
    <2> QED BY <2>3 DEF Retry
  <1> HIDE DEF e
  <1>4. /\ delivered' = delivered /\ interrupted' = interrupted /\ caseKeys' = caseKeys
        /\ \A m \in DOMAIN stream : m \in DOMAIN stream' /\ stream'[m] = stream[m]
        /\ \E m \in FreshIds : m \in DOMAIN stream' /\ stream'[m].act = c
    BY <1>3, EnqueueLemma DEF Retry, moderation, arrivals, history, HandlingInv
  <1>5. PICK r : r = Idle /\ Reply(w, r)
    BY DEF Retry
  <1>6. Follows(r, h[w]) /\ HandsOn(w, c, r)
    BY <1>4, <1>5 DEF Follows, HandsOn
  <1> QED BY <1>1, <1>2, <1>4, <1>5, <1>6, CarriedReply

LEMMA CallFailsCarries ==
    ASSUME HandlingInv, HandlingInv', CarriedInv, NothingUndone, NEW w \in Workers, CallFails(w)
    PROVE  CarriedInv'
  <1>1. Busy(w) /\ h[w] \in Handler /\ Fits(h[w])
    BY BusyLemma DEF CallFails, HandlingInv, Busy, Throwing
  <1>2. PICK c : c = Act(w)
    OBVIOUS
  <1>3. PICK q : q = Thrown(h[w]) /\ Go(w, q)
    BY DEF CallFails
  <1>4. c \in erred' /\ Settled(c)'
    BY <1>2 DEF CallFails, Settled
  <1>5. Follows(q, h[w]) /\ (q # Idle => Renounces(q))
    BY <1>1, <1>3, ThrownLemma
  <1>6. HandsOn(w, c, q) /\ (q # Idle => Excused(q)')
    BY <1>2, <1>4, <1>5 DEF HandsOn, Excused, Renounces, Act, Follows
  <1>7. /\ stream' = stream /\ delivered' = delivered /\ interrupted' = interrupted
        /\ caseKeys' = caseKeys
    BY DEF CallFails, moderation, arrivals, history
  <1> QED BY <1>1, <1>2, <1>3, <1>5, <1>6, <1>7, CarriedStep

\* A step after which no handler drops an entry that none dropped before, and
\* none has written off its work.
LEMMA OthersCarry ==
    ASSUME HandlingInv, HandlingInv', CarriedInv, NothingUndone,
           \A m \in DOMAIN stream : m \in DOMAIN stream' /\ stream'[m] = stream[m],
           \A v \in Workers : Renounces(h'[v]) => h'[v] = h[v],
           NEW b \in Acts, Settled(b) \/ Carried(b),
           \A v \in Workers : h[v].pc \in {"dlq", "retry"} /\ Act(v) = b =>
                                 h'[v] = h[v] \/ Settled(b)'
    PROVE  Settled(b)' \/ Carried(b)'
  <1>1. CASE Settled(b)
    BY <1>1, SettledLemma
  <1>2. CASE \E m \in DOMAIN stream : stream[m].act = b /\ Live(m)
    <2>1. PICK m \in DOMAIN stream : stream[m].act = b /\ Live(m)
      BY <1>2
    <2>2. m \in DOMAIN stream' /\ stream'[m].act = b /\ Live(m)'
      BY <2>1 DEF Live
    <2> QED BY <2>2 DEF Carried
  <1>3. ASSUME NEW v \in Workers, h[v].pc \in {"dlq", "retry"}, Act(v) = b
        PROVE  Settled(b)' \/ Carried(b)'
    <2>1. CASE h'[v] = h[v]
      BY <1>3, <2>1 DEF Carried, Act
    <2> QED BY <1>3, <2>1
  <1> QED BY <1>1, <1>2, <1>3 DEF Carried

LEMMA ReceiveCarries ==
    ASSUME HandlingInv, HandlingInv', CarriedInv, NothingUndone,
           NEW w \in Workers, NEW m \in MsgIds, Receive(w, m)
    PROVE  CarriedInv'
  <1>1. PICK q : /\ Go(w, q) /\ q.pc \in {"requeue", "screen"} /\ q.then = "done"
    BY DEF Receive
  <1>2. h'[w] = q /\ ~Busy(w) /\ \A v \in Workers : v # w => h'[v] = h[v]
    BY <1>1, GoLemma DEF Receive, HandlingInv
  <1>3. UNCHANGED <<stream, dlq, claimed, boosted, cases, caseKeys, pods, delivered, refused,
                    interrupted, erred>>
    BY DEF Receive, guards, moderation, effects, arrivals, history
  <1>4. ASSUME NEW v \in Workers, Busy(v)' PROVE Excused(h[v])'
    <2>1. v = w \/ (Busy(v) /\ Excused(h[v]) /\ h'[v] = h[v])
      BY <1>2, <1>4 DEF CarriedInv, Busy
    <2> QED BY <1>1, <1>2, <1>3, <2>1 DEF Excused, Settled, Recorded, Claimed
  <1>5. ASSUME NEW b \in delivered \ (Bypassed \cap Anonymous) PROVE Settled(b)' \/ Carried(b)'
    <2>1. b \in Acts /\ (Settled(b) \/ Carried(b))
      BY DEF CarriedInv, HandlingInv, TypeOK
    <2>2. \A v \in Workers : Renounces(h'[v]) => h'[v] = h[v]
      BY <1>1, <1>2 DEF Renounces
    <2>3. \A v \in Workers : h[v].pc \in {"dlq", "retry"} => h'[v] = h[v]
      BY <1>2 DEF Busy
    <2> QED BY <1>3, <2>1, <2>2, <2>3, OthersCarry
  <1> QED BY <1>3, <1>4, <1>5 DEF CarriedInv

LEMMA DeliverCarries ==
    ASSUME HandlingInv, HandlingInv', CarriedInv, NothingUndone, NEW a \in Acts, Deliver(a)
    PROVE  CarriedInv'
  <1> DEFINE e == [act |-> a, attempt |-> 0, notBefore |-> 0]
  <1>1. e \in Envelope /\ EnqueueInbound(e) /\ e.act = a
    BY ConstantsAssumption DEF Deliver, Envelope
  <1> HIDE DEF e
  <1>2. /\ UNCHANGED <<dlq, claimed, boosted, cases, caseKeys, pods, h, refused, interrupted, erred>>
        /\ delivered' = delivered \cup {a}
    BY DEF Deliver, guards, moderation, effects, history
  <1>3. /\ \A m \in DOMAIN stream : m \in DOMAIN stream' /\ stream'[m] = stream[m]
        /\ \E m \in FreshIds : m \in DOMAIN stream' /\ stream'[m].act = a
    BY <1>1, EnqueueLemma DEF HandlingInv
  <1>4. ASSUME NEW v \in Workers, Busy(v)' PROVE Excused(h[v])'
    BY <1>2, <1>4 DEF CarriedInv, Busy, Excused, Settled, Recorded, Claimed
  <1>5. ASSUME NEW b \in delivered' \ (Bypassed \cap Anonymous) PROVE Settled(b)' \/ Carried(b)'
    <2>1. CASE b \in delivered
      <3>1. b \in Acts /\ (Settled(b) \/ Carried(b))
        BY <1>5, <2>1 DEF CarriedInv, HandlingInv, TypeOK
      <3> QED BY <1>2, <1>3, <3>1, OthersCarry
    <2>2. CASE b = a
      <3>1. PICK m \in FreshIds : m \in DOMAIN stream' /\ stream'[m].act = a
        BY <1>3
      <3>2. \A v \in Workers : Renounces(h[v]) => Busy(v)
        BY DEF Renounces, Busy
      <3>3. Live(m)'
        BY <1>2, <3>1, <3>2, FreshLemma DEF Live
      <3> QED BY <2>2, <3>1, <3>3 DEF Carried
    <2> QED BY <1>2, <2>1, <2>2
  <1> QED BY <1>2, <1>4, <1>5 DEF CarriedInv

LEMMA CrashCarries ==
    ASSUME HandlingInv, HandlingInv', CarriedInv, NothingUndone, Crash
    PROVE  CarriedInv'
  <1>1. PICK W \in SUBSET {w \in Workers : Busy(w)} :
          /\ h' = [w \in Workers |-> IF w \in W THEN Idle ELSE h[w]]
          /\ interrupted' = interrupted \cup {Act(w) : w \in {v \in W : PastAck(v)}}
    BY DEF Crash
  <1>2. UNCHANGED <<stream, dlq, claimed, boosted, cases, caseKeys, pods, delivered, refused, erred>>
    BY DEF Crash, guards, moderation, effects, arrivals
  <1>3. ASSUME NEW v \in Workers, Busy(v)' PROVE Excused(h[v])'
    <2>1. h'[v] = h[v] /\ Excused(h[v]) /\ h[v].env.act \in Acts
      BY <1>1, <1>3, BusyLemma DEF CarriedInv, HandlingInv, Busy, Idle, Act
    <2>2. Settled(h[v].env.act) => h[v].env.act \in Acts
      BY <2>1
    <2>3. \A a \in Acts : Settled(a) => Settled(a)'
      BY SettledLemma
    <2> QED BY <1>2, <2>1, <2>3 DEF Excused
  <1>4. interrupted' \cap Reports \subseteq refused'
    <2>1. ASSUME NEW v \in W, PastAck(v), Act(v) \in Reports PROVE Act(v) \in refused
      <3>1. Busy(v) /\ Fits(h[v]) /\ Excused(h[v])
        BY <1>1, <2>1 DEF HandlingInv, CarriedInv
      <3> QED BY <2>1, <3>1 DEF PastAck, Fits, Excused, Act
    <2> QED BY <1>1, <1>2, <2>1 DEF CarriedInv
  <1>5. ASSUME NEW b \in delivered \ (Bypassed \cap Anonymous) PROVE Settled(b)' \/ Carried(b)'
    <2>1. b \in Acts /\ (Settled(b) \/ Carried(b))
      BY DEF CarriedInv, HandlingInv, TypeOK
    <2>2. \A v \in Workers : Renounces(h'[v]) => h'[v] = h[v]
      BY <1>1 DEF Renounces, Idle
    <2>3. ASSUME NEW v \in Workers, h[v].pc \in {"dlq", "retry"}, Act(v) = b
          PROVE  h'[v] = h[v] \/ Settled(b)'
      <3>1. PastAck(v)
        BY <2>3 DEF PastAck, HandlingInv, OwnEntry, Busy
      <3>2. CASE v \in W
        <4>1. b \in interrupted'
          BY <1>1, <2>3, <3>1, <3>2
        <4> QED BY <4>1 DEF Settled
      <3> QED BY <1>1, <3>2
    <2> QED BY <1>2, <2>1, <2>2, <2>3, OthersCarry
  <1> QED BY <1>2, <1>3, <1>4, <1>5 DEF CarriedInv

LEMMA NextCarries ==
    ASSUME HandlingInv, HandlingInv', CarriedInv, [Next]_vars PROVE CarriedInv'
  <1>1. NothingUndone
    BY NextUndoesNothing
  <1>2. ASSUME NEW w \in Workers, Process(w) PROVE CarriedInv'
    BY <1>1, <1>2, RequeueCarries, ScreenCarries, PolicyCarries, FindCaseCarries, AddCaseCarries,
       PatchCaseCarries, SendEventCarries, ClaimCarries, BoostCarries, ForwardCarries,
       PublishCarries, AckCarries, MoveToDlqCarries, RetryCarries
    DEF Process
  <1>3. CASE Tick \/ UNCHANGED vars
    <2>1. UNCHANGED <<stream, dlq, claimed, boosted, cases, caseKeys, pods, h, delivered, refused,
                      interrupted, erred>>
      BY <1>3 DEF Tick, vars, guards, moderation, effects, arrivals, history
    <2> QED BY <2>1 DEF CarriedInv, Busy, Excused, Settled, Recorded, Claimed, Carried,
                         Live, Act
  <1> QED BY <1>1, <1>2, <1>3, CallFailsCarries, ReceiveCarries, DeliverCarries, CrashCarries
          DEF Next

LEMMA InitCarries == Init => CarriedInv
  BY DEF Init, CarriedInv, Busy, Idle

\* Whoever fails, overlaps or crashes, a delivered activity that nothing
\* settles keeps an entry nobody is about to drop, or a handler with a retry
\* or a record to write.
THEOREM CarriedInvariant == Spec => []CarriedInv
  BY HandlingInvariant, InitCarries, NextCarries, PTL DEF Spec

\* An activity leaves the Stream and its handlers unsettled only through a
\* failed Redis call or a crash past the early acknowledgement.
THEOREM NothingIsLost == Spec => []KeptUntilClaimed
  <1>1. HandlingInv /\ CarriedInv => KeptUntilClaimed
    <2> SUFFICES ASSUME HandlingInv, CarriedInv,
                        NEW a \in delivered \ (Bypassed \cap Anonymous), Carried(a)
                 PROVE  InStream(a) \/ InHand(a)
      BY DEF CarriedInv, KeptUntilClaimed, Settled
    <2> QED BY DEF Carried, InStream, InHand, Busy
  <1> QED BY <1>1, HandlingInvariant, CarriedInvariant, PTL

\* Reports and provider events are stored, sent or turned away before their
\* entry is dropped, so not even a crash loses one.
LEMMA ReportsKept == HandlingInv /\ CarriedInv => ReportsSurviveCrashes
  <1> SUFFICES ASSUME HandlingInv, CarriedInv,
                      NEW a \in delivered \cap Reports
               PROVE  InStream(a) \/ Recorded(a) \/ a \in refused \/ a \in erred
    BY DEF ReportsSurviveCrashes, Reports
  <1>1. a \notin Bypassed /\ a \notin Boosts /\ ~Claimed(a)
    BY ConstantsAssumption DEF Reports, Guarded, Claimed
  <1>2. Settled(a) \/ Carried(a)
    BY <1>1 DEF CarriedInv
  <1>3. CASE Settled(a)
    BY <1>1, <1>3 DEF Settled, CarriedInv
  <1>4. ASSUME NEW w \in Workers, h[w].pc \in {"dlq", "retry"}, Act(w) = a PROVE a \in refused
    BY <1>4 DEF HandlingInv, CarriedInv, Busy, Fits, Excused, Act
  <1> QED BY <1>2, <1>3, <1>4 DEF Carried, InStream

\* No crash loses a report or a provider event.
THEOREM NoReportIsLost == Spec => []ReportsSurviveCrashes
  BY ReportsKept, HandlingInvariant, CarriedInvariant, PTL

-----------------------------------------------------------------------------
\* One handler per claim

\* A step of handler w to q that concerns the activity with id i.
LEMMA OnceStep ==
    ASSUME HandlingInv, OnceInv, NEW w \in Workers, NEW q, NEW i, Go(w, q),
           claimed \subseteq claimed', claimed' \subseteq claimed \cup {i},
           \A a \in Guarded : IdOf[a] # i => pods'[a] = pods[a] /\ emitted'[a] = emitted[a],
           i \in Ids =>
              /\ OnceFor(i)'
              /\ i \notin claimed' => None(pods, i)' /\ None(emitted, i)',
           \A v \in Workers \ {w} : Holds(h[v], i) =>
              \A a \in Guarded : pods'[a] = pods[a] /\ emitted'[a] = emitted[a],
           \A k \in Ids : Holds(q, k) =>
              /\ k = i /\ i \in claimed' /\ None(emitted, i)'
              /\ q.pc \in {"boost", "forward"} => None(pods, i)'
              /\ \A v \in Workers \ {w} : ~Holds(h[v], i)
    PROVE  OnceInv'
  <1>1. h'[w] = q /\ \A v \in Workers : v # w => h'[v] = h[v]
    BY GoLemma DEF HandlingInv
  <1> SUFFICES ASSUME NEW k \in Ids
               PROVE  /\ OnceFor(k)'
                      /\ k \notin claimed' => None(pods, k)' /\ None(emitted, k)'
                      /\ \A v \in Workers : Holds(h'[v], k) =>
                            /\ k \in claimed' /\ None(emitted, k)'
                            /\ h'[v].pc \in {"boost", "forward"} => None(pods, k)'
                            /\ \A u \in Workers : Holds(h'[u], k) => u = v
    BY DEF OnceInv, Holds, Entitled
  <1>2. /\ OnceFor(k)
        /\ k \notin claimed => None(pods, k) /\ None(emitted, k)
        /\ \A v \in Workers : Holds(h[v], k) =>
              /\ k \in claimed /\ None(emitted, k)
              /\ h[v].pc \in {"boost", "forward"} => None(pods, k)
              /\ \A u \in Workers : Holds(h[u], k) => u = v
    BY DEF OnceInv
  <1>3. CASE k # i
    <2>1. \A a \in Guarded : IdOf[a] = k => pods'[a] = pods[a] /\ emitted'[a] = emitted[a]
      BY <1>3
    <2>2. /\ OnceFor(k)' /\ (None(pods, k) => None(pods, k)')
          /\ None(emitted, k) => None(emitted, k)'
      BY <1>2, <2>1 DEF OnceFor, AtMostOnce, None
    <2>3. \A v \in Workers : Holds(h'[v], k) => v # w /\ h'[v] = h[v]
      BY <1>1, <1>3
    <2>4. k \in claimed' <=> k \in claimed
      BY <1>3
    <2>5. ASSUME NEW v \in Workers, Holds(h'[v], k)
          PROVE  /\ k \in claimed' /\ None(emitted, k)'
                 /\ h'[v].pc \in {"boost", "forward"} => None(pods, k)'
                 /\ \A u \in Workers : Holds(h'[u], k) => u = v
      <3>1. h'[v] = h[v] /\ Holds(h[v], k)
        BY <2>3, <2>5
      <3>2. \A u \in Workers : Holds(h'[u], k) => u = v
        BY <1>2, <2>3, <3>1
      <3> QED BY <1>2, <2>2, <2>4, <3>1, <3>2
    <2> QED BY <1>2, <2>2, <2>4, <2>5
  <1>4. CASE k = i
    <2>1. OnceFor(k)' /\ (k \notin claimed' => None(pods, k)' /\ None(emitted, k)')
      BY <1>4
    <2>2. ASSUME NEW v \in Workers, Holds(h'[v], k)
          PROVE  /\ k \in claimed' /\ None(emitted, k)'
                 /\ h'[v].pc \in {"boost", "forward"} => None(pods, k)'
                 /\ \A u \in Workers : Holds(h'[u], k) => u = v
      <3>1. CASE v = w
        <4>1. Holds(q, k)
          BY <1>1, <2>2, <3>1
        <4>2. \A u \in Workers : Holds(h'[u], k) => u = v
          BY <1>1, <1>4, <3>1, <4>1
        <4> QED BY <1>1, <1>4, <3>1, <4>1, <4>2
      <3>2. CASE v # w
        <4>1. h'[v] = h[v] /\ Holds(h[v], k)
          BY <1>1, <2>2, <3>2
        <4>2. \A a \in Guarded : pods'[a] = pods[a] /\ emitted'[a] = emitted[a]
          BY <1>4, <3>2, <4>1
        <4>3. (None(pods, k) => None(pods, k)') /\ (None(emitted, k) => None(emitted, k)')
          BY <4>2 DEF None
        <4>4. ~Holds(q, k)
          BY <1>4, <3>2, <4>1
        <4>5. \A u \in Workers : Holds(h'[u], k) => u = v
          BY <1>1, <1>2, <4>1, <4>4
        <4> QED BY <1>2, <4>1, <4>3, <4>5
      <3> QED BY <3>1, <3>2
    <2> QED BY <2>1, <2>2
  <1> QED BY <1>3, <1>4

\* The handler gets no further past the guard, and nothing took effect.
StaysEntitled(q, r) ==
    Entitled(q) /\ q.env.act \in Guarded =>
        /\ Entitled(r) /\ q.env = r.env
        /\ q.pc \in {"boost", "forward"} => r.pc \in {"boost", "forward"}

NoEffect ==
    claimed' = claimed /\ \A a \in Guarded : pods'[a] = pods[a] /\ emitted'[a] = emitted[a]

LEMMA QuietOnce ==
    ASSUME HandlingInv, OnceInv, NEW w \in Workers, NEW q, Go(w, q),
           StaysEntitled(q, h[w]), NoEffect
    PROVE  OnceInv'
  <1>1. PICK i : i = IdOf[Act(w)]
    OBVIOUS
  <1>2. \A k : /\ None(pods, k) <=> None(pods, k)'
               /\ None(emitted, k) <=> None(emitted, k)'
               /\ OnceFor(k) <=> OnceFor(k)'
    BY DEF NoEffect, None, OnceFor, AtMostOnce
  <1>3. ASSUME NEW k \in Ids, Holds(q, k)
        PROVE  /\ k = i /\ i \in claimed' /\ None(emitted, i)'
               /\ q.pc \in {"boost", "forward"} => None(pods, i)'
               /\ \A v \in Workers \ {w} : ~Holds(h[v], i)
    <2>1. /\ k = i /\ Holds(h[w], i)
          /\ q.pc \in {"boost", "forward"} => h[w].pc \in {"boost", "forward"}
      BY <1>1, <1>3 DEF StaysEntitled, Holds, Act
    <2>2. /\ i \in claimed /\ None(emitted, i)
          /\ h[w].pc \in {"boost", "forward"} => None(pods, i)
          /\ \A v \in Workers : Holds(h[v], i) => v = w
      BY <1>3, <2>1 DEF OnceInv
    <2> QED BY <1>2, <2>1, <2>2 DEF NoEffect
  <1>4. i \in Ids => OnceFor(i)' /\ (i \notin claimed' => None(pods, i)' /\ None(emitted, i)')
    BY <1>2 DEF NoEffect, OnceInv
  <1>5. claimed' = claimed /\ \A a \in Guarded : pods'[a] = pods[a] /\ emitted'[a] = emitted[a]
    BY DEF NoEffect
  <1>6. /\ claimed \subseteq claimed' /\ claimed' \subseteq claimed \cup {i}
        /\ \A a \in Guarded : IdOf[a] # i => pods'[a] = pods[a] /\ emitted'[a] = emitted[a]
        /\ \A v \in Workers \ {w} : Holds(h[v], i) =>
              \A a \in Guarded : pods'[a] = pods[a] /\ emitted'[a] = emitted[a]
    BY <1>5
  <1> QED BY <1>3, <1>4, <1>6, OnceStep

LEMMA QuietOnceReply ==
    ASSUME HandlingInv, OnceInv, NEW w \in Workers, Busy(w), NEW r, Reply(w, r),
           StaysEntitled(r, h[w]), NoEffect
    PROVE  OnceInv'
  <1>1. PICK t : t = Thrown(h[w])
    OBVIOUS
  <1>2. StaysEntitled(t, h[w])
    <2>1. t # Idle => Renounces(t)
      BY <1>1, BusyLemma, ThrownLemma DEF HandlingInv
    <2> QED BY <2>1 DEF StaysEntitled, Entitled, Renounces, Idle
  <1>3. Go(w, r) \/ Go(w, t)
    BY <1>1, ReplyLemma DEF HandlingInv
  <1> QED BY <1>2, <1>3, QuietOnce

\* The steps that neither claim nor reach ActivityPods or the event streams
\* with a guarded activity.
QuietFor(w) ==
    \/ Requeue(w) \/ Screen(w) \/ Policy(w) \/ FindCase(w) \/ AddCase(w) \/ PatchCase(w)
    \/ SendEvent(w) \/ Boost(w) \/ Ack(w) \/ MoveToDlq(w) \/ Retry(w)

LEMMA QuietForOnce ==
    ASSUME HandlingInv, OnceInv, NEW w \in Workers, QuietFor(w) PROVE OnceInv'
  <1>1. Busy(w)
    BY DEF QuietFor, Requeue, Screen, Policy, FindCase, AddCase, PatchCase, SendEvent, Boost, Ack,
       MoveToDlq, Retry, At, Busy
  <1>2. h[w] \in Handler /\ Fits(h[w]) /\ Act(w) \in Acts
    BY <1>1, BusyLemma DEF HandlingInv
  <1>3. NoEffect
    <2>1. CASE SendEvent(w)
      <3>1. Act(w) \in Reports
        BY <1>1, <1>2, <2>1 DEF SendEvent, At, Fits, Act, Reports
      <3>2. \A a \in Guarded : a # Act(w) /\ a \in Acts
        BY <3>1 DEF Guarded, Reports
      <3>3. \A a \in Guarded : Bump(pods, Act(w))[a] = pods[a]
        BY <1>2, <3>2, BumpLemma DEF HandlingInv, TypeOK
      <3> QED BY <2>1, <3>3 DEF SendEvent, NoEffect, guards
    <2>2. CASE ~SendEvent(w)
      <3>1. claimed' = claimed /\ pods' = pods /\ emitted' = emitted
        BY <2>2 DEF QuietFor, Requeue, Screen, Policy, FindCase, AddCase, PatchCase, Boost, Ack,
           MoveToDlq, Retry, guards, effects
      <3> QED BY <3>1 DEF NoEffect
    <2> QED BY <2>1, <2>2
  <1>4. PICK q : /\ Go(w, q) \/ Reply(w, q)
                 /\ StaysEntitled(q, h[w])
    <2>1. \A x : x.pc \in {"screen", "policy", "findCase", "addCase", "patchCase", "idle", "dlq",
                           "retry"} \/ (x.pc = "ack" /\ x.then \in {"done", "dlq"})
                 => StaysEntitled(x, h[w])
      BY DEF StaysEntitled, Entitled
    <2>2. ASSUME NEW then \in {"done", "dlq"} PROVE StaysEntitled(AckThen(h[w], then), h[w])
      BY <1>2, <2>1, AckThenLemma
    <2>3. ASSUME NEW p \in {"policy", "addCase", "patchCase", "dlq", "retry"}
          PROVE  StaysEntitled(To(h[w], p), h[w])
      BY <1>2, <2>1, ToLemma DEF Throwing
    <2>4. StaysEntitled(Idle, h[w])
      BY <2>1 DEF Idle
    <2>5. CASE Requeue(w)
      BY <2>2, <2>5 DEF Requeue
    <2>6. CASE Screen(w)
      <3>1. StaysEntitled(Thrown(h[w]), h[w])
        BY <1>2, ThrownLemma DEF StaysEntitled, Entitled, Renounces, Idle
      <3>2. \/ Go(w, To(h[w], "policy")) \/ Go(w, AckThen(h[w], "dlq"))
            \/ Go(w, Thrown(h[w]))
        BY <2>6 DEF Screen
      <3> QED BY <2>2, <2>3, <3>1, <3>2
    <2>7. CASE Policy(w)
      <3>1. h[w].then = "done" /\ h[w].env.act \in Acts
        BY <1>2, <2>7 DEF Policy, At, Fits, Act
      <3>2. \/ AfterPolicy(h[w]).pc \in {"findCase", "event", "claim"}
            \/ AfterPolicy(h[w]).env.act \notin Guarded
        BY <1>2, <3>1, AfterPolicyLemma DEF Follows, Guarded, Reports, Idle
      <3>3. StaysEntitled(AfterPolicy(h[w]), h[w])
        BY <3>2 DEF StaysEntitled, Entitled
      <3> QED BY <2>2, <2>7, <3>3 DEF Policy
    <2>8. CASE FindCase(w)
      BY <2>2, <2>3, <2>8 DEF FindCase
    <2>9. CASE AddCase(w)
      BY <2>3, <2>9 DEF AddCase
    <2>10. CASE PatchCase(w)
      BY <2>2, <2>10 DEF PatchCase
    <2>11. CASE SendEvent(w)
      BY <2>2, <2>4, <2>11 DEF SendEvent, NotAccepted
    <2>12. CASE Boost(w)
      <3>1. h[w].pc = "boost" /\ h[w].then = "done" /\ h[w].env.act \notin Reports
        BY <1>2, <2>12, ConstantsAssumption DEF Boost, At, Fits, Reports
      <3>2. Follows(Route(h[w]), h[w]) /\ Route(h[w]).pc \in {"forward", "ack"}
        BY <1>2, <3>1, RouteLemma
      <3>3. StaysEntitled(Route(h[w]), h[w])
        BY <3>1, <3>2 DEF StaysEntitled, Entitled, Follows, Idle
      <3> QED BY <2>2, <2>12, <3>3 DEF Boost, Duplicate
    <2>13. CASE Ack(w)
      <3>1. CASE h[w].then = "publish"
        <4>1. To(h[w], "publish").pc = "publish" /\ To(h[w], "publish").env = h[w].env
          BY <1>2, ToLemma
        <4>2. Entitled(h[w])
          <5>1. h[w].pc = "ack"
            BY <1>2, <2>13, <3>1 DEF Ack, Fits
          <5> QED BY <3>1, <5>1 DEF Entitled
        <4> QED BY <2>13, <3>1, <4>1, <4>2 DEF Ack, StaysEntitled
      <3>2. CASE h[w].then = "done"
        BY <2>4, <2>13, <3>2 DEF Ack
      <3>3. CASE h[w].then \in {"dlq", "retry"}
        BY <2>3, <2>13, <3>3 DEF Ack
      <3> QED BY <1>2, <3>1, <3>2, <3>3 DEF Handler
    <2>14. CASE MoveToDlq(w) \/ Retry(w)
      BY <2>4, <2>14 DEF MoveToDlq, Retry
    <2> QED BY <2>5, <2>6, <2>7, <2>8, <2>9, <2>10, <2>11, <2>12, <2>13, <2>14 DEF QuietFor
  <1> QED BY <1>1, <1>3, <1>4, QuietOnce, QuietOnceReply

LEMMA ClaimOnce ==
    ASSUME HandlingInv, OnceInv, NEW w \in Workers, Claim(w) PROVE OnceInv'
  <1>1. Busy(w) /\ h[w] \in Handler /\ Fits(h[w]) /\ h[w].pc = "claim" /\ h[w].then = "done"
    BY BusyLemma DEF Claim, HandlingInv, At, Busy, Fits
  <1>2. PICK c \in Guarded : c = Act(w) /\ c = h[w].env.act
    BY <1>1 DEF Fits, Act
  <1>3. PICK i \in Ids : i = IdOf[c]
    BY <1>2 DEF Ids
  <1>4. claimed' = claimed \cup {i} /\ pods' = pods /\ emitted' = emitted
    BY <1>2, <1>3 DEF Claim, effects
  <1>5. PICK r : /\ Reply(w, r) /\ Follows(r, h[w])
                 /\ Entitled(r) => i \notin claimed
    <2>1. CASE i \in claimed
      <3>1. Reply(w, AckThen(h[w], "done"))
        BY <1>2, <1>3, <2>1 DEF Claim, Seen, Duplicate
      <3>2. Follows(AckThen(h[w], "done"), h[w]) /\ ~Entitled(AckThen(h[w], "done"))
        BY <1>1, AckThenLemma DEF Follows, Fits, Entitled
      <3> QED BY <3>1, <3>2
    <2>2. CASE i \notin claimed
      <3>1. Reply(w, AfterClaim(h[w]))
        BY <1>2, <1>3, <2>2 DEF Claim, Seen
      <3>2. Follows(AfterClaim(h[w]), h[w])
        BY <1>1, <1>2, AfterClaimLemma DEF Guarded, Reports
      <3> QED BY <2>2, <3>1, <3>2
    <2> QED BY <2>1, <2>2
  <1>6. PICK t : t = Thrown(h[w])
    OBVIOUS
  <1>7. Follows(t, h[w]) /\ ~Entitled(t)
    BY <1>1, <1>6, ThrownLemma DEF Renounces, Entitled, Idle
  <1>8. PICK q \in {r, t} : Go(w, q)
    BY <1>1, <1>5, <1>6, ReplyLemma DEF HandlingInv
  <1>9. Entitled(q) => i \notin claimed /\ q.env.act = c
    BY <1>2, <1>5, <1>7, <1>8 DEF Follows, Entitled, Idle
  <1>10. i \notin claimed => /\ None(pods, i) /\ None(emitted, i)
                             /\ \A v \in Workers : ~Holds(h[v], i)
    BY <1>3 DEF OnceInv
  <1>11. /\ None(pods, i) => None(pods, i)'
         /\ None(emitted, i) => None(emitted, i)'
         /\ OnceFor(i)'
    BY <1>3, <1>4 DEF None, OnceFor, OnceInv, AtMostOnce
  <1>12. \A k \in Ids : Holds(q, k) =>
              /\ k = i /\ i \in claimed' /\ None(emitted, i)'
              /\ q.pc \in {"boost", "forward"} => None(pods, i)'
              /\ \A v \in Workers \ {w} : ~Holds(h[v], i)
    BY <1>3, <1>4, <1>9, <1>10, <1>11 DEF Holds
  <1>13. i \in claimed'
    BY <1>4
  <1> QED BY <1>4, <1>8, <1>11, <1>12, <1>13, OnceStep

\* What takes effect in ActivityPods or the event streams, and of whom.
LEMMA EffectOnce ==
    ASSUME HandlingInv, OnceInv, NEW w \in Workers, Forward(w) \/ Publish(w) PROVE OnceInv'
  <1>1. Busy(w) /\ h[w] \in Handler /\ Fits(h[w]) /\ Entitled(h[w])
    BY BusyLemma DEF Forward, Publish, HandlingInv, At, Busy, Entitled
  <1>2. PICK c \in Acts : c = Act(w) /\ c = h[w].env.act
    BY <1>1, BusyLemma DEF HandlingInv, Act
  <1>3. PICK i : i = IdOf[c]
    OBVIOUS
  <1>4. claimed' = claimed
    BY DEF Forward, Publish, guards
  <1>5. c \in Guarded =>
          /\ i \in Ids /\ i \in claimed /\ None(emitted, i)
          /\ h[w].pc = "forward" => None(pods, i)
          /\ \A v \in Workers \ {w} : ~Holds(h[v], i)
    BY <1>1, <1>2, <1>3 DEF OnceInv, Holds, Ids
  <1>6. pods \in [Acts -> Few] /\ emitted \in [Acts -> Few] /\ Guarded \subseteq Acts
    BY DEF HandlingInv, TypeOK, Guarded
  <1>7. /\ \A a \in Acts \ {c} : Bump(pods, c)[a] = pods[a] /\ Bump(emitted, c)[a] = emitted[a]
        /\ pods[c] = 0 => Bump(pods, c)[c] = 1
        /\ emitted[c] = 0 => Bump(emitted, c)[c] = 1
    BY <1>6, BumpLemma
  <1>8. \A k \in Ids : OnceFor(k) /\ (k \notin claimed => None(pods, k) /\ None(emitted, k))
    BY DEF OnceInv
  <1>9. CASE c \in Guarded
    <2>1. ASSUME NEW f \in [Acts -> Few], None(f, i)
          PROVE  \A a, b \in Guarded : IdOf[a] = i /\ IdOf[b] = i =>
                    AtMostOnce(f, a, b) /\ AtMostOnce(Bump(f, c), a, b)
      <3>1. ASSUME NEW a \in Guarded, IdOf[a] = i
            PROVE  f[a] = 0 /\ Bump(f, c)[a] = IF a = c THEN 1 ELSE 0
        BY <1>6, <1>9, <2>1, <3>1, BumpLemma DEF None
      <3> QED BY <3>1 DEF AtMostOnce
    <2>2. CASE Forward(w)
      <3>1. pods' \in {pods, Bump(pods, c)} /\ emitted' = emitted /\ h[w].pc = "forward"
        BY <1>2, <2>2 DEF Forward, At
      <3>2. PICK q : Go(w, q) /\ (Entitled(q) => q.pc = "publish" /\ q.env.act = c)
        <4>1. ~Entitled(AckThen(h[w], "dlq"))
          BY <1>1, AckThenLemma DEF Entitled
        <4>2. ~Entitled(AfterTransient(h[w]))
          <5>1. h[w].env \in Envelope /\ h[w].env.act \notin Reports \cup Bypassed
            BY <1>1, <3>1, BusyLemma DEF HandlingInv, Fits
          <5> QED BY <1>1, <5>1, AfterTransientLemma DEF Entitled
        <4>3. To(h[w], "publish").pc = "publish" /\ To(h[w], "publish").env.act = c
          BY <1>1, <1>2, ToLemma
        <4> QED BY <2>2, <4>1, <4>2, <4>3 DEF Forward
      <3>3. OnceFor(i)' /\ None(emitted, i)'
        <4>1. None(emitted, i)'
          BY <1>5, <1>9, <3>1 DEF None
        <4>2. \A a, b \in Guarded : IdOf[a] = i /\ IdOf[b] = i =>
                 AtMostOnce(pods, a, b) /\ AtMostOnce(Bump(pods, c), a, b) /\ AtMostOnce(emitted, a, b)
          BY <1>5, <1>6, <1>9, <2>1, <3>1
        <4> QED BY <3>1, <4>1, <4>2 DEF OnceFor, AtMostOnce
      <3>4. \A a \in Guarded : IdOf[a] # i => pods'[a] = pods[a] /\ emitted'[a] = emitted[a]
        BY <1>3, <1>6, <1>7, <3>1
      <3>5. \A k \in Ids : Holds(q, k) =>
                /\ k = i /\ i \in claimed' /\ None(emitted, i)'
                /\ q.pc \in {"boost", "forward"} => None(pods, i)'
                /\ \A v \in Workers \ {w} : ~Holds(h[v], i)
        BY <1>3, <1>4, <1>5, <1>9, <3>2, <3>3 DEF Holds
      <3> QED BY <1>4, <1>5, <1>9, <3>2, <3>3, <3>4, <3>5, OnceStep
    <2>3. CASE Publish(w)
      <3>1. emitted' \in {emitted, Bump(emitted, c)} /\ pods' = pods
        BY <1>2, <2>3 DEF Publish
      <3>2. PICK q : Go(w, q) /\ ~Entitled(q)
        <4>1. ~Entitled(Idle) /\ ~Entitled(AckThen(h[w], "done"))
          BY <1>1, AckThenLemma DEF Entitled, Idle
        <4> QED BY <2>3, <4>1 DEF Publish
      <3>3. OnceFor(i)'
        <4>1. \A a, b \in Guarded : IdOf[a] = i /\ IdOf[b] = i =>
                 AtMostOnce(emitted, a, b) /\ AtMostOnce(Bump(emitted, c), a, b)
          BY <1>5, <1>6, <1>9, <2>1
        <4> QED BY <1>5, <1>8, <1>9, <3>1, <4>1 DEF OnceFor, AtMostOnce
      <3>4. \A a \in Guarded : IdOf[a] # i => pods'[a] = pods[a] /\ emitted'[a] = emitted[a]
        BY <1>3, <1>6, <1>7, <3>1
      <3> QED BY <1>4, <1>5, <1>9, <3>2, <3>3, <3>4, OnceStep DEF Holds
    <2> QED BY <2>2, <2>3
  <1>10. CASE c \notin Guarded
    <2>1. NoEffect
      <3>1. pods' \in {pods, Bump(pods, c)} /\ emitted' \in {emitted, Bump(emitted, c)}
        BY <1>2 DEF Forward, Publish
      <3> QED BY <1>4, <1>6, <1>7, <1>10, <3>1 DEF NoEffect
    <2>2. PICK q : Go(w, q) /\ (q = Idle \/ q.env.act = c)
      <3>1. /\ To(h[w], "publish").env.act = c
            /\ \A then \in {"done", "dlq", "retry"} : AckThen(h[w], then).env.act = c
        BY <1>1, <1>2, ToLemma, AckThenLemma
      <3> QED BY <3>1 DEF Forward, Publish, AfterTransient
    <2>3. StaysEntitled(q, h[w])
      BY <1>10, <2>2 DEF StaysEntitled, Entitled, Idle
    <2> QED BY <2>1, <2>2, <2>3, QuietOnce
  <1> QED BY <1>9, <1>10

LEMMA NextOnce == ASSUME HandlingInv, OnceInv, [Next]_vars PROVE OnceInv'
  <1>1. ASSUME NEW w \in Workers, Process(w) PROVE OnceInv'
    BY <1>1, QuietForOnce, ClaimOnce, EffectOnce DEF Process, QuietFor
  <1>2. ASSUME NEW w \in Workers, CallFails(w) PROVE OnceInv'
    <2>1. NoEffect
      BY <1>2 DEF CallFails, NoEffect, guards, effects
    <2>2. PICK q : q = Thrown(h[w]) /\ Go(w, q)
      BY <1>2 DEF CallFails
    <2>3. q # Idle => Renounces(q)
      BY <1>2, <2>2, BusyLemma, ThrownLemma DEF CallFails, HandlingInv, Busy, Throwing
    <2>4. StaysEntitled(q, h[w])
      BY <2>3 DEF StaysEntitled, Entitled, Renounces, Idle
    <2> QED BY <2>1, <2>2, <2>4, QuietOnce
  <1>3. ASSUME NEW w \in Workers, NEW m \in MsgIds, Receive(w, m) PROVE OnceInv'
    <2>1. NoEffect
      BY <1>3 DEF Receive, NoEffect, guards, effects
    <2>2. PICK q : q.pc \in {"requeue", "screen"} /\ Go(w, q)
      BY <1>3 DEF Receive
    <2>3. StaysEntitled(q, h[w])
      BY <2>2 DEF StaysEntitled, Entitled
    <2> QED BY <2>1, <2>2, <2>3, QuietOnce
  <1>4. CASE Crash
    <2>1. claimed' = claimed /\ pods' = pods /\ emitted' = emitted
      BY <1>4 DEF Crash, guards, effects
    <2>2. \A v \in Workers : h'[v] = h[v] \/ h'[v] = Idle
      BY <1>4 DEF Crash
    <2>3. ~Entitled(Idle)
      BY DEF Entitled, Idle
    <2> QED BY <2>1, <2>2, <2>3 DEF OnceInv, OnceFor, None, Holds, AtMostOnce
  <1>5. CASE Tick \/ UNCHANGED vars \/ \E a \in Acts : Deliver(a)
    <2>1. claimed' = claimed /\ pods' = pods /\ emitted' = emitted /\ h' = h
      BY <1>5 DEF Tick, vars, Deliver, guards, effects
    <2> QED BY <2>1 DEF OnceInv, OnceFor, None, Holds, AtMostOnce, Entitled
  <1> QED BY <1>1, <1>2, <1>3, <1>4, <1>5 DEF Next

LEMMA InitOnce == Init => OnceInv
  BY DEF Init, OnceInv, OnceFor, None, AtMostOnce, Holds, Entitled, Idle, Guarded

\* Only the handler that set the key of an activity gets past the guard with
\* it, and it has one effect of each kind to give.
THEOREM OnceInvariant == Spec => []OnceInv
  BY HandlingInvariant, InitOnce, NextOnce, PTL DEF Spec

\* However often and wherever an activity with an id is delivered, reclaimed
\* or retried, ActivityPods and the event streams see it at most once.
THEOREM TakenOnce == Spec => []EffectsOnce
  <1>1. OnceInv => EffectsOnce
    BY DEF OnceInv, OnceFor, EffectsOnce, Ids
  <1> QED BY <1>1, OnceInvariant, PTL

-----------------------------------------------------------------------------
\* One handler per boost

ForwardsBoost(r) == r.pc = "forward" /\ r.env.act \in Boosts

\* Nobody starts to forward a boost, and none reaches ActivityPods.
LEMMA BoostQuiet ==
    ASSUME HandlingInv, OneBoostInv, NEW w \in Workers, NEW q, Go(w, q), ~ForwardsBoost(q),
           boosted' = boosted, \A b \in Boosts : pods'[b] = pods[b]
    PROVE  OneBoostInv'
  <1>1. h'[w] = q /\ \A v \in Workers : v # w => h'[v] = h[v]
    BY GoLemma DEF HandlingInv
  <1>2. ASSUME NEW v \in Workers, ForwardsBoost(h'[v]) PROVE ForwardsBoost(h[v]) /\ v # w
    BY <1>1, <1>2
  <1> QED BY <1>1, <1>2 DEF OneBoostInv, At, Act, ForwardsBoost

\* The handlers' steps but Boost and Forward.
BoostQuietFor(w) ==
    \/ Requeue(w) \/ Screen(w) \/ Policy(w) \/ FindCase(w) \/ AddCase(w) \/ PatchCase(w)
    \/ SendEvent(w) \/ Claim(w) \/ Publish(w) \/ Ack(w) \/ MoveToDlq(w) \/ Retry(w)

LEMMA BoostQuietKeeps ==
    ASSUME HandlingInv, OneBoostInv, NEW w \in Workers, BoostQuietFor(w) PROVE OneBoostInv'
  <1>1. Busy(w)
    BY DEF BoostQuietFor, Requeue, Screen, Policy, FindCase, AddCase, PatchCase, SendEvent, Claim,
       Publish, Ack, MoveToDlq, Retry, At, Busy
  <1>2. h[w] \in Handler /\ Fits(h[w]) /\ Act(w) \in Acts
    BY <1>1, BusyLemma DEF HandlingInv
  <1>3. boosted' = boosted /\ \A b \in Boosts : pods'[b] = pods[b]
    <2>1. CASE SendEvent(w)
      <3>1. Act(w) \in Provided
        BY <1>1, <1>2, <2>1 DEF SendEvent, At, Fits, Act
      <3>2. \A b \in Boosts : b # Act(w) /\ b \in Acts
        BY <3>1, ConstantsAssumption
      <3>3. \A b \in Boosts : Bump(pods, Act(w))[b] = pods[b]
        BY <1>2, <3>2, BumpLemma DEF HandlingInv, TypeOK
      <3> QED BY <2>1, <3>3 DEF SendEvent, guards
    <2>2. CASE ~SendEvent(w)
      BY <2>2 DEF BoostQuietFor, Requeue, Screen, Policy, FindCase, AddCase, PatchCase, Claim,
         Publish, Ack, MoveToDlq, Retry, guards, effects
    <2> QED BY <2>1, <2>2
  <1>4. PICK q : (Go(w, q) \/ Reply(w, q)) /\ ~ForwardsBoost(q)
    <2>1. ~ForwardsBoost(Idle) /\ \A x : x.pc # "forward" => ~ForwardsBoost(x)
      BY DEF ForwardsBoost, Idle
    <2>2. ASSUME NEW then \in {"done", "dlq"} PROVE ~ForwardsBoost(AckThen(h[w], then))
      BY <1>2, <2>1, AckThenLemma
    <2>3. ASSUME NEW p \in {"policy", "addCase", "patchCase", "publish", "dlq", "retry"}
          PROVE  ~ForwardsBoost(To(h[w], p))
      BY <1>2, <2>1, ToLemma DEF Throwing
    <2>4. ASSUME h[w].then = "done", h[w].env.act \notin Reports
          PROVE  ~ForwardsBoost(AfterClaim(h[w]))
      BY <1>2, <2>1, <2>4, AfterClaimLemma DEF ForwardsBoost, Follows
    <2>5. CASE Policy(w)
      <3>1. h[w].then = "done" /\ h[w].env.act \in Acts
        BY <1>2, <2>5 DEF Policy, At, Fits, Act
      <3>2. ~ForwardsBoost(AfterPolicy(h[w]))
        <4>1. CASE AfterPolicy(h[w]).pc \in {"findCase", "event", "claim"}
          BY <2>1, <4>1
        <4>2. CASE h[w].env.act \in Anonymous \ Reports /\ AfterPolicy(h[w]) = AfterClaim(h[w])
          BY <2>4, <3>1, <4>2
        <4> QED BY <1>2, <3>1, <4>1, <4>2, AfterPolicyLemma
      <3> QED BY <2>2, <2>5, <3>2 DEF Policy
    <2>6. CASE Claim(w)
      <3>1. h[w].then = "done" /\ h[w].env.act \notin Reports
        BY <1>2, <2>6 DEF Claim, At, Fits, Guarded, Reports
      <3> QED BY <2>2, <2>4, <2>6, <3>1 DEF Claim, Duplicate
    <2>7. CASE Ack(w)
      BY <1>2, <2>1, <2>3, <2>7 DEF Ack, Handler
    <2>8. CASE Requeue(w) \/ FindCase(w) \/ AddCase(w) \/ PatchCase(w)
      BY <2>2, <2>3, <2>8 DEF Requeue, FindCase, AddCase, PatchCase
    <2>9. CASE SendEvent(w) \/ Publish(w) \/ MoveToDlq(w) \/ Retry(w)
      BY <2>1, <2>2, <2>9 DEF SendEvent, NotAccepted, Publish, MoveToDlq, Retry
    <2>10. CASE Screen(w)
      <3>1. ~ForwardsBoost(Thrown(h[w]))
        BY <1>2, ThrownLemma DEF Renounces, ForwardsBoost, Idle
      <3>2. \/ Go(w, To(h[w], "policy")) \/ Go(w, AckThen(h[w], "dlq"))
            \/ Go(w, Thrown(h[w]))
        BY <2>10 DEF Screen
      <3> QED BY <2>2, <2>3, <3>1, <3>2
    <2> QED BY <2>5, <2>6, <2>7, <2>8, <2>9, <2>10 DEF BoostQuietFor
  <1>5. PICK t : t = Thrown(h[w])
    OBVIOUS
  <1>6. ~ForwardsBoost(t)
    BY <1>2, <1>5, ThrownLemma DEF Renounces, ForwardsBoost, Idle
  <1>7. Go(w, q) \/ Go(w, t)
    BY <1>1, <1>4, <1>5, ReplyLemma DEF HandlingInv
  <1> QED BY <1>3, <1>4, <1>6, <1>7, BoostQuiet

LEMMA BoostKeepsOne ==
    ASSUME HandlingInv, OneBoostInv, NEW w \in Workers, Boost(w) PROVE OneBoostInv'
  <1>1. Busy(w) /\ h[w] \in Handler /\ Fits(h[w])
    BY BusyLemma DEF Boost, HandlingInv, At, Busy
  <1>2. boosted' = TRUE /\ pods' = pods
    BY DEF Boost, effects
  <1>3. PICK t : t = Thrown(h[w])
    OBVIOUS
  <1>4. ~ForwardsBoost(t)
    BY <1>1, <1>3, ThrownLemma DEF Renounces, ForwardsBoost, Idle
  <1>5. CASE boosted
    <2>1. PICK r : r = AckThen(h[w], "done") /\ Reply(w, r)
      BY <1>5 DEF Boost, Duplicate
    <2>2. ~ForwardsBoost(r)
      BY <1>1, <2>1, AckThenLemma DEF ForwardsBoost
    <2>3. Go(w, r) \/ Go(w, t)
      BY <1>1, <1>3, <2>1, ReplyLemma DEF HandlingInv
    <2>4. boosted' = boosted /\ \A b \in Boosts : pods'[b] = pods[b]
      BY <1>2, <1>5 DEF HandlingInv, TypeOK
    <2> QED BY <1>4, <2>2, <2>3, <2>4, BoostQuiet
  <1>6. CASE ~boosted
    <2>1. PICK q : Go(w, q)
      BY <1>1, ReplyLemma DEF Boost, HandlingInv
    <2>2. h'[w] = q /\ \A v \in Workers : v # w => h'[v] = h[v]
      BY <2>1, GoLemma DEF HandlingInv
    <2>3. /\ \A v \in Workers : ~ForwardsBoost(h[v])
          /\ \A b \in Boosts : pods[b] \in Nat /\ ~(pods[b] > 0)
      BY <1>6, ConstantsAssumption
      DEF OneBoostInv, ForwardsBoost, At, Act, HandlingInv, TypeOK, Few
    <2>4. \A b \in Boosts : pods'[b] = 0
      BY <1>2, <2>3
    <2>5. \A v \in Workers : At(v, "forward")' /\ Act(v)' \in Boosts => v = w
      BY <2>2, <2>3 DEF At, Act, ForwardsBoost
    <2> QED BY <1>2, <2>4, <2>5 DEF OneBoostInv
  <1> QED BY <1>5, <1>6

LEMMA ForwardKeepsOne ==
    ASSUME HandlingInv, OneBoostInv, NEW w \in Workers, Forward(w) PROVE OneBoostInv'
  <1>1. /\ Busy(w) /\ h[w] \in Handler /\ h[w].env \in Envelope
        /\ h[w].env.act \notin Reports \cup Bypassed
    BY BusyLemma DEF Forward, HandlingInv, At, Busy, Fits
  <1>2. PICK c \in Acts : c = Act(w)
    BY <1>1, BusyLemma DEF HandlingInv
  <1>3. PICK q : Go(w, q) /\ ~ForwardsBoost(q)
    BY <1>1, ToLemma, AckThenLemma, AfterTransientLemma DEF Forward, ForwardsBoost
  <1>4. /\ pods' \in {pods, Bump(pods, c)} /\ boosted' = boosted
        /\ pods \in [Acts -> Few] /\ Boosts \subseteq Acts
    BY <1>2, ConstantsAssumption DEF Forward, guards, HandlingInv, TypeOK
  <1>5. \A b \in Acts \ {c} : pods'[b] = pods[b]
    BY <1>4, BumpLemma
  <1>6. CASE c \notin Boosts
    BY <1>3, <1>4, <1>5, <1>6, BoostQuiet
  <1>7. CASE c \in Boosts
    <2>1. /\ boosted /\ \A b \in Boosts : pods[b] = 0
          /\ \A v \in Workers : At(v, "forward") /\ Act(v) \in Boosts => v = w
      BY <1>2, <1>7 DEF OneBoostInv, Forward
    <2>2. h'[w] = q /\ \A v \in Workers : v # w => h'[v] = h[v]
      BY <1>3, GoLemma DEF HandlingInv
    <2>3. \A v \in Workers : ~(At(v, "forward")' /\ Act(v)' \in Boosts)
      BY <1>3, <2>1, <2>2 DEF At, Act, ForwardsBoost
    <2>4. \A b \in Boosts : b # c => pods'[b] = 0
      BY <1>4, <1>5, <2>1
    <2>5. boosted'
      BY <1>4, <2>1
    <2> QED BY <2>3, <2>4, <2>5 DEF OneBoostInv
  <1> QED BY <1>6, <1>7

LEMMA NextOneBoost == ASSUME HandlingInv, OneBoostInv, [Next]_vars PROVE OneBoostInv'
  <1>1. ASSUME NEW w \in Workers, Process(w) PROVE OneBoostInv'
    BY <1>1, BoostQuietKeeps, BoostKeepsOne, ForwardKeepsOne DEF Process, BoostQuietFor
  <1>2. ASSUME NEW w \in Workers, CallFails(w) PROVE OneBoostInv'
    <2>1. PICK q : q = Thrown(h[w]) /\ Go(w, q)
      BY <1>2 DEF CallFails
    <2>2. ~ForwardsBoost(q)
      BY <1>2, <2>1, BusyLemma, ThrownLemma
      DEF CallFails, HandlingInv, Busy, Throwing, Renounces, ForwardsBoost, Idle
    <2> QED BY <1>2, <2>1, <2>2, BoostQuiet DEF CallFails, guards, effects
  <1>3. ASSUME NEW w \in Workers, NEW m \in MsgIds, Receive(w, m) PROVE OneBoostInv'
    <2>1. PICK q : q.pc \in {"requeue", "screen"} /\ Go(w, q)
      BY <1>3 DEF Receive
    <2> QED BY <1>3, <2>1, BoostQuiet DEF Receive, guards, effects, ForwardsBoost
  <1>4. CASE Crash
    <2>1. boosted' = boosted /\ pods' = pods
      BY <1>4 DEF Crash, guards, effects
    <2>2. \A v \in Workers : h'[v] = h[v] \/ h'[v] = Idle
      BY <1>4 DEF Crash
    <2> QED BY <2>1, <2>2 DEF OneBoostInv, At, Act, Idle
  <1>5. CASE Tick \/ UNCHANGED vars \/ \E a \in Acts : Deliver(a)
    <2>1. boosted' = boosted /\ pods' = pods /\ h' = h
      BY <1>5 DEF Tick, vars, Deliver, guards, effects
    <2> QED BY <2>1 DEF OneBoostInv, At, Act
  <1> QED BY <1>1, <1>2, <1>3, <1>4, <1>5 DEF Next

LEMMA InitOneBoost == Init => OneBoostInv
  BY ConstantsAssumption DEF Init, OneBoostInv, At, Act, Idle

\* Of the Announces of one object by one actor, one reaches ActivityPods.
THEOREM OneBoostIsTaken == Spec => []BoostOnce
  <1>1. OneBoostInv => BoostOnce
    BY DEF OneBoostInv, BoostOnce
  <1> QED BY <1>1, HandlingInvariant, InitOneBoost, NextOneBoost, PTL DEF Spec

-----------------------------------------------------------------------------
\* One case per report at an inbox

AddsCase(r, a) == r.pc = "addCase" /\ r.env.act = a

\* Nobody starts to add a case, and none is added.
LEMMA CaseQuiet ==
    ASSUME HandlingInv, OneCaseInv, NEW w \in Workers, NEW q, Go(w, q), q.pc # "addCase",
           cases' = cases, caseKeys' = caseKeys, raced \subseteq raced', erred \subseteq erred'
    PROVE  OneCaseInv'
  <1>1. h'[w] = q /\ \A v \in Workers : v # w => h'[v] = h[v]
    BY GoLemma DEF HandlingInv
  <1>2. ASSUME NEW v \in Workers, h'[v].pc = "addCase" PROVE h'[v] = h[v]
    BY <1>1, <1>2
  <1> QED BY <1>1, <1>2 DEF OneCaseInv, At, Act

\* The handlers' steps but FindCase and AddCase.
CaseQuietFor(w) ==
    \/ Requeue(w) \/ Screen(w) \/ Policy(w) \/ PatchCase(w) \/ SendEvent(w) \/ Claim(w)
    \/ Boost(w) \/ Forward(w) \/ Publish(w) \/ Ack(w) \/ MoveToDlq(w) \/ Retry(w)

LEMMA CaseQuietKeeps ==
    ASSUME HandlingInv, OneCaseInv, NEW w \in Workers, CaseQuietFor(w) PROVE OneCaseInv'
  <1>1. Busy(w)
    BY DEF CaseQuietFor, Requeue, Screen, Policy, PatchCase, SendEvent, Claim, Boost, Forward,
       Publish, Ack, MoveToDlq, Retry, At, Busy
  <1>2. h[w] \in Handler /\ Fits(h[w]) /\ h[w].env \in Envelope /\ Act(w) \in Acts
    BY <1>1, BusyLemma DEF HandlingInv
  <1>3. /\ cases' = cases /\ caseKeys' = caseKeys /\ raced' = raced
        /\ erred' \in {erred, erred \cup {Act(w)}}
    <2>1. \A r : Reply(w, r) => erred' \in {erred, erred \cup {Act(w)}}
      BY DEF Reply
    <2> QED BY <2>1 DEF CaseQuietFor, Requeue, Screen, Policy, PatchCase, SendEvent, Claim, Boost,
               Forward, Publish, Ack, MoveToDlq, Retry, moderation, history
  <1>4. PICK q : (Go(w, q) \/ Reply(w, q)) /\ q.pc # "addCase"
    <2>1. Idle.pc # "addCase"
      BY DEF Idle
    <2>2. \A then \in {"done", "dlq"} : AckThen(h[w], then).pc # "addCase"
      BY <1>2, AckThenLemma
    <2>3. \A p \in {"policy", "publish", "dlq", "retry"} : To(h[w], p).pc # "addCase"
      BY <1>2, ToLemma DEF Throwing
    <2>4. CASE Policy(w)
      <3>1. h[w].then = "done" /\ h[w].env.act \in Acts
        BY <1>2, <2>4 DEF Policy, At, Fits, Act
      <3>2. AfterPolicy(h[w]).pc # "addCase"
        BY <1>2, <3>1, AfterPolicyLemma
      <3> QED BY <2>2, <2>4, <3>2 DEF Policy
    <2>5. CASE Claim(w)
      <3>1. h[w].then = "done" /\ h[w].env.act \notin Reports
        BY <1>2, <2>5 DEF Claim, At, Fits, Guarded, Reports
      <3>2. AfterClaim(h[w]).pc # "addCase"
        BY <1>2, <3>1, AfterClaimLemma
      <3> QED BY <2>2, <2>5, <3>2 DEF Claim, Duplicate
    <2>6. CASE Boost(w)
      <3>1. h[w].then = "done" /\ h[w].env.act \notin Reports
        BY <1>2, <2>6, ConstantsAssumption DEF Boost, At, Fits, Reports
      <3>2. Route(h[w]).pc # "addCase"
        BY <1>2, <3>1, RouteLemma
      <3> QED BY <2>2, <2>6, <3>2 DEF Boost, Duplicate
    <2>7. CASE Forward(w)
      <3>1. h[w].env.act \notin Reports \cup Bypassed
        BY <1>2, <2>7 DEF Forward, At, Fits
      <3>2. AfterTransient(h[w]).pc # "addCase"
        BY <1>2, <3>1, AfterTransientLemma
      <3> QED BY <2>2, <2>3, <2>7, <3>2 DEF Forward
    <2>8. CASE Ack(w)
      BY <1>2, <2>1, <2>3, <2>8 DEF Ack, Handler
    <2>9. CASE Requeue(w) \/ PatchCase(w)
      BY <2>2, <2>3, <2>9 DEF Requeue, PatchCase
    <2>10. CASE SendEvent(w) \/ Publish(w) \/ MoveToDlq(w) \/ Retry(w)
      BY <2>1, <2>2, <2>10 DEF SendEvent, NotAccepted, Publish, MoveToDlq, Retry
    <2>11. CASE Screen(w)
      <3>1. Thrown(h[w]).pc # "addCase"
        BY <1>2, ThrownLemma DEF Renounces, Idle
      <3>2. \/ Go(w, To(h[w], "policy")) \/ Go(w, AckThen(h[w], "dlq"))
            \/ Go(w, Thrown(h[w]))
        BY <2>11 DEF Screen
      <3> QED BY <2>2, <2>3, <3>1, <3>2
    <2> QED BY <2>4, <2>5, <2>6, <2>7, <2>8, <2>9, <2>10, <2>11 DEF CaseQuietFor
  <1>5. PICK t : t = Thrown(h[w])
    OBVIOUS
  <1>6. t.pc # "addCase"
    BY <1>2, <1>5, ThrownLemma DEF Renounces, Idle
  <1>7. Go(w, q) \/ Go(w, t)
    BY <1>1, <1>4, <1>5, ReplyLemma DEF HandlingInv
  <1> QED BY <1>3, <1>4, <1>6, <1>7, CaseQuiet

\* The look-up of c by w: the report of another handler that has looked it
\* up and not stored it counts as raced.
LooksUp(w, c) ==
    /\ Reply(w, IF KnownCase(c) THEN AckThen(h[w], "done") ELSE To(h[w], "addCase"))
    /\ raced' = raced \cup {Act(v) : v \in {v \in Workers \ {w} :
                                             At(v, "addCase") /\ Act(v) = c}}

LEMMA LookUpKeepsOne ==
    ASSUME HandlingInv, OneCaseInv, NEW w \in Workers, Busy(w), NEW c \in Flags,
           c = h[w].env.act, LooksUp(w, c), cases' = cases, caseKeys' = caseKeys
    PROVE  OneCaseInv'
  <1>1. h[w] \in Handler /\ Fits(h[w])
    BY BusyLemma DEF HandlingInv
  <1>2. c = Act(w)
    BY DEF Act
  <1>3. raced' = raced \cup {Act(v) : v \in {v \in Workers \ {w} :
                                              At(v, "addCase") /\ Act(v) = c}}
    BY DEF LooksUp
  <1>4. PICK r : /\ Reply(w, r)
                 /\ r.pc = "addCase" => c \notin caseKeys /\ r.env.act = c
    <2>1. AckThen(h[w], "done").pc = "ack" /\ To(h[w], "addCase").env = h[w].env
      BY <1>1, AckThenLemma, ToLemma DEF Throwing
    <2>2. CASE c \in caseKeys
      BY <1>2, <2>1, <2>2 DEF LooksUp, KnownCase
    <2>3. CASE c \notin caseKeys
      BY <1>2, <2>1, <2>3 DEF LooksUp, KnownCase
    <2> QED BY <2>2, <2>3
  <1>5. PICK t : t = Thrown(h[w])
    OBVIOUS
  <1>6. t.pc # "addCase"
    BY <1>1, <1>5, ThrownLemma DEF Renounces, Idle
  <1>7. PICK q \in {r, t} : Go(w, q) /\ erred \subseteq erred'
    BY <1>1, <1>4, <1>5, ReplyLemma DEF HandlingInv
  <1>8. CASE q.pc # "addCase"
    BY <1>3, <1>7, <1>8, CaseQuiet
  <1>9. CASE q.pc = "addCase"
    <2>1. h'[w] = q /\ \A v \in Workers : v # w => h'[v] = h[v]
      BY <1>7, GoLemma DEF HandlingInv
    <2>2. q.env.act = c /\ c \notin caseKeys
      BY <1>4, <1>6, <1>7, <1>9
    <2> SUFFICES ASSUME NEW a \in Flags, a \notin raced' \cup erred'
                 PROVE  /\ cases'[a] <= 1
                        /\ cases'[a] = 1 <=> a \in caseKeys'
                        /\ \A v \in Workers : At(v, "addCase")' /\ Act(v)' = a =>
                              /\ cases'[a] = 0
                              /\ \A u \in Workers : At(u, "addCase")' /\ Act(u)' = a => u = v
      BY DEF OneCaseInv
    <2>3. /\ cases[a] <= 1 /\ (cases[a] = 1 <=> a \in caseKeys)
          /\ \A v \in Workers : At(v, "addCase") /\ Act(v) = a =>
                /\ cases[a] = 0
                /\ \A u \in Workers : At(u, "addCase") /\ Act(u) = a => u = v
      BY <1>3, <1>7 DEF OneCaseInv
    <2>4. CASE a # c
      BY <1>3, <2>1, <2>2, <2>3, <2>4 DEF At, Act
    <2>5. CASE a = c
      <3>1. \A v \in Workers : v # w => ~(At(v, "addCase") /\ Act(v) = c)
        BY <1>2, <1>3, <2>5
      <3>2. cases[c] = 0
        BY <2>2, <2>3, <2>5, ConstantsAssumption DEF HandlingInv, TypeOK, Few
      <3> QED BY <1>3, <2>1, <2>3, <2>5, <3>1, <3>2 DEF At, Act
    <2> QED BY <2>4, <2>5
  <1> QED BY <1>8, <1>9

LEMMA FindCaseKeepsOne ==
    ASSUME HandlingInv, OneCaseInv, NEW w \in Workers, FindCase(w) PROVE OneCaseInv'
  <1>1. Busy(w) /\ h[w] \in Handler /\ Fits(h[w])
    BY BusyLemma DEF FindCase, HandlingInv, At, Busy
  <1>2. PICK c \in Flags : c = Act(w) /\ c = h[w].env.act
    BY <1>1 DEF FindCase, At, Fits, Act
  <1>3. cases' = cases /\ caseKeys' = caseKeys
    BY DEF FindCase, moderation
  <1>4. CASE LooksUp(w, c)
    BY <1>1, <1>2, <1>3, <1>4, LookUpKeepsOne
  <1>5. CASE Go(w, AckThen(h[w], "done")) /\ raced' = raced /\ erred' = erred
    <2>1. PICK q : q = AckThen(h[w], "done")
      OBVIOUS
    <2>2. Go(w, q) /\ q.pc # "addCase"
      BY <1>1, <1>5, <2>1, AckThenLemma
    <2> QED BY <1>3, <1>5, <2>2, CaseQuiet
  <1> QED BY <1>2, <1>4, <1>5 DEF FindCase, LooksUp

LEMMA AddCaseKeepsOne ==
    ASSUME HandlingInv, OneCaseInv, NEW w \in Workers, AddCase(w) PROVE OneCaseInv'
  <1>1. Busy(w) /\ h[w] \in Handler /\ Fits(h[w])
    BY BusyLemma DEF AddCase, HandlingInv, At, Busy
  <1>2. PICK c \in Flags : c = Act(w) /\ c \in Acts
    BY <1>1, ConstantsAssumption DEF AddCase, At, Fits, Act
  <1>3. PICK r : r = To(h[w], "patchCase")
    OBVIOUS
  <1>4. r.pc = "patchCase"
    BY <1>1, <1>3, ToLemma DEF Throwing
  <1>5. PICK t : t = Thrown(h[w])
    OBVIOUS
  <1>6. t.pc # "addCase"
    BY <1>1, <1>5, ThrownLemma DEF Renounces, Idle
  <1>7. /\ raced' = raced /\ erred \subseteq erred'
        /\ cases' \in {cases, Bump(cases, c)} /\ caseKeys \subseteq caseKeys'
        /\ caseKeys' \subseteq caseKeys \cup {c}
        /\ c \in erred' \/ (cases' = Bump(cases, c) /\ c \in caseKeys')
    BY <1>1, <1>2, ReplyLemma DEF AddCase, history, HandlingInv
  <1>8. PICK q : Go(w, q) /\ q.pc # "addCase"
    BY <1>1, <1>3, <1>4, <1>5, <1>6, ReplyLemma DEF AddCase, HandlingInv
  <1>9. h'[w] = q /\ \A v \in Workers : v # w => h'[v] = h[v]
    BY <1>8, GoLemma DEF HandlingInv
  <1>10. cases \in [Acts -> Few] /\ Flags \subseteq Acts
    BY ConstantsAssumption DEF HandlingInv, TypeOK
  <1> SUFFICES ASSUME NEW a \in Flags, a \notin raced' \cup erred'
               PROVE  /\ cases'[a] <= 1
                      /\ cases'[a] = 1 <=> a \in caseKeys'
                      /\ \A v \in Workers : At(v, "addCase")' /\ Act(v)' = a =>
                            /\ cases'[a] = 0
                            /\ \A u \in Workers : At(u, "addCase")' /\ Act(u)' = a => u = v
    BY DEF OneCaseInv
  <1>11. /\ cases[a] <= 1 /\ (cases[a] = 1 <=> a \in caseKeys)
         /\ \A v \in Workers : At(v, "addCase") /\ Act(v) = a =>
               /\ cases[a] = 0
               /\ \A u \in Workers : At(u, "addCase") /\ Act(u) = a => u = v
    BY <1>7 DEF OneCaseInv
  <1>12. ASSUME NEW v \in Workers, At(v, "addCase")', Act(v)' = a
         PROVE  v # w /\ At(v, "addCase") /\ Act(v) = a
    BY <1>8, <1>9, <1>12 DEF At, Act
  <1>13. CASE a # c
    <2>1. cases'[a] = cases[a]
      BY <1>2, <1>7, <1>10, <1>13, BumpLemma
    <2> QED BY <1>7, <1>11, <1>12, <1>13, <2>1
  <1>14. CASE a = c
    <2>1. cases[c] = 0 /\ \A v \in Workers : At(v, "addCase") /\ Act(v) = c => v = w
      BY <1>2, <1>11, <1>14 DEF AddCase
    <2>2. cases'[c] = 1 /\ c \in caseKeys'
      BY <1>2, <1>7, <1>10, <1>14, <2>1, BumpLemma
    <2> QED BY <1>12, <1>14, <2>1, <2>2
  <1> QED BY <1>13, <1>14

LEMMA NextOneCase == ASSUME HandlingInv, OneCaseInv, [Next]_vars PROVE OneCaseInv'
  <1>1. ASSUME NEW w \in Workers, Process(w) PROVE OneCaseInv'
    BY <1>1, CaseQuietKeeps, FindCaseKeepsOne, AddCaseKeepsOne DEF Process, CaseQuietFor
  <1>2. ASSUME NEW w \in Workers, CallFails(w) PROVE OneCaseInv'
    <2>1. PICK q : q = Thrown(h[w]) /\ Go(w, q)
      BY <1>2 DEF CallFails
    <2>2. q.pc # "addCase"
      BY <1>2, <2>1, BusyLemma, ThrownLemma
      DEF CallFails, HandlingInv, Busy, Throwing, Renounces, Idle
    <2> QED BY <1>2, <2>1, <2>2, CaseQuiet DEF CallFails, moderation, history
  <1>3. ASSUME NEW w \in Workers, NEW m \in MsgIds, Receive(w, m) PROVE OneCaseInv'
    <2>1. PICK q : q.pc \in {"requeue", "screen"} /\ Go(w, q)
      BY <1>3 DEF Receive
    <2> QED BY <1>3, <2>1, CaseQuiet DEF Receive, moderation, history
  <1>4. CASE Crash
    <2>1. cases' = cases /\ caseKeys' = caseKeys /\ raced' = raced /\ erred' = erred
      BY <1>4 DEF Crash, moderation
    <2>2. \A v \in Workers : h'[v] = h[v] \/ h'[v] = Idle
      BY <1>4 DEF Crash
    <2> QED BY <2>1, <2>2 DEF OneCaseInv, At, Act, Idle
  <1>5. CASE Tick \/ UNCHANGED vars \/ \E a \in Acts : Deliver(a)
    <2>1. cases' = cases /\ caseKeys' = caseKeys /\ raced' = raced /\ erred' = erred /\ h' = h
      BY <1>5 DEF Tick, vars, Deliver, moderation, history
    <2> QED BY <2>1 DEF OneCaseInv, At, Act
  <1> QED BY <1>1, <1>2, <1>3, <1>4, <1>5 DEF Next

LEMMA InitOneCase == Init => OneCaseInv
  BY ConstantsAssumption DEF Init, OneCaseInv, At, Act, Idle

\* A report has a second moderation case for one inbox only if a handler
\* looked it up between another's look-up and its write, or a call for it
\* failed.
THEOREM OneCaseUnlessRaced == Spec => []SecondCaseOnlyIfRaced
  <1>1. HandlingInv /\ OneCaseInv => SecondCaseOnlyIfRaced
    BY ConstantsAssumption DEF OneCaseInv, SecondCaseOnlyIfRaced, HandlingInv, TypeOK, Few
  <1> QED BY <1>1, HandlingInvariant, InitOneCase, NextOneCase, PTL DEF Spec
=============================================================================
