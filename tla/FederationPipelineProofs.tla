------------------------ MODULE FederationPipelineProofs ------------------------
(***************************************************************************)
(* Proofs about FederationPipeline for any intents, inboxes, handlers and  *)
(* limits: the composition is a behaviour of both of its sides, so what    *)
(* OutboxIntentProofs says of the intents holds in it, and the delivery    *)
(* side has taken over exactly the jobs of the intents that were fanned    *)
(* out, and no inbox sees what the event log does not have.                *)
(***************************************************************************)
EXTENDS FederationPipeline, OutboxIntentProofs

\* A job was taken over by the delivery side if its intent was fanned out, and
\* only then.
HandedAsFanned == handed = {j \in Jobs : fanned[j[1]] > 0}

\* What is done of a completed intent: every job of it was taken over.
CompletedIsHandedOver == \A i \in completed \ ZeroTarget : JobsOf(i) \subseteq handed

LEMMA DeliverySteps ==
    ASSUME NEW j \in Jobs, DeliverStep(j) \/ Settle(j)
    PROVE  UNCHANGED vars /\ Delivery!Next /\ handed' = handed
  <1>1. UNCHANGED vars
    BY DEF DeliverStep, Settle
  <1>2. \/ Delivery!Prove(j) \/ Delivery!Bury(j) \/ Delivery!Send(j)
        \/ Delivery!Lose({j})
    BY DEF DeliverStep, Settle
  <1>3. {j} \in SUBSET Jobs
    OBVIOUS
  <1>4. handed' = handed
    BY <1>2 DEF Delivery!Prove, Delivery!Bury, Delivery!Send, Delivery!Lose
  <1>5. Delivery!Next
    BY <1>2, <1>3 DEF Delivery!Next
  <1> QED BY <1>1, <1>4, <1>5

\* The jobs that a step of the intent side hands over.
LEMMA HandOver ==
    ASSUME IntentStep
    PROVE  /\ Next
           /\ \/ UNCHANGED promise
              \/ \E J \in SUBSET Jobs : Delivery!Hand(J)
           /\ handed' = handed \cup {j \in Jobs : fanned'[j[1]] # fanned[j[1]]}
  <1> DEFINE J == UNION {NewJobs(i) : i \in {k \in Intents : fanned'[k] # fanned[k]}}
  <1>1. Next /\ IF J = {} THEN UNCHANGED promise ELSE Delivery!Hand(J)
    BY DEF IntentStep
  <1>2. J = {j \in Jobs : fanned'[j[1]] # fanned[j[1]]}
    <2>1. \A j \in Jobs : j[1] \in Intents
      BY DEF Jobs
    <2> QED BY <2>1 DEF NewJobs, JobsOf
  <1>3. J \in SUBSET Jobs
    BY <1>2
  <1> HIDE DEF J
  <1>4. CASE J = {}
    BY <1>1, <1>2, <1>4 DEF promise
  <1>5. CASE J # {}
    BY <1>1, <1>2, <1>3, <1>5 DEF Delivery!Hand
  <1> QED BY <1>4, <1>5

\* The composition does nothing to the intents that OutboxIntent does not do.
THEOREM IntentSideKept == PipelineSpec => Spec
  <1>1. PipelineInit => Init
    BY DEF PipelineInit
  <1>2. ASSUME [PipelineNext]_PipelineVars
        PROVE  [Next]_vars
    <2>1. CASE IntentStep
      BY <2>1, HandOver
    <2>2. CASE \E j \in Jobs : DeliverStep(j) \/ Settle(j)
      BY <2>2, DeliverySteps
    <2>3. CASE UNCHANGED PipelineVars
      BY <2>3 DEF PipelineVars
    <2> QED BY <1>2, <2>1, <2>2, <2>3 DEF PipelineNext
  <1> QED BY <1>1, <1>2, PTL DEF PipelineSpec, Spec

\* ... and nothing to the jobs that DeliveryPromise does not allow: the fan-out
\* script hands over jobs, all of an intent at once, and touches nothing else.
THEOREM DeliverySideKept == PipelineSpec => Delivery!Spec
  <1>1. PipelineInit => Delivery!Init
    BY DEF PipelineInit
  <1>2. ASSUME [PipelineNext]_PipelineVars
        PROVE  [Delivery!Next]_(Delivery!promise)
    <2>1. CASE IntentStep
      BY <2>1, HandOver DEF Delivery!Next, Delivery!promise, promise
    <2>2. CASE \E j \in Jobs : DeliverStep(j) \/ Settle(j)
      BY <2>2, DeliverySteps
    <2>3. CASE UNCHANGED PipelineVars
      BY <2>3 DEF PipelineVars, Delivery!promise, promise
    <2> QED BY <1>2, <2>1, <2>2, <2>3 DEF PipelineNext
  <1> QED BY <1>1, <1>2, PTL DEF PipelineSpec, Delivery!Spec

\* A completed intent is in the event log and, if it has targets, fanned out,
\* in the composition as well.
THEOREM CompletedInPipeline == PipelineSpec => []CompletedMeansHandedOn
  BY IntentSideKept, CompletedIsHandedOn, PTL

LEMMA EnqueuedGrows ==
    ASSUME [Next]_vars
    PROVE  enqueued \subseteq enqueued'
  <1>1. ASSUME NEW w \in Workers, Handle(w)
        PROVE  enqueued \subseteq enqueued'
    BY <1>1 DEF Handle, Start, Park, ReadState, Publish, Mark, FanOut, Finish, Ack, Retry,
                MoveToDlq, state
  <1>2. ASSUME NEW w \in Workers, CallFails(w) \/ \E m \in MsgIds : Receive(w, m)
        PROVE  enqueued' = enqueued
    BY <1>2 DEF CallFails, Receive, state
  <1>3. ASSUME NEW i \in Intents, Accept(i) \/ Promote(i)
        PROVE  enqueued' = enqueued
    BY <1>3 DEF Accept, Promote, state
  <1>4. CASE Tick \/ Crash \/ UNCHANGED vars
    BY <1>4 DEF Tick, Crash, vars, state
  <1> QED BY <1>1, <1>2, <1>3, <1>4 DEF Next

\* Jobs enter the delivery side exactly when their intent is fanned out: none
\* is left out by a marker that is set too early, none is there without one.
THEOREM JobsAreHandedOver == PipelineSpec => []HandedAsFanned
  <1>1. PipelineInit => HandedAsFanned
    <2> SUFFICES ASSUME PipelineInit PROVE HandedAsFanned
      OBVIOUS
    <2>1. \A j \in Jobs : j[1] \in Intents
      BY DEF Jobs
    <2> QED BY <2>1 DEF PipelineInit, Init, Delivery!Init, HandedAsFanned
  <1>2. ASSUME IntentInv, IntentInv', HandedAsFanned, [PipelineNext]_PipelineVars
        PROVE  HandedAsFanned'
    <2>1. CASE IntentStep
      <3>1. handed' = handed \cup {j \in Jobs : fanned'[j[1]] # fanned[j[1]]} /\ [Next]_vars
        BY <2>1, HandOver
      <3>2. enqueued \subseteq enqueued'
        BY <3>1, EnqueuedGrows
      <3>3. ASSUME NEW j \in Jobs
            PROVE  fanned'[j[1]] > 0 <=> fanned[j[1]] > 0 \/ fanned'[j[1]] # fanned[j[1]]
        <4>1. j[1] \in Intents \ ZeroTarget
          BY DEF Jobs
        <4>2. /\ fanned[j[1]] = IF j[1] \in enqueued \ ZeroTarget THEN 1 ELSE 0
              /\ fanned'[j[1]] = IF j[1] \in enqueued' \ ZeroTarget THEN 1 ELSE 0
          BY <1>2, <4>1 DEF IntentInv, HandedOn
        <4> QED BY <3>2, <4>1, <4>2
      <3> QED BY <1>2, <3>1, <3>3 DEF HandedAsFanned
    <2>2. CASE \E j \in Jobs : DeliverStep(j) \/ Settle(j)
      <3>1. handed' = handed /\ fanned' = fanned
        BY <2>2, DeliverySteps DEF vars, outputs
      <3> QED BY <1>2, <3>1 DEF HandedAsFanned
    <2>3. CASE UNCHANGED PipelineVars
      BY <1>2, <2>3 DEF PipelineVars, vars, outputs, promise, HandedAsFanned
    <2> QED BY <1>2, <2>1, <2>2, <2>3 DEF PipelineNext
  <1> QED BY <1>1, <1>2, IntentSideKept, IntentInvariant, PTL DEF PipelineSpec

\* markOutboxIntentCompleted: an intent is completed only when the delivery side
\* has the job of every one of its inboxes.
THEOREM CompletedIntentsAreHandedOver == PipelineSpec => []CompletedIsHandedOver
  <1>1. HandedAsFanned /\ CompletedMeansHandedOn => CompletedIsHandedOver
    BY DEF HandedAsFanned, CompletedMeansHandedOn, CompletedIsHandedOver, JobsOf
  <1> QED BY <1>1, JobsAreHandedOver, CompletedInPipeline, PTL

-----------------------------------------------------------------------------
\* From the event log to the inboxes

\* What the delivery side did to a job, in order: it was handed over before an
\* inbox took it, taken before it was proved, and doubted before it was taken
\* again.
DeliveredInOrder ==
    /\ sent \in [Jobs -> 0 .. 2]
    /\ handed \cup doubt \cup proved \cup dead \subseteq Jobs
    /\ \A j \in Jobs :
        /\ sent[j] > 0 \/ j \in doubt \cup dead => j \in handed
        /\ sent[j] > 1 => j \in doubt
        /\ j \in proved => sent[j] > 0

\* Whatever an inbox took is a record of the event log.
DeliveredIsLogged == \A j \in Jobs : sent[j] > 0 => log[j[1]] > 0

LEMMA OrderOfSteps ==
    ASSUME DeliveredInOrder, [Delivery!Next]_(Delivery!promise)
    PROVE  DeliveredInOrder'
  <1>1. ASSUME NEW J \in SUBSET Jobs, Delivery!Hand(J) \/ Delivery!Lose(J)
        PROVE  DeliveredInOrder'
    BY <1>1 DEF DeliveredInOrder, Delivery!Hand, Delivery!Lose
  <1>2. ASSUME NEW k \in Jobs, Delivery!Send(k)
        PROVE  DeliveredInOrder'
    <2>1. /\ k \in handed /\ (sent[k] = 0 \/ k \in doubt)
          /\ doubt \subseteq doubt' /\ doubt' \subseteq doubt \cup {k}
          /\ UNCHANGED <<handed, proved, dead>>
      BY <1>2 DEF Delivery!Send
    <2>2. /\ sent' \in [Jobs -> 0 .. 2] /\ sent'[k] > 0 /\ (sent'[k] > 1 => sent[k] > 0)
          /\ \A j \in Jobs : j # k => sent'[j] = sent[j]
      BY <1>2 DEF DeliveredInOrder, Delivery!Send
    <2>3. ASSUME NEW j \in Jobs
          PROVE  /\ sent'[j] > 0 \/ j \in doubt' \cup dead' => j \in handed'
                 /\ sent'[j] > 1 => j \in doubt'
                 /\ j \in proved' => sent'[j] > 0
      <3>1. CASE j = k
        <4>1. sent[k] \in 0 .. 2
          BY DEF DeliveredInOrder
        <4> QED BY <2>1, <2>2, <3>1, <4>1
      <3>2. CASE j # k
        BY <2>1, <2>2, <3>2 DEF DeliveredInOrder
      <3> QED BY <3>1, <3>2
    <2> QED BY <2>1, <2>2, <2>3 DEF DeliveredInOrder
  <1>3. ASSUME NEW k \in Jobs, Delivery!Prove(k) \/ Delivery!Bury(k)
        PROVE  DeliveredInOrder'
    BY <1>3 DEF DeliveredInOrder, Delivery!Prove, Delivery!Bury
  <1>4. CASE UNCHANGED Delivery!promise
    BY <1>4 DEF DeliveredInOrder, Delivery!promise
  <1> QED BY <1>1, <1>2, <1>3, <1>4 DEF Delivery!Next

\* An inbox takes a job a second time only in doubt about the first, a proof
\* follows a delivery, and jobs nobody fanned out are never sent: of the
\* promise, hence of the pipeline.
THEOREM DeliveryInOrder == PipelineSpec => []DeliveredInOrder
  <1>1. Delivery!Init => DeliveredInOrder
    BY DEF Delivery!Init, DeliveredInOrder
  <1>2. DeliveredInOrder /\ [Delivery!Next]_(Delivery!promise) => DeliveredInOrder'
    BY OrderOfSteps
  <1> QED BY <1>1, <1>2, DeliverySideKept, PTL DEF Delivery!Spec

\* The event log comes first: no remote inbox sees an activity that is not on
\* record there, however intents and jobs are retried and redelivered.
THEOREM InboxesSeeWhatIsLogged == PipelineSpec => []DeliveredIsLogged
  <1>1. DeliveredInOrder /\ HandedAsFanned /\ LoggedBeforeFanOut => DeliveredIsLogged
    <2> SUFFICES ASSUME DeliveredInOrder, HandedAsFanned, LoggedBeforeFanOut,
                        NEW j \in Jobs, sent[j] > 0
                 PROVE  log[j[1]] > 0
      BY DEF DeliveredIsLogged
    <2>1. fanned[j[1]] > 0
      BY DEF DeliveredInOrder, HandedAsFanned
    <2>2. j[1] \in Intents
      BY DEF Jobs
    <2> QED BY <2>1, <2>2 DEF LoggedBeforeFanOut
  <1> QED BY <1>1, DeliveryInOrder, JobsAreHandedOver, IntentSideKept, LoggedFirst, PTL
=============================================================================
