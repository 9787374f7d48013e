--------------------------- MODULE FederationPipeline ---------------------------
(***************************************************************************)
(* The way of a local activity out of the sidecar: the intents of          *)
(* OutboxIntent, whose fan-out hands one job per inbox to the delivery     *)
(* side, which is taken at its word (DeliveryPromise, which                *)
(* OutboundDelivery implements).  The fan-out script is the only interface *)
(* of the two: enqueueOutboundBatchForIntent in                            *)
(* fedify-sidecar/src/queue/sidecar-redis-queue-core.ts.                   *)
(***************************************************************************)
EXTENDS OutboxIntent

CONSTANT Inboxes     \* inboxes that an intent with targets goes to

VARIABLES handed, sent, doubt, proved, dead

promise == <<handed, sent, doubt, proved, dead>>

\* The job of an intent for one inbox; its id is made of both.
Jobs == (Intents \ ZeroTarget) \X Inboxes
JobsOf(i) == {j \in Jobs : j[1] = i}

Delivery == INSTANCE DeliveryPromise

\* Wrong: the script writes its marker and stops before the last job.
NewJobsLess(i) == JobsOf(i) \ {CHOOSE j \in JobsOf(i) : TRUE}

\* The jobs that the fan-out script adds for an intent.
NewJobs(i) == JobsOf(i)

PipelineInit == Init /\ Delivery!Init

\* A step of the intent side hands over the jobs of what it fans out.
IntentStep ==
    /\ Next
    /\ LET J == UNION {NewJobs(i) : i \in {k \in Intents : fanned'[k] # fanned[k]}}
       IN  IF J = {} THEN UNCHANGED promise ELSE Delivery!Hand(J)

\* An open job gets its proof of delivery or its DLQ record.
Settle(j) ==
    /\ ~Delivery!Settled(j)
    /\ Delivery!Prove(j) \/ Delivery!Bury(j)
    /\ UNCHANGED vars

\* Whatever else the delivery side may do.
DeliverStep(j) ==
    /\ \/ Delivery!Send(j) \/ Delivery!Lose({j})
       \/ Delivery!Settled(j) /\ (Delivery!Prove(j) \/ Delivery!Bury(j))
    /\ UNCHANGED vars

PipelineNext == IntentStep \/ \E j \in Jobs : DeliverStep(j) \/ Settle(j)

PipelineVars == <<vars, promise>>

\* Fairness of the intent side, and the promise of the delivery side to settle.
PipelineSpec ==
    /\ PipelineInit /\ [][PipelineNext]_PipelineVars
    /\ Fairness
    /\ \A j \in Jobs : WF_PipelineVars(Settle(j))

-----------------------------------------------------------------------------
\* An accepted activity with targets ends in the intent DLQ, or every one of
\* its inboxes has it or its job is in the delivery DLQ, although the fan-out
\* may be interrupted, repeated and raced at every step.
EveryInboxServed ==
    \A i \in Intents \ ZeroTarget :
        accepted[i] # {} ~> i \in dlq \/ \A j \in JobsOf(i) : Delivery!Settled(j)
================================================================================
