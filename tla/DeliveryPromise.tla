---------------------------- MODULE DeliveryPromise ----------------------------
(***************************************************************************)
(* What the sidecar promises for an outbound job once it has taken it      *)
(* over, without queues, handlers, claims or time: the remote inbox takes  *)
(* the job at most once, unless the sidecar has come to doubt whether an   *)
(* earlier POST arrived; a proof of delivery follows a delivery; jobs that *)
(* were never handed over are left alone; and every job ends proved or     *)
(* dead.  OutboundDelivery implements it (PromiseKept there), and          *)
(* FederationPipeline uses it in place of the delivery machinery.          *)
(***************************************************************************)
EXTENDS Naturals

CONSTANT Jobs

VARIABLES
    handed,  \* jobs the sidecar has durably taken over
    sent,    \* job -> how often its inbox took it (2: twice or more)
    doubt,   \* jobs of which a POST may have arrived without a proof
    proved,  \* jobs with a proof of delivery
    dead     \* jobs in the dead-letter queue

promise == <<handed, sent, doubt, proved, dead>>

Init ==
    /\ handed = {} /\ doubt = {} /\ proved = {} /\ dead = {}
    /\ sent = [j \in Jobs |-> 0]

\* Jobs are taken over, all at once or not at all.
Hand(J) ==
    /\ handed' = handed \cup J
    /\ UNCHANGED <<sent, doubt, proved, dead>>

\* The remote inbox takes the job; whether that is known remains open.
Send(j) ==
    /\ j \in handed
    /\ sent[j] = 0 \/ j \in doubt
    /\ sent' = [sent EXCEPT ![j] = IF @ = 2 THEN 2 ELSE @ + 1]
    /\ doubt' \in {doubt, doubt \cup {j}}
    /\ UNCHANGED <<handed, proved, dead>>

\* A response, a claim or a handler is lost.
Lose(J) ==
    /\ J \subseteq handed
    /\ doubt' = doubt \cup J
    /\ UNCHANGED <<handed, sent, proved, dead>>

Prove(j) ==
    /\ sent[j] > 0
    /\ proved' = proved \cup {j}
    /\ UNCHANGED <<handed, sent, doubt, dead>>

\* A job may be given up at any time after it was taken over.
Bury(j) ==
    /\ j \in handed
    /\ dead' = dead \cup {j}
    /\ UNCHANGED <<handed, sent, doubt, proved>>

Next ==
    \/ \E J \in SUBSET Jobs : Hand(J) \/ Lose(J)
    \/ \E j \in Jobs : Send(j) \/ Prove(j) \/ Bury(j)

Spec == Init /\ [][Next]_promise

Settled(j) == j \in proved \cup dead

\* Every job taken over is proved or buried in the end.
Settling == \A j \in Jobs : j \in handed ~> Settled(j)
================================================================================
