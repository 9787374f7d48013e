---------------------------- MODULE MCInboundWorker ----------------------------
(* InboundWorker for TLC.  Notes holds one activity at several inboxes,      *)
(* Flags one report at several inboxes.  Handlers, boosts and the inboxes of *)
(* the activity are interchangeable.                                         *)
EXTENDS InboundWorker, TLC

CONSTANT Notes

MCIdOf == [a \in Acts |-> CASE a \in Notes -> "note"
                            [] a \in Flags -> "flag"
                            [] OTHER -> a]

Symmetry ==
    UNION {Permutations(S) : S \in {Workers, Boosts, Notes \ Bypassed}}
================================================================================
