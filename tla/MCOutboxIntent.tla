---------------------------- MODULE MCOutboxIntent ----------------------------
(* OutboxIntent for TLC: handlers are interchangeable. *)
EXTENDS OutboxIntent, TLC

Symmetry == Permutations(Workers)

\* Two things go wrong in a behaviour: failed calls, a crash, a second hand-over.
TwoTroubles == accepts + faults + crashes <= 3
=============================================================================
