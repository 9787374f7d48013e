-------------------------- MODULE MCOutboundDelivery --------------------------
(* OutboundDelivery for TLC: handlers are interchangeable. *)
EXTENDS OutboundDelivery, TLC

Symmetry == Permutations(Workers)
=============================================================================
