---------------------------- MODULE MCDomainSlots ----------------------------
(* DomainSlots for TLC: handlers are interchangeable. *)
EXTENDS DomainSlots, TLC

Symmetry == Permutations(Handlers)
=============================================================================
