------------------------- MODULE MCOriginReconciliation -------------------------
(* OriginReconciliation for TLC: handlers are interchangeable, and a second *)
(* window and a mishap are looked at one at a time.                         *)
EXTENDS OriginReconciliation, TLC

Symmetry == Permutations(Workers)

OneTrouble == windows + mishaps <= 2
================================================================================
