--------------------------- MODULE MCRealtimeStream ---------------------------
(* RealtimeStream for TLC: processes are interchangeable, and so are the     *)
(* public events, which are numbers here: only runs that take them up in     *)
(* order are looked at.                                                      *)
EXTENDS RealtimeStream, TLC

Symmetry == Permutations(Processes)

InOrder == \A e \in arrived \cap Public, d \in Public : d < e => d \in arrived
===============================================================================
