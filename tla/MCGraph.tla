------------------------------ MODULE MCGraph -------------------------------
(* TLC instances of DependencyGraph.                                       *)
EXTENDS DependencyGraph, TLC

(* Devices, and requests, are interchangeable; the safety run uses that.   *)
Symmetry == Permutations(Devices) \cup Permutations(Requests)

=============================================================================
