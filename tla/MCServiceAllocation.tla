------------------------ MODULE MCServiceAllocation ------------------------
(* ServiceAllocation for TLC. No property names a Service or a request.    *)
EXTENDS ServiceAllocation, TLC

Symmetry == Permutations(ServiceNames) \cup Permutations(Requests)
=============================================================================
