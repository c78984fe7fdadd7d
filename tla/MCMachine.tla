------------------------------ MODULE MCMachine ------------------------------
(* Model checking instances of Machine.                                     *)
EXTENDS Machine, TLC

MCCallers == Permutations(Callers)

MCOverrides == {[enabled |-> "Once", target |-> "Pxe"]}
=============================================================================
