------------------------------ MODULE MCBmcMain ------------------------------
(* Model checking instances of BmcMain.                                     *)
EXTENDS BmcMain

MCOverrides ==
    {[enabled |-> "Once", target |-> "Pxe"], [enabled |-> "Continuous", target |-> "Pxe"]}
=============================================================================
