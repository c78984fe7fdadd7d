-------------------------- MODULE MCSystemSettings --------------------------
(* Model checking instance of SystemSettings.                               *)
EXTENDS SystemSettings, TLC
MCResetters == Permutations(Resetters)
=============================================================================
