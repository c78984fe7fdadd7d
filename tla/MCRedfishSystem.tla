--------------------------- MODULE MCRedfishSystem ---------------------------
(* Model checking instance of RedfishSystem.                                *)
EXTENDS RedfishSystem, TLC

MCSymmetry == Permutations(Patchers) \cup Permutations(Urls)

Body(order, enabled, target, light) ==
    [order |-> order, enabled |-> enabled, target |-> target, led |-> light]

\* A boot order, a one-time boot in full and in part, a target that does not
\* exist, and nothing.
MCBodies ==
    {Body("PxeFirst", "Continuous", "None", Absent), Body(Absent, "Once", "Pxe", Absent),
     Body(Absent, Absent, "Hdd", "Lit"), Body(Absent, "Once", "Floppy", "Lit"),
     Body(Absent, Absent, Absent, Absent)}
=============================================================================
