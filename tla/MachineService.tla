---------------------------- MODULE MachineService ----------------------------
(***************************************************************************)
(* The machine as the Redfish handlers see it: one VM at a time, as        *)
(* SingleVm says, and the boot override, which a boot may use up.  Machine *)
(* implements it (ImplementsService in BmcMain).                           *)
(***************************************************************************)
EXTENDS SingleVm

CONSTANT Overrides   \* the boot overrides that are set

VARIABLE override    \* the one in force; its mode, which nothing reads, is left out

serviceVars == <<vmVars, override>>

NoOverride == [enabled |-> "Disabled", target |-> "None"]

ServiceInit == Init /\ override = NoOverride

\* The VM starts, ends, or is noticed to have ended.
VmChanges == Next /\ UNCHANGED override

\* A Once override is used up, as a whole, some time after a boot.
ConsumeBootOnce ==
    /\ last # 0 /\ override.enabled = "Once"
    /\ override' = NoOverride
    /\ UNCHANGED vmVars

SetBootOverride(o) == override' = o /\ UNCHANGED vmVars

ServiceNext ==
    \/ VmChanges
    \/ ConsumeBootOnce
    \/ \E o \in Overrides : SetBootOverride(o)

ServiceSpec == ServiceInit /\ [][ServiceNext]_serviceVars
=============================================================================
