---------------------------- MODULE RedfishSystem ----------------------------
(***************************************************************************)
(* The handlers of the ComputerSystem and those of the virtual CD over one *)
(* machine.  They share nothing but the VM, so that what clients of both   *)
(* do at once is what each sees of a VM that starts and ends at any time:  *)
(* the clients of a behaviour use one of the two.                          *)
(***************************************************************************)
EXTENDS SystemPatch, VirtualMedia

VARIABLE inUse   \* the resource that the clients use

redfishVars == <<serviceVars, patchVars, mediaVars, inUse>>

RedfishInit ==
    /\ ServiceInit
    /\ PatchInit
    /\ MediaInit
    /\ inUse \in {"system", "cd"}

RedfishNext ==
    /\ \/ inUse = "system" /\ UNCHANGED mediaVars /\ \E c \in Patchers : PatchHandler(c)
       \/ inUse = "cd" /\ UNCHANGED patchVars /\ \E c \in MediaClients : MediaHandler(c)
       \/ /\ PatchEnvironment
          /\ DriveFollowsVm
          /\ UNCHANGED <<currentMedia, media, path, content, tainted, clerk>>
    /\ UNCHANGED inUse

RedfishSpec == RedfishInit /\ [][RedfishNext]_redfishVars
=============================================================================
