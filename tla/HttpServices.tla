---------------------------- MODULE HttpServices ----------------------------
(***************************************************************************)
(* What the HTTP server has going on beside the requests for the VM: the   *)
(* deliveries that outlive the request which started them, and the viewers *)
(* of the VNC proxy.  The two have no state in common, so that what one    *)
(* does says nothing about what the other may do next, and the clients of  *)
(* a behaviour use one of them.                                            *)
(***************************************************************************)
EXTENDS EventService, VncProxy

VARIABLE inUse   \* the service that the clients use

httpVars == <<eventVars, vncVars, inUse>>

HttpInit ==
    /\ EventInit
    /\ VncInit
    /\ inUse \in {"events", "vnc"}

HttpNext ==
    /\ \/ inUse = "events" /\ EventNext /\ UNCHANGED vncVars
       \/ inUse = "vnc" /\ VncNext /\ UNCHANGED eventVars
    /\ UNCHANGED inUse

HttpSpec == HttpInit /\ [][HttpNext]_httpVars /\ EventFairness /\ VncFairness
=============================================================================
