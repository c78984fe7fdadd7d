----------------------------- MODULE IpmiServers -----------------------------
(***************************************************************************)
(* The two ways in for IPMI: the connections of QEMUs, and the sessions of *)
(* consoles over UDP.  The servers share the operations on State, which    *)
(* IpmiCommands (LAN parameters, channels, boot options) and BmcUsers      *)
(* model; here they have no state in common, so that what one does says    *)
(* nothing about what the other may do next, and a behaviour uses one.     *)
(***************************************************************************)
EXTENDS VmWire, RmcpSession

VARIABLE inUse   \* the server that is spoken to

ipmiVars == <<commandVars, wireVars, rmcpVars, inUse>>

ServersInit ==
    /\ WireInit
    /\ RmcpInit
    /\ inUse \in {"vm", "lan"}

ServersNext ==
    /\ \/ inUse = "vm" /\ WireNext /\ UNCHANGED rmcpVars
       \/ inUse = "lan" /\ RmcpNext /\ UNCHANGED <<commandVars, wireVars>>
    /\ UNCHANGED inUse

ServersSpec == ServersInit /\ [][ServersNext]_ipmiVars /\ RmcpFairness
=============================================================================
