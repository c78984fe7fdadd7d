------------------------------- MODULE BmcMain -------------------------------
(***************************************************************************)
(* The life of the BMC process in process mode (cmd/qemu-bmc/main.go):     *)
(* power on at start, serve, and switch the VM off on SIGINT or SIGTERM.   *)
(* Main is the main goroutine; the other callers of Machine are the        *)
(* handlers of the three servers.  QEMU is its own process group, so it    *)
(* outlives the BMC.                                                       *)
(***************************************************************************)
EXTENDS Machine

CONSTANT Main   \* the main goroutine

ASSUME MainAssumption == Main \in Callers

VARIABLE phase   \* where main is

mainVars == <<machineVars, phase>>

Phases == {"starting", "booting", "serving", "stopping", "sleeping", "exited"}

\* The process exists; once main has returned no goroutine takes a step.
Alive == phase # "exited"

\* The servers run from the end of the power-on until the process exits:
\* nothing stops them when the shutdown begins.
Serving == phase \in {"serving", "stopping", "sleeping"}

BmcInit == MachineInit /\ phase = "starting"

\* POWER_ON_AT_START is set, or it is not.
PowerOn ==
    /\ phase = "starting"
    /\ Begin(Main, "On")
    /\ phase' = "booting"

ServeWithoutVm ==
    /\ phase = "starting"
    /\ phase' = "serving"
    /\ UNCHANGED machineVars

\* Variant: the result is not looked at.
PoweredOnUnchecked == phase = "booting" /\ phase' = "serving" /\ Answer(Main)

\* A power-on that fails is fatal.
PoweredOn ==
    /\ phase = "booting"
    /\ phase' = IF job[Main].reply = "ok" THEN "serving" ELSE "exited"
    /\ Answer(Main)

\* signal.Notify comes after the power-on: a signal before it ends the process.
KilledWhileBooting ==
    /\ phase \in {"starting", "booting"}
    /\ phase' = "exited"
    /\ UNCHANGED machineVars

\* Variant: the guest is asked to shut down.
ShutdownSignalGraceful ==
    /\ phase = "serving"
    /\ Begin(Main, "GracefulShutdown")
    /\ phase' = "stopping"

ShutdownSignal ==
    /\ phase = "serving"
    /\ Begin(Main, "ForceOff")
    /\ phase' = "stopping"

\* The result of ForceOff is only logged.
Stopped == phase = "stopping" /\ Answer(Main) /\ phase' = "sleeping"

\* main returns after half a second, whatever the handlers are doing, except
\* that the deferred Close of the QMP client waits for its mutex.
Exit ==
    /\ phase = "sleeping"
    /\ QmpFree
    /\ phase' = "exited"
    /\ connected' = FALSE
    /\ UNCHANGED <<processVars, conn, guest, hung, qmp, job, override>>

MainStep ==
    PowerOn \/ ServeWithoutVm \/ PoweredOn \/ ShutdownSignal \/ Stopped \/ Exit

\* Steps inside a request that do not end it.
Progress(t) == LockQmp(t) \/ Deadline(t) \/ (Work(t) /\ ~At(t, "reply"))

BmcNext ==
    \/ MainStep
    \/ KilledWhileBooting
    \/ /\ Alive
       /\ \/ Progress(Main)
          \/ \E t \in Callers \ {Main} :
                \/ Serving /\ \E r \in Requests : Begin(t, r)
                \/ Progress(t)
                \/ Answer(t)
          \/ \E g \in Gen : Monitor(g) /\ UNCHANGED <<qmpVars, job, override>>
          \/ \E o \in Overrides : Serving /\ SetBootOverride(o)
       /\ UNCHANGED phase
    \/ /\ \E g \in Gen : MonitorEnvironment(g)
                         \/ (ProcessExit(g) /\ UNCHANGED <<qmpVars, job, override>>)
       /\ UNCHANGED phase

BmcSpec == BmcInit /\ [][BmcNext]_mainVars

\* As in Machine, while the process lives; main goes on (Close, like the other
\* users of the QMP client, gets the mutex in its turn), but nobody has to send
\* it a signal.
BmcFairness ==
    /\ WF_mainVars(PowerOn \/ ServeWithoutVm \/ PoweredOn \/ Stopped)
    /\ SF_mainVars(Exit)
    /\ \A t \in Callers :
         /\ WF_mainVars(Alive /\ Work(t) /\ (t = Main => ~At(t, "reply")) /\ UNCHANGED phase)
         /\ WF_mainVars(Alive /\ Deadline(t) /\ UNCHANGED phase)
         /\ SF_mainVars(Alive /\ LockQmp(t) /\ UNCHANGED phase)
    /\ \A g \in Gen :
         /\ WF_mainVars(Alive /\ Monitor(g) /\ UNCHANGED <<qmpVars, job, override, phase>>)
         /\ WF_mainVars(/\ sig[g] = "kill" \/ (sig[g] = "quit" /\ g \notin hung)
                        /\ ProcessExit(g)
                        /\ UNCHANGED <<qmpVars, job, override, phase>>)

BmcFairSpec == BmcSpec /\ BmcFairness

-----------------------------------------------------------------------------
(***************************************************************************)
(* Properties                                                              *)
(***************************************************************************)

BmcTypeOK == MachineTypeOK /\ phase \in Phases

\* With POWER_ON_AT_START the servers start only over a VM whose QMP socket
\* has been connected (process-management-requirements 7.1).
ServersStartConnected ==
    [][phase = "booting" /\ phase' = "serving"
         => forks = 1 /\ connected /\ conn = forks]_mainVars

\* A shutdown signal ends the BMC, and the VM of the moment it comes: no wait
\* for QEMU or for another caller's request holds main up for ever, and nothing
\* that the handlers which go on serving do keeps that VM alive.
ShutdownEnds ==
    /\ phase = "stopping" ~> phase = "exited"
    /\ \A g \in Gen :
           (phase = "stopping" /\ g <= job[Main].since /\ proc[g] = "up") ~> proc[g] # "up"

\* The machine, under its main program, is what the Redfish handlers are modelled
\* over: one VM at a time, and an override that only SetBootOverride sets and
\* only ConsumeBootOnce uses up, wholly.
Service == INSTANCE MachineService WITH vm <- LiveVm, seen <- running, last <- forks

ImplementsService == Service!ServiceSpec

-----------------------------------------------------------------------------
(* What the requirements say and the code does not do                      *)

\* A QEMU that has not ended in time gets SIGKILL before the BMC exits
\* (process-management-requirements 7.2 and 8).
QemuKilledBeforeExit ==
    [][phase = "sleeping" /\ phase' = "exited"
         => \A g \in Gen : proc[g] = "up" => sig[g] = "kill"]_mainVars
-----------------------------------------------------------------------------
(***************************************************************************)
(* The inductive invariant of the power-on at the start: main is alone, so *)
(* the VM is the first one and nobody replaces the connection it makes.    *)
(***************************************************************************)

\* Main's On, statement by statement.
PoweringOn ==
    /\ job[Main].pc \in {"on_check", "on_target", "on_start", "on_started", "on_connect",
                         "on_connected", "on_consume", "reply"}
    /\ job[Main].pc \in {"on_check", "on_target", "on_start"} => forks = 0
    /\ At(Main, "on_started") /\ call[Main].res = "ok" => forks = 1
    /\ job[Main].pc \in {"on_connect", "on_connected", "on_consume"} => forks = 1
    /\ At(Main, "on_connected") =>
           \/ qmp[Main].at = "greet" /\ conn = 1
           \/ qmp[Main].at = "done" /\ (qmp[Main].res = "ok" => connected /\ conn = 1)
    /\ At(Main, "on_consume") => connected /\ conn = 1
    /\ Answered(Main, "ok") => forks = 1 /\ connected /\ conn = 1

MainInv ==
    /\ phase \in Phases
    /\ phase \in {"starting", "booting"} => \A t \in Callers \ {Main} : At(t, "idle")
    /\ phase = "starting" => At(Main, "idle") /\ forks = 0
    /\ phase = "booting" => PoweringOn
=============================================================================
