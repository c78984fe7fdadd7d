------------------------------- MODULE Machine -------------------------------
(***************************************************************************)
(* The machine in process mode (internal/machine/machine.go): power        *)
(* requests and power queries of concurrent callers, run over the process  *)
(* manager (QemuProcess) and the QMP client (QmpClient).                   *)
(*                                                                         *)
(* Machine.mu protects only the boot override; no lock is held across a    *)
(* request, so every statement that calls out is a step of its own and the *)
(* requests of different callers interleave between any two of them.       *)
(***************************************************************************)
EXTENDS QmpClient

CONSTANTS Requests,   \* the requests callers make
          Overrides   \* the boot overrides they set

VARIABLES job,        \* each caller's request and how far it is
          override    \* m.bootOverride

machineVars == <<processVars, qmpVars, job, override>>

NoOverride == [enabled |-> "Disabled", target |-> "None"]

\* Every target an override may name is one Start accepts.
ASSUME OverrideAssumption == \A o \in Overrides \cup {NoOverride} : o.target \in Targets

\* An ok answer to one of these promises that the VM of before is off.
PowerOffRequests == {"ForceOff", "PowerCycle", "GracefulRestart"}

\* The first statement of each request.
Entry == [On |-> "on_check", ForceOff |-> "quit", PowerCycle |-> "quit",
          ForceRestart |-> "reset", GracefulShutdown |-> "powerdown",
          GracefulRestart |-> "powerdown", GetPowerState |-> "ps_check",
          GetQMPStatus |-> "ps_check"]

RequestNames == DOMAIN Entry

ASSUME RequestAssumption == Requests \subseteq RequestNames

Statements == {"idle", "reply",
    "on_check", "on_target", "on_start", "on_started", "on_connect", "on_connected",
    "on_consume", "quit", "quit_sent", "quit_wait", "stop", "off_done", "kill",
    "killed", "kill_wait", "kill_waited", "reset", "reset_sent", "powerdown",
    "powerdown_sent", "exit_wait", "exit_waited", "ps_check", "ps_query",
    "ps_queried", "ps_stop", "ps_stopped"}

\* The statements that wait for a result of the process manager / the QMP client.
ProcessWaits == {"on_started", "off_done", "killed", "kill_waited", "exit_waited", "ps_stopped"}
QmpWaits == {"on_connected", "quit_sent", "reset_sent", "powerdown_sent", "ps_queried"}

Replies == {"none", "ok", "err", "On", "Off"} \cup RunStates

\* target: the boot target On has read and not used yet; late: waitForQMP's deadline is over.
\* since (the last VM forked when the request came in) and saw (the QEMU that
\* answered the status query) are for the properties to tell.
NoJob == [req |-> "none", pc |-> "idle", target |-> "None", late |-> FALSE,
          reply |-> "none", since |-> 0, saw |-> 0]

At(t, p) == job[t].pc = p
Goto(t, p) == job' = [job EXCEPT ![t].pc = p]
Finish(t, r) == job' = [job EXCEPT ![t] = [@ EXCEPT !.pc = "reply", !.late = FALSE, !.reply = r]]

\* A step of the machine's own code.
Local(t, p) == At(t, p) /\ UNCHANGED <<processVars, qmpVars>>

\* Statement p calls method A of the process manager; q takes its result.
CallProcess(t, p, A, q) ==
    At(t, p) /\ A /\ Goto(t, q) /\ UNCHANGED <<qmpVars, override>>

ProcessResult(t, p) ==
    At(t, p) /\ TakeResult(t) /\ UNCHANGED <<qmpVars, override>>

\* Statement p calls method A of the QMP client; q takes its result.
CallQmp(t, p, A, q) ==
    At(t, p) /\ A /\ Goto(t, q) /\ UNCHANGED <<pmVars, proc, monVars, call, override>>

QmpResult(t, p) ==
    /\ At(t, p)
    /\ QmpReturn(t)
    /\ UNCHANGED <<processVars, conn, connected, guest, hung, override>>

MachineInit ==
    /\ ProcessInit
    /\ QmpInit
    /\ job = [t \in Callers |-> NoJob]
    /\ override = NoOverride

-----------------------------------------------------------------------------
Begin(t, r) ==
    /\ Local(t, "idle")
    /\ job' = [job EXCEPT ![t] = [NoJob EXCEPT !.req = r, !.pc = Entry[r], !.since = forks]]
    /\ UNCHANGED override

Answer(t) ==
    /\ Local(t, "reply")
    /\ job' = [job EXCEPT ![t] = NoJob]
    /\ UNCHANGED override

-----------------------------------------------------------------------------
(* On, ForceOn, and the last leg of PowerCycle and GracefulRestart.        *)

\* Variant: Start's own check is relied on.
OnCheckSkipped(t) == Local(t, "on_check") /\ Goto(t, "on_target") /\ UNCHANGED override

OnCheck(t) ==
    /\ Local(t, "on_check")
    /\ IF running THEN Finish(t, "ok") ELSE Goto(t, "on_target")
    /\ UNCHANGED override

\* Variant: the wrong field of the override is read.
OnTargetSwapped(t) ==
    /\ Local(t, "on_target")
    /\ job' = [job EXCEPT ![t].pc = "on_start", ![t].target = override.enabled]
    /\ UNCHANGED override

\* Target is read whatever Enabled says.
OnTarget(t) ==
    /\ Local(t, "on_target")
    /\ job' = [job EXCEPT ![t].pc = "on_start", ![t].target = override.target]
    /\ UNCHANGED override

OnStart(t) ==
    /\ At(t, "on_start")
    /\ Start(t, job[t].target)
    /\ job' = [job EXCEPT ![t].pc = "on_started", ![t].target = "None"]
    /\ UNCHANGED <<qmpVars, override>>

OnStarted(t) ==
    /\ ProcessResult(t, "on_started")
    /\ IF call[t].res = "ok" THEN Goto(t, "on_connect") ELSE Finish(t, "err")

\* waitForQMP: Connect until it succeeds, or fails after the deadline.
OnConnect(t) == CallQmp(t, "on_connect", Connect(t), "on_connected")

\* Variant: the deadline is not looked at.
OnConnectedForever(t) ==
    /\ QmpResult(t, "on_connected")
    /\ Goto(t, IF qmp[t].res = "ok" THEN "on_consume" ELSE "on_connect")

OnConnected(t) ==
    /\ QmpResult(t, "on_connected")
    /\ \/ qmp[t].res = "ok" /\ Goto(t, "on_consume")
       \/ qmp[t].res # "ok" /\ ~job[t].late /\ Goto(t, "on_connect")
       \/ qmp[t].res # "ok" /\ job[t].late /\ Finish(t, "err")

Deadline(t) ==
    /\ job[t].pc \in {"on_connect", "on_connected"}
    /\ ~job[t].late
    /\ job' = [job EXCEPT ![t].late = TRUE]
    /\ UNCHANGED <<processVars, qmpVars, override>>

\* Variant: a Continuous override is used up too.
OnConsumeAny(t) ==
    /\ Local(t, "on_consume")
    /\ override' = NoOverride
    /\ Finish(t, "ok")

\* ConsumeBootOnce: whatever override is set by now.
OnConsume(t) ==
    /\ Local(t, "on_consume")
    /\ override' = IF override.enabled = "Once" THEN NoOverride ELSE override
    /\ Finish(t, "ok")

-----------------------------------------------------------------------------
(* forceOff, for ForceOff and PowerCycle.                                  *)

ForceOffQuit(t) == CallQmp(t, "quit", Execute(t, "quit"), "quit_sent")

ForceOffQuitDone(t) ==
    /\ QmpResult(t, "quit_sent")
    /\ Goto(t, IF qmp[t].res = "err" THEN "stop" ELSE "quit_wait")

ForceOffStop(t) == CallProcess(t, "stop", Stop(t), "off_done")

ForceOffWait(t) == CallProcess(t, "quit_wait", WaitForExit(t), "off_done")

\* Variant: the result of the wait is ignored.
ForceOffDoneUnchecked(t) ==
    /\ ProcessResult(t, "off_done")
    /\ IF job[t].req = "ForceOff" THEN Finish(t, "ok") ELSE Goto(t, "on_check")

ForceOffDone(t) ==
    /\ ProcessResult(t, "off_done")
    /\ \/ job[t].req = "ForceOff" /\ Finish(t, call[t].res)
       \/ /\ job[t].req = "PowerCycle"
          /\ Goto(t, IF call[t].res = "ok" THEN "on_check" ELSE "kill")

\* The hard fallback of PowerCycle and GracefulRestart; results ignored.
\* Variant: running is cleared with the kill instead of by the monitor.
HardKillForgets(t) ==
    /\ At(t, "kill")
    /\ Idle(t)
    /\ running' = FALSE
    /\ sig' = [g \in Gen |-> IF g = cmd THEN Signalled(g, "kill")[g] ELSE sig[g]]
    /\ DoneNow(t, "Kill", "ok")
    /\ Goto(t, "killed")
    /\ UNCHANGED <<cmd, exitCh, media, forks, launch, proc, monVars, qmpVars, override>>

HardKill(t) == CallProcess(t, "kill", Kill(t), "killed")

HardKilled(t) == ProcessResult(t, "killed") /\ Goto(t, "kill_wait")

HardKillWait(t) == CallProcess(t, "kill_wait", WaitForExit(t), "kill_waited")

HardKillWaited(t) == ProcessResult(t, "kill_waited") /\ Goto(t, "on_check")

-----------------------------------------------------------------------------
(* ForceRestart, GracefulShutdown, GracefulRestart                         *)

ResetSend(t) == CallQmp(t, "reset", Execute(t, "system_reset"), "reset_sent")

ResetDone(t) == QmpResult(t, "reset_sent") /\ Finish(t, qmp[t].res)

PowerdownSend(t) == CallQmp(t, "powerdown", Execute(t, "system_powerdown"), "powerdown_sent")

PowerdownDone(t) ==
    /\ QmpResult(t, "powerdown_sent")
    /\ IF qmp[t].res = "err" THEN Finish(t, "err") ELSE Goto(t, "exit_wait")

ExitWait(t) == CallProcess(t, "exit_wait", WaitForExit(t), "exit_waited")

\* GracefulShutdown only logs a timeout; GracefulRestart kills.
ExitWaited(t) ==
    /\ ProcessResult(t, "exit_waited")
    /\ \/ job[t].req = "GracefulShutdown" /\ Finish(t, "ok")
       \/ /\ job[t].req = "GracefulRestart"
          /\ Goto(t, IF call[t].res = "ok" THEN "on_check" ELSE "kill")

-----------------------------------------------------------------------------
(* GetPowerState and GetQMPStatus                                          *)

StatusCheck(t) ==
    /\ Local(t, "ps_check")
    /\ \/ running /\ Goto(t, "ps_query")
       \/ ~running /\ Finish(t, IF job[t].req = "GetPowerState" THEN "Off" ELSE "shutdown")
    /\ UNCHANGED override

StatusQuery(t) == CallQmp(t, "ps_query", Execute(t, "query-status"), "ps_queried")

\* A QEMU that does not answer counts as running.
QmpStatusDone(t) ==
    /\ job[t].req = "GetQMPStatus"
    /\ QmpResult(t, "ps_queried")
    /\ Finish(t, IF qmp[t].res = "err" THEN "running" ELSE qmp[t].res)

\* Variant: Off is reported without stopping the process.
PowerStateDoneAtOnce(t) ==
    /\ job[t].req = "GetPowerState"
    /\ QmpResult(t, "ps_queried")
    /\ Finish(t, IF qmp[t].res = "shutdown" THEN "Off" ELSE "On")

PowerStateDone(t) ==
    /\ job[t].req = "GetPowerState"
    /\ QmpResult(t, "ps_queried")
    /\ IF qmp[t].res = "shutdown"
       THEN job' = [job EXCEPT ![t].pc = "ps_stop", ![t].saw = qmp[t].peer]
       ELSE Finish(t, "On")

\* Guest has shut down: stop the process, report Off whatever Stop returns.
StatusStop(t) == CallProcess(t, "ps_stop", Stop(t), "ps_stopped")

StatusStopped(t) == ProcessResult(t, "ps_stopped") /\ Finish(t, "Off")

-----------------------------------------------------------------------------
SetBootOverride(o) ==
    /\ override' = o
    /\ UNCHANGED <<processVars, qmpVars, job>>

\* Inside the process manager and the QMP client.
InProcess(t) == Inside(t) /\ UNCHANGED <<qmpVars, job, override>>

InQmp(t) == QmpAnswer(t) /\ UNCHANGED <<pmVars, proc, monVars, call, job, override>>

\* Steps that need the QMP client's mutex.
LockQmp(t) ==
    OnConnect(t) \/ ForceOffQuit(t) \/ ResetSend(t) \/ PowerdownSend(t) \/ StatusQuery(t)

\* The other steps of a caller's request.
Work(t) ==
    \/ OnCheck(t) \/ OnTarget(t) \/ OnStart(t) \/ OnStarted(t) \/ OnConnected(t)
    \/ OnConsume(t) \/ ForceOffQuitDone(t) \/ ForceOffStop(t) \/ ForceOffWait(t)
    \/ ForceOffDone(t) \/ HardKill(t) \/ HardKilled(t) \/ HardKillWait(t)
    \/ HardKillWaited(t) \/ ResetDone(t) \/ PowerdownDone(t) \/ ExitWait(t)
    \/ ExitWaited(t) \/ StatusCheck(t) \/ QmpStatusDone(t) \/ PowerStateDone(t)
    \/ StatusStop(t) \/ StatusStopped(t) \/ InProcess(t) \/ InQmp(t) \/ Answer(t)

ProcessEnvironment(g) ==
    (Monitor(g) \/ ProcessExit(g)) /\ UNCHANGED <<qmpVars, job, override>>

MonitorEnvironment(g) ==
    (QemuHangs(g) \/ GuestPowersOff(g)) /\ UNCHANGED <<processVars, job, override>>

MachineNext ==
    \/ \E t \in Callers : \/ \E r \in Requests : Begin(t, r)
                          \/ LockQmp(t) \/ Work(t) \/ Deadline(t)
    \/ \E g \in Gen : ProcessEnvironment(g) \/ MonitorEnvironment(g)
    \/ \E o \in Overrides : SetBootOverride(o)

MachineSpec == MachineInit /\ [][MachineNext]_machineVars

(***************************************************************************)
(* Goroutines run, timers fire, sync.Mutex does not starve a waiter, the   *)
(* kernel ends a killed process, and a QEMU that answers ends on quit.     *)
(* Nothing is assumed of callers, of guests, or of a QEMU that hangs.      *)
(***************************************************************************)
MachineFairness ==
    /\ \A t \in Callers : /\ WF_machineVars(Work(t))
                          /\ WF_machineVars(Deadline(t))
                          /\ SF_machineVars(LockQmp(t))
    /\ \A g \in Gen :
         /\ WF_machineVars(Monitor(g) /\ UNCHANGED <<qmpVars, job, override>>)
         /\ WF_machineVars(/\ sig[g] = "kill" \/ (sig[g] = "quit" /\ g \notin hung)
                           /\ ProcessExit(g)
                           /\ UNCHANGED <<qmpVars, job, override>>)

MachineFairSpec == MachineSpec /\ MachineFairness

-----------------------------------------------------------------------------
(***************************************************************************)
(* Properties                                                              *)
(***************************************************************************)

Job == [req: RequestNames \cup {"none"}, pc: Statements,
        target: {o.target : o \in Overrides \cup {NoOverride}},
        late: BOOLEAN, reply: Replies, since: Gen0, saw: Gen0]

\* The types of the machine's state; a caller is inside the process manager
\* or the QMP client only at the statements that wait for their results.
MachineTypeOK ==
    /\ ProcessTypeOK
    /\ QmpTypeOK
    /\ job \in [Callers -> Job]
    /\ override \in Overrides \cup {NoOverride}
    /\ \A t \in Callers : /\ Idle(t) <=> job[t].pc \notin ProcessWaits
                          /\ qmp[t].at = "idle" <=> job[t].pc \notin QmpWaits

\* The requests of any number of callers use the process manager only as its
\* own specification allows, so what holds of it holds of the machine.
ImplementsProcess == ProcessSpec

\* The QMP connection never reaches a QEMU other than the managed one, so a
\* quit or a reset sent over a connection of before a restart goes nowhere.
QmpReachesManaged == PeerUp => running /\ cmd = conn

\* Old VMs (those that ran when t's request came in) that nobody has killed.
Surviving(t) == {g \in Gen : g <= job[t].since /\ proc[g] = "up" /\ sig[g] # "kill"}

Answered(t, r) == At(t, "reply") /\ job[t].reply = r

\* An ok answer to ForceOff, PowerCycle or GracefulRestart means the VM that
\* ran before is off, or killed: along every path through Quit, Stop, Kill
\* and the waits, and whatever other callers did meanwhile.
OffIsOff ==
    \A t \in Callers :
        Answered(t, "ok") /\ job[t].req \in PowerOffRequests => Surviving(t) = {}

\* A power query answers Off only when the VM that ran before is off or
\* killed, although the result of Stop is dropped.
OffReportIsTrue == \A t \in Callers : Answered(t, "Off") => Surviving(t) = {}

\* Only one caller at a time is in an exchange on the QMP socket, and while
\* it is, nobody closes or replaces its connection.
QmpExchangesAreAtomic ==
    [][\A t \in Callers :
         qmp[t].at \in {"reply", "greet"} /\ qmp'[t] = qmp[t]
             => conn' = conn /\ connected' = connected
                /\ \A u \in Callers : qmp'[u].at \in {"reply", "greet"} => u = t]_machineVars

\* Every request is answered: with a QEMU that answers on its socket, no
\* interleaving leaves a caller waiting for ever.
RequestsAnswered == \A t \in Callers : ~At(t, "idle") ~> At(t, "idle")

\* ForceOff ends the VM that runs, even if QEMU ignores SIGTERM.
ForceOffEndsVm ==
    \A t \in Callers, g \in Gen :
        (job[t].req = "ForceOff" /\ At(t, "quit") /\ Exists(g)) ~> ~Exists(g)

\* A power request drops a Once override only if a VM was started since the
\* request came in: an On that finds the VM running leaves it for the next
\* boot, even when another caller's VM appears between its check and its start.
OnceNeedsABoot ==
    [][\A t \in Callers :
         At(t, "on_consume") /\ ~At(t, "on_consume")' /\ override' # override
             => forks > job[t].since]_machineVars

-----------------------------------------------------------------------------
(* What a document or a comment says and the code does not do              *)

\* GracefulShutdown falls back to a hard kill of a guest that does not exit
\* in time (README.md:258, machine.go:109-111).
GracefulShutdownFallsBack ==
    \A t \in Callers :
        Answered(t, "ok") /\ job[t].req = "GracefulShutdown" => Surviving(t) = {}

\* PowerCycle ends with a restarted QEMU (process-management-requirements
\* 7.4: quit, then restart).
PowerCycleRestarts ==
    \A t \in Callers :
        Answered(t, "ok") /\ job[t].req = "PowerCycle" => forks > job[t].since

\* The process a power query stops is the one whose guest has shut down
\* (machine.go:153).
PollStopsOnlyShutdownGuest ==
    \A t \in Callers :
        At(t, "ps_stopped") /\ call[t].tgt # 0 => call[t].tgt = job[t].saw
=============================================================================
