---------------------------- MODULE BmcMainProofs ----------------------------
(***************************************************************************)
(* Proofs about the life of the BMC process, for every number of callers,  *)
(* of VMs and of requests: the servers start over a connected VM, and the  *)
(* machine under its main program is the one the Redfish handlers are      *)
(* modelled over.                                                          *)
(***************************************************************************)
EXTENDS BmcMain, MachineProofs

USE MainAssumption, BoundAssumption DEF Gen, Gen0

-----------------------------------------------------------------------------
(* The steps of the program are those of the machine                       *)

\* Every step is one of the machine, or main closes the QMP client at its end.
LEMMA BmcSteps ==
    ASSUME [BmcNext]_mainVars
    PROVE  [AnyNext]_machineVars \/ Exit
<1>1. "On" \in RequestNames /\ "ForceOff" \in RequestNames
    BY DEF RequestNames, Entry
<1>2. ASSUME NEW t \in Callers, Progress(t) \/ Answer(t)
      PROVE  AnyNext
    BY <1>2 DEF Progress, Work, AnyNext
<1>3. ASSUME NEW t \in Callers, NEW r \in RequestNames, Begin(t, r)
      PROVE  AnyNext
    BY <1>3 DEF AnyNext
<1>4. CASE MainStep
    BY <1>1, <1>2, <1>3, <1>4 DEF MainStep, PowerOn, ServeWithoutVm, PoweredOn, ShutdownSignal, Stopped
<1>5. CASE KilledWhileBooting
    BY <1>5 DEF KilledWhileBooting
<1>6. ASSUME NEW g \in Gen, \/ Monitor(g) /\ UNCHANGED <<qmpVars, job, override>>
                            \/ MonitorEnvironment(g)
                            \/ ProcessExit(g) /\ UNCHANGED <<qmpVars, job, override>>
      PROVE  AnyNext
    BY <1>6 DEF AnyNext, ProcessEnvironment
<1>7. ASSUME NEW o \in Overrides, SetBootOverride(o)
      PROVE  AnyNext
    BY <1>7 DEF AnyNext
<1>8. CASE UNCHANGED mainVars
    BY <1>8 DEF mainVars
<1> QED
    BY <1>2, <1>3, <1>4, <1>5, <1>6, <1>7, <1>8, RequestAssumption DEF BmcNext

\* The end of main leaves the machine's requests alone.
LEMMA ExitKeeps ==
    ASSUME MachineTypes, \A t \in Callers : BootKnown(t), Exit
    PROVE  MachineTypes' /\ \A t \in Callers : BootKnown(t)'
<1>1. UNCHANGED <<processVars, conn, guest, hung, qmp, job, override>> /\ connected' = FALSE
    BY DEF Exit
<1>2. [ProcessNext]_processVars /\ ProcessInv
    BY <1>1 DEF MachineTypes
<1>3. ProcessInv' /\ ProcessTypeOK'
    BY <1>2, ProcessStepInv DEF ProcessInv
<1>4. JobTypes /\ QmpTypes /\ (\A t \in Callers : Waits(t))
    BY TypesSplit DEF MachineTypes
<1>5. QmpTypes' /\ JobTypes' /\ (\A t \in Callers : Waits(t)')
    BY <1>1, <1>4 DEF processVars, QmpTypes, JobTypes, Waits, Idle
<1>6. MachineTypes'
    BY <1>3, <1>5 DEF MachineTypes, MachineTypeOK, QmpTypeOK, QmpTypes, JobTypes, Waits
<1>7. \A t \in Callers : BootKnown(t)'
    BY <1>1 DEF processVars, pmVars, BootKnown, Booted, Returned
<1> QED
    BY <1>6, <1>7

\* What is known of the machine by itself is known of it under main.
MachineKnown == MachineTypes /\ \A t \in Callers : BootKnown(t)

LEMMA MachineKnownStart == MachineInit => MachineKnown
<1>1. ASSUME MachineInit, NEW t \in Callers
      PROVE  BootKnown(t)
  <2>1. job[t].since = 0 /\ job[t].pc = "idle" /\ forks = 0
      BY <1>1, NoJobType DEF MachineInit, ProcessInit, NoJob
  <2> QED
      BY <2>1 DEF BootKnown
<1> QED
    BY <1>1, MachineInitTypes DEF MachineKnown

LEMMA MachineKnownStep ==
    ASSUME MachineKnown, [BmcNext]_mainVars
    PROVE  MachineKnown'
<1>1. MachineTypes /\ \A t \in Callers : BootKnown(t)
    BY DEF MachineKnown
<1>2. CASE [AnyNext]_machineVars
    BY <1>1, <1>2, MachineTypesStep, BootsKnownStep DEF MachineKnown
<1>3. CASE Exit
    BY <1>1, <1>3, ExitKeeps DEF MachineKnown
<1> QED
    BY <1>2, <1>3, BmcSteps

LEMMA MachineUnderMain == BmcSpec => []MachineKnown
<1>1. BmcInit => MachineKnown
    BY MachineKnownStart DEF BmcInit
<1>2. MachineKnown /\ [BmcNext]_mainVars => MachineKnown'
    BY MachineKnownStep
<1> QED
    BY <1>1, <1>2, PTL DEF BmcSpec

-----------------------------------------------------------------------------
(* The machine as the Redfish handlers see it                              *)

\* A request changes the override only where it uses it up, after a boot.
LEMMA OverrideStep ==
    ASSUME MachineKnown, [AnyNext]_machineVars
    PROVE  \/ UNCHANGED override
           \/ /\ UNCHANGED processVars
              /\ \/ /\ forks # 0 /\ override.enabled = "Once"
                    /\ override' = NoOverride
                 \/ \E o \in Overrides : override' = o
<1>1. MachineTypes /\ \A t \in Callers : BootKnown(t)
    BY DEF MachineKnown
<1>2. ASSUME NEW t \in Callers, OnConsume(t)
      PROVE  UNCHANGED processVars /\ forks # 0
             /\ (UNCHANGED override \/ (override.enabled = "Once" /\ override' = NoOverride))
  <2>1. job[t].pc = "on_consume" /\ UNCHANGED processVars
      BY <1>2 DEF OnConsume, Local, At
  <2>2. job[t].since \in Nat /\ forks \in Nat
      BY <1>1, TypesSplit DEF MachineTypes, JobTypes, Job, ProcessInv, ProcessTypeOK
  <2>3. forks > job[t].since
      BY <1>1, <2>1 DEF BootKnown, Booted
  <2> QED
      BY <1>2, <2>1, <2>2, <2>3 DEF OnConsume
<1>3. ASSUME NEW t \in Callers, NEW r \in RequestNames, Begin(t, r)
      PROVE  UNCHANGED override
    BY <1>3 DEF Begin
<1>4. ASSUME NEW t \in Callers, LockQmp(t) \/ Deadline(t)
      PROVE  UNCHANGED override
    BY <1>4 DEF LockQmp, OnConnect, ForceOffQuit, ResetSend, PowerdownSend, StatusQuery, CallQmp, Deadline
<1>5. ASSUME NEW t \in Callers, Work(t), ~OnConsume(t)
      PROVE  UNCHANGED override
  <2>1. CASE OnCheck(t) \/ OnTarget(t) \/ OnStart(t) \/ OnStarted(t) \/ OnConnected(t)
      BY <2>1 DEF OnCheck, OnTarget, OnStart, OnStarted, OnConnected, ProcessResult, QmpResult
  <2>2. CASE ForceOffQuitDone(t) \/ ForceOffStop(t) \/ ForceOffWait(t) \/ ForceOffDone(t)
             \/ HardKill(t) \/ HardKilled(t) \/ HardKillWait(t) \/ HardKillWaited(t)
      BY <2>2 DEF ForceOffQuitDone, ForceOffStop, ForceOffWait, ForceOffDone, HardKill, HardKilled,
                  HardKillWait, HardKillWaited, CallProcess, ProcessResult, QmpResult
  <2>3. CASE ResetDone(t) \/ PowerdownDone(t) \/ ExitWait(t) \/ ExitWaited(t) \/ StatusCheck(t)
             \/ QmpStatusDone(t) \/ PowerStateDone(t) \/ StatusStop(t) \/ StatusStopped(t)
      BY <2>3 DEF ResetDone, PowerdownDone, ExitWait, ExitWaited, StatusCheck, QmpStatusDone,
                  PowerStateDone, StatusStop, StatusStopped, CallProcess, ProcessResult, QmpResult
  <2>4. CASE InProcess(t) \/ InQmp(t) \/ Answer(t)
      BY <2>4 DEF InProcess, InQmp, Answer
  <2> QED
      BY <1>5, <2>1, <2>2, <2>3, <2>4 DEF Work
<1>6. ASSUME NEW g \in Gen, ProcessEnvironment(g) \/ MonitorEnvironment(g)
      PROVE  UNCHANGED override
    BY <1>6 DEF ProcessEnvironment, MonitorEnvironment
<1>7. ASSUME NEW o \in Overrides, SetBootOverride(o)
      PROVE  UNCHANGED processVars /\ override' = o
    BY <1>7 DEF SetBootOverride
<1>8. CASE UNCHANGED machineVars
    BY <1>8 DEF machineVars
<1> QED
    BY <1>2, <1>3, <1>4, <1>5, <1>6, <1>7, <1>8 DEF AnyNext

\* A step of the machine is one that its service allows, or none.
LEMMA ServiceStep ==
    ASSUME MachineKnown, MachineKnown', [AnyNext]_machineVars
    PROVE  [Service!ServiceNext]_(Service!serviceVars)
<1> USE DEF Service!ServiceNext, Service!serviceVars, Service!vmVars
<1>1. ProcessInv /\ ProcessInv' /\ JobTypes
    BY TypesSplit DEF MachineKnown, MachineTypes
<1>2. [ProcessNext]_processVars
    BY <1>1, MachineIsProcess
<1>3. [Abstract!Next]_(Abstract!vmVars)
    BY <1>1, <1>2, SingleVmStep
<1>4. [Service!Next]_(Service!vmVars)
    BY <1>3 DEF Abstract!Next, Abstract!Boot, Abstract!End, Abstract!Notice, Abstract!vmVars,
                Service!Next, Service!Boot, Service!End, Service!Notice
<1>5. CASE UNCHANGED override
    BY <1>4, <1>5 DEF Service!VmChanges
<1>6. CASE UNCHANGED processVars
  <2>1. UNCHANGED <<proc, running, forks>>
      BY <1>6 DEF processVars, pmVars, osVars
  <2>2. LiveVm' = LiveVm
      BY <2>1 DEF LiveVm, Exists
  <2>3. CASE forks # 0 /\ override.enabled = "Once" /\ override' = NoOverride
      BY <2>1, <2>2, <2>3 DEF Service!ConsumeBootOnce, NoOverride, Service!NoOverride
  <2>4. ASSUME NEW o \in Overrides, override' = o
        PROVE  Service!SetBootOverride(o)
      BY <2>1, <2>2, <2>4 DEF Service!SetBootOverride
  <2> QED
      BY <1>5, <1>6, <2>3, <2>4, OverrideStep
<1> QED
    BY <1>5, <1>6, OverrideStep

\* The end of main is none of the service's business.
LEMMA ExitIsNoStep ==
    ASSUME Exit
    PROVE  UNCHANGED Service!serviceVars
<1>1. UNCHANGED <<proc, running, forks, override>>
    BY DEF Exit, processVars, pmVars, osVars
<1>2. LiveVm' = LiveVm
    BY <1>1 DEF LiveVm, Exists
<1> QED
    BY <1>1, <1>2 DEF Service!serviceVars, Service!vmVars

\* The machine under main, with the requests of every handler, is MachineService: one VM at
\* a time, and a boot override that is used up only as a whole and only after a boot
\* (ConsumeBootOnce).  RedfishSystem is modelled over it.
THEOREM MainImplementsService == BmcSpec => ImplementsService
<1>1. BmcInit => Service!ServiceInit
  <2> SUFFICES ASSUME BmcInit PROVE Service!ServiceInit
    OBVIOUS
  <2>1. \A g \in Gen : ~Exists(g)
    BY DEF BmcInit, MachineInit, ProcessInit, Exists
  <2>2. LiveVm = 0
    BY <2>1 DEF LiveVm
  <2> QED
    BY <2>2 DEF BmcInit, MachineInit, ProcessInit, Service!ServiceInit, Service!Init, NoOverride,
                Service!NoOverride
<1>2. MachineKnown /\ MachineKnown' /\ [BmcNext]_mainVars
        => [Service!ServiceNext]_(Service!serviceVars)
    BY BmcSteps, ServiceStep, ExitIsNoStep
<1> QED
    BY <1>1, <1>2, MachineUnderMain, PTL DEF BmcSpec, ImplementsService, Service!ServiceSpec

-----------------------------------------------------------------------------
(* The power-on at the start                                               *)

\* What On's Start does while there has been no VM: it forks the first, or fails.
LEMMA FirstStart ==
    ASSUME MachineKnown, forks = 0, OnStart(Main)
    PROVE  /\ job'[Main].pc = "on_started"
           /\ call'[Main].res = "ok" => forks' = 1
<1>1. JobTypes /\ FrameTypes /\ ProcessInv /\ ~running
    BY TypesSplit DEF MachineKnown, MachineTypes, ProcessInv, ProcessTypeOK, FrameTypes, FieldsOK
<1>2. job'[Main].pc = "on_started"
    BY <1>1, StartWent
<1>3. PICK target : Start(Main, target)
    BY DEF OnStart
<1>4. CASE StartFails(Main)
  <2>1. InCall("Start", "done", 0, 0, 0, "err") \in Frame
      BY InCallType DEF Methods, Points
  <2>2. InCall("Start", "done", 0, 0, 0, "err").res = "err"
      BY DEF InCall
  <2>3. call'[Main] = InCall("Start", "done", 0, 0, 0, "err")
      BY <1>1, <1>4, <2>1, Replaced DEF StartFails, DoneNow
  <2> QED
      BY <1>2, <2>2, <2>3
<1>5. CASE StartForks(Main, target)
    BY <1>2, <1>5 DEF StartForks, Fork
<1> QED
    BY <1>1, <1>3, <1>4, <1>5 DEF Start, StartNoop

\* Connect reaches the first VM or nobody.
LEMMA FirstConnect ==
    ASSUME MachineKnown, forks = 1, OnConnect(Main)
    PROVE  \/ qmp'[Main].at = "greet" /\ conn' = 1
           \/ qmp'[Main].at = "done" /\ qmp'[Main].res = "err"
<1>1. QmpTypes /\ ProcessInv /\ Connect(Main)
    BY TypesSplit DEF MachineKnown, MachineTypes, OnConnect, CallQmp
<1>2. CASE ConnectDials(Main)
  <2>1. conn' = 1
      BY <1>1, <1>2, PastIsReaped DEF ConnectDials, Exists
  <2>2. Exchange("connect", "greet", "ok").at = "greet"
      BY DEF Exchange
  <2> QED
      BY <1>1, <1>2, <2>1, <2>2 DEF ConnectDials, QmpTypes
<1>3. CASE ConnectRefused(Main)
  <2>1. Exchange("connect", "done", "err").at = "done" /\ Exchange("connect", "done", "err").res = "err"
      BY DEF Exchange
  <2> QED
      BY <1>1, <1>3, <2>1 DEF ConnectRefused, QmpTypes
<1> QED
    BY <1>1, <1>2, <1>3 DEF Connect

\* The greeting of the first VM, or its end.
LEMMA FirstGreeting ==
    ASSUME MachineKnown, qmp[Main].at = "greet", conn = 1, InQmp(Main)
    PROVE  qmp'[Main].at = "done" /\ (qmp'[Main].res = "ok" => connected' /\ conn' = 1)
<1>1. QmpTypes
    BY TypesSplit DEF MachineKnown, MachineTypes
<1>2. qmp'[Main].at = "done"
    BY <1>1, EndsExchange DEF InQmp
<1>3. CASE ConnectReady(Main)
    BY <1>2, <1>3 DEF ConnectReady
<1>4. CASE ConnectEof(Main)
  <2>1. PICK c : c = qmp[Main].cmd
      OBVIOUS
  <2>2. qmp'[Main] = [Exchange(c, "done", "err") EXCEPT !.peer = conn]
      BY <1>1, <1>4, <2>1 DEF ConnectEof, QmpDone, QmpTypes
  <2>3. [Exchange(c, "done", "err") EXCEPT !.peer = conn].res = "err"
      BY DEF Exchange
  <2> QED
      BY <1>2, <2>2, <2>3
<1> QED
    BY <1>3, <1>4 DEF InQmp, QmpAnswer, ExecuteReply, ExecuteEof

\* Main's On takes no other statement.
LEMMA OnlyOn ==
    ASSUME PoweringOn, Progress(Main)
    PROVE  \/ OnCheck(Main) \/ OnTarget(Main) \/ OnStart(Main) \/ OnStarted(Main)
           \/ OnConnect(Main) \/ OnConnected(Main) \/ OnConsume(Main)
           \/ Deadline(Main) \/ InProcess(Main) \/ InQmp(Main)
<1>1. CASE LockQmp(Main)
    BY <1>1 DEF PoweringOn, LockQmp, ForceOffQuit, ResetSend, PowerdownSend, StatusQuery, CallQmp, At
<1>2. CASE Work(Main) /\ ~At(Main, "reply")
    BY <1>2 DEF PoweringOn, Work, ForceOffQuitDone, ForceOffStop, ForceOffWait, ForceOffDone, HardKill,
                HardKilled, HardKillWait, HardKillWaited, ResetDone, PowerdownDone, ExitWait, ExitWaited,
                StatusCheck, QmpStatusDone, PowerStateDone, StatusStop, StatusStopped, Answer,
                CallProcess, ProcessResult, QmpResult, Local, At
<1> QED
    BY <1>1, <1>2 DEF Progress

\* Main's own steps inside On.
LEMMA PoweringOnStep ==
    ASSUME MachineKnown, PoweringOn, Progress(Main)
    PROVE  PoweringOn'
<1>1. /\ JobTypes /\ QmpTypes /\ Waits(Main) /\ ProcessInv /\ BootKnown(Main)
      /\ forks = 0 => ~running
    BY TypesSplit DEF MachineKnown, MachineTypes, ProcessInv, FieldsOK
<1>2. PICK j \in Job : j = job[Main]
    BY <1>1 DEF JobTypes
<1>3. ASSUME NEW p, Goto(Main, p)
      PROVE  job'[Main].pc = p
    BY <1>1, <1>2, <1>3 DEF Goto, JobTypes, Job
<1>4. ASSUME NEW r, Finish(Main, r)
      PROVE  job'[Main].pc = "reply" /\ job'[Main].reply = r
    BY <1>1, <1>2, <1>4 DEF Finish, JobTypes, Job
<1>5. CASE OnCheck(Main)
  <2>1. forks = 0 /\ UNCHANGED forks
      BY <1>5 DEF OnCheck, Local, At, PoweringOn, processVars, pmVars
  <2>2. job'[Main].pc = "on_target"
      BY <1>1, <1>3, <1>5, <2>1 DEF OnCheck
  <2> QED
      BY <2>1, <2>2 DEF PoweringOn, At, Answered
<1>6. CASE OnTarget(Main)
  <2>1. forks = 0 /\ UNCHANGED forks
      BY <1>6 DEF OnTarget, Local, At, PoweringOn, processVars, pmVars
  <2>2. job'[Main].pc = "on_start"
      BY <1>1, <1>2, <1>6 DEF OnTarget, JobTypes, Job
  <2> QED
      BY <2>1, <2>2 DEF PoweringOn, At, Answered
<1>7. CASE OnStart(Main)
  <2>1. forks = 0
      BY <1>7 DEF OnStart, At, PoweringOn
  <2> QED
      BY <1>7, <2>1, FirstStart DEF PoweringOn, At, Answered
<1>8. CASE OnStarted(Main)
  <2>1. UNCHANGED forks /\ (call[Main].res = "ok" => forks = 1)
      BY <1>8 DEF OnStarted, ProcessResult, TakeResult, At, PoweringOn, pmVars
  <2>2. \/ call[Main].res = "ok" /\ job'[Main].pc = "on_connect"
        \/ job'[Main].pc = "reply" /\ job'[Main].reply = "err"
      BY <1>3, <1>4, <1>8 DEF OnStarted
  <2> QED
      BY <2>1, <2>2 DEF PoweringOn, At, Answered
<1>9. CASE OnConnect(Main)
  <2>1. forks = 1 /\ UNCHANGED forks
      BY <1>9 DEF OnConnect, CallQmp, At, PoweringOn, pmVars
  <2>2. job'[Main].pc = "on_connected"
      BY <1>3, <1>9 DEF OnConnect, CallQmp
  <2> QED
      BY <1>9, <2>1, <2>2, FirstConnect DEF PoweringOn, At, Answered
<1>10. CASE OnConnected(Main)
  <2>1. /\ forks = 1 /\ UNCHANGED <<forks, conn, connected>>
        /\ qmp[Main].res = "ok" => connected /\ conn = 1
      BY <1>10 DEF OnConnected, QmpResult, QmpReturn, QmpReturned, At, PoweringOn, processVars, pmVars
  <2>2. \/ qmp[Main].res = "ok" /\ job'[Main].pc = "on_consume"
        \/ job'[Main].pc = "on_connect"
        \/ job'[Main].pc = "reply" /\ job'[Main].reply = "err"
      BY <1>3, <1>4, <1>10 DEF OnConnected
  <2> QED
      BY <2>1, <2>2 DEF PoweringOn, At, Answered
<1>11. CASE Deadline(Main)
  <2>1. UNCHANGED <<forks, conn, connected, qmp, call>>
      BY <1>11 DEF Deadline, processVars, pmVars, qmpVars
  <2>2. job'[Main].pc = job[Main].pc /\ job[Main].pc \in {"on_connect", "on_connected"}
      BY <1>1, <1>2, <1>11 DEF Deadline, JobTypes, Job
  <2> QED
      BY <2>1, <2>2 DEF PoweringOn, At, Answered
<1>12. CASE OnConsume(Main)
  <2>1. forks = 1 /\ connected /\ conn = 1 /\ UNCHANGED <<forks, conn, connected>>
      BY <1>12 DEF OnConsume, Local, At, PoweringOn, processVars, pmVars, qmpVars
  <2>2. job'[Main].pc = "reply"
      BY <1>4, <1>12 DEF OnConsume
  <2> QED
      BY <2>1, <2>2 DEF PoweringOn, At, Answered
<1>13. CASE InQmp(Main)
  <2>1. UNCHANGED <<forks, job>>
      BY <1>13 DEF InQmp, pmVars
  <2>2. job[Main].pc = "on_connected" /\ qmp[Main].at # "done"
      BY <1>1, <1>13, EndsExchange DEF InQmp, Waits, QmpWaits, PoweringOn
  <2>3. qmp[Main].at = "greet" /\ conn = 1
      BY <2>2 DEF PoweringOn, At
  <2> QED
      BY <1>13, <2>1, <2>2, <2>3, FirstGreeting DEF PoweringOn, At, Answered
<1>14. ~InProcess(Main)
  <2>1. SUFFICES ASSUME InProcess(Main) PROVE FALSE
      OBVIOUS
  <2>2. ~Idle(Main)
      BY <1>1, <2>1, StaysInside DEF InProcess, Idle
  <2>3. job[Main].pc = "on_started"
      BY <1>1, <2>2 DEF Waits, ProcessWaits, PoweringOn
  <2> QED
      BY <1>1, <2>1, <2>3
         DEF BootKnown, Returned, InProcess, Inside, StopSignal, StopArm, WaitDone, WaitTimeout,
             KillSignal
<1> QED
    BY <1>5, <1>6, <1>7, <1>8, <1>9, <1>10, <1>11, <1>12, <1>13, <1>14, OnlyOn DEF Progress

\* Until the servers start main is alone: only its own requests move.
LEMMA MainIsAlone ==
    ASSUME MachineKnown, MainInv, phase \in {"starting", "booting"}, phase' = phase,
           [BmcNext]_mainVars
    PROVE  \/ phase = "booting" /\ Progress(Main)
           \/ UNCHANGED <<job, call, qmp, forks, conn, connected>>
<1>1. \A t \in Callers \ {Main} : At(t, "idle")
    BY DEF MainInv
<1>2. phase = "starting" => At(Main, "idle")
    BY DEF MainInv
<1>3. ASSUME NEW t \in Callers, At(t, "idle"), Progress(t) \/ Answer(t)
      PROVE  FALSE
  <2>1. CASE Answer(t)
      BY <1>3, <2>1 DEF Answer, Local, At
  <2>2. CASE Progress(t) /\ ~Answer(t)
      BY <1>3, <2>2, RequestKept DEF Progress, MachineKnown, At
  <2> QED
      BY <1>3, <2>1, <2>2
<1>4. ~MainStep /\ ~KilledWhileBooting /\ ~Serving
  <2>1. ~PowerOn /\ ~ServeWithoutVm /\ ~KilledWhileBooting
      BY DEF PowerOn, ServeWithoutVm, KilledWhileBooting
  <2>2. ~PoweredOn
      BY DEF PoweredOn
  <2>3. ~ShutdownSignal /\ ~Stopped /\ ~Exit /\ ~Serving
      BY DEF ShutdownSignal, Stopped, Exit, Serving
  <2> QED
      BY <2>1, <2>2, <2>3 DEF MainStep
<1>5. ASSUME NEW g \in Gen, \/ Monitor(g) /\ UNCHANGED <<qmpVars, job, override>>
                            \/ ProcessExit(g) /\ UNCHANGED <<qmpVars, job, override>>
      PROVE  UNCHANGED <<job, call, qmp, forks, conn, connected>>
    BY <1>5 DEF Monitor, MonitorBegin, MonitorReap, MonitorClear, MonitorClose, ProcessExit, pmVars,
                qmpVars
<1>6. ASSUME NEW g \in Gen, MonitorEnvironment(g)
      PROVE  UNCHANGED <<job, call, qmp, forks, conn, connected>>
    BY <1>6 DEF MonitorEnvironment, QemuHangs, GuestPowersOff, processVars, pmVars
<1>7. CASE UNCHANGED mainVars
    BY <1>7 DEF mainVars, machineVars, processVars, pmVars, qmpVars
<1> QED
    BY <1>1, <1>2, <1>3, <1>4, <1>5, <1>6, <1>7, MainAssumption DEF BmcNext

\* Where main goes next, and what it knows there.
LEMMA MainInvStep ==
    ASSUME MachineKnown, MainInv, [BmcNext]_mainVars
    PROVE  MainInv'
<1>1. CASE PowerOn
  <2>1. /\ phase' = "booting" /\ forks' = forks /\ forks = 0
        /\ \A t \in Callers \ {Main} : At(t, "idle")
      BY <1>1 DEF PowerOn, MainInv, Begin, Local, processVars, pmVars
  <2>2. JobTypes /\ job' = [job EXCEPT ![Main] = [NoJob EXCEPT !.req = "On", !.pc = Entry["On"], !.since = forks]]
      BY <1>1, TypesSplit DEF PowerOn, Begin, MachineKnown, MachineTypes
  <2>3. job'[Main].pc = "on_check"
      BY <2>2, NoJobType DEF JobTypes, Entry, Job
  <2>4. \A t \in Callers \ {Main} : job'[t] = job[t]
      BY <2>2 DEF JobTypes
  <2>5. PoweringOn'
      BY <2>1, <2>3 DEF PoweringOn, At, Answered
  <2>6. \A t \in Callers \ {Main} : At(t, "idle")'
      BY <2>1, <2>4 DEF At
  <2> QED
      BY <2>1, <2>5, <2>6 DEF MainInv, Phases
<1>2. CASE phase' \in Phases \ {"starting", "booting"}
    BY <1>2 DEF MainInv
<1>3. ASSUME phase \in {"starting", "booting"}, phase' = phase
      PROVE  MainInv'
  <2>1. CASE phase = "booting" /\ Progress(Main)
    <3>1. PoweringOn'
        BY <2>1, PoweringOnStep DEF MainInv
    <3>2. \A t \in Callers \ {Main} : job'[t] = job[t]
      <4>1. StepOf(Main)
          BY <2>1, AnyStep DEF Progress, MachineKnown
      <4> QED
          BY <4>1 DEF StepOf, JobOf
    <3>3. \A t \in Callers \ {Main} : At(t, "idle")'
        BY <1>3, <3>2 DEF MainInv, At
    <3> QED
        BY <1>3, <2>1, <3>1, <3>3 DEF MainInv
  <2>2. CASE UNCHANGED <<job, call, qmp, forks, conn, connected>>
    <3>1. PoweringOn => PoweringOn'
        BY <2>2 DEF PoweringOn, At, Answered
    <3>2. \A t \in Callers : At(t, "idle")' <=> At(t, "idle")
        BY <2>2 DEF At
    <3> QED
        BY <1>3, <2>2, <3>1, <3>2 DEF MainInv
  <2> QED
      BY <1>3, <2>1, <2>2, MainIsAlone
<1>4. \/ PowerOn
      \/ phase' \in Phases \ {"starting", "booting"}
      \/ phase \in {"starting", "booting"} /\ phase' = phase
  <2>1. phase \in Phases
      BY DEF MainInv
  <2>2. CASE MainStep
      BY <2>2 DEF MainStep, ServeWithoutVm, PoweredOn, ShutdownSignal, Stopped, Exit, Phases
  <2>3. CASE KilledWhileBooting
      BY <2>3 DEF KilledWhileBooting, Phases
  <2>4. CASE phase' = phase
      BY <2>1, <2>4
  <2> QED
      BY <2>2, <2>3, <2>4 DEF BmcNext, mainVars
<1> QED
    BY <1>1, <1>2, <1>3, <1>4

LEMMA MainInvariant == BmcSpec => [](MachineKnown /\ MainInv)
<1>1. BmcInit => MachineKnown /\ MainInv
  <2> SUFFICES ASSUME BmcInit PROVE MainInv
    BY MachineKnownStart DEF BmcInit
  <2>1. NoJob.pc = "idle"
    BY NoJobType
  <2> QED
    BY <2>1 DEF BmcInit, MachineInit, ProcessInit, MainInv, Phases, At
<1>2. MachineKnown /\ MainInv /\ [BmcNext]_mainVars => MachineKnown' /\ MainInv'
    BY MachineKnownStep, MainInvStep
<1> QED
    BY <1>1, <1>2, PTL DEF BmcSpec

\* The types of the machine and of main's place.
THEOREM MainTyped == BmcSpec => []BmcTypeOK
<1>1. MachineKnown /\ MainInv => BmcTypeOK
    BY DEF MachineKnown, MachineTypes, MainInv, BmcTypeOK
<1> QED
    BY <1>1, MainInvariant, PTL

\* main starts the servers after a power-on only over the first VM, with its QMP socket
\* connected (log.Fatalf otherwise).
THEOREM ServersFindVm == BmcSpec => ServersStartConnected
<1> DEFINE Starts == phase = "booting" /\ phase' = "serving"
                       => forks = 1 /\ connected /\ conn = forks
<1>1. MachineKnown /\ MainInv /\ [BmcNext]_mainVars => [Starts]_mainVars
  <2> SUFFICES ASSUME MachineKnown, MainInv, BmcNext, phase = "booting", phase' = "serving"
               PROVE  forks = 1 /\ connected /\ conn = forks
    OBVIOUS
  <2>1. PoweredOn
    BY DEF BmcNext, MainStep, PowerOn, ServeWithoutVm, ShutdownSignal, Stopped, Exit,
           KilledWhileBooting
  <2>2. Answered(Main, "ok")
    BY <2>1 DEF PoweredOn, Answer, Local, At, Answered
  <2> QED
    BY <2>2 DEF MainInv, PoweringOn
<1> QED
    BY <1>1, MainInvariant, PTL DEF BmcSpec, ServersStartConnected

\* Under main, too, only On's ConsumeBootOnce drops an override, and only when a VM has been
\* started since its request came in; the power-on at the start is such a request.
THEOREM OnceUnderMain == BmcSpec => OnceNeedsABoot
<1> DEFINE Consumes ==
      \A t \in Callers :
         At(t, "on_consume") /\ ~At(t, "on_consume")' /\ override' # override
             => forks > job[t].since
<1>1. MachineKnown /\ [BmcNext]_mainVars => [Consumes]_machineVars
  <2>1. MachineKnown => Consumes
    BY DEF MachineKnown, BootKnown, Booted, At
  <2> QED
    BY <2>1
<1> QED
    BY <1>1, MainInvariant, PTL DEF BmcSpec, OnceNeedsABoot, mainVars, machineVars
=============================================================================
