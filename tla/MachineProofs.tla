---------------------------- MODULE MachineProofs ----------------------------
(***************************************************************************)
(* Proofs about the machine in process mode, for every number of callers,  *)
(* of VMs and of requests: its steps are steps of the process manager, so  *)
(* the theorems of QemuProcessProofs hold of it; the QMP mutex excludes;   *)
(* and an ok answer to a power-off request means the old VM is off.        *)
(***************************************************************************)
EXTENDS Machine, QemuProcessProofs

USE BoundAssumption DEF Gen, Gen0

\* The types of the QMP client are those of the machine's own state.
QmpTypes == /\ conn \in Gen0
            /\ connected \in BOOLEAN
            /\ guest \in [Gen -> RunStates]
            /\ hung \in SUBSET Gen
            /\ qmp \in [Callers -> QmpFrame]

JobTypes == job \in [Callers -> Job] /\ override \in Overrides \cup {NoOverride}

\* The invariant the type proofs need.
MachineTypes == ProcessInv /\ MachineTypeOK

\* Only caller t's request moves.
JobOf(t) == JobTypes' /\ \A u \in Callers \ {t} : job'[u] = job[u]

\* Only caller t's exchange moves.
ExchangeOf(t) == QmpTypes' /\ \A u \in Callers \ {t} : qmp'[u] = qmp[u]

-----------------------------------------------------------------------------
(* The steps of the machine                                                *)

\* A step of the machine, whichever requests its callers may make; main makes some of
\* its own (BmcMain).
AnyNext ==
    \/ \E t \in Callers : \/ \E r \in RequestNames : Begin(t, r)
                          \/ LockQmp(t) \/ Work(t) \/ Deadline(t)
    \/ \E g \in Gen : ProcessEnvironment(g) \/ MonitorEnvironment(g)
    \/ \E o \in Overrides : SetBootOverride(o)

LEMMA NextIsAny == [MachineNext]_machineVars => [AnyNext]_machineVars
    BY RequestAssumption DEF MachineNext, AnyNext

-----------------------------------------------------------------------------
(* A machine step is a step of the process manager                         *)

\* Every target a request hands to Start is one Start is specified for.
LEMMA JobTarget ==
    ASSUME JobTypes, NEW t \in Callers
    PROVE  job[t].target \in Targets
    BY OverrideAssumption DEF JobTypes, Job

\* A step of the caller that calls, goes on in, or returns from the process
\* manager.
LEMMA CallerInProcess ==
    ASSUME JobTypes, NEW t \in Callers,
           \/ OnStart(t) \/ ForceOffStop(t) \/ ForceOffWait(t) \/ HardKill(t)
           \/ HardKillWait(t) \/ ExitWait(t) \/ StatusStop(t)
           \/ OnStarted(t) \/ ForceOffDone(t) \/ HardKilled(t) \/ HardKillWaited(t)
           \/ ExitWaited(t) \/ StatusStopped(t) \/ InProcess(t)
    PROVE  Call(t) \/ Inside(t) \/ TakeResult(t)
<1>1. CASE OnStart(t)
    BY <1>1, JobTarget DEF OnStart, Call
<1>2. CASE HardKill(t)
    BY <1>2 DEF HardKill, CallProcess, Kill, KillNoop, KillBegin, Call, Inside
<1>3. CASE ForceOffStop(t) \/ ForceOffWait(t) \/ HardKillWait(t) \/ ExitWait(t) \/ StatusStop(t)
    BY <1>3 DEF ForceOffStop, ForceOffWait, HardKillWait, ExitWait, StatusStop, CallProcess, Call
<1>4. CASE OnStarted(t) \/ ForceOffDone(t) \/ HardKilled(t) \/ HardKillWaited(t)
           \/ ExitWaited(t) \/ StatusStopped(t)
    BY <1>4 DEF OnStarted, ForceOffDone, HardKilled, HardKillWaited, ExitWaited, StatusStopped,
                ProcessResult
<1>5. CASE InProcess(t)
    BY <1>5 DEF InProcess
<1>6. QED
    BY <1>1, <1>2, <1>3, <1>4, <1>5

\* An exchange with QEMU is a step of the process manager only when QEMU
\* accepts a quit.
LEMMA QmpInProcess ==
    ASSUME NEW t \in Callers, InQmp(t)
    PROVE  UNCHANGED processVars \/ \E g \in Gen : QuitAccepted(g)
<1>1. CASE ExecuteReply(t)
    BY <1>1 DEF InQmp, ExecuteReply, PeerAnswers, PeerUp, QuitAccepted, processVars, osVars, pmVars,
                monVars
<1>2. CASE ExecuteEof(t) \/ ConnectReady(t) \/ ConnectEof(t)
    BY <1>2 DEF InQmp, ExecuteEof, ConnectReady, ConnectEof, processVars, osVars, pmVars, monVars
<1>3. QED
    BY <1>1, <1>2 DEF InQmp, QmpAnswer

\* The steps of the machine's own code and of its QMP exchanges.
LEMMA CallerOutside ==
    ASSUME NEW t \in Callers,
           \/ \E r \in RequestNames : Begin(t, r)
           \/ LockQmp(t) \/ Deadline(t) \/ Answer(t)
           \/ OnCheck(t) \/ OnTarget(t) \/ OnConsume(t) \/ StatusCheck(t)
           \/ OnConnected(t) \/ ForceOffQuitDone(t) \/ ResetDone(t) \/ PowerdownDone(t)
           \/ QmpStatusDone(t) \/ PowerStateDone(t)
    PROVE  UNCHANGED processVars
<1>1. CASE LockQmp(t)
    BY <1>1 DEF LockQmp, OnConnect, ForceOffQuit, ResetSend, PowerdownSend, StatusQuery, CallQmp,
                Execute, ExecuteFails, ExecuteSends, Connect, ConnectRefused, ConnectDials,
                processVars, osVars
<1>2. CASE OnConnected(t) \/ ForceOffQuitDone(t) \/ ResetDone(t) \/ PowerdownDone(t)
           \/ QmpStatusDone(t) \/ PowerStateDone(t)
    BY <1>2 DEF OnConnected, ForceOffQuitDone, ResetDone, PowerdownDone, QmpStatusDone,
                PowerStateDone, QmpResult
<1>3. QED
    BY <1>1, <1>2 DEF Begin, Deadline, Answer, OnCheck, OnTarget, OnConsume, StatusCheck, Local

\* Every step of the machine is one of the process manager, or none.
LEMMA MachineIsProcess ==
    ASSUME JobTypes, [AnyNext]_machineVars
    PROVE  [ProcessNext]_processVars
<1>1. ASSUME NEW t \in Callers, Work(t) PROVE [ProcessNext]_processVars
    BY <1>1, CallerInProcess, QmpInProcess, CallerOutside DEF Work, ProcessNext
<1>2. ASSUME NEW t \in Callers, (\E r \in RequestNames : Begin(t, r)) \/ LockQmp(t) \/ Deadline(t)
      PROVE  [ProcessNext]_processVars
    BY <1>2, CallerOutside
<1>3. ASSUME NEW g \in Gen, ProcessEnvironment(g) \/ MonitorEnvironment(g)
      PROVE  [ProcessNext]_processVars
    BY <1>3 DEF ProcessEnvironment, MonitorEnvironment, ProcessNext
<1>4. ASSUME NEW o \in Overrides, SetBootOverride(o) PROVE [ProcessNext]_processVars
    BY <1>4 DEF SetBootOverride
<1>5. CASE UNCHANGED machineVars
    BY <1>5 DEF machineVars
<1>6. QED
    BY <1>1, <1>2, <1>3, <1>4, <1>5 DEF AnyNext

-----------------------------------------------------------------------------
(* Types                                                                   *)

\* A caller without a request.
LEMMA NoJobType == NoJob \in Job /\ NoJob.pc = "idle"
<1>1. "None" \in {o.target : o \in Overrides \cup {NoOverride}}
  <2>1. NoOverride.target = "None" /\ NoOverride \in Overrides \cup {NoOverride}
    BY DEF NoOverride
  <2>2. QED
    BY <2>1
<1>2. "idle" \in Statements /\ "none" \in Replies /\ 0 \in Gen0
    BY DEF Statements, Replies
<1>3. QED
    BY <1>1, <1>2 DEF NoJob, Job

\* A request that goes on to another statement.
LEMMA Went ==
    ASSUME JobTypes, UNCHANGED override, NEW t \in Callers, NEW p \in Statements, Goto(t, p)
    PROVE  JobOf(t) /\ job'[t] = [job[t] EXCEPT !.pc = p]
    BY DEF JobTypes, JobOf, Goto, Job

\* A request that ends in an answer.
LEMMA Finished ==
    ASSUME JobTypes, override' \in Overrides \cup {NoOverride},
           NEW t \in Callers, NEW r \in Replies, Finish(t, r)
    PROVE  /\ JobOf(t)
           /\ job'[t] = [job[t] EXCEPT !.pc = "reply", !.late = FALSE, !.reply = r]
<1>1. "reply" \in Statements
    BY DEF Statements
<1>2. job[t] \in Job
    BY DEF JobTypes
<1>3. [job[t] EXCEPT !.pc = "reply", !.late = FALSE, !.reply = r] \in Job
    BY <1>1, <1>2 DEF Job
<1>4. QED
    BY <1>3 DEF JobTypes, JobOf, Finish

\* A request that is replaced by another.
LEMMA JobReplaced ==
    ASSUME JobTypes, UNCHANGED override, NEW t \in Callers, NEW j \in Job,
           job' = [job EXCEPT ![t] = j]
    PROVE  JobOf(t) /\ job'[t] = j
    BY DEF JobTypes, JobOf

\* Calling a method of the process manager puts the caller in a frame, going
\* on keeps it there, and taking the result takes it out.
LEMMA EntersMethod ==
    ASSUME ProcessInv, NEW t \in Callers, Call(t)
    PROVE  call[t].at = "idle" /\ call'[t].at # "idle" /\ Others(t)
<1>1. FrameTypes /\ Others(t)
    BY CallerStep DEF ProcessInv, ProcessTypeOK, FrameTypes
<1>2. ASSUME NEW m, NEW p, NEW a, NEW b, NEW c, NEW r,
             call' = [call EXCEPT ![t] = InCall(m, p, a, b, c, r)], p # "idle"
      PROVE  call'[t].at # "idle"
    BY <1>1, <1>2 DEF FrameTypes, InCall
<1>3. ASSUME NEW m, NEW r, DoneNow(t, m, r) PROVE call'[t].at # "idle"
    BY <1>2, <1>3 DEF DoneNow
<1>4. CASE \E target \in Targets : Start(t, target)
    BY <1>1, <1>3, <1>4 DEF Start, StartNoop, StartFails, StartForks, Fork, Idle
<1>5. CASE Stop(t)
    BY <1>1, <1>2, <1>3, <1>5 DEF Stop, StopNoop, StopBegin, Idle
<1>6. CASE Idle(t) /\ Kill(t)
    BY <1>1, <1>2, <1>3, <1>6 DEF Kill, KillNoop, KillBegin, Idle
<1>7. CASE WaitForExit(t)
    BY <1>1, <1>2, <1>7 DEF WaitForExit, Idle
<1>8. QED
    BY <1>1, <1>4, <1>5, <1>6, <1>7 DEF Call

\* Inside a method a caller stays inside until its result is taken.
LEMMA StaysInside ==
    ASSUME ProcessInv, NEW t \in Callers, Inside(t)
    PROVE  call[t].at # "idle" /\ call'[t].at # "idle" /\ Others(t)
<1>1. FrameTypes /\ Others(t)
    BY CallerStep DEF ProcessInv, ProcessTypeOK, FrameTypes
<1>2. ASSUME NEW p \in Points \ {"idle"}, call' = [call EXCEPT ![t].at = p]
      PROVE  call'[t].at # "idle"
    BY <1>1, <1>2, Moved DEF Frame, FrameTypes
<1>f. PICK f \in Frame : f = call[t]
    BY <1>1 DEF FrameTypes
<1>3. ASSUME NEW r \in {"ok", "err"}, Done(t, r) PROVE call'[t].at # "idle"
  <2>1. call'[t] = [f EXCEPT !.at = "done", !.res = r]
    BY <1>1, <1>3, <1>f, DoneEffect
  <2>2. QED
    BY <2>1 DEF Frame
<1>4. CASE StopSignal(t)
    BY <1>1, <1>2, <1>3, <1>4 DEF StopSignal, Points
<1>5. CASE StopArm(t)
  <2>1. call'[t] = [f EXCEPT !.at = "wait", !.chan = exitCh]
    BY <1>1, <1>5, <1>f, Armed DEF StopArm, ProcessInv, ProcessTypeOK, FieldTypes
  <2>2. call[t].at = "arm"
    BY <1>5 DEF StopArm
  <2>3. QED
    BY <1>1, <2>1, <2>2 DEF Frame
<1>6. CASE WaitDone(t)
    BY <1>1, <1>3, <1>6 DEF WaitDone
<1>7. CASE WaitTimeout(t)
    BY <1>1, <1>2, <1>3, <1>7 DEF WaitTimeout, Points
<1>8. CASE call[t].at = "kill" /\ KillNoop(t)
    BY <1>1, <1>3, <1>8 DEF KillNoop, Idle
<1>9. CASE call[t].at = "kill" /\ KillBegin(t)
  <2>1. call'[t] = [f EXCEPT !.at = "sigkill", !.victim = cmd]
    BY <1>1, <1>9, <1>f, Aimed DEF KillBegin, Idle, ProcessInv, ProcessTypeOK, FieldTypes
  <2>2. QED
    BY <1>1, <1>9, <2>1 DEF Frame
<1>10. CASE KillSignal(t)
    BY <1>1, <1>3, <1>10 DEF KillSignal
<1>11. QED
    BY <1>1, <1>4, <1>5, <1>6, <1>7, <1>8, <1>9, <1>10 DEF Inside, Kill

\* Taking the result empties the frame.
LEMMA LeavesMethod ==
    ASSUME ProcessInv, NEW t \in Callers, TakeResult(t)
    PROVE  call[t].at = "done" /\ call'[t].at = "idle" /\ Others(t)
    BY CallerStep
       DEF TakeResult, Return, Returned, NoCall, InCall, ProcessInv, ProcessTypeOK, Others

\* Starting, ending and leaving an exchange replace the caller's one.
LEMMA ExchangeReplaced ==
    ASSUME QmpTypes, UNCHANGED <<guest, hung>>, conn' \in Gen0, connected' \in BOOLEAN,
           NEW t \in Callers, NEW f \in QmpFrame, qmp' = [qmp EXCEPT ![t] = f]
    PROVE  ExchangeOf(t) /\ qmp'[t] = f
    BY DEF QmpTypes, ExchangeOf

\* A command or a Connect starts an exchange, which may end at once.
LEMMA EntersExchange ==
    ASSUME QmpTypes, NEW t \in Callers, Connect(t) \/ \E c \in Commands : Execute(t, c)
    PROVE  ExchangeOf(t) /\ qmp[t].at = "idle" /\ qmp'[t].at # "idle"
<1>1. ASSUME NEW c \in Commands, Execute(t, c)
      PROVE  ExchangeOf(t) /\ qmp[t].at = "idle" /\ qmp'[t].at # "idle"
  <2>1. PICK at \in {"reply", "done"}, r \in {"ok", "err"} : qmp' = [qmp EXCEPT ![t] = Exchange(c, at, r)]
    BY <1>1 DEF Execute, ExecuteFails, ExecuteSends
  <2>2. conn' \in Gen0 /\ connected' \in BOOLEAN /\ UNCHANGED <<guest, hung>> /\ qmp[t].at = "idle"
    BY <1>1 DEF Execute, ExecuteFails, ExecuteSends, QmpTypes
  <2>3. Exchange(c, at, r) \in QmpFrame /\ Exchange(c, at, r).at # "idle"
    BY DEF Exchange, QmpFrame
  <2>4. ExchangeOf(t) /\ qmp'[t] = Exchange(c, at, r)
    BY <2>1, <2>2, <2>3, ExchangeReplaced
  <2>5. QED
    BY <2>2, <2>3, <2>4
<1>2. CASE Connect(t)
  <2>1. PICK at \in {"done", "greet"}, r \in {"ok", "err"} :
            qmp' = [qmp EXCEPT ![t] = Exchange("connect", at, r)]
    BY <1>2 DEF Connect, ConnectRefused, ConnectDials
  <2>2. conn' \in Gen0 /\ connected' = FALSE /\ UNCHANGED <<guest, hung>> /\ qmp[t].at = "idle"
    <3>1. CASE ConnectRefused(t)
        BY <3>1 DEF ConnectRefused
    <3>2. CASE ConnectDials(t)
        BY <3>2 DEF ConnectDials
    <3>3. QED
        BY <1>2, <3>1, <3>2 DEF Connect
  <2>3. Exchange("connect", at, r) \in QmpFrame /\ Exchange("connect", at, r).at # "idle"
    BY DEF Exchange, QmpFrame
  <2>4. ExchangeOf(t) /\ qmp'[t] = Exchange("connect", at, r)
    BY <2>1, <2>2, <2>3, ExchangeReplaced
  <2>5. QED
    BY <2>2, <2>3, <2>4
<1>3. QED
    BY <1>1, <1>2

\* An answer, or the end of the connection, ends the exchange of the caller
\* that holds the mutex.
LEMMA EndsExchange ==
    ASSUME QmpTypes, NEW t \in Callers, QmpAnswer(t)
    PROVE  ExchangeOf(t) /\ qmp[t].at \in {"reply", "greet"} /\ qmp'[t].at = "done"
<1>1. conn' \in Gen0 /\ connected' \in BOOLEAN /\ UNCHANGED <<guest, hung>>
  <2>1. conn \in Gen0 /\ connected \in BOOLEAN
    BY DEF QmpTypes
  <2>2. CASE ExecuteReply(t)
    BY <2>1, <2>2 DEF ExecuteReply
  <2>3. CASE ExecuteEof(t)
    BY <2>1, <2>3 DEF ExecuteEof
  <2>4. CASE ConnectReady(t)
    BY <2>1, <2>4 DEF ConnectReady
  <2>5. CASE ConnectEof(t)
    BY <2>1, <2>5 DEF ConnectEof
  <2>6. QED
    BY <2>2, <2>3, <2>4, <2>5 DEF QmpAnswer
<1>2. qmp[t].at \in {"reply", "greet"}
    BY DEF QmpAnswer, ExecuteReply, ExecuteEof, ConnectReady, ConnectEof
<1>3. \E r \in {"ok", "err"} \cup RunStates : QmpDone(t, r)
    BY DEF QmpAnswer, ExecuteReply, ExecuteEof, ConnectReady, ConnectEof, QmpTypes, PeerAnswers,
           PeerUp
<1>4. qmp[t].cmd \in Commands \cup {"none", "connect"} /\ conn \in Gen0
    BY DEF QmpTypes, QmpFrame
<1>5. PICK r \in {"ok", "err"} \cup RunStates :
          qmp' = [qmp EXCEPT ![t] = [Exchange(qmp[t].cmd, "done", r) EXCEPT !.peer = conn]]
    BY <1>3 DEF QmpDone, QmpTypes
<1>6. PICK f \in QmpFrame : qmp' = [qmp EXCEPT ![t] = f] /\ f.at = "done"
  <2>1. PICK c \in Commands \cup {"none", "connect"} : c = qmp[t].cmd
    BY <1>4
  <2>2. [Exchange(c, "done", r) EXCEPT !.peer = conn]
          = [cmd |-> c, at |-> "done", res |-> r, peer |-> conn]
    BY DEF Exchange
  <2>3. QED
    BY <1>4, <1>5, <2>1, <2>2 DEF QmpFrame
<1>7. ExchangeOf(t) /\ qmp'[t] = f
    BY <1>1, <1>6, ExchangeReplaced
<1>8. QED
    BY <1>2, <1>6, <1>7

\* Taking the result of an exchange empties the caller's frame.
LEMMA LeavesExchange ==
    ASSUME QmpTypes, NEW t \in Callers, QmpReturn(t), UNCHANGED <<conn, connected, guest, hung>>
    PROVE  ExchangeOf(t) /\ qmp[t].at = "done" /\ qmp'[t].at = "idle"
<1>1. qmp[t].at = "done" /\ qmp' = [qmp EXCEPT ![t] = Exchange("none", "idle", "ok")]
    BY DEF QmpReturn, QmpReturned, NoExchange
<1>2. conn' \in Gen0 /\ connected' \in BOOLEAN
    BY DEF QmpTypes
<1>3. Exchange("none", "idle", "ok") \in QmpFrame /\ Exchange("none", "idle", "ok").at = "idle"
    BY DEF Exchange, QmpFrame
<1>4. ExchangeOf(t) /\ qmp'[t] = Exchange("none", "idle", "ok")
    BY <1>1, <1>2, <1>3, ExchangeReplaced
<1>5. QED
    BY <1>1, <1>3, <1>4

-----------------------------------------------------------------------------
(* One step of one caller                                                  *)

\* A caller is inside a callee exactly at the statements that wait for it.
Waits(t) == /\ Idle(t) <=> job[t].pc \notin ProcessWaits
            /\ qmp[t].at = "idle" <=> job[t].pc \notin QmpWaits

\* A step of caller t keeps the types and leaves the other callers alone.
StepOf(t) ==
    /\ QmpTypes'
    /\ Waits(t)'
    /\ JobOf(t)
    /\ \A u \in Callers \ {t} : call'[u] = call[u] /\ qmp'[u] = qmp[u]

\* The machine's types are those of its parts.
LEMMA TypesSplit ==
    MachineTypeOK <=> ProcessTypeOK /\ QmpTypes /\ JobTypes /\ \A t \in Callers : Waits(t)
    BY DEF MachineTypeOK, QmpTypeOK, QmpTypes, JobTypes, Waits

\* The machine's own code.
LEMMA LocalStep ==
    ASSUME MachineTypes, NEW t \in Callers,
           \/ \E r \in RequestNames : Begin(t, r)
           \/ Answer(t) \/ OnCheck(t) \/ OnTarget(t) \/ OnConsume(t) \/ StatusCheck(t) \/ Deadline(t)
    PROVE  StepOf(t)
<1>1. JobTypes /\ QmpTypes /\ Waits(t) /\ job[t] \in Job
    BY TypesSplit DEF MachineTypes, JobTypes
<1>2. UNCHANGED <<processVars, qmpVars>>
    BY DEF Begin, Answer, OnCheck, OnTarget, OnConsume, StatusCheck, Deadline, Local
<1>3. QmpTypes' /\ UNCHANGED <<call, qmp>>
    BY <1>1, <1>2 DEF QmpTypes, qmpVars, processVars
<1>4. ASSUME JobOf(t), job[t].pc \notin ProcessWaits \cup QmpWaits,
             job'[t].pc \notin ProcessWaits \cup QmpWaits
      PROVE  StepOf(t)
    BY <1>1, <1>3, <1>4 DEF StepOf, Waits, Idle
<1>5. ASSUME NEW r \in RequestNames, Begin(t, r) PROVE StepOf(t)
  <2>1. r \in RequestNames /\ forks \in Gen0
    BY <1>5, RequestAssumption DEF MachineTypes, MachineTypeOK, ProcessTypeOK
  <2>2. Entry[r] \in Statements /\ Entry[r] \notin ProcessWaits \cup QmpWaits
    BY <2>1 DEF RequestNames, Entry, Statements, ProcessWaits, QmpWaits
  <2>3. PICK j \in Job : j = [NoJob EXCEPT !.req = r, !.pc = Entry[r], !.since = forks]
    BY <2>1, <2>2, NoJobType DEF Job
  <2>4. j.pc = Entry[r]
    BY <2>3, NoJobType DEF Job
  <2>5. JobOf(t) /\ job'[t] = j
    BY <1>1, <1>5, <2>3, JobReplaced DEF Begin
  <2>6. job[t].pc = "idle"
    BY <1>5 DEF Begin, Local, At
  <2>7. QED
    BY <1>4, <2>2, <2>4, <2>5, <2>6 DEF ProcessWaits, QmpWaits
<1>6. CASE Answer(t)
  <2>1. NoJob \in Job /\ NoJob.pc = "idle"
    BY NoJobType
  <2>2. JobOf(t) /\ job'[t] = NoJob
    BY <1>1, <1>6, <2>1, JobReplaced DEF Answer
  <2>3. QED
    BY <1>4, <1>6, <2>1, <2>2 DEF Answer, Local, At, ProcessWaits, QmpWaits
<1>7. CASE OnCheck(t) \/ OnConsume(t) \/ StatusCheck(t)
  <2>1. override' \in Overrides \cup {NoOverride}
    BY <1>1, <1>7 DEF OnCheck, OnConsume, StatusCheck, JobTypes
  <2>2. job[t].pc \in {"on_check", "on_consume", "ps_check"}
    BY <1>7 DEF OnCheck, OnConsume, StatusCheck, Local, At
  <2>3. \/ \E r \in {"ok", "On", "Off", "shutdown"} : Finish(t, r)
        \/ UNCHANGED override /\ \E p \in {"on_target", "ps_query"} : Goto(t, p)
    BY <1>7 DEF OnCheck, OnConsume, StatusCheck
  <2>4. JobOf(t) /\ job'[t].pc \in {"reply", "on_target", "ps_query"}
    <3>1. PICK j \in Job : j = job[t]
        BY <1>1
    <3>2. ASSUME NEW r \in {"ok", "On", "Off", "shutdown"}, Finish(t, r)
          PROVE  JobOf(t) /\ job'[t].pc = "reply"
      <4>1. r \in Replies
        BY DEF Replies, RunStates
      <4>2. JobOf(t) /\ job'[t] = [j EXCEPT !.pc = "reply", !.late = FALSE, !.reply = r]
        BY <1>1, <2>1, <3>1, <3>2, <4>1, Finished
      <4>3. QED
        BY <4>2 DEF Job
    <3>3. ASSUME NEW p \in {"on_target", "ps_query"}, Goto(t, p), UNCHANGED override
          PROVE  JobOf(t) /\ job'[t].pc = p
      <4>1. p \in Statements
        BY DEF Statements
      <4>2. JobOf(t) /\ job'[t] = [j EXCEPT !.pc = p]
        BY <1>1, <3>1, <3>3, <4>1, Went
      <4>3. QED
        BY <4>2 DEF Job
    <3>4. QED
        BY <2>3, <3>2, <3>3
  <2>5. QED
    BY <1>4, <2>2, <2>4 DEF ProcessWaits, QmpWaits
<1>8. CASE OnTarget(t)
  <2>1. override.target \in {o.target : o \in Overrides \cup {NoOverride}} /\ "on_start" \in Statements
    BY <1>1 DEF JobTypes, Statements
  <2>2. PICK j \in Job : j = [job[t] EXCEPT !.pc = "on_start", !.target = override.target]
    BY <1>1, <2>1 DEF Job
  <2>3. job' = [job EXCEPT ![t] = j] /\ UNCHANGED override /\ job[t].pc = "on_target"
    BY <1>1, <1>8, <2>2 DEF OnTarget, Local, At, JobTypes, Job
  <2>4. JobOf(t) /\ job'[t] = j
    BY <1>1, <2>3, JobReplaced
  <2>5. j.pc = "on_start"
    BY <1>1, <2>2 DEF Job
  <2>6. QED
    BY <1>4, <2>3, <2>4, <2>5 DEF ProcessWaits, QmpWaits
<1>9. CASE Deadline(t)
  <2>1. job' = [job EXCEPT ![t].late = TRUE] /\ UNCHANGED override
    BY <1>9 DEF Deadline
  <2>2. JobOf(t) /\ job'[t].pc = job[t].pc
    BY <1>1, <2>1 DEF JobOf, JobTypes, Job
  <2>3. QED
    BY <1>1, <1>3, <2>2 DEF StepOf, Waits, Idle
<1>10. QED
    BY <1>5, <1>6, <1>7, <1>8, <1>9

\* Where a request goes and how it ends, by statement alone.
LEMMA WentTo ==
    ASSUME JobTypes, UNCHANGED override, NEW t \in Callers, NEW p \in Statements, Goto(t, p)
    PROVE  JobOf(t) /\ job'[t].pc = p
<1>1. PICK j \in Job : j = job[t]
    BY DEF JobTypes
<1>2. JobOf(t) /\ job'[t] = [j EXCEPT !.pc = p]
    BY <1>1, Went
<1>3. QED
    BY <1>2 DEF Job

\* An answer leaves the request at "reply".
LEMMA FinishedAt ==
    ASSUME JobTypes, UNCHANGED override, NEW t \in Callers, NEW r \in Replies, Finish(t, r)
    PROVE  JobOf(t) /\ job'[t].pc = "reply"
<1>1. PICK j \in Job : j = job[t]
    BY DEF JobTypes
<1>2. JobOf(t) /\ job'[t] = [j EXCEPT !.pc = "reply", !.late = FALSE, !.reply = r]
    BY <1>1, Finished DEF JobTypes
<1>3. QED
    BY <1>2 DEF Job

\* Start is called with the target read before, which is then forgotten.
LEMMA StartWent ==
    ASSUME JobTypes, NEW t \in Callers, OnStart(t)
    PROVE  /\ JobOf(t)
           /\ job'[t] = [job[t] EXCEPT !.pc = "on_started", !.target = "None"]
           /\ job'[t].pc = "on_started"
<1>1. "None" \in {o.target : o \in Overrides \cup {NoOverride}} /\ "on_started" \in Statements
    BY NoJobType DEF NoJob, Job, Statements
<1>2. PICK i \in Job : i = job[t]
    BY DEF JobTypes
<1>3. PICK j \in Job : j = [i EXCEPT !.pc = "on_started", !.target = "None"]
    BY <1>1 DEF Job
<1>4. job' = [job EXCEPT ![t] = j] /\ UNCHANGED override
    BY <1>2, <1>3 DEF OnStart, JobTypes, Job
<1>5. JobOf(t) /\ job'[t] = j
    BY <1>4, JobReplaced
<1>6. QED
    BY <1>2, <1>3, <1>5 DEF Job

\* Statements that call a method of the process manager.
LEMMA CallsStep ==
    ASSUME MachineTypes, NEW t \in Callers,
           \/ OnStart(t) \/ ForceOffStop(t) \/ ForceOffWait(t) \/ HardKill(t)
           \/ HardKillWait(t) \/ ExitWait(t) \/ StatusStop(t)
    PROVE  StepOf(t) /\ Call(t) /\ UNCHANGED <<qmpVars, override>>
<1>1. ProcessInv /\ JobTypes /\ QmpTypes /\ Waits(t)
    BY TypesSplit DEF MachineTypes
<1>2. UNCHANGED <<qmpVars, override>>
    BY DEF OnStart, ForceOffStop, ForceOffWait, HardKill, HardKillWait, ExitWait, StatusStop,
           CallProcess
<1>3. job[t].pc \notin ProcessWaits \cup QmpWaits
    BY DEF OnStart, ForceOffStop, ForceOffWait, HardKill, HardKillWait, ExitWait, StatusStop,
           CallProcess, At, ProcessWaits, QmpWaits
<1>4. JobOf(t) /\ job'[t].pc \in ProcessWaits \ QmpWaits
  <2>1. CASE OnStart(t)
    BY <1>1, <2>1, StartWent DEF ProcessWaits, QmpWaits
  <2>2. CASE ~OnStart(t)
    <3>1. \E p \in {"off_done", "killed", "kill_waited", "exit_waited", "ps_stopped"} : Goto(t, p)
        BY <2>2 DEF ForceOffStop, ForceOffWait, HardKill, HardKillWait, ExitWait, StatusStop,
                    CallProcess
    <3>2. PICK p \in {"off_done", "killed", "kill_waited", "exit_waited", "ps_stopped"} : Goto(t, p)
        BY <3>1
    <3>3. p \in Statements /\ p \in ProcessWaits \ QmpWaits
        BY DEF Statements, ProcessWaits, QmpWaits
    <3>4. QED
        BY <1>1, <1>2, <3>2, <3>3, WentTo
  <2>3. QED
    BY <2>1, <2>2
<1>5. call[t].at = "idle"
    BY <1>1, <1>3 DEF Waits, Idle
<1>6. Call(t)
    BY <1>1, <1>5, CallerInProcess DEF Inside, TakeResult, Return, Returned, StopSignal, StopArm,
                                       WaitDone, WaitTimeout, KillSignal
<1>7. call'[t].at # "idle" /\ Others(t)
    BY <1>1, <1>6, EntersMethod
<1>8. QmpTypes' /\ UNCHANGED qmp
    BY <1>1, <1>2 DEF QmpTypes, qmpVars
<1>9. QED
    BY <1>1, <1>2, <1>3, <1>4, <1>6, <1>7, <1>8 DEF StepOf, Waits, Idle, Others

\* Statements that take the result of a method.
LEMMA ResultStep ==
    ASSUME MachineTypes, NEW t \in Callers,
           \/ OnStarted(t) \/ ForceOffDone(t) \/ HardKilled(t) \/ HardKillWaited(t)
           \/ ExitWaited(t) \/ StatusStopped(t)
    PROVE  StepOf(t) /\ TakeResult(t) /\ UNCHANGED <<qmpVars, override>>
<1>1. ProcessInv /\ JobTypes /\ QmpTypes /\ Waits(t)
    BY TypesSplit DEF MachineTypes
<1>2. TakeResult(t) /\ UNCHANGED <<qmpVars, override>>
    BY DEF OnStarted, ForceOffDone, HardKilled, HardKillWaited, ExitWaited, StatusStopped,
           ProcessResult
<1>3. call[t].at = "done" /\ call'[t].at = "idle" /\ Others(t)
    BY <1>1, <1>2, LeavesMethod
<1>4. qmp[t].at = "idle"
    BY <1>1, <1>3 DEF Waits, Idle, ProcessWaits, QmpWaits
<1>5. JobOf(t) /\ job'[t].pc \in {"reply", "on_connect", "on_check", "kill", "kill_wait"}
  <2>1. call[t].res \in {"ok", "err"}
    BY <1>1 DEF ProcessInv, ProcessTypeOK, Frame
  <2>2. \/ \E r \in {"ok", "err", "Off"} : Finish(t, r)
        \/ \E p \in {"on_connect", "on_check", "kill", "kill_wait"} : Goto(t, p)
    BY <2>1 DEF OnStarted, ForceOffDone, HardKilled, HardKillWaited, ExitWaited, StatusStopped
  <2>3. {"ok", "err", "Off"} \subseteq Replies
        /\ {"on_connect", "on_check", "kill", "kill_wait"} \subseteq Statements
    BY DEF Replies, Statements
  <2>4. QED
    BY <1>1, <1>2, <2>2, <2>3, WentTo, FinishedAt
<1>6. QmpTypes' /\ UNCHANGED qmp
    BY <1>1, <1>2 DEF QmpTypes, qmpVars
<1>7. QED
    BY <1>2, <1>3, <1>4, <1>5, <1>6 DEF StepOf, Waits, Idle, Others, ProcessWaits, QmpWaits

\* Statements that start a QMP exchange.
LEMMA SendStep ==
    ASSUME MachineTypes, NEW t \in Callers, LockQmp(t)
    PROVE  /\ StepOf(t)
           /\ Connect(t) \/ \E c \in Commands : Execute(t, c)
           /\ UNCHANGED <<processVars, override>>
<1>1. ProcessInv /\ JobTypes /\ QmpTypes /\ Waits(t)
    BY TypesSplit DEF MachineTypes
<1>2. Connect(t) \/ \E c \in Commands : Execute(t, c)
    BY DEF LockQmp, OnConnect, ForceOffQuit, ResetSend, PowerdownSend, StatusQuery, CallQmp, Commands
<1>3. UNCHANGED <<processVars, override>>
    BY CallerOutside DEF LockQmp, OnConnect, ForceOffQuit, ResetSend, PowerdownSend, StatusQuery,
                         CallQmp
<1>4. PICK p \in QmpWaits : Goto(t, p)
    BY DEF LockQmp, OnConnect, ForceOffQuit, ResetSend, PowerdownSend, StatusQuery, CallQmp, QmpWaits
<1>5. p \in Statements /\ p \notin ProcessWaits
    BY <1>4 DEF Statements, QmpWaits, ProcessWaits
<1>6. JobOf(t) /\ job'[t].pc = p
    BY <1>1, <1>3, <1>4, <1>5, WentTo
<1>7. job[t].pc \notin ProcessWaits
    BY DEF LockQmp, OnConnect, ForceOffQuit, ResetSend, PowerdownSend, StatusQuery, CallQmp, At,
           ProcessWaits
<1>8. ExchangeOf(t) /\ qmp'[t].at # "idle"
    BY <1>1, <1>2, EntersExchange
<1>9. UNCHANGED call
    BY <1>3 DEF processVars
<1>10. QED
    BY <1>1, <1>2, <1>3, <1>5, <1>6, <1>7, <1>8, <1>9 DEF StepOf, Waits, Idle, ExchangeOf

\* Statements that take the result of a QMP exchange.
LEMMA ReceiveStep ==
    ASSUME MachineTypes, NEW t \in Callers,
           \/ OnConnected(t) \/ ForceOffQuitDone(t) \/ ResetDone(t) \/ PowerdownDone(t)
           \/ QmpStatusDone(t) \/ PowerStateDone(t)
    PROVE  /\ StepOf(t)
           /\ QmpReturn(t)
           /\ UNCHANGED <<processVars, conn, connected, guest, hung, override>>
<1>1. ProcessInv /\ JobTypes /\ QmpTypes /\ Waits(t)
    BY TypesSplit DEF MachineTypes
<1>2. QmpReturn(t) /\ UNCHANGED <<processVars, conn, connected, guest, hung, override>>
    BY DEF OnConnected, ForceOffQuitDone, ResetDone, PowerdownDone, QmpStatusDone, PowerStateDone,
           QmpResult
<1>3. ExchangeOf(t) /\ qmp[t].at = "done" /\ qmp'[t].at = "idle"
    BY <1>1, <1>2, LeavesExchange
<1>4. UNCHANGED call
    BY <1>2 DEF processVars
<1>5. call[t].at = "idle"
    BY <1>1, <1>3 DEF Waits, Idle, ProcessWaits, QmpWaits
<1>6. qmp[t].res \in {"ok", "err"} \cup RunStates /\ qmp[t].peer \in Gen0
    BY <1>1 DEF QmpTypes, QmpFrame
<1>7. JobOf(t) /\ job'[t].pc \in Statements \ (ProcessWaits \cup QmpWaits)
  <2> DEFINE Next == {"on_consume", "on_connect", "stop", "quit_wait", "exit_wait"}
  <2>1. CASE \E r \in {"ok", "err", "On"} \cup RunStates : Finish(t, r)
    <3>1. {"ok", "err", "On"} \cup RunStates \subseteq Replies
        BY DEF Replies
    <3>2. "reply" \in Statements \ (ProcessWaits \cup QmpWaits)
        BY DEF Statements, ProcessWaits, QmpWaits
    <3>3. QED
        BY <1>1, <1>2, <2>1, <3>1, <3>2, FinishedAt
  <2>2. CASE \E p \in Next : Goto(t, p)
    <3>1. Next \subseteq Statements \ (ProcessWaits \cup QmpWaits)
        BY DEF Statements, ProcessWaits, QmpWaits
    <3>2. QED
        BY <1>1, <1>2, <2>2, <3>1, WentTo
  <2>3. CASE job' = [job EXCEPT ![t].pc = "ps_stop", ![t].saw = qmp[t].peer]
    <3>1. "ps_stop" \in Statements \ (ProcessWaits \cup QmpWaits)
        BY DEF Statements, ProcessWaits, QmpWaits
    <3>2. PICK i \in Job : i = job[t]
        BY <1>1 DEF JobTypes
    <3>3. PICK j \in Job : j = [i EXCEPT !.pc = "ps_stop", !.saw = qmp[t].peer]
        BY <1>6, <3>1 DEF Job
    <3>4. job' = [job EXCEPT ![t] = j] /\ UNCHANGED override
        BY <1>1, <1>2, <2>3, <3>2, <3>3 DEF JobTypes, Job
    <3>5. JobOf(t) /\ job'[t] = j
        BY <1>1, <3>4, JobReplaced
    <3>6. QED
        BY <3>1, <3>2, <3>3, <3>5 DEF Job
  <2>4. CASE OnConnected(t) \/ ForceOffQuitDone(t) \/ PowerdownDone(t)
    BY <2>1, <2>2, <2>4 DEF OnConnected, ForceOffQuitDone, PowerdownDone
  <2>5. CASE ResetDone(t) \/ QmpStatusDone(t) \/ PowerStateDone(t)
    <3>1. PICK r \in {"ok", "err"} \cup RunStates : r = qmp[t].res
        BY <1>6
    <3>2. CASE ResetDone(t)
        BY <2>1, <3>1, <3>2 DEF ResetDone
    <3>3. CASE QmpStatusDone(t)
      <4>1. Finish(t, IF r = "err" THEN "running" ELSE r)
        BY <3>1, <3>3 DEF QmpStatusDone
      <4>2. (IF r = "err" THEN "running" ELSE r) \in {"ok", "err", "On"} \cup RunStates
        BY <3>1 DEF RunStates
      <4>3. QED
        BY <2>1, <4>1, <4>2
    <3>4. CASE PowerStateDone(t)
        BY <2>1, <2>3, <3>4 DEF PowerStateDone
    <3>5. QED
        BY <2>5, <3>2, <3>3, <3>4
  <2>6. QED
    BY <2>4, <2>5
<1>8. QED
    BY <1>2, <1>3, <1>4, <1>5, <1>7 DEF StepOf, Waits, Idle, ExchangeOf

\* Steps inside the process manager and the QMP client.
LEMMA InsideStep ==
    ASSUME MachineTypes, NEW t \in Callers, InProcess(t) \/ InQmp(t)
    PROVE  StepOf(t) /\ UNCHANGED <<job, override>>
<1>1. ProcessInv /\ JobTypes /\ QmpTypes /\ Waits(t)
    BY TypesSplit DEF MachineTypes
<1>2. UNCHANGED <<job, override>> /\ JobOf(t)
    BY <1>1 DEF InProcess, InQmp, JobOf, JobTypes
<1>3. CASE InProcess(t)
  <2>1. call[t].at # "idle" /\ call'[t].at # "idle" /\ Others(t)
    BY <1>1, <1>3, StaysInside DEF InProcess
  <2>2. QmpTypes' /\ UNCHANGED qmp
    BY <1>1, <1>3 DEF InProcess, QmpTypes, qmpVars
  <2>3. QED
    BY <1>1, <1>2, <2>1, <2>2 DEF StepOf, Waits, Idle, Others
<1>4. CASE InQmp(t)
  <2>1. ExchangeOf(t) /\ qmp[t].at \in {"reply", "greet"} /\ qmp'[t].at = "done"
    BY <1>1, <1>4, EndsExchange DEF InQmp
  <2>2. UNCHANGED call
    BY <1>4 DEF InQmp
  <2>3. QED
    BY <1>1, <1>2, <2>1, <2>2 DEF StepOf, Waits, Idle, ExchangeOf
<1>5. QED
    BY <1>3, <1>4

\* Any step of one caller.
LEMMA AnyStep ==
    ASSUME MachineTypes, NEW t \in Callers,
           (\E r \in RequestNames : Begin(t, r)) \/ LockQmp(t) \/ Work(t) \/ Deadline(t)
    PROVE  StepOf(t)
    BY LocalStep, CallsStep, ResultStep, SendStep, ReceiveStep, InsideStep DEF Work

\* Steps of nobody's request leave the frames alone.
LEMMA EnvironmentStep ==
    ASSUME MachineTypes,
           \/ \E g \in Gen : ProcessEnvironment(g) \/ MonitorEnvironment(g)
           \/ \E o \in Overrides : SetBootOverride(o)
    PROVE  QmpTypes' /\ JobTypes' /\ UNCHANGED <<call, qmp, job>>
<1>1. JobTypes /\ QmpTypes
    BY TypesSplit DEF MachineTypes
<1>2. ASSUME NEW g \in Gen, ProcessEnvironment(g)
      PROVE  QmpTypes' /\ JobTypes' /\ UNCHANGED <<call, qmp, job>>
    BY <1>1, <1>2 DEF ProcessEnvironment, Monitor, MonitorBegin, MonitorReap, MonitorClear,
                      MonitorClose, ProcessExit, qmpVars, QmpTypes, JobTypes
<1>3. ASSUME NEW g \in Gen, MonitorEnvironment(g)
      PROVE  QmpTypes' /\ JobTypes' /\ UNCHANGED <<call, qmp, job>>
    BY <1>1, <1>3 DEF MonitorEnvironment, QemuHangs, GuestPowersOff, processVars, QmpTypes,
                      JobTypes, RunStates
<1>4. ASSUME NEW o \in Overrides, SetBootOverride(o)
      PROVE  QmpTypes' /\ JobTypes' /\ UNCHANGED <<call, qmp, job>>
    BY <1>1, <1>4 DEF SetBootOverride, processVars, qmpVars, QmpTypes, JobTypes
<1>5. QED
    BY <1>2, <1>3, <1>4

\* MachineTypes is inductive.
LEMMA MachineTypesStep ==
    ASSUME MachineTypes, [AnyNext]_machineVars
    PROVE  MachineTypes'
<1>1. JobTypes /\ QmpTypes /\ (\A t \in Callers : Waits(t)) /\ ProcessInv
    BY TypesSplit DEF MachineTypes
<1>2. ProcessInv' /\ ProcessTypeOK'
    BY <1>1, MachineIsProcess, ProcessStepInv DEF ProcessInv
<1>3. QmpTypes' /\ JobTypes' /\ \A t \in Callers : Waits(t)'
  <2>1. ASSUME NEW t \in Callers, StepOf(t)
        PROVE  QmpTypes' /\ JobTypes' /\ \A u \in Callers : Waits(u)'
    BY <1>1, <2>1 DEF StepOf, JobOf, Waits, Idle
  <2>2. CASE \/ \E g \in Gen : ProcessEnvironment(g) \/ MonitorEnvironment(g)
             \/ \E o \in Overrides : SetBootOverride(o)
    <3>1. QmpTypes' /\ JobTypes' /\ UNCHANGED <<call, qmp, job>>
        BY <2>2, EnvironmentStep
    <3>2. QED
        BY <1>1, <3>1 DEF Waits, Idle
  <2>3. CASE UNCHANGED machineVars
    BY <1>1, <2>3 DEF machineVars, processVars, qmpVars, QmpTypes, JobTypes, Waits, Idle
  <2>4. QED
    BY <2>1, <2>2, <2>3, AnyStep DEF AnyNext
<1>4. QED
    BY <1>2, <1>3 DEF MachineTypes, MachineTypeOK, QmpTypeOK, QmpTypes, JobTypes, Waits

\* The program starts in MachineTypes (NewWithProcess, NewDisconnectedClient).
LEMMA MachineInitTypes == MachineInit => MachineTypes
<1> SUFFICES ASSUME MachineInit PROVE MachineTypes
    OBVIOUS
<1>1. ProcessInv /\ ProcessTypeOK
    BY ProcessInitInv DEF MachineInit, ProcessInv
<1>2. Exchange("none", "idle", "ok") \in QmpFrame /\ Exchange("none", "idle", "ok").at = "idle"
    BY DEF Exchange, QmpFrame
<1>3. QmpTypes
  <2>1. guest \in [Gen -> RunStates]
    BY BootAssumption DEF MachineInit, QmpInit
  <2>2. qmp \in [Callers -> QmpFrame]
    BY <1>2 DEF MachineInit, QmpInit, NoExchange
  <2>3. conn \in Gen0 /\ connected \in BOOLEAN /\ hung \in SUBSET Gen
    <3>1. conn = 0 /\ connected = FALSE /\ hung = {}
        BY DEF MachineInit, QmpInit
    <3>2. conn \in Gen0
        BY <3>1
    <3>3. connected \in BOOLEAN
        BY <3>1
    <3>4. hung \in SUBSET Gen
        BY <3>1
    <3>5. QED
        BY <3>2, <3>3, <3>4
  <2>4. QED
    BY <2>1, <2>2, <2>3 DEF QmpTypes
<1>4. JobTypes
    BY NoJobType DEF MachineInit, JobTypes
<1>5. ASSUME NEW t \in Callers PROVE Waits(t)
  <2>1. call[t].at = "idle" /\ qmp[t].at = "idle" /\ job[t].pc = "idle"
    BY <1>2, NoJobType DEF MachineInit, ProcessInit, QmpInit, NoCall, InCall, NoExchange
  <2>2. QED
    BY <2>1 DEF Waits, Idle, ProcessWaits, QmpWaits
<1>6. QED
    BY <1>1, <1>3, <1>4, <1>5, TypesSplit DEF MachineTypes

\* Every request keeps its types, and is inside the process manager or the QMP
\* client only where it waits for them (resetProcessMode and the queries).
THEOREM MachineTyped == MachineSpec => []MachineTypeOK
<1>1. MachineInit => MachineTypes
    BY MachineInitTypes
<1>2. MachineTypes /\ [AnyNext]_machineVars => MachineTypes'
    BY MachineTypesStep
<1>3. MachineTypes => MachineTypeOK
    BY DEF MachineTypes
<1>4. QED
    BY <1>1, <1>2, <1>3, NextIsAny, PTL DEF MachineSpec

\* The machine uses the process manager only as ProcessSpec allows, so every
\* theorem of QemuProcessProofs holds of the machine.
THEOREM MachineImplements == MachineSpec => ImplementsProcess
<1>1. MachineInit => MachineTypes /\ ProcessInit
    BY MachineInitTypes DEF MachineInit
<1>2. MachineTypes /\ [AnyNext]_machineVars => MachineTypes' /\ [ProcessNext]_processVars
    BY MachineTypesStep, MachineIsProcess, TypesSplit DEF MachineTypes
<1>3. QED
    BY <1>1, <1>2, NextIsAny, PTL DEF MachineSpec, ImplementsProcess, ProcessSpec

-----------------------------------------------------------------------------
(* The QMP client's mutex                                                  *)

InExchange(t) == qmp[t].at \in {"reply", "greet"}

\* At most one caller is in an exchange.
QmpMutex == \A t, u \in Callers : InExchange(t) /\ InExchange(u) => t = u

\* While a caller stays in its exchange nobody else enters one, and the
\* connection stays.
ExchangeKept ==
    \A t \in Callers :
        qmp[t].at \in {"reply", "greet"} /\ qmp'[t] = qmp[t]
            => conn' = conn /\ connected' = connected
               /\ \A u \in Callers : qmp'[u].at \in {"reply", "greet"} => u = t

\* Each step keeps the mutex, and the connection of its holder.
LEMMA MutexStep ==
    ASSUME MachineTypes, QmpMutex, [AnyNext]_machineVars
    PROVE  QmpMutex' /\ ExchangeKept
<1>1. QmpTypes
    BY TypesSplit DEF MachineTypes
<1>2. CASE UNCHANGED <<conn, connected, qmp>>
    BY <1>2 DEF QmpMutex, InExchange, ExchangeKept
<1>3. ASSUME NEW t \in Callers, LockQmp(t) PROVE QmpMutex' /\ ExchangeKept
  <2>1. QmpFree
    BY <1>3, SendStep DEF Execute, ExecuteFails, ExecuteSends, Connect, ConnectRefused, ConnectDials
  <2>2. \A u \in Callers \ {t} : qmp'[u] = qmp[u]
    BY <1>3, SendStep DEF StepOf
  <2>3. QED
    BY <2>1, <2>2 DEF QmpFree, QmpMutex, InExchange, ExchangeKept
<1>4. ASSUME NEW t \in Callers, QmpReturn(t), UNCHANGED <<conn, connected, guest, hung>>
      PROVE  QmpMutex' /\ ExchangeKept
  <2>1. ExchangeOf(t) /\ qmp[t].at = "done" /\ qmp'[t].at = "idle"
    BY <1>1, <1>4, LeavesExchange
  <2>2. QED
    BY <1>4, <2>1 DEF ExchangeOf, QmpMutex, InExchange, ExchangeKept
<1>5. ASSUME NEW t \in Callers, InQmp(t) PROVE QmpMutex' /\ ExchangeKept
  <2>1. ExchangeOf(t) /\ qmp[t].at \in {"reply", "greet"} /\ qmp'[t].at = "done"
    BY <1>1, <1>5, EndsExchange DEF InQmp
  <2>2. QED
    BY <2>1 DEF ExchangeOf, QmpMutex, InExchange, ExchangeKept
<1>6. ASSUME NEW t \in Callers, Work(t) PROVE QmpMutex' /\ ExchangeKept
  <2>1. CASE UNCHANGED qmpVars
    BY <1>2, <2>1 DEF qmpVars
  <2>2. QED
    BY <1>4, <1>5, <1>6, <2>1, CallsStep, ResultStep, ReceiveStep
       DEF Work, OnCheck, OnTarget, OnConsume, StatusCheck, Answer, Local, InProcess
<1>7. ASSUME NEW t \in Callers, (\E r \in RequestNames : Begin(t, r)) \/ Deadline(t)
      PROVE  QmpMutex' /\ ExchangeKept
    BY <1>2, <1>7 DEF Begin, Local, Deadline, qmpVars
<1>8. CASE \/ \E g \in Gen : ProcessEnvironment(g) \/ MonitorEnvironment(g)
           \/ \E o \in Overrides : SetBootOverride(o)
    BY <1>2, <1>8 DEF ProcessEnvironment, MonitorEnvironment, QemuHangs, GuestPowersOff,
                      SetBootOverride, qmpVars
<1>9. CASE UNCHANGED machineVars
    BY <1>2, <1>9 DEF machineVars, qmpVars
<1>10. QED
    BY <1>3, <1>6, <1>7, <1>8, <1>9 DEF AnyNext

\* The client's mutex: one exchange at a time, over one connection.
THEOREM MutexHolds == MachineSpec => QmpExchangesAreAtomic
<1>1. MachineInit => MachineTypes /\ QmpMutex
  <2>1. Exchange("none", "idle", "ok").at = "idle"
    BY DEF Exchange
  <2>2. MachineInit => QmpMutex
    BY <2>1 DEF MachineInit, QmpInit, NoExchange, QmpMutex, InExchange
  <2>3. QED
    BY <2>2, MachineInitTypes
<1>2. MachineTypes /\ QmpMutex /\ [AnyNext]_machineVars
        => MachineTypes' /\ QmpMutex' /\ [ExchangeKept]_machineVars
    BY MachineTypesStep, MutexStep
<1>3. QED
    BY <1>1, <1>2, NextIsAny, PTL DEF MachineSpec, QmpExchangesAreAtomic, ExchangeKept

-----------------------------------------------------------------------------
(* What a request knows of the VMs before it                               *)

\* A VM was started since t's request came in.
Booted(t) == forks > job[t].since

\* On starts a VM unless one appears between its check and its Start; either
\* way one has been started since the request by the time it connects.
BootKnown(t) ==
    /\ job[t].since <= forks
    /\ job[t].pc \in {"on_target", "on_start"} => Booted(t) \/ ~running
    /\ job[t].pc = "on_started" => Returned(t) /\ (call[t].res = "ok" => Booted(t))
    /\ job[t].pc \in {"on_connect", "on_connected", "on_consume"} => Booted(t)

\* A step of the machine only makes processes older.
LEMMA MachineLater ==
    ASSUME MachineTypes, [AnyNext]_machineVars
    PROVE  /\ forks \in Nat /\ forks' \in Nat /\ forks <= forks'
           /\ \A g \in Gen : g <= forks /\ Settled(g) => Settled(g)'
           /\ ~running /\ running' => forks' > forks
<1>1. ProcessInv /\ [ProcessNext]_processVars
    BY MachineIsProcess, TypesSplit DEF MachineTypes
<1>2. CASE ProcessNext
  <2>1. FieldsInv' /\ Later
    BY <1>1, <1>2, FieldsStep
  <2>2. ~running /\ running' => forks' > forks
    BY <1>1, <1>2, WhatChanges
       DEF StartFails, StartForks, Fork, MonitorReap, MonitorClear, ProcessExit, pmVars,
           ProcessInv, ProcessTypeOK
  <2>3. QED
    BY <1>1, <2>1, <2>2 DEF Later, FieldsInv, FieldTypes, ProcessInv, ProcessTypeOK
<1>3. CASE UNCHANGED processVars
    BY <1>1, <1>3 DEF processVars, pmVars, osVars, Settled, ProcessInv, ProcessTypeOK
<1>4. QED
    BY <1>1, <1>2, <1>3

\* A request that goes on, ends, or reads the clock keeps its name and the VM
\* it came in over.
LEMMA RequestKept ==
    ASSUME MachineTypes, NEW t \in Callers, LockQmp(t) \/ Work(t) \/ Deadline(t), ~Answer(t)
    PROVE  /\ job'[t].req = job[t].req
           /\ job'[t].since = job[t].since
           /\ job[t].pc # "idle"
<1>1. JobTypes /\ Waits(t)
    BY TypesSplit DEF MachineTypes
<1>2. PICK j \in Job : j = job[t]
    BY <1>1 DEF JobTypes
<1>3. ASSUME NEW p, Goto(t, p) PROVE job'[t].req = j.req /\ job'[t].since = j.since
    BY <1>1, <1>2, <1>3 DEF Goto, JobTypes, Job
<1>4. ASSUME NEW r, Finish(t, r) PROVE job'[t].req = j.req /\ job'[t].since = j.since
    BY <1>1, <1>2, <1>4 DEF Finish, JobTypes, Job
<1>5. CASE OnTarget(t) \/ OnStart(t) \/ PowerStateDone(t) \/ Deadline(t)
  <2>1. CASE OnTarget(t)
    BY <1>1, <1>2, <2>1 DEF OnTarget, Local, At, JobTypes, Job
  <2>2. CASE OnStart(t)
    BY <1>1, <1>2, <2>2 DEF OnStart, At, JobTypes, Job
  <2>3. CASE Deadline(t)
    BY <1>1, <1>2, <2>3 DEF Deadline, JobTypes, Job
  <2>4. CASE PowerStateDone(t)
    <3>1. job[t].pc = "ps_queried"
        BY <2>4 DEF PowerStateDone, QmpResult, At
    <3>2. CASE job' = [job EXCEPT ![t].pc = "ps_stop", ![t].saw = qmp[t].peer]
        BY <1>1, <1>2, <3>1, <3>2 DEF JobTypes, Job
    <3>3. QED
        BY <1>2, <1>4, <2>4, <3>1, <3>2 DEF PowerStateDone
  <2>5. QED
    BY <1>5, <2>1, <2>2, <2>3, <2>4
<1>6. CASE LockQmp(t)
    BY <1>2, <1>3, <1>6
       DEF LockQmp, OnConnect, ForceOffQuit, ResetSend, PowerdownSend, StatusQuery, CallQmp, At
<1>7. CASE ForceOffStop(t) \/ ForceOffWait(t) \/ HardKill(t) \/ HardKillWait(t) \/ ExitWait(t)
           \/ StatusStop(t)
    BY <1>2, <1>3, <1>7
       DEF ForceOffStop, ForceOffWait, HardKill, HardKillWait, ExitWait, StatusStop, CallProcess, At
<1>8. CASE OnStarted(t) \/ ForceOffDone(t) \/ HardKilled(t) \/ HardKillWaited(t)
           \/ ExitWaited(t) \/ StatusStopped(t)
    BY <1>2, <1>3, <1>4, <1>8
       DEF OnStarted, ForceOffDone, HardKilled, HardKillWaited, ExitWaited, StatusStopped,
           ProcessResult, At
<1>9. CASE OnConnected(t) \/ ForceOffQuitDone(t) \/ ResetDone(t) \/ PowerdownDone(t)
           \/ QmpStatusDone(t)
    BY <1>2, <1>3, <1>4, <1>9
       DEF OnConnected, ForceOffQuitDone, ResetDone, PowerdownDone, QmpStatusDone, QmpResult, At
<1>10. CASE OnCheck(t) \/ OnConsume(t) \/ StatusCheck(t)
    BY <1>2, <1>3, <1>4, <1>10 DEF OnCheck, OnConsume, StatusCheck, Local, At
<1>11. CASE InProcess(t) \/ InQmp(t)
  <2>1. job[t].pc # "idle"
    <3>1. CASE InProcess(t)
        BY <1>1, <3>1, StaysInside DEF InProcess, MachineTypes, Waits, Idle, ProcessWaits
    <3>2. CASE InQmp(t)
        BY <1>1, <3>2, EndsExchange, TypesSplit DEF InQmp, MachineTypes, Waits, QmpWaits
    <3>3. QED
        BY <1>11, <3>1, <3>2
  <2>2. QED
    BY <1>2, <1>11, <2>1 DEF InProcess, InQmp
<1>12. QED
    BY <1>5, <1>6, <1>7, <1>8, <1>9, <1>10, <1>11 DEF Work

\* The statements of On between its check and its answer.
OnLeg == {"on_target", "on_start", "on_started", "on_connect", "on_connected", "on_consume"}

\* The step of On that asks for a process.
LEMMA StartKnown ==
    ASSUME MachineTypes, NEW t \in Callers, BootKnown(t), OnStart(t)
    PROVE  BootKnown(t)'
<1>1. JobTypes /\ FrameTypes /\ forks \in Nat /\ job[t].pc = "on_start" /\ job[t].since \in Nat
    BY TypesSplit DEF MachineTypes, ProcessInv, ProcessTypeOK, FrameTypes, OnStart, At, JobTypes, Job
<1>2. job'[t].pc = "on_started" /\ job'[t].since = job[t].since
    BY <1>1, StartWent, RequestKept DEF Work, Answer, Local, At, OnStart
<1>3. ASSUME NEW r \in {"ok", "err"}, DoneNow(t, "Start", r)
      PROVE  Returned(t)' /\ call'[t].res = r
  <2>1. InCall("Start", "done", 0, 0, 0, r) \in Frame
    BY InCallType DEF Methods, Points
  <2>2. call'[t] = InCall("Start", "done", 0, 0, 0, r)
    BY <1>1, <1>3, <2>1, Replaced DEF DoneNow
  <2>3. QED
    BY <2>2 DEF InCall, Returned
<1>4. PICK target : Start(t, target)
    BY DEF OnStart
<1>5. CASE StartNoop(t)
  <2>1. Booted(t) /\ forks' = forks
    BY <1>1, <1>5 DEF StartNoop, BootKnown, pmVars
  <2>2. QED
    BY <1>1, <1>2, <1>3, <1>5, <2>1 DEF StartNoop, BootKnown, Booted
<1>6. CASE StartFails(t)
    BY <1>1, <1>2, <1>3, <1>6 DEF StartFails, BootKnown, Booted
<1>7. CASE StartForks(t, target)
    BY <1>1, <1>2, <1>3, <1>7 DEF StartForks, Fork, BootKnown, Booted
<1>8. QED
    BY <1>4, <1>5, <1>6, <1>7 DEF Start

\* Each step of a caller keeps what its request knows.
LEMMA BootStep ==
    ASSUME MachineTypes, NEW t \in Callers, BootKnown(t),
           (\E r \in RequestNames : Begin(t, r)) \/ LockQmp(t) \/ Work(t) \/ Deadline(t)
    PROVE  BootKnown(t)'
<1>1. /\ JobTypes /\ Waits(t)
      /\ forks \in Nat /\ forks' \in Nat /\ forks <= forks'
    BY MachineLater, TypesSplit DEF MachineTypes, AnyNext
<1>2. PICK j \in Job : j = job[t]
    BY <1>1 DEF JobTypes
<1>3. ASSUME job'[t].since <= forks', job'[t].pc \notin OnLeg PROVE BootKnown(t)'
    BY <1>3 DEF BootKnown, OnLeg
<1>4. ASSUME NEW r \in RequestNames, Begin(t, r) PROVE BootKnown(t)'
  <2>1. r \in RequestNames /\ forks' = forks
    BY <1>4, RequestAssumption DEF Begin, Local, processVars, pmVars
  <2>2. Entry[r] \notin OnLeg
    BY <2>1 DEF RequestNames, Entry, OnLeg
  <2>3. job'[t].since = forks /\ job'[t].pc = Entry[r]
    BY <1>1, <1>4, NoJobType DEF Begin, JobTypes, Job
  <2>4. QED
    BY <1>1, <1>3, <2>1, <2>2, <2>3
<1>5. CASE Answer(t)
  <2>1. job'[t] = NoJob
    BY <1>1, <1>5 DEF Answer, JobTypes
  <2>2. NoJob.since = 0 /\ NoJob.pc = "idle"
    BY DEF NoJob
  <2>3. QED
    BY <1>1, <1>3, <2>1, <2>2 DEF OnLeg
<1>6. ASSUME LockQmp(t) \/ Work(t) \/ Deadline(t), ~Answer(t) PROVE BootKnown(t)'
  <2>1. job'[t].since = job[t].since /\ job'[t].since <= forks'
    BY <1>1, <1>2, <1>6, RequestKept DEF BootKnown, Job
  <2>2. Booted(t) => Booted(t)'
    BY <1>1, <1>2, <2>1 DEF Booted, Job
  <2>3. ASSUME NEW p, Goto(t, p) PROVE job'[t].pc = p
    BY <1>1, <1>2, <2>3 DEF Goto, JobTypes, Job
  <2>4. ASSUME NEW r, Finish(t, r) PROVE job'[t].pc = "reply"
    BY <1>1, <1>2, <2>4 DEF Finish, JobTypes, Job
  <2>5. CASE OnCheck(t)
    <3>1. UNCHANGED <<running, forks>>
        BY <2>5 DEF OnCheck, Local, processVars, pmVars
    <3>2. QED
        BY <1>3, <2>1, <2>3, <2>4, <2>5, <3>1 DEF OnCheck, BootKnown, OnLeg
  <2>6. CASE OnTarget(t)
    <3>1. UNCHANGED <<running, forks>>
        BY <2>6 DEF OnTarget, Local, processVars, pmVars
    <3>2. job[t].pc = "on_target" /\ job'[t].pc = "on_start"
        BY <1>1, <1>2, <2>6 DEF OnTarget, Local, At, JobTypes, Job
    <3>3. QED
        BY <2>1, <2>2, <3>1, <3>2 DEF BootKnown
  <2>7. CASE OnStart(t)
    BY <2>7, StartKnown
  <2>8. CASE OnStarted(t)
    BY <1>3, <2>1, <2>2, <2>3, <2>4, <2>8 DEF OnStarted, ProcessResult, At, BootKnown, OnLeg
  <2>9. CASE OnConnect(t) \/ OnConnected(t) \/ OnConsume(t)
    BY <1>3, <2>1, <2>2, <2>3, <2>4, <2>9
       DEF OnConnect, OnConnected, OnConsume, CallQmp, QmpResult, Local, At, BootKnown, OnLeg
  <2>10. CASE Deadline(t)
    <3>1. job'[t].pc = job[t].pc /\ job[t].pc \in {"on_connect", "on_connected"}
        BY <1>1, <1>2, <2>10 DEF Deadline, JobTypes, Job
    <3>2. QED
        BY <2>1, <2>2, <3>1 DEF BootKnown
  <2>11. CASE InProcess(t)
    <3>1. job' = job /\ ~Returned(t)
        BY <2>11 DEF InProcess, Returned, Inside, StopSignal, StopArm, WaitDone, WaitTimeout,
                     KillSignal
    <3>2. job[t].pc \in ProcessWaits
        BY <1>1, <2>11, StaysInside DEF InProcess, MachineTypes, Waits, Idle
    <3>3. QED
        BY <1>3, <2>1, <3>1, <3>2 DEF ProcessWaits, BootKnown, OnLeg
  <2>12. CASE InQmp(t)
    <3>1. UNCHANGED <<job, running, forks, call>>
        BY <2>12 DEF InQmp, pmVars
    <3>2. QED
        BY <3>1 DEF BootKnown, Booted, Returned
  <2>13. CASE \/ ForceOffQuit(t) \/ ResetSend(t) \/ PowerdownSend(t) \/ StatusQuery(t)
              \/ ForceOffStop(t) \/ ForceOffWait(t) \/ HardKill(t) \/ HardKillWait(t)
              \/ ExitWait(t) \/ StatusStop(t)
    BY <1>3, <2>1, <2>3, <2>13
       DEF ForceOffQuit, ResetSend, PowerdownSend, StatusQuery, CallQmp, ForceOffStop,
           ForceOffWait, HardKill, HardKillWait, ExitWait, StatusStop, CallProcess, OnLeg
  <2>14. CASE \/ ForceOffDone(t) \/ HardKilled(t) \/ HardKillWaited(t) \/ ExitWaited(t)
              \/ StatusStopped(t) \/ ForceOffQuitDone(t) \/ ResetDone(t) \/ PowerdownDone(t)
              \/ QmpStatusDone(t) \/ StatusCheck(t)
    BY <1>3, <2>1, <2>3, <2>4, <2>14
       DEF ForceOffDone, HardKilled, HardKillWaited, ExitWaited, StatusStopped, ForceOffQuitDone,
           ResetDone, PowerdownDone, QmpStatusDone, StatusCheck, OnLeg
  <2>15. CASE PowerStateDone(t)
    <3>1. CASE job' = [job EXCEPT ![t].pc = "ps_stop", ![t].saw = qmp[t].peer]
        BY <1>1, <1>2, <1>3, <2>1, <3>1 DEF JobTypes, Job, OnLeg
    <3>2. QED
        BY <1>3, <2>1, <2>4, <2>15, <3>1 DEF PowerStateDone, OnLeg
  <2>16. QED
    BY <1>6, <2>5, <2>6, <2>7, <2>8, <2>9, <2>10, <2>11, <2>12, <2>13, <2>14, <2>15
       DEF LockQmp, Work
<1>7. QED
    BY <1>4, <1>5, <1>6

\* Steps of others: more VMs may be started, and one appears running only as a
\* new one.
LEMMA OthersBoot ==
    ASSUME MachineTypes, [AnyNext]_machineVars, NEW t \in Callers, BootKnown(t),
           job'[t] = job[t], call'[t] = call[t]
    PROVE  BootKnown(t)'
<1>1. /\ job[t].since \in Nat /\ forks \in Nat /\ forks' \in Nat /\ forks <= forks'
      /\ ~running /\ running' => forks' > forks
    BY MachineLater, TypesSplit DEF MachineTypes, JobTypes, Job
<1>2. Booted(t) => Booted(t)'
    BY <1>1 DEF Booted
<1>3. BootKnown(t) /\ ~running => ~running' \/ Booted(t)'
    BY <1>1 DEF BootKnown, Booted
<1>4. QED
    BY <1>1, <1>2, <1>3 DEF BootKnown, Returned

\* Nobody forgets a boot.
LEMMA BootsKnownStep ==
    ASSUME MachineTypes, \A t \in Callers : BootKnown(t), [AnyNext]_machineVars
    PROVE  \A t \in Callers : BootKnown(t)'
<1>1. ASSUME NEW t \in Callers,
             (\E r \in RequestNames : Begin(t, r)) \/ LockQmp(t) \/ Work(t) \/ Deadline(t)
      PROVE  \A u \in Callers : BootKnown(u)'
  <2>1. StepOf(t)
    BY <1>1, AnyStep
  <2>2. ASSUME NEW u \in Callers \ {t} PROVE job'[u] = job[u] /\ call'[u] = call[u]
    BY <2>1, <2>2 DEF StepOf, JobOf, Others
  <2>3. QED
    BY <1>1, <2>2, BootStep, OthersBoot
<1>2. ASSUME UNCHANGED <<call, job>> PROVE \A u \in Callers : BootKnown(u)'
    BY <1>2, OthersBoot
<1>3. CASE UNCHANGED machineVars
    BY <1>2, <1>3 DEF machineVars, processVars
<1>4. QED
    BY <1>1, <1>2, <1>3, EnvironmentStep DEF AnyNext

\* Only On's ConsumeBootOnce drops an override of another caller's choosing,
\* and only when a VM has been started since its request came in.
THEOREM OnceOnlyAfterBoot == MachineSpec => OnceNeedsABoot
<1> DEFINE BootsKnown == \A t \in Callers : BootKnown(t)
<1> DEFINE Consumes ==
      \A t \in Callers :
         At(t, "on_consume") /\ ~At(t, "on_consume")' /\ override' # override
             => forks > job[t].since
<1>1. MachineInit => MachineTypes /\ BootsKnown
  <2>1. ASSUME MachineInit, NEW t \in Callers PROVE BootKnown(t)
    <3>1. job[t].since = 0 /\ job[t].pc = "idle" /\ forks = 0
        BY <2>1, NoJobType DEF MachineInit, ProcessInit, NoJob
    <3>2. QED
        BY <3>1 DEF BootKnown
  <2>2. QED
    BY <2>1, MachineInitTypes
<1>2. MachineTypes /\ BootsKnown /\ [AnyNext]_machineVars
        => MachineTypes' /\ BootsKnown' /\ [Consumes]_machineVars
  <2>1. BootsKnown => Consumes
    BY DEF BootKnown, Booted, At
  <2>2. QED
    BY <2>1, MachineTypesStep, BootsKnownStep
<1>3. QED
    BY <1>1, <1>2, NextIsAny, PTL DEF MachineSpec, OnceNeedsABoot

-----------------------------------------------------------------------------
(* Off means off                                                           *)

\* Every VM that ran when t's request came in is dead or killed.
OldGone(t) == \A g \in Gen : g <= job[t].since => Settled(g)

\* t waits for the exit of a VM at least as new as those of before, or stops
\* one, or had nothing left to stop.
PromisesOff(t) ==
    \/ call[t].op = "WaitForExit" /\ call[t].chan >= job[t].since
    \/ /\ call[t].op = "Stop"
       /\ \/ OldGone(t)
          \/ call[t].tgt \in Gen /\ call[t].tgt >= job[t].since

\* t is about to kill such a VM.
Killing(t) ==
    /\ call[t].op = "Kill" /\ call[t].at = "sigkill"
    /\ call[t].victim \in Gen /\ call[t].victim >= job[t].since

\* The statements of a power-off request past its point of no return.
PastOff == OnLeg \cup {"on_check", "kill_wait", "kill_waited"}

\* What a power query or a power-off request has achieved at each statement.
OffKnown(t) ==
    /\ job[t].pc = "ps_stopped" => call[t].op = "Stop" /\ PromisesOff(t)
    /\ Answered(t, "Off") => OldGone(t)
    /\ job[t].req \in PowerOffRequests =>
        /\ job[t].pc \notin {"reset", "reset_sent"}
        /\ job[t].pc \in PastOff \/ Answered(t, "ok") => OldGone(t)
        /\ job[t].pc \in {"off_done", "exit_waited"} => PromisesOff(t)
        /\ job[t].pc = "killed" => OldGone(t) \/ Killing(t)

\* When a VM is settled so are all before it.
LEMMA GoneUpTo ==
    ASSUME ProcessInv, NEW n \in Gen, n <= forks, Settled(n)
    PROVE  \A g \in Gen : g <= n => Settled(g)
<1>1. forks \in Nat
    BY DEF ProcessInv, ProcessTypeOK
<1>2. QED
    BY <1>1, PastIsReaped DEF Settled

\* What is gone stays gone.
LEMMA OldStaysGone ==
    ASSUME MachineTypes, [AnyNext]_machineVars, NEW t \in Callers, BootKnown(t),
           job'[t].since = job[t].since, OldGone(t)
    PROVE  OldGone(t)'
<1>1. job[t].since \in Nat /\ forks \in Nat
    BY MachineLater, TypesSplit DEF MachineTypes, JobTypes, Job
<1>2. \A g \in Gen : g <= job[t].since => Settled(g)'
    BY <1>1, MachineLater DEF OldGone, BootKnown
<1>3. QED
    BY <1>2 DEF OldGone

\* Stop and WaitForExit are called on the VM of now, which is at least as new
\* as the one of before, or when nothing runs.
LEMMA CallPromises ==
    ASSUME MachineTypes, NEW t \in Callers, BootKnown(t), Stop(t) \/ WaitForExit(t),
           OldGone(t) => OldGone(t)', job'[t].since = job[t].since
    PROVE  PromisesOff(t)'
<1>1. /\ FrameTypes /\ ProcessInv /\ forks \in Gen0 /\ cmd \in Gen0 /\ exitCh = forks
      /\ running => cmd = forks
      /\ job[t].since <= forks
    BY DEF MachineTypes, ProcessInv, ProcessTypeOK, FrameTypes, FieldsOK, BootKnown
<1>2. CASE StopNoop(t)
  <2>1. OldGone(t)
    BY <1>1, <1>2, NotRunning DEF StopNoop, OldGone, Settled, Exists
  <2>2. call'[t] = InCall("Stop", "done", 0, 0, 0, "ok")
    BY <1>1, <1>2 DEF StopNoop, DoneNow, FrameTypes
  <2>3. QED
    BY <2>1, <2>2 DEF PromisesOff, InCall
<1>3. CASE StopBegin(t)
  <2>1. call'[t] = InCall("Stop", "sigterm", cmd, 0, 0, "ok") /\ cmd \in Gen /\ cmd >= job[t].since
    BY <1>1, <1>3 DEF StopBegin, FrameTypes
  <2>2. QED
    BY <2>1 DEF PromisesOff, InCall
<1>4. CASE WaitForExit(t)
  <2>1. call'[t] = InCall("WaitForExit", "wait", 0, exitCh, 0, "ok") /\ exitCh >= job[t].since
    BY <1>1, <1>4 DEF WaitForExit, FrameTypes
  <2>2. QED
    BY <2>1 DEF PromisesOff, InCall
<1>5. QED
    BY <1>2, <1>3, <1>4 DEF Stop

\* Kill is called on the VM of now, or when nothing runs.
LEMMA KillPromises ==
    ASSUME MachineTypes, NEW t \in Callers, BootKnown(t), Idle(t), Kill(t),
           OldGone(t) => OldGone(t)', job'[t].since = job[t].since
    PROVE  (OldGone(t) \/ Killing(t))'
<1>1. /\ FrameTypes /\ ProcessInv /\ forks \in Gen0 /\ cmd \in Gen0
      /\ running => cmd = forks
      /\ job[t].since <= forks
    BY DEF MachineTypes, ProcessInv, ProcessTypeOK, FrameTypes, FieldsOK, BootKnown
<1>2. CASE KillNoop(t)
  <2>1. OldGone(t)
    BY <1>1, <1>2, NotRunning DEF KillNoop, OldGone, Settled, Exists
  <2>2. QED
    BY <2>1
<1>3. CASE KillBegin(t)
  <2>1. call'[t] = InCall("Kill", "sigkill", 0, 0, cmd, "ok") /\ cmd \in Gen /\ cmd >= job[t].since
    BY <1>1, <1>3 DEF KillBegin, FrameTypes, Idle
  <2>2. QED
    BY <2>1 DEF Killing, InCall
<1>4. QED
    BY <1>2, <1>3 DEF Kill

\* A SIGKILL that goes out settles every VM up to its victim.
LEMMA KillSettles ==
    ASSUME MachineTypes, [AnyNext]_machineVars, NEW t \in Callers, BootKnown(t),
           Killing(t), Inside(t), job'[t] = job[t]
    PROVE  OldGone(t)'
<1>v. PICK v \in Gen : v = call[t].victim
    BY DEF Killing
<1>1. /\ ProcessInv /\ v >= job[t].since /\ v <= forks
      /\ forks \in Nat /\ job[t].since \in Nat
      /\ proc \in [Gen -> ProcState] /\ sig \in [Gen -> Signals]
  <2>1. ProcessInv /\ ProcessTypeOK /\ CallOK(t) /\ JobTypes
    BY TypesSplit DEF MachineTypes, ProcessInv
  <2>2. forks \in Nat /\ proc \in [Gen -> ProcState] /\ sig \in [Gen -> Signals]
    BY <2>1 DEF ProcessTypeOK
  <2>3. job[t].since \in Nat
    BY <2>1 DEF JobTypes, Job
  <2>4. v >= job[t].since /\ v <= forks
    BY <1>v, <2>1 DEF Killing, CallOK
  <2>5. QED
    BY <2>1, <2>2, <2>3, <2>4
<1>2. KillSignal(t)
    BY DEF Killing, Inside, StopSignal, StopArm, WaitDone, WaitTimeout
<1>3. Settled(v)'
  <2>1. CASE proc[v] = "up"
    BY <1>v, <1>1, <1>2, <2>1, SignalledType DEF KillSignal, Settled, Signals
  <2>2. CASE proc[v] # "up"
    BY <1>v, <1>2, <2>2 DEF KillSignal, Settled
  <2>3. QED
    BY <2>1, <2>2
<1>4. ASSUME NEW g \in Gen, g < v PROVE Settled(g)'
  <2>1. g < forks /\ Settled(g)
    BY <1>1, <1>4, PastIsReaped DEF Settled
  <2>2. QED
    BY <1>1, <2>1, MachineLater
<1>5. QED
    BY <1>1, <1>3, <1>4 DEF OldGone

\* Inside a method the caller keeps what it was called for.
LEMMA InsideKeeps ==
    ASSUME ProcessInv, NEW t \in Callers, Inside(t)
    PROVE  /\ call'[t].op = call[t].op
           /\ call'[t].tgt = call[t].tgt
           /\ call[t].op = "WaitForExit" => call'[t].chan = call[t].chan
<1>1. FrameTypes /\ FieldTypes /\ CallOK(t)
    BY FieldsFromInv DEF ProcessInv, ProcessTypeOK, FrameTypes, FieldsInv
<1>2. PICK f \in Frame : f = call[t]
    BY <1>1 DEF FrameTypes
<1>3. ASSUME NEW p \in Points, call' = [call EXCEPT ![t].at = p]
      PROVE  call'[t].op = f.op /\ call'[t].tgt = f.tgt /\ call'[t].chan = f.chan
  <2>1. call'[t] = [f EXCEPT !.at = p]
    BY <1>1, <1>2, <1>3, Moved
  <2>2. QED
    BY <2>1 DEF Frame
<1>4. ASSUME NEW r \in {"ok", "err"}, Done(t, r)
      PROVE  call'[t].op = f.op /\ call'[t].tgt = f.tgt /\ call'[t].chan = f.chan
  <2>1. call'[t] = [f EXCEPT !.at = "done", !.res = r]
    BY <1>1, <1>2, <1>4, DoneEffect
  <2>2. QED
    BY <2>1 DEF Frame
<1>5. CASE StopSignal(t)
    BY <1>2, <1>3, <1>4, <1>5 DEF StopSignal, Points
<1>6. CASE StopArm(t)
  <2>1. call'[t] = [f EXCEPT !.at = "wait", !.chan = exitCh] /\ f.op = "Stop"
    BY <1>1, <1>2, <1>6, Armed DEF StopArm, CallOK
  <2>2. QED
    BY <1>2, <2>1 DEF Frame
<1>7. CASE WaitDone(t) \/ WaitTimeout(t) \/ KillSignal(t)
    BY <1>2, <1>3, <1>4, <1>7 DEF WaitDone, WaitTimeout, KillSignal, Points
<1>8. CASE call[t].at = "kill" /\ KillNoop(t)
    BY <1>2, <1>4, <1>8 DEF KillNoop, Idle
<1>9. CASE call[t].at = "kill" /\ KillBegin(t)
  <2>1. call'[t] = [f EXCEPT !.at = "sigkill", !.victim = cmd] /\ f.op = "Stop"
    BY <1>1, <1>2, <1>9, Aimed DEF KillBegin, Idle, CallOK
  <2>2. QED
    BY <1>2, <2>1 DEF Frame
<1>10. QED
    BY <1>5, <1>6, <1>7, <1>8, <1>9 DEF Inside, Kill

\* A wait that ends well, and a stop however it ends, keep their promise.
LEMMA PromiseKept ==
    ASSUME MachineTypes, NEW t \in Callers, PromisesOff(t), Returned(t),
           call[t].res = "ok" \/ call[t].op = "Stop"
    PROVE  OldGone(t)
<1>1. ProcessInv /\ CallOK(t) /\ job[t].since \in Nat /\ call[t] \in Frame
  <2>1. ProcessInv /\ ProcessTypeOK /\ CallOK(t) /\ JobTypes
    BY TypesSplit DEF MachineTypes, ProcessInv
  <2>2. job[t].since \in Nat
    BY <2>1 DEF JobTypes, Job
  <2>3. QED
    BY <2>1, <2>2 DEF ProcessTypeOK
<1>2. ASSUME NEW n \in Gen, n >= job[t].since, n <= forks, Settled(n) PROVE OldGone(t)
    BY <1>1, <1>2, GoneUpTo DEF OldGone
<1>3. CASE call[t].op = "WaitForExit" /\ call[t].chan >= job[t].since
  <2>1. call[t].chan \in Gen /\ call[t].chan <= forks /\ mon[call[t].chan] = "done"
    BY <1>1, <1>3 DEF CallOK, Returned
  <2>2. Settled(call[t].chan)
    BY <1>1, <2>1 DEF ProcessInv, GenerationOK, Settled
  <2>3. QED
    BY <1>2, <1>3, <2>1, <2>2
<1>4. CASE call[t].op = "Stop" /\ call[t].tgt \in Gen /\ call[t].tgt >= job[t].since
  <2>1. call[t].tgt <= forks /\ Settled(call[t].tgt)
    BY <1>1, <1>4 DEF CallOK, Returned
  <2>2. QED
    BY <1>2, <1>4, <2>1
<1>5. QED
    BY <1>3, <1>4 DEF PromisesOff

\* The statements that say nothing about the VM of before.
Unclaimed == {"idle", "quit", "quit_sent", "quit_wait", "stop", "kill", "powerdown",
              "powerdown_sent", "exit_wait", "ps_check", "ps_query", "ps_queried", "ps_stop"}

\* A request that comes in has achieved nothing yet.
LEMMA OffBegins ==
    ASSUME MachineTypes, NEW t \in Callers, (\E r \in RequestNames : Begin(t, r)) \/ Answer(t)
    PROVE  OffKnown(t)'
<1>1. JobTypes
    BY TypesSplit DEF MachineTypes
<1>2. ASSUME NEW r \in RequestNames, Begin(t, r) PROVE OffKnown(t)'
  <2>1. job'[t].req = r /\ job'[t].pc = Entry[r]
    BY <1>1, <1>2, NoJobType DEF Begin, JobTypes, Job
  <2>2. /\ r \in PowerOffRequests => Entry[r] \in {"quit", "powerdown"}
        /\ Entry[r] \notin {"ps_stopped", "reply"}
    BY RequestAssumption DEF RequestNames, PowerOffRequests, Entry
  <2>3. QED
    BY <2>1, <2>2 DEF OffKnown, PastOff, OnLeg, Answered, At
<1>3. CASE Answer(t)
  <2>1. job'[t].req = "none" /\ job'[t].pc = "idle"
    BY <1>1, <1>3 DEF Answer, JobTypes, NoJob
  <2>2. QED
    BY <2>1 DEF OffKnown, PowerOffRequests, Answered, At
<1>4. QED
    BY <1>2, <1>3

\* Each later step of a request keeps what it has achieved.
LEMMA OffStep ==
    ASSUME MachineTypes, NEW t \in Callers, BootKnown(t), OffKnown(t),
           LockQmp(t) \/ Work(t) \/ Deadline(t), ~Answer(t)
    PROVE  OffKnown(t)'
<1>1. JobTypes /\ Waits(t) /\ ProcessInv /\ AnyNext
    BY TypesSplit DEF MachineTypes, AnyNext
<1>2. PICK j \in Job : j = job[t]
    BY <1>1 DEF JobTypes
<1>3. job'[t].req = job[t].req /\ job'[t].since = job[t].since
    BY RequestKept
<1>4. OldGone(t) => OldGone(t)'
    BY <1>1, <1>3, OldStaysGone
<1>5. ASSUME NEW p, Goto(t, p) PROVE job'[t].pc = p
    BY <1>1, <1>2, <1>5 DEF Goto, JobTypes, Job
<1>6. ASSUME NEW r, Finish(t, r) PROVE job'[t].pc = "reply" /\ job'[t].reply = r
    BY <1>1, <1>2, <1>6 DEF Finish, JobTypes, Job
<1>7. ASSUME job'[t].pc \in Unclaimed PROVE OffKnown(t)'
    BY <1>7 DEF Unclaimed, OffKnown, PastOff, OnLeg, Answered, At
<1>8. ASSUME NEW r, Finish(t, r), r \notin {"ok", "Off"} PROVE OffKnown(t)'
    BY <1>6, <1>8 DEF OffKnown, PastOff, OnLeg, Answered, At
<1>9. ASSUME OldGone(t), job'[t].pc \in PastOff \cup {"reply", "killed"} PROVE OffKnown(t)'
    BY <1>4, <1>9 DEF OffKnown, PastOff, OnLeg, Answered, At
<1>10. ASSUME job[t].req \notin PowerOffRequests, job'[t].pc # "ps_stopped",
              job'[t].pc = "reply" => job'[t].reply # "Off"
       PROVE  OffKnown(t)'
    BY <1>3, <1>10 DEF OffKnown, Answered, At
<1>11. CASE OnCheck(t) \/ OnStarted(t) \/ OnConnect(t) \/ OnConnected(t) \/ OnConsume(t)
  <2>1. job[t].pc \in PastOff
    BY <1>11
       DEF OnCheck, OnStarted, OnConnect, OnConnected, OnConsume, Local, At, ProcessResult,
           CallQmp, QmpResult, PastOff, OnLeg
  <2>2. \/ job'[t].pc \in PastOff
        \/ job'[t].pc = "reply" /\ job'[t].reply # "Off"
    BY <1>5, <1>6, <1>11
       DEF OnCheck, OnStarted, OnConnect, OnConnected, OnConsume, CallQmp, PastOff, OnLeg
  <2>3. QED
    BY <1>9, <1>10, <2>1, <2>2 DEF OffKnown, PastOff, OnLeg
<1>12. CASE OnTarget(t) \/ OnStart(t) \/ Deadline(t)
  <2>1. job[t].pc \in PastOff
    BY <1>12 DEF OnTarget, OnStart, Deadline, Local, At, PastOff, OnLeg
  <2>2. job'[t].pc \in PastOff
    <3>1. CASE OnTarget(t)
        BY <1>1, <1>2, <3>1 DEF OnTarget, JobTypes, Job, PastOff, OnLeg
    <3>2. CASE OnStart(t)
        BY <1>1, <1>2, <3>2 DEF OnStart, JobTypes, Job, PastOff, OnLeg
    <3>3. CASE Deadline(t)
        BY <1>1, <1>2, <2>1, <3>3 DEF Deadline, JobTypes, Job
    <3>4. QED
        BY <1>12, <3>1, <3>2, <3>3
  <2>3. QED
    BY <1>9, <1>10, <2>1, <2>2 DEF OffKnown, PastOff, OnLeg
<1>13. CASE ForceOffStop(t) \/ ForceOffWait(t) \/ ExitWait(t) \/ StatusStop(t)
  <2>1. Stop(t) \/ WaitForExit(t)
    BY <1>13 DEF ForceOffStop, ForceOffWait, ExitWait, StatusStop, CallProcess
  <2>2. PromisesOff(t)'
    BY <1>3, <1>4, <2>1, CallPromises
  <2>3. \/ job'[t].pc \in {"off_done", "exit_waited"}
        \/ job'[t].pc = "ps_stopped" /\ Stop(t)
    BY <1>5, <1>13 DEF ForceOffStop, ForceOffWait, ExitWait, StatusStop, CallProcess
  <2>4. Stop(t) => call'[t].op = "Stop"
    BY <1>1 DEF Stop, StopNoop, StopBegin, DoneNow, InCall, ProcessInv, ProcessTypeOK
  <2>5. QED
    BY <2>2, <2>3, <2>4 DEF OffKnown, PastOff, OnLeg, Answered, At
<1>14. CASE ForceOffDone(t) \/ ExitWaited(t)
  <2>1. Returned(t) /\ job[t].pc \in {"off_done", "exit_waited"}
    BY <1>14 DEF ForceOffDone, ExitWaited, ProcessResult, TakeResult, Return, At
  <2>2. /\ job[t].req \in PowerOffRequests /\ call[t].res = "ok" => OldGone(t)
        /\ call[t].res \in {"ok", "err"}
    BY <1>1, <2>1, PromiseKept DEF OffKnown, ProcessInv, ProcessTypeOK, Frame
  <2>3. ASSUME job[t].req \in PowerOffRequests PROVE OffKnown(t)'
    <3>1. \/ Finish(t, call[t].res)
          \/ call[t].res = "ok" /\ Goto(t, "on_check")
          \/ Goto(t, "kill")
        BY <1>14, <2>3 DEF ForceOffDone, ExitWaited, PowerOffRequests
    <3>2. CASE Finish(t, call[t].res)
        BY <1>6, <1>8, <1>9, <2>2, <2>3, <3>2
    <3>3. CASE call[t].res = "ok" /\ Goto(t, "on_check")
        BY <1>5, <1>9, <2>2, <2>3, <3>3 DEF PastOff
    <3>4. CASE Goto(t, "kill")
        BY <1>5, <1>7, <3>4 DEF Unclaimed
    <3>5. QED
        BY <3>1, <3>2, <3>3, <3>4
  <2>4. ASSUME job[t].req \notin PowerOffRequests PROVE OffKnown(t)'
    <3>1. Finish(t, "ok")
        BY <1>14, <2>4 DEF ForceOffDone, ExitWaited, PowerOffRequests
    <3>2. QED
        BY <1>6, <1>10, <2>4, <3>1
  <2>5. QED
    BY <2>3, <2>4
<1>15. CASE HardKill(t)
  <2>1. Kill(t) /\ Idle(t) /\ job'[t].pc = "killed"
    BY <1>1, <1>5, <1>15 DEF HardKill, CallProcess, At, Waits, ProcessWaits
  <2>2. (OldGone(t) \/ Killing(t))'
    BY <1>3, <1>4, <2>1, KillPromises
  <2>3. QED
    BY <2>1, <2>2 DEF OffKnown, PastOff, OnLeg, Answered, At
<1>16. CASE HardKilled(t)
  <2>1. job[t].pc = "killed" /\ ~Killing(t) /\ job'[t].pc = "kill_wait"
    BY <1>5, <1>16 DEF HardKilled, ProcessResult, TakeResult, Return, Returned, Killing, At
  <2>2. QED
    BY <1>9, <1>10, <2>1 DEF OffKnown, PastOff, OnLeg
<1>17. CASE HardKillWait(t) \/ HardKillWaited(t)
  <2>1. job[t].pc \in PastOff /\ job'[t].pc \in PastOff
    BY <1>5, <1>17 DEF HardKillWait, HardKillWaited, CallProcess, ProcessResult, At, PastOff
  <2>2. QED
    BY <1>9, <1>10, <2>1 DEF OffKnown, PastOff, OnLeg
<1>18. CASE ResetSend(t) \/ ResetDone(t)
  <2>1. job[t].pc \in {"reset", "reset_sent"}
    BY <1>18 DEF ResetSend, ResetDone, CallQmp, QmpResult, At
  <2>2. job'[t].pc = "reset_sent" \/ (job'[t].pc = "reply" /\ job'[t].reply # "Off")
    <3>1. qmp[t].res # "Off"
        BY TypesSplit DEF MachineTypes, QmpTypes, QmpFrame, RunStates
    <3>2. CASE ResetSend(t)
        BY <1>5, <3>2 DEF ResetSend, CallQmp
    <3>3. CASE ResetDone(t)
        BY <1>6, <3>1, <3>3 DEF ResetDone
    <3>4. QED
        BY <1>18, <3>2, <3>3
  <2>3. QED
    BY <1>10, <2>1, <2>2 DEF OffKnown
<1>19. CASE InProcess(t)
  <2>1. Inside(t) /\ job' = job
    BY <1>19 DEF InProcess
  <2>2. /\ PromisesOff(t) => PromisesOff(t)'
        /\ call'[t].op = call[t].op
    BY <1>1, <1>4, <2>1, InsideKeeps DEF PromisesOff
  <2>3. Killing(t) => OldGone(t)'
    BY <1>1, <2>1, KillSettles
  <2>4. QED
    BY <1>4, <2>1, <2>2, <2>3 DEF OffKnown, Answered, At
<1>20. CASE InQmp(t)
  <2>1. UNCHANGED <<job, call>>
    BY <1>20 DEF InQmp
  <2>2. QED
    BY <1>4, <2>1 DEF OffKnown, Answered, At, PromisesOff, Killing
<1>21. CASE ForceOffQuit(t) \/ PowerdownSend(t) \/ StatusQuery(t) \/ ForceOffQuitDone(t)
  <2>1. job'[t].pc \in Unclaimed
    BY <1>5, <1>21
       DEF ForceOffQuit, PowerdownSend, StatusQuery, ForceOffQuitDone, CallQmp, Unclaimed
  <2>2. QED
    BY <1>7, <2>1
<1>22. CASE PowerdownDone(t)
    BY <1>5, <1>7, <1>8, <1>22 DEF PowerdownDone, Unclaimed
<1>23. CASE StatusCheck(t)
  <2>1. \/ job'[t].pc = "ps_query"
        \/ Finish(t, "Off") /\ ~running
        \/ Finish(t, "shutdown")
    BY <1>5, <1>23 DEF StatusCheck
  <2>2. ~running => OldGone(t)
    BY <1>1, NotRunning DEF OldGone, Settled, Exists
  <2>3. QED
    BY <1>6, <1>7, <1>8, <1>9, <2>1, <2>2 DEF Unclaimed
<1>24. CASE StatusStopped(t)
  <2>1. Returned(t) /\ call[t].op = "Stop" /\ PromisesOff(t) /\ Finish(t, "Off")
    BY <1>24 DEF StatusStopped, ProcessResult, TakeResult, Return, At, OffKnown
  <2>2. QED
    BY <1>6, <1>9, <2>1, PromiseKept
<1>25. CASE QmpStatusDone(t) \/ PowerStateDone(t)
  <2>1. job'[t].pc = "ps_stop" \/ (job'[t].pc = "reply" /\ job'[t].reply # "Off")
    <3>1. ASSUME job' = [job EXCEPT ![t].pc = "ps_stop", ![t].saw = qmp[t].peer]
          PROVE  job'[t].pc = "ps_stop"
        BY <1>1, <1>2, <3>1 DEF JobTypes, Job
    <3>2. qmp[t].res # "Off"
        BY TypesSplit DEF MachineTypes, QmpTypes, QmpFrame, RunStates
    <3>3. QED
        BY <1>6, <1>25, <3>1, <3>2 DEF QmpStatusDone, PowerStateDone
  <2>2. QED
    BY <1>10, <1>25, <2>1 DEF QmpStatusDone, PowerStateDone, PowerOffRequests
<1>26. QED
    BY <1>11, <1>12, <1>13, <1>14, <1>15, <1>16, <1>17, <1>18, <1>19, <1>20, <1>21, <1>22, <1>23,
       <1>24, <1>25
       DEF LockQmp, Work

\* Nobody's step makes a VM come back.
LEMMA OffKnownStep ==
    ASSUME MachineTypes, \A t \in Callers : BootKnown(t) /\ OffKnown(t),
           [AnyNext]_machineVars
    PROVE  \A t \in Callers : OffKnown(t)'
<1>1. ASSUME NEW u \in Callers, job'[u] = job[u], call'[u] = call[u] PROVE OffKnown(u)'
  <2>1. OldGone(u) => OldGone(u)'
    BY <1>1, OldStaysGone
  <2>2. QED
    BY <1>1, <2>1 DEF OffKnown, Answered, At, PromisesOff, Killing
<1>2. ASSUME NEW t \in Callers,
             (\E r \in RequestNames : Begin(t, r)) \/ LockQmp(t) \/ Work(t) \/ Deadline(t)
      PROVE  \A u \in Callers : OffKnown(u)'
  <2>1. ASSUME NEW u \in Callers \ {t} PROVE job'[u] = job[u] /\ call'[u] = call[u]
    BY <1>2, <2>1, AnyStep DEF StepOf, JobOf
  <2>2. OffKnown(t)'
    BY <1>2, OffBegins, OffStep
  <2>3. QED
    BY <1>1, <2>1, <2>2
<1>3. ASSUME UNCHANGED <<call, job>> PROVE \A u \in Callers : OffKnown(u)'
    BY <1>1, <1>3
<1>4. CASE UNCHANGED machineVars
    BY <1>3, <1>4 DEF machineVars, processVars
<1>5. QED
    BY <1>2, <1>3, <1>4, EnvironmentStep DEF AnyNext

\* What every request knows is an invariant.
LEMMA KnownAlways == MachineSpec => [](\A t \in Callers : OffKnown(t))
<1> DEFINE Known == \A t \in Callers : BootKnown(t) /\ OffKnown(t)
<1>1. MachineInit => MachineTypes /\ Known
  <2>1. ASSUME MachineInit, NEW t \in Callers PROVE BootKnown(t) /\ OffKnown(t)
    <3>1. job[t].since = 0 /\ job[t].pc = "idle" /\ job[t].req = "none" /\ forks = 0
        BY <2>1, NoJobType DEF MachineInit, ProcessInit, NoJob
    <3>2. QED
        BY <3>1 DEF BootKnown, OffKnown, PowerOffRequests, Answered, At
  <2>2. QED
    BY <2>1, MachineInitTypes
<1>2. MachineTypes /\ Known /\ [AnyNext]_machineVars => MachineTypes' /\ Known'
    BY MachineTypesStep, BootsKnownStep, OffKnownStep
<1>3. Known => \A t \in Callers : OffKnown(t)
    OBVIOUS
<1>4. QED
    BY <1>1, <1>2, <1>3, NextIsAny, PTL DEF MachineSpec

\* With every VM of before settled, none survives.
LEMMA NoneSurvives ==
    ASSUME NEW t \in Callers, OldGone(t)
    PROVE  Surviving(t) = {}
    BY DEF OldGone, Surviving, Settled

\* An ok answer to ForceOff, PowerCycle or GracefulRestart means that the VM
\* of before is off, whichever of Quit, Stop, Kill and the waits failed.
THEOREM OffMeansOff == MachineSpec => []OffIsOff
<1>1. (\A t \in Callers : OffKnown(t)) => OffIsOff
    BY NoneSurvives DEF OffKnown, OffIsOff
<1>2. QED
    BY <1>1, KnownAlways, PTL

\* GetPowerState answers Off only of a VM that is off or killed.
THEOREM OffReportsAreTrue == MachineSpec => []OffReportIsTrue
<1>1. (\A t \in Callers : OffKnown(t)) => OffReportIsTrue
    BY NoneSurvives DEF OffKnown, OffReportIsTrue
<1>2. QED
    BY <1>1, KnownAlways, PTL

\* The QMP connection only ever reaches the managed QEMU: a process that is
\* up is the one running is set for.
THEOREM QmpIsManaged == MachineSpec => []QmpReachesManaged
<1>1. MachineTypes => QmpReachesManaged
    BY PastIsReaped DEF MachineTypes, QmpReachesManaged, PeerUp, Exists
<1>2. MachineInit => MachineTypes
    BY MachineInitTypes
<1>3. MachineTypes /\ [AnyNext]_machineVars => MachineTypes'
    BY MachineTypesStep
<1>4. QED
    BY <1>1, <1>2, <1>3, NextIsAny, PTL DEF MachineSpec
=============================================================================
