-------------------------- MODULE QemuProcessProofs --------------------------
(***************************************************************************)
(* Proofs about the process manager, for every number of callers and of    *)
(* forks: ProcessInv is an invariant, and the safety properties and the    *)
(* refinement of SingleVm follow from it.                                  *)
(***************************************************************************)
EXTENDS QemuProcess, TLAPS

USE BoundAssumption DEF Gen, Gen0

\* The type invariant without the callers' frames.
FieldTypes ==
    /\ running \in BOOLEAN
    /\ cmd \in Gen0
    /\ exitCh \in Gen0
    /\ media \in Images \cup {NoMedia}
    /\ forks \in Gen0
    /\ proc \in [Gen -> ProcState]
    /\ sig \in [Gen -> Signals]
    /\ launch \in [Gen -> {<<>>} \cup (Targets \X (Images \cup {NoMedia}))]
    /\ mon \in [Gen -> MonPoints]
    /\ monCmd \in [Gen -> Gen0]
    /\ monCh \in [Gen -> Gen0]
    /\ closes \in [Gen0 -> Nat]

FrameTypes == call \in [Callers -> Frame]

\* The frames of the other callers stay as they are.
Others(t) == \A u \in Callers \ {t} : call'[u] = call[u]

\* Signalling keeps the type of sig, never weakens a SIGKILL, and delivers one.
LEMMA SignalledType ==
    ASSUME sig \in [Gen -> Signals], NEW g \in Gen, NEW s \in Signals
    PROVE  /\ Signalled(g, s) \in [Gen -> Signals]
           /\ \A h \in Gen : sig[h] = "kill" => Signalled(g, s)[h] = "kill"
           /\ s = "kill" /\ proc[g] = "up" => Signalled(g, s)[g] = "kill"
    BY DEF Signalled, Signals, Outweighs

-----------------------------------------------------------------------------
(* Frames                                                                  *)

\* A frame built from typed parts is a frame.
LEMMA InCallType ==
    ASSUME NEW m \in Methods, NEW at \in Points, NEW tgt \in Gen0, NEW chan \in Gen0,
           NEW victim \in Gen0, NEW r \in {"ok", "err"}
    PROVE  InCall(m, at, tgt, chan, victim, r) \in Frame
    BY DEF InCall, Frame

\* Entering or leaving a method replaces the caller's frame.
LEMMA Replaced ==
    ASSUME FrameTypes, NEW t \in Callers, NEW f \in Frame, call' = [call EXCEPT ![t] = f]
    PROVE  FrameTypes' /\ Others(t) /\ call'[t] = f
    BY DEF FrameTypes, Others

\* Going on inside a method moves the caller's frame to another point.
LEMMA Moved ==
    ASSUME FrameTypes, NEW t \in Callers, NEW p \in Points, call' = [call EXCEPT ![t].at = p]
    PROVE  FrameTypes' /\ Others(t) /\ call'[t] = [call[t] EXCEPT !.at = p]
    BY DEF FrameTypes, Frame, Others

\* A method that ends leaves its result in the frame.
LEMMA DoneEffect ==
    ASSUME FrameTypes, NEW t \in Callers, NEW r \in {"ok", "err"}, Done(t, r)
    PROVE  FrameTypes' /\ Others(t) /\ call'[t] = [call[t] EXCEPT !.at = "done", !.res = r]
<1> DEFINE f == [call[t] EXCEPT !.at = "done", !.res = r]
<1>1. f \in Frame
  <2>1. call[t] \in Frame /\ "done" \in Points
    BY DEF FrameTypes, Points
  <2>2. QED
    BY <2>1 DEF Frame
<1>2. call' = [call EXCEPT ![t] = f]
    BY DEF Done, FrameTypes, Frame
<1>3. QED
    BY <1>1, <1>2, Replaced

\* WaitForExit inside Stop copies the current channel.
LEMMA Armed ==
    ASSUME FrameTypes, FieldTypes, NEW t \in Callers,
           call' = [call EXCEPT ![t].at = "wait", ![t].chan = exitCh]
    PROVE  FrameTypes' /\ Others(t) /\ call'[t] = [call[t] EXCEPT !.at = "wait", !.chan = exitCh]
<1> DEFINE f == [call[t] EXCEPT !.at = "wait", !.chan = exitCh]
<1>1. f \in Frame
  <2>1. call[t] \in Frame /\ exitCh \in Gen0 /\ "wait" \in Points
    BY DEF FrameTypes, FieldTypes, Points
  <2>2. QED
    BY <2>1 DEF Frame
<1>2. call' = [call EXCEPT ![t] = f]
    BY DEF FrameTypes, Frame
<1>3. QED
    BY <1>1, <1>2, Replaced

\* Kill inside Stop copies the current command.
LEMMA Aimed ==
    ASSUME FrameTypes, FieldTypes, NEW t \in Callers,
           call' = [call EXCEPT ![t].at = "sigkill", ![t].victim = cmd]
    PROVE  FrameTypes' /\ Others(t) /\ call'[t] = [call[t] EXCEPT !.at = "sigkill", !.victim = cmd]
<1> DEFINE f == [call[t] EXCEPT !.at = "sigkill", !.victim = cmd]
<1>1. f \in Frame
  <2>1. call[t] \in Frame /\ cmd \in Gen0 /\ "sigkill" \in Points
    BY DEF FrameTypes, FieldTypes, Points
  <2>2. QED
    BY <2>1 DEF Frame
<1>2. call' = [call EXCEPT ![t] = f]
    BY DEF FrameTypes, Frame
<1>3. QED
    BY <1>1, <1>2, Replaced

-----------------------------------------------------------------------------
(* What the invariant says of the generations                              *)

\* Every generation but the last is gone, and only forked ones exist.
LEMMA PastIsReaped ==
    ASSUME ProcessInv
    PROVE  \A g \in Gen : /\ g < forks => proc[g] = "reaped"
                          /\ Exists(g) => g = forks /\ running /\ cmd = g
<1> SUFFICES ASSUME NEW g \in Gen
             PROVE  /\ g < forks => proc[g] = "reaped"
                    /\ Exists(g) => g = forks /\ running /\ cmd = g
    OBVIOUS
<1>1. GenerationOK(g) /\ mon[g] \in MonPoints /\ forks \in Nat /\ g \in Nat
    BY DEF ProcessInv, ProcessTypeOK
<1>2. CASE mon[g] \in Watching
    BY <1>1, <1>2 DEF GenerationOK
<1>3. CASE mon[g] = "none"
    BY <1>1, <1>3 DEF GenerationOK, Exists
<1>4. CASE mon[g] \in {"close", "done"}
    BY <1>1, <1>4 DEF GenerationOK, Exists
<1>5. QED
    BY <1>1, <1>2, <1>3, <1>4 DEF MonPoints, Watching

\* When the manager counts nothing as running, nothing exists.
LEMMA NotRunning ==
    ASSUME ProcessInv, ~running \/ cmd = 0
    PROVE  \A g \in Gen : ~Exists(g)
    BY PastIsReaped

\* A closed channel belongs to a reaped process whose monitor has finished.
LEMMA ClosedIsReaped ==
    ASSUME ProcessInv, NEW c \in Gen0, closes[c] > 0
    PROVE  c \in Gen /\ mon[c] = "done" /\ proc[c] = "reaped"
    BY DEF ProcessInv, FieldsOK, GenerationOK

-----------------------------------------------------------------------------
(* Initial states                                                          *)

\* The program starts in the invariant (NewProcessManager).
LEMMA ProcessInitInv == ProcessInit => ProcessInv
<1> SUFFICES ASSUME ProcessInit PROVE ProcessInv
    OBVIOUS
<1> USE DEF ProcessInit
<1>1. NoCall \in Frame
    BY InCallType DEF NoCall, Methods, Points
<1>2. ProcessTypeOK
  <2>1. call \in [Callers -> Frame] /\ \A t \in Callers : call[t].at = "idle"
    BY <1>1 DEF NoCall, InCall
  <2>2. launch \in [Gen -> {<<>>} \cup (Targets \X (Images \cup {NoMedia}))]
    OBVIOUS
  <2>3. /\ proc \in [Gen -> ProcState] /\ sig \in [Gen -> Signals]
        /\ mon \in [Gen -> MonPoints] /\ closes \in [Gen0 -> Nat]
        /\ monCmd \in [Gen -> Gen0] /\ monCh \in [Gen -> Gen0]
    BY DEF ProcState, Signals, MonPoints
  <2>4. /\ running = FALSE /\ cmd = 0 /\ exitCh = 0 /\ forks = 0
        /\ media \in Images \cup {NoMedia} /\ 0 \in Gen0
    OBVIOUS
  <2>5. QED
    BY <2>1, <2>2, <2>3, <2>4 DEF ProcessTypeOK
<1>3. FieldsOK
    BY DEF FieldsOK
<1>4. ASSUME NEW g \in Gen PROVE GenerationOK(g)
    BY DEF GenerationOK, Exists, Watching
<1>5. ASSUME NEW t \in Callers PROVE CallOK(t)
    BY DEF CallOK, NoCall, InCall
<1>6. QED
    BY <1>2, <1>3, <1>4, <1>5 DEF ProcessInv

-----------------------------------------------------------------------------
(* The acting caller                                                       *)

\* A method that returns at once leaves a finished frame.
LEMMA ImmediateCall ==
    ASSUME ProcessInv, NEW t \in Callers, NEW m \in Methods, NEW r \in {"ok", "err"},
           DoneNow(t, m, r), forks' \in Gen0, m # "WaitForExit"
    PROVE  FrameTypes' /\ Others(t) /\ CallOK(t)'
<1> DEFINE f == InCall(m, "done", 0, 0, 0, r)
<1>1. f \in Frame
    BY InCallType DEF Points
<1>2. FrameTypes' /\ Others(t) /\ call'[t] = f
    BY <1>1, Replaced DEF DoneNow, ProcessInv, ProcessTypeOK, FrameTypes
<1>3. CallOK(t)'
    BY <1>2 DEF CallOK, InCall
<1>4. QED
    BY <1>2, <1>3

\* TakeResult empties the frame.
LEMMA ReturnCall ==
    ASSUME ProcessInv, NEW t \in Callers, TakeResult(t)
    PROVE  FrameTypes' /\ Others(t) /\ CallOK(t)'
<1>1. NoCall \in Frame
    BY InCallType DEF NoCall, Methods, Points
<1>2. FrameTypes' /\ Others(t) /\ call'[t] = NoCall
    BY <1>1, Replaced DEF TakeResult, Return, ProcessInv, ProcessTypeOK, FrameTypes
<1>3. forks' \in Gen0
    BY DEF TakeResult, pmVars, ProcessInv, ProcessTypeOK
<1>4. CallOK(t)'
    BY <1>2, <1>3 DEF CallOK, NoCall, InCall
<1>5. QED
    BY <1>2, <1>4

\* A caller that enters WaitForExit holds the channel of the last fork.
LEMMA WaitForExitCall ==
    ASSUME ProcessInv, NEW t \in Callers, WaitForExit(t)
    PROVE  FrameTypes' /\ Others(t) /\ CallOK(t)'
<1> DEFINE f == InCall("WaitForExit", "wait", 0, exitCh, 0, "ok")
<1>1. f \in Frame
    BY InCallType DEF Methods, Points, ProcessInv, ProcessTypeOK
<1>2. FrameTypes' /\ Others(t) /\ call'[t] = f
    BY <1>1, Replaced DEF WaitForExit, ProcessInv, ProcessTypeOK, FrameTypes
<1>3. CallOK(t)'
    BY <1>2 DEF CallOK, InCall, WaitForExit, pmVars, ProcessInv, FieldsOK, ProcessTypeOK
<1>4. QED
    BY <1>2, <1>3

\* A caller that enters Stop past its early return holds a real process.
LEMMA StopBeginCall ==
    ASSUME ProcessInv, NEW t \in Callers, StopBegin(t)
    PROVE  FrameTypes' /\ Others(t) /\ CallOK(t)'
<1> DEFINE f == InCall("Stop", "sigterm", cmd, 0, 0, "ok")
<1>1. f \in Frame
    BY InCallType DEF Methods, Points, ProcessInv, ProcessTypeOK
<1>2. FrameTypes' /\ Others(t) /\ call'[t] = f
    BY <1>1, Replaced DEF StopBegin, ProcessInv, ProcessTypeOK, FrameTypes
<1>3. CallOK(t)'
    BY <1>2 DEF CallOK, InCall, StopBegin, pmVars, ProcessInv, FieldsOK, ProcessTypeOK
<1>4. QED
    BY <1>2, <1>3

\* SIGTERM: sent, or refused because the process has been reaped.
LEMMA StopSignalCall ==
    ASSUME ProcessInv, NEW t \in Callers, StopSignal(t)
    PROVE  FrameTypes' /\ Others(t) /\ CallOK(t)'
<1>1. /\ FrameTypes /\ CallOK(t) /\ call[t] \in Frame
      /\ call[t].op = "Stop" /\ call[t].tgt \in Gen
      /\ forks' = forks /\ proc' = proc
    BY DEF ProcessInv, ProcessTypeOK, FrameTypes, CallOK, StopSignal, pmVars
<1>2. CASE proc[call[t].tgt] = "reaped" /\ Done(t, "err")
  <2>1. FrameTypes' /\ Others(t) /\ call'[t] = [call[t] EXCEPT !.at = "done", !.res = "err"]
    BY <1>1, <1>2, DoneEffect
  <2>2. QED
    BY <1>1, <1>2, <2>1 DEF CallOK, Frame, Settled
<1>3. CASE call' = [call EXCEPT ![t].at = "arm"]
  <2>1. FrameTypes' /\ Others(t) /\ call'[t] = [call[t] EXCEPT !.at = "arm"]
    BY <1>1, <1>3, Moved DEF Points
  <2>2. QED
    BY <1>1, <2>1 DEF CallOK, Frame
<1>4. QED
    BY <1>2, <1>3 DEF StopSignal

\* The channel Stop waits for is at least as young as its process.
LEMMA StopArmCall ==
    ASSUME ProcessInv, NEW t \in Callers, StopArm(t)
    PROVE  FrameTypes' /\ Others(t) /\ CallOK(t)'
<1>1. /\ FrameTypes /\ FieldTypes /\ CallOK(t) /\ call[t] \in Frame
      /\ call[t].op = "Stop" /\ call[t].tgt \in Gen
      /\ forks' = forks /\ exitCh = forks
    BY DEF ProcessInv, ProcessTypeOK, FieldTypes, FieldsOK, FrameTypes, CallOK, StopArm, pmVars
<1>2. FrameTypes' /\ Others(t)
      /\ call'[t] = [call[t] EXCEPT !.at = "wait", !.chan = exitCh]
    BY <1>1, Armed DEF StopArm
<1>3. CallOK(t)'
    BY <1>1, <1>2 DEF CallOK, Frame, FieldTypes
<1>4. QED
    BY <1>2, <1>3

\* A wait that ends well: the process of a channel that is closed, and every
\* older one, is gone.
LEMMA WaitDoneCall ==
    ASSUME ProcessInv, NEW t \in Callers, WaitDone(t)
    PROVE  FrameTypes' /\ Others(t) /\ CallOK(t)'
<1>1. /\ FrameTypes /\ CallOK(t) /\ call[t] \in Frame /\ call[t].chan \in Gen0
      /\ forks' = forks /\ proc' = proc /\ mon' = mon /\ forks \in Gen0
    BY DEF ProcessInv, ProcessTypeOK, FrameTypes, Frame, CallOK, WaitDone, pmVars, osVars, monVars
<1>2. FrameTypes' /\ Others(t) /\ call'[t] = [call[t] EXCEPT !.at = "done", !.res = "ok"]
    BY <1>1, DoneEffect DEF WaitDone
<1>3. /\ call[t].chan \in Gen /\ mon[call[t].chan] = "done"
      /\ proc[call[t].chan] = "reaped"
    BY <1>1, ClosedIsReaped DEF WaitDone
<1>4. call[t].op = "Stop" => call[t].tgt \in Gen /\ proc[call[t].tgt] = "reaped"
    BY <1>1, <1>3, PastIsReaped DEF CallOK, WaitDone, Frame
<1>5. CallOK(t)'
    BY <1>1, <1>2, <1>3, <1>4 DEF CallOK, Frame, Settled
<1>6. QED
    BY <1>2, <1>5

\* A timeout ends WaitForExit, and sends a Stop on to Kill with its target.
LEMMA WaitTimeoutCall ==
    ASSUME ProcessInv, NEW t \in Callers, WaitTimeout(t)
    PROVE  FrameTypes' /\ Others(t) /\ CallOK(t)'
<1>1. /\ FrameTypes /\ CallOK(t) /\ call[t] \in Frame /\ forks' = forks
    BY DEF ProcessInv, ProcessTypeOK, FrameTypes, WaitTimeout, pmVars
<1>2. CASE call[t].op = "Stop" /\ call' = [call EXCEPT ![t].at = "kill"]
  <2>1. FrameTypes' /\ Others(t) /\ call'[t] = [call[t] EXCEPT !.at = "kill"]
    BY <1>1, <1>2, Moved DEF Points
  <2>2. QED
    BY <1>1, <1>2, <2>1 DEF CallOK, Frame, WaitTimeout
<1>3. CASE call[t].op = "WaitForExit" /\ Done(t, "err")
  <2>1. FrameTypes' /\ Others(t) /\ call'[t] = [call[t] EXCEPT !.at = "done", !.res = "err"]
    BY <1>1, <1>3, DoneEffect
  <2>2. QED
    BY <1>1, <1>3, <2>1 DEF CallOK, Frame
<1>4. QED
    BY <1>2, <1>3 DEF WaitTimeout

\* Kill finds nothing running: then what Stop set out to end is gone.
LEMMA KillNoopCall ==
    ASSUME ProcessInv, NEW t \in Callers, KillNoop(t)
    PROVE  FrameTypes' /\ Others(t) /\ CallOK(t)'
<1>1. /\ FrameTypes /\ CallOK(t) /\ call[t] \in Frame
      /\ forks' = forks /\ proc' = proc /\ forks \in Gen0
    BY DEF ProcessInv, ProcessTypeOK, FrameTypes, KillNoop, pmVars, osVars
<1>2. CASE DoneNow(t, "Kill", "ok")
    BY <1>1, <1>2, ImmediateCall DEF Methods
<1>3. CASE call[t].at = "kill" /\ Done(t, "ok")
  <2>1. FrameTypes' /\ Others(t) /\ call'[t] = [call[t] EXCEPT !.at = "done", !.res = "ok"]
    BY <1>1, <1>3, DoneEffect
  <2>2. \A g \in Gen : proc[g] # "up"
    BY NotRunning DEF KillNoop, Exists
  <2>3. QED
    BY <1>1, <1>3, <2>1, <2>2 DEF CallOK, Frame, Settled
<1>4. QED
    BY <1>2, <1>3 DEF KillNoop

\* The command Kill copies is the last one, so no older than Stop's own.
LEMMA KillBeginCall ==
    ASSUME ProcessInv, NEW t \in Callers, KillBegin(t)
    PROVE  FrameTypes' /\ Others(t) /\ CallOK(t)'
<1>1. /\ FrameTypes /\ FieldTypes /\ CallOK(t) /\ call[t] \in Frame
      /\ forks' = forks /\ cmd = forks /\ cmd \in Gen
    BY DEF ProcessInv, ProcessTypeOK, FieldTypes, FieldsOK, FrameTypes, KillBegin, pmVars
<1>2. CASE call' = [call EXCEPT ![t] = InCall("Kill", "sigkill", 0, 0, cmd, "ok")]
  <2> DEFINE f == InCall("Kill", "sigkill", 0, 0, cmd, "ok")
  <2>1. f \in Frame
    BY <1>1, InCallType DEF Methods, Points
  <2>2. FrameTypes' /\ Others(t) /\ call'[t] = f
    BY <1>1, <1>2, <2>1, Replaced
  <2>3. QED
    BY <1>1, <2>2 DEF CallOK, InCall
<1>3. CASE call[t].at = "kill" /\ call' = [call EXCEPT ![t].at = "sigkill", ![t].victim = cmd]
  <2>1. FrameTypes' /\ Others(t)
        /\ call'[t] = [call[t] EXCEPT !.at = "sigkill", !.victim = cmd]
    BY <1>1, <1>3, Aimed
  <2>2. /\ call'[t].at = "sigkill" /\ call'[t].victim = cmd
        /\ call'[t].op = call[t].op /\ call'[t].tgt = call[t].tgt
        /\ call'[t].chan = call[t].chan
    BY <1>1, <2>1 DEF Frame
  <2>3. /\ call[t].op = "Stop" /\ call[t].tgt \in Gen
        /\ call[t].tgt <= forks /\ call[t].chan <= forks
    BY <1>1, <1>3 DEF CallOK
  <2>4. QED
    BY <1>1, <2>1, <2>2, <2>3 DEF CallOK
<1>4. QED
    BY <1>2, <1>3 DEF KillBegin

\* SIGKILL settles the fate of Stop's process: it is the victim, or older
\* than the victim and so reaped.
LEMMA KillSignalCall ==
    ASSUME ProcessInv, NEW t \in Callers, KillSignal(t)
    PROVE  FrameTypes' /\ Others(t) /\ CallOK(t)'
<1>1. /\ FrameTypes /\ CallOK(t) /\ call[t] \in Frame
      /\ call[t].op \in {"Stop", "Kill"} /\ call[t].victim \in Gen
      /\ forks' = forks /\ proc' = proc /\ mon' = mon /\ forks \in Gen0
      /\ sig \in [Gen -> Signals]
    BY DEF ProcessInv, ProcessTypeOK, FrameTypes, CallOK, KillSignal, pmVars, monVars
<1>2. PICK v \in Gen, k \in Gen0 : v = call[t].victim /\ k = call[t].tgt
    BY <1>1 DEF Frame
<1>3. Settled(v)'
  <2>1. CASE proc[v] # "up"
    BY <1>1, <2>1 DEF Settled
  <2>2. CASE proc[v] = "up"
    <3>1. sig' = Signalled(v, "kill")
      BY <1>2, <2>2 DEF KillSignal
    <3>2. QED
      BY <1>1, <2>2, <3>1, SignalledType DEF Settled, Signals
  <2>3. QED
    BY <2>1, <2>2
<1>4. call[t].op = "Stop" => k \in Gen /\ Settled(k)'
  <2>1. ASSUME call[t].op = "Stop" PROVE k \in Gen /\ k <= v /\ v <= forks
    BY <1>1, <1>2, <2>1 DEF CallOK, KillSignal
  <2>2. ASSUME k \in Gen, k < v, v <= forks PROVE Settled(k)'
    BY <1>1, <2>2, PastIsReaped DEF Settled
  <2>3. QED
    BY <1>3, <2>1, <2>2
<1>5. PICK r \in {"ok", "err"} : Done(t, r)
    BY DEF KillSignal
<1>6. FrameTypes' /\ Others(t) /\ call'[t] = [call[t] EXCEPT !.at = "done", !.res = r]
    BY <1>1, <1>5, DoneEffect
<1>7. CallOK(t)'
    BY <1>1, <1>2, <1>4, <1>6 DEF CallOK, Frame
<1>8. QED
    BY <1>6, <1>7

-----------------------------------------------------------------------------
(* The manager, the processes and the monitors                             *)

\* ProcessInv without the callers.
FieldsInv == FieldTypes /\ FieldsOK /\ \A g \in Gen : GenerationOK(g)

\* What a caller knows never becomes false: processes only get older, the
\* settled stay settled and the monitors that have finished stay finished.
Later ==
    /\ forks <= forks'
    /\ \A g \in Gen : /\ g <= forks /\ Settled(g) => Settled(g)'
                      /\ mon[g] = "done" => mon'[g] = "done"

\* The part of the invariant that does not speak of callers.
LEMMA FieldsFromInv == ProcessInv => FieldsInv
    BY DEF ProcessInv, ProcessTypeOK, FieldsInv, FieldTypes

\* A step that at most asks a process to end.
LEMMA SignalStep ==
    ASSUME FieldsInv, UNCHANGED <<pmVars, proc, monVars>>,
           \/ UNCHANGED sig
           \/ \E g \in Gen, s \in Signals : sig' = Signalled(g, s)
    PROVE  FieldsInv' /\ Later
<1>1. sig' \in [Gen -> Signals] /\ \A h \in Gen : sig[h] = "kill" => sig'[h] = "kill"
  <2>1. sig \in [Gen -> Signals]
    BY DEF FieldsInv, FieldTypes
  <2>2. CASE UNCHANGED sig
    BY <2>1, <2>2
  <2>3. ASSUME NEW g \in Gen, NEW s \in Signals, sig' = Signalled(g, s)
        PROVE  sig' \in [Gen -> Signals] /\ \A h \in Gen : sig[h] = "kill" => sig'[h] = "kill"
    BY <2>1, <2>3, SignalledType
  <2>4. QED
    BY <2>2, <2>3
<1>2. FieldTypes' /\ FieldsOK' /\ \A g \in Gen : GenerationOK(g)'
    BY <1>1 DEF FieldsInv, FieldTypes, FieldsOK, GenerationOK, Exists, pmVars, monVars
<1>3. Later
    BY <1>1 DEF Later, Settled, FieldsInv, FieldTypes, pmVars, monVars
<1>4. QED
    BY <1>2, <1>3 DEF FieldsInv

\* cmd.Start failed: no process, so no monitor relies on p.cmd.
LEMMA StartFailsStep ==
    ASSUME FieldsInv, NEW t \in Callers, StartFails(t)
    PROVE  FieldsInv' /\ Later
<1>1. FieldTypes' /\ FieldsOK'
    BY DEF FieldsInv, FieldTypes, FieldsOK, StartFails, osVars, monVars
<1>2. ASSUME NEW g \in Gen PROVE GenerationOK(g)'
  <2>1. GenerationOK(g)
    BY DEF FieldsInv
  <2>2. QED
    BY <2>1 DEF GenerationOK, Exists, StartFails, osVars, monVars
<1>3. Later
    BY DEF Later, Settled, FieldsInv, FieldTypes, StartFails, osVars, monVars
<1>4. QED
    BY <1>1, <1>2, <1>3 DEF FieldsInv

\* SetMedia touches nothing the invariant relates.
LEMMA SetMediaStep ==
    ASSUME FieldsInv, NEW image \in Images \cup {NoMedia}, SetMedia(image)
    PROVE  FieldsInv' /\ Later
<1>1. FieldTypes' /\ FieldsOK'
    BY DEF FieldsInv, FieldTypes, FieldsOK, SetMedia, osVars, monVars
<1>2. ASSUME NEW g \in Gen PROVE GenerationOK(g)'
  <2>1. GenerationOK(g)
    BY DEF FieldsInv
  <2>2. QED
    BY <2>1 DEF GenerationOK, Exists, SetMedia, osVars, monVars
<1>3. Later
    BY DEF Later, Settled, FieldsInv, FieldTypes, SetMedia, osVars, monVars
<1>4. QED
    BY <1>1, <1>2, <1>3 DEF FieldsInv

\* A fork makes a generation of its own: process, channel and monitor.
LEMMA StartForksStep ==
    ASSUME FieldsInv, NEW t \in Callers, NEW target \in Targets, StartForks(t, target)
    PROVE  FieldsInv' /\ Later
<1> DEFINE n == forks + 1
<1>1. /\ forks' = n /\ cmd' = n /\ running' = TRUE /\ exitCh' = n
      /\ launch' = [launch EXCEPT ![n] = <<target, media>>]
      /\ proc' = [proc EXCEPT ![n] = "up"] /\ mon' = [mon EXCEPT ![n] = "begin"]
      /\ UNCHANGED <<media, sig, monCmd, monCh, closes>>
    BY DEF StartForks, Fork
<1>2. n \in Gen /\ forks \in Gen0 /\ ~running
    BY DEF StartForks, Fork, FieldsInv, FieldTypes
<1>3. FieldTypes'
  <2>1. launch' \in [Gen -> {<<>>} \cup (Targets \X (Images \cup {NoMedia}))]
    BY <1>1, <1>2 DEF FieldsInv, FieldTypes
  <2>2. proc' \in [Gen -> ProcState] /\ mon' \in [Gen -> MonPoints]
    BY <1>1, <1>2 DEF FieldsInv, FieldTypes, ProcState, MonPoints
  <2>3. /\ running' \in BOOLEAN /\ cmd' \in Gen0 /\ exitCh' \in Gen0 /\ forks' \in Gen0
        /\ media' \in Images \cup {NoMedia}
    BY <1>1, <1>2 DEF FieldsInv, FieldTypes
  <2>4. /\ sig' \in [Gen -> Signals] /\ monCmd' \in [Gen -> Gen0]
        /\ monCh' \in [Gen -> Gen0] /\ closes' \in [Gen0 -> Nat]
    BY <1>1 DEF FieldsInv, FieldTypes
  <2>5. QED
    BY <2>1, <2>2, <2>3, <2>4 DEF FieldTypes
<1>4. FieldsOK'
    BY <1>1, <1>2 DEF FieldsInv, FieldTypes, FieldsOK, Watching
<1>5. ASSUME NEW g \in Gen PROVE GenerationOK(g)'
  <2>1. GenerationOK(g) /\ mon[g] \in MonPoints /\ proc[g] \in ProcState
    BY DEF FieldsInv, FieldTypes
  <2>2. CASE g = n
    BY <1>1, <1>2, <2>1, <2>2 DEF FieldsInv, FieldTypes, GenerationOK, Exists, Watching
  <2>3. CASE g # n
    <3>1. mon'[g] = mon[g] /\ proc'[g] = proc[g] /\ mon[g] \notin Watching
        BY <1>1, <1>2, <2>1, <2>3 DEF FieldsInv, FieldTypes, GenerationOK
    <3>2. g > forks' <=> g > forks
        BY <1>1, <1>2, <2>3
    <3>3. QED
        BY <1>1, <2>1, <3>1, <3>2 DEF GenerationOK, Exists, Watching
  <2>4. QED
    BY <2>2, <2>3
<1>6. Later
  <2>1. ASSUME NEW g \in Gen, g # n
        PROVE  proc'[g] = proc[g] /\ sig'[g] = sig[g] /\ mon'[g] = mon[g]
    BY <1>1, <1>2, <2>1 DEF FieldsInv, FieldTypes
  <2>2. n > forks /\ mon[n] # "done"
    BY <1>2 DEF FieldsInv, FieldTypes, GenerationOK
  <2>3. QED
    BY <1>1, <1>2, <2>1, <2>2 DEF Later, Settled
<1>7. QED
    BY <1>3, <1>4, <1>5, <1>6 DEF FieldsInv

\* The command the monitor reads without the lock is its own: the process
\* has not been reaped, so nobody could start another.
LEMMA MonitorBeginStep ==
    ASSUME FieldsInv, NEW n \in Gen, MonitorBegin(n)
    PROVE  FieldsInv' /\ Later
<1>1. /\ mon[n] = "begin" /\ mon' = [mon EXCEPT ![n] = "wait"]
      /\ monCmd' = [monCmd EXCEPT ![n] = cmd] /\ cmd = n
      /\ UNCHANGED <<pmVars, osVars, monCh, closes>>
    BY DEF MonitorBegin, FieldsInv, GenerationOK, Watching
<1>2. FieldTypes'
    BY <1>1 DEF FieldsInv, FieldTypes, MonPoints, pmVars, osVars
<1>3. FieldsOK'
    BY <1>1 DEF FieldsInv, FieldTypes, FieldsOK, Watching, pmVars, osVars
<1>4. ASSUME NEW g \in Gen PROVE GenerationOK(g)'
  <2>1. GenerationOK(g)
    BY DEF FieldsInv
  <2>2. QED
    BY <1>1, <2>1 DEF FieldsInv, FieldTypes, GenerationOK, Exists, Watching, pmVars, osVars
<1>5. Later
    BY <1>1 DEF Later, Settled, FieldsInv, FieldTypes, pmVars, osVars
<1>6. QED
    BY <1>2, <1>3, <1>4, <1>5 DEF FieldsInv

\* cmd.Wait returns: the monitor has reaped its own generation.
LEMMA MonitorReapStep ==
    ASSUME FieldsInv, NEW n \in Gen, MonitorReap(n)
    PROVE  FieldsInv' /\ Later
<1>1. /\ mon[n] = "wait" /\ monCmd[n] = n /\ Exists(n)
      /\ mon' = [mon EXCEPT ![n] = "clear"] /\ proc' = [proc EXCEPT ![n] = "reaped"]
      /\ UNCHANGED <<pmVars, sig, monCmd, monCh, closes>>
    BY DEF MonitorReap, FieldsInv, GenerationOK
<1>2. FieldTypes'
    BY <1>1 DEF FieldsInv, FieldTypes, MonPoints, ProcState, pmVars
<1>3. FieldsOK'
    BY <1>1 DEF FieldsInv, FieldTypes, FieldsOK, Watching, pmVars
<1>4. ASSUME NEW g \in Gen PROVE GenerationOK(g)'
  <2>1. GenerationOK(g) /\ GenerationOK(n)
    BY DEF FieldsInv
  <2>2. QED
    BY <1>1, <2>1 DEF FieldsInv, FieldTypes, GenerationOK, Exists, Watching, pmVars
<1>5. Later
    BY <1>1 DEF Later, Settled, FieldsInv, FieldTypes, pmVars
<1>6. QED
    BY <1>2, <1>3, <1>4, <1>5 DEF FieldsInv

\* The channel the monitor reads under the lock is its own, and running is
\* cleared for its own generation.
LEMMA MonitorClearStep ==
    ASSUME FieldsInv, NEW n \in Gen, MonitorClear(n)
    PROVE  FieldsInv' /\ Later
<1>1. /\ mon[n] = "clear" /\ mon' = [mon EXCEPT ![n] = "close"] /\ running' = FALSE
      /\ monCh' = [monCh EXCEPT ![n] = exitCh] /\ exitCh = n /\ forks = n
      /\ UNCHANGED <<cmd, exitCh, media, forks, launch, osVars, monCmd, closes>>
    BY DEF MonitorClear, FieldsInv, FieldsOK, GenerationOK, Watching
<1>2. FieldTypes'
    BY <1>1 DEF FieldsInv, FieldTypes, MonPoints, osVars
<1>3. FieldsOK'
    BY <1>1 DEF FieldsInv, FieldTypes, FieldsOK
<1>4. ASSUME NEW g \in Gen PROVE GenerationOK(g)'
  <2>1. GenerationOK(g) /\ GenerationOK(n)
    BY DEF FieldsInv
  <2>2. QED
    BY <1>1, <2>1 DEF FieldsInv, FieldTypes, GenerationOK, Exists, Watching, osVars
<1>5. Later
    BY <1>1 DEF Later, Settled, FieldsInv, FieldTypes, osVars
<1>6. QED
    BY <1>2, <1>3, <1>4, <1>5 DEF FieldsInv

\* The monitor closes its generation's channel, for the first time.
LEMMA MonitorCloseStep ==
    ASSUME FieldsInv, NEW n \in Gen, MonitorClose(n)
    PROVE  FieldsInv' /\ Later
<1>1. /\ mon[n] = "close" /\ mon' = [mon EXCEPT ![n] = "done"] /\ closes[n] = 0
      /\ closes' = [closes EXCEPT ![n] = closes[n] + 1]
      /\ UNCHANGED <<pmVars, osVars, monCmd, monCh>>
    BY DEF MonitorClose, FieldsInv, GenerationOK
<1>2. FieldTypes'
  <2>1. mon' \in [Gen -> MonPoints]
    BY <1>1 DEF FieldsInv, FieldTypes, MonPoints
  <2>2. closes' \in [Gen0 -> Nat]
    <3>1. closes \in [Gen0 -> Nat]
      BY DEF FieldsInv, FieldTypes
    <3>2. closes' = [closes EXCEPT ![n] = 1]
      BY <1>1
    <3>3. QED
      BY <3>1, <3>2
  <2>3. QED
    BY <1>1, <2>1, <2>2 DEF FieldsInv, FieldTypes, pmVars, osVars
<1>3. FieldsOK'
  <2>1. closes'[0] = 0
    BY <1>1 DEF FieldsInv, FieldTypes, FieldsOK
  <2>2. ASSUME running PROVE mon'[forks] \in Watching
    BY <1>1, <2>2 DEF FieldsInv, FieldTypes, FieldsOK, Watching
  <2>3. QED
    BY <1>1, <2>1, <2>2 DEF FieldsInv, FieldsOK, pmVars
<1>4. ASSUME NEW g \in Gen PROVE GenerationOK(g)'
  <2>1. GenerationOK(g) /\ GenerationOK(n)
    BY DEF FieldsInv
  <2>2. CASE g = n
    <3>1. mon'[n] = "done" /\ closes'[n] = 1 /\ proc'[n] = proc[n] /\ forks' = forks
        BY <1>1 DEF FieldsInv, FieldTypes, pmVars, osVars
    <3>2. QED
        BY <1>1, <2>1, <2>2, <3>1 DEF GenerationOK, Exists, Watching
  <2>3. CASE g # n
    <3>1. mon'[g] = mon[g] /\ closes'[g] = closes[g]
        BY <1>1, <2>3 DEF FieldsInv, FieldTypes
    <3>2. QED
        BY <1>1, <2>1, <3>1 DEF GenerationOK, Exists, Watching, pmVars, osVars
  <2>4. QED
    BY <2>2, <2>3
<1>5. Later
    BY <1>1 DEF Later, Settled, FieldsInv, FieldTypes, pmVars, osVars
<1>6. QED
    BY <1>2, <1>3, <1>4, <1>5 DEF FieldsInv

\* A process that ends stays to be reaped; its signals go with it.
LEMMA ProcessExitStep ==
    ASSUME FieldsInv, NEW n \in Gen, ProcessExit(n)
    PROVE  FieldsInv' /\ Later
<1>1. /\ proc[n] = "up" /\ proc' = [proc EXCEPT ![n] = "zombie"]
      /\ sig' = [sig EXCEPT ![n] = "none"] /\ UNCHANGED <<pmVars, monVars>>
    BY DEF ProcessExit
<1>2. FieldTypes'
    BY <1>1 DEF FieldsInv, FieldTypes, ProcState, Signals, pmVars, monVars
<1>3. FieldsOK'
    BY <1>1 DEF FieldsInv, FieldTypes, FieldsOK, Watching, pmVars, monVars
<1>4. ASSUME NEW g \in Gen PROVE GenerationOK(g)'
  <2>1. GenerationOK(g) /\ GenerationOK(n)
    BY DEF FieldsInv
  <2>2. QED
    BY <1>1, <2>1 DEF FieldsInv, FieldTypes, GenerationOK, Exists, Watching, pmVars, monVars
<1>5. Later
    BY <1>1 DEF Later, Settled, FieldsInv, FieldTypes, pmVars, monVars
<1>6. QED
    BY <1>2, <1>3, <1>4, <1>5 DEF FieldsInv

-----------------------------------------------------------------------------
(* Every step                                                              *)

\* The fields, processes and monitors stay as ProcessInv says, and no caller's
\* knowledge is undone.
LEMMA FieldsStep ==
    ASSUME ProcessInv, ProcessNext
    PROVE  FieldsInv' /\ Later
<1>1. FieldsInv
    BY FieldsFromInv
<1>2. ASSUME NEW t \in Callers, Call(t) PROVE FieldsInv' /\ Later
  <2>1. CASE \E target \in Targets : StartForks(t, target)
    BY <1>1, <2>1, StartForksStep
  <2>2. CASE StartFails(t)
    BY <1>1, <2>2, StartFailsStep
  <2>3. CASE UNCHANGED <<pmVars, osVars, monVars>>
    BY <1>1, <2>3, SignalStep DEF osVars
  <2>4. QED
    BY <1>2, <2>1, <2>2, <2>3
       DEF Call, Start, StartNoop, Stop, StopNoop, StopBegin, Kill, KillNoop, KillBegin, WaitForExit
<1>3. ASSUME NEW t \in Callers, Inside(t) PROVE FieldsInv' /\ Later
  <2>1. CASE UNCHANGED <<pmVars, osVars, monVars>>
    BY <1>1, <2>1, SignalStep DEF osVars
  <2>2. CASE StopSignal(t)
    <3>1. CallOK(t) /\ call[t].tgt \in Gen
        BY <2>2 DEF ProcessInv, CallOK, StopSignal
    <3>2. QED
        BY <1>1, <2>2, <3>1, SignalStep DEF StopSignal, Signals
  <2>3. CASE KillSignal(t)
    <3>1. call[t].victim \in Gen
        BY <2>3 DEF ProcessInv, CallOK, KillSignal
    <3>2. QED
        BY <1>1, <2>3, <3>1, SignalStep DEF KillSignal, Signals
  <2>4. QED
    BY <1>3, <2>1, <2>2, <2>3
       DEF Inside, StopArm, WaitDone, WaitTimeout, Kill, KillNoop, KillBegin
<1>4. ASSUME NEW t \in Callers, TakeResult(t) PROVE FieldsInv' /\ Later
    BY <1>1, <1>4, SignalStep DEF TakeResult, osVars
<1>5. ASSUME NEW image \in Images \cup {NoMedia}, SetMedia(image) PROVE FieldsInv' /\ Later
    BY <1>1, <1>5, SetMediaStep
<1>6. ASSUME NEW g \in Gen, Monitor(g) PROVE FieldsInv' /\ Later
    BY <1>1, <1>6, MonitorBeginStep, MonitorReapStep, MonitorClearStep, MonitorCloseStep
       DEF Monitor
<1>7. ASSUME NEW g \in Gen, ProcessExit(g) PROVE FieldsInv' /\ Later
    BY <1>1, <1>7, ProcessExitStep
<1>8. ASSUME NEW g \in Gen, QuitAccepted(g) PROVE FieldsInv' /\ Later
    BY <1>1, <1>8, SignalStep DEF QuitAccepted, Signals
<1>9. QED
    BY <1>2, <1>3, <1>4, <1>5, <1>6, <1>7, <1>8 DEF ProcessNext

\* What the acting caller knows holds after its step; other frames stay.
LEMMA CallerStep ==
    ASSUME ProcessInv, NEW t \in Callers, Call(t) \/ Inside(t) \/ TakeResult(t)
    PROVE  FrameTypes' /\ Others(t) /\ CallOK(t)'
<1>1. forks' \in Gen0
    BY FieldsStep DEF ProcessNext, FieldsInv, FieldTypes
<1>2. ASSUME NEW target \in Targets, Start(t, target)
      PROVE  FrameTypes' /\ Others(t) /\ CallOK(t)'
    BY <1>1, <1>2, ImmediateCall DEF Start, StartNoop, StartFails, StartForks, Fork, Methods
<1>3. CASE Stop(t)
    BY <1>1, <1>3, ImmediateCall, StopBeginCall DEF Stop, StopNoop, Methods
<1>4. CASE Kill(t)
    BY <1>4, KillNoopCall, KillBeginCall DEF Kill
<1>5. CASE WaitForExit(t)
    BY <1>5, WaitForExitCall
<1>6. CASE Inside(t)
    BY <1>4, <1>6, StopSignalCall, StopArmCall, WaitDoneCall, WaitTimeoutCall, KillSignalCall
       DEF Inside
<1>7. CASE TakeResult(t)
    BY <1>7, ReturnCall
<1>8. QED
    BY <1>2, <1>3, <1>4, <1>5, <1>6, <1>7 DEF Call

\* What another caller knows survives the step.
LEMMA OtherCaller ==
    ASSUME ProcessInv, FieldsInv', Later, NEW u \in Callers, call'[u] = call[u]
    PROVE  CallOK(u)'
<1>1. CallOK(u) /\ call[u] \in Frame /\ forks \in Gen0 /\ forks' \in Gen0
    BY DEF ProcessInv, ProcessTypeOK, FieldsInv, FieldTypes
<1>2. PICK f \in Frame : f = call[u]
    BY <1>1
<1>3. f.tgt \in Gen /\ Settled(f.tgt) => Settled(f.tgt)'
    BY <1>1, <1>2 DEF Later, CallOK
<1>4. QED
    BY <1>1, <1>2, <1>3 DEF CallOK, Later, Frame

\* ProcessInv is inductive.
LEMMA ProcessStepInv ==
    ASSUME ProcessInv, [ProcessNext]_processVars
    PROVE  ProcessInv'
<1>1. CASE UNCHANGED processVars
    BY <1>1 DEF ProcessInv, ProcessTypeOK, FieldsOK, GenerationOK, Exists, CallOK, Settled,
                processVars, pmVars, osVars, monVars
<1>2. CASE ProcessNext
  <2>1. FieldsInv' /\ Later
    BY <1>2, FieldsStep
  <2>2. FrameTypes' /\ \A u \in Callers : CallOK(u)'
    <3>1. ASSUME NEW t \in Callers, Call(t) \/ Inside(t) \/ TakeResult(t)
          PROVE  FrameTypes' /\ \A u \in Callers : CallOK(u)'
        BY <2>1, <3>1, CallerStep, OtherCaller DEF Others
    <3>2. CASE UNCHANGED call
        BY <2>1, <3>2, OtherCaller DEF ProcessInv, ProcessTypeOK, FrameTypes
    <3>3. QED
        BY <1>2, <3>1, <3>2 DEF ProcessNext, SetMedia, Monitor, MonitorBegin, MonitorReap,
           MonitorClear, MonitorClose, ProcessExit, QuitAccepted
  <2>3. ProcessTypeOK'
    <3>1. \A t \in Callers : /\ call'[t].at = "sigterm" => call'[t].tgt \in Gen
                             /\ call'[t].at = "sigkill" => call'[t].victim \in Gen
        BY <2>2 DEF CallOK
    <3>2. QED
        BY <2>1, <2>2, <3>1 DEF ProcessTypeOK, FieldsInv, FieldTypes, FrameTypes
  <2>4. QED
    BY <2>1, <2>2, <2>3 DEF ProcessInv, FieldsInv
<1>3. QED
    BY <1>1, <1>2

\* The invariant of the process manager, whatever the callers interleave.
THEOREM ProcessInvariant == ProcessSpec => []ProcessInv
<1>1. ProcessInit => ProcessInv
    BY ProcessInitInv
<1>2. ProcessInv /\ [ProcessNext]_processVars => ProcessInv'
    BY ProcessStepInv
<1>3. QED
    BY <1>1, <1>2, PTL DEF ProcessSpec

\* Every field, process and frame keeps its type (ProcessManager's fields and
\* the frames of Stop, Kill and WaitForExit).
THEOREM ProcessTypes == ProcessSpec => []ProcessTypeOK
<1>1. ProcessInv => ProcessTypeOK
    BY DEF ProcessInv
<1>2. QED
    BY <1>1, ProcessInvariant, PTL

\* No two QEMU processes ever exist: Start forks only after the monitor has
\* reaped the last one.
THEOREM OneQemu == ProcessSpec => []AtMostOneQemu
<1>1. ProcessInv => AtMostOneQemu
    BY PastIsReaped DEF AtMostOneQemu
<1>2. QED
    BY <1>1, ProcessInvariant, PTL

\* A QEMU that exists is the one Stop, Kill and WaitForExit act on.
THEOREM NoOrphans == ProcessSpec => []NoOrphan
<1>1. ProcessInv => NoOrphan
    BY PastIsReaped DEF NoOrphan, ProcessInv, FieldsOK
<1>2. QED
    BY <1>1, ProcessInvariant, PTL

\* monitor closes each exit channel once, after its process is gone.
THEOREM ClosedOnce == ProcessSpec => []ExitChClosedOnce
<1>1. ASSUME ProcessInv, NEW c \in Gen0
      PROVE  closes[c] <= 1 /\ (closes[c] > 0 => c \in Gen /\ proc[c] = "reaped")
  <2>1. closes[c] <= 1
    BY <1>1 DEF ProcessInv, FieldsOK, GenerationOK
  <2>2. QED
    BY <1>1, <2>1, ClosedIsReaped
<1>2. ProcessInv => ExitChClosedOnce
    BY <1>1 DEF ExitChClosedOnce
<1>3. QED
    BY <1>2, ProcessInvariant, PTL

\* WaitForExit returns nil only for a VM that is gone and not counted running.
THEOREM WaitsAreSound == ProcessSpec => []WaitSound
<1>1. ASSUME ProcessInv, NEW t \in Callers,
             Returned(t), call[t].op = "WaitForExit", call[t].res = "ok"
      PROVE  LET c == call[t].chan IN
               c \in Gen /\ proc[c] = "reaped" /\ ~(running /\ cmd = c)
  <2>1. CallOK(t)
    BY <1>1 DEF ProcessInv
  <2>2. PICK c \in Gen : c = call[t].chan /\ mon[c] = "done"
    BY <1>1, <2>1 DEF CallOK, Returned
  <2>3. proc[c] = "reaped"
    BY <1>1, <2>2 DEF ProcessInv, GenerationOK
  <2>4. ~(running /\ cmd = c)
    BY <1>1, <2>2 DEF ProcessInv, FieldsOK, Watching
  <2>5. QED
    BY <2>2, <2>3, <2>4
<1>2. ProcessInv => WaitSound
    BY <1>1 DEF WaitSound
<1>3. QED
    BY <1>2, ProcessInvariant, PTL

\* Stop leaves its process dead or with SIGKILL pending, however it returns.
THEOREM StopsSettle == ProcessSpec => []StopSettles
<1>1. ASSUME ProcessInv, NEW t \in Callers, Returned(t), call[t].op = "Stop",
             call[t].tgt \in Gen
      PROVE  Settled(call[t].tgt)
  <2>1. CallOK(t)
    BY <1>1 DEF ProcessInv
  <2>2. QED
    BY <1>1, <2>1 DEF CallOK, Returned
<1>2. ProcessInv => StopSettles
    BY <1>1 DEF StopSettles
<1>3. QED
    BY <1>2, ProcessInvariant, PTL

-----------------------------------------------------------------------------
(* Steps: the action property and the refinement                           *)

\* What a step of the program does to running, p.cmd and the processes.
LEMMA WhatChanges ==
    ASSUME ProcessInv, ProcessNext
    PROVE  \/ UNCHANGED <<running, cmd, forks>> /\ \A g \in Gen : Exists(g)' <=> Exists(g)
           \/ \E t \in Callers : StartFails(t)
           \/ \E t \in Callers, target \in Targets : StartForks(t, target)
           \/ \E g \in Gen : MonitorReap(g) \/ MonitorClear(g) \/ ProcessExit(g)
<1> DEFINE Same == UNCHANGED <<running, cmd, forks>> /\ \A g \in Gen : Exists(g)' <=> Exists(g)
<1>1. ASSUME NEW t \in Callers, NEW target \in Targets, Start(t, target)
      PROVE  Same \/ StartFails(t) \/ StartForks(t, target)
    BY <1>1 DEF Start, StartNoop, Exists, pmVars, osVars, monVars
<1>2. ASSUME NEW t \in Callers, Stop(t) \/ Kill(t) \/ WaitForExit(t)
      PROVE  Same
    BY <1>2 DEF Stop, StopNoop, StopBegin, Kill, KillNoop, KillBegin, WaitForExit, Exists,
                pmVars, osVars, monVars
<1>3. ASSUME NEW t \in Callers, Inside(t) \/ TakeResult(t)
      PROVE  Same
    BY <1>2, <1>3 DEF Inside, TakeResult, StopSignal, StopArm, WaitDone, WaitTimeout, KillSignal,
                      Exists, pmVars, osVars, monVars
<1>4. ASSUME NEW image \in Images \cup {NoMedia}, SetMedia(image)
      PROVE  Same
    BY <1>4 DEF SetMedia, Exists, pmVars, osVars, monVars
<1>5. ASSUME NEW g \in Gen, Monitor(g) \/ QuitAccepted(g)
      PROVE  Same \/ MonitorReap(g) \/ MonitorClear(g)
    BY <1>5 DEF Monitor, MonitorBegin, MonitorClose, QuitAccepted, Exists, pmVars, osVars, monVars
<1> HIDE DEF Same
<1>6. QED
    BY <1>1, <1>2, <1>3, <1>4, <1>5 DEF ProcessNext, Call, Same

\* running goes down and p.cmd changes only when no QEMU exists.
THEOREM ForgetsNobody == ProcessSpec => ForgetsOnlyTheDead
<1> DEFINE Forgets == (running /\ ~running') \/ cmd' # cmd
<1>1. ASSUME ProcessInv, ProcessNext, Forgets PROVE \A g \in Gen : ~Exists(g)
  <2>1. ASSUME ~running PROVE \A g \in Gen : ~Exists(g)
    BY <1>1, <2>1, NotRunning
  <2>2. ASSUME NEW g \in Gen, MonitorClear(g) PROVE \A h \in Gen : ~Exists(h)
    BY <1>1, <2>2, PastIsReaped DEF MonitorClear, ProcessInv, GenerationOK, Watching, Exists
  <2>3. QED
    BY <1>1, <2>1, <2>2, WhatChanges
       DEF StartFails, StartForks, MonitorReap, ProcessExit, pmVars
<1>2. ProcessInv /\ [ProcessNext]_processVars
        => [Forgets => \A g \in Gen : ~Exists(g)]_processVars
    BY <1>1
<1>3. QED
    BY <1>2, ProcessInvariant, PTL DEF ProcessSpec, ForgetsOnlyTheDead

\* The abstract VM is the process that exists, if there is one.
LEMMA TheLiveVm ==
    ASSUME AtMostOneQemu
    PROVE  /\ (\A g \in Gen : ~Exists(g)) => LiveVm = 0
           /\ \A g \in Gen : Exists(g) => LiveVm = g
    BY DEF LiveVm, AtMostOneQemu

\* The same of the next state.
LEMMA TheNextVm ==
    ASSUME AtMostOneQemu'
    PROVE  /\ (\A g \in Gen : ~Exists(g)') => LiveVm' = 0
           /\ \A g \in Gen : Exists(g)' => LiveVm' = g
    BY DEF LiveVm, AtMostOneQemu

\* The invariant allows one QEMU, in the state after a step as well.
LEMMA OneAtATime == ProcessInv' => AtMostOneQemu'
<1> SUFFICES ASSUME ProcessInv', NEW g \in Gen, Exists(g)'
             PROVE  g = forks'
    BY DEF AtMostOneQemu
<1>1. GenerationOK(g)' /\ mon'[g] \in MonPoints /\ g \in Nat
    BY DEF ProcessInv, ProcessTypeOK
<1>2. CASE mon'[g] \in Watching
    BY <1>1, <1>2 DEF GenerationOK
<1>3. CASE mon'[g] = "none"
    BY <1>1, <1>3 DEF GenerationOK, Exists
<1>4. CASE mon'[g] \in {"close", "done"}
    BY <1>1, <1>4 DEF GenerationOK, Exists
<1>5. QED
    BY <1>1, <1>2, <1>3, <1>4 DEF MonPoints, Watching

\* Each step is one of SingleVm, or none: fork is Boot, the first thing the parent can
\* learn of a death is End, clearing running is Notice.
LEMMA SingleVmStep ==
    ASSUME ProcessInv, ProcessInv', [ProcessNext]_processVars
    PROVE  [Abstract!Next]_(Abstract!vmVars)
<1> USE DEF Abstract!Next, Abstract!vmVars
<1>1. AtMostOneQemu /\ AtMostOneQemu'
  <2>1. AtMostOneQemu
      BY PastIsReaped DEF AtMostOneQemu
  <2>2. AtMostOneQemu'
      BY OneAtATime
  <2>3. QED
      BY <2>1, <2>2
<1>2. CASE UNCHANGED <<running, forks>> /\ \A g \in Gen : Exists(g)' <=> Exists(g)
  BY <1>1, <1>2, TheLiveVm, TheNextVm
<1>3. ASSUME NEW t \in Callers, NEW target \in Targets, StartForks(t, target)
      PROVE  Abstract!Next
  <2>1. LiveVm = 0
      BY <1>1, <1>3, NotRunning, TheLiveVm DEF StartForks
  <2>2. PICK n \in Gen : n = forks + 1
      BY <1>3 DEF StartForks, Fork, ProcessInv, ProcessTypeOK
  <2>3. forks' = n /\ Exists(n)' /\ running' = TRUE
      BY <1>3, <2>2 DEF StartForks, Fork, ProcessInv, ProcessTypeOK, Exists
  <2>4. LiveVm' = n
      BY <1>1, <2>3, TheNextVm
  <2>5. QED
      BY <1>3, <2>1, <2>2, <2>3, <2>4 DEF StartForks, Fork, Abstract!Boot
<1>4. ASSUME NEW g \in Gen, MonitorReap(g) PROVE Abstract!Next
  <2>1. monCmd[g] = g /\ Exists(g) /\ ~Exists(g)' /\ UNCHANGED <<running, forks>>
      BY <1>4 DEF MonitorReap, ProcessInv, ProcessTypeOK, GenerationOK, Exists, pmVars
  <2>2. LiveVm = g /\ LiveVm' = 0
      BY <1>1, <1>4, <2>1, TheLiveVm, TheNextVm, PastIsReaped
         DEF MonitorReap, ProcessInv, ProcessTypeOK, Exists
  <2>3. QED
      BY <2>1, <2>2 DEF Abstract!End
<1>5. ASSUME NEW g \in Gen, MonitorClear(g) PROVE Abstract!Next
  <2>1. \A h \in Gen : ~Exists(h) /\ ~Exists(h)'
      BY <1>5, PastIsReaped
         DEF MonitorClear, ProcessInv, GenerationOK, Watching, Exists, osVars
  <2>2. running /\ running' = FALSE /\ forks' = forks
      BY <1>5 DEF MonitorClear, ProcessInv, GenerationOK, Watching
  <2>3. QED
      BY <1>1, <2>1, <2>2, TheLiveVm, TheNextVm DEF Abstract!Notice
<1>6. ASSUME NEW g \in Gen, ProcessExit(g)
      PROVE  UNCHANGED <<running, forks>> /\ \A h \in Gen : Exists(h)' <=> Exists(h)
  BY <1>6 DEF ProcessExit, ProcessInv, ProcessTypeOK, Exists, pmVars
<1>7. CASE ProcessNext
  BY <1>2, <1>3, <1>4, <1>5, <1>6, <1>7, WhatChanges
     DEF StartFails, osVars, Exists
<1>8. CASE UNCHANGED processVars
  BY <1>2, <1>8 DEF processVars, pmVars, osVars, Exists
<1>9. QED
  BY <1>7, <1>8

\* The manager implements SingleVm: one VM at a time (Start, monitor, IsRunning).
THEOREM ProcessImplements == ProcessSpec => ImplementsSingleVm
<1>1. ProcessInit => Abstract!Init
  <2> SUFFICES ASSUME ProcessInit PROVE Abstract!Init
    OBVIOUS
  <2>1. \A g \in Gen : ~Exists(g)
    BY DEF ProcessInit, Exists
  <2>2. LiveVm = 0
    BY <2>1 DEF LiveVm
  <2>3. QED
    BY <2>2 DEF ProcessInit, Abstract!Init
<1>2. ProcessInv /\ ProcessInv' /\ [ProcessNext]_processVars => [Abstract!Next]_(Abstract!vmVars)
    BY SingleVmStep
<1>3. QED
    BY <1>1, <1>2, ProcessInvariant, PTL DEF ProcessSpec, ImplementsSingleVm, Abstract!Spec
=============================================================================
