----------------------------- MODULE QemuProcess -----------------------------
(***************************************************************************)
(* The QEMU process manager (internal/qemu/process.go) and the operating   *)
(* system processes it forks.                                              *)
(*                                                                         *)
(* The n-th successful fork is generation n: the generation stands for the *)
(* *exec.Cmd, for the exit channel made with it and for the OS process.    *)
(* Channel 0 is the one NewProcessManager makes; command 0 is a command    *)
(* without a process (none yet, or one whose cmd.Start failed).            *)
(*                                                                         *)
(* Callers are goroutines (Redfish handlers, the IPMI loop, VM IPMI        *)
(* connections, main).  What a method does in one critical section is one  *)
(* action; Stop, Kill and WaitForExit release the lock between the read of *)
(* p.cmd or p.exitCh and its use, and take several.                        *)
(***************************************************************************)
EXTENDS Naturals

CONSTANTS Callers,   \* goroutines that use the process manager
          MaxGen,    \* bound: how many processes may be forked
          Targets,   \* boot targets Start is given
          Images,    \* media images SetMedia is given
          NoMedia    \* the empty image: nothing to attach

ASSUME BoundAssumption == MaxGen \in Nat

Gen  == 1..MaxGen
Gen0 == 0..MaxGen

VARIABLES running,   \* p.running
          cmd,       \* p.cmd
          exitCh,    \* p.exitCh
          media,     \* p.media
          forks,     \* processes forked so far
          proc,      \* OS state of each generation
          sig,       \* strongest request to end that each live process has pending
          launch,    \* boot target and media on each generation's command line
          mon,       \* where each monitor goroutine is
          monCmd,    \* the command each monitor waits for
          monCh,     \* the channel each monitor will close
          closes,    \* how often each exit channel has been closed
          call       \* each caller's frame in the process manager

pmVars  == <<running, cmd, exitCh, media, forks, launch>>
osVars  == <<proc, sig>>
monVars == <<mon, monCmd, monCh, closes>>
processVars == <<pmVars, osVars, monVars, call>>

ProcState == {"none", "up", "zombie", "reaped"}
Signals   == {"none", "term", "quit", "kill"}
MonPoints == {"none", "begin", "wait", "clear", "close", "done"}
Methods   == {"none", "Start", "Stop", "Kill", "WaitForExit"}
Points    == {"idle", "sigterm", "arm", "wait", "kill", "sigkill", "done"}

\* tgt: Stop's copy of p.cmd; chan: WaitForExit's copy of p.exitCh;
\* victim: Kill's copy of p.cmd.
Frame == [op: Methods, at: Points, tgt: Gen0, chan: Gen0, victim: Gen0,
          res: {"ok", "err"}]

InCall(m, at, tgt, chan, victim, r) ==
    [op |-> m, at |-> at, tgt |-> tgt, chan |-> chan, victim |-> victim, res |-> r]

NoCall == InCall("none", "idle", 0, 0, 0, "ok")

Idle(t)     == call[t].at = "idle"
Returned(t) == call[t].at = "done"

\* The call is over with result r, or returns r at once.
Done(t, r)       == call' = [call EXCEPT ![t].at = "done", ![t].res = r]
DoneNow(t, m, r) == call' = [call EXCEPT ![t] = InCall(m, "done", 0, 0, 0, r)]

\* A caller takes the result of its finished call.
Return(t) == Returned(t) /\ call' = [call EXCEPT ![t] = NoCall]

-----------------------------------------------------------------------------
ProcessInit ==
    /\ running = FALSE
    /\ cmd = 0
    /\ exitCh = 0
    /\ media = NoMedia
    /\ forks = 0
    /\ proc = [g \in Gen |-> "none"]
    /\ sig = [g \in Gen |-> "none"]
    /\ launch = [g \in Gen |-> <<>>]
    /\ mon = [g \in Gen |-> "none"]
    /\ monCmd = [g \in Gen |-> 0]
    /\ monCh = [g \in Gen |-> 0]
    /\ closes = [c \in Gen0 |-> 0]
    /\ call = [t \in Callers |-> NoCall]

-----------------------------------------------------------------------------
(* Start: one critical section, with its three ways out.                   *)

StartNoop(t) ==
    /\ Idle(t)
    /\ running
    /\ DoneNow(t, "Start", "ok")
    /\ UNCHANGED <<pmVars, osVars, monVars>>

\* cmd.Start failed: p.cmd has been replaced by a command without a process.
StartFails(t) ==
    /\ Idle(t)
    /\ ~running
    /\ cmd' = 0
    /\ DoneNow(t, "Start", "err")
    /\ UNCHANGED <<running, exitCh, media, forks, launch, osVars, monVars>>

\* What a fork changes: everything but the exit channel.
Fork(t, target) ==
    LET g == forks + 1 IN
      /\ forks < MaxGen
      /\ forks' = g
      /\ cmd' = g
      /\ running' = TRUE
      /\ launch' = [launch EXCEPT ![g] = <<target, media>>]
      /\ proc' = [proc EXCEPT ![g] = "up"]
      /\ mon' = [mon EXCEPT ![g] = "begin"]
      /\ DoneNow(t, "Start", "ok")
      /\ UNCHANGED <<media, sig, monCmd, monCh, closes>>

\* Variants: running is looked at outside the critical section; the exit
\* channel of the last process is kept.
StartForksUnlocked(t, target) == Idle(t) /\ Fork(t, target) /\ exitCh' = forks + 1
StartForksOldChannel(t, target) == Idle(t) /\ ~running /\ Fork(t, target) /\ UNCHANGED exitCh

StartForks(t, target) ==
    /\ Idle(t)
    /\ ~running
    /\ Fork(t, target)
    /\ exitCh' = forks + 1

Start(t, target) == StartNoop(t) \/ StartFails(t) \/ StartForks(t, target)

SetMedia(image) ==
    /\ media' = image
    /\ UNCHANGED <<running, cmd, exitCh, forks, launch, osVars, monVars, call>>

-----------------------------------------------------------------------------
(* monitor: the goroutine Start leaves behind, one per generation.         *)

\* p.cmd is read without the lock when the goroutine first runs.
MonitorBegin(g) ==
    /\ mon[g] = "begin"
    /\ mon' = [mon EXCEPT ![g] = "wait"]
    /\ monCmd' = [monCmd EXCEPT ![g] = cmd]
    /\ UNCHANGED <<pmVars, osVars, monCh, closes, call>>

\* Variant: the process is not waited for.
MonitorReapEarly(g) ==
    /\ mon[g] = "wait"
    /\ mon' = [mon EXCEPT ![g] = "clear"]
    /\ UNCHANGED <<pmVars, osVars, monCmd, monCh, closes, call>>

\* cmd.Wait returns once the process is dead; it reaps it.
MonitorReap(g) ==
    /\ mon[g] = "wait"
    /\ monCmd[g] \in Gen
    /\ proc[monCmd[g]] \in {"zombie", "reaped"}
    /\ proc' = [proc EXCEPT ![monCmd[g]] = "reaped"]
    /\ mon' = [mon EXCEPT ![g] = "clear"]
    /\ UNCHANGED <<pmVars, sig, monCmd, monCh, closes, call>>

MonitorClear(g) ==
    /\ mon[g] = "clear"
    /\ running' = FALSE
    /\ monCh' = [monCh EXCEPT ![g] = exitCh]
    /\ mon' = [mon EXCEPT ![g] = "close"]
    /\ UNCHANGED <<cmd, exitCh, media, forks, launch, osVars, monCmd, closes, call>>

\* Variant: p.exitCh is read again after the unlock.
MonitorCloseCurrent(g) ==
    /\ mon[g] = "close"
    /\ closes' = [closes EXCEPT ![exitCh] = @ + 1]
    /\ mon' = [mon EXCEPT ![g] = "done"]
    /\ UNCHANGED <<pmVars, osVars, monCmd, monCh, call>>

\* close(ch), after the lock is released.
MonitorClose(g) ==
    /\ mon[g] = "close"
    /\ closes' = [closes EXCEPT ![monCh[g]] = @ + 1]
    /\ mon' = [mon EXCEPT ![g] = "done"]
    /\ UNCHANGED <<pmVars, osVars, monCmd, monCh, call>>

Monitor(g) == MonitorBegin(g) \/ MonitorReap(g) \/ MonitorClear(g) \/ MonitorClose(g)

-----------------------------------------------------------------------------
(* What ends a process.  os.Process refuses to signal one it has reaped.   *)

\* SIGKILL outweighs a quit, a quit a SIGTERM, which QEMU may ignore.
Outweighs(s, pending) ==
    \/ s = "kill"
    \/ s = "quit" /\ pending \in {"none", "term"}
    \/ s = "term" /\ pending = "none"

\* A zombie takes a signal without effect.
Signalled(g, s) ==
    [sig EXCEPT ![g] = IF proc[g] = "up" /\ Outweighs(s, @) THEN s ELSE @]

\* A process ends: guest power-off, crash, quit, SIGTERM, SIGKILL.
ProcessExit(g) ==
    /\ proc[g] = "up"
    /\ proc' = [proc EXCEPT ![g] = "zombie"]
    /\ sig' = [sig EXCEPT ![g] = "none"]
    /\ UNCHANGED <<pmVars, monVars, call>>

\* QEMU accepts a quit command on its QMP socket (QmpClient).
QuitAccepted(g) ==
    /\ proc[g] = "up"
    /\ sig' = Signalled(g, "quit")
    /\ UNCHANGED <<pmVars, proc, monVars, call>>

-----------------------------------------------------------------------------
(* WaitForExit: copy the current channel, then wait for it or the timer.   *)

WaitForExit(t) ==
    /\ Idle(t)
    /\ call' = [call EXCEPT ![t] = InCall("WaitForExit", "wait", 0, exitCh, 0, "ok")]
    /\ UNCHANGED <<pmVars, osVars, monVars>>

WaitDone(t) ==
    /\ call[t].at = "wait"
    /\ closes[call[t].chan] > 0
    /\ Done(t, "ok")
    /\ UNCHANGED <<pmVars, osVars, monVars>>

\* Variant: Stop gives up after its timeout.
WaitTimeoutGivesUp(t) ==
    /\ call[t].at = "wait"
    /\ Done(t, "err")
    /\ UNCHANGED <<pmVars, osVars, monVars>>

\* The timer may fire at any time; inside Stop the caller goes on to Kill.
WaitTimeout(t) ==
    /\ call[t].at = "wait"
    /\ \/ /\ call[t].op = "Stop"
          /\ call' = [call EXCEPT ![t].at = "kill"]
       \/ /\ call[t].op = "WaitForExit"
          /\ Done(t, "err")
    /\ UNCHANGED <<pmVars, osVars, monVars>>

-----------------------------------------------------------------------------
(* Kill, called directly or by Stop: copy p.cmd, then send SIGKILL.        *)

KillNoop(t) ==
    /\ ~running \/ cmd = 0
    /\ \/ Idle(t) /\ DoneNow(t, "Kill", "ok")
       \/ call[t].at = "kill" /\ Done(t, "ok")
    /\ UNCHANGED <<pmVars, osVars, monVars>>

KillBegin(t) ==
    /\ running
    /\ cmd # 0
    /\ \/ /\ Idle(t)
          /\ call' = [call EXCEPT ![t] = InCall("Kill", "sigkill", 0, 0, cmd, "ok")]
       \/ /\ call[t].at = "kill"
          /\ call' = [call EXCEPT ![t].at = "sigkill", ![t].victim = cmd]
    /\ UNCHANGED <<pmVars, osVars, monVars>>

KillSignal(t) ==
    /\ call[t].at = "sigkill"
    /\ \/ /\ proc[call[t].victim] = "reaped"
          /\ Done(t, "err")
          /\ UNCHANGED sig
       \/ /\ proc[call[t].victim] # "reaped"
          /\ sig' = Signalled(call[t].victim, "kill")
          /\ Done(t, "ok")
    /\ UNCHANGED <<pmVars, proc, monVars>>

Kill(t) == KillNoop(t) \/ KillBegin(t)

-----------------------------------------------------------------------------
(* Stop: copy p.cmd, SIGTERM it, wait for the channel that is current by   *)
(* then, and Kill when the wait times out.                                 *)

StopNoop(t) ==
    /\ Idle(t)
    /\ ~running \/ cmd = 0
    /\ DoneNow(t, "Stop", "ok")
    /\ UNCHANGED <<pmVars, osVars, monVars>>

StopBegin(t) ==
    /\ Idle(t)
    /\ running
    /\ cmd # 0
    /\ call' = [call EXCEPT ![t] = InCall("Stop", "sigterm", cmd, 0, 0, "ok")]
    /\ UNCHANGED <<pmVars, osVars, monVars>>

StopSignal(t) ==
    /\ call[t].at = "sigterm"
    /\ \/ /\ proc[call[t].tgt] = "reaped"
          /\ Done(t, "err")
          /\ UNCHANGED sig
       \/ /\ proc[call[t].tgt] # "reaped"
          /\ sig' = Signalled(call[t].tgt, "term")
          /\ call' = [call EXCEPT ![t].at = "arm"]
    /\ UNCHANGED <<pmVars, proc, monVars>>

StopArm(t) ==
    /\ call[t].at = "arm"
    /\ call' = [call EXCEPT ![t].at = "wait", ![t].chan = exitCh]
    /\ UNCHANGED <<pmVars, osVars, monVars>>

Stop(t) == StopNoop(t) \/ StopBegin(t)

-----------------------------------------------------------------------------
\* A caller inside a method goes on; every branch ends, so it is fair.
Inside(t) ==
    \/ StopSignal(t)
    \/ StopArm(t)
    \/ WaitDone(t)
    \/ WaitTimeout(t)
    \/ (call[t].at = "kill" /\ Kill(t))
    \/ KillSignal(t)

Call(t) ==
    \/ \E target \in Targets : Start(t, target)
    \/ Stop(t)
    \/ (Idle(t) /\ Kill(t))
    \/ WaitForExit(t)

TakeResult(t) == Return(t) /\ UNCHANGED <<pmVars, osVars, monVars>>

ProcessNext ==
    \/ \E t \in Callers : Call(t) \/ Inside(t) \/ TakeResult(t)
    \/ \E image \in Images \cup {NoMedia} : SetMedia(image)
    \/ \E g \in Gen : Monitor(g) \/ ProcessExit(g) \/ QuitAccepted(g)

ProcessSpec == ProcessInit /\ [][ProcessNext]_processVars

\* SIGKILL ends a process and the kernel reports it; goroutines run.
ProcessFairness ==
    /\ \A t \in Callers : WF_processVars(Inside(t)) /\ WF_processVars(TakeResult(t))
    /\ \A g \in Gen : /\ WF_processVars(Monitor(g))
                      /\ WF_processVars(sig[g] = "kill" /\ ProcessExit(g))

ProcessFairSpec == ProcessSpec /\ ProcessFairness

-----------------------------------------------------------------------------
(***************************************************************************)
(* Properties                                                              *)
(***************************************************************************)

\* The types of the process manager's fields, of the OS processes and of
\* the callers' frames; a caller about to signal holds a command that has a
\* process (the cmd.Process == nil returns of Stop and Kill are never taken
\* with running set).
ProcessTypeOK ==
    /\ running \in BOOLEAN
    /\ cmd \in Gen0
    /\ exitCh \in Gen0
    /\ media \in Images \cup {NoMedia}
    /\ forks \in Gen0
    /\ proc \in [Gen -> ProcState]
    /\ sig \in [Gen -> Signals]
    /\ launch \in [Gen -> {<<>>} \cup (Targets \X (Images \cup {NoMedia}))]
    /\ mon \in [Gen -> MonPoints]
    /\ monCmd \in [Gen -> Gen0]
    /\ monCh \in [Gen -> Gen0]
    /\ closes \in [Gen0 -> Nat]
    /\ call \in [Callers -> Frame]
    /\ \A t \in Callers : /\ call[t].at = "sigterm" => call[t].tgt \in Gen
                          /\ call[t].at = "sigkill" => call[t].victim \in Gen

\* A process the kernel still knows, as opposed to one reaped or not forked.
Exists(g) == proc[g] \in {"up", "zombie"}

\* At most one QEMU exists at a time, whatever the callers interleave: two
\* would share the disk images and the QMP socket.  Start relies on running
\* being cleared only after cmd.Wait has reaped the process.
AtMostOneQemu == \A g, h \in Gen : Exists(g) /\ Exists(h) => g = h

\* A QEMU that exists is the one the manager believes it manages: running is
\* set, and p.cmd and p.exitCh are its own.  Otherwise Stop and Kill are
\* no-ops while a VM runs, and the BMC reports Off.
NoOrphan == \A g \in Gen : Exists(g) => running /\ cmd = g /\ exitCh = g

\* No exit channel is closed twice (a Go panic that takes the BMC down), and
\* one is closed only once its process is gone.
ExitChClosedOnce ==
    \A c \in Gen0 : /\ closes[c] <= 1
                    /\ closes[c] > 0 => c \in Gen /\ proc[c] = "reaped"

\* A WaitForExit that returns nil waited for a VM that is gone for good, and
\* by then the manager no longer counts it as running.
WaitSound ==
    \A t \in Callers :
        (Returned(t) /\ call[t].op = "WaitForExit" /\ call[t].res = "ok")
            => LET c == call[t].chan IN
                 /\ c \in Gen
                 /\ proc[c] = "reaped"
                 /\ ~(running /\ cmd = c)

\* Process g is dead or about to be.
Settled(g) == proc[g] # "up" \/ sig[g] = "kill"

\* However Stop returns, and whoever restarts the VM meanwhile, the process
\* it was called on is dead or has SIGKILL pending.
StopSettles ==
    \A t \in Callers :
        (Returned(t) /\ call[t].op = "Stop" /\ call[t].tgt \in Gen)
            => Settled(call[t].tgt)

\* The manager never forgets a process it has not reaped: running goes down
\* and p.cmd changes only when no QEMU exists.
ForgetsOnlyTheDead ==
    [][(running /\ ~running') \/ cmd' # cmd => \A g \in Gen : ~Exists(g)]_processVars

\* Every call returns: no wait in Stop, Kill or WaitForExit is unbounded.
CallsReturn == \A t \in Callers : ~Idle(t) ~> Idle(t)

\* Stop ends the process it signalled even when QEMU ignores SIGTERM.
StopEndsProcess ==
    \A t \in Callers, g \in Gen :
        (call[t].op = "Stop" /\ call[t].tgt = g) ~> ~Exists(g)

\* A dead process is always noticed: its exit channel gets closed.
ExitIsAnnounced == \A g \in Gen : proc[g] = "zombie" ~> closes[g] = 1

-----------------------------------------------------------------------------
(***************************************************************************)
(* The inductive invariant: a generation, its monitor and its channel move *)
(* through their lives together, and only the last one can be alive.       *)
(***************************************************************************)

\* The monitors before the critical section that clears running.
Watching == {"begin", "wait", "clear"}

\* The life of generation g.
GenerationOK(g) ==
    /\ mon[g] = "none" <=> g > forks
    /\ proc[g] = "none" <=> g > forks
    /\ mon[g] \in {"begin", "wait"} => Exists(g)
    /\ mon[g] \in {"clear", "close", "done"} => proc[g] = "reaped"
    /\ mon[g] \in Watching => running /\ cmd = g /\ forks = g
    /\ mon[g] = "wait" => monCmd[g] = g
    /\ mon[g] = "close" => monCh[g] = g
    /\ closes[g] = IF mon[g] = "done" THEN 1 ELSE 0

\* What the manager's fields say about the last generation.
FieldsOK ==
    /\ exitCh = forks
    /\ closes[0] = 0
    /\ running => forks \in Gen /\ cmd = forks /\ mon[forks] \in Watching

\* What a caller inside a method knows.
CallOK(t) ==
    LET f == call[t] IN
    /\ f.tgt <= forks /\ f.chan <= forks /\ f.victim <= forks
    /\ f.at \in {"sigterm", "arm", "kill"} => f.op = "Stop" /\ f.tgt \in Gen
    /\ f.op = "Stop" /\ f.at = "wait" => f.tgt \in Gen /\ f.tgt <= f.chan
    /\ f.at = "sigkill" => f.op \in {"Stop", "Kill"} /\ f.victim \in Gen
    /\ f.op = "Stop" /\ f.at = "sigkill" => f.tgt \in Gen /\ f.tgt <= f.victim
    /\ f.op = "Stop" /\ f.at = "done" /\ f.tgt \in Gen => Settled(f.tgt)
    /\ f.op = "WaitForExit" /\ f.at = "done" /\ f.res = "ok"
         => f.chan \in Gen /\ mon[f.chan] = "done"

\* Inductive; every safety property above follows from it.
ProcessInv ==
    /\ ProcessTypeOK
    /\ FieldsOK
    /\ \A g \in Gen : GenerationOK(g)
    /\ \A t \in Callers : CallOK(t)

-----------------------------------------------------------------------------
(* What the manager promises, as an abstract specification.                *)

LiveVm == IF \E g \in Gen : Exists(g) THEN CHOOSE g \in Gen : Exists(g) ELSE 0

Abstract == INSTANCE SingleVm WITH vm <- LiveVm, seen <- running, last <- forks

\* The manager implements one VM at a time, never reported off while it
\* exists, and replaced only once its end has been noticed.
ImplementsSingleVm == Abstract!Spec
=============================================================================
