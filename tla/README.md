# A TLA+ model of qemu-bmc

`qemu-bmc` is a virtual BMC: it starts one QEMU process, watches it, and lets
it be powered, queried and configured over Redfish (HTTPS), IPMI over LAN
(RMCP+, UDP) and QEMU's own VM IPMI protocol (TCP). These modules model the
whole of process mode that keeps state: the process manager, the machine and
the main program, the user table, the Redfish services, the VNC proxy and both
IPMI servers. TLC checks them on small instances; TLAPS proves four refinements
and every safety property that holds in the runs, for every value of the
constants. File and line references are to the repository.

## 1. The system

| Part | Source | State | Operations | Talks to |
|---|---|---|---|---|
| Process manager | `internal/qemu/process.go` | `running`, `cmd`, `exitCh`, `media`, one monitor goroutine per process | Start, Stop, Kill, WaitForExit, IsRunning, SetMedia | the operating system |
| QMP client | `internal/qmp/client.go` | one connection, `connected`, one mutex | Connect, QueryStatus, SystemPowerdown, SystemReset, Quit, Stop, Cont, Blockdev*, Close | QEMU's monitor socket |
| Machine | `internal/machine/machine.go` | boot override | Reset, GetPowerState, GetQMPStatus, Set/GetBootOverride, InsertMedia, EjectMedia | both of the above |
| Main | `cmd/qemu-bmc/main.go` | its own control flow | power on at start, start the servers, shut down on a signal | Machine |
| BMC state | `internal/bmc/state.go` | 15 user slots, channel access, LAN parameters, one RWMutex | IPMI user commands, Redfish accounts, Authenticate | IPMI and Redfish handlers |
| IPMI over LAN | `internal/ipmi/{session,rmcp,rmcp_plus,server}.go` | session map, handshake and keys per session | Open Session, RAKP 1 and 3, commands, Close Session | BMC state, Machine |
| IPMI handlers | `internal/ipmi/handler_*.go` | none of their own | chassis control, boot options, users, channels, LAN | BMC state, Machine |
| VM IPMI | `internal/ipmi/vm_*.go` | capabilities shared by all connections | framing, control and IPMI messages | handlers |
| Redfish systems and BIOS | `internal/redfish/{server,handler_actions,handler_systems,handler_bios,handler_bootoptions}.go` | boot order, LED, BIOS attributes (live and pending), staged firmware, one RWMutex | Reset action, PATCH with ETag, BIOS settings | Machine |
| Redfish media | `internal/redfish/handler_managers.go` | current image | InsertMedia, EjectMedia | Machine |
| Redfish updates | `internal/redfish/handler_update.go`, `internal/firmware` | tasks, staged versions | SimpleUpdate, background task | HTTP server of the image |
| Redfish events | `internal/redfish/handler_events.go`, `internal/events` | subscriptions, event counter | subscribe, SubmitTestEvent, background delivery with retries | receivers |
| Redfish accounts | `internal/redfish/{handler_accounts,middleware}.go` | none of its own | account CRUD, Basic authentication | BMC state |
| noVNC | `internal/novnc/handler.go` | none across viewers | proxy WebSocket to VNC | QEMU's VNC server |
| Config, TLS, static resources | `internal/config`, `cmd/qemu-bmc/tls.go`, the other handlers | none that changes | | |

Every Redfish request is its own goroutine, the IPMI loop is one, each VM IPMI
connection is one, and `main` is one. They all call the one `Machine`, which
holds no lock across a request: its mutex covers only the boot override. What
keeps the requests apart is the process manager's RWMutex (short critical
sections) and the QMP client's mutex (held for a whole exchange, with no
timeout on the socket).

What is hard about it:

* **Process life.** A process goes through fork, exit, zombie, reaped, noticed
  by its monitor goroutine, announced on its exit channel. Stop, Kill and
  WaitForExit copy a field under the lock and use it after the unlock, while
  another caller may restart the VM.
* **QMP.** The connection goes stale when QEMU exits and nobody is told; a
  QEMU that does not answer keeps the mutex taken.
* **Power requests** are sequences of five to ten such calls, with timeouts,
  fallbacks, and other callers in between.
* **Shutdown** of the BMC happens while its servers go on serving.
* **The user table** is changed by Redfish in one critical section per
  operation, and by IPMI in two, with the table's lock released in between.
* **Resets and what they put into force.** Pending BIOS attributes and staged
  firmware are applied by the handler after the machine's `Reset` has returned,
  while PATCHes, update tasks and other resets run.
* **Conditional PATCH.** The ETag is made of three looks at the system, compared,
  and acted on later, with no lock in between.
* **Media.** Four records say what is in the drive (Redfish's, the process
  manager's, the file, QEMU's), set one after the other while the VM may start.
* **Deliveries** are goroutines with retries that outlive their request and the
  subscription they are for.
* **The VNC proxy** has a handler and two copiers that end one another.
* **RMCP+** is a handshake over datagrams that are lost, repeated and late; for
  one message the server looks the user table up twice, while Redfish changes it.
* **VM IPMI** is a byte stream with escapes, checksums and messages cut off.

What makes each part correct is what the runs of section 3 check; PROJECT.json
lists every hazard at its line.

## 2. Modules

```
SingleVm            what the process manager promises
   ^ refinement
QemuProcess  <---- QemuProcessProofs (TLAPS)
   ^ EXTENDS
QmpClient
   ^ EXTENDS
Machine  <-------- MachineProofs (TLAPS; EXTENDS QemuProcessProofs too)
   ^ ^------------ MCMachine (constants)
   ^ EXTENDS
BmcMain  <-------- BmcMainProofs (TLAPS; EXTENDS MachineProofs too)
   | ^------------ MCBmcMain (constants)
   | refinement
   v
MachineService      what the machine promises to the Redfish handlers; EXTENDS SingleVm
   ^ EXTENDS
SystemPatch, VirtualMedia
   ^ EXTENDS
RedfishSystem  <--- RedfishSystemProofs (TLAPS)
   ^--------------- MCRedfishSystem (constants)

SystemSettings  <-- MCSystemSettings (constants)
   ^--------------- SystemSettingsProofs (TLAPS)

EventService, VncProxy
   ^ EXTENDS
HttpServices  <---- HttpServicesProofs (TLAPS)

IpmiCommands
   ^ EXTENDS
VmWire, RmcpSession
   ^ EXTENDS
IpmiServers  <----- IpmiServersProofs (TLAPS)
   ^--------------- MCIpmiServers (constants)

Accounts            what the user table promises
   ^ refinement
BmcUsers  <-------- BmcUsersProofs (TLAPS)
```

**QemuProcess** is `process.go` with the operating system under it. The n-th
successful fork is *generation* n, which names the `*exec.Cmd`, the exit
channel made with it and the process. `running`, `cmd`, `exitCh`, `media` are
the struct's fields; `proc`, `sig` are the kernel's view (up, zombie, reaped;
strongest pending request to end); `mon`, `monCmd`, `monCh`, `closes` are the
monitor goroutines and the channels; `call[t]` is caller t's stack frame, with
the copies that Stop (`tgt`), WaitForExit (`chan`) and Kill (`victim`) hold
between an unlock and the use. One action is one critical section or one
system call. Start is three actions, one for each way out (already running,
fork fails, fork succeeds). A timer may fire at any time, since no bound on
QEMU relates to it. SIGTERM may be ignored (QEMU, hung) and is only recorded.
`os.Process.Signal` fails exactly on a process already reaped. Go's memory
model is not at issue: the only unlocked read, of `p.cmd` in `monitor`, is
modelled as a read at any time after the fork, and `GenerationOK` proves it
still finds its own command.

**SingleVm** is the abstract promise: `Boot` only when there is no VM and the
last one's end has been noticed; `End`; `Notice`.

**QmpClient** adds the connection, `connected`, the run state each QEMU
reports, the QEMUs that have stopped answering, and `qmp[t]`, the exchange t is
in. The mutex is held exactly while a caller is at `"reply"` or `"greet"`. A
connection names the generation it goes to; it works only while that process
is up. Dialling may fail at any time (the socket does not exist yet).
Abstracted: QMP error replies, malformed JSON, asynchronous events (skipped by
the code), a failing capability negotiation other than by the end of QEMU.

**Machine** is process mode of `machine.go`. `job[t].pc` names the statement
t's request is at; every statement that calls out is two actions, the call and
the taking of its result, with the callee's own actions in between. `override`
is the boot override without its Mode, which nothing reads on the way to
QEMU. `job[t].since` and `job[t].saw` record, for the properties only, the
last process forked when the request came in and the QEMU that answered a
status query. `forceOff` is shared by ForceOff and PowerCycle, the On leg by
On, PowerCycle and GracefulRestart, as in the code. ForceOn is On; the run
states other than running, paused and shutdown behave like running.

**BmcMain** is `main` in process mode: `phase` is where main is, the other
callers are handlers of the servers and may send requests only after the
power-on. `Exit` waits for the QMP mutex because of the deferred `Close`. Once
main has returned only the operating system takes steps. POWER_ON_AT_START is
a nondeterministic choice.

**BmcUsers** is the user table of `bmc/state.go` with the two services that
write it. `users` is the slots; of `UserAccess` it keeps the privilege limit
and the enabled flag (nothing reads the messaging flags). A Redfish request is
admitted by `basicAuthMiddleware` against the table (`Admit`) and carries out
its operation later, in one action, as `CreateAccount`, `UpdateAccount` and
`DeleteAccount` hold the lock throughout; `answer` is the outcome of the last
one. What the client of a create or an update is shown, a second read of the
slot, is left out, and so are requests refused for a malformed field. An IPMI
client (the LAN loop or a VM connection) runs one command at a time: Set User
Name and Set Password write at once, enable, disable and Set User Access hold
what they read in `ipmi[t]` until `SetUserAccess` writes it.

**Accounts** is the abstract promise: a map from names to accounts, each with
its identifier, changed by one step per operation; a creation is refused only
for a name in use or when every identifier is taken. IPMI's access and password
writes change one account; taking its name off removes it. The refinement
mapping finds the slot of each name in use. It needs IPMI to give no names
(`IpmiNames \subseteq {Unset}`): Set User Name checks nothing, and may give two
slots one name or the null user a name.

**MachineService** is what the Redfish handlers rely on: one VM at a time, and
a boot override that only `SetBootOverride` sets and only a boot uses up,
wholly. `BmcMain` refines it (`ImplementsService`), so that the handlers can be
modelled over it instead of over every step of the machine.

**SystemSettings** is what a reset puts into force. `live` and `pending` are the
BIOS attributes in force and waiting, a value named by the number of writes it
has seen; `version` and `staged` the firmware; `task[k]` an update task with its
goroutine; `admin[c]` a connection's request. `Server.mu` covers one read or one
assignment at a time, and so does an action. `Machine.Reset` takes any time and
may fail; what a handler does after it (`ApplyPending`, `ActivateBios`) comes
later, one critical section each. A package is abstracted to the component it is
for. `FollowUpdate`, `PollTask`, `GetStaged`, `GetInstalled` are a client that
waits for its task and then looks for the new version. `due`, `dueVersion` and
`found` are for the properties.

**SystemPatch** is GET and PATCH of the ComputerSystem over MachineService. A
request looks at the power state, the override and the boot order in three
steps, compares the ETag (the tuple of the three), merges and sets. Its answer is
a GET of its own. The VM may start, end, pause and use its override up between
any two steps. `changes`, `read`, `base`, `began` and `wrote` are for the
properties.

**VirtualMedia** is InsertMedia and EjectMedia, from the handler through the
machine to the drive, over MachineService: `currentMedia` (what Redfish shows),
`media` (what a cold start attaches), `path` and `content` (the downloaded
files) and `drive` (what the running VM holds). A download may fail or stop half
way, QMP may refuse or have no connection; the handler shows the image as
inserted all the same. `tainted` remembers, for the properties, that a request
failed in part or met another one.

**RedfishSystem** puts the two over one VM.

**EventService** is the subscriptions, SubmitTestEvent and the deliveries. A
request holds what it has copied (`todo`) while others subscribe and
unsubscribe; `delivery[k]` is the goroutine that posts one event to one
subscriber, `Attempts` times at most. A post may fail although the receiver has
had the event. `due` is for the properties.

**VncProxy** is ServeWebSocket: a handler and two copying goroutines per viewer,
the channel on which they say that they end, and two connections whose other
ends may leave or fall silent at any time.

**HttpServices** is the union of these two.

**IpmiCommands** is the commands on LAN parameters, channel access and boot
flags, as functions from a request's bytes to the answer's, and what they
change. Commands about users are in BmcUsers; chassis control and status are
requests to Machine.

**VmWire** is a QEMU's TCP connection to the VM IPMI server at the level of
bytes: escaping, frames, checksums, control commands and requests, connections
cut in the middle of a message, and an answer that is written after it was made.
Here the bytes are the point. `sent` and `handled` are for the properties.

**RmcpSession** is IPMI over LAN: `net` is every datagram ever sent, taken by
its receiver any number of times or never. The one loop handles one at a time;
between its two looks at the user table (`AnswerRakp1`, `Lookup` and
`AnswerRakp3`) the table may change. Keys and codes are the tuples of what they
are computed from, padding and integrity padding are the code's arithmetic, and
the outbound sequence number wraps.

**IpmiServers** is the union of these two.

In the unions (`RedfishSystem`, `HttpServices`, `IpmiServers`) `inUse` says
which part a behaviour's clients use. The parts share no variable but those of
the VM, so that nothing one does can enable, disable or change a step of the
other; a run then explores each part by itself, and not all pairs of states.

**MCMachine**, **MCBmcMain**, **MCRedfishSystem**, **MCSystemSettings** and
**MCIpmiServers** only define constants.

Operators whose comment begins with `Variant:` are deliberately broken forms
of the definition that follows them. No specification uses them; they record
for each property a slip in the code that it would catch.

## 3. Runs

Every run uses TLC with the constants of its cfg.

### 3.1 Passing runs

| Run | Instance | Shows |
|---|---|---|
| `QemuProcess` | 2 callers, 2 forks; 24 thousand states, liveness | `NoOrphan`, `ExitChClosedOnce`, `WaitSound`, `StopSettles`, `StopEndsProcess`, the refinement of `SingleVm` |
| `MachinePower` | 2 callers, 2 VMs, On/ForceOff/PowerCycle/GracefulRestart; 1.2 million states | `QmpReachesManaged`: the QMP connection works only to the managed QEMU; `OffIsOff`: ok to a power-off request means the old VM is dead or under SIGKILL; `ImplementsProcess`: the machine uses the process manager only as its specification allows |
| `MachineQuery` | 2 callers, 2 VMs, queries, resets, a QEMU that may hang, guests that power off under `-no-shutdown`; 3.5 million states | `OffReportIsTrue`: Off is answered only of a VM that is dead or under SIGKILL; `QmpExchangesAreAtomic` |
| `MachineLive` | 2 callers, 1 VM; 88 thousand states, liveness | `RequestsAnswered`, `ForceOffEndsVm` when QEMU answers |
| `BmcShutdown` | main and a handler, 1 VM; 146 thousand states, liveness | `ServersStartConnected`, `OnceNeedsABoot`, `ShutdownEnds`, the refinement of `MachineService` |
| `BmcUsers` | 3 slots (2 of them for accounts), 3 names, 2 Redfish requests, 1 IPMI client; 29 thousand states | `NamesDistinct`, the refinement of `Accounts` |
| `SystemSettings` | 1 client that configures and updates, 2 that reset, 3 writes, 2 tasks; 2 million states | `ResetAppliesSettings`, `ResetActivatesUpdates`, `FollowerFindsUpdate`: a reset loses no setting and no announced firmware, whatever runs at the same time, and a client finds what its task installed |
| `RedfishSystem` | 2 clients that PATCH with ETags, or 2 that insert and eject, over a VM; 3 million states | `FreshTagsAccepted`, `PatchDoesAsAsked`, `RefusedChangesNothing`; `MediaAgree`, `ColdStartFindsImage` |
| `HttpServices` | 2 clients, 3 subscriptions, 2 events, 2 attempts; or 2 viewers; 133 thousand states, liveness | `IdsNeverReused`, `NoSubscriberForgotten`, `GivenUpAfterAttempts`, `DeliveryEnds`; `ProxyEnds` |
| `IpmiServers` | a connection with 2 messages out of 8, garbage and cuts; or a console with 2 session openings, 2 commands and 2 changes of the user table; 322 thousand states, liveness | `HandledAsSent`, `AnswersInOrder`, `SettingsReadBack`; `KeysAgree`, `LoginDecided`, `ResponsesTaken`, `LoginEnds` |

Every module that keeps state states a type invariant. `MachineTypeOK`, which
contains `ProcessTypeOK`, is an invariant of a run; all are theorems (section
4). The inductive invariants of the proofs hold in the runs when added to their
cfg, and so do
`AtMostOneQemu`, `ForgetsOnlyTheDead`, `CallsReturn` and `ExitIsAnnounced` in
`QemuProcess` and `NoDuplicateSubscription` and `PayloadsDistinct` in
`HttpServices`, which the listed properties and the theorems imply or subsume.

### 3.2 Where the code and what is said of it part

Two runs find a disagreement between the code and what the repository says of
it (PROJECT.json `findings` quotes the lines):

| Run | The repository says | TLC finds |
|---|---|---|
| `MachinePowerCycle` | PowerCycle restarts QEMU | ok with no new QEMU: Stop does not wait after Kill, On then finds `running` |
| `PatchRace` | any change invalidates the ETag of a conditional PATCH | both of two PATCHes with one ETag succeed: it is compared before the body is read, and nothing is locked in between |

Others have no run of their own; to see one, put the property in place of those
of the cfg:

| Property, cfg | The repository says | TLC finds |
|---|---|---|
| `INVARIANT PollStopsOnlyShutdownGuest`, `MachineQuery` | the process stopped by a power query is the one whose guest shut down | it may be one started since |
| `INVARIANT GracefulShutdownFallsBack`, `BmcShutdown` | README: GracefulShutdown falls back to a hard kill | it only logs (as the requirements say) |
| `PROPERTY QemuKilledBeforeExit`, `BmcShutdown` | SIGKILL before the BMC exits | the BMC exits over a live QEMU |
| `PROPERTY SetUserAccessPreservesEnabled`, `BmcUsers` | Set User Access preserves the enabled state | it enables an account disabled since it read it |
| `PROPERTY ForceOffEndsVm`, `MachineLive` with `Hangs = {1}` | a QEMU that does not answer is killed after a timeout | ForceOff waits for ever for the answer to quit |

The README says that failed deliveries are "retried 3 times" (README.md:225);
`Deliver` makes three attempts in all (internal/events/dispatcher.go:103), and
so does `Attempts` here.

### Bounds, and why they are enough

* `Callers`: two. Every property speaks of one caller against the rest, and
  the races of this code are between one caller that holds a stale copy and one
  that restarts the VM. `ProcessInv` was also checked with three callers, and
  is proved for any number.
* `MaxGen`: two successive QEMUs, which is what a restart between two steps
  takes; a third adds no new kind of staleness, and the proofs need no bound.
  When the bound is reached Start can still be refused or find a running VM.
* `Images = {}`: what is in the drive is decided on in VirtualMedia.
* `Targets`, `Overrides`: one or two overrides besides the default.
* `Hangs`: the first QEMU may hang in `MachineQuery`, none may in the liveness
  runs (3.2 shows why).
* `MaxUsers` is 3: the first free slot and the last one differ, the table fills
  up with one name to spare, and slots are freed and reused. `IpmiIDs` bounds
  the user IDs IPMI addresses to an invalid one and the default account's slot,
  which Redfish may delete and give to others; `IpmiNames` is the empty name.
* SystemSettings: `MaxWrites` is 3, PATCHes and updates together, `MaxTasks` 2:
  two PATCHes or two tasks on either side of a reset, and a write that another
  reset finds while the first is between its critical sections. `Attrs` has one
  attribute that needs a reboot and one that does not.
* RedfishSystem: `MaxChanges` is 3: what a request has read changes, and changes
  back. `MaxFiles` is 4: every insertion under way, the file attached and the
  one it replaces. `MCBodies` has a PATCH of the order, of the override in full
  and in part, a bad one and an empty one.
* HttpServices: `MaxSubs` is 3, one subscription to owe an event to, one deleted
  and one made since; `MaxEvents` is 2, `Attempts` 2: a first attempt, and a last
  one that is a retry. The proofs need no bound.
* IpmiServers: `MaxSent` is 2, a message after another or after garbage; the
  requests' bytes, and those of their answers, include every byte that is
  escaped. `SequenceMod` is 3 in place of 2^32, and `MaxAnswers` 3, so that the
  sequence number wraps. `MaxChanges` is 2: a slot can be freed and given to
  another name between two look-ups. `MaxOpens` and `MaxCommands` are 2, an old
  session and a new one, a command and its successor.
* Symmetry is used in `MachinePower`, `MachineQuery`, `SystemSettings`,
  `RedfishSystem` and `PatchRace`, which check no liveness.
* `CHECK_DEADLOCK FALSE` in `BmcShutdown`, where the BMC exits and nothing is
  left to do, and in `HttpServices` and `IpmiServers`, where bounded clients have
  done all they may. Everywhere else deadlock is checked.

### Fairness, and why the code justifies it

Weak fairness of a caller inside a method and of a monitor goroutine: Go runs
runnable goroutines, and timers fire. Strong fairness of the steps that take
the QMP mutex: `sync.Mutex` hands over to a waiter that starves. Weak fairness
of the end of a process with SIGKILL pending (the kernel), and of one whose
live monitor accepted `quit` (QEMU). None of callers making requests, of the
end of a guest, of an answer to SIGTERM, of a hung QEMU, or of the signal that
shuts the BMC down.

`EventFairness`: a request's goroutine and a delivery's go on; a post ends with
an answer or by the HTTP client's timeout of ten seconds. `VncFairness`: a
handler goes on; a copier's read or write ends when its connection is closed, and
a write to an end that is there succeeds, for no write has a deadline. Nothing
says that an end ever sends. `RmcpFairness`: the loop goes on, and a console's
message arrives if it is there to be taken again and again, since a console
repeats it (strong fairness of the server taking some copy of it); none of the
user table changing or staying, of commands, or of logins.

## 4. Proofs

`QemuProcessProofs` proves, from `BoundAssumption` (`MaxGen \in Nat`) alone and
for every set of callers, targets and images:

| Theorem | Statement |
|---|---|
| `ProcessInvariant` | `ProcessSpec => []ProcessInv` |
| `ProcessTypes` | `ProcessSpec => []ProcessTypeOK` |
| `OneQemu`, `NoOrphans`, `ClosedOnce`, `WaitsAreSound`, `StopsSettle` | the safety invariants of the run `QemuProcess` |
| `ForgetsNobody` | `ProcessSpec => ForgetsOnlyTheDead` |
| `ProcessImplements` | `ProcessSpec => ImplementsSingleVm` |

None of the safety properties is inductive. `ProcessInv` adds what makes them
so: `GenerationOK(g)` ties a generation's process, monitor and channel to one
life (the process exists until its monitor has reaped it; while the monitor
has not cleared `running`, g is the last fork and the managed one; the channel
is closed once, at the end), `FieldsOK` says that the fields describe the last
generation, and `CallOK(t)` what a caller's stale copies may be: a Stop's
target is never newer than the channel it waits on or the victim it kills.
From that, when Stop's wait succeeds the channel's generation is reaped and
the target with it; when Kill finds nothing running, nothing exists.

The proof splits into the part about fields, processes and monitors
(`FieldsInv`, one lemma per action) and the part about callers (one lemma per
action for the caller that moves, `OtherCaller` for the rest, which needs only
that `Settled` and a finished monitor are permanent). The refinement uses
`TheLiveVm`, which evaluates the refinement mapping from the invariant.

`MachineProofs` proves of `MachineSpec`, from that assumption and three more on
the constants (`BootAssumption`: guests boot into a run state;
`RequestAssumption`: only requests of the API are made; `OverrideAssumption`:
an override names a target Start accepts):

| Theorem | Statement |
|---|---|
| `MachineTyped` | `MachineSpec => []MachineTypeOK` |
| `MachineImplements` | `MachineSpec => ImplementsProcess`: every theorem about the process manager holds of the machine |
| `MutexHolds` | `MachineSpec => QmpExchangesAreAtomic` |
| `QmpIsManaged` | `MachineSpec => []QmpReachesManaged` |
| `OnceOnlyAfterBoot` | `MachineSpec => OnceNeedsABoot` |
| `OffMeansOff`, `OffReportsAreTrue` | `MachineSpec => []OffIsOff`, `MachineSpec => []OffReportIsTrue` |

The machine's calls are the process manager's actions, so a machine step is a
step of `ProcessNext` as soon as the target handed to Start is a legal one:
that needs the types, and the types need `Waits(t)`, that a caller is in a
frame exactly at the statements that wait for one. `MachineTypes` is therefore
`ProcessInv` and the types together. On top of it:

* `QmpMutex`, at most one caller in an exchange, is inductive by itself.
* `BootKnown(t)` follows On: between its check and its Start either the VM is
  still not running or another caller has started one since the request came
  in, because `running` only goes up with a fork; Start's success adds the
  rest. Hence a VM has been started by the time the override is dropped.
* `OffKnown(t)` says at each statement of a power-off request or a power query
  what has been achieved: the VMs of before are settled (`OldGone`), or the
  caller waits for, or stops, a VM at least as new (`PromisesOff`), or is about
  to kill one (`Killing`). Newer suffices because the process manager forks
  only when everything before is reaped (`PastIsReaped`), and what is settled
  stays settled. `PromiseKept` turns the result of the call into `OldGone`
  with what `CallOK` says of a finished Stop or WaitForExit.

`BmcUsersProofs` proves, from `UsersAssumption` (two slots at least; the empty
name, the mark of a field left out and the default user are what they say):

| Theorem | Statement |
|---|---|
| `UsersTyped` | `UsersSpec => []UsersTypeOK` |
| `NamesAreDistinct` | `IpmiNames \subseteq {Unset}` implies `UsersSpec => []NamesDistinct` |
| `TableImplements` | `IpmiNames \subseteq {Unset}` implies `UsersSpec => ImplementsAccounts` |

`UserInv` adds to the types and to distinct names that slot 1 has no name,
without which a full table would not mean that all identifiers are taken. The
refinement rests on `TableAfter`, stated for any two tables of slots that
differ in one: rewriting a slot takes its old name out of the map and puts the
new one in. Each operation is then an instance of it.

`SystemSettingsProofs` proves, from `SettingsAssumption` (the attributes that
need a reboot are attributes, targets are sets of components, bounds are
naturals) and for every set of connections and attributes and every bound on
tasks and writes:

| Theorem | Statement |
|---|---|
| `SettingsTyped` | `SettingsSpec => []SettingsTypeOK`; among the types, that only attributes that need a reboot are ever pending |
| `ResetApplies`, `ResetActivates`, `FollowerFinds` | the safety invariants of the run `SystemSettings` |

`SettingsInv` is inductive. Its heart is `WaitingIsNewer`: what waits is newer
than what is in force, so that no reset, however late, puts an older value or
version into force. `ResetOK` says what a request still finds: until it applies,
the values it owes are wanted, afterwards they are in force; `FollowOK` that a
version which is not staged any more is installed. Requests of others are
disturbed by nothing, because every step is one of `Grows`: values and versions
only grow, and a task that is Completed stays as it is (`OtherRequest`).

`HttpServicesProofs` proves, from `EventAssumption` (bounds are naturals, there
is at least one attempt, "Event" is a format) and for every set of clients,
destinations, formats and viewers:

| Theorem | Statement |
|---|---|
| `HttpTyped` | `HttpSpec => [](EventTypeOK /\ VncTypeOK)`; among the types, that the proxy's channel has room when a copier ends |
| `SubscriptionsDiffer` | `HttpSpec => [](NoDuplicateSubscription /\ PayloadsDistinct)` |
| `NeverReused`, `NobodyForgotten`, `AllAttemptsMade` | the safety invariants of the run `HttpServices` |

`EventInv` is inductive: `CallOK(c)` ties what a submission has copied to the
subscriptions that there still are and, for every subscriber it owes the event
to, to a delivery begun or an entry still to come; `DeliveryOK(k)` ties a
delivery to the number of its attempts. That the loop takes an entry of its list
at all (`NextIsListed`) needs that a set of numbers has a least one. `VncInv`
says that each message in the channel is of a copier that has ended.

`BmcMainProofs` proves of `BmcSpec`, from the assumptions of the machine and
`MainAssumption` (main is one of the callers):

| Theorem | Statement |
|---|---|
| `MainTyped` | `BmcSpec => []BmcTypeOK` |
| `MainImplementsService` | `BmcSpec => ImplementsService`: the machine is the MachineService that RedfishSystem is modelled over |
| `ServersFindVm` | `BmcSpec => ServersStartConnected` |
| `OnceUnderMain` | `BmcSpec => OnceNeedsABoot` |

Every step under main is one of the machine's with some handler's request
(`AnyNext`, for which the lemmas of MachineProofs are stated), or `Exit`, which
leaves the requests alone: `MachineKnown`, the machine's invariant, goes on
holding. The refinement joins the one of the process manager, step by step
(`SingleVmStep`), with `OverrideStep`: the override changes only where
`ConsumeBootOnce` drops it, and `BootKnown` says that a VM was started before.
For `ServersStartConnected` the invariant must follow the first boot statement
by statement: `MainInv` says that until main serves every other caller is idle,
and `PoweringOn` what main's own request has achieved, from `forks = 0` to the
greeting on a connection to the first VM. That VM may end at any moment, but
`connected`, once set, is not reset while main is alone.

`RedfishSystemProofs` proves of `RedfishSpec`, from `PatchAssumption` and
`MediaAssumption` (bounds are naturals, URLs and local images differ, neither is
the mark of an empty drive), for every set of clients, bodies, orders and images:

| Theorem | Statement |
|---|---|
| `PatchTyped`, `MediaTyped` | `RedfishSpec => []PatchTypeOK`, `RedfishSpec => []MediaTypeOK` |
| `FreshTags`, `PatchAsked`, `MediaAgrees`, `ColdStart` | the safety invariants of the run `RedfishSystem` |
| `Refused` | `RedfishSpec => RefusedChangesNothing` |

`PatchInv` ties what a request has read to the system by a count of its changes:
`TagOK`, as long as `changes` is what it was at the request's first look, what
it has put together is what there is; `AskedOK`, as long as only the request's
own writes have been counted, the system is the one it began with, or the one it
was asked for. When somebody else has changed something the counts differ and
nothing is claimed, and they never become equal again. `MediaInv` follows a
request that runs alone: at each statement, which of the four records are in
agreement by now (`AloneOK`), wherever the VM starts or ends in between; and
while nothing is tainted every request is alone.

`IpmiServersProofs` proves of `ServersSpec`, from `RmcpAssumption` (names,
passwords and the mark of none differ, slots and bounds are numbers),
`WireAssumption` (requests are made of bytes) and, for the last three,
`StreamAssumption` (below), for every set of consoles, names,
passwords, message lengths, connections, requests and garbage, and every
modulus of the sequence number:

| Theorem | Statement |
|---|---|
| `SessionsTyped` | `ServersSpec => []RmcpTypeOK` |
| `SessionKeys`, `LoginsDecided`, `Responded` | the invariants of the run `IpmiServers` about sessions |
| `SettingsKept` | `ServersSpec => SettingsReadBack` |
| `BytesComeBack` | bytes of any number, escaped, hold no terminator and unescape to themselves; with its checksum a message adds up to 0 |
| `WireTyped` | `ServersSpec => []WireTypeOK` |
| `MessagesHandled`, `AnswersOrdered` | the invariants of the run `IpmiServers` about messages |

The network only grows, so `RmcpInv` says of every datagram there ever was that
it is still true: whatever of a handshake arrives late or again says the same
once more. A session is one login of one console (`SessionOK`), with no key, or
the one the console has (`CodesTell`: codes and keys differ where what they are
made from does). While the table is as it was at the login (`quiet`), what
is computed from a password is computed from the one in force, in the messages
and in the loop between its two look-ups. `NumbersOK` counts the responses.
`SettingsKept` needs of the state only that there are 16 channels; the rest is
arithmetic on the flags (`BitsOf`, `LanReadsBack`, `ChannelReadsBack`,
`BootReadsBack`), for any byte, not only those of the run. `Kept` says which
settings the code keeps whole: reserved bits it drops, and a boot device it does
not know reads back as none.

`StreamAssumption` says what QEMU is: requests have even function numbers (odd
ones are responses'), a frame ends at its first terminator, what is called
garbage holds no message, what a cut leaves has no end, and no connection sends
more messages than a byte can number. TLC evaluates it for the run's messages.

Escaping, checksums and streams are folds over sequences of any length, and the
provers have no induction rule for predicates. They do have sets: a set of
numbers that has 0, and with each number the next, has them all, because what it
lacked would have a least element (`LeastNumber`, `NumbersClimb`), and a set of
sequences grows likewise (`SequencesGrow`). With that, the functions inside
`FlattenSeq` and `FoldLeft` exist and take one step for each element
(`FlattenAppend`, `FoldingAppend`), and so `Unescaped`: what is escaped comes
back, by induction on the bytes. `WireInv` then says of each connection that what
is left to read is the frames of the messages sent and not yet handled, followed
after a cut by a beginning without an end (`Received`), and that what has been
written, with the answer under way, is the answers to those handled
(`Returned`). Reading up to a terminator takes exactly the first of those frames
(`TakesOne`), whatever bytes its data has.

Only model-checked: liveness, as TLAPS does not reason about ENABLED here.

## 5. What is not modelled

* Legacy mode: one QMP command per request to a QEMU somebody else runs.
* The command line (`args.go`), configuration, TLS, the routes and the documents
  served: text, without state. The test servers.
* IPMI: the IPMI 1.5 wrapper, the headers of RMCP, the ASF ping, messages before
  a session and unencrypted ones, cipher suites that are refused, chassis
  identify, and the commands with fixed answers.
* Malformed requests, save where a byte stream or a refusal is the point; what
  reading and listing shows where nothing depends on it; the messaging flags of
  a user.
* Failures of a server to listen.

Real time is abstracted throughout: a timeout may win against any event it races
with.

## 6. Reading a counterexample

A trace of a Machine run shows, per state, one step of one goroutine: `job` for
the statement, `call` for the frame in the process manager, `qmp` for the
exchange, and `proc`/`sig`/`mon` for the processes.

## 7. Plan

What is left, in the order of what it is worth:

1. Chassis control and status over Machine, and legacy mode.
2. The rewriting of the command line, against a reference definition.
