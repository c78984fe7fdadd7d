--------------------------- MODULE SystemSettings ---------------------------
(***************************************************************************)
(* What a reset of the system or of the BMC puts into force: BIOS          *)
(* attributes that wait for a reboot and firmware that an update task has  *)
(* staged (internal/redfish: handler_bios.go, handler_actions.go,          *)
(* handler_update.go, handler_managers.go; internal/firmware).             *)
(*                                                                         *)
(* Every request and every update task is a goroutine; Server.mu is held   *)
(* for one read or one assignment at a time, never across a request.       *)
(***************************************************************************)
EXTENDS Naturals, FiniteSets

CONSTANTS Configurers,   \* connections that PATCH, update and follow updates
          Resetters,     \* connections that reset the system and the BMC
          Attrs,         \* BIOS attributes
          ResetRequired, \* those that the registry says need a reboot
          TargetSets,    \* the Targets that updates name
          MaxTasks,      \* bound on update tasks
          MaxWrites      \* bound on PATCHes of BIOS attributes and updates together

VARIABLES live,      \* biosAttrs: attribute -> its value, named by the writes it has seen
          pending,   \* biosPendingAttrs: the same, for the attributes that wait
          patches,   \* PATCHes so far
          version,   \* firmwareVersions: component -> what is active, named by the
                     \* packages staged for it
          staged,    \* stagedFirmware: component -> what is staged, 0 for none
          task,      \* tasks: id -> task, its goroutine included
          admin      \* each connection's request and how far it is

settingsVars ==
    <<live, pending, patches, version, staged, task, admin>>

Admins == Configurers \cup Resetters
Components == {"BIOS", "BMC"}
Ids == 1..MaxTasks

ASSUME SettingsAssumption ==
    /\ ResetRequired \subseteq Attrs
    /\ TargetSets \subseteq SUBSET Components
    /\ MaxTasks \in Nat
    /\ MaxWrites \in Nat

\* pc: the task's goroutine; pkg: the component of the package it installs;
\* ver: the number under which that package was staged.
NoTask == [state |-> "none", pc |-> "none", targets |-> {}, pkg |-> "none", ver |-> 0]

\* set and queue: the attributes a PATCH has still to set and to queue.
\* due and dueVersion (the values and a version that a reset finds to put into
\* force) and found (what a client that follows its update has seen) are for the
\* properties.
NoRequest == [op |-> "none", pc |-> "idle", set |-> {}, queue |-> {}, task |-> 0,
              due |-> [a \in Attrs |-> 0], dueVersion |-> 0, found |-> FALSE]

SettingsInit ==
    /\ live = [a \in Attrs |-> 0]
    /\ pending = [a \in {} |-> 0]
    /\ patches = 0
    /\ version = [c \in Components |-> 0]
    /\ staged = [c \in Components |-> 0]
    /\ task = [k \in Ids |-> NoTask]
    /\ admin = [c \in Admins |-> NoRequest]

AdminAt(c, p) == admin[c].pc = p
AdminGoto(c, p) == admin' = [admin EXCEPT ![c].pc = p]
TaskAt(k, p) == task[k].pc = p

biosVars == <<live, pending, patches>>
firmwareVars == <<version, staged, task>>

Tasks == {k \in Ids : task[k].state # "none"}

\* What an attribute is, or will be after the next reset.
Wanted(a) == IF a \in DOMAIN pending THEN pending[a] ELSE live[a]

\* The versions of a component that Completed tasks have announced.
Announced(comp) ==
    {0} \cup {task[k].ver : k \in {j \in Ids : task[j].state = "Completed"
                                             /\ task[j].pkg = comp}}

Request(c, r) == AdminAt(c, "idle") /\ admin' = [admin EXCEPT ![c] = r]

AnswerAdmin(c) ==
    /\ AdminAt(c, "ok") \/ AdminAt(c, "nothing")
    /\ admin' = [admin EXCEPT ![c] = NoRequest]
    /\ UNCHANGED <<biosVars, firmwareVars>>

-----------------------------------------------------------------------------
(* PATCH of the BIOS settings                                              *)

\* A malformed or empty request is refused and changes nothing.
PatchBios(c) ==
    /\ patches + Cardinality(Tasks) < MaxWrites
    /\ patches' = patches + 1
    /\ \E as \in (SUBSET Attrs) \ {{}} :
           Request(c, [NoRequest EXCEPT !.op = "bios", !.pc = "set",
                                        !.set = as \ ResetRequired,
                                        !.queue = as \cap ResetRequired])
    /\ UNCHANGED <<live, pending, firmwareVars>>

\* Attributes that need no reboot are set one at a time, in any order.
SetBiosAttribute(c) ==
    /\ AdminAt(c, "set")
    /\ \E a \in admin[c].set :
           /\ live' = [live EXCEPT ![a] = @ + 1]
           /\ admin' = [admin EXCEPT ![c].set = @ \ {a}]
    /\ UNCHANGED <<pending, patches, firmwareVars>>

\* The others are merged into the pending ones at once.
MergePending(c) ==
    /\ AdminAt(c, "set") /\ admin[c].set = {} /\ admin[c].queue # {}
    /\ pending' = [a \in DOMAIN pending \cup admin[c].queue |->
                       IF a \in admin[c].queue THEN Wanted(a) + 1 ELSE pending[a]]
    /\ AdminGoto(c, "ok")
    /\ UNCHANGED <<live, patches, firmwareVars>>

NothingToMerge(c) ==
    /\ AdminAt(c, "set") /\ admin[c].set = {} /\ admin[c].queue = {}
    /\ AdminGoto(c, "ok")
    /\ UNCHANGED <<biosVars, firmwareVars>>

-----------------------------------------------------------------------------
(* ComputerSystem.Reset and Manager.Reset                                  *)

Reset(c) ==
    /\ \E v \in Announced("BIOS") :
           Request(c, [NoRequest EXCEPT !.op = "reset", !.pc = "calling", !.dueVersion = v,
                                        !.due = [a \in Attrs |-> Wanted(a)]])
    /\ UNCHANGED <<biosVars, firmwareVars>>

\* Machine.Reset returns after any time.  What follows is for a reset of one of
\* powerOnResetTypes that succeeded; after any other, and after an error,
\* nothing is put into force.
ResetReturns(c) ==
    /\ AdminAt(c, "calling")
    /\ \/ AdminGoto(c, "apply")
       \/ admin' = [admin EXCEPT ![c] = [NoRequest EXCEPT !.pc = "nothing"]]
    /\ UNCHANGED <<biosVars, firmwareVars>>

\* Variant: only what was pending when the reset was requested is taken over,
\* and everything that is pending dropped.
ApplyPendingOld(c) ==
    /\ AdminAt(c, "apply")
    /\ live' = [a \in Attrs |-> IF a \in DOMAIN pending THEN admin[c].due[a] ELSE live[a]]
    /\ pending' = [a \in {} |-> 0]
    /\ AdminGoto(c, "activate")
    /\ UNCHANGED <<patches, firmwareVars>>

ApplyPending(c) ==
    /\ AdminAt(c, "apply")
    /\ live' = [a \in Attrs |-> Wanted(a)]
    /\ pending' = [a \in {} |-> 0]
    /\ AdminGoto(c, "activate")
    /\ UNCHANGED <<patches, firmwareVars>>

\* activateStagedFirmware
Activated(comp) ==
    IF staged[comp] = 0
    THEN UNCHANGED <<version, staged>>
    ELSE /\ version' = [version EXCEPT ![comp] = staged[comp]]
         /\ staged' = [staged EXCEPT ![comp] = 0]

ActivateBios(c) ==
    /\ AdminAt(c, "activate") /\ admin[c].op = "reset"
    /\ Activated("BIOS")
    /\ AdminGoto(c, "ok")
    /\ UNCHANGED <<biosVars, task>>

\* GracefulRestart, the only type there is for the BMC; lastResetTime, which is
\* only shown, is left out.
ManagerReset(c) ==
    /\ \E v \in Announced("BMC") :
           Request(c, [NoRequest EXCEPT !.op = "bmc_reset", !.pc = "activate",
                                        !.dueVersion = v])
    /\ UNCHANGED <<biosVars, firmwareVars>>

ActivateBmc(c) ==
    /\ AdminAt(c, "activate") /\ admin[c].op = "bmc_reset"
    /\ Activated("BMC")
    /\ AdminGoto(c, "ok")
    /\ UNCHANGED <<biosVars, task>>

-----------------------------------------------------------------------------
(* SimpleUpdate and its tasks                                              *)

TaskGoto(k, s, p) == task' = [task EXCEPT ![k].state = s, ![k].pc = p]

CreateTask(k, ts) ==
    /\ Tasks = 1..(k - 1)
    /\ task' = [task EXCEPT ![k] = [NoTask EXCEPT !.state = "New", !.pc = "start",
                                                  !.targets = ts]]

\* An update of targets the service knows; then go runFirmwareUpdate.
SimpleUpdate(c) ==
    /\ patches + Cardinality(Tasks) < MaxWrites
    /\ \E k \in Ids, ts \in TargetSets : CreateTask(k, ts)
    /\ Request(c, [NoRequest EXCEPT !.op = "update", !.pc = "ok"])
    /\ UNCHANGED <<biosVars, version, staged>>

TaskStarts(k) ==
    /\ TaskAt(k, "start")
    /\ TaskGoto(k, "Running", "fetch")
    /\ UNCHANGED <<biosVars, version, staged, admin>>

\* Empty targets mean any component: the package decides.
Applies(k, comp) == task[k].targets = {} \/ comp \in task[k].targets

\* Variant: the task is Completed as soon as the flash is.
FetchedCompletes(k) ==
    /\ TaskAt(k, "fetch")
    /\ \E comp \in Components :
           /\ Applies(k, comp)
           /\ task' = [task EXCEPT ![k].pc = "stage", ![k].pkg = comp, ![k].targets = {},
                                   ![k].state = "Completed"]
    /\ UNCHANGED <<biosVars, version, staged, admin>>

\* Downloaded, valid and, at the end of the simulated flash, installed.
Fetched(k) ==
    /\ TaskAt(k, "fetch")
    /\ \E comp \in Components :
           /\ Applies(k, comp)
           /\ task' = [task EXCEPT ![k].pc = "stage", ![k].pkg = comp, ![k].targets = {}]
    /\ UNCHANGED <<biosVars, version, staged, admin>>

\* The download fails or times out, is no package, or is not for the targets.
TaskFails(k) ==
    /\ TaskAt(k, "fetch")
    /\ TaskGoto(k, "Exception", "ended")
    /\ UNCHANGED <<biosVars, version, staged, admin>>

\* The next package staged for a component.
Staging(comp) == (IF staged[comp] = 0 THEN version[comp] ELSE staged[comp]) + 1

\* Variant: what is staged already is kept.
StageFirmwareOnce(k) ==
    /\ TaskAt(k, "stage")
    /\ staged' = [staged EXCEPT ![task[k].pkg] = IF @ = 0 THEN Staging(task[k].pkg) ELSE @]
    /\ task' = [task EXCEPT ![k].pc = "complete", ![k].ver = Staging(task[k].pkg)]
    /\ UNCHANGED <<biosVars, version, admin>>

StageFirmware(k) ==
    /\ TaskAt(k, "stage")
    /\ staged' = [staged EXCEPT ![task[k].pkg] = Staging(task[k].pkg)]
    /\ task' = [task EXCEPT ![k].pc = "complete", ![k].ver = Staging(task[k].pkg)]
    /\ UNCHANGED <<biosVars, version, admin>>

TaskCompletes(k) ==
    /\ TaskAt(k, "complete")
    /\ TaskGoto(k, "Completed", "ended")
    /\ UNCHANGED <<biosVars, version, staged, admin>>

-----------------------------------------------------------------------------
(* A client (metal-operator) that waits for its task, then looks the new   *)
(* version up: three reads, each of one moment.                            *)

FollowUpdate(c) ==
    /\ \E k \in Ids :
           /\ k \in Tasks
           /\ Request(c, [NoRequest EXCEPT !.op = "follow", !.pc = "poll", !.task = k])
    /\ UNCHANGED <<biosVars, firmwareVars>>

\* GET of the task, until it is over.
PollTask(c) ==
    /\ AdminAt(c, "poll")
    /\ \/ task[admin[c].task].state = "Completed" /\ AdminGoto(c, "staged")
       \/ task[admin[c].task].state = "Exception" /\ AdminGoto(c, "nothing")
    /\ UNCHANGED <<biosVars, firmwareVars>>

\* Is v the version the client's task installed, or a later one?
Newer(c, v) == LET t == task[admin[c].task] IN t.ver # 0 /\ v >= t.ver

\* GET of the Staged entry of the inventory, a 404 when nothing is staged.
GetStaged(c) ==
    /\ AdminAt(c, "staged")
    /\ admin' = [admin EXCEPT ![c].pc = "installed",
                              ![c].found = Newer(c, staged[task[admin[c].task].pkg])]
    /\ UNCHANGED <<biosVars, firmwareVars>>

\* GET of the Installed entry.
GetInstalled(c) ==
    /\ AdminAt(c, "installed")
    /\ admin' = [admin EXCEPT ![c].pc = "ok",
                              ![c].found = @ \/ Newer(c, version[task[admin[c].task].pkg])]
    /\ UNCHANGED <<biosVars, firmwareVars>>

-----------------------------------------------------------------------------
AdminRequest(c) ==
    \/ c \in Configurers /\ (PatchBios(c) \/ SimpleUpdate(c) \/ FollowUpdate(c))
    \/ c \in Resetters /\ (Reset(c) \/ ManagerReset(c))

AdminStep(c) ==
    \/ SetBiosAttribute(c) \/ MergePending(c) \/ NothingToMerge(c)
    \/ ResetReturns(c) \/ ApplyPending(c) \/ ActivateBios(c)
    \/ ActivateBmc(c) \/ PollTask(c) \/ GetStaged(c) \/ GetInstalled(c) \/ AnswerAdmin(c)

\* The download has a timeout and the flash a fixed time.
TaskStep(k) ==
    TaskStarts(k) \/ Fetched(k) \/ TaskFails(k) \/ StageFirmware(k) \/ TaskCompletes(k)

SettingsNext ==
    \/ \E c \in Admins : AdminRequest(c) \/ AdminStep(c)
    \/ \E k \in Ids : TaskStep(k)

SettingsSpec == SettingsInit /\ [][SettingsNext]_settingsVars

-----------------------------------------------------------------------------
(***************************************************************************)
(* Properties                                                              *)
(***************************************************************************)

Task == [state: {"none", "New", "Running", "Completed", "Exception"},
         pc: {"none", "start", "fetch", "stage", "complete", "ended"},
         targets: SUBSET Components, pkg: Components \cup {"none"}, ver: Nat]

Places == {"idle", "set", "calling", "apply", "activate", "poll", "staged",
           "installed", "ok", "nothing"}

AdminRequests ==
    [op: {"none", "bios", "reset", "bmc_reset", "update", "follow"}, pc: Places,
     set: SUBSET (Attrs \ ResetRequired), queue: SUBSET ResetRequired, task: 0..MaxTasks,
     due: [Attrs -> Nat], dueVersion: Nat, found: BOOLEAN]

\* The types; only attributes that need a reboot are ever pending.
SettingsTypeOK ==
    /\ live \in [Attrs -> Nat]
    /\ DOMAIN pending \subseteq ResetRequired
    /\ \A a \in DOMAIN pending : pending[a] \in Nat
    /\ patches \in Nat
    /\ version \in [Components -> Nat]
    /\ staged \in [Components -> Nat]
    /\ task \in [Ids -> Task]
    /\ admin \in [Admins -> AdminRequests]

\* A reset that answers ok has put into force every BIOS attribute PATCHed
\* before it was requested, or a later value of it, whatever PATCHes and resets
\* ran at the same time (handleResetAction, handlePatchBiosSettings).
ResetAppliesSettings ==
    \A c \in Admins :
        AdminAt(c, "ok") /\ admin[c].op = "reset" =>
            \A a \in Attrs : live[a] >= admin[c].due[a]

\* The component a reset activates the firmware of.
Activates == [reset |-> "BIOS", bmc_reset |-> "BMC"]

\* A reset that answers ok has activated every package that a Completed task had
\* announced when it was requested, or a later one: neither another task nor
\* another reset makes such an update go missing.
ResetActivatesUpdates ==
    \A c \in Admins :
        AdminAt(c, "ok") /\ admin[c].op \in DOMAIN Activates =>
            version[Activates[admin[c].op]] >= admin[c].dueVersion

\* A client that has seen its task Completed finds the version among the
\* staged or else among the installed ones, or a later one there, although a
\* reset may move it from the one to the other between the client's reads.
FollowerFindsUpdate ==
    \A c \in Admins : AdminAt(c, "ok") /\ admin[c].op = "follow" => admin[c].found

-----------------------------------------------------------------------------
(***************************************************************************)
(* The inductive invariant: nothing that is announced or asked for is      *)
(* anywhere but in what waits or in what is in force, the former being     *)
(* newer, and a request knows which of the two.                            *)
(***************************************************************************)

\* The newest version of a component, staged or active.
Latest(comp) == IF staged[comp] = 0 THEN version[comp] ELSE staged[comp]

\* What waits is newer than what is in force.
WaitingIsNewer ==
    /\ \A a \in DOMAIN pending : pending[a] > live[a]
    /\ \A comp \in Components : staged[comp] = 0 \/ staged[comp] > version[comp]

TaskOK(k) ==
    /\ task[k].pc \in {"fetch", "stage", "complete"} => task[k].state = "Running"
    /\ task[k].pc \in {"stage", "complete"} => task[k].pkg \in Components
    /\ task[k].state = "Completed" => TaskAt(k, "ended")
    /\ TaskAt(k, "complete") \/ task[k].state = "Completed" =>
           /\ task[k].pkg \in Components
           /\ task[k].ver > 0 /\ task[k].ver <= Latest(task[k].pkg)

\* Which requests come to which places.
RequestPlace(r) ==
    /\ r.pc = "set" => r.op = "bios"
    /\ r.pc \in {"calling", "apply"} => r.op = "reset"
    /\ r.pc = "activate" => r.op \in {"reset", "bmc_reset"}
    /\ r.pc \in {"poll", "staged", "installed"} => r.op = "follow"

ResetOK(r) ==
    /\ r.op = "reset" /\ r.pc \in {"calling", "apply"} => \A a \in Attrs : Wanted(a) >= r.due[a]
    /\ r.op = "reset" /\ r.pc \in {"activate", "ok"} => \A a \in Attrs : live[a] >= r.due[a]
    /\ r.op \in DOMAIN Activates =>
           /\ r.pc \in {"calling", "apply", "activate"} => Latest(Activates[r.op]) >= r.dueVersion
           /\ r.pc = "ok" => version[Activates[r.op]] >= r.dueVersion

FollowOK(r) ==
    r.op = "follow" =>
        /\ r.pc \in {"poll", "staged", "installed"} => r.task \in Tasks
        /\ r.pc \in {"staged", "installed"} => task[r.task].state = "Completed"
        /\ r.pc = "installed" => r.found \/ version[task[r.task].pkg] >= task[r.task].ver
        /\ r.pc = "ok" => r.found

SettingsInv ==
    /\ SettingsTypeOK
    /\ WaitingIsNewer
    /\ \A k \in Ids : TaskOK(k)
    /\ \A c \in Admins : RequestPlace(admin[c]) /\ ResetOK(admin[c]) /\ FollowOK(admin[c])
=============================================================================
