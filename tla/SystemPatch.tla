----------------------------- MODULE SystemPatch -----------------------------
(***************************************************************************)
(* GET and PATCH of the ComputerSystem (internal/redfish,                  *)
(* handler_systems.go): the ETag check of a conditional PATCH, the merge   *)
(* into the boot override, the boot order and the indicator LED, and the   *)
(* answer, which is a GET of its own.                                      *)
(*                                                                         *)
(* Each look at the machine or at a field of the server is a critical      *)
(* section of its own, and so a step: nothing holds a request together.    *)
(***************************************************************************)
EXTENDS MachineService, FiniteSets

CONSTANTS Patchers,    \* connections that GET and PATCH the system
          Bodies,      \* the bodies of their PATCHes
          MaxChanges   \* bound on the changes of the system

VARIABLES paused,      \* the VM's QMP status is not "running"
          bootOrder,   \* s.bootOrder
          led,         \* s.indicatorLED
          changes,     \* how often what an ETag stands for has changed, for the properties
          patch        \* each connection's request, how far it is, and its last ETag

patchVars == <<paused, bootOrder, led, changes, patch>>

ASSUME PatchAssumption == MaxChanges \in Nat

\* An optional property that a body does not have, and an If-Match that is not sent.
Absent == "absent"
NoTag == <<>>

Targets == {"None", "Pxe", "Hdd", "Cd", "BiosSetup"}
Enabled == {"Disabled", "Once", "Continuous"}

HasBoot(b) == \E f \in {"order", "enabled", "target"} : b[f] # Absent

\* power, over and order: what has been read of the system; code and tag: the
\* last answer's status and ETag; match: the If-Match.  For the properties: read,
\* changes when the reading for that ETag began; base and began, the system and
\* changes when the request did; wrote, whether it has set anything since.
NoPatch == [pc |-> "idle", body |-> <<>>, match |-> NoTag, power |-> "Off",
            over |-> NoOverride, order |-> "default", code |-> 0, tag |-> NoTag,
            read |-> 0, base |-> <<>>, began |-> 0, wrote |-> FALSE]

\* What is left of a request that is over.
Over == [pc |-> "idle", body |-> <<>>, match |-> NoTag, power |-> "Off",
         over |-> NoOverride, order |-> "default", base |-> <<>>, began |-> 0, wrote |-> FALSE]

PatchInit ==
    /\ paused = FALSE
    /\ bootOrder = "default"
    /\ led = "Off"
    /\ changes = 0
    /\ patch = [c \in Patchers |-> NoPatch]

PatchAt(c, p) == patch[c].pc = p

\* The record r with the fields of q in place of its own.
With(r, q) == [f \in DOMAIN r |-> IF f \in DOMAIN q THEN q[f] ELSE r[f]]

PatchStep(c, p, q) == patch' = [patch EXCEPT ![c] = With(With(@, q), [pc |-> p])]

PatchGoto(c, p) == patch' = [patch EXCEPT ![c].pc = p]

\* A step that looks, but changes nothing that others see.
Look(c, p) == PatchAt(c, p) /\ UNCHANGED <<serviceVars, paused, bootOrder, led, changes>>

Changed == changes' = changes + 1

\* The bound leaves room for every PATCH that has begun.
Room ==
    changes + Cardinality({c \in Patchers : patch[c].body # <<>> /\ ~patch[c].wrote})
        < MaxChanges

\* What GetQMPStatus and mapQMPStatusToRedfish may make of the VM: Off when it
\* is known to have ended, an error when the query cannot be made.
PowerReports ==
    {"err"} \cup (IF seen THEN {} ELSE {"Off"})
            \cup (IF vm = 0 THEN {} ELSE {IF paused THEN "Off" ELSE "On"})

-----------------------------------------------------------------------------
GetSystem(c) ==
    /\ Look(c, "idle")
    /\ PatchStep(c, "get_status", [code |-> 0])

\* The statement after the ETag check: an empty body is refused.
AfterMatch(b) ==
    IF b.order # Absent THEN "set_order"
    ELSE IF HasBoot(b) THEN "merge"
    ELSE IF b.led # Absent THEN "led" ELSE "bad"

\* A conditional PATCH sends the ETag of the client's last answer.
PatchSystem(c) ==
    /\ Look(c, "idle")
    /\ Room
    /\ \E b \in Bodies, m \in {NoTag, patch[c].tag} :
           PatchStep(c, IF m = NoTag THEN AfterMatch(b) ELSE "match_status",
                     [body |-> b, match |-> m, code |-> 0, began |-> changes,
                      base |-> [over |-> override, order |-> bootOrder]])

Refuse(c, status) == patch' = [patch EXCEPT ![c] = With(With(@, Over), [code |-> status])]

ReadStatus(c, from, to) ==
    /\ Look(c, from)
    /\ \E s \in PowerReports :
           IF s = "err" THEN Refuse(c, 500) ELSE PatchStep(c, to, [power |-> s])

MatchStatus(c) == ReadStatus(c, "match_status", "match_override")

MatchOverride(c) ==
    Look(c, "match_override") /\ PatchStep(c, "match_order", [over |-> override])

\* generateETag: a digest, taken to tell any two systems apart.
ETag(power, over, order) == <<power, over, order>>

MatchOrder(c) ==
    /\ Look(c, "match_order")
    /\ IF patch[c].match = ETag(patch[c].power, patch[c].over, bootOrder)
       THEN PatchGoto(c, AfterMatch(patch[c].body))
       ELSE Refuse(c, 412)

BadRequest(c) == Look(c, "bad") /\ Refuse(c, 400)

AfterBoot(b) == IF b.led # Absent THEN "led" ELSE "get_status"

SetBootOrder(c) ==
    /\ PatchAt(c, "set_order")
    /\ Changed
    /\ bootOrder' = patch[c].body.order
    /\ PatchStep(c, AfterBoot(patch[c].body), [wrote |-> TRUE])
    /\ UNCHANGED <<serviceVars, paused, led>>

Merged(o, b) == [enabled |-> IF b.enabled = Absent THEN o.enabled ELSE b.enabled,
                 target |-> IF b.target = Absent THEN o.target ELSE b.target]

\* Variant: the override read for the ETag check is merged into, or none.
MergeOverrideStale(c) ==
    /\ Look(c, "merge")
    /\ PatchStep(c, "set_override", [over |-> Merged(patch[c].over, patch[c].body)])

MergeOverride(c) ==
    /\ Look(c, "merge")
    /\ PatchStep(c, "set_override", [over |-> Merged(override, patch[c].body)])

Bootable(o) == o.target \in Targets /\ o.enabled \in Enabled

\* Variant: the fields are set and validated one by one.
SetOverrideByField(c) ==
    /\ PatchAt(c, "set_override")
    /\ Changed
    /\ IF Bootable(patch[c].over)
       THEN /\ SetBootOverride(patch[c].over)
            /\ PatchStep(c, AfterBoot(patch[c].body), [wrote |-> TRUE])
       ELSE /\ SetBootOverride([override EXCEPT !.enabled = patch[c].over.enabled])
            /\ Refuse(c, 400)
    /\ UNCHANGED <<paused, bootOrder, led>>

SetOverride(c) ==
    /\ PatchAt(c, "set_override")
    /\ \/ /\ Bootable(patch[c].over)
          /\ Changed
          /\ SetBootOverride(patch[c].over)
          /\ PatchStep(c, AfterBoot(patch[c].body), [wrote |-> TRUE])
       \/ /\ ~Bootable(patch[c].over)
          /\ Refuse(c, 400)
          /\ UNCHANGED <<serviceVars, changes>>
    /\ UNCHANGED <<paused, bootOrder, led>>

SetLed(c) ==
    /\ PatchAt(c, "led")
    /\ led' = patch[c].body.led
    /\ PatchStep(c, "get_status", [wrote |-> TRUE])
    /\ UNCHANGED <<serviceVars, paused, bootOrder, changes>>

-----------------------------------------------------------------------------
(* handleGetSystem, also at the end of a PATCH                             *)

GetStatus(c) ==
    /\ Look(c, "get_status")
    /\ \E s \in PowerReports :
           IF s = "err" THEN Refuse(c, 500)
           ELSE PatchStep(c, "get_override", [power |-> s, read |-> changes])

GetOverride(c) == Look(c, "get_override") /\ PatchStep(c, "get_order", [over |-> override])

\* The LED, which no ETag stands for, is read last, and not modelled.
GetOrder(c) == Look(c, "get_order") /\ PatchStep(c, "respond", [order |-> bootOrder])

\* Variant: a conditional PATCH answers with the ETag it has checked.
RespondOldTag(c) ==
    /\ Look(c, "respond")
    /\ LET t == IF patch[c].match # NoTag THEN patch[c].match
                ELSE ETag(patch[c].power, patch[c].over, patch[c].order)
       IN  patch' = [patch EXCEPT ![c] = With(With(@, Over), [code |-> 200, tag |-> t])]

Respond(c) ==
    /\ Look(c, "respond")
    /\ LET t == ETag(patch[c].power, patch[c].over, patch[c].order)
       IN  patch' = [patch EXCEPT ![c] = With(With(@, Over), [code |-> 200, tag |-> t])]

PatchHandler(c) ==
    \/ GetSystem(c) \/ PatchSystem(c) \/ MatchStatus(c) \/ MatchOverride(c)
    \/ MatchOrder(c) \/ BadRequest(c) \/ SetBootOrder(c) \/ MergeOverride(c)
    \/ SetOverride(c) \/ SetLed(c) \/ GetStatus(c) \/ GetOverride(c) \/ GetOrder(c)
    \/ Respond(c)

\* The VM is switched, stops or goes on, and uses the override up, at any time.
Pauses == vm # 0 /\ paused' = ~paused /\ UNCHANGED serviceVars

PatchEnvironment ==
    /\ Room
    /\ \/ VmChanges /\ paused' = (paused /\ vm' = vm)
       \/ ConsumeBootOnce /\ UNCHANGED paused
       \/ Pauses
    /\ Changed
    /\ UNCHANGED <<bootOrder, led, patch>>

-----------------------------------------------------------------------------
(***************************************************************************)
(* Properties                                                              *)
(***************************************************************************)

\* The override is always one that Start accepts, as Machine assumes, whatever is
\* merged while a boot uses it up; a handler that has not refused a request
\* holds a status that is reported.
PatchTypeOK ==
    /\ Bootable(override)
    /\ \A c \in Patchers : patch[c].power \in {"On", "Off"} /\ patch[c].code \in {0, 200, 400, 412, 500}

\* A PATCH that is refused (400, 412) has set nothing, not even a part of what it
\* asked for, before it found the reason (handlePatchSystem).
RefusedChangesNothing ==
    [][\A c \in Patchers :
          patch'[c].code \in {400, 412} /\ patch[c].pc # "idle" =>
              ~patch[c].wrote /\ UNCHANGED <<override, bootOrder, led>>]_<<serviceVars, patchVars>>

\* A client whose ETag is of a system that nobody has changed since it was read is
\* not refused: the answer to a PATCH carries the ETag of what the PATCH made,
\* and its parts, read one by one, are of the same system (generateETag).
FreshTagsAccepted ==
    \A c \in Patchers : patch[c].code = 412 => changes > patch[c].read

\* What a PATCH b makes of a system.
Patched(sys, b) ==
    IF b.order # Absent THEN [sys EXCEPT !.order = b.order]
    ELSE [sys EXCEPT !.over = Merged(sys.over, b)]

\* A PATCH during which nobody else has changed anything has set what it names,
\* kept the rest, and says so in its answer (handlePatchSystem).
PatchDoesAsAsked ==
    \A c \in Patchers :
        /\ PatchAt(c, "respond") /\ patch[c].body # <<>>
        /\ changes = patch[c].began + (IF HasBoot(patch[c].body) THEN 1 ELSE 0)
        => [over |-> patch[c].over, order |-> patch[c].order]
              = Patched(patch[c].base, patch[c].body)

-----------------------------------------------------------------------------
(* What the comment of generateETag says and the code does not do          *)

\* A conditional PATCH changes only the system that its ETag stands for.
ConditionalPatchAtomic ==
    [][\A c \in Patchers :
          patch[c].match # NoTag /\ patch'[c].wrote /\ ~patch[c].wrote =>
              <<override, bootOrder>> = <<patch[c].match[2], patch[c].match[3]>>]_<<serviceVars, patchVars>>
-----------------------------------------------------------------------------
(***************************************************************************)
(* The inductive invariant.  What a request has read or found is what      *)
(* there still is for as long as changes, the count of everybody's         *)
(* changes, has not moved on.                                              *)
(***************************************************************************)

\* A VM that runs is known to run; the override is one that Start accepts.
ServiceOK ==
    /\ vm # 0 => seen
    /\ override \in [enabled: Enabled, target: Targets]

PowerNow == IF vm = 0 \/ paused THEN "Off" ELSE "On"
SystemNow == [over |-> override, order |-> bootOrder]

Matching == {"match_status", "match_override", "match_order"}
Unwritten == Matching \cup {"bad", "set_order", "merge", "set_override"}
Reading == {"get_override", "get_order", "respond"}
Written == {"led", "get_status"} \cup Reading

\* Which requests come to which places.
PatchPlace(r) ==
    /\ r.pc \in {"idle"} \cup Unwritten \cup Written
    /\ IF r.pc = "idle" THEN r.body = <<>> ELSE r.code = 0
    /\ r.wrote \in BOOLEAN /\ (r.wrote => r.pc \in Written)
    /\ r.pc \in Matching => r.match = r.tag /\ r.tag # NoTag
    /\ r.pc = "set_order" => r.body.order # Absent
    /\ r.pc \in {"merge", "set_override"} => r.body.order = Absent /\ HasBoot(r.body)

\* An ETag, and what is on the way to become one, is of the system that there was
\* when changes was what read says.
TagOK(r) ==
    /\ r.read \in Nat /\ r.read <= changes
    /\ r.code = 412 => r.read < changes
    /\ r.read = changes =>
           /\ r.pc \notin Reading /\ r.tag # NoTag => r.tag = ETag(PowerNow, override, bootOrder)
           /\ r.pc \in Reading \cup {"match_override", "match_order"} => r.power = PowerNow
           /\ r.pc \in {"match_order", "get_order", "respond"} => r.over = override
           /\ r.pc = "respond" => r.order = bootOrder

\* changes, when a PATCH that nobody else gets in the way of has set what it has to.
Due(r) == r.began + (IF HasBoot(r.body) THEN 1 ELSE 0)

AskedOK(r) ==
    /\ r.began \in Nat
    /\ r.pc \in Unwritten =>
           /\ r.began <= changes
           /\ r.began = changes => r.base = SystemNow
           /\ r.pc = "set_override" =>
                 /\ r.over = [enabled |-> r.over.enabled, target |-> r.over.target]
                 /\ r.began = changes => r.over = Merged(override, r.body)
    /\ r.body # <<>> /\ r.pc \in Written =>
           /\ Due(r) <= changes
           /\ Due(r) = changes => SystemNow = Patched(r.base, r.body)
           /\ r.pc \in Reading => Due(r) <= r.read

PatchInv ==
    /\ ServiceOK
    /\ changes \in Nat
    /\ DOMAIN patch = Patchers
    /\ \A c \in Patchers :
           /\ DOMAIN patch[c] = DOMAIN NoPatch
           /\ PatchPlace(patch[c]) /\ TagOK(patch[c]) /\ AskedOK(patch[c])
=============================================================================
