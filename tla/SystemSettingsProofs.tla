------------------------ MODULE SystemSettingsProofs ------------------------
(***************************************************************************)
(* Proofs about what a reset puts into force, for every number of          *)
(* connections, BIOS attributes, update tasks and writes.                  *)
(***************************************************************************)
EXTENDS SystemSettings, TLAPS

USE SettingsAssumption DEF Ids, AdminAt, TaskAt

-----------------------------------------------------------------------------
(* Requests' fields, whatever their types                                  *)

LEMMA PlaceChanges ==
    ASSUME NEW A, NEW B, NEW C, NEW D, NEW E, NEW F, NEW G, NEW H,
           NEW r \in [op: A, pc: B, set: C, queue: D, task: E, due: F, dueVersion: G, found: H],
           NEW p \in B, NEW s, s = [r EXCEPT !.pc = p]
    PROVE  /\ s \in [op: A, pc: B, set: C, queue: D, task: E, due: F, dueVersion: G, found: H]
           /\ s.pc = p
           /\ s.op = r.op /\ s.task = r.task /\ s.due = r.due /\ s.dueVersion = r.dueVersion
           /\ s.found = r.found
    OBVIOUS

LEMMA SetChanges ==
    ASSUME NEW A, NEW B, NEW C, NEW D, NEW E, NEW F, NEW G, NEW H,
           NEW r \in [op: A, pc: B, set: C, queue: D, task: E, due: F, dueVersion: G, found: H],
           NEW v \in C, NEW s, s = [r EXCEPT !.set = v]
    PROVE  /\ s \in [op: A, pc: B, set: C, queue: D, task: E, due: F, dueVersion: G, found: H]
           /\ s.op = r.op /\ s.pc = r.pc
    OBVIOUS

LEMMA FoundChanges ==
    ASSUME NEW A, NEW B, NEW C, NEW D, NEW E, NEW F, NEW G, NEW H,
           NEW r \in [op: A, pc: B, set: C, queue: D, task: E, due: F, dueVersion: G, found: H],
           NEW f \in H, NEW s, s = [r EXCEPT !.found = f]
    PROVE  /\ s \in [op: A, pc: B, set: C, queue: D, task: E, due: F, dueVersion: G, found: H]
           /\ s.found = f
           /\ s.op = r.op /\ s.pc = r.pc /\ s.task = r.task
    OBVIOUS

LEMMA RequestFields ==
    ASSUME NEW A, NEW B, NEW C, NEW D, NEW E, NEW F, NEW G, NEW H,
           NEW r \in [op: A, pc: B, set: C, queue: D, task: E, due: F, dueVersion: G, found: H]
    PROVE  /\ r.op \in A /\ r.pc \in B /\ r.set \in C /\ r.queue \in D /\ r.task \in E
           /\ r.due \in F /\ r.dueVersion \in G /\ r.found \in H
    OBVIOUS

\* A request's own record, and the numbers in it.
LEMMA RequestTyped ==
    ASSUME SettingsTypeOK, NEW c \in Admins
    PROVE  /\ admin[c] \in AdminRequests
           /\ admin[c].set \in SUBSET (Attrs \ ResetRequired)
           /\ admin[c].queue \in SUBSET ResetRequired
           /\ admin[c].task \in 0..MaxTasks
           /\ admin[c].due \in [Attrs -> Nat] /\ admin[c].dueVersion \in Nat
<1>1. admin[c] \in AdminRequests
    BY DEF SettingsTypeOK
<1> QED
    BY <1>1, RequestFields, Zenon DEF AdminRequests

-----------------------------------------------------------------------------
(* What never gets less                                                    *)

\* Values and versions only grow, and a task that is over stays as it is.
Grows ==
    /\ \A a \in Attrs : live'[a] >= live[a] /\ Wanted(a)' >= Wanted(a)
    /\ \A comp \in Components : version'[comp] >= version[comp] /\ Latest(comp)' >= Latest(comp)
    /\ \A k \in Ids :
          /\ task[k].state # "none" => task'[k].state # "none"
          /\ task[k].state = "Completed" =>
                /\ task'[k].state = "Completed"
                /\ task'[k].pkg = task[k].pkg /\ task'[k].ver = task[k].ver

LEMMA Numbers ==
    ASSUME SettingsTypeOK
    PROVE  /\ \A a \in Attrs : live[a] \in Nat /\ Wanted(a) \in Nat
           /\ \A comp \in Components :
                 version[comp] \in Nat /\ staged[comp] \in Nat /\ Latest(comp) \in Nat
           /\ \A k \in Ids : task[k] \in Task /\ task[k].ver \in Nat
    BY DEF SettingsTypeOK, Wanted, Latest, Task

\* What is in force is not newer than what is wanted.
LEMMA InForceIsNotNewer ==
    ASSUME SettingsTypeOK, WaitingIsNewer
    PROVE  /\ \A a \in Attrs : Wanted(a) >= live[a]
           /\ \A comp \in Components : Latest(comp) >= version[comp]
    BY Numbers DEF WaitingIsNewer, Wanted, Latest

\* Other requests keep what they know.
LEMMA OtherRequest ==
    ASSUME SettingsInv, SettingsTypeOK', Grows, NEW c \in Admins, admin'[c] = admin[c]
    PROVE  RequestPlace(admin[c])' /\ ResetOK(admin[c])' /\ FollowOK(admin[c])'
<1> DEFINE r == admin[c]
<1>1. r \in AdminRequests /\ r.due \in [Attrs -> Nat] /\ r.dueVersion \in Nat
    BY RequestTyped DEF SettingsInv
<1>2. RequestPlace(r) /\ ResetOK(r) /\ FollowOK(r)
    BY DEF SettingsInv
<1>3. /\ \A a \in Attrs : live[a] \in Nat /\ Wanted(a) \in Nat
      /\ \A comp \in Components : version[comp] \in Nat /\ Latest(comp) \in Nat
    BY Numbers DEF SettingsInv
<1>4. /\ \A a \in Attrs : live'[a] \in Nat /\ Wanted(a)' \in Nat
      /\ \A comp \in Components : version'[comp] \in Nat /\ Latest(comp)' \in Nat
    BY Numbers, SettingsTypeOK' DEF SettingsTypeOK, Wanted, Latest
<1>5. \A op \in DOMAIN Activates : Activates[op] \in Components
    BY DEF Activates, Components
<1>6. RequestPlace(r)'
    BY <1>2 DEF RequestPlace
<1>7. ResetOK(r)'
    BY <1>1, <1>2, <1>3, <1>4, <1>5 DEF ResetOK, Grows
<1>8. FollowOK(r)'
  <2>1. SUFFICES ASSUME r.op = "follow"
                 PROVE  FollowOK(r)'
      BY DEF FollowOK
  <2>2. r.task \in Tasks => r.task \in Ids /\ r.task \in Tasks'
      BY DEF Tasks, Grows
  <2>3. CASE r.pc \in {"staged", "installed"}
    <3>1. r.task \in Ids /\ task[r.task].state = "Completed"
        BY <1>2, <2>1, <2>2, <2>3 DEF FollowOK
    <3>2. task[r.task].pkg \in Components /\ task[r.task].ver \in Nat
        BY <3>1, Numbers DEF SettingsInv, TaskOK
    <3>3. /\ task'[r.task].state = "Completed"
          /\ task'[r.task].pkg = task[r.task].pkg /\ task'[r.task].ver = task[r.task].ver
        BY <3>1 DEF Grows
    <3>4. r.pc = "installed" => r.found \/ version'[task[r.task].pkg] >= task[r.task].ver
        BY <1>2, <1>3, <1>4, <2>1, <3>2 DEF FollowOK, Grows
    <3> QED
        BY <1>2, <2>1, <2>2, <2>3, <3>3, <3>4 DEF FollowOK
  <2>4. CASE r.pc \notin {"staged", "installed"}
      BY <1>2, <2>1, <2>2, <2>4 DEF FollowOK
  <2> QED
      BY <2>3, <2>4
<1> QED
    BY <1>6, <1>7, <1>8

\* A step of one request.
LEMMA RequestKeeps ==
    ASSUME SettingsInv, NEW c \in Admins,
           \A d \in Admins \ {c} : admin'[d] = admin[d],
           SettingsTypeOK', WaitingIsNewer', \A k \in Ids : TaskOK(k)', Grows,
           RequestPlace(admin[c])' /\ ResetOK(admin[c])' /\ FollowOK(admin[c])'
    PROVE  SettingsInv'
<1>1. \A d \in Admins \ {c} :
          RequestPlace(admin[d])' /\ ResetOK(admin[d])' /\ FollowOK(admin[d])'
    BY OtherRequest
<1> QED
    BY <1>1 DEF SettingsInv

\* One that changes neither settings nor firmware.
LEMMA LookKeeps ==
    ASSUME SettingsInv, NEW c \in Admins, UNCHANGED <<live, pending, firmwareVars>>,
           patches' \in Nat, \A d \in Admins \ {c} : admin'[d] = admin[d],
           admin' \in [Admins -> AdminRequests],
           RequestPlace(admin[c])' /\ ResetOK(admin[c])' /\ FollowOK(admin[c])'
    PROVE  SettingsInv'
<1>1. SettingsTypeOK'
    BY DEF SettingsInv, SettingsTypeOK, firmwareVars
<1>2. WaitingIsNewer' /\ \A k \in Ids : TaskOK(k)'
    BY DEF SettingsInv, WaitingIsNewer, TaskOK, Latest, firmwareVars
<1>3. Grows
  <2>1. /\ \A a \in Attrs : live[a] \in Nat /\ Wanted(a) \in Nat
        /\ \A comp \in Components : version[comp] \in Nat /\ Latest(comp) \in Nat
      BY Numbers DEF SettingsInv
  <2>2. /\ \A a \in Attrs : Wanted(a)' = Wanted(a)
        /\ \A comp \in Components : Latest(comp)' = Latest(comp)
      BY DEF Wanted, Latest, firmwareVars
  <2> QED
      BY <2>1, <2>2 DEF Grows, firmwareVars
<1> QED
    BY <1>1, <1>2, <1>3, RequestKeeps

-----------------------------------------------------------------------------
(* Requests begin                                                          *)

LEMMA FreshRequest == NoRequest \in AdminRequests
BY DEF NoRequest, AdminRequests, Places

LEMMA PatchBiosKeeps ==
    ASSUME SettingsInv, NEW c \in Admins, PatchBios(c)
    PROVE  SettingsInv'
<1>1. PICK as \in SUBSET Attrs :
          admin' = [admin EXCEPT ![c] = [NoRequest EXCEPT !.op = "bios", !.pc = "set",
                                                          !.set = as \ ResetRequired,
                                                          !.queue = as \cap ResetRequired]]
    BY DEF PatchBios, Request
<1> DEFINE r == [NoRequest EXCEPT !.op = "bios", !.pc = "set", !.set = as \ ResetRequired,
                                  !.queue = as \cap ResetRequired]
<1>2. r \in AdminRequests /\ r.op = "bios" /\ r.pc = "set"
  <2>1. r \in AdminRequests
      BY FreshRequest DEF AdminRequests, Places
  <2>2. r.op = "bios" /\ r.pc = "set"
      BY DEF NoRequest
  <2> QED
      BY <2>1, <2>2
<1>3. UNCHANGED <<live, pending, firmwareVars>> /\ patches' \in Nat
    BY DEF PatchBios, SettingsInv, SettingsTypeOK
<1> HIDE DEF r
<1>4. /\ admin'[c] = r /\ admin' \in [Admins -> AdminRequests]
      /\ \A d \in Admins \ {c} : admin'[d] = admin[d]
    BY <1>1, <1>2 DEF SettingsInv, SettingsTypeOK, r
<1>5. RequestPlace(admin[c])' /\ ResetOK(admin[c])' /\ FollowOK(admin[c])'
    BY <1>2, <1>4 DEF RequestPlace, ResetOK, FollowOK, Activates
<1> QED
    BY <1>3, <1>4, <1>5, LookKeeps

\* What a request finds announced is staged or active.
LEMMA AnnouncedIsLatest ==
    ASSUME SettingsInv, NEW comp \in Components, NEW v \in Announced(comp)
    PROVE  v \in Nat /\ v <= Latest(comp)
BY Numbers DEF SettingsInv, Announced, TaskOK

LEMMA ResetKeeps ==
    ASSUME SettingsInv, NEW c \in Admins, Reset(c)
    PROVE  SettingsInv'
<1>1. PICK v \in Announced("BIOS") :
          admin' = [admin EXCEPT ![c] = [NoRequest EXCEPT !.op = "reset", !.pc = "calling",
                                                          !.dueVersion = v,
                                                          !.due = [a \in Attrs |-> Wanted(a)]]]
    BY DEF Reset, Request
<1> DEFINE wanted == [a \in Attrs |-> Wanted(a)]
           r == [NoRequest EXCEPT !.op = "reset", !.pc = "calling", !.dueVersion = v, !.due = wanted]
<1>2. v \in Nat /\ v <= Latest("BIOS") /\ wanted \in [Attrs -> Nat]
    BY AnnouncedIsLatest, Numbers DEF Components, SettingsInv
<1>3. /\ \A a \in Attrs : wanted[a] = Wanted(a) /\ Wanted(a) \in Nat
      /\ Latest("BIOS") \in Nat
    BY Numbers DEF SettingsInv, Components
<1> HIDE DEF wanted
<1>4. /\ r \in AdminRequests /\ r.op = "reset" /\ r.pc = "calling" /\ r.due = wanted
      /\ r.dueVersion = v
  <2>1. r \in AdminRequests
      BY <1>2, FreshRequest DEF AdminRequests, Places
  <2>2. r.op = "reset" /\ r.pc = "calling" /\ r.due = wanted /\ r.dueVersion = v
      BY DEF NoRequest
  <2> QED
      BY <2>1, <2>2
<1>5. UNCHANGED <<live, pending, firmwareVars>> /\ patches' \in Nat
    BY DEF Reset, SettingsInv, SettingsTypeOK, biosVars
<1> HIDE DEF r
<1>6. /\ admin'[c] = r /\ admin' \in [Admins -> AdminRequests]
      /\ \A d \in Admins \ {c} : admin'[d] = admin[d]
    BY <1>1, <1>4 DEF SettingsInv, SettingsTypeOK, r, wanted
<1>7. RequestPlace(admin[c])' /\ FollowOK(admin[c])'
    BY <1>4, <1>6 DEF RequestPlace, FollowOK
<1>8. ResetOK(admin[c])'
  <2>1. Latest("BIOS")' = Latest("BIOS") /\ \A a \in Attrs : Wanted(a)' = Wanted(a)
      BY <1>5 DEF Latest, Wanted, firmwareVars
  <2> QED
      BY <1>2, <1>3, <1>4, <1>6, <2>1 DEF ResetOK, Activates
<1> QED
    BY <1>5, <1>6, <1>7, <1>8, LookKeeps

LEMMA ManagerResetKeeps ==
    ASSUME SettingsInv, NEW c \in Admins, ManagerReset(c)
    PROVE  SettingsInv'
<1>1. PICK v \in Announced("BMC") :
          admin' = [admin EXCEPT ![c] = [NoRequest EXCEPT !.op = "bmc_reset", !.pc = "activate",
                                                          !.dueVersion = v]]
    BY DEF ManagerReset, Request
<1> DEFINE r == [NoRequest EXCEPT !.op = "bmc_reset", !.pc = "activate", !.dueVersion = v]
<1>2. v \in Nat /\ v <= Latest("BMC") /\ Latest("BMC") \in Nat
    BY AnnouncedIsLatest, Numbers DEF Components, SettingsInv
<1>3. r \in AdminRequests /\ r.op = "bmc_reset" /\ r.pc = "activate" /\ r.dueVersion = v
  <2>1. r \in AdminRequests
      BY <1>2, FreshRequest DEF AdminRequests, Places
  <2>2. r.op = "bmc_reset" /\ r.pc = "activate" /\ r.dueVersion = v
      BY DEF NoRequest
  <2> QED
      BY <2>1, <2>2
<1>4. UNCHANGED <<live, pending, firmwareVars>> /\ patches' \in Nat
    BY DEF ManagerReset, SettingsInv, SettingsTypeOK, biosVars
<1> HIDE DEF r
<1>5. /\ admin'[c] = r /\ admin' \in [Admins -> AdminRequests]
      /\ \A d \in Admins \ {c} : admin'[d] = admin[d]
    BY <1>1, <1>3 DEF SettingsInv, SettingsTypeOK, r
<1>6. RequestPlace(admin[c])' /\ FollowOK(admin[c])'
    BY <1>3, <1>5 DEF RequestPlace, FollowOK
<1>7. ResetOK(admin[c])'
  <2>1. Latest("BMC")' = Latest("BMC")
      BY <1>4 DEF Latest, firmwareVars
  <2> QED
      BY <1>2, <1>3, <1>5, <2>1 DEF ResetOK, Activates
<1> QED
    BY <1>4, <1>5, <1>6, <1>7, LookKeeps

LEMMA FollowUpdateKeeps ==
    ASSUME SettingsInv, NEW c \in Admins, FollowUpdate(c)
    PROVE  SettingsInv'
<1>1. PICK k \in Ids :
          /\ k \in Tasks
          /\ admin' = [admin EXCEPT ![c] = [NoRequest EXCEPT !.op = "follow", !.pc = "poll",
                                                             !.task = k]]
    BY DEF FollowUpdate, Request
<1> DEFINE r == [NoRequest EXCEPT !.op = "follow", !.pc = "poll", !.task = k]
<1>2. r \in AdminRequests /\ r.op = "follow" /\ r.pc = "poll" /\ r.task = k
  <2>1. k \in 0..MaxTasks
      OBVIOUS
  <2>2. r \in AdminRequests
      BY <2>1, FreshRequest DEF AdminRequests, Places
  <2>3. r.op = "follow" /\ r.pc = "poll" /\ r.task = k
      BY DEF NoRequest
  <2> QED
      BY <2>2, <2>3
<1>3. UNCHANGED <<live, pending, firmwareVars>> /\ patches' \in Nat
    BY DEF FollowUpdate, SettingsInv, SettingsTypeOK, biosVars
<1> HIDE DEF r
<1>4. /\ admin'[c] = r /\ admin' \in [Admins -> AdminRequests]
      /\ \A d \in Admins \ {c} : admin'[d] = admin[d]
    BY <1>1, <1>2 DEF SettingsInv, SettingsTypeOK, r
<1>5. Tasks' = Tasks
    BY <1>3 DEF Tasks, firmwareVars
<1>6. RequestPlace(admin[c])' /\ ResetOK(admin[c])' /\ FollowOK(admin[c])'
    BY <1>1, <1>2, <1>4, <1>5 DEF RequestPlace, ResetOK, FollowOK, Activates
<1> QED
    BY <1>3, <1>4, <1>6, LookKeeps

-----------------------------------------------------------------------------
(* Requests go on                                                          *)

\* A request comes to its next place.
LEMMA GotoChanges ==
    ASSUME SettingsTypeOK, NEW c \in Admins,
           NEW p \in Places, AdminGoto(c, p)
    PROVE  /\ admin' \in [Admins -> AdminRequests]
           /\ \A d \in Admins \ {c} : admin'[d] = admin[d]
           /\ admin'[c].pc = p
           /\ admin'[c].op = admin[c].op /\ admin'[c].task = admin[c].task
           /\ admin'[c].due = admin[c].due /\ admin'[c].dueVersion = admin[c].dueVersion
           /\ admin'[c].found = admin[c].found
<1>1. /\ admin'[c] = [admin[c] EXCEPT !.pc = p]
      /\ \A d \in Admins \ {c} : admin'[d] = admin[d]
    BY DEF AdminGoto, SettingsTypeOK
<1>2. admin[c] \in AdminRequests
    BY DEF SettingsTypeOK
<1>3. /\ admin'[c] \in AdminRequests /\ admin'[c].pc = p
      /\ admin'[c].op = admin[c].op /\ admin'[c].task = admin[c].task
      /\ admin'[c].due = admin[c].due /\ admin'[c].dueVersion = admin[c].dueVersion
      /\ admin'[c].found = admin[c].found
    BY <1>1, <1>2, PlaceChanges, Zenon DEF AdminRequests
<1>4. admin' \in [Admins -> AdminRequests]
    BY <1>1, <1>3 DEF AdminGoto, SettingsTypeOK
<1> QED
    BY <1>1, <1>3, <1>4

\* An attribute that needs no reboot is not among those that wait.
LEMMA SetBiosAttributeKeeps ==
    ASSUME SettingsInv, NEW c \in Admins, SetBiosAttribute(c)
    PROVE  SettingsInv'
<1>1. PICK a \in admin[c].set : /\ live' = [live EXCEPT ![a] = @ + 1]
                                /\ admin' = [admin EXCEPT ![c].set = @ \ {a}]
    BY DEF SetBiosAttribute
<1>2. /\ UNCHANGED <<pending, patches, firmwareVars>>
      /\ admin[c].pc = "set" /\ admin[c].op = "bios"
    BY DEF SetBiosAttribute, SettingsInv, RequestPlace
<1>3. /\ admin[c] \in AdminRequests /\ a \in Attrs \ ResetRequired
      /\ admin[c].set \ {a} \in SUBSET (Attrs \ ResetRequired)
    BY RequestTyped DEF SettingsInv
<1>4. admin'[c] = [admin[c] EXCEPT !.set = admin[c].set \ {a}]
    BY <1>1 DEF SettingsInv, SettingsTypeOK
<1>5. admin'[c] \in AdminRequests /\ admin'[c].op = "bios" /\ admin'[c].pc = "set"
  <2>1. admin'[c] \in AdminRequests /\ admin'[c].op = admin[c].op /\ admin'[c].pc = admin[c].pc
      BY <1>3, <1>4, SetChanges, Zenon DEF AdminRequests
  <2> QED
      BY <1>2, <2>1
<1>6. /\ admin' \in [Admins -> AdminRequests]
      /\ \A d \in Admins \ {c} : admin'[d] = admin[d]
    BY <1>1, <1>5 DEF SettingsInv, SettingsTypeOK
<1>7. a \notin DOMAIN pending /\ DOMAIN pending \subseteq Attrs
    BY <1>3 DEF SettingsInv, SettingsTypeOK
<1>8. live' \in [Attrs -> Nat] /\ \A b \in Attrs : live'[b] = (IF b = a THEN live[b] + 1 ELSE live[b])
    BY <1>1, <1>3 DEF SettingsInv, SettingsTypeOK
<1>9. SettingsTypeOK'
    BY <1>2, <1>6, <1>8 DEF SettingsInv, SettingsTypeOK, firmwareVars
<1>10. WaitingIsNewer' /\ \A k \in Ids : TaskOK(k)'
  <2>1. \A b \in DOMAIN pending : live'[b] = live[b]
      BY <1>7, <1>8
  <2> QED
      BY <1>2, <2>1 DEF SettingsInv, WaitingIsNewer, TaskOK, Latest, firmwareVars
<1>11. Grows
  <2>1. /\ \A b \in Attrs : live[b] \in Nat /\ Wanted(b) \in Nat
        /\ \A comp \in Components : version[comp] \in Nat /\ Latest(comp) \in Nat
      BY Numbers DEF SettingsInv
  <2>2. \A comp \in Components : Latest(comp)' = Latest(comp)
      BY <1>2 DEF Latest, firmwareVars
  <2>3. \A b \in Attrs : live'[b] >= live[b]
      BY <1>8, <2>1
  <2>4. \A b \in Attrs : Wanted(b)' >= Wanted(b)
      BY <1>2, <1>8, <2>1 DEF Wanted
  <2> QED
      BY <1>2, <2>1, <2>2, <2>3, <2>4 DEF Grows, firmwareVars
<1>12. RequestPlace(admin[c])' /\ ResetOK(admin[c])' /\ FollowOK(admin[c])'
    BY <1>5 DEF RequestPlace, ResetOK, FollowOK, Activates
<1> QED
    BY <1>6, <1>9, <1>10, <1>11, <1>12, RequestKeeps

LEMMA MergePendingKeeps ==
    ASSUME SettingsInv, NEW c \in Admins, MergePending(c)
    PROVE  SettingsInv'
<1> DEFINE q == admin[c].queue
<1>1. /\ pending' = [a \in DOMAIN pending \cup q |->
                         IF a \in q THEN Wanted(a) + 1 ELSE pending[a]]
      /\ AdminGoto(c, "ok")
      /\ UNCHANGED <<live, patches, firmwareVars>>
      /\ admin[c].op = "bios"
    BY DEF MergePending, SettingsInv, RequestPlace
<1>2. /\ admin' \in [Admins -> AdminRequests]
      /\ \A d \in Admins \ {c} : admin'[d] = admin[d]
      /\ admin'[c].pc = "ok" /\ admin'[c].op = "bios"
    BY <1>1, GotoChanges DEF SettingsInv, Places
<1>3. q \subseteq ResetRequired
    BY RequestTyped DEF SettingsInv
<1> HIDE DEF q
<1>4. /\ \A b \in Attrs : live[b] \in Nat /\ Wanted(b) \in Nat /\ Wanted(b) >= live[b]
      /\ \A comp \in Components : version[comp] \in Nat /\ Latest(comp) \in Nat
    BY Numbers, InForceIsNotNewer DEF SettingsInv
<1>5. /\ DOMAIN pending' = DOMAIN pending \cup q
      /\ \A b \in DOMAIN pending' : pending'[b] = (IF b \in q THEN Wanted(b) + 1 ELSE pending[b])
    BY <1>1
<1>6. SettingsTypeOK'
    BY <1>1, <1>2, <1>3, <1>4, <1>5 DEF SettingsInv, SettingsTypeOK, firmwareVars
<1>7. WaitingIsNewer' /\ \A k \in Ids : TaskOK(k)'
    BY <1>1, <1>3, <1>4, <1>5 DEF SettingsInv, WaitingIsNewer, TaskOK, Latest, firmwareVars
<1>8. Grows
  <2>1. \A comp \in Components : Latest(comp)' = Latest(comp)
      BY <1>1 DEF Latest, firmwareVars
  <2>2. \A b \in Attrs : Wanted(b)' >= Wanted(b)
      BY <1>1, <1>4, <1>5 DEF Wanted
  <2> QED
      BY <1>1, <1>4, <2>1, <2>2 DEF Grows, firmwareVars
<1>9. RequestPlace(admin[c])' /\ ResetOK(admin[c])' /\ FollowOK(admin[c])'
    BY <1>2 DEF RequestPlace, ResetOK, FollowOK, Activates
<1> QED
    BY <1>2, <1>6, <1>7, <1>8, <1>9, RequestKeeps

\* Nothing to merge, the machine's answer, and the client's.
LEMMA NothingToMergeKeeps ==
    ASSUME SettingsInv, NEW c \in Admins, NothingToMerge(c)
    PROVE  SettingsInv'
<1>1. /\ AdminGoto(c, "ok") /\ admin[c].op = "bios"
      /\ UNCHANGED <<live, pending, firmwareVars>> /\ patches' \in Nat
    BY DEF NothingToMerge, SettingsInv, SettingsTypeOK, RequestPlace, biosVars
<1>2. /\ admin' \in [Admins -> AdminRequests]
      /\ \A d \in Admins \ {c} : admin'[d] = admin[d]
      /\ admin'[c].pc = "ok" /\ admin'[c].op = "bios"
    BY <1>1, GotoChanges DEF SettingsInv, Places
<1>3. RequestPlace(admin[c])' /\ ResetOK(admin[c])' /\ FollowOK(admin[c])'
    BY <1>2 DEF RequestPlace, ResetOK, FollowOK, Activates
<1> QED
    BY <1>1, <1>2, <1>3, LookKeeps

LEMMA OverKeeps ==
    ASSUME SettingsInv, NEW c \in Admins,
           NEW r \in AdminRequests, r.op = "none", r.pc \in {"idle", "nothing"},
           admin' = [admin EXCEPT ![c] = r], UNCHANGED <<biosVars, firmwareVars>>
    PROVE  SettingsInv'
<1>1. UNCHANGED <<live, pending, firmwareVars>> /\ patches' \in Nat
    BY DEF SettingsInv, SettingsTypeOK, biosVars
<1>2. /\ admin'[c] = r /\ admin' \in [Admins -> AdminRequests]
      /\ \A d \in Admins \ {c} : admin'[d] = admin[d]
    BY DEF SettingsInv, SettingsTypeOK
<1>3. RequestPlace(admin[c])' /\ ResetOK(admin[c])' /\ FollowOK(admin[c])'
    BY <1>2 DEF RequestPlace, ResetOK, FollowOK, Activates
<1> QED
    BY <1>1, <1>2, <1>3, LookKeeps

LEMMA ResetReturnsKeeps ==
    ASSUME SettingsInv, NEW c \in Admins, ResetReturns(c)
    PROVE  SettingsInv'
<1>1. UNCHANGED <<biosVars, firmwareVars>> /\ admin[c].pc = "calling" /\ admin[c].op = "reset"
    BY DEF ResetReturns, SettingsInv, RequestPlace
<1>2. CASE AdminGoto(c, "apply")
  <2>1. /\ admin' \in [Admins -> AdminRequests]
        /\ \A d \in Admins \ {c} : admin'[d] = admin[d]
        /\ admin'[c].pc = "apply" /\ admin'[c].op = "reset"
        /\ admin'[c].due = admin[c].due /\ admin'[c].dueVersion = admin[c].dueVersion
      BY <1>1, <1>2, GotoChanges DEF SettingsInv, Places
  <2>2. UNCHANGED <<live, pending, firmwareVars>> /\ patches' \in Nat
      BY <1>1 DEF SettingsInv, SettingsTypeOK, biosVars
  <2>3. RequestPlace(admin[c])' /\ FollowOK(admin[c])'
      BY <2>1 DEF RequestPlace, FollowOK
  <2>4. ResetOK(admin[c])'
    <3>1. /\ \A comp \in Components : Latest(comp)' = Latest(comp)
          /\ \A a \in Attrs : Wanted(a)' = Wanted(a)
        BY <2>2 DEF Latest, Wanted, firmwareVars
    <3>2. ResetOK(admin[c])
        BY DEF SettingsInv
    <3> QED
        BY <1>1, <2>1, <3>1, <3>2 DEF ResetOK, Activates, Components
  <2> QED
      BY <2>1, <2>2, <2>3, <2>4, LookKeeps
<1>3. CASE admin' = [admin EXCEPT ![c] = [NoRequest EXCEPT !.pc = "nothing"]]
  <2> DEFINE r == [NoRequest EXCEPT !.pc = "nothing"]
  <2>1. r \in AdminRequests
      BY FreshRequest DEF AdminRequests, Places
  <2>2. r.op = "none" /\ r.pc = "nothing"
      BY DEF NoRequest
  <2> HIDE DEF r
  <2> QED
      BY <1>1, <1>3, <2>1, <2>2, OverKeeps DEF r
<1> QED
    BY <1>2, <1>3 DEF ResetReturns

LEMMA AnswerKeeps ==
    ASSUME SettingsInv, NEW c \in Admins, AnswerAdmin(c)
    PROVE  SettingsInv'
<1>1. NoRequest.op = "none" /\ NoRequest.pc = "idle"
    BY DEF NoRequest
<1> QED
    BY <1>1, FreshRequest, OverKeeps DEF AnswerAdmin

LEMMA ApplyPendingKeeps ==
    ASSUME SettingsInv, NEW c \in Admins, ApplyPending(c)
    PROVE  SettingsInv'
<1>1. /\ live' = [a \in Attrs |-> Wanted(a)] /\ pending' = [a \in {} |-> 0]
      /\ AdminGoto(c, "activate")
      /\ UNCHANGED <<patches, firmwareVars>>
      /\ admin[c].pc = "apply" /\ admin[c].op = "reset"
    BY DEF ApplyPending, SettingsInv, RequestPlace
<1>2. /\ admin' \in [Admins -> AdminRequests]
      /\ \A d \in Admins \ {c} : admin'[d] = admin[d]
      /\ admin'[c].pc = "activate" /\ admin'[c].op = "reset"
      /\ admin'[c].due = admin[c].due /\ admin'[c].dueVersion = admin[c].dueVersion
    BY <1>1, GotoChanges DEF SettingsInv, Places
<1>3. /\ \A a \in Attrs : live[a] \in Nat /\ Wanted(a) \in Nat /\ Wanted(a) >= live[a]
      /\ \A comp \in Components : version[comp] \in Nat /\ Latest(comp) \in Nat
    BY Numbers, InForceIsNotNewer DEF SettingsInv
<1>4. /\ live' \in [Attrs -> Nat] /\ DOMAIN pending' = {}
      /\ \A a \in Attrs : live'[a] = Wanted(a) /\ Wanted(a)' = Wanted(a)
    BY <1>1, <1>3 DEF Wanted
<1>5. \A comp \in Components : Latest(comp)' = Latest(comp)
    BY <1>1 DEF Latest, firmwareVars
<1>6. SettingsTypeOK'
    BY <1>1, <1>2, <1>4 DEF SettingsInv, SettingsTypeOK, firmwareVars
<1>7. WaitingIsNewer' /\ \A k \in Ids : TaskOK(k)'
    BY <1>1, <1>4 DEF SettingsInv, WaitingIsNewer, TaskOK, Latest, firmwareVars
<1>8. Grows
    BY <1>1, <1>3, <1>4, <1>5 DEF Grows, firmwareVars
<1>9. RequestPlace(admin[c])' /\ FollowOK(admin[c])'
    BY <1>2 DEF RequestPlace, FollowOK
<1>10. ResetOK(admin[c])'
  <2>1. ResetOK(admin[c])
      BY DEF SettingsInv
  <2> QED
      BY <1>1, <1>2, <1>4, <1>5, <2>1 DEF ResetOK, Activates, Components
<1> QED
    BY <1>2, <1>6, <1>7, <1>8, <1>9, <1>10, RequestKeeps

-----------------------------------------------------------------------------
(* Staged firmware comes into force                                        *)

\* What is staged becomes active: the newest version stays the newest.
LEMMA ActivatedGrows ==
    ASSUME SettingsInv, NEW comp \in Components, Activated(comp), UNCHANGED <<biosVars, task>>
    PROVE  /\ version' \in [Components -> Nat] /\ staged' \in [Components -> Nat]
           /\ WaitingIsNewer' /\ Grows
           /\ \A k \in Ids : TaskOK(k)'
           /\ version'[comp] = Latest(comp)
<1>1. /\ version \in [Components -> Nat] /\ staged \in [Components -> Nat]
      /\ \A d \in Components : staged[d] = 0 \/ staged[d] > version[d]
    BY DEF SettingsInv, SettingsTypeOK, WaitingIsNewer
<1>2. CASE staged[comp] = 0
  <2>1. UNCHANGED <<live, pending, version, staged, task>>
      BY <1>2 DEF Activated, biosVars
  <2>2. /\ \A a \in Attrs : live[a] \in Nat /\ Wanted(a) \in Nat
        /\ \A d \in Components : version[d] \in Nat /\ Latest(d) \in Nat
      BY Numbers DEF SettingsInv
  <2>3. /\ \A a \in Attrs : Wanted(a)' = Wanted(a)
        /\ \A d \in Components : Latest(d)' = Latest(d)
      BY <2>1 DEF Wanted, Latest
  <2>4. WaitingIsNewer' /\ \A k \in Ids : TaskOK(k)'
      BY <2>1 DEF SettingsInv, WaitingIsNewer, TaskOK, Latest
  <2>5. Grows
      BY <2>1, <2>2, <2>3 DEF Grows
  <2> QED
      BY <1>1, <1>2, <2>1, <2>4, <2>5 DEF Latest
<1>3. CASE staged[comp] # 0
  <2>1. /\ UNCHANGED <<live, pending, task>>
        /\ version' \in [Components -> Nat] /\ staged' \in [Components -> Nat]
        /\ version'[comp] = staged[comp] /\ staged'[comp] = 0
        /\ \A d \in Components \ {comp} : version'[d] = version[d] /\ staged'[d] = staged[d]
      BY <1>1, <1>3 DEF Activated, biosVars
  <2>2. /\ \A a \in Attrs : live[a] \in Nat /\ Wanted(a) \in Nat
        /\ \A d \in Components : version[d] \in Nat /\ Latest(d) \in Nat
      BY Numbers DEF SettingsInv
  <2>3. /\ \A a \in Attrs : Wanted(a)' = Wanted(a)
        /\ \A d \in Components : Latest(d)' = Latest(d) /\ version'[d] >= version[d]
      BY <1>1, <1>3, <2>1 DEF Wanted, Latest
  <2>4. WaitingIsNewer'
      BY <1>1, <2>1 DEF SettingsInv, WaitingIsNewer
  <2>5. \A k \in Ids : TaskOK(k)'
      BY <2>1, <2>3 DEF SettingsInv, TaskOK
  <2>6. Grows
      BY <2>1, <2>2, <2>3 DEF Grows
  <2> QED
      BY <1>3, <2>1, <2>4, <2>5, <2>6 DEF Latest
<1> QED
    BY <1>2, <1>3

LEMMA ActivateKeeps ==
    ASSUME SettingsInv, NEW c \in Admins,
           AdminAt(c, "activate"), admin[c].op \in DOMAIN Activates,
           Activated(Activates[admin[c].op]), AdminGoto(c, "ok"), UNCHANGED <<biosVars, task>>
    PROVE  SettingsInv'
<1> DEFINE comp == Activates[admin[c].op]
<1>1. comp \in Components
    BY DEF Activates, Components
<1>2. /\ version' \in [Components -> Nat] /\ staged' \in [Components -> Nat]
      /\ WaitingIsNewer' /\ Grows
      /\ \A k \in Ids : TaskOK(k)'
      /\ version'[comp] = Latest(comp)
    BY <1>1, ActivatedGrows
<1>3. /\ admin' \in [Admins -> AdminRequests]
      /\ \A d \in Admins \ {c} : admin'[d] = admin[d]
      /\ admin'[c].pc = "ok" /\ admin'[c].op = admin[c].op
      /\ admin'[c].due = admin[c].due /\ admin'[c].dueVersion = admin[c].dueVersion
    BY GotoChanges DEF SettingsInv, Places
<1>4. SettingsTypeOK'
    BY <1>2, <1>3 DEF SettingsInv, SettingsTypeOK, biosVars
<1>5. RequestPlace(admin[c])' /\ FollowOK(admin[c])'
    BY <1>3 DEF RequestPlace, FollowOK, Activates
<1>6. ResetOK(admin[c])'
  <2>1. ResetOK(admin[c])
      BY DEF SettingsInv
  <2>2. live' = live
      BY DEF biosVars
  <2> QED
      BY <1>2, <1>3, <2>1, <2>2 DEF ResetOK
<1> QED
    BY <1>2, <1>3, <1>4, <1>5, <1>6, RequestKeeps

LEMMA ActivateBiosKeeps ==
    ASSUME SettingsInv, NEW c \in Admins, ActivateBios(c)
    PROVE  SettingsInv'
<1>1. admin[c].op \in DOMAIN Activates /\ Activates[admin[c].op] = "BIOS"
    BY DEF ActivateBios, Activates
<1> QED
    BY <1>1, ActivateKeeps DEF ActivateBios

LEMMA ActivateBmcKeeps ==
    ASSUME SettingsInv, NEW c \in Admins, ActivateBmc(c)
    PROVE  SettingsInv'
<1>1. admin[c].op \in DOMAIN Activates /\ Activates[admin[c].op] = "BMC"
    BY DEF ActivateBmc, Activates
<1> QED
    BY <1>1, ActivateKeeps DEF ActivateBmc

-----------------------------------------------------------------------------
(* A client follows its update                                             *)

\* What a step that only looks leaves alone.
LEMMA NothingChanges ==
    ASSUME SettingsInv, UNCHANGED <<biosVars, firmwareVars>>
    PROVE  /\ UNCHANGED <<live, pending, firmwareVars>> /\ patches' \in Nat
           /\ Tasks' = Tasks /\ task' = task /\ version' = version
BY DEF SettingsInv, SettingsTypeOK, biosVars, firmwareVars, Tasks

LEMMA PollTaskKeeps ==
    ASSUME SettingsInv, NEW c \in Admins, PollTask(c)
    PROVE  SettingsInv'
<1>1. /\ UNCHANGED <<live, pending, firmwareVars>> /\ patches' \in Nat
      /\ Tasks' = Tasks /\ task' = task
    BY NothingChanges DEF PollTask
<1>2. admin[c].pc = "poll" /\ admin[c].op = "follow" /\ admin[c].task \in Tasks
    BY DEF PollTask, SettingsInv, RequestPlace, FollowOK
<1>3. CASE task[admin[c].task].state = "Completed" /\ AdminGoto(c, "staged")
  <2>1. /\ admin' \in [Admins -> AdminRequests]
        /\ \A d \in Admins \ {c} : admin'[d] = admin[d]
        /\ admin'[c].pc = "staged" /\ admin'[c].op = "follow" /\ admin'[c].task = admin[c].task
      BY <1>2, <1>3, GotoChanges DEF SettingsInv, Places
  <2>2. RequestPlace(admin[c])' /\ ResetOK(admin[c])' /\ FollowOK(admin[c])'
      BY <1>1, <1>2, <1>3, <2>1 DEF RequestPlace, ResetOK, FollowOK, Activates
  <2> QED
      BY <1>1, <2>1, <2>2, LookKeeps
<1>4. CASE task[admin[c].task].state = "Exception" /\ AdminGoto(c, "nothing")
  <2>1. /\ admin' \in [Admins -> AdminRequests]
        /\ \A d \in Admins \ {c} : admin'[d] = admin[d]
        /\ admin'[c].pc = "nothing" /\ admin'[c].op = "follow"
      BY <1>2, <1>4, GotoChanges DEF SettingsInv, Places
  <2>2. RequestPlace(admin[c])' /\ ResetOK(admin[c])' /\ FollowOK(admin[c])'
      BY <2>1 DEF RequestPlace, ResetOK, FollowOK, Activates
  <2> QED
      BY <1>1, <2>1, <2>2, LookKeeps
<1> QED
    BY <1>3, <1>4 DEF PollTask

\* What the client looks for: the version of a task that is Completed.
LEMMA FollowedTask ==
    ASSUME SettingsInv, NEW c \in Admins, admin[c].pc \in {"staged", "installed"}
    PROVE  /\ admin[c].op = "follow"
           /\ admin[c].task \in Tasks /\ task[admin[c].task].state = "Completed"
           /\ task[admin[c].task].pkg \in Components
           /\ task[admin[c].task].ver \in Nat /\ task[admin[c].task].ver > 0
           /\ task[admin[c].task].ver <= Latest(task[admin[c].task].pkg)
           /\ version[task[admin[c].task].pkg] \in Nat
           /\ staged[task[admin[c].task].pkg] \in Nat
<1>1. /\ admin[c].op = "follow"
      /\ admin[c].task \in Tasks /\ task[admin[c].task].state = "Completed"
    BY DEF SettingsInv, RequestPlace, FollowOK
<1>2. admin[c].task \in Ids
    BY <1>1 DEF Tasks
<1> QED
    BY <1>1, <1>2, Numbers DEF SettingsInv, TaskOK

LEMMA RequestSees ==
    ASSUME NEW r \in AdminRequests, NEW f \in BOOLEAN, NEW s, s = [r EXCEPT !.found = f]
    PROVE  /\ s \in AdminRequests /\ s.found = f
           /\ s.op = r.op /\ s.pc = r.pc /\ s.task = r.task
BY FoundChanges, Zenon DEF AdminRequests

\* A client that follows its update has seen the one entry of the inventory.
LEMMA SeenChanges ==
    ASSUME SettingsTypeOK, NEW c \in Admins, NEW p \in Places, NEW f \in BOOLEAN,
           admin' = [admin EXCEPT ![c].pc = p, ![c].found = f]
    PROVE  /\ admin' \in [Admins -> AdminRequests]
           /\ \A d \in Admins \ {c} : admin'[d] = admin[d]
           /\ admin'[c].pc = p /\ admin'[c].found = f
           /\ admin'[c].op = admin[c].op /\ admin'[c].task = admin[c].task
<1> DEFINE r == [admin[c] EXCEPT !.pc = p]
<1>1. /\ admin'[c] = [r EXCEPT !.found = f]
      /\ \A d \in Admins \ {c} : admin'[d] = admin[d]
    BY DEF SettingsTypeOK
<1>2. admin[c] \in AdminRequests
    BY DEF SettingsTypeOK
<1>3. r \in AdminRequests /\ r.pc = p /\ r.op = admin[c].op /\ r.task = admin[c].task
    BY <1>2, PlaceChanges, Zenon DEF AdminRequests
<1> HIDE DEF r
<1>4. /\ admin'[c] \in AdminRequests /\ admin'[c].pc = p /\ admin'[c].found = f
      /\ admin'[c].op = admin[c].op /\ admin'[c].task = admin[c].task
  <2>1. /\ admin'[c] \in AdminRequests /\ admin'[c].found = f
        /\ admin'[c].pc = r.pc /\ admin'[c].op = r.op /\ admin'[c].task = r.task
      BY <1>1, <1>3, RequestSees
  <2> QED
      BY <1>3, <2>1, Zenon
<1>5. admin' \in [Admins -> AdminRequests]
    BY <1>4 DEF SettingsTypeOK
<1> QED
    BY <1>1, <1>4, <1>5

LEMMA GetStagedKeeps ==
    ASSUME SettingsInv, NEW c \in Admins, GetStaged(c)
    PROVE  SettingsInv'
<1> DEFINE t == task[admin[c].task]
           f == Newer(c, staged[t.pkg])
<1>1. /\ UNCHANGED <<live, pending, firmwareVars>> /\ patches' \in Nat
      /\ Tasks' = Tasks /\ task' = task /\ version' = version
    BY NothingChanges DEF GetStaged
<1>2. /\ admin[c].op = "follow" /\ admin[c].task \in Tasks /\ t.state = "Completed"
      /\ t.ver \in Nat /\ t.ver > 0 /\ t.ver <= Latest(t.pkg)
      /\ version[t.pkg] \in Nat /\ staged[t.pkg] \in Nat
    BY FollowedTask DEF GetStaged
<1>3. f \in BOOLEAN /\ (f \/ version[t.pkg] >= t.ver)
    BY <1>2 DEF Newer, Latest
<1>4. admin' = [admin EXCEPT ![c].pc = "installed", ![c].found = f]
    BY DEF GetStaged
<1>5. SettingsTypeOK /\ "installed" \in Places
    BY DEF SettingsInv, Places
<1> HIDE DEF f
<1>6. /\ admin' \in [Admins -> AdminRequests]
      /\ \A d \in Admins \ {c} : admin'[d] = admin[d]
      /\ admin'[c].pc = "installed" /\ admin'[c].found = f
      /\ admin'[c].op = admin[c].op /\ admin'[c].task = admin[c].task
    BY <1>3, <1>4, <1>5, SeenChanges
<1>7. RequestPlace(admin[c])' /\ ResetOK(admin[c])'
    BY <1>2, <1>6 DEF RequestPlace, ResetOK, Activates
<1>8. FollowOK(admin[c])'
    BY <1>1, <1>2, <1>3, <1>6 DEF FollowOK
<1> QED
    BY <1>1, <1>6, <1>7, <1>8, LookKeeps

\* What was not staged any more is installed by now.
LEMMA GetInstalledKeeps ==
    ASSUME SettingsInv, NEW c \in Admins, GetInstalled(c)
    PROVE  SettingsInv'
<1> DEFINE t == task[admin[c].task]
           f == admin[c].found \/ Newer(c, version[t.pkg])
<1>1. /\ UNCHANGED <<live, pending, firmwareVars>> /\ patches' \in Nat
      /\ Tasks' = Tasks /\ task' = task /\ version' = version
    BY NothingChanges DEF GetInstalled
<1>2. /\ admin[c].op = "follow" /\ admin[c].task \in Tasks
      /\ t.ver \in Nat /\ t.ver > 0 /\ version[t.pkg] \in Nat
      /\ admin[c].found \/ version[t.pkg] >= t.ver
    BY FollowedTask DEF GetInstalled, SettingsInv, FollowOK
<1>3. f \in BOOLEAN /\ f
    BY <1>2 DEF Newer
<1>4. admin' = [admin EXCEPT ![c].pc = "ok", ![c].found = f]
    BY DEF GetInstalled
<1>5. SettingsTypeOK /\ "ok" \in Places
    BY DEF SettingsInv, Places
<1> HIDE DEF f
<1>6. /\ admin' \in [Admins -> AdminRequests]
      /\ \A d \in Admins \ {c} : admin'[d] = admin[d]
      /\ admin'[c].pc = "ok" /\ admin'[c].found = f
      /\ admin'[c].op = admin[c].op /\ admin'[c].task = admin[c].task
    BY <1>3, <1>4, <1>5, SeenChanges
<1>7. RequestPlace(admin[c])' /\ ResetOK(admin[c])'
    BY <1>2, <1>6 DEF RequestPlace, ResetOK, Activates
<1>8. FollowOK(admin[c])'
    BY <1>1, <1>2, <1>3, <1>6 DEF FollowOK
<1> QED
    BY <1>1, <1>6, <1>7, <1>8, LookKeeps

-----------------------------------------------------------------------------
(* Update tasks                                                            *)

\* A task that is not over moves, nothing being staged or activated.
LEMMA TaskMoves ==
    ASSUME SettingsInv, NEW k \in Ids, NEW t \in Task, t.state # "none",
           task[k].state # "Completed", task' = [task EXCEPT ![k] = t],
           UNCHANGED <<biosVars, version, staged>>, TaskOK(k)'
    PROVE  /\ task' \in [Ids -> Task] /\ WaitingIsNewer' /\ Grows
           /\ \A j \in Ids : TaskOK(j)'
<1>1. /\ task' \in [Ids -> Task] /\ task'[k] = t
      /\ \A j \in Ids \ {k} : task'[j] = task[j]
    BY DEF SettingsInv, SettingsTypeOK
<1>2. /\ \A a \in Attrs : live'[a] = live[a] /\ Wanted(a)' = Wanted(a)
      /\ \A comp \in Components : version'[comp] = version[comp] /\ Latest(comp)' = Latest(comp)
    BY DEF Wanted, Latest, biosVars
<1>3. WaitingIsNewer'
    BY DEF SettingsInv, WaitingIsNewer, biosVars
<1>4. \A j \in Ids : TaskOK(j)'
    BY <1>1, <1>2 DEF SettingsInv, TaskOK
<1>5. /\ \A a \in Attrs : live[a] \in Nat /\ Wanted(a) \in Nat
      /\ \A comp \in Components : version[comp] \in Nat /\ Latest(comp) \in Nat
    BY Numbers DEF SettingsInv
<1>6. Grows
    BY <1>1, <1>2, <1>5 DEF Grows
<1> QED
    BY <1>1, <1>3, <1>4, <1>6

\* A task's own step.
LEMMA TaskKeeps ==
    ASSUME SettingsInv, UNCHANGED <<biosVars, version, admin>>,
           task' \in [Ids -> Task], staged' \in [Components -> Nat],
           WaitingIsNewer', Grows, \A k \in Ids : TaskOK(k)'
    PROVE  SettingsInv'
<1>1. SettingsTypeOK'
    BY DEF SettingsInv, SettingsTypeOK, biosVars
<1> QED
    BY <1>1, OtherRequest DEF SettingsInv

LEMMA SimpleUpdateKeeps ==
    ASSUME SettingsInv, NEW c \in Admins, SimpleUpdate(c)
    PROVE  SettingsInv'
<1>1. PICK k \in Ids, ts \in TargetSets : CreateTask(k, ts)
    BY DEF SimpleUpdate
<1> DEFINE t == [NoTask EXCEPT !.state = "New", !.pc = "start", !.targets = ts]
           r == [NoRequest EXCEPT !.op = "update", !.pc = "ok"]
<1>2. t \in Task /\ t.state = "New" /\ t.pc = "start"
    BY DEF NoTask, Task
<1>3. r \in AdminRequests /\ r.op = "update" /\ r.pc = "ok"
  <2>1. r \in AdminRequests
      BY FreshRequest DEF AdminRequests, Places
  <2>2. r.op = "update" /\ r.pc = "ok"
      BY DEF NoRequest
  <2> QED
      BY <2>1, <2>2
<1>4. task[k].state # "Completed"
  <2>1. k \notin Tasks
      BY <1>1 DEF CreateTask
  <2> QED
      BY <2>1 DEF Tasks
<1> HIDE DEF t, r
<1>5. task' = [task EXCEPT ![k] = t] /\ UNCHANGED <<biosVars, version, staged>>
    BY <1>1 DEF CreateTask, SimpleUpdate, t
<1>6. TaskOK(k)'
    BY <1>2, <1>5 DEF TaskOK, SettingsInv, SettingsTypeOK
<1>7. /\ task' \in [Ids -> Task] /\ WaitingIsNewer' /\ Grows
      /\ \A j \in Ids : TaskOK(j)'
    BY <1>2, <1>4, <1>5, <1>6, TaskMoves
<1>8. /\ admin'[c] = r /\ admin' \in [Admins -> AdminRequests]
      /\ \A d \in Admins \ {c} : admin'[d] = admin[d]
    BY <1>3 DEF SimpleUpdate, Request, SettingsInv, SettingsTypeOK, r
<1>9. SettingsTypeOK'
    BY <1>5, <1>7, <1>8 DEF SettingsInv, SettingsTypeOK, biosVars
<1>10. RequestPlace(admin[c])' /\ ResetOK(admin[c])' /\ FollowOK(admin[c])'
    BY <1>3, <1>8 DEF RequestPlace, ResetOK, FollowOK, Activates
<1> QED
    BY <1>7, <1>8, <1>9, <1>10, RequestKeeps

\* Steps that only say how far the task is.
LEMMA TaskGotoKeeps ==
    ASSUME SettingsInv, NEW k \in Ids, NEW s \in {"Running", "Exception", "Completed"},
           NEW p \in {"fetch", "ended"}, TaskGoto(k, s, p), p = "fetch" => s = "Running",
           task[k].state # "Completed",
           s = "Completed" => task[k].pc = "complete" /\ p = "ended",
           UNCHANGED <<biosVars, version, staged, admin>>
    PROVE  SettingsInv'
<1> DEFINE t == [task[k] EXCEPT !.state = s, !.pc = p]
<1>1. task[k] \in Task /\ TaskOK(k)
    BY DEF SettingsInv, SettingsTypeOK
<1>2. /\ t \in Task /\ t.state = s /\ t.pc = p
      /\ t.pkg = task[k].pkg /\ t.ver = task[k].ver
    BY <1>1 DEF Task
<1>3. task' = [task EXCEPT ![k] = t]
    BY DEF TaskGoto, SettingsInv, SettingsTypeOK
<1> HIDE DEF t
<1>4. TaskOK(k)'
  <2>1. task'[k] = t /\ \A comp \in Components : Latest(comp)' = Latest(comp)
      BY <1>3 DEF SettingsInv, SettingsTypeOK, Latest
  <2> QED
      BY <1>1, <1>2, <2>1 DEF TaskOK
<1>5. /\ task' \in [Ids -> Task] /\ WaitingIsNewer' /\ Grows
      /\ \A j \in Ids : TaskOK(j)'
    BY <1>2, <1>3, <1>4, TaskMoves
<1> QED
    BY <1>5, TaskKeeps DEF SettingsInv, SettingsTypeOK

LEMMA FetchedKeeps ==
    ASSUME SettingsInv, NEW k \in Ids, Fetched(k)
    PROVE  SettingsInv'
<1>1. PICK comp \in Components :
          task' = [task EXCEPT ![k].pc = "stage", ![k].pkg = comp, ![k].targets = {}]
    BY DEF Fetched
<1> DEFINE t == [task[k] EXCEPT !.pc = "stage", !.pkg = comp, !.targets = {}]
<1>2. task[k] \in Task /\ TaskOK(k) /\ task[k].pc = "fetch"
    BY DEF SettingsInv, SettingsTypeOK, Fetched
<1>3. /\ t \in Task /\ t.state = task[k].state /\ t.pc = "stage" /\ t.pkg = comp
    BY <1>2 DEF Task
<1>4. task' = [task EXCEPT ![k] = t] /\ UNCHANGED <<biosVars, version, staged, admin>>
    BY <1>1 DEF Fetched, SettingsInv, SettingsTypeOK
<1>5. task'[k] = t
    BY <1>4 DEF SettingsInv, SettingsTypeOK
<1> HIDE DEF t
<1>6. TaskOK(k)'
    BY <1>2, <1>3, <1>5 DEF TaskOK
<1>7. /\ task' \in [Ids -> Task] /\ WaitingIsNewer' /\ Grows
      /\ \A j \in Ids : TaskOK(j)'
    BY <1>2, <1>3, <1>4, <1>6, TaskMoves DEF TaskOK
<1> QED
    BY <1>4, <1>7, TaskKeeps DEF SettingsInv, SettingsTypeOK

\* What is staged next is newer than all there was.
LEMMA StageFirmwareKeeps ==
    ASSUME SettingsInv, NEW k \in Ids, StageFirmware(k)
    PROVE  SettingsInv'
<1>1. PICK comp \in Components :
          /\ comp = task[k].pkg
          /\ task[k] \in Task /\ task[k].pc = "stage" /\ task[k].state = "Running"
    BY DEF SettingsInv, SettingsTypeOK, TaskOK, StageFirmware
<1> DEFINE v == Staging(comp)
           t == [task[k] EXCEPT !.pc = "complete", !.ver = v]
<1>2. /\ version \in [Components -> Nat] /\ staged \in [Components -> Nat]
      /\ \A d \in Components : staged[d] = 0 \/ staged[d] > version[d]
    BY DEF SettingsInv, SettingsTypeOK, WaitingIsNewer
<1>3. v \in Nat /\ v > 0 /\ v > version[comp] /\ v > Latest(comp)
    BY <1>1, <1>2 DEF Staging, Latest
<1>4. /\ staged' = [staged EXCEPT ![comp] = v] /\ task' = [task EXCEPT ![k] = t]
      /\ UNCHANGED <<biosVars, version, admin>>
    BY <1>1 DEF StageFirmware, SettingsInv, SettingsTypeOK
<1> HIDE DEF v
<1>5. t \in Task /\ t.state = "Running" /\ t.pc = "complete" /\ t.pkg = comp /\ t.ver = v
    BY <1>1, <1>3 DEF Task
<1> HIDE DEF t
<1>6. /\ task' \in [Ids -> Task] /\ task'[k] = t
      /\ \A j \in Ids \ {k} : task'[j] = task[j]
    BY <1>4, <1>5 DEF SettingsInv, SettingsTypeOK
<1>7. /\ staged' \in [Components -> Nat] /\ staged'[comp] = v
      /\ \A d \in Components \ {comp} : staged'[d] = staged[d]
    BY <1>1, <1>2, <1>3, <1>4
<1>8. /\ Latest(comp)' = v
      /\ \A d \in Components \ {comp} : Latest(d)' = Latest(d)
      /\ \A d \in Components : Latest(d) \in Nat
  <2>1. Latest(comp)' = v
      BY <1>3, <1>4, <1>7 DEF Latest
  <2> QED
      BY <1>2, <1>4, <1>7, <2>1 DEF Latest
<1>9. WaitingIsNewer'
    BY <1>2, <1>3, <1>4, <1>7 DEF SettingsInv, WaitingIsNewer, biosVars
<1>10. \A j \in Ids : TaskOK(j)'
  <2>1. TaskOK(k)'
    <3>1. task'[k].ver <= Latest(comp)'
        BY <1>3, <1>5, <1>6, <1>8
    <3> QED
        BY <1>1, <1>3, <1>5, <1>6, <3>1 DEF TaskOK
  <2>2. ASSUME NEW j \in Ids \ {k}
        PROVE  TaskOK(j)'
    <3>1. TaskOK(j) /\ task'[j] = task[j] /\ task[j].ver \in Nat
        BY <1>6, Numbers DEF SettingsInv
    <3>2. \A d \in Components : Latest(d)' >= Latest(d) /\ Latest(d)' \in Nat
        BY <1>3, <1>8
    <3> QED
        BY <1>8, <3>1, <3>2 DEF TaskOK
  <2> QED
      BY <2>1, <2>2
<1>11. Grows
  <2>1. /\ \A a \in Attrs : live[a] \in Nat /\ Wanted(a) \in Nat
        /\ \A d \in Components : version[d] \in Nat
      BY Numbers DEF SettingsInv
  <2>2. \A a \in Attrs : live'[a] = live[a] /\ Wanted(a)' = Wanted(a)
      BY <1>4 DEF Wanted, biosVars
  <2>3. \A d \in Components : Latest(d)' >= Latest(d)
      BY <1>3, <1>8
  <2> QED
      BY <1>1, <1>4, <1>5, <1>6, <2>1, <2>2, <2>3 DEF Grows
<1> QED
    BY <1>4, <1>6, <1>7, <1>9, <1>10, <1>11, TaskKeeps

LEMMA TaskStepKeeps ==
    ASSUME SettingsInv, NEW k \in Ids, TaskStep(k)
    PROVE  SettingsInv'
<1>1. TaskOK(k)
    BY DEF SettingsInv
<1>2. CASE TaskStarts(k)
    BY <1>1, <1>2, TaskGotoKeeps DEF TaskStarts, TaskOK
<1>3. CASE Fetched(k)
    BY <1>3, FetchedKeeps
<1>4. CASE TaskFails(k)
    BY <1>1, <1>4, TaskGotoKeeps DEF TaskFails, TaskOK
<1>5. CASE StageFirmware(k)
    BY <1>5, StageFirmwareKeeps
<1>6. CASE TaskCompletes(k)
    BY <1>1, <1>6, TaskGotoKeeps DEF TaskCompletes, TaskOK
<1> QED
    BY <1>2, <1>3, <1>4, <1>5, <1>6 DEF TaskStep

-----------------------------------------------------------------------------
(* The theorems                                                            *)

LEMMA InitialSettings == SettingsInit => SettingsInv
<1> SUFFICES ASSUME SettingsInit
             PROVE  SettingsInv
    OBVIOUS
<1>1. NoTask \in Task /\ NoTask.state = "none" /\ NoTask.pc = "none"
    BY DEF NoTask, Task
<1>2. NoRequest \in AdminRequests /\ NoRequest.op = "none" /\ NoRequest.pc = "idle"
    BY FreshRequest DEF NoRequest
<1> HIDE DEF NoTask
<1>3. SettingsTypeOK
    BY <1>1, <1>2 DEF SettingsInit, SettingsTypeOK
<1>4. WaitingIsNewer /\ \A k \in Ids : TaskOK(k)
    BY <1>1 DEF SettingsInit, WaitingIsNewer, TaskOK
<1>5. \A c \in Admins : RequestPlace(admin[c]) /\ ResetOK(admin[c]) /\ FollowOK(admin[c])
  <2>1. SUFFICES ASSUME NEW c \in Admins
                 PROVE  RequestPlace(admin[c]) /\ ResetOK(admin[c]) /\ FollowOK(admin[c])
      OBVIOUS
  <2>2. admin[c].op = "none" /\ admin[c].pc = "idle"
      BY <1>2 DEF SettingsInit
  <2> QED
      BY <2>2 DEF RequestPlace, ResetOK, FollowOK, Activates
<1> QED
    BY <1>3, <1>4, <1>5 DEF SettingsInv

LEMMA AdminKeeps ==
    ASSUME SettingsInv, NEW c \in Admins, AdminRequest(c) \/ AdminStep(c)
    PROVE  SettingsInv'
<1>1. CASE AdminRequest(c)
    BY <1>1, PatchBiosKeeps, SimpleUpdateKeeps, FollowUpdateKeeps, ResetKeeps, ManagerResetKeeps
    DEF AdminRequest
<1>2. CASE AdminStep(c)
    BY <1>2, SetBiosAttributeKeeps, MergePendingKeeps, NothingToMergeKeeps, ResetReturnsKeeps,
       ApplyPendingKeeps, ActivateBiosKeeps, ActivateBmcKeeps, PollTaskKeeps, GetStagedKeeps,
       GetInstalledKeeps, AnswerKeeps
    DEF AdminStep
<1> QED
    BY <1>1, <1>2

LEMMA SettingsInvariant == SettingsSpec => []SettingsInv
<1>1. SettingsInit => SettingsInv
    BY InitialSettings
<1>2. SettingsInv /\ [SettingsNext]_settingsVars => SettingsInv'
  <2>1. SUFFICES ASSUME SettingsInv, [SettingsNext]_settingsVars
                 PROVE  SettingsInv'
      OBVIOUS
  <2>2. CASE SettingsNext
      BY <2>1, <2>2, AdminKeeps, TaskStepKeeps DEF SettingsNext
  <2>3. CASE UNCHANGED settingsVars
    <3>1. UNCHANGED <<biosVars, firmwareVars, admin>>
        BY <2>3 DEF settingsVars, biosVars, firmwareVars
    <3> QED
        BY <2>1, <3>1 DEF settingsVars, SettingsInv, SettingsTypeOK, WaitingIsNewer, TaskOK,
           RequestPlace, ResetOK, FollowOK, Latest, Wanted, Tasks, biosVars, firmwareVars
  <2> QED
      BY <2>1, <2>2, <2>3
<1> QED
    BY <1>1, <1>2, PTL DEF SettingsSpec

\* The types hold in every reachable state; in particular only attributes that
\* need a reboot ever wait for one (SetBiosPendingAttributes gets no other).
THEOREM SettingsTyped == SettingsSpec => []SettingsTypeOK
<1>1. SettingsInv => SettingsTypeOK
    BY DEF SettingsInv
<1> QED
    BY <1>1, SettingsInvariant, PTL

\* A reset that answers ok has put into force every BIOS attribute PATCHed
\* before it was requested, or a later value, whatever ran at the same time.
THEOREM ResetApplies == SettingsSpec => []ResetAppliesSettings
<1>1. SettingsInv => ResetAppliesSettings
    BY DEF SettingsInv, ResetOK, ResetAppliesSettings
<1> QED
    BY <1>1, SettingsInvariant, PTL

\* A reset that answers ok has activated every package that a Completed task had
\* announced when the reset was requested, or a later one.
THEOREM ResetActivates == SettingsSpec => []ResetActivatesUpdates
<1>1. SettingsInv => ResetActivatesUpdates
    BY DEF SettingsInv, ResetOK, ResetActivatesUpdates
<1> QED
    BY <1>1, SettingsInvariant, PTL

\* A client that has seen its task Completed finds the version, or a later one,
\* among the staged or the installed, although a reset moves it in between.
THEOREM FollowerFinds == SettingsSpec => []FollowerFindsUpdate
<1>1. SettingsInv => FollowerFindsUpdate
    BY DEF SettingsInv, FollowOK, FollowerFindsUpdate
<1> QED
    BY <1>1, SettingsInvariant, PTL
=============================================================================
