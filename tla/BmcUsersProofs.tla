--------------------------- MODULE BmcUsersProofs ----------------------------
(***************************************************************************)
(* Proofs about the user table, for every number of slots, clients, names  *)
(* and passwords.  The types hold whatever IPMI does.  Where IPMI gives no *)
(* names, names are distinct and the null user stays without one (UserInv) *)
(* and the table implements Accounts.                                      *)
(***************************************************************************)
EXTENDS BmcUsers, TLAPS

USE UsersAssumption DEF Slots, SlotNames, SlotPasswords, Privileges

-----------------------------------------------------------------------------
(* Types                                                                   *)

TableType == users \in [Slots -> User]

\* A free slot is a slot.
LEMMA FreeSlotType == FreeSlot \in User
    BY DEF FreeSlot, User

\* A field of an update is a value or left out.
LEMMA PatchedType ==
    ASSUME NEW S, Keep \notin S, NEW old \in S, NEW new \in S \cup {Keep}
    PROVE  Patched(old, new) \in S
    BY DEF Patched

\* An update rewrites one slot with typed fields; its name is kept or given.
LEMMA PatchType ==
    ASSUME TableType, NEW id \in Slots, NEW n \in Names \cup {Keep}, NEW p \in Passwords \cup {Keep},
           NEW r \in Roles \cup {Keep}, NEW e \in BOOLEAN \cup {Keep}, Patch(id, n, p, r, e)
    PROVE  /\ TableType'
           /\ users'[id].name = Patched(users[id].name, n)
           /\ users'[id].name \in SlotNames
           /\ \A j \in Slots \ {id} : users'[j] = users[j]
<1> DEFINE u == [name |-> Patched(users[id].name, n),
                 password |-> Patched(users[id].password, p),
                 privilege |-> Patched(users[id].privilege, r),
                 enabled |-> Patched(users[id].enabled, e)]
<1>1. /\ users[id].name \in SlotNames
      /\ users[id].password \in SlotPasswords
      /\ users[id].privilege \in Privileges
      /\ users[id].enabled \in BOOLEAN
    BY DEF TableType, User
<1>2. Patched(users[id].name, n) \in SlotNames
    BY <1>1, PatchedType
<1>3. Patched(users[id].password, p) \in SlotPasswords
    BY <1>1, PatchedType
<1>4. Patched(users[id].privilege, r) \in Privileges
    BY <1>1 DEF Patched
<1>5. Patched(users[id].enabled, e) \in BOOLEAN
    BY <1>1, PatchedType, Zenon
<1>6. u \in User
    BY <1>2, <1>3, <1>4, <1>5, Zenon DEF User
<1>7. users' = [users EXCEPT ![id] = u]
    BY DEF Patch
<1>8. PICK v : v = u
    OBVIOUS
<1>9. v.name = Patched(users[id].name, n)
    BY <1>8
<1> HIDE DEF u
<1>10. /\ users' \in [Slots -> User]
       /\ users'[id] = v
       /\ \A j \in Slots \ {id} : users'[j] = users[j]
    BY <1>6, <1>7, <1>8 DEF TableType
<1> QED
    BY <1>2, <1>9, <1>10 DEF TableType

\* The slot a Redfish request changes, and how.
LEMMA RedfishStep ==
    ASSUME TableType, NEW t \in RedfishClients, Redfish(t)
    PROVE  \/ /\ UNCHANGED users
              /\ \/ UNCHANGED answer
                 \/ answer' = "exists" /\ \E n \in Names : Used(n)
                 \/ answer' = "full" /\ \A i \in Slots : ~FreeForAccount(i)
                 \/ answer' = "notfound"
           \/ \E n \in Names, p \in Passwords, r \in Roles, e \in BOOLEAN, i \in Slots :
                  /\ ~Used(n) /\ FreeForAccount(i)
                  /\ users' = [users EXCEPT ![i] = [name |-> n, password |-> p,
                                                    privilege |-> r, enabled |-> e]]
                  /\ answer' = "created"
           \/ \E id \in Slots, n \in Names \cup {Keep}, p \in Passwords \cup {Keep},
                 r \in Roles \cup {Keep}, e \in BOOLEAN \cup {Keep} :
                  /\ users[id].name # Unset
                  /\ n \in {Keep, users[id].name} \/ ~Used(n)
                  /\ Patch(id, n, p, r, e)
                  /\ answer' = "updated"
           \/ \E id \in Slots :
                  /\ users[id].name # Unset
                  /\ users' = [users EXCEPT ![id] = FreeSlot]
                  /\ answer' = "deleted"
<1>1. CASE Admit(t)
    BY <1>1 DEF Admit
<1>2. CASE \E n \in Names, p \in Passwords : CreateAccount(t, n, p)
    BY <1>2 DEF CreateAccount, Respond
<1>3. CASE \E id \in AnyID, n \in Names \cup {Keep}, p \in Passwords \cup {Keep},
               r \in Roles \cup {Keep}, e \in BOOLEAN \cup {Keep} : UpdateAccount(t, id, n, p, r, e)
  <2>1. PICK id \in AnyID, n \in Names \cup {Keep}, p \in Passwords \cup {Keep},
             r \in Roles \cup {Keep}, e \in BOOLEAN \cup {Keep} : UpdateAccount(t, id, n, p, r, e)
      BY <1>3
  <2>2. CASE NoAccount(t, id)
      BY <2>2 DEF NoAccount, Respond
  <2>3. CASE answer' = "exists" /\ UNCHANGED users /\ n # Keep /\ Used(n)
      BY <2>3
  <2>4. CASE /\ id \in Slots /\ users[id].name # Unset
             /\ n \in {Keep, users[id].name} \/ ~Used(n)
             /\ Patch(id, n, p, r, e)
             /\ answer' = "updated"
      BY <2>4
  <2> QED
      BY <2>1, <2>2, <2>3, <2>4 DEF UpdateAccount, Respond, ValidUserID
<1>4. CASE \E id \in AnyID : DeleteAccount(t, id)
    BY <1>4 DEF DeleteAccount, NoAccount, Respond, ValidUserID
<1> QED
    BY <1>1, <1>2, <1>3, <1>4 DEF Redfish

\* No Redfish request breaks the table's type.
LEMMA RedfishTable ==
    ASSUME TableType, NEW t \in RedfishClients, Redfish(t)
    PROVE  TableType'
<1>1. CASE UNCHANGED users
    BY <1>1 DEF TableType
<1>2. CASE \E n \in Names, p \in Passwords, r \in Roles, e \in BOOLEAN, i \in Slots :
               users' = [users EXCEPT ![i] = [name |-> n, password |-> p,
                                              privilege |-> r, enabled |-> e]]
  <2>1. PICK n \in Names, p \in Passwords, r \in Roles, e \in BOOLEAN, i \in Slots :
               users' = [users EXCEPT ![i] = [name |-> n, password |-> p,
                                              privilege |-> r, enabled |-> e]]
      BY <1>2
  <2>2. PICK v : v = [name |-> n, password |-> p, privilege |-> r, enabled |-> e]
      OBVIOUS
  <2>3. v \in User
      BY <2>2 DEF User
  <2> QED
      BY <2>1, <2>2, <2>3 DEF TableType
<1>3. CASE \E id \in Slots, n \in Names \cup {Keep}, p \in Passwords \cup {Keep},
              r \in Roles \cup {Keep}, e \in BOOLEAN \cup {Keep} : Patch(id, n, p, r, e)
    BY <1>3, PatchType
<1>4. CASE \E id \in Slots : users' = [users EXCEPT ![id] = FreeSlot]
    BY <1>4, FreeSlotType DEF TableType
<1> QED
    BY <1>1, <1>2, <1>3, <1>4, RedfishStep

\* No IPMI command breaks the table's type, nor holds anything but typed access.
LEMMA IpmiTable ==
    ASSUME TableType, ipmi \in [IpmiClients -> Held \cup {Idle}], NEW t \in IpmiClients, Ipmi(t)
    PROVE  TableType' /\ (ipmi \in [IpmiClients -> Held \cup {Idle}])'
<1>1. CASE \E id \in IpmiIDs : SetUserName(t, id)
  <2>1. PICK id \in Slots, n \in SlotNames :
            users' = [users EXCEPT ![id].name = n] /\ UNCHANGED ipmi
      BY <1>1 DEF SetUserName, ValidUserID
  <2>2. PICK w \in User : w = users[id]
      BY DEF TableType
  <2>3. [w EXCEPT !.name = n] \in User
      BY DEF User
  <2>4. users' = [users EXCEPT ![id] = [w EXCEPT !.name = n]]
      BY <2>1, <2>2 DEF TableType
  <2> QED
      BY <2>1, <2>3, <2>4 DEF TableType
<1>2. CASE \E id \in IpmiIDs : SetUserPassword(t, id)
  <2>1. PICK id \in Slots, p \in SlotPasswords :
            users' = [users EXCEPT ![id].password = p] /\ UNCHANGED ipmi
      BY <1>2 DEF SetUserPassword, ValidUserID
  <2>2. PICK w \in User : w = users[id]
      BY DEF TableType
  <2>3. [w EXCEPT !.password = p] \in User
      BY DEF User
  <2>4. users' = [users EXCEPT ![id] = [w EXCEPT !.password = p]]
      BY <2>1, <2>2 DEF TableType
  <2> QED
      BY <2>1, <2>3, <2>4 DEF TableType
<1>3. CASE \E id \in IpmiIDs, e \in BOOLEAN : ReadToEnable(t, id, e)
  <2>1. PICK id \in Slots, e \in BOOLEAN : ReadToEnable(t, id, e)
      BY <1>3 DEF ReadToEnable, ValidUserID
  <2>2. PICK a : a = Access("enable", id, users[id].privilege, e)
      OBVIOUS
  <2>3. a \in Held
      BY <2>2 DEF Access, Held, TableType, User
  <2> QED
      BY <2>1, <2>2, <2>3 DEF ReadToEnable, TableType
<1>4. CASE \E id \in IpmiIDs : ReadToSetAccess(t, id)
  <2>1. PICK id \in Slots, l \in Limits :
            /\ ipmi' = [ipmi EXCEPT ![t] = Access("access", id, l, users[id].enabled)]
            /\ UNCHANGED users
      BY <1>4 DEF ReadToSetAccess, ValidUserID
  <2>2. PICK a : a = Access("access", id, l, users[id].enabled)
      OBVIOUS
  <2>3. a \in Held
      BY <2>2 DEF Access, Held, TableType, User
  <2> QED
      BY <2>1, <2>2, <2>3 DEF TableType
<1>5. CASE SetUserAccess(t)
  <2>1. PICK a : a = ipmi[t]
      OBVIOUS
  <2>2. a \in Held
      BY <1>5, <2>1 DEF SetUserAccess, Resting
  <2>3. users' = [users EXCEPT ![a.id].privilege = a.privilege, ![a.id].enabled = a.enabled]
      BY <1>5, <2>1 DEF SetUserAccess
  <2>4. a.id \in Slots /\ a.privilege \in Privileges /\ a.enabled \in BOOLEAN
      BY <2>2 DEF Held
  <2>5. PICK v : v = [users[a.id] EXCEPT !.privilege = a.privilege, !.enabled = a.enabled]
      OBVIOUS
  <2>6. users' = [users EXCEPT ![a.id] = v]
      BY <2>3, <2>4, <2>5 DEF TableType
  <2>7. v \in User
    <3>1. PICK w \in User : w = users[a.id]
        BY <2>4 DEF TableType
    <3>2. v = [w EXCEPT !.privilege = a.privilege, !.enabled = a.enabled]
        BY <2>5, <3>1
    <3> QED
        BY <2>4, <3>1, <3>2 DEF User
  <2>8. ipmi' = [ipmi EXCEPT ![t] = Idle]
      BY <1>5 DEF SetUserAccess
  <2> QED
      BY <2>4, <2>6, <2>7, <2>8 DEF TableType
<1> QED
    BY <1>1, <1>2, <1>3, <1>4, <1>5 DEF Ipmi

\* UsersTypeOK is inductive as it stands.
THEOREM UsersTyped == UsersSpec => []UsersTypeOK
<1>1. UsersInit => UsersTypeOK
    BY FreeSlotType DEF UsersInit, UsersTypeOK, NewState, User, FreeSlot, Held, Idle, Answers
<1>2. ASSUME UsersTypeOK, [UsersNext]_userVars
      PROVE  UsersTypeOK'
  <2>1. TableType
      BY <1>2 DEF UsersTypeOK, TableType
  <2>2. CASE \E t \in RedfishClients : Redfish(t)
    <3>1. PICK t \in RedfishClients : Redfish(t)
        BY <2>2
    <3>2. TableType'
        BY <2>1, <3>1, RedfishTable
    <3>3. /\ UNCHANGED ipmi
          /\ admitted' \in {admitted \cup {t}, admitted \ {t}}
          /\ answer' \in Answers
        BY <1>2, <3>1 DEF Redfish, Admit, CreateAccount, UpdateAccount, DeleteAccount,
           NoAccount, Respond, Answers, UsersTypeOK
    <3> QED
        BY <1>2, <3>2, <3>3 DEF UsersTypeOK, TableType
  <2>3. CASE \E t \in IpmiClients : Ipmi(t)
    <3>1. PICK t \in IpmiClients : Ipmi(t)
        BY <2>3
    <3>2. UNCHANGED <<admitted, answer>>
        BY <3>1 DEF Ipmi, SetUserName, SetUserPassword, ReadToEnable, ReadToSetAccess, SetUserAccess
    <3> QED
        BY <1>2, <2>1, <3>1, <3>2, IpmiTable DEF UsersTypeOK, TableType
  <2>4. CASE UNCHANGED userVars
      BY <1>2, <2>4 DEF userVars, UsersTypeOK
  <2> QED
      BY <1>2, <2>2, <2>3, <2>4 DEF UsersNext
<1> QED
    BY <1>1, <1>2, PTL DEF UsersSpec

-----------------------------------------------------------------------------
(* Names                                                                   *)

Distinct(u) ==
    \A i, j \in Slots : u[i].name = u[j].name /\ u[i].name # Unset => i = j

\* Names are distinct and the null user, slot 1, has none.
UserInv == UsersTypeOK /\ NamesDistinct /\ users[1].name = Unset

\* A slot that loses its name, or takes one no slot has, keeps names distinct.
LEMMA DistinctKept ==
    ASSUME NEW u, NEW v, NEW i \in Slots, Distinct(u), \A j \in Slots \ {i} : v[j] = u[j],
           \/ v[i].name \in {Unset, u[i].name}
           \/ \A j \in Slots : u[j].name # v[i].name
    PROVE  Distinct(v)
    BY DEF Distinct

\* What an IPMI command does to the table where IPMI gives no names.
LEMMA IpmiStep ==
    ASSUME UsersTypeOK, IpmiNames \subseteq {Unset}, NEW t \in IpmiClients, Ipmi(t)
    PROVE  /\ UNCHANGED answer
           /\ \/ UNCHANGED users
              \/ \E i \in Slots : users' = [users EXCEPT ![i] = [@ EXCEPT !.name = Unset]]
              \/ \E i \in Slots, p \in SlotPasswords :
                     users' = [users EXCEPT ![i] = [@ EXCEPT !.password = p]]
              \/ \E i \in Slots, l \in Privileges, e \in BOOLEAN :
                     users' = [users EXCEPT ![i] = [@ EXCEPT !.privilege = l, !.enabled = e]]
<1>1. CASE \E id \in IpmiIDs : SetUserName(t, id)
  <2>1. PICK id \in Slots : users' = [users EXCEPT ![id].name = Unset] /\ UNCHANGED answer
      BY <1>1 DEF SetUserName, ValidUserID
  <2> QED
      BY <2>1 DEF UsersTypeOK
<1>2. CASE \E id \in IpmiIDs : SetUserPassword(t, id)
  <2>1. PICK id \in Slots, p \in SlotPasswords :
            users' = [users EXCEPT ![id].password = p] /\ UNCHANGED answer
      BY <1>2 DEF SetUserPassword, ValidUserID
  <2> QED
      BY <2>1 DEF UsersTypeOK
<1>3. CASE \E id \in IpmiIDs, e \in BOOLEAN : ReadToEnable(t, id, e)
    BY <1>3 DEF ReadToEnable
<1>4. CASE \E id \in IpmiIDs : ReadToSetAccess(t, id)
    BY <1>4 DEF ReadToSetAccess
<1>5. CASE SetUserAccess(t)
  <2>1. PICK a \in Held : a = ipmi[t]
      BY <1>5 DEF SetUserAccess, Resting, UsersTypeOK
  <2>2. users' = [users EXCEPT ![a.id].privilege = a.privilege, ![a.id].enabled = a.enabled]
      BY <1>5, <2>1 DEF SetUserAccess
  <2>3. a.id \in Slots /\ a.privilege \in Privileges /\ a.enabled \in BOOLEAN
      BY <2>1 DEF Held
  <2>4. users' = [users EXCEPT ![a.id] = [users[a.id] EXCEPT !.privilege = a.privilege,
                                                             !.enabled = a.enabled]]
      BY <2>2, <2>3 DEF UsersTypeOK
  <2> QED
      BY <1>5, <2>3, <2>4 DEF SetUserAccess
<1> QED
    BY <1>1, <1>2, <1>3, <1>4, <1>5 DEF Ipmi

\* Every step keeps names distinct and the null user without a name.
LEMMA NamesStep ==
    ASSUME IpmiNames \subseteq {Unset}, UserInv, UsersTypeOK', [UsersNext]_userVars
    PROVE  Distinct(users') /\ users'[1].name = Unset
<1>1. Distinct(users) /\ users[1].name = Unset /\ TableType /\ users \in [Slots -> User]
    BY DEF UserInv, NamesDistinct, Distinct, UsersTypeOK, TableType
<1>2. 1 \in Slots
    OBVIOUS
<1>3. CASE UNCHANGED users
    BY <1>1, <1>3
<1>4. CASE \E t \in RedfishClients : Redfish(t)
  <2>1. CASE \E n \in Names, p \in Passwords, r \in Roles, e \in BOOLEAN, i \in Slots :
                 /\ ~Used(n) /\ FreeForAccount(i)
                 /\ users' = [users EXCEPT ![i] = [name |-> n, password |-> p,
                                                   privilege |-> r, enabled |-> e]]
    <3>1. PICK n \in Names, i \in Slots :
              /\ ~Used(n) /\ FreeForAccount(i)
              /\ users'[i].name = n
              /\ \A j \in Slots \ {i} : users'[j] = users[j]
        BY <1>1, <2>1
    <3>2. Distinct(users')
        BY <1>1, <3>1, DistinctKept DEF Used
    <3> QED
        BY <1>1, <1>2, <3>1, <3>2 DEF FreeForAccount
  <2>2. CASE \E id \in Slots, n \in Names \cup {Keep}, p \in Passwords \cup {Keep},
                r \in Roles \cup {Keep}, e \in BOOLEAN \cup {Keep} :
                 /\ users[id].name # Unset
                 /\ n \in {Keep, users[id].name} \/ ~Used(n)
                 /\ Patch(id, n, p, r, e)
    <3>1. PICK id \in Slots, n \in Names \cup {Keep} :
              /\ users[id].name # Unset
              /\ n \in {Keep, users[id].name} \/ ~Used(n)
              /\ users'[id].name = Patched(users[id].name, n)
              /\ \A j \in Slots \ {id} : users'[j] = users[j]
        BY <1>1, <2>2, PatchType
    <3>2. users'[id].name = users[id].name \/ \A j \in Slots : users[j].name # users'[id].name
        BY <3>1 DEF Patched, Used
    <3>3. Distinct(users')
        BY <1>1, <3>1, <3>2, DistinctKept
    <3> QED
        BY <1>1, <1>2, <3>1, <3>3
  <2>3. CASE \E id \in Slots :
                 users[id].name # Unset /\ users' = [users EXCEPT ![id] = FreeSlot]
    <3>1. PICK id \in Slots :
              /\ users'[id].name = Unset
              /\ \A j \in Slots \ {id} : users'[j] = users[j]
        BY <1>1, <2>3 DEF FreeSlot
    <3>2. Distinct(users')
        BY <1>1, <3>1, DistinctKept
    <3> QED
        BY <1>1, <1>2, <3>1, <3>2
  <2> QED
      BY <1>1, <1>3, <1>4, <2>1, <2>2, <2>3, RedfishStep
<1>5. CASE \E t \in IpmiClients : Ipmi(t)
  <2>1. PICK i \in Slots : /\ users'[i].name \in {Unset, users[i].name}
                           /\ \A j \in Slots \ {i} : users'[j] = users[j]
    <3>1. CASE UNCHANGED users
        BY <1>2, <3>1
    <3>2. CASE \E i \in Slots : users' = [users EXCEPT ![i] = [@ EXCEPT !.name = Unset]]
        BY <1>1, <3>2 DEF User
    <3>3. CASE \E i \in Slots, p \in SlotPasswords :
                   users' = [users EXCEPT ![i] = [@ EXCEPT !.password = p]]
        BY <1>1, <3>3 DEF User
    <3>4. CASE \E i \in Slots, l \in Privileges, e \in BOOLEAN :
                   users' = [users EXCEPT ![i] = [@ EXCEPT !.privilege = l, !.enabled = e]]
        BY <1>1, <3>4 DEF User
    <3> QED
        BY <1>5, <3>1, <3>2, <3>3, <3>4, IpmiStep DEF UserInv
  <2>2. Distinct(users')
      BY <1>1, <2>1, DistinctKept
  <2> QED
      BY <1>1, <1>2, <2>1, <2>2
<1> QED
    BY <1>3, <1>4, <1>5 DEF UsersNext, userVars

\* UserInv is inductive where IPMI gives no names.
LEMMA UserInvHolds ==
    ASSUME IpmiNames \subseteq {Unset}
    PROVE  UsersSpec => []UserInv
<1>1. UsersInit /\ UsersTypeOK => UserInv
    BY DEF UsersInit, UserInv, NamesDistinct, NewState, FreeSlot
<1>2. ASSUME UserInv, UsersTypeOK', [UsersNext]_userVars
      PROVE  UserInv'
    BY <1>2, NamesStep DEF UserInv, NamesDistinct, Distinct
<1> QED
    BY <1>1, <1>2, UsersTyped, PTL DEF UsersSpec

\* No two slots have the same name, for every number of slots and clients,
\* where IPMI gives no names: what each creation and rename checks stays true while
\* the others run.
THEOREM NamesAreDistinct ==
    ASSUME IpmiNames \subseteq {Unset}
    PROVE  UsersSpec => []NamesDistinct
<1>1. UserInv => NamesDistinct
    BY DEF UserInv
<1> QED
    BY <1>1, UserInvHolds, PTL

-----------------------------------------------------------------------------
(* The refinement of Accounts.  TableOf is Table, of any table of slots.    *)

NamedIn(u) == {u[i].name : i \in Slots} \ {Unset}

SlotIn(u, n) == CHOOSE i \in Slots : u[i].name = n

Row(i, r) == [id |-> i, password |-> r.password, privilege |-> r.privilege, enabled |-> r.enabled]

TableOf(u) == [n \in NamedIn(u) |-> Row(SlotIn(u, n), u[SlotIn(u, n)])]

\* The refinement mapping is TableOf of the slots, before and after a step.
LEMMA TableIs == Table = TableOf(users) /\ Table' = TableOf(users')
    BY DEF Table, TableOf, Named, NamedIn, SlotOf, SlotIn, Row

\* A name is found in its slot.
LEMMA RowOf ==
    ASSUME NEW u, Distinct(u), NEW i \in Slots, u[i].name # Unset
    PROVE  u[i].name \in NamedIn(u) /\ TableOf(u)[u[i].name] = Row(i, u[i])
<1>1. SlotIn(u, u[i].name) = i
    BY DEF SlotIn, Distinct
<1> QED
    BY <1>1 DEF NamedIn, TableOf

\* Changing the access of a row.
WithAccess(row, l, e) == [row EXCEPT !.privilege = l, !.enabled = e]

LEMMA RowAccess ==
    ASSUME NEW i, NEW r, NEW w, NEW l, NEW e,
           w.password = r.password, w.privilege = l, w.enabled = e
    PROVE  Row(i, w) = WithAccess(Row(i, r), l, e)
<1>1. PICK s : s = [Row(i, r) EXCEPT !.privilege = l]
    OBVIOUS
<1>2. s = [id |-> i, password |-> r.password, privilege |-> l, enabled |-> r.enabled]
    BY <1>1 DEF Row
<1>3. [s EXCEPT !.enabled = e]
          = [id |-> i, password |-> r.password, privilege |-> l, enabled |-> e]
    BY <1>2
<1>4. WithAccess(Row(i, r), l, e) = [s EXCEPT !.enabled = e]
    BY <1>1 DEF WithAccess
<1> QED
    BY <1>3, <1>4 DEF Row

\* The table with slot i, and its name, replaced.
Replaced(u, i, w) ==
    [m \in (NamedIn(u) \ {u[i].name}) \cup ({w.name} \ {Unset}) |->
         IF m = w.name THEN Row(i, w) ELSE TableOf(u)[m]]

\* Writing one slot takes its old name out of the table and puts the new in.
LEMMA TableAfter ==
    ASSUME NEW u, NEW v, NEW i \in Slots, Distinct(u), Distinct(v),
           \A j \in Slots \ {i} : v[j] = u[j]
    PROVE  TableOf(v) = Replaced(u, i, v[i])
<1> DEFINE D == (NamedIn(u) \ {u[i].name}) \cup ({v[i].name} \ {Unset})
<1>1. NamedIn(v) = D
  <2>1. ASSUME NEW m \in NamedIn(v)
        PROVE  m \in D
    <3>1. PICK j \in Slots : m = v[j].name /\ m # Unset
        BY DEF NamedIn
    <3> QED
        BY <3>1 DEF NamedIn, Distinct
  <2>2. ASSUME NEW m \in D
        PROVE  m \in NamedIn(v)
      BY DEF NamedIn
  <2> QED
      BY <2>1, <2>2
<1>2. ASSUME NEW m \in D
      PROVE  TableOf(v)[m] = IF m = v[i].name THEN Row(i, v[i]) ELSE TableOf(u)[m]
  <2>1. m # Unset
      BY DEF NamedIn
  <2>2. CASE m = v[i].name
      BY <2>1, <2>2, RowOf
  <2>3. CASE m # v[i].name
    <3>1. PICK j \in Slots : j # i /\ m = u[j].name
        BY <2>3 DEF NamedIn
    <3>2. v[j] = u[j]
        BY <3>1
    <3> QED
        BY <2>1, <2>3, <3>1, <3>2, RowOf
  <2> QED
      BY <2>2, <2>3
<1> QED
    BY <1>1, <1>2 DEF TableOf, Replaced

\* The row of a slot is an account with the slot's number.
LEMMA RowType ==
    ASSUME NEW i \in Slots, NEW r \in User
    PROVE  Row(i, r) \in AccountTable!Account(i)
    BY DEF Row, User, AccountTable!Account

\* The identifiers in use are the slots with a name.
LEMMA TakenIds ==
    ASSUME UserInv
    PROVE  AccountTable!Taken = {i \in Slots : users[i].name # Unset}
<1>1. Distinct(users) /\ DOMAIN Table = NamedIn(users)
    BY TableIs DEF UserInv, NamesDistinct, Distinct, TableOf
<1>2. ASSUME NEW n \in NamedIn(users)
      PROVE  \E i \in Slots : users[i].name = n /\ n # Unset /\ Table[n].id = i
  <2>1. PICK i \in Slots : users[i].name = n /\ n # Unset
      BY DEF NamedIn
  <2>2. Table[n] = Row(i, users[i])
      BY <1>1, <2>1, RowOf, TableIs
  <2> QED
      BY <2>1, <2>2 DEF Row
<1>3. ASSUME NEW i \in Slots, users[i].name # Unset
      PROVE  users[i].name \in NamedIn(users) /\ Table[users[i].name].id = i
  <2>1. /\ users[i].name \in NamedIn(users)
        /\ Table[users[i].name] = Row(i, users[i])
      BY <1>1, <1>3, RowOf, TableIs
  <2> QED
      BY <2>1 DEF Row
<1> QED
    BY <1>1, <1>2, <1>3 DEF AccountTable!Taken

\* The table begins with one account.
LEMMA TableInit == UsersInit => AccountTable!Init
<1> SUFFICES ASSUME UsersInit
             PROVE  AccountTable!Init
    OBVIOUS
<1>1. /\ users \in [Slots -> User]
      /\ 2 \in Slots
      /\ users[2].name = DefaultUser
      /\ \A i \in Slots \ {2} : users[i].name = Unset
    BY DEF UsersInit, NewState, FreeSlot, User
<1>2. Distinct(users) /\ NamedIn(users) = {DefaultUser}
    BY <1>1 DEF Distinct, NamedIn
<1>3. Table = [m \in {DefaultUser} |-> Row(2, users[2])]
  <2>1. TableOf(users)[DefaultUser] = Row(2, users[2])
      BY <1>1, <1>2, RowOf
  <2> QED
      BY <1>2, <2>1, TableIs DEF TableOf
<1>4. Row(2, users[2]) \in AccountTable!Account(2)
    BY <1>1, RowType
<1>5. 2 \in 2..MaxUsers
    OBVIOUS
<1> QED
    BY <1>3, <1>4, <1>5 DEF AccountTable!Init, UsersInit

\* The table with the account row of the name new instead of that of old.
Rewritten(old, new, row) ==
    [m \in (DOMAIN Table \ {old}) \cup {new} |-> IF m = new THEN row ELSE Table[m]]

\* A step that writes one slot, seen in the table.
LEMMA SlotWritten ==
    ASSUME UserInv, UserInv', NEW i \in Slots, NEW w \in User, users' = [users EXCEPT ![i] = w]
    PROVE  /\ w.name = Unset /\ users[i].name = Unset => UNCHANGED Table
           /\ w.name = Unset /\ users[i].name # Unset => Table' = AccountTable!Without(users[i].name)
           /\ w.name # Unset => Table' = Rewritten(users[i].name, w.name, Row(i, w))
<1>1. /\ users' [i] = w
      /\ \A j \in Slots \ {i} : users'[j] = users[j]
    BY DEF UserInv, UsersTypeOK
<1>2. Distinct(users) /\ Distinct(users')
    BY DEF UserInv, NamesDistinct, Distinct
<1>3. PICK u, v : u = users /\ v = users'
    OBVIOUS
<1>4. TableOf(v) = Replaced(u, i, v[i])
  <2>1. Distinct(u) /\ Distinct(v) /\ \A j \in Slots \ {i} : v[j] = u[j]
      BY <1>1, <1>2, <1>3
  <2> QED
      BY <2>1, TableAfter
<1>5. Table = TableOf(u) /\ Table' = TableOf(v) /\ v[i] = w
    BY <1>1, <1>3, TableIs
<1>6. DOMAIN Table = NamedIn(u) /\ Unset \notin NamedIn(u)
    BY <1>5 DEF TableOf, NamedIn
<1>7. TableOf(u) = [m \in NamedIn(u) |-> TableOf(u)[m]]
    BY DEF TableOf
<1>8. CASE w.name = Unset /\ u[i].name = Unset
    BY <1>3, <1>4, <1>5, <1>6, <1>7, <1>8 DEF Replaced
<1>9. CASE w.name = Unset /\ u[i].name # Unset
    BY <1>3, <1>4, <1>5, <1>6, <1>9 DEF Replaced, AccountTable!Without
<1>10. CASE w.name # Unset
    BY <1>3, <1>4, <1>5, <1>6, <1>10 DEF Replaced, Rewritten
<1> QED
    BY <1>3, <1>8, <1>9, <1>10

\* The row of a slot with a name.
LEMMA SameName ==
    ASSUME UserInv, NEW i \in Slots, users[i].name # Unset
    PROVE  /\ users[i].name \in DOMAIN Table
           /\ Table[users[i].name] = Row(i, users[i])
           /\ Table = [m \in DOMAIN Table |-> Table[m]]
<1>1. Distinct(users)
    BY DEF UserInv, NamesDistinct, Distinct
<1> QED
    BY <1>1, RowOf, TableIs DEF TableOf

\* Every Redfish step is an operation of the account service, or invisible.
LEMMA RedfishImplements ==
    ASSUME UserInv, UserInv', NEW t \in RedfishClients, Redfish(t)
    PROVE  AccountTable!Next \/ UNCHANGED <<Table, answer>>
<1>1. TableType /\ users \in [Slots -> User]
    BY DEF UserInv, UsersTypeOK, TableType
<1>2. CASE UNCHANGED users /\ UNCHANGED answer
    BY <1>2, TableIs
<1>3. CASE UNCHANGED users /\ answer' = "notfound"
    BY <1>3, TableIs DEF AccountTable!Next, AccountTable!Refuse
<1>4. CASE UNCHANGED users /\ answer' = "exists" /\ \E n \in Names : Used(n)
  <2>1. PICK i \in Slots : users[i].name # Unset
      BY <1>4 DEF Used
  <2>2. DOMAIN Table # {}
      BY <2>1, SameName
  <2> QED
      BY <1>4, <2>2, TableIs DEF AccountTable!Next, AccountTable!Refuse
<1>5. CASE UNCHANGED users /\ answer' = "full" /\ \A i \in Slots : ~FreeForAccount(i)
  <2>1. AccountTable!Taken = 2..MaxUsers
    <3>1. \A i \in 2..MaxUsers : i \in Slots /\ users[i].name # Unset
        BY <1>5 DEF FreeForAccount
    <3>2. \A i \in Slots : users[i].name # Unset => i \in 2..MaxUsers
      <4>1. ASSUME NEW i \in Slots, users[i].name # Unset
            PROVE  i \in 2..MaxUsers
        <5>1. i # 1
            BY <4>1 DEF UserInv
        <5> QED
            BY <5>1
      <4> QED
          BY <4>1
    <3> HIDE DEF Slots
    <3>3. {i \in Slots : users[i].name # Unset} = 2..MaxUsers
        BY <3>1, <3>2
    <3> QED
        BY <3>3, TakenIds
  <2> QED
      BY <1>5, <2>1, TableIs DEF AccountTable!Next, AccountTable!Create
<1>6. CASE \E n \in Names, p \in Passwords, r \in Roles, e \in BOOLEAN, i \in Slots :
               /\ ~Used(n) /\ FreeForAccount(i)
               /\ users' = [users EXCEPT ![i] = [name |-> n, password |-> p,
                                                 privilege |-> r, enabled |-> e]]
               /\ answer' = "created"
  <2>1. PICK n \in Names, p \in Passwords, r \in Roles, e \in BOOLEAN, i \in Slots :
               /\ ~Used(n) /\ FreeForAccount(i)
               /\ users' = [users EXCEPT ![i] = [name |-> n, password |-> p,
                                                 privilege |-> r, enabled |-> e]]
               /\ answer' = "created"
      BY <1>6
  <2>2. PICK w : w = [name |-> n, password |-> p, privilege |-> r, enabled |-> e]
      OBVIOUS
  <2>3. w \in User /\ w.name = n
      BY <2>2 DEF User
  <2>4. Table' = Rewritten(Unset, n, Row(i, w))
      BY <2>1, <2>2, <2>3, SlotWritten DEF FreeForAccount
  <2>5. DOMAIN Table = NamedIn(users)
      BY TableIs DEF TableOf
  <2>6. n \notin DOMAIN Table /\ Unset \notin DOMAIN Table
      BY <2>1, <2>5 DEF NamedIn, Used
  <2>7. Table' = AccountTable!With(n, Row(i, w))
      BY <2>4, <2>6 DEF Rewritten, AccountTable!With
  <2>8. i \in (2..MaxUsers) \ AccountTable!Taken
      BY <2>1, TakenIds DEF FreeForAccount
  <2>9. Row(i, w) \in AccountTable!Account(i)
      BY <2>3, RowType
  <2> QED
      BY <2>1, <2>6, <2>7, <2>8, <2>9 DEF AccountTable!Next, AccountTable!Create
<1>7. CASE \E id \in Slots, n \in Names \cup {Keep}, p \in Passwords \cup {Keep},
              r \in Roles \cup {Keep}, e \in BOOLEAN \cup {Keep} :
               /\ users[id].name # Unset
               /\ n \in {Keep, users[id].name} \/ ~Used(n)
               /\ Patch(id, n, p, r, e)
               /\ answer' = "updated"
  <2>1. PICK id \in Slots, n \in Names \cup {Keep} :
               /\ users[id].name # Unset
               /\ n \in {Keep, users[id].name} \/ ~Used(n)
               /\ users'[id].name = Patched(users[id].name, n)
               /\ \A j \in Slots \ {id} : users'[j] = users[j]
               /\ answer' = "updated"
      BY <1>1, <1>7, PatchType
  <2>2. PICK w : w = users'[id]
      OBVIOUS
  <2>3. users' \in [Slots -> User]
      BY DEF UserInv, UsersTypeOK
  <2>4. w \in User /\ users' = [users EXCEPT ![id] = w]
      BY <1>1, <2>1, <2>2, <2>3
  <2>5. w.name # Unset /\ w.name \in Names
      BY <1>1, <2>1, <2>2 DEF Patched, User
  <2>6. w.name = users[id].name \/ ~Used(w.name)
      BY <2>1, <2>2 DEF Patched
  <2>7. PICK old : old = users[id].name
      OBVIOUS
  <2>8. old \in DOMAIN Table /\ Table[old] = Row(id, users[id])
      BY <2>1, <2>7, SameName
  <2>9. Table' = Rewritten(old, w.name, Row(id, w))
      BY <2>4, <2>5, <2>7, SlotWritten
  <2>10. Row(id, w) \in AccountTable!Account(Table[old].id)
      BY <2>4, <2>8, RowType DEF Row
  <2>11. CASE w.name = old
    <3>1. Table' = AccountTable!With(old, Row(id, w))
        BY <2>8, <2>9, <2>11 DEF Rewritten, AccountTable!With
    <3> QED
        BY <2>1, <2>8, <2>10, <3>1 DEF AccountTable!Next, AccountTable!Update
  <2>12. CASE ~Used(w.name)
    <3>1. w.name \in Names \ DOMAIN Table
        BY <2>5, <2>12, TableIs DEF TableOf, NamedIn, Used
    <3> QED
        BY <2>1, <2>8, <2>9, <2>10, <3>1 DEF Rewritten, AccountTable!Next, AccountTable!Update
  <2> QED
      BY <2>6, <2>7, <2>11, <2>12
<1>8. CASE \E id \in Slots :
               /\ users[id].name # Unset
               /\ users' = [users EXCEPT ![id] = FreeSlot]
               /\ answer' = "deleted"
  <2>1. PICK id \in Slots :
               /\ users[id].name # Unset
               /\ users' = [users EXCEPT ![id] = FreeSlot]
               /\ answer' = "deleted"
      BY <1>8
  <2>2. Table' = AccountTable!Without(users[id].name)
      BY <2>1, FreeSlotType, SlotWritten DEF FreeSlot
  <2> QED
      BY <2>1, <2>2, SameName DEF AccountTable!Next, AccountTable!Delete
<1> QED
    BY <1>1, <1>2, <1>3, <1>4, <1>5, <1>6, <1>7, <1>8, RedfishStep

\* Every IPMI step is a change of one account from outside, or invisible.
LEMMA IpmiImplements ==
    ASSUME IpmiNames \subseteq {Unset}, UserInv, UserInv', NEW t \in IpmiClients, Ipmi(t)
    PROVE  AccountTable!Next \/ UNCHANGED <<Table, answer>>
<1>1. users \in [Slots -> User] /\ UsersTypeOK
    BY DEF UserInv, UsersTypeOK
<1>2. UNCHANGED answer
    BY <1>1, IpmiStep
<1>3. CASE UNCHANGED users
    BY <1>2, <1>3, TableIs
<1>4. CASE \E i \in Slots : users' = [users EXCEPT ![i] = [@ EXCEPT !.name = Unset]]
  <2>1. PICK i \in Slots : users' = [users EXCEPT ![i] = [users[i] EXCEPT !.name = Unset]]
      BY <1>4
  <2>2. PICK w : w = [users[i] EXCEPT !.name = Unset]
      OBVIOUS
  <2>3. w \in User /\ w.name = Unset
      BY <1>1, <2>2 DEF User
  <2>4. UNCHANGED Table \/ (users[i].name # Unset /\ Table' = AccountTable!Without(users[i].name))
      BY <2>1, <2>2, <2>3, SlotWritten
  <2> QED
      BY <1>2, <2>4, SameName DEF AccountTable!Next, AccountTable!Meddle
<1>5. CASE \E i \in Slots, p \in SlotPasswords :
               users' = [users EXCEPT ![i] = [@ EXCEPT !.password = p]]
  <2>1. PICK i \in Slots, p \in SlotPasswords :
               users' = [users EXCEPT ![i] = [users[i] EXCEPT !.password = p]]
      BY <1>5
  <2>2. PICK w : w = [users[i] EXCEPT !.password = p]
      OBVIOUS
  <2>3. w \in User /\ w.name = users[i].name
      BY <1>1, <2>2 DEF User
  <2>4. CASE users[i].name = Unset
      BY <1>2, <2>1, <2>2, <2>3, <2>4, SlotWritten
  <2>5. CASE users[i].name # Unset
    <3>1. PICK n : n = users[i].name
        OBVIOUS
    <3>2. /\ n \in DOMAIN Table /\ Table[n] = Row(i, users[i])
          /\ Table = [m \in DOMAIN Table |-> Table[m]]
        BY <2>5, <3>1, SameName
    <3>3. Table' = Rewritten(n, n, Row(i, w))
        BY <2>1, <2>2, <2>3, <2>5, <3>1, SlotWritten
    <3>4. Row(i, w) = [Row(i, users[i]) EXCEPT !.password = p]
        BY <1>1, <2>2 DEF Row, User
    <3>5. Table' = [Table EXCEPT ![n].password = p]
        BY <3>2, <3>3, <3>4 DEF Rewritten
    <3> QED
        BY <1>2, <2>1, <3>2, <3>5 DEF AccountTable!Next, AccountTable!Meddle
  <2> QED
      BY <2>4, <2>5
<1>6. CASE \E i \in Slots, l \in Privileges, e \in BOOLEAN :
               users' = [users EXCEPT ![i] = [@ EXCEPT !.privilege = l, !.enabled = e]]
  <2>1. PICK i \in Slots, l \in Privileges, e \in BOOLEAN :
               users' = [users EXCEPT ![i] = [users[i] EXCEPT !.privilege = l, !.enabled = e]]
      BY <1>6
  <2>2. PICK w : w = [users[i] EXCEPT !.privilege = l, !.enabled = e]
      OBVIOUS
  <2>3. w \in User /\ w.name = users[i].name
      BY <1>1, <2>2 DEF User
  <2>4. CASE users[i].name = Unset
      BY <1>2, <2>1, <2>2, <2>3, <2>4, SlotWritten
  <2>5. CASE users[i].name # Unset
    <3>1. PICK n : n = users[i].name
        OBVIOUS
    <3>2. /\ n \in DOMAIN Table /\ Table[n] = Row(i, users[i])
          /\ Table = [m \in DOMAIN Table |-> Table[m]]
        BY <2>5, <3>1, SameName
    <3>3. Table' = Rewritten(n, n, Row(i, w))
        BY <2>1, <2>2, <2>3, <2>5, <3>1, SlotWritten
    <3>4. Row(i, w) = WithAccess(Row(i, users[i]), l, e)
      <4>1. w.password = users[i].password /\ w.privilege = l /\ w.enabled = e
          BY <1>1, <2>2 DEF User
      <4> QED
          BY <4>1, RowAccess
    <3>5. Table' = [Table EXCEPT ![n].privilege = l, ![n].enabled = e]
      <4>1. PICK row : row = Row(i, users[i])
          OBVIOUS
      <4>2. [[Table EXCEPT ![n].privilege = l] EXCEPT ![n].enabled = e]
                = [Table EXCEPT ![n] = [[row EXCEPT !.privilege = l] EXCEPT !.enabled = e]]
          BY <3>2, <4>1
      <4> QED
          BY <3>2, <3>3, <3>4, <4>1, <4>2 DEF Rewritten, WithAccess
    <3> QED
        BY <1>2, <2>1, <3>2, <3>5 DEF AccountTable!Next, AccountTable!Meddle
  <2> QED
      BY <2>4, <2>5
<1> QED
    BY <1>1, <1>3, <1>4, <1>5, <1>6, IpmiStep

\* The user table implements Accounts, for every number of slots, names and
\* clients, where IPMI gives no names: every operation of the AccountService
\* is one step of the map, and stale access written by IPMI never more than a
\* change of one account's access.
THEOREM TableImplements ==
    ASSUME IpmiNames \subseteq {Unset}
    PROVE  UsersSpec => ImplementsAccounts
<1>1. UsersInit => AccountTable!Init
    BY TableInit
<1>2. ASSUME UserInv, UserInv', [UsersNext]_userVars
      PROVE  [AccountTable!Next]_(AccountTable!accountVars)
  <2>1. CASE \E t \in RedfishClients : Redfish(t)
      BY <1>2, <2>1, RedfishImplements DEF AccountTable!accountVars
  <2>2. CASE \E t \in IpmiClients : Ipmi(t)
      BY <1>2, <2>2, IpmiImplements DEF AccountTable!accountVars
  <2>3. CASE UNCHANGED userVars
      BY <2>3, TableIs DEF userVars, AccountTable!accountVars
  <2> QED
      BY <1>2, <2>1, <2>2, <2>3 DEF UsersNext
<1> QED
    BY <1>1, <1>2, UserInvHolds, PTL DEF UsersSpec, ImplementsAccounts, AccountTable!Spec
=============================================================================
