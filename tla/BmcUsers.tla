------------------------------ MODULE BmcUsers -------------------------------
(***************************************************************************)
(* The user table of the BMC (internal/bmc/state.go) and the two services  *)
(* that change it at the same time: the Redfish AccountService             *)
(* (redfish/handler_accounts.go), whose operations hold the table's lock   *)
(* from the check to the write, and the IPMI user commands                 *)
(* (ipmi/handler_user.go), of which enable, disable and Set User Access    *)
(* read a slot, release the lock, and write back what they read.           *)
(***************************************************************************)
EXTENDS Naturals

CONSTANTS MaxUsers,       \* number of the last slot
          Names,          \* user names, none of them empty
          Passwords,      \* passwords, none of them empty
          Unset,          \* the empty name, the empty password
          Keep,           \* a field that an update leaves out
          Roles,          \* privileges the roles of Redfish stand for
          Limits,         \* privilege limits IPMI sets
          RedfishClients, \* requests served at a time
          IpmiClients,    \* the LAN loop and the connections of the VM
          IpmiNames,      \* names IPMI gives a slot
          IpmiIDs,        \* bound: the user IDs of its commands, valid or not
          DefaultUser, DefaultPass

VARIABLES users,     \* slot -> name, password, privilege limit, enabled
          ipmi,      \* IPMI client -> the access it has read and will write
          admitted,  \* Redfish requests past the authentication
          answer     \* result of the last operation of the AccountService

userVars == <<users, ipmi, admitted, answer>>

Slots == 1..MaxUsers
SlotNames == Names \cup {Unset}
SlotPasswords == Passwords \cup {Unset}
Privileges == {0, 4} \cup Roles \cup Limits

ASSUME UsersAssumption ==
    /\ MaxUsers \in Nat /\ MaxUsers >= 2
    /\ Unset \notin Names \cup Passwords
    /\ Keep \notin SlotNames \cup SlotPasswords /\ Keep \notin Roles /\ Keep \notin BOOLEAN
    /\ Roles \subseteq Nat /\ Limits \subseteq Nat
    /\ DefaultUser \in Names /\ DefaultPass \in Passwords
    /\ IpmiNames \subseteq SlotNames /\ IpmiIDs \subseteq Nat

User == [name: SlotNames, password: SlotPasswords, privilege: Privileges, enabled: BOOLEAN]

FreeSlot == [name |-> Unset, password |-> Unset, privilege |-> 0, enabled |-> FALSE]

\* What a command holds between its read and its write.
Access(c, i, l, e) == [cmd |-> c, id |-> i, privilege |-> l, enabled |-> e]

Held == [cmd: {"enable", "access"}, id: Slots, privilege: Privileges, enabled: BOOLEAN]

Idle == Access("none", 0, 0, FALSE)

Answers == {"none", "created", "exists", "full", "updated", "deleted", "notfound"}

NewState ==
    [i \in Slots |-> IF i = 2
                     THEN [name |-> DefaultUser, password |-> DefaultPass,
                           privilege |-> 4, enabled |-> TRUE]
                     ELSE FreeSlot]

UsersInit ==
    /\ users = NewState
    /\ ipmi = [t \in IpmiClients |-> Idle]
    /\ admitted = {}
    /\ answer = "none"

\* lookupUserByNameLocked finds a slot.
Used(n) == \E i \in Slots : users[i].name = n

\* The slot it finds.
Found(n, i) == users[i].name = n /\ \A j \in Slots : users[j].name = n => i <= j

ValidUserID(id) == id \in Slots

-----------------------------------------------------------------------------
(* Redfish: authentication, then one operation of the AccountService       *)

\* The slot the name is found in is enabled and has this password.
Authenticates(n, p) ==
    \E i \in Slots : Found(n, i) /\ users[i].enabled /\ users[i].password = p

Admit(t) ==
    /\ t \notin admitted
    /\ \E n \in Names, p \in Passwords : Authenticates(n, p)
    /\ admitted' = admitted \cup {t}
    /\ UNCHANGED <<users, ipmi, answer>>

Respond(t, a) ==
    /\ t \in admitted
    /\ admitted' = admitted \ {t}
    /\ answer' = a
    /\ UNCHANGED ipmi

\* Variant: the search stops before the last slot.
FreeForAccountShort(i) == i \in 2..(MaxUsers - 1) /\ users[i].name = Unset

\* Slot 1 is the null user's.
FreeForAccount(i) == i \in 2..MaxUsers /\ users[i].name = Unset

CreateAccount(t, n, p) ==
    \/ Used(n) /\ Respond(t, "exists") /\ UNCHANGED users
    \/ /\ ~Used(n)
       /\ \E i \in Slots :
              /\ FreeForAccount(i)
              /\ \A j \in Slots : FreeForAccount(j) => i <= j
              /\ \E r \in Roles, e \in BOOLEAN :
                     users' = [users EXCEPT ![i] = [name |-> n, password |-> p,
                                                    privilege |-> r, enabled |-> e]]
       /\ Respond(t, "created")
    \/ /\ ~Used(n)
       /\ \A i \in Slots : ~FreeForAccount(i)
       /\ Respond(t, "full")
       /\ UNCHANGED users

\* What an update leaves out stays.
Patched(old, new) == IF new = Keep THEN old ELSE new

Patch(id, n, p, r, e) ==
    users' = [users EXCEPT ![id] =
                 [name |-> Patched(@.name, n), password |-> Patched(@.password, p),
                  privilege |-> Patched(@.privilege, r), enabled |-> Patched(@.enabled, e)]]

NoAccount(t, id) ==
    /\ ValidUserID(id) => users[id].name = Unset
    /\ Respond(t, "notfound")
    /\ UNCHANGED users

\* Variant: a name is given without looking for it in the table.
UpdateAccountUnchecked(t, id, n, p, r, e) ==
    \/ NoAccount(t, id)
    \/ /\ ValidUserID(id)
       /\ users[id].name # Unset
       /\ Patch(id, n, p, r, e)
       /\ Respond(t, "updated")

UpdateAccount(t, id, n, p, r, e) ==
    \/ NoAccount(t, id)
    \/ /\ ValidUserID(id)
       /\ users[id].name # Unset
       /\ n \notin {Keep, users[id].name}
       /\ Used(n)
       /\ Respond(t, "exists")
       /\ UNCHANGED users
    \/ /\ ValidUserID(id)
       /\ users[id].name # Unset
       /\ n \in {Keep, users[id].name} \/ ~Used(n)
       /\ Patch(id, n, p, r, e)
       /\ Respond(t, "updated")

DeleteAccount(t, id) ==
    \/ NoAccount(t, id)
    \/ /\ ValidUserID(id)
       /\ users[id].name # Unset
       /\ users' = [users EXCEPT ![id] = FreeSlot]
       /\ Respond(t, "deleted")

\* The identifiers a client may name, those of no slot among them.
AnyID == 0..(MaxUsers + 1)

Redfish(t) ==
    \/ Admit(t)
    \/ \E n \in Names, p \in Passwords : CreateAccount(t, n, p)
    \/ \E id \in AnyID, n \in Names \cup {Keep}, p \in Passwords \cup {Keep},
          r \in Roles \cup {Keep}, e \in BOOLEAN \cup {Keep} :
          <<n, p, r, e>> # <<Keep, Keep, Keep, Keep>> /\ UpdateAccount(t, id, n, p, r, e)
    \/ \E id \in AnyID : DeleteAccount(t, id)

-----------------------------------------------------------------------------
(* IPMI: one command of a client at a time                                 *)

Resting(t) == ipmi[t] = Idle

SetUserName(t, id) ==
    /\ Resting(t)
    /\ ValidUserID(id)
    /\ \E n \in IpmiNames : users' = [users EXCEPT ![id].name = n]
    /\ UNCHANGED <<ipmi, admitted, answer>>

SetUserPassword(t, id) ==
    /\ Resting(t)
    /\ ValidUserID(id)
    /\ \E p \in SlotPasswords : users' = [users EXCEPT ![id].password = p]
    /\ UNCHANGED <<ipmi, admitted, answer>>

\* Enable or disable: the access is read with the flag it will have.
ReadToEnable(t, id, e) ==
    /\ Resting(t)
    /\ ValidUserID(id)
    /\ ipmi' = [ipmi EXCEPT ![t] =
           Access("enable", id, users[id].privilege, e)]
    /\ UNCHANGED <<users, admitted, answer>>

\* Set User Access: only the enabled flag is kept from what is read.
ReadToSetAccess(t, id) ==
    /\ Resting(t)
    /\ ValidUserID(id)
    /\ \E l \in Limits :
           ipmi' = [ipmi EXCEPT ![t] = Access("access", id, l, users[id].enabled)]
    /\ UNCHANGED <<users, admitted, answer>>

SetUserAccess(t) ==
    /\ ~Resting(t)
    /\ users' = [users EXCEPT ![ipmi[t].id].privilege = ipmi[t].privilege,
                              ![ipmi[t].id].enabled = ipmi[t].enabled]
    /\ ipmi' = [ipmi EXCEPT ![t] = Idle]
    /\ UNCHANGED <<admitted, answer>>

Ipmi(t) ==
    \/ \E id \in IpmiIDs : SetUserName(t, id) \/ SetUserPassword(t, id) \/ ReadToSetAccess(t, id)
    \/ \E id \in IpmiIDs, e \in BOOLEAN : ReadToEnable(t, id, e)
    \/ SetUserAccess(t)

UsersNext == (\E t \in RedfishClients : Redfish(t)) \/ (\E t \in IpmiClients : Ipmi(t))

UsersSpec == UsersInit /\ [][UsersNext]_userVars

-----------------------------------------------------------------------------
(* Properties                                                              *)

\* The types of the table and of what the IPMI commands hold; the null user
\* is never an account where IPMI names no slot.
UsersTypeOK ==
    /\ users \in [Slots -> User]
    /\ ipmi \in [IpmiClients -> Held \cup {Idle}]
    /\ admitted \subseteq RedfishClients
    /\ answer \in Answers

\* No two slots have the same name, whatever creations, renames and deletions
\* run at once: a look-up by name (Redfish basic authentication, RAKP) finds
\* the only one.  IPMI gives names unchecked; without it, it holds.
NamesDistinct ==
    \A i, j \in Slots : users[i].name = users[j].name /\ users[i].name # Unset => i = j

\* The accounts that the table stands for.
Named == {users[i].name : i \in Slots} \ {Unset}

SlotOf(n) == CHOOSE i \in Slots : users[i].name = n

Table ==
    [n \in Named |-> [id |-> SlotOf(n), password |-> users[SlotOf(n)].password,
                      privilege |-> users[SlotOf(n)].privilege,
                      enabled |-> users[SlotOf(n)].enabled]]

AccountTable == INSTANCE Accounts WITH
    accounts <- Table, Ids <- 2..MaxUsers, Passwords <- SlotPasswords

\* The table, searched slot by slot and written by commands that hold stale
\* access, is the map from names to accounts that Accounts promises: no
\* creation or rename is lost, takes a slot in use or leaves anything behind,
\* and a creation is refused only for a name in use or a table that is full.
ImplementsAccounts == AccountTable!Spec

\* Set User Access preserves the enabled state (the comment of
\* handleSetUserAccess): disabling is done by Set User Password and Redfish.
SetUserAccessPreservesEnabled ==
    [][\A t \in IpmiClients : ipmi[t].cmd = "access" /\ ipmi'[t] = Idle =>
           \A i \in Slots : users'[i].enabled = users[i].enabled]_userVars
=============================================================================
