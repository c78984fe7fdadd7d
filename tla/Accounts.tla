------------------------------ MODULE Accounts -------------------------------
(***************************************************************************)
(* What the user table promises to those who hold accounts in it: a name   *)
(* has at most one account and an identifier at most one name; the account *)
(* service creates, updates and deletes accounts in one step each, and     *)
(* refuses a creation only for a name in use or for want of identifiers.   *)
(* IPMI may change an account's password and access, or take its name off, *)
(* but never gives a name.                                                 *)
(***************************************************************************)
CONSTANTS Names, Passwords, Ids, Privileges

VARIABLES accounts,  \* name -> its account, for the names in use
          answer     \* of the last operation of the account service

accountVars == <<accounts, answer>>

Account(id) ==
    [id: {id}, password: Passwords, privilege: Privileges, enabled: BOOLEAN]

Taken == {accounts[n].id : n \in DOMAIN accounts}

\* One account to begin with.
Init ==
    /\ \E n \in Names, i \in Ids : \E a \in Account(i) : accounts = [m \in {n} |-> a]
    /\ answer = "none"

\* The table without the name n, and with the account a of the name n.
Without(n) == [m \in DOMAIN accounts \ {n} |-> accounts[m]]
With(n, a) == [m \in DOMAIN accounts \cup {n} |-> IF m = n THEN a ELSE accounts[m]]

Create ==
    \/ /\ answer' = "created"
       /\ \E n \in Names \ DOMAIN accounts, i \in Ids \ Taken :
              \E a \in Account(i) : accounts' = With(n, a)
    \/ answer' = "full" /\ Taken = Ids /\ UNCHANGED accounts

\* An account keeps its identifier; its name may change to one not in use.
Update ==
    /\ answer' = "updated"
    /\ \E n \in DOMAIN accounts : \E a \in Account(accounts[n].id) :
           \/ accounts' = With(n, a)
           \/ \E new \in Names \ DOMAIN accounts :
                  accounts' = [m \in (DOMAIN accounts \ {n}) \cup {new} |->
                                   IF m = new THEN a ELSE accounts[m]]

Delete == answer' = "deleted" /\ \E n \in DOMAIN accounts : accounts' = Without(n)

\* A creation or an update that would take somebody's name, an account that
\* does not exist.
Refuse ==
    /\ \/ answer' = "exists" /\ DOMAIN accounts # {}
       \/ answer' = "notfound"
    /\ UNCHANGED accounts

\* IPMI.
Meddle ==
    /\ UNCHANGED answer
    /\ \E n \in DOMAIN accounts :
           \/ \E p \in Passwords : accounts' = [accounts EXCEPT ![n].password = p]
           \/ \E p \in Privileges, e \in BOOLEAN :
                  accounts' = [accounts EXCEPT ![n].privilege = p, ![n].enabled = e]
           \/ accounts' = Without(n)

Next == Create \/ Update \/ Delete \/ Refuse \/ Meddle

Spec == Init /\ [][Next]_accountVars
=============================================================================
