---------------------------- MODULE RmcpSession ----------------------------
(***************************************************************************)
(* RMCP+ sessions (internal/ipmi, server.go, session.go, rmcp_plus.go):    *)
(* consoles log in and send commands over UDP, and one loop answers them   *)
(* one datagram at a time.  A datagram may be lost, repeated and late.     *)
(* Redfish changes the user table meanwhile, between the two looks that    *)
(* the loop takes at it for one message.                                   *)
(*                                                                         *)
(* A key or an authentication code is the tuple of what it is computed     *)
(* from; a random number is named by who has drawn it.                     *)
(***************************************************************************)
EXTENDS Naturals, Sequences, FiniteSets

CONSTANTS Consoles,    \* consoles, each with one login
          Names,       \* names of users
          Passwords,
          Slots,       \* user slots
          Lengths,     \* lengths of IPMI messages
          SequenceMod, \* 2^32: OutboundSequenceNumber is a uint32
          MaxOpens,    \* bound on the sessions made for one console
          MaxCommands, \* bound on the commands of one console
          MaxAnswers,  \* bound on the answers to them, repeated ones among them
          MaxChanges   \* bound on the changes of the user table

VARIABLES table,     \* State.users: name and password of each slot
          changes,   \* how often it has been changed
          net,       \* every datagram ever sent
          sessions,  \* SessionManager.sessions
          loop,      \* the server's loop: where it is, its message and what it holds
          console,   \* the consoles
          executed   \* the commands carried out

rmcpVars == <<table, changes, net, sessions, loop, console, executed>>

Unset == "unset"
user == "admin"
pass == "p0"

ASSUME RmcpAssumption ==
    /\ user \in Names /\ pass \in Passwords /\ Unset \notin Names \cup Passwords
    /\ Slots \subseteq Nat \ {0} /\ 2 \in Slots
    /\ {MaxOpens, MaxCommands, MaxAnswers, MaxChanges} \subseteq Nat /\ SequenceMod \in Nat \ {0}
    /\ Lengths \subseteq Nat

\* A session identifier is drawn at random, and so is a session's random number: they
\* are those of the console's n-th session.
Sids == Consoles \X (1..MaxOpens)

NoSession == [rc |-> Unset, rn |-> Unset, name |-> Unset, sik |-> <<>>, out |-> 0]
NoConsole == [pc |-> "idle", name |-> Unset, pw |-> Unset, sid |-> <<>>, cmds |-> <<>>,
              right |-> FALSE, quiet |-> FALSE]
Idle == [pc |-> "receive", msg |-> <<>>, slot |-> 0]

Free == [name |-> Unset, pw |-> Unset]

RmcpInit ==
    /\ table = [s \in Slots |-> IF s = 2 THEN [name |-> user, pw |-> pass] ELSE Free]
    /\ changes = 0
    /\ net = {}
    /\ sessions = [i \in Sids |-> NoSession]
    /\ loop = Idle
    /\ console = [c \in Consoles |-> NoConsole]
    /\ executed = {}

-----------------------------------------------------------------------------
(* The user table                                                          *)

SlotsOf(n) == {s \in Slots : table[s].name = n}
LookupUserByName(n) ==
    IF SlotsOf(n) = {} THEN 0 ELSE CHOOSE s \in SlotsOf(n) : \A t \in SlotsOf(n) : s <= t

\* The password a name logs in with: the user's, or the one of the configuration.
PasswordOf(n) ==
    LET s == LookupUserByName(n)
    IN  IF s # 0 /\ table[s].pw # Unset THEN table[s].pw ELSE IF n = user THEN pass ELSE Unset

\* One Redfish or IPMI operation: a creation, a deletion, a new password.
ChangeTable ==
    /\ changes < MaxChanges
    /\ changes' = changes + 1
    /\ \E s \in Slots :
           \/ /\ table[s] = Free
              /\ \E n \in Names, p \in Passwords \cup {Unset} :
                     /\ SlotsOf(n) = {}
                     /\ table' = [table EXCEPT ![s] = [name |-> n, pw |-> p]]
           \/ /\ table[s] # Free
              /\ \/ table' = [table EXCEPT ![s] = Free]
                 \/ \E p \in Passwords : table' = [table EXCEPT ![s].pw = p]
    /\ console' = [c \in Consoles |-> [console[c] EXCEPT !.quiet = FALSE]]
    /\ UNCHANGED <<net, sessions, loop, executed>>

-----------------------------------------------------------------------------
(* What is computed from what                                              *)

Code2(pw, i, s) == <<"RAKP2", pw, s.rc, i, s.rn, s.name>>
Code3(pw, i, s) == <<"RAKP3", pw, i, s.rc, s.name>>
Key(pw, i, s) == <<"SIK", pw, s.rn, i, s.name>>
Check(key, i, s) == <<"ICV", key, s.rn, i>>

\* padPayload: the pad bytes, the last of which says how many precede it.
PadSize(n) == 16 - (n % 16)

Pad(n) == [size |-> n + PadSize(n), cpl |-> PadSize(n) - 1]

\* unpadPayload; 0 is a refusal.
Unpad(p) == IF p.cpl >= p.size THEN 0 ELSE p.size - p.cpl - 1

\* The 12 bytes of the header and the 16 of the initialisation vector come first, and
\* the pad's length and the next header follow it.
IntegrityPad(n) == (4 - ((12 + 16 + n + 2) % 4)) % 4

-----------------------------------------------------------------------------
(* Consoles (external): ipmitool, FreeIPMI                                 *)

ConsoleAt(c, p) == console[c].pc = p
Transmit(m) == net' = net \cup {m}
Mine(c) == [rc |-> c, rn |-> c, name |-> console[c].name]

Login(c) ==
    /\ ConsoleAt(c, "idle")
    /\ \E n \in Names, p \in Passwords :
           console' = [console EXCEPT ![c] = [NoConsole EXCEPT
               !.pc = "opening", !.name = n, !.pw = p, !.right = (p = PasswordOf(n)), !.quiet = TRUE]]
    /\ Transmit([kind |-> "open", from |-> c])
    /\ UNCHANGED <<table, changes, sessions, loop, executed>>

Opened(c) ==
    /\ ConsoleAt(c, "opening")
    /\ \E m \in net :
           /\ m.kind = "opened" /\ m.to = c
           /\ console' = [console EXCEPT ![c].pc = "rakp1", ![c].sid = m.sid]
           /\ Transmit([kind |-> "rakp1", from |-> c, sid |-> m.sid, rn |-> c, name |-> console[c].name])
    /\ UNCHANGED <<table, changes, sessions, loop, executed>>

Rakp2(c) ==
    /\ ConsoleAt(c, "rakp1")
    /\ \E m \in net :
           /\ m.kind = "rakp2" /\ m.to = c
           /\ IF m.code = Code2(console[c].pw, console[c].sid, Mine(c))
              THEN /\ console' = [console EXCEPT ![c].pc = "rakp3"]
                   /\ Transmit([kind |-> "rakp3", from |-> c, sid |-> console[c].sid,
                                code |-> Code3(console[c].pw, console[c].sid, Mine(c))])
              ELSE console' = [console EXCEPT ![c].pc = "refused"] /\ UNCHANGED net
    /\ UNCHANGED <<table, changes, sessions, loop, executed>>

ConsoleKey(c) == Key(console[c].pw, console[c].sid, Mine(c))

Rakp4(c) ==
    /\ ConsoleAt(c, "rakp3")
    /\ \E m \in net :
           /\ m.kind = "rakp4" /\ m.to = c
           /\ console' = [console EXCEPT
                  ![c].pc = IF m.code = Check(ConsoleKey(c), console[c].sid, Mine(c)) THEN "up" ELSE "refused"]
    /\ UNCHANGED <<table, changes, net, sessions, loop, executed>>

Command(c) ==
    /\ ConsoleAt(c, "up")
    /\ Len(console[c].cmds) < MaxCommands
    /\ \E l \in Lengths :
           /\ console' = [console EXCEPT ![c].cmds = Append(@, l)]
           /\ Transmit([kind |-> "command", from |-> c, sid |-> console[c].sid,
                        n |-> Len(console[c].cmds) + 1, key |-> ConsoleKey(c), payload |-> Pad(l)])
    /\ UNCHANGED <<table, changes, sessions, loop, executed>>

-----------------------------------------------------------------------------
(* The server: HandleRMCPPlusMessage                                       *)

LoopAt(p) == loop.pc = p
Reply(m) == Transmit(m) /\ loop' = Idle

Opens(c) == Cardinality({m \in net : m.kind = "opened" /\ m.to = c})

\* handleOpenSession, with a cipher suite that is supported.  Every request makes a
\* session of its own, also a repeated one; none ever leaves the map.
OpenSession(m) ==
    /\ LoopAt("receive") /\ m.kind = "open" /\ Opens(m.from) < MaxOpens
    /\ LET i == <<m.from, Opens(m.from) + 1>>
       IN  /\ sessions' = [sessions EXCEPT ![i].rc = m.from]
           /\ Reply([kind |-> "opened", to |-> m.from, sid |-> i])
    /\ UNCHANGED <<table, changes, console, executed>>

Found(m) == sessions[m.sid] # NoSession

TakeRakp1(m) ==
    /\ LoopAt("receive") /\ m.kind = "rakp1" /\ Found(m)
    /\ sessions' = [sessions EXCEPT ![m.sid].rn = m.rn, ![m.sid].name = m.name]
    /\ loop' = [Idle EXCEPT !.pc = "lookup", !.msg = m]
    /\ UNCHANGED <<table, changes, net, console, executed>>

TakeRakp3(m) ==
    /\ LoopAt("receive") /\ m.kind = "rakp3" /\ Found(m)
    /\ loop' = [Idle EXCEPT !.pc = "lookup", !.msg = m]
    /\ UNCHANGED <<table, changes, net, sessions, console, executed>>

Here == sessions[loop.msg.sid]

Lookup ==
    /\ LoopAt("lookup")
    /\ loop' = [loop EXCEPT !.pc = loop.msg.kind, !.slot = LookupUserByName(Here.name)]
    /\ UNCHANGED <<table, changes, net, sessions, console, executed>>

\* The second look at the table; Unset when there is none to take.
SlotPassword == IF loop.slot = 0 THEN Unset ELSE table[loop.slot].pw

Refusal(k) == Reply([kind |-> k, to |-> Here.rc, code |-> <<>>])

\* Variant: a name nobody has gets no answer.
AnswerRakp1Silent ==
    /\ LoopAt("rakp1")
    /\ IF SlotPassword = Unset /\ Here.name # user
       THEN loop' = Idle /\ UNCHANGED net
       ELSE LET authPass == IF SlotPassword = Unset THEN pass ELSE SlotPassword
            IN  Reply([kind |-> "rakp2", to |-> Here.rc, code |-> Code2(authPass, loop.msg.sid, Here)])
    /\ UNCHANGED <<table, changes, sessions, console, executed>>

AnswerRakp1 ==
    /\ LoopAt("rakp1")
    /\ IF SlotPassword = Unset /\ Here.name # user
       THEN Refusal("rakp2")
       ELSE LET authPass == IF SlotPassword = Unset THEN pass ELSE SlotPassword
            IN  Reply([kind |-> "rakp2", to |-> Here.rc, code |-> Code2(authPass, loop.msg.sid, Here)])
    /\ UNCHANGED <<table, changes, sessions, console, executed>>

\* Variant: the key is derived before the code is verified.
AnswerRakp3Early ==
    /\ LoopAt("rakp3")
    /\ LET authPass == IF SlotPassword = Unset THEN pass ELSE SlotPassword
           sik == Key(authPass, loop.msg.sid, Here)
       IN  /\ sessions' = [sessions EXCEPT ![loop.msg.sid].sik = sik]
           /\ IF loop.msg.code # Code3(authPass, loop.msg.sid, Here)
              THEN Refusal("rakp4")
              ELSE Reply([kind |-> "rakp4", to |-> Here.rc, code |-> Check(sik, loop.msg.sid, Here)])
    /\ UNCHANGED <<table, changes, console, executed>>

\* Variant: the configured password is the only one.
AnswerRakp3Configured ==
    /\ LoopAt("rakp3")
    /\ LET sik == Key(pass, loop.msg.sid, Here)
       IN  IF loop.msg.code # Code3(pass, loop.msg.sid, Here)
           THEN Refusal("rakp4") /\ UNCHANGED sessions
           ELSE /\ sessions' = [sessions EXCEPT ![loop.msg.sid].sik = sik]
                /\ Reply([kind |-> "rakp4", to |-> Here.rc, code |-> Check(sik, loop.msg.sid, Here)])
    /\ UNCHANGED <<table, changes, console, executed>>

AnswerRakp3 ==
    /\ LoopAt("rakp3")
    /\ LET authPass == IF SlotPassword = Unset THEN pass ELSE SlotPassword
           sik == Key(authPass, loop.msg.sid, Here)
       IN  IF loop.msg.code # Code3(authPass, loop.msg.sid, Here)
           THEN Refusal("rakp4") /\ UNCHANGED sessions
           ELSE /\ sessions' = [sessions EXCEPT ![loop.msg.sid].sik = sik]
                /\ Reply([kind |-> "rakp4", to |-> Here.rc, code |-> Check(sik, loop.msg.sid, Here)])
    /\ UNCHANGED <<table, changes, console, executed>>

\* OutboundSequenceNumber++
NextSequence(n) == (n + 1) % SequenceMod

Responses(i) == {m \in net : m.kind = "response" /\ m.sid = i}

\* An answer of n bytes.
Response(m, n) ==
    [kind |-> "response", to |-> sessions[m.sid].rc, sid |-> m.sid, n |-> m.n,
     key |-> sessions[m.sid].sik, seq |-> NextSequence(sessions[m.sid].out),
     length |-> n, payload |-> Pad(n), integrity |-> IntegrityPad(Pad(n).size)]

\* Variant: the number is not stored.
CommandInSessionStale(m) ==
    /\ LoopAt("receive") /\ m.kind = "command" /\ Found(m)
    /\ m.key = sessions[m.sid].sik /\ Unpad(m.payload) # 0
    /\ Cardinality(Responses(m.sid)) < MaxAnswers
    /\ executed' = executed \cup {[sid |-> m.sid, n |-> m.n, length |-> Unpad(m.payload)]}
    /\ Reply(Response(m, Unpad(m.payload)))
    /\ UNCHANGED <<table, changes, sessions, console>>

\* handleEncryptedIPMI: decrypt, carry out, answer with the next number.  A command
\* that is repeated is carried out again, and answered with another number.  The answer is
\* here as long as the command.
CommandInSession(m) ==
    /\ LoopAt("receive") /\ m.kind = "command" /\ Found(m)
    /\ m.key = sessions[m.sid].sik /\ Unpad(m.payload) # 0
    /\ Cardinality(Responses(m.sid)) < MaxAnswers
    /\ executed' = executed \cup {[sid |-> m.sid, n |-> m.n, length |-> Unpad(m.payload)]}
    /\ sessions' = [sessions EXCEPT ![m.sid].out = NextSequence(@)]
    /\ Reply(Response(m, Unpad(m.payload)))
    /\ UNCHANGED <<table, changes, console>>

Take(m) == OpenSession(m) \/ TakeRakp1(m) \/ TakeRakp3(m) \/ CommandInSession(m)
LoopStep == Lookup \/ AnswerRakp1 \/ AnswerRakp3
Receives(c) == Opened(c) \/ Rakp2(c) \/ Rakp4(c)

RmcpNext ==
    \/ \E c \in Consoles : Login(c) \/ Receives(c) \/ Command(c)
    \/ \E m \in net : Take(m)
    \/ LoopStep
    \/ ChangeTable

\* The loop goes on.  A console repeats a message until it is answered, and of what is
\* sent again and again some arrives.
RmcpFairness ==
    /\ WF_rmcpVars(LoopStep)
    /\ \A c \in Consoles :
           /\ WF_rmcpVars(Receives(c))
           /\ \A k \in {"open", "rakp1", "rakp3"} :
                  SF_rmcpVars(\E m \in net : m.kind = k /\ m.from = c /\ Take(m))

RmcpSpec == RmcpInit /\ [][RmcpNext]_rmcpVars /\ RmcpFairness

-----------------------------------------------------------------------------
(***************************************************************************)
(* Properties                                                              *)
(***************************************************************************)

\* The loop holds a message exactly while it is at work on it, whose session exists;
\* sequence numbers keep their width.
RmcpTypeOK ==
    /\ table \in [Slots -> [name: Names \cup {Unset}, pw: Passwords \cup {Unset}]]
    /\ changes \in 0..MaxChanges
    /\ \A i \in Sids :
           /\ sessions[i].rc \in {i[1], Unset} /\ sessions[i].out \in 0..(SequenceMod - 1)
           /\ sessions[i].name \in Names \cup {Unset}
    /\ LoopAt("receive") <=> loop.msg = <<>>
    /\ ~LoopAt("receive") => loop.msg \in net /\ Found(loop.msg) /\ Here.name # Unset
    /\ \A c \in Consoles :
           /\ console[c].pc \in {"idle", "opening", "rakp1", "rakp3", "up", "refused"}
           /\ console[c].pc \in {"rakp1", "rakp3", "up"} => console[c].sid \in Sids

\* A console that is logged in and the BMC hold the same keys, for as long as the
\* session lasts: late or repeated messages of the handshake, and passwords changed
\* during or after it, do not part them (handleRAKPMessage1, handleRAKPMessage3).
KeysAgree ==
    \A c \in Consoles :
        ConsoleAt(c, "up") => /\ sessions[console[c].sid].sik = ConsoleKey(c)
                              /\ sessions[console[c].sid].rc = c

\* A login is decided by the password in force, where that does not change during it:
\* accepted with the right one and with no other, though it is looked up twice, in two
\* steps each time, for messages that may be repeated.
LoginDecided ==
    \A c \in Consoles :
        console[c].quiet => /\ ConsoleAt(c, "up") => console[c].right
                            /\ ConsoleAt(c, "refused") => ~console[c].right

\* Commands arrive as they were sent, whatever their length is to the cipher's
\* blocks, and a console takes every response of its session: they bear numbers that
\* differ, until the counter wraps, they can be decoded, and the integrity check
\* covers whole words (padPayload, handleEncryptedIPMI, buildRMCPPlusEncryptedResponse).
ResponsesTaken ==
    /\ \A e \in executed : e.length = console[e.sid[1]].cmds[e.n]
    /\ \A i \in Sids : \A r \in Responses(i) :
           /\ r.payload.size % 16 = 0 /\ r.payload.size - r.payload.cpl - 1 = r.length
           /\ (12 + 16 + r.payload.size + r.integrity + 2) % 4 = 0
           /\ Cardinality(Responses(i)) < SequenceMod =>
                  \A s \in Responses(i) : r # s => r.seq # s.seq

\* Every login is decided, though datagrams are lost.
LoginEnds == \A c \in Consoles : ConsoleAt(c, "opening") ~> console[c].pc \in {"up", "refused"}
-----------------------------------------------------------------------------
(***************************************************************************)
(* The inductive invariant.  A session is that of one login of one         *)
(* console, so that whatever of the handshake arrives, late or repeated,   *)
(* says the same again; while the user table stays as it was at the login, *)
(* what is computed from a password is computed from the one in force.     *)
(***************************************************************************)

\* The console has been given a session, its own.
HasSession(c) ==
    /\ console[c].pc \in {"rakp1", "rakp3", "up", "refused"}
    /\ console[c].sid \in Sids /\ console[c].sid[1] = c

\* RAKP1 has come for the session of the console.
Named(c) == HasSession(c) /\ sessions[console[c].sid].name # Unset

SessionOK(i) ==
    /\ DOMAIN sessions[i] = DOMAIN NoSession
    /\ sessions[i].rc \in {i[1], Unset}
    /\ sessions[i].out \in 0..(SequenceMod - 1)
    /\ IF sessions[i].name = Unset THEN sessions[i].sik = <<>>
       ELSE /\ HasSession(i[1]) /\ console[i[1]].sid = i
            /\ sessions[i].rc = i[1] /\ sessions[i].rn = i[1]
            /\ sessions[i].name = console[i[1]].name
            /\ sessions[i].sik \in {<<>>, ConsoleKey(i[1])}

InForce(c) == PasswordOf(console[c].name)

ConsoleOK(c) ==
    /\ DOMAIN console[c] = DOMAIN NoConsole
    /\ console[c].pc \in {"idle", "opening"} \/ HasSession(c)
    /\ console[c].pc # "idle" => console[c].name \in Names /\ console[c].pw \in Passwords
    /\ console[c].cmds \in Seq(Lengths)
    /\ ~ConsoleAt(c, "up") => console[c].cmds = <<>>
    /\ ConsoleAt(c, "up") => sessions[console[c].sid].sik = ConsoleKey(c)
    /\ console[c].quiet =>
           /\ console[c].pc # "idle"
           /\ console[c].right <=> console[c].pw = InForce(c)
           /\ console[c].pc \in {"rakp3", "up"} => console[c].right
           /\ ConsoleAt(c, "refused") => ~console[c].right

\* The answer to RAKP1 where the table has not changed since the login.
QuietCode(c) ==
    IF InForce(c) = Unset THEN <<>> ELSE Code2(InForce(c), console[c].sid, Mine(c))

FromConsole(m) ==
    /\ m.from \in Consoles
    /\ m.kind \in {"rakp1", "rakp3", "command"} =>
           /\ HasSession(m.from) /\ m.sid = console[m.from].sid
           /\ sessions[m.sid].rc = m.from
    /\ m.kind = "rakp1" => m.rn = m.from /\ m.name = console[m.from].name
    /\ m.kind = "rakp3" =>
           /\ Named(m.from)
           /\ m.code = Code3(console[m.from].pw, m.sid, Mine(m.from))
           /\ console[m.from].quiet => console[m.from].right
    /\ m.kind = "command" =>
           m.n \in DOMAIN console[m.from].cmds /\ m.payload = Pad(console[m.from].cmds[m.n])

FromServer(m) ==
    /\ m.kind = "opened" =>
           /\ m.to \in Consoles /\ m.sid \in Sids /\ m.sid[1] = m.to
           /\ sessions[m.sid].rc = m.to
    /\ m.kind \in {"rakp2", "rakp4"} => m.to \in Consoles /\ Named(m.to)
    /\ m.kind = "rakp2" => (console[m.to].quiet => m.code = QuietCode(m.to))
    /\ m.kind = "rakp4" =>
           \/ m.code = <<>> /\ ~console[m.to].quiet
           \/ /\ m.code = Check(ConsoleKey(m.to), console[m.to].sid, Mine(m.to))
              /\ sessions[console[m.to].sid].sik = ConsoleKey(m.to)
    /\ m.kind = "response" =>
           /\ m.sid \in Sids /\ m.length \in Nat
           /\ m.payload = Pad(m.length) /\ m.integrity = IntegrityPad(m.payload.size)

MessageOK(m) ==
    \/ m.kind \in {"open", "rakp1", "rakp3", "command"} /\ FromConsole(m)
    \/ m.kind \in {"opened", "rakp2", "rakp4", "response"} /\ FromServer(m)

\* What the loop is at work on; it has looked the name up since the table changed.
LoopOK ==
    /\ DOMAIN loop = DOMAIN Idle
    /\ \/ LoopAt("receive")
       \/ /\ loop.msg \in net /\ loop.msg.kind \in {"rakp1", "rakp3"}
          /\ Here.name # Unset
          /\ \/ LoopAt("lookup")
             \/ /\ LoopAt(loop.msg.kind)
                /\ console[loop.msg.from].quiet => loop.slot = LookupUserByName(Here.name)

\* A session's responses have the numbers from 1 on, as far as they go without a wrap.
NumbersOK(i) ==
    Cardinality(Responses(i)) < SequenceMod =>
        /\ sessions[i].out = Cardinality(Responses(i))
        /\ \A r \in Responses(i) : r.seq \in 1..sessions[i].out
        /\ \A r, s \in Responses(i) : r # s => r.seq # s.seq

ExecutedOK(e) ==
    /\ e.sid[1] \in Consoles /\ e.n \in DOMAIN console[e.sid[1]].cmds
    /\ e.length = console[e.sid[1]].cmds[e.n]

RmcpInv ==
    /\ DOMAIN sessions = Sids /\ DOMAIN console = Consoles /\ IsFiniteSet(net)
    /\ \A i \in Sids : SessionOK(i) /\ NumbersOK(i)
    /\ \A c \in Consoles : ConsoleOK(c)
    /\ \A m \in net : MessageOK(m)
    /\ \A e \in executed : ExecutedOK(e)
    /\ LoopOK

\* What the type invariant needs besides.
RmcpTyped ==
    /\ table \in [Slots -> [name: Names \cup {Unset}, pw: Passwords \cup {Unset}]]
    /\ changes \in 0..MaxChanges
    /\ \A m \in net : m # <<>>
    /\ LoopAt("receive") <=> loop.msg = <<>>
=============================================================================
