-------------------------- MODULE IpmiServersProofs --------------------------
(***************************************************************************)
(* Proofs about the sessions of consoles, for any number of consoles,      *)
(* logins at the same time, names, passwords, lengths of messages, and     *)
(* every bound on sessions, commands, answers and changes of the user      *)
(* table; about the settings that guests write, for any requests on any    *)
(* number of connections; and about the byte streams of those connections, *)
(* for any requests and any bytes between them that are no message.        *)
(***************************************************************************)
EXTENDS IpmiServers, FiniteSetTheorems, SequenceTheorems, TLAPS

USE RmcpAssumption DEF ConsoleAt, LoopAt

-----------------------------------------------------------------------------
(* What is computed from what                                              *)

LEMMA SameTable ==
    ASSUME NEW n, UNCHANGED table
    PROVE  LookupUserByName(n)' = LookupUserByName(n) /\ PasswordOf(n)' = PasswordOf(n)
<1>1. LookupUserByName(n)' = LookupUserByName(n)
    BY DEF LookupUserByName, SlotsOf
<1> QED
    BY <1>1 DEF PasswordOf

\* Codes of RAKP2, and those of RAKP3, differ where passwords do; a key is none of
\* the values there are without one.
LEMMA CodesTell ==
    ASSUME NEW p, NEW q, NEW i, NEW s
    PROVE  /\ Code2(p, i, s) # <<>> /\ (Code2(p, i, s) = Code2(q, i, s) <=> p = q)
           /\ (Code3(p, i, s) = Code3(q, i, s) <=> p = q)
           /\ Key(p, i, s) # <<>> /\ Check(p, i, s) # <<>>
           /\ (Check(p, i, s) = Check(q, i, s) <=> p = q)
    BY DEF Code2, Code3, Key, Check

\* What is padded is whole blocks, from which the message is found again; the
\* integrity check covers whole words (padPayload, unpadPayload).
LEMMA Padding ==
    ASSUME NEW n \in Nat
    PROVE  /\ Pad(n).size \in Nat /\ Pad(n).size % 16 = 0
           /\ Pad(n).size - Pad(n).cpl - 1 = n /\ Unpad(Pad(n)) = n
    BY DEF Pad, Unpad, PadSize

LEMMA WholeWords ==
    ASSUME NEW n \in Nat
    PROVE  (12 + 16 + n + IntegrityPad(n) + 2) % 4 = 0
    BY DEF IntegrityPad

LEMMA NextNumber ==
    ASSUME NEW n \in 0..(SequenceMod - 1)
    PROVE  /\ NextSequence(n) \in 0..(SequenceMod - 1)
           /\ n + 1 < SequenceMod => NextSequence(n) = n + 1
           /\ n + 1 = SequenceMod => NextSequence(n) = 0
    BY DEF NextSequence

-----------------------------------------------------------------------------
(* What stays true of what has been sent                                   *)

\* A console's login, and what it has sent, stay; what it is at rest about, the user
\* table, is as it was.
ConsoleKept(c) ==
    /\ console[c].pc # "idle" =>
           /\ console'[c].pc # "idle"
           /\ console'[c].name = console[c].name /\ console'[c].pw = console[c].pw
    /\ HasSession(c) => HasSession(c)' /\ console'[c].sid = console[c].sid
    /\ \A n \in DOMAIN console[c].cmds :
           n \in DOMAIN console'[c].cmds /\ console'[c].cmds[n] = console[c].cmds[n]
    /\ HasSession(c) /\ console'[c].quiet =>
           console[c].quiet /\ console'[c].right = console[c].right /\ UNCHANGED table

\* A session's owner, its being named and its key stay.
SessionKept(i) ==
    /\ sessions[i].rc = i[1] => sessions'[i].rc = i[1]
    /\ sessions[i].name # Unset => sessions'[i].name # Unset
    /\ sessions[i].sik # <<>> => sessions'[i].sik = sessions[i].sik

AllKept ==
    /\ \A c \in Consoles : ConsoleKept(c)
    /\ \A i \in Sids : SessionKept(i)

LEMMA MessageKept ==
    ASSUME NEW m, MessageOK(m), AllKept
    PROVE  MessageOK(m)'
<1>1. ASSUME NEW c \in Consoles, HasSession(c)
      PROVE  /\ HasSession(c)' /\ console'[c].sid = console[c].sid
             /\ console'[c].name = console[c].name /\ console'[c].pw = console[c].pw
             /\ Mine(c)' = Mine(c) /\ ConsoleKey(c)' = ConsoleKey(c)
             /\ Named(c) => Named(c)'
  <2>1. ConsoleKept(c) /\ console[c].pc # "idle"
      BY <1>1 DEF AllKept, HasSession
  <2>2. /\ HasSession(c)' /\ console'[c].sid = console[c].sid
        /\ console'[c].name = console[c].name /\ console'[c].pw = console[c].pw
      BY <1>1, <2>1 DEF ConsoleKept
  <2>3. Mine(c)' = Mine(c)
      BY <2>2 DEF Mine
  <2>4. ConsoleKey(c)' = ConsoleKey(c)
      BY <2>2, <2>3 DEF ConsoleKey
  <2>5. SessionKept(console[c].sid)
      BY <1>1 DEF AllKept, HasSession
  <2>6. Named(c) => Named(c)'
      BY <2>2, <2>5 DEF Named, SessionKept
  <2> QED
      BY <2>2, <2>3, <2>4, <2>6
<1>2. ASSUME NEW c \in Consoles, HasSession(c), console'[c].quiet
      PROVE  /\ console[c].quiet /\ console'[c].right = console[c].right
             /\ QuietCode(c)' = QuietCode(c)
  <2>1. console[c].quiet /\ console'[c].right = console[c].right /\ UNCHANGED table
      BY <1>2 DEF AllKept, ConsoleKept
  <2>2. PICK n : n = console[c].name
      OBVIOUS
  <2>3. PasswordOf(n)' = PasswordOf(n)
      BY <2>1, SameTable
  <2>4. InForce(c)' = InForce(c)
      BY <1>1, <1>2, <2>2, <2>3 DEF InForce
  <2>5. QuietCode(c)' = QuietCode(c)
      BY <1>1, <1>2, <2>4 DEF QuietCode
  <2> QED
      BY <2>1, <2>5
<1>3. CASE m.kind \in {"open", "rakp1", "rakp3", "command"}
  <2>1. FromConsole(m) /\ m.from \in Consoles
      BY <1>3 DEF MessageOK, FromConsole
  <2>2. m.kind \in {"rakp1", "rakp3", "command"} =>
            /\ HasSession(m.from)' /\ m.sid = console'[m.from].sid /\ sessions'[m.sid].rc = m.from
    <3>1. SUFFICES ASSUME m.kind \in {"rakp1", "rakp3", "command"}
                   PROVE  HasSession(m.from)' /\ m.sid = console'[m.from].sid /\ sessions'[m.sid].rc = m.from
        OBVIOUS
    <3>2. HasSession(m.from) /\ m.sid = console[m.from].sid /\ sessions[m.sid].rc = m.from
        BY <2>1, <3>1 DEF FromConsole
    <3>3. m.sid \in Sids /\ m.sid[1] = m.from
        BY <3>2 DEF HasSession
    <3>4. sessions'[m.sid].rc = m.from
        BY <3>2, <3>3 DEF AllKept, SessionKept
    <3> QED
        BY <1>1, <2>1, <3>2, <3>4
  <2>3. m.kind = "rakp1" => m.rn = m.from /\ m.name = console'[m.from].name
      BY <1>1, <2>1 DEF FromConsole
  <2>4. m.kind = "rakp3" =>
            /\ Named(m.from)'
            /\ m.code = Code3(console'[m.from].pw, m.sid, Mine(m.from)')
            /\ console'[m.from].quiet => console'[m.from].right
      BY <1>1, <1>2, <2>1 DEF FromConsole
  <2>5. m.kind = "command" =>
            /\ m.n \in DOMAIN console'[m.from].cmds
            /\ m.payload = Pad(console'[m.from].cmds[m.n])
      BY <2>1 DEF FromConsole, AllKept, ConsoleKept
  <2>6. FromConsole(m)'
      BY <2>1, <2>2, <2>3, <2>4, <2>5 DEF FromConsole
  <2> QED
      BY <1>3, <2>6 DEF MessageOK
<1>4. CASE m.kind \in {"opened", "rakp2", "rakp4", "response"}
  <2>1. FromServer(m)
      BY <1>4 DEF MessageOK
  <2>2. m.kind = "opened" =>
            m.to \in Consoles /\ m.sid \in Sids /\ m.sid[1] = m.to /\ sessions'[m.sid].rc = m.to
      BY <2>1 DEF FromServer, AllKept, SessionKept
  <2>3. m.kind \in {"rakp2", "rakp4"} => m.to \in Consoles /\ HasSession(m.to) /\ Named(m.to)'
      BY <1>1, <2>1 DEF FromServer, Named
  <2>4. m.kind = "rakp2" => (console'[m.to].quiet => m.code = QuietCode(m.to)')
      BY <1>2, <2>1, <2>3 DEF FromServer
  <2>5. m.kind = "rakp4" =>
            \/ m.code = <<>> /\ ~console'[m.to].quiet
            \/ /\ m.code = Check(ConsoleKey(m.to)', console'[m.to].sid, Mine(m.to)')
               /\ sessions'[console'[m.to].sid].sik = ConsoleKey(m.to)'
    <3>1. SUFFICES ASSUME m.kind = "rakp4"
                   PROVE  \/ m.code = <<>> /\ ~console'[m.to].quiet
                          \/ /\ m.code = Check(ConsoleKey(m.to)', console'[m.to].sid, Mine(m.to)')
                             /\ sessions'[console'[m.to].sid].sik = ConsoleKey(m.to)'
        OBVIOUS
    <3>2. CASE m.code = <<>> /\ ~console[m.to].quiet
        BY <1>2, <2>3, <3>1, <3>2
    <3>3. CASE /\ m.code = Check(ConsoleKey(m.to), console[m.to].sid, Mine(m.to))
               /\ sessions[console[m.to].sid].sik = ConsoleKey(m.to)
      <4>1. console[m.to].sid \in Sids /\ ConsoleKey(m.to) # <<>>
          BY <2>3, <3>1, CodesTell DEF HasSession, ConsoleKey
      <4>2. sessions'[console[m.to].sid].sik = ConsoleKey(m.to)
          BY <3>3, <4>1 DEF AllKept, SessionKept
      <4> QED
          BY <1>1, <2>3, <3>1, <3>3, <4>2
    <3> QED
        BY <2>1, <3>1, <3>2, <3>3 DEF FromServer
  <2>6. FromServer(m)'
      BY <2>1, <2>2, <2>3, <2>4, <2>5 DEF FromServer
  <2> QED
      BY <1>4, <2>6 DEF MessageOK
<1> QED
    BY <1>3, <1>4 DEF MessageOK

LEMMA ConsoleStays ==
    ASSUME NEW c \in Consoles, ConsoleOK(c), console'[c] = console[c], UNCHANGED table,
           \A i \in Sids : SessionKept(i)
    PROVE  ConsoleOK(c)'
<1>1. PICK n : n = console[c].name
    OBVIOUS
<1>2. InForce(c)' = InForce(c)
    BY <1>1, SameTable DEF InForce
<1>3. HasSession(c)' <=> HasSession(c)
    BY DEF HasSession
<1>4. ConsoleKey(c)' = ConsoleKey(c) /\ ConsoleKey(c) # <<>>
    BY CodesTell DEF ConsoleKey, Mine
<1>5. console[c].pc = "up" => sessions'[console[c].sid].sik = ConsoleKey(c)
    BY <1>4 DEF ConsoleOK, HasSession, SessionKept
<1> QED
    BY <1>2, <1>3, <1>4, <1>5 DEF ConsoleOK

LEMMA SessionStays ==
    ASSUME NEW i \in Sids, SessionOK(i), sessions'[i] = sessions[i], \A c \in Consoles : ConsoleKept(c)
    PROVE  SessionOK(i)'
<1>1. i[1] \in Consoles
    BY DEF Sids
<1>2. CASE sessions[i].name = Unset
    BY <1>2 DEF SessionOK
<1>3. CASE sessions[i].name # Unset
  <2>1. HasSession(i[1]) /\ console[i[1]].sid = i
      BY <1>3 DEF SessionOK
  <2>2. /\ HasSession(i[1])' /\ console'[i[1]].sid = i
        /\ console'[i[1]].name = console[i[1]].name /\ console'[i[1]].pw = console[i[1]].pw
      BY <1>1, <2>1 DEF ConsoleKept, HasSession
  <2>3. ConsoleKey(i[1])' = ConsoleKey(i[1])
      BY <2>1, <2>2 DEF ConsoleKey, Mine
  <2> QED
      BY <1>3, <2>2, <2>3 DEF SessionOK
<1> QED
    BY <1>2, <1>3

LEMMA NumbersStay ==
    ASSUME NEW i \in Sids, NumbersOK(i), Responses(i)' = Responses(i),
           sessions'[i].out = sessions[i].out
    PROVE  NumbersOK(i)'
    BY DEF NumbersOK

\* A message that is no response leaves the responses alone.
LEMMA NoResponse ==
    ASSUME NEW m, m.kind # "response", net' = net \cup {m}, NEW i \in Sids
    PROVE  Responses(i)' = Responses(i)
    BY DEF Responses

LEMMA ExecutedStays ==
    ASSUME NEW e, ExecutedOK(e), \A c \in Consoles : ConsoleKept(c)
    PROVE  ExecutedOK(e)'
    BY DEF ExecutedOK, ConsoleKept

LEMMA LoopStays ==
    ASSUME RmcpInv, AllKept, UNCHANGED <<sessions, loop>>, net \subseteq net'
    PROVE  LoopOK'
<1>1. CASE LoopAt("receive")
    BY <1>1 DEF RmcpInv, LoopOK
<1>2. CASE ~LoopAt("receive")
  <2>1. /\ DOMAIN loop = DOMAIN Idle /\ loop.msg \in net /\ loop.msg.kind \in {"rakp1", "rakp3"}
        /\ Here.name # Unset
        /\ \/ LoopAt("lookup")
           \/ /\ LoopAt(loop.msg.kind)
              /\ console[loop.msg.from].quiet => loop.slot = LookupUserByName(Here.name)
      BY <1>2 DEF RmcpInv, LoopOK
  <2>2. loop.msg.from \in Consoles /\ HasSession(loop.msg.from)
      BY <2>1 DEF RmcpInv, MessageOK, FromConsole
  <2>3. Here' = Here
      BY DEF Here
  <2>4. console'[loop.msg.from].quiet => console[loop.msg.from].quiet /\ UNCHANGED table
      BY <2>2 DEF AllKept, ConsoleKept
  <2>5. PICK n : n = Here.name
      OBVIOUS
  <2>6. UNCHANGED table => LookupUserByName(n)' = LookupUserByName(n)
      BY SameTable
  <2> QED
      BY <2>1, <2>3, <2>4, <2>5, <2>6 DEF LoopOK
<1> QED
    BY <1>1, <1>2

-----------------------------------------------------------------------------
(* Consoles                                                                *)

\* A console takes a step, and sends at most one message.
LEMMA ConsoleSteps ==
    ASSUME RmcpInv, NEW c \in Consoles, NEW r, console' = [console EXCEPT ![c] = r], NEW m,
           UNCHANGED <<table, sessions, loop, executed>>, ConsoleKept(c), ConsoleOK(c)',
           net' = net \/ (net' = net \cup {m} /\ MessageOK(m)' /\ m.kind # "response")
    PROVE  RmcpInv'
<1>1. \A d \in Consoles \ {c} : console'[d] = console[d] /\ ConsoleKept(d)
  <2>1. \A d \in Consoles \ {c} : console'[d] = console[d]
      BY DEF RmcpInv
  <2> QED
      BY <2>1 DEF ConsoleKept, HasSession
<1>2. AllKept
    BY <1>1 DEF AllKept, SessionKept
<1>3. DOMAIN sessions' = Sids /\ DOMAIN console' = Consoles
    BY DEF RmcpInv
<1>4. IsFiniteSet(net')
  <2>1. IsFiniteSet(net)
      BY DEF RmcpInv
  <2>2. IsFiniteSet(net \cup {m})
      BY <2>1, FS_AddElement
  <2> QED
      BY <2>1, <2>2
<1>5. ASSUME NEW i \in Sids
      PROVE  SessionOK(i)' /\ NumbersOK(i)'
  <2>1. SessionOK(i)'
      BY <1>2, SessionStays DEF RmcpInv, AllKept
  <2>2. Responses(i)' = Responses(i)
      BY NoResponse DEF Responses
  <2> QED
      BY <2>1, <2>2, NumbersStay DEF RmcpInv
<1>6. \A d \in Consoles : ConsoleOK(d)'
    BY <1>1, <1>2, ConsoleStays DEF RmcpInv, AllKept
<1>7. \A n \in net' : MessageOK(n)'
    BY <1>2, MessageKept DEF RmcpInv
<1>8. \A e \in executed' : ExecutedOK(e)'
    BY <1>2, ExecutedStays DEF RmcpInv, AllKept
<1>9. LoopOK'
    BY <1>2, LoopStays
<1> QED
    BY <1>3, <1>4, <1>5, <1>6, <1>7, <1>8, <1>9 DEF RmcpInv

LEMMA LoginKeeps ==
    ASSUME RmcpInv, NEW c \in Consoles, Login(c)
    PROVE  RmcpInv'
<1>1. PICK n \in Names, p \in Passwords :
          console' = [console EXCEPT ![c] = [NoConsole EXCEPT
              !.pc = "opening", !.name = n, !.pw = p, !.right = (p = PasswordOf(n)), !.quiet = TRUE]]
    BY DEF Login
<1>2. PICK b \in BOOLEAN : b = (p = PasswordOf(n))
    OBVIOUS
<1>3. PICK r : r = [NoConsole EXCEPT !.pc = "opening", !.name = n, !.pw = p, !.right = b, !.quiet = TRUE]
    OBVIOUS
<1>4. /\ DOMAIN r = DOMAIN NoConsole /\ r.pc = "opening" /\ r.name = n /\ r.pw = p
      /\ r.right = b /\ r.cmds = <<>>
    BY <1>3 DEF NoConsole
<1>5. console' = [console EXCEPT ![c] = r] /\ console'[c] = r
    BY <1>1, <1>2, <1>3 DEF RmcpInv
<1>6. console[c].pc = "idle" /\ UNCHANGED <<table, sessions, loop, executed>>
    BY DEF Login
<1>7. InForce(c)' = PasswordOf(n)
  <2>1. PasswordOf(n)' = PasswordOf(n)
      BY <1>6, SameTable
  <2> QED
      BY <1>4, <1>5, <2>1 DEF InForce
<1>8. PICK m : m = [kind |-> "open", from |-> c]
    OBVIOUS
<1>9. net' = net \cup {m} /\ MessageOK(m)' /\ m.kind # "response"
    BY <1>8 DEF Login, Transmit, MessageOK, FromConsole
<1>10. ConsoleKept(c)
  <2>1. console[c].cmds = <<>>
      BY <1>6 DEF RmcpInv, ConsoleOK
  <2> QED
      BY <1>6, <2>1 DEF ConsoleKept, HasSession
<1>11. console'[c].right <=> console'[c].pw = InForce(c)'
    BY <1>2, <1>4, <1>5, <1>7
<1>12. ConsoleOK(c)'
  <2>0. <<>> \in Seq(Lengths)
      OBVIOUS
  <2>1. console'[c].cmds \in Seq(Lengths)
      BY <1>4, <1>5, <2>0
  <2>2. console'[c].pc = "opening" /\ DOMAIN console'[c] = DOMAIN NoConsole
      BY <1>4, <1>5
  <2>3. console'[c].name \in Names /\ console'[c].pw \in Passwords /\ console'[c].cmds = <<>>
      BY <1>4, <1>5
  <2> QED
      BY <1>11, <2>1, <2>2, <2>3 DEF ConsoleOK
<1> QED
    BY <1>5, <1>6, <1>9, <1>10, <1>12, ConsoleSteps

LEMMA OpenedKeeps ==
    ASSUME RmcpInv, NEW c \in Consoles, Opened(c)
    PROVE  RmcpInv'
<1>1. PICK o \in net :
          /\ o.kind = "opened" /\ o.to = c
          /\ console' = [console EXCEPT ![c].pc = "rakp1", ![c].sid = o.sid]
          /\ Transmit([kind |-> "rakp1", from |-> c, sid |-> o.sid, rn |-> c, name |-> console[c].name])
    BY DEF Opened
<1>2. PICK r : r = [console[c] EXCEPT !.pc = "rakp1", !.sid = o.sid]
    OBVIOUS
<1>3. console[c].pc = "opening" /\ UNCHANGED <<table, sessions, loop, executed>>
    BY DEF Opened
<1>4. DOMAIN console[c] = DOMAIN NoConsole /\ ConsoleOK(c)
    BY DEF RmcpInv, ConsoleOK
<1>5. /\ DOMAIN r = DOMAIN NoConsole /\ r.pc = "rakp1" /\ r.sid = o.sid
      /\ r.name = console[c].name /\ r.pw = console[c].pw /\ r.cmds = console[c].cmds
      /\ r.right = console[c].right /\ r.quiet = console[c].quiet
    BY <1>2, <1>4 DEF NoConsole
<1>6. console' = [console EXCEPT ![c] = r] /\ console'[c] = r
    BY <1>1, <1>2 DEF RmcpInv
<1>7. o.sid \in Sids /\ o.sid[1] = c /\ sessions[o.sid].rc = c
    BY <1>1 DEF RmcpInv, MessageOK, FromServer
<1>8. HasSession(c)' /\ ~HasSession(c)
    BY <1>3, <1>5, <1>6, <1>7 DEF HasSession
<1>9. ConsoleKept(c)
    BY <1>3, <1>4, <1>5, <1>6, <1>8 DEF ConsoleKept
<1>10. PICK n : n = console[c].name
    OBVIOUS
<1>11. InForce(c)' = InForce(c)
    BY <1>3, <1>5, <1>6, <1>10, SameTable DEF InForce
<1>12. ConsoleOK(c)'
    BY <1>3, <1>4, <1>5, <1>6, <1>8, <1>11 DEF ConsoleOK
<1>13. PICK m : m = [kind |-> "rakp1", from |-> c, sid |-> o.sid, rn |-> c, name |-> console[c].name]
    OBVIOUS
<1>14. m.kind = "rakp1" /\ m.from = c /\ m.sid = o.sid /\ m.rn = c /\ m.name = console[c].name
    BY <1>13
<1>15. MessageOK(m)'
    BY <1>3, <1>5, <1>6, <1>7, <1>8, <1>14 DEF MessageOK, FromConsole
<1>16. net' = net \cup {m}
    BY <1>1, <1>13 DEF Transmit
<1> QED
    BY <1>3, <1>6, <1>9, <1>12, <1>14, <1>15, <1>16, ConsoleSteps

LEMMA Rakp2Keeps ==
    ASSUME RmcpInv, NEW c \in Consoles, Rakp2(c)
    PROVE  RmcpInv'
<1>1. PICK o \in net :
          /\ o.kind = "rakp2" /\ o.to = c
          /\ IF o.code = Code2(console[c].pw, console[c].sid, Mine(c))
             THEN /\ console' = [console EXCEPT ![c].pc = "rakp3"]
                  /\ Transmit([kind |-> "rakp3", from |-> c, sid |-> console[c].sid,
                               code |-> Code3(console[c].pw, console[c].sid, Mine(c))])
             ELSE console' = [console EXCEPT ![c].pc = "refused"] /\ UNCHANGED net
    BY DEF Rakp2
<1>2. PICK p : p = IF o.code = Code2(console[c].pw, console[c].sid, Mine(c)) THEN "rakp3" ELSE "refused"
    OBVIOUS
<1>3. PICK r : r = [console[c] EXCEPT !.pc = p]
    OBVIOUS
<1>4. console[c].pc = "rakp1" /\ UNCHANGED <<table, sessions, loop, executed>>
    BY DEF Rakp2
<1>5. DOMAIN console[c] = DOMAIN NoConsole /\ ConsoleOK(c) /\ HasSession(c)
    BY <1>4 DEF RmcpInv, ConsoleOK
<1>6. /\ DOMAIN r = DOMAIN NoConsole /\ r.pc = p /\ r.sid = console[c].sid
      /\ r.name = console[c].name /\ r.pw = console[c].pw /\ r.cmds = console[c].cmds
      /\ r.right = console[c].right /\ r.quiet = console[c].quiet
    BY <1>3, <1>5 DEF NoConsole
<1>7. console' = [console EXCEPT ![c] = r] /\ console'[c] = r
    BY <1>1, <1>2, <1>3 DEF RmcpInv
<1>8. HasSession(c)' /\ Mine(c)' = Mine(c)
    BY <1>2, <1>5, <1>6, <1>7 DEF HasSession, Mine
<1>9. ConsoleKept(c)
    BY <1>2, <1>4, <1>6, <1>7, <1>8 DEF ConsoleKept
<1>10. PICK n : n = console[c].name
    OBVIOUS
<1>11. InForce(c)' = InForce(c)
    BY <1>4, <1>6, <1>7, <1>10, SameTable DEF InForce
\* The right password, where the code is that of the password in force.
<1>12. Named(c) /\ (console[c].quiet => o.code = QuietCode(c))
    BY <1>1 DEF RmcpInv, MessageOK, FromServer
<1>13. console[c].quiet => (p = "rakp3" <=> console[c].right)
  <2>1. console[c].pw = InForce(c) => console[c].pw # Unset
      BY <1>4, <1>5 DEF ConsoleOK
  <2>2. ASSUME console[c].quiet
        PROVE  o.code = Code2(console[c].pw, console[c].sid, Mine(c)) <=> console[c].pw = InForce(c)
      BY <1>12, <2>1, <2>2, CodesTell DEF QuietCode
  <2> QED
      BY <1>2, <1>5, <2>2 DEF ConsoleOK
<1>14. ConsoleOK(c)'
    BY <1>2, <1>4, <1>5, <1>6, <1>7, <1>8, <1>11, <1>13 DEF ConsoleOK
<1>15. CASE p = "rakp3"
  <2>1. PICK m : m = [kind |-> "rakp3", from |-> c, sid |-> console[c].sid,
                      code |-> Code3(console[c].pw, console[c].sid, Mine(c))]
      OBVIOUS
  <2>2. /\ m.kind = "rakp3" /\ m.from = c /\ m.sid = console[c].sid
        /\ m.code = Code3(console[c].pw, console[c].sid, Mine(c))
      BY <2>1
  <2>3. net' = net \cup {m}
      BY <1>1, <1>2, <1>15, <2>1 DEF Transmit
  <2>4. Named(c)'
      BY <1>4, <1>6, <1>7, <1>8, <1>12 DEF Named
  <2>5. sessions'[m.sid].rc = c
    <3>1. SessionOK(console[c].sid) /\ console[c].sid[1] = c
        BY <1>5 DEF RmcpInv, HasSession
    <3> QED
        BY <1>4, <1>12, <2>2, <3>1 DEF Named, SessionOK
  <2>6. MessageOK(m)'
      BY <1>6, <1>7, <1>8, <1>13, <1>15, <2>2, <2>4, <2>5 DEF MessageOK, FromConsole
  <2> QED
      BY <1>4, <1>7, <1>9, <1>14, <2>2, <2>3, <2>6, ConsoleSteps
<1>16. CASE p = "refused"
  <2>1. net' = net
      BY <1>1, <1>2, <1>16
  <2> QED
      BY <1>4, <1>7, <1>9, <1>14, <2>1, ConsoleSteps
<1> QED
    BY <1>2, <1>15, <1>16

LEMMA Rakp4Keeps ==
    ASSUME RmcpInv, NEW c \in Consoles, Rakp4(c)
    PROVE  RmcpInv'
<1>1. PICK o \in net :
          /\ o.kind = "rakp4" /\ o.to = c
          /\ console' = [console EXCEPT
                 ![c].pc = IF o.code = Check(ConsoleKey(c), console[c].sid, Mine(c)) THEN "up" ELSE "refused"]
    BY DEF Rakp4
<1>2. PICK p : p = IF o.code = Check(ConsoleKey(c), console[c].sid, Mine(c)) THEN "up" ELSE "refused"
    OBVIOUS
<1>3. PICK r : r = [console[c] EXCEPT !.pc = p]
    OBVIOUS
<1>4. console[c].pc = "rakp3" /\ UNCHANGED <<table, net, sessions, loop, executed>>
    BY DEF Rakp4
<1>5. DOMAIN console[c] = DOMAIN NoConsole /\ ConsoleOK(c) /\ HasSession(c)
    BY <1>4 DEF RmcpInv, ConsoleOK
<1>6. /\ DOMAIN r = DOMAIN NoConsole /\ r.pc = p /\ r.sid = console[c].sid
      /\ r.name = console[c].name /\ r.pw = console[c].pw /\ r.cmds = console[c].cmds
      /\ r.right = console[c].right /\ r.quiet = console[c].quiet
    BY <1>3, <1>5 DEF NoConsole
<1>7. console' = [console EXCEPT ![c] = r] /\ console'[c] = r
    BY <1>1, <1>2, <1>3 DEF RmcpInv
<1>8. HasSession(c)' /\ ConsoleKey(c)' = ConsoleKey(c)
    BY <1>2, <1>5, <1>6, <1>7 DEF HasSession, ConsoleKey, Mine
<1>9. ConsoleKept(c)
    BY <1>2, <1>4, <1>6, <1>7, <1>8 DEF ConsoleKept
<1>10. PICK n : n = console[c].name
    OBVIOUS
<1>11. InForce(c)' = InForce(c)
    BY <1>4, <1>6, <1>7, <1>10, SameTable DEF InForce
<1>12. \/ o.code = <<>> /\ ~console[c].quiet
       \/ /\ o.code = Check(ConsoleKey(c), console[c].sid, Mine(c))
          /\ sessions[console[c].sid].sik = ConsoleKey(c)
    BY <1>1 DEF RmcpInv, MessageOK, FromServer
<1>13. /\ p = "up" => sessions[console[c].sid].sik = ConsoleKey(c)
       /\ console[c].quiet => p = "up"
  <2>1. PICK k : k = Check(ConsoleKey(c), console[c].sid, Mine(c))
      OBVIOUS
  <2>2. k # <<>> /\ (p = "up" <=> o.code = k)
      BY <1>2, <2>1 DEF Check
  <2> QED
      BY <1>12, <2>1, <2>2
<1>14. console[c].quiet => console[c].right
    BY <1>4, <1>5 DEF ConsoleOK
<1>15. ConsoleOK(c)'
  <2>1. /\ p \in {"up", "refused"} /\ r.cmds = <<>> /\ r.cmds \in Seq(Lengths)
        /\ r.name \in Names /\ r.pw \in Passwords
      BY <1>2, <1>4, <1>5, <1>6 DEF ConsoleOK
  <2>2. r.quiet => (r.right <=> r.pw = InForce(c)')
      BY <1>5, <1>6, <1>11 DEF ConsoleOK
  <2> QED
      BY <1>4, <1>6, <1>7, <1>8, <1>13, <1>14, <2>1, <2>2 DEF ConsoleOK
<1> QED
    BY <1>4, <1>7, <1>9, <1>15, ConsoleSteps

LEMMA CommandKeeps ==
    ASSUME RmcpInv, NEW c \in Consoles, Command(c)
    PROVE  RmcpInv'
<1>1. PICK l \in Lengths :
          /\ console' = [console EXCEPT ![c].cmds = Append(@, l)]
          /\ Transmit([kind |-> "command", from |-> c, sid |-> console[c].sid,
                       n |-> Len(console[c].cmds) + 1, key |-> ConsoleKey(c), payload |-> Pad(l)])
    BY DEF Command
<1>2. PICK s : s = Append(console[c].cmds, l)
    OBVIOUS
<1>3. PICK r : r = [console[c] EXCEPT !.cmds = s]
    OBVIOUS
<1>4. console[c].pc = "up" /\ UNCHANGED <<table, sessions, loop, executed>>
    BY DEF Command
<1>5. DOMAIN console[c] = DOMAIN NoConsole /\ ConsoleOK(c) /\ HasSession(c)
    BY <1>4 DEF RmcpInv, ConsoleOK
<1>6. /\ DOMAIN r = DOMAIN NoConsole /\ r.pc = "up" /\ r.sid = console[c].sid
      /\ r.name = console[c].name /\ r.pw = console[c].pw /\ r.cmds = s
      /\ r.right = console[c].right /\ r.quiet = console[c].quiet
    BY <1>3, <1>4, <1>5 DEF NoConsole
<1>7. console' = [console EXCEPT ![c] = r] /\ console'[c] = r
    BY <1>1, <1>2, <1>3 DEF RmcpInv
<1>8. HasSession(c)' /\ ConsoleKey(c)' = ConsoleKey(c)
    BY <1>4, <1>5, <1>6, <1>7 DEF HasSession, ConsoleKey, Mine
<1>9. /\ s \in Seq(Lengths)
      /\ Len(console[c].cmds) + 1 \in DOMAIN s /\ s[Len(console[c].cmds) + 1] = l
      /\ \A n \in DOMAIN console[c].cmds : n \in DOMAIN s /\ s[n] = console[c].cmds[n]
  <2>1. PICK q \in Seq(Lengths) : q = console[c].cmds
      BY <1>5 DEF ConsoleOK
  <2>2. s = Append(q, l) /\ Len(s) = Len(q) + 1 /\ s \in Seq(Lengths)
      BY <1>2, <2>1
  <2>3. s[Len(q) + 1] = l /\ Len(q) + 1 \in DOMAIN s
      BY <2>2
  <2>4. \A n \in DOMAIN q : n \in DOMAIN s /\ s[n] = q[n]
      BY <2>2
  <2> QED
      BY <2>1, <2>2, <2>3, <2>4
<1>10. ConsoleKept(c)
    BY <1>4, <1>6, <1>7, <1>8, <1>9 DEF ConsoleKept
<1>11. PICK n : n = console[c].name
    OBVIOUS
<1>12. InForce(c)' = InForce(c)
    BY <1>4, <1>6, <1>7, <1>11, SameTable DEF InForce
<1>13. ConsoleOK(c)'
    BY <1>4, <1>5, <1>6, <1>7, <1>8, <1>9, <1>12 DEF ConsoleOK
<1>14. PICK m : m = [kind |-> "command", from |-> c, sid |-> console[c].sid,
                     n |-> Len(console[c].cmds) + 1, key |-> ConsoleKey(c), payload |-> Pad(l)]
    OBVIOUS
<1>15. /\ m.kind = "command" /\ m.from = c /\ m.sid = console[c].sid
       /\ m.n = Len(console[c].cmds) + 1 /\ m.payload = Pad(l)
    BY <1>14
<1>16. sessions[console[c].sid].rc = c
  <2>1. SessionOK(console[c].sid) /\ console[c].sid[1] = c
      BY <1>5 DEF RmcpInv, HasSession
  <2>2. sessions[console[c].sid].sik = ConsoleKey(c) /\ ConsoleKey(c) # <<>>
      BY <1>4, <1>5, CodesTell DEF ConsoleOK, ConsoleKey
  <2> QED
      BY <2>1, <2>2 DEF SessionOK
<1>17. MessageOK(m)'
    BY <1>4, <1>6, <1>7, <1>8, <1>9, <1>15, <1>16 DEF MessageOK, FromConsole
<1>18. net' = net \cup {m}
    BY <1>1, <1>14 DEF Transmit
<1> QED
    BY <1>4, <1>7, <1>10, <1>13, <1>15, <1>17, <1>18, ConsoleSteps

-----------------------------------------------------------------------------
(* The server's loop                                                       *)

\* The loop takes a step: consoles and user table stay, and it sends at most one message.
LEMMA ServerSteps ==
    ASSUME RmcpInv, UNCHANGED <<table, console>>, DOMAIN sessions' = Sids,
           \A i \in Sids : SessionKept(i) /\ SessionOK(i)' /\ NumbersOK(i)',
           NEW m, net' = net \/ (net' = net \cup {m} /\ MessageOK(m)'),
           \A e \in executed' : e \in executed \/ ExecutedOK(e)', LoopOK'
    PROVE  RmcpInv'
<1>1. \A c \in Consoles : ConsoleKept(c)
    BY DEF ConsoleKept, HasSession
<1>2. AllKept
    BY <1>1 DEF AllKept
<1>3. IsFiniteSet(net')
  <2>1. IsFiniteSet(net)
      BY DEF RmcpInv
  <2>2. IsFiniteSet(net \cup {m})
      BY <2>1, FS_AddElement
  <2> QED
      BY <2>1, <2>2
<1>4. \A c \in Consoles : ConsoleOK(c)'
    BY ConsoleStays DEF RmcpInv
<1>5. \A n \in net' : MessageOK(n)'
    BY <1>2, MessageKept DEF RmcpInv
<1>6. \A e \in executed' : ExecutedOK(e)'
    BY <1>1, ExecutedStays DEF RmcpInv
<1> QED
    BY <1>3, <1>4, <1>5, <1>6 DEF RmcpInv

\* It touches one session, and a response it sends is of that session.
LEMMA OneSession ==
    ASSUME RmcpInv, UNCHANGED <<table, console>>, NEW i \in Sids, NEW r,
           sessions' = [sessions EXCEPT ![i] = r],
           NEW m, net' = net \/ (net' = net \cup {m} /\ MessageOK(m)' /\ (m.kind # "response" \/ m.sid = i)),
           SessionKept(i), SessionOK(i)', NumbersOK(i)',
           \A e \in executed' : e \in executed \/ ExecutedOK(e)', LoopOK'
    PROVE  RmcpInv'
<1>1. DOMAIN sessions' = Sids
    BY DEF RmcpInv
<1>2. \A c \in Consoles : ConsoleKept(c)
    BY DEF ConsoleKept, HasSession
<1>3. ASSUME NEW j \in Sids, j # i
      PROVE  SessionKept(j) /\ SessionOK(j)' /\ NumbersOK(j)'
  <2>1. sessions'[j] = sessions[j]
      BY <1>3 DEF RmcpInv
  <2>2. SessionOK(j)'
      BY <1>2, <2>1, SessionStays DEF RmcpInv
  <2>3. Responses(j)' = Responses(j)
      BY <1>3 DEF Responses
  <2> QED
      BY <2>1, <2>2, <2>3, NumbersStay DEF RmcpInv, SessionKept
<1> QED
    BY <1>1, <1>3, ServerSteps

LEMMA OpenSessionKeeps ==
    ASSUME RmcpInv, NEW o \in net, OpenSession(o)
    PROVE  RmcpInv'
<1>1. PICK c \in Consoles : c = o.from
    BY DEF OpenSession, RmcpInv, MessageOK, FromConsole
<1>2. PICK n \in Nat : n = Opens(c) /\ n < MaxOpens
  <2> DEFINE given == {m \in net : m.kind = "opened" /\ m.to = c}
  <2>1. IsFiniteSet(given)
      BY FS_Subset DEF RmcpInv
  <2>2. Cardinality(given) \in Nat
      BY <2>1, FS_CardinalityType
  <2> QED
      BY <1>1, <2>2 DEF OpenSession, Opens
<1>3. PICK i : i = <<c, n + 1>>
    OBVIOUS
<1>4. i \in Sids /\ i[1] = c
    BY <1>2, <1>3 DEF Sids
<1>5. PICK m : m = [kind |-> "opened", to |-> c, sid |-> i]
    OBVIOUS
<1>6. m.kind = "opened" /\ m.to = c /\ m.sid = i
    BY <1>5
<1>7. /\ sessions' = [sessions EXCEPT ![i].rc = c] /\ net' = net \cup {m} /\ loop' = Idle
      /\ UNCHANGED <<table, changes, console, executed>>
    BY <1>1, <1>2, <1>3, <1>5 DEF OpenSession, Reply, Transmit
<1>8. PICK r : r = [sessions[i] EXCEPT !.rc = c]
    OBVIOUS
<1>9. DOMAIN sessions[i] = DOMAIN NoSession /\ SessionOK(i) /\ NumbersOK(i)
    BY <1>4 DEF RmcpInv, SessionOK
<1>10. /\ DOMAIN r = DOMAIN NoSession /\ r.rc = c /\ r.rn = sessions[i].rn
       /\ r.name = sessions[i].name /\ r.sik = sessions[i].sik /\ r.out = sessions[i].out
    BY <1>8, <1>9 DEF NoSession
<1>11. sessions' = [sessions EXCEPT ![i] = r] /\ sessions'[i] = r
    BY <1>4, <1>7, <1>8 DEF RmcpInv
<1>12. SessionKept(i)
    BY <1>4, <1>10, <1>11 DEF SessionKept
<1>13. SessionOK(i)'
  <2>1. (HasSession(c)' <=> HasSession(c)) /\ ConsoleKey(c)' = ConsoleKey(c)
      BY <1>7 DEF HasSession, ConsoleKey, Mine
  <2> QED
      BY <1>4, <1>7, <1>9, <1>10, <1>11, <2>1 DEF SessionOK
<1>14. NumbersOK(i)'
    BY <1>4, <1>6, <1>7, <1>9, <1>10, <1>11, NoResponse, NumbersStay
<1>15. MessageOK(m)'
    BY <1>1, <1>4, <1>6, <1>10, <1>11 DEF MessageOK, FromServer
<1>16. LoopOK'
    BY <1>7 DEF LoopOK, Idle
<1> QED
    BY <1>4, <1>6, <1>7, <1>11, <1>12, <1>13, <1>14, <1>15, <1>16, OneSession

LEMMA TakeRakp1Keeps ==
    ASSUME RmcpInv, NEW m \in net, TakeRakp1(m)
    PROVE  RmcpInv'
<1>1. PICK c \in Consoles :
          /\ c = m.from /\ HasSession(c) /\ m.sid = console[c].sid /\ sessions[m.sid].rc = c
          /\ m.rn = c /\ m.name = console[c].name
    BY DEF TakeRakp1, RmcpInv, MessageOK, FromConsole
<1>2. PICK i \in Sids : i = m.sid /\ i[1] = c
    BY <1>1 DEF HasSession
<1>3. /\ sessions' = [sessions EXCEPT ![i].rn = c, ![i].name = console[c].name]
      /\ loop' = [Idle EXCEPT !.pc = "lookup", !.msg = m]
      /\ UNCHANGED <<table, changes, net, console, executed>>
    BY <1>1, <1>2 DEF TakeRakp1
<1>4. PICK r : r = [sessions[i] EXCEPT !.rn = c, !.name = console[c].name]
    OBVIOUS
<1>5. DOMAIN sessions[i] = DOMAIN NoSession /\ SessionOK(i) /\ NumbersOK(i)
    BY DEF RmcpInv, SessionOK
<1>6. /\ DOMAIN r = DOMAIN NoSession /\ r.rc = sessions[i].rc /\ r.rn = c
      /\ r.name = console[c].name /\ r.sik = sessions[i].sik /\ r.out = sessions[i].out
    BY <1>4, <1>5 DEF NoSession
<1>7. sessions' = [sessions EXCEPT ![i] = r] /\ sessions'[i] = r
    BY <1>3, <1>4 DEF RmcpInv
<1>8. console[c].name # Unset
    BY <1>1 DEF HasSession, RmcpInv, ConsoleOK
<1>9. SessionKept(i)
    BY <1>6, <1>7, <1>8 DEF SessionKept
<1>10. SessionOK(i)'
  <2>1. HasSession(c)' /\ ConsoleKey(c)' = ConsoleKey(c)
      BY <1>1, <1>3 DEF HasSession, ConsoleKey, Mine
  <2>2. sessions[i].sik \in {<<>>, ConsoleKey(c)}
      BY <1>2, <1>5 DEF SessionOK
  <2> QED
      BY <1>1, <1>2, <1>3, <1>5, <1>6, <1>7, <1>8, <2>1, <2>2 DEF SessionOK
<1>11. NumbersOK(i)'
  <2>1. Responses(i)' = Responses(i)
      BY <1>3 DEF Responses
  <2> QED
      BY <1>5, <1>6, <1>7, <2>1, NumbersStay
<1>12. LoopOK'
  <2>1. DOMAIN loop' = DOMAIN Idle /\ loop'.pc = "lookup" /\ loop'.msg = m
      BY <1>3 DEF Idle
  <2>2. m.kind = "rakp1" /\ Here'.name # Unset
      BY <1>2, <1>6, <1>7, <1>8, <2>1 DEF TakeRakp1, Here
  <2> QED
      BY <1>3, <2>1, <2>2 DEF LoopOK
<1> QED
    BY <1>3, <1>7, <1>9, <1>10, <1>11, <1>12, OneSession

\* The loop takes a step in which no session changes and no response is sent.
LEMMA NoSessionTouched ==
    ASSUME RmcpInv, UNCHANGED <<table, console, sessions, executed>>,
           NEW m, net' = net \/ (net' = net \cup {m} /\ MessageOK(m)' /\ m.kind # "response"), LoopOK'
    PROVE  RmcpInv'
<1>1. ASSUME NEW i \in Sids
      PROVE  SessionKept(i) /\ SessionOK(i)' /\ NumbersOK(i)'
  <2>1. Responses(i)' = Responses(i)
      BY DEF Responses
  <2>2. \A c \in Consoles : ConsoleKept(c)
      BY DEF ConsoleKept, HasSession
  <2> QED
      BY <2>1, <2>2, NumbersStay, SessionStays DEF RmcpInv, SessionKept
<1> QED
    BY <1>1, ServerSteps DEF RmcpInv

LEMMA TakeRakp3Keeps ==
    ASSUME RmcpInv, NEW m \in net, TakeRakp3(m)
    PROVE  RmcpInv'
<1>1. Named(m.from) /\ m.sid = console[m.from].sid /\ m.kind = "rakp3"
    BY DEF TakeRakp3, RmcpInv, MessageOK, FromConsole
<1>2. loop' = [Idle EXCEPT !.pc = "lookup", !.msg = m] /\ UNCHANGED <<table, net, sessions, console, executed>>
    BY DEF TakeRakp3
<1>3. DOMAIN loop' = DOMAIN Idle /\ loop'.pc = "lookup" /\ loop'.msg = m
    BY <1>2 DEF Idle
<1>4. Here'.name # Unset
    BY <1>1, <1>2, <1>3 DEF Here, Named
<1>5. LoopOK'
    BY <1>1, <1>2, <1>3, <1>4 DEF LoopOK
<1> QED
    BY <1>2, <1>5, NoSessionTouched

LEMMA LookupKeeps ==
    ASSUME RmcpInv, Lookup
    PROVE  RmcpInv'
<1>1. /\ DOMAIN loop = DOMAIN Idle /\ loop.msg \in net /\ loop.msg.kind \in {"rakp1", "rakp3"}
      /\ Here.name # Unset
    BY DEF Lookup, RmcpInv, LoopOK
<1>2. UNCHANGED <<table, net, sessions, console, executed>>
    BY DEF Lookup
<1>3. PICK n : n = Here.name
    OBVIOUS
<1>4. /\ DOMAIN loop' = DOMAIN Idle /\ loop'.msg = loop.msg /\ loop'.pc = loop.msg.kind
      /\ loop'.slot = LookupUserByName(n)
    BY <1>1, <1>3 DEF Lookup, Idle
<1>5. Here' = Here
    BY <1>2, <1>4 DEF Here
<1>6. LookupUserByName(n)' = LookupUserByName(n)
    BY <1>2, SameTable
<1>7. LoopOK'
    BY <1>1, <1>2, <1>3, <1>4, <1>5, <1>6 DEF LoopOK
<1> QED
    BY <1>2, <1>7, NoSessionTouched

\* What the loop is at work on when it answers: a console's session, whose name is the
\* console's.
LEMMA AtWork ==
    ASSUME RmcpInv, LoopAt("rakp1") \/ LoopAt("rakp3")
    PROVE  \E c \in Consoles, i \in Sids :
               /\ c = loop.msg.from /\ loop.msg \in net /\ LoopAt(loop.msg.kind)
               /\ i = loop.msg.sid /\ i = console[c].sid /\ i[1] = c
               /\ HasSession(c) /\ Named(c) /\ SessionOK(i)
               /\ Here = sessions[i]
               /\ Here.rc = c /\ Here.rn = c /\ Here.name = console[c].name
               /\ console[c].quiet => loop.slot = LookupUserByName(console[c].name)
<1>1. /\ loop.msg \in net /\ loop.msg.kind \in {"rakp1", "rakp3"} /\ Here.name # Unset
      /\ LoopAt(loop.msg.kind)
      /\ console[loop.msg.from].quiet => loop.slot = LookupUserByName(Here.name)
    BY DEF RmcpInv, LoopOK
<1>2. PICK c \in Consoles : c = loop.msg.from /\ HasSession(c) /\ loop.msg.sid = console[c].sid
    BY <1>1 DEF RmcpInv, MessageOK, FromConsole
<1>3. PICK i \in Sids : i = loop.msg.sid /\ i[1] = c
    BY <1>2 DEF HasSession
<1>4. Here = sessions[i] /\ SessionOK(i)
    BY <1>3 DEF Here, RmcpInv
<1>5. Here.rc = c /\ Here.rn = c /\ Here.name = console[c].name
    BY <1>1, <1>3, <1>4 DEF SessionOK
<1>6. Named(c)
    BY <1>1, <1>2, <1>3, <1>4 DEF Named
<1> QED
    BY <1>1, <1>2, <1>3, <1>4, <1>5, <1>6

\* The password that is found in two steps, where the table has not changed.
LEMMA TwoLooks ==
    ASSUME NEW c, loop.slot = LookupUserByName(console[c].name), Here.name = console[c].name
    PROVE  /\ SlotPassword = Unset /\ Here.name # user => InForce(c) = Unset
           /\ ~(SlotPassword = Unset /\ Here.name # user) =>
                  InForce(c) = IF SlotPassword = Unset THEN pass ELSE SlotPassword
           /\ InForce(c) # Unset =>
                  InForce(c) = IF SlotPassword = Unset THEN pass ELSE SlotPassword
    BY DEF SlotPassword, InForce, PasswordOf

LEMMA AnswerRakp1Keeps ==
    ASSUME RmcpInv, AnswerRakp1
    PROVE  RmcpInv'
<1>1. PICK c \in Consoles, i \in Sids :
          /\ i = loop.msg.sid /\ i = console[c].sid /\ HasSession(c) /\ Named(c)
          /\ Here.rc = c /\ Here.rn = c /\ Here.name = console[c].name
          /\ console[c].quiet => loop.slot = LookupUserByName(console[c].name)
    BY AtWork DEF AnswerRakp1
<1>2. PICK authPass : authPass = IF SlotPassword = Unset THEN pass ELSE SlotPassword
    OBVIOUS
<1>3. PICK k : k = IF SlotPassword = Unset /\ Here.name # user THEN <<>> ELSE Code2(authPass, i, Here)
    OBVIOUS
<1>4. PICK m : m = [kind |-> "rakp2", to |-> c, code |-> k]
    OBVIOUS
<1>5. m.kind = "rakp2" /\ m.to = c /\ m.code = k
    BY <1>4
<1>6. UNCHANGED <<table, sessions, console, executed>> /\ net' = net \cup {m} /\ loop' = Idle
    BY <1>1, <1>2, <1>3, <1>4 DEF AnswerRakp1, Refusal, Reply, Transmit
<1>7. Code2(authPass, i, Here) = Code2(authPass, i, Mine(c))
    BY <1>1 DEF Code2, Mine
<1>8. console[c].quiet => k = QuietCode(c)
  <2>1. SUFFICES ASSUME console[c].quiet
                 PROVE  k = QuietCode(c)
      OBVIOUS
  <2>2. /\ SlotPassword = Unset /\ Here.name # user => InForce(c) = Unset
        /\ ~(SlotPassword = Unset /\ Here.name # user) => InForce(c) = authPass
      BY <1>1, <1>2, <2>1, TwoLooks
  <2>3. ~(SlotPassword = Unset /\ Here.name # user) => authPass # Unset
      BY <1>2
  <2> QED
      BY <1>1, <1>3, <1>7, <2>2, <2>3 DEF QuietCode
<1>9. /\ Named(c)' /\ QuietCode(c)' = QuietCode(c)
  <2>1. Named(c)'
      BY <1>1, <1>6 DEF Named, HasSession
  <2>2. PICK n : n = console[c].name
      OBVIOUS
  <2>3. PasswordOf(n)' = PasswordOf(n)
      BY <1>6, SameTable
  <2> QED
      BY <1>6, <2>1, <2>2, <2>3 DEF QuietCode, InForce, Mine
<1>10. MessageOK(m)'
    BY <1>5, <1>6, <1>8, <1>9 DEF MessageOK, FromServer
<1>11. LoopOK'
    BY <1>6 DEF LoopOK, Idle
<1> QED
    BY <1>5, <1>6, <1>10, <1>11, NoSessionTouched

LEMMA AnswerRakp3Keeps ==
    ASSUME RmcpInv, AnswerRakp3
    PROVE  RmcpInv'
<1>1. PICK c \in Consoles, i \in Sids :
          /\ c = loop.msg.from /\ loop.msg \in net /\ LoopAt(loop.msg.kind)
          /\ i = loop.msg.sid /\ i = console[c].sid /\ i[1] = c
          /\ HasSession(c) /\ Named(c) /\ SessionOK(i) /\ Here = sessions[i]
          /\ Here.rc = c /\ Here.rn = c /\ Here.name = console[c].name
          /\ console[c].quiet => loop.slot = LookupUserByName(console[c].name)
    BY AtWork DEF AnswerRakp3
<1>2. PICK authPass : authPass = IF SlotPassword = Unset THEN pass ELSE SlotPassword
    OBVIOUS
<1>3. PICK sik : sik = Key(authPass, i, Here)
    OBVIOUS
<1>4. /\ UNCHANGED <<table, console, executed>> /\ loop' = Idle
      /\ IF loop.msg.code # Code3(authPass, i, Here)
         THEN /\ net' = net \cup {[kind |-> "rakp4", to |-> c, code |-> <<>>]}
              /\ UNCHANGED sessions
         ELSE /\ sessions' = [sessions EXCEPT ![i].sik = sik]
              /\ net' = net \cup {[kind |-> "rakp4", to |-> c, code |-> Check(sik, i, Here)]}
    BY <1>1, <1>2, <1>3 DEF AnswerRakp3, Refusal, Reply, Transmit
<1>5. LoopOK'
    BY <1>4 DEF LoopOK, Idle
<1>6. /\ loop.msg.code = Code3(console[c].pw, i, Mine(c))
      /\ console[c].quiet => console[c].right
  <2>1. loop.msg.kind = "rakp3"
      BY <1>1 DEF AnswerRakp3
  <2> QED
      BY <1>1, <2>1 DEF RmcpInv, MessageOK, FromConsole
<1>7. Code3(authPass, i, Here) = Code3(authPass, i, Mine(c))
    BY <1>1 DEF Code3, Mine
<1>8. loop.msg.code = Code3(authPass, i, Here) <=> authPass = console[c].pw
  <2>1. PICK s : s = Mine(c)
      OBVIOUS
  <2>2. Code3(authPass, i, s) = Code3(console[c].pw, i, s) <=> authPass = console[c].pw
      BY CodesTell
  <2> QED
      BY <1>6, <1>7, <2>1, <2>2
\* The right password is accepted.
<1>9. console[c].quiet => authPass = console[c].pw
  <2>1. SUFFICES ASSUME console[c].quiet
                 PROVE  authPass = console[c].pw
      OBVIOUS
  <2>2. console[c].pw = InForce(c) /\ console[c].pw \in Passwords
      BY <1>1, <1>6, <2>1 DEF RmcpInv, ConsoleOK, HasSession
  <2> QED
      BY <1>1, <1>2, <2>1, <2>2, TwoLooks
<1>10. HasSession(c)' /\ ConsoleKey(c)' = ConsoleKey(c) /\ Mine(c)' = Mine(c)
    BY <1>1, <1>4 DEF HasSession, ConsoleKey, Mine
<1>11. CASE authPass # console[c].pw
  <2>1. PICK m : m = [kind |-> "rakp4", to |-> c, code |-> <<>>]
      OBVIOUS
  <2>2. m.kind = "rakp4" /\ m.to = c /\ m.code = <<>>
      BY <2>1
  <2>3. net' = net \cup {m} /\ UNCHANGED sessions
      BY <1>4, <1>8, <1>11, <2>1
  <2>4. Named(c)'
      BY <1>1, <1>4, <1>10, <2>3 DEF Named
  <2>5. MessageOK(m)'
      BY <1>4, <1>9, <1>11, <2>2, <2>4 DEF MessageOK, FromServer
  <2> QED
      BY <1>4, <1>5, <2>2, <2>3, <2>5, NoSessionTouched
<1>12. CASE authPass = console[c].pw
  <2>1. sik = ConsoleKey(c)
      BY <1>1, <1>3, <1>12 DEF Key, ConsoleKey, Mine
  <2>2. PICK m : m = [kind |-> "rakp4", to |-> c, code |-> Check(sik, i, Here)]
      OBVIOUS
  <2>3. m.kind = "rakp4" /\ m.to = c /\ m.code = Check(ConsoleKey(c), i, Mine(c))
      BY <1>1, <2>1, <2>2 DEF Check, Mine
  <2>4. PICK r : r = [sessions[i] EXCEPT !.sik = sik]
      OBVIOUS
  <2>5. net' = net \cup {m} /\ sessions' = [sessions EXCEPT ![i] = r] /\ sessions'[i] = r
      BY <1>4, <1>8, <1>12, <2>2, <2>4 DEF RmcpInv
  <2>6. DOMAIN sessions[i] = DOMAIN NoSession
      BY <1>1 DEF SessionOK
  <2>7. /\ DOMAIN r = DOMAIN NoSession /\ r.rc = sessions[i].rc /\ r.rn = sessions[i].rn
        /\ r.name = sessions[i].name /\ r.sik = ConsoleKey(c) /\ r.out = sessions[i].out
      BY <2>1, <2>4, <2>6 DEF NoSession
  <2>8. sessions[i].name # Unset
      BY <1>1 DEF Named
  <2>9. SessionKept(i)
      BY <1>1, <2>5, <2>7, <2>8 DEF SessionKept, SessionOK
  <2>10. SessionOK(i)'
      BY <1>1, <1>4, <1>10, <2>5, <2>7, <2>8 DEF SessionOK
  <2>11. NumbersOK(i)'
      BY <1>1, <2>3, <2>5, <2>7, NoResponse, NumbersStay DEF RmcpInv
  <2>12. Named(c)'
      BY <1>1, <1>4, <1>10, <2>5, <2>7, <2>8 DEF Named
  <2>13. MessageOK(m)'
      BY <1>1, <1>4, <1>10, <2>3, <2>5, <2>7, <2>12 DEF MessageOK, FromServer
  <2> QED
      BY <1>4, <1>5, <2>3, <2>5, <2>9, <2>10, <2>11, <2>13, OneSession
<1> QED
    BY <1>11, <1>12

\* A response bears the next number, which the session's others do not have, for as
\* long as there are fewer than the counter has values.
LEMMA OneMoreResponse ==
    ASSUME NEW i, NumbersOK(i), IsFiniteSet(net), sessions[i].out \in Nat,
           NEW m, m.seq = NextSequence(sessions[i].out), Responses(i)' = Responses(i) \cup {m},
           sessions'[i].out = m.seq
    PROVE  NumbersOK(i)'
<1>1. PICK R : R = Responses(i)
    OBVIOUS
<1>2. IsFiniteSet(R) /\ Cardinality(R) \in Nat
    BY <1>1, FS_Subset, FS_CardinalityType DEF Responses
<1>3. PICK n \in Nat : n = Cardinality(R)
    BY <1>2
<1>4. Cardinality(R \cup {m}) = IF m \in R THEN n ELSE n + 1
    BY <1>2, <1>3, FS_AddElement
<1>5. SUFFICES ASSUME Cardinality(R \cup {m}) < SequenceMod
               PROVE  /\ m.seq = Cardinality(R \cup {m})
                      /\ \A r \in R \cup {m} : r.seq \in 1..m.seq
                      /\ \A r, s \in R \cup {m} : r # s => r.seq # s.seq
    BY <1>1 DEF NumbersOK
<1>6. n < SequenceMod
    BY <1>4, <1>5
<1>7. /\ sessions[i].out = n
      /\ \A r \in R : r.seq \in 1..n
      /\ \A r, s \in R : r # s => r.seq # s.seq
    BY <1>1, <1>3, <1>6 DEF NumbersOK
<1>8. m.seq \notin 1..n
    BY <1>6, <1>7 DEF NextSequence
<1>9. m \notin R
    BY <1>7, <1>8
<1>10. m.seq = n + 1
    BY <1>4, <1>5, <1>7, <1>9 DEF NextSequence
<1>11. \A r \in R \cup {m} : r.seq \in 1..m.seq
    BY <1>7, <1>10
<1>12. \A r, s \in R \cup {m} : r # s => r.seq # s.seq
    BY <1>7, <1>8
<1> QED
    BY <1>4, <1>9, <1>10, <1>11, <1>12

LEMMA CommandInSessionKeeps ==
    ASSUME RmcpInv, NEW m \in net, CommandInSession(m)
    PROVE  RmcpInv'
<1>1. PICK c \in Consoles :
          /\ c = m.from /\ HasSession(c) /\ m.sid = console[c].sid
          /\ m.n \in DOMAIN console[c].cmds /\ m.payload = Pad(console[c].cmds[m.n])
    BY DEF CommandInSession, RmcpInv, MessageOK, FromConsole
<1>2. PICK i \in Sids : i = m.sid /\ i[1] = c
    BY <1>1 DEF HasSession
<1>3. PICK l \in Nat : l = console[c].cmds[m.n] /\ Unpad(m.payload) = l
  <2>1. PICK q \in Seq(Lengths) : q = console[c].cmds
      BY DEF RmcpInv, ConsoleOK
  <2>2. q[m.n] \in Lengths
      BY <1>1, <2>1
  <2> QED
      BY <1>1, <2>1, <2>2, Padding
<1>4. PICK o : o = Response(m, l)
    OBVIOUS
<1>5. /\ o.kind = "response" /\ o.sid = i /\ o.seq = NextSequence(sessions[i].out)
      /\ o.length = l /\ o.payload = Pad(l) /\ o.integrity = IntegrityPad(o.payload.size)
    BY <1>2, <1>4 DEF Response
<1>6. PICK e : e = [sid |-> i, n |-> m.n, length |-> l]
    OBVIOUS
<1>7. e.sid = i /\ e.n = m.n /\ e.length = l
    BY <1>6
<1>8. /\ executed' = executed \cup {e}
      /\ sessions' = [sessions EXCEPT ![i].out = NextSequence(@)]
      /\ net' = net \cup {o} /\ loop' = Idle /\ UNCHANGED <<table, changes, console>>
    BY <1>2, <1>3, <1>4, <1>6 DEF CommandInSession, Reply, Transmit
<1>9. PICK r : r = [sessions[i] EXCEPT !.out = NextSequence(@)]
    OBVIOUS
<1>10. DOMAIN sessions[i] = DOMAIN NoSession /\ SessionOK(i) /\ NumbersOK(i)
    BY DEF RmcpInv, SessionOK
<1>11. /\ DOMAIN r = DOMAIN NoSession /\ r.rc = sessions[i].rc /\ r.rn = sessions[i].rn
       /\ r.name = sessions[i].name /\ r.sik = sessions[i].sik
       /\ r.out = NextSequence(sessions[i].out)
    BY <1>9, <1>10 DEF NoSession
<1>12. sessions' = [sessions EXCEPT ![i] = r] /\ sessions'[i] = r
    BY <1>8, <1>9 DEF RmcpInv
<1>13. SessionKept(i)
    BY <1>11, <1>12 DEF SessionKept
<1>14. SessionOK(i)'
  <2>1. (HasSession(c)' <=> HasSession(c)) /\ ConsoleKey(c)' = ConsoleKey(c)
      BY <1>8 DEF HasSession, ConsoleKey, Mine
  <2>2. sessions[i].out \in 0..(SequenceMod - 1)
      BY <1>10 DEF SessionOK
  <2>3. r.out \in 0..(SequenceMod - 1)
      BY <1>11, <2>2, NextNumber
  <2> QED
      BY <1>2, <1>8, <1>10, <1>11, <1>12, <2>1, <2>3 DEF SessionOK
<1>15. NumbersOK(i)'
  <2>1. Responses(i)' = Responses(i) \cup {o}
      BY <1>5, <1>8 DEF Responses
  <2>2. sessions[i].out \in Nat
      BY <1>10 DEF SessionOK
  <2> QED
      BY <1>5, <1>10, <1>11, <1>12, <2>1, <2>2, OneMoreResponse DEF RmcpInv
<1>16. MessageOK(o)'
    BY <1>5 DEF MessageOK, FromServer
<1>17. ExecutedOK(e)'
    BY <1>1, <1>2, <1>3, <1>7, <1>8 DEF ExecutedOK
<1>18. LoopOK'
    BY <1>8 DEF LoopOK, Idle
<1> QED
    BY <1>5, <1>8, <1>12, <1>13, <1>14, <1>15, <1>16, <1>17, <1>18, OneSession

-----------------------------------------------------------------------------
(* The user table                                                          *)

\* From here on nothing is said of a login that is under way or done.
LEMMA ChangeTableKeeps ==
    ASSUME RmcpInv, ChangeTable
    PROVE  RmcpInv'
<1>1. /\ console' = [c \in Consoles |-> [console[c] EXCEPT !.quiet = FALSE]]
      /\ UNCHANGED <<net, sessions, loop, executed>>
    BY DEF ChangeTable
<1>2. ASSUME NEW c \in Consoles
      PROVE  /\ ~console'[c].quiet /\ DOMAIN console'[c] = DOMAIN NoConsole
             /\ console'[c].pc = console[c].pc /\ console'[c].name = console[c].name
             /\ console'[c].pw = console[c].pw /\ console'[c].sid = console[c].sid
             /\ console'[c].cmds = console[c].cmds
  <2>1. DOMAIN console[c] = DOMAIN NoConsole
      BY DEF RmcpInv, ConsoleOK
  <2>2. PICK r : r = [console[c] EXCEPT !.quiet = FALSE]
      OBVIOUS
  <2>3. /\ ~r.quiet /\ DOMAIN r = DOMAIN NoConsole /\ r.pc = console[c].pc /\ r.name = console[c].name
        /\ r.pw = console[c].pw /\ r.sid = console[c].sid /\ r.cmds = console[c].cmds
      BY <2>1, <2>2 DEF NoConsole
  <2> QED
      BY <1>1, <2>2, <2>3
<1>3. AllKept
    BY <1>1, <1>2 DEF AllKept, ConsoleKept, SessionKept, HasSession
<1>4. ASSUME NEW c \in Consoles
      PROVE  ConsoleOK(c)'
  <2>1. HasSession(c)' <=> HasSession(c)
      BY <1>2 DEF HasSession
  <2>2. ConsoleKey(c)' = ConsoleKey(c)
      BY <1>2 DEF ConsoleKey, Mine
  <2> QED
      BY <1>1, <1>2, <2>1, <2>2 DEF RmcpInv, ConsoleOK
<1>5. ASSUME NEW i \in Sids
      PROVE  SessionOK(i)' /\ NumbersOK(i)'
  <2>1. Responses(i)' = Responses(i)
      BY <1>1 DEF Responses
  <2> QED
      BY <1>1, <1>3, <2>1, SessionStays, NumbersStay DEF RmcpInv, AllKept
<1>6. \A m \in net' : MessageOK(m)'
    BY <1>1, <1>3, MessageKept DEF RmcpInv
<1>7. \A e \in executed' : ExecutedOK(e)'
    BY <1>1, <1>3, ExecutedStays DEF RmcpInv, AllKept
<1>8. LoopOK'
    BY <1>1, <1>3, LoopStays
<1>9. DOMAIN sessions' = Sids /\ DOMAIN console' = Consoles /\ IsFiniteSet(net')
    BY <1>1 DEF RmcpInv
<1> QED
    BY <1>4, <1>5, <1>6, <1>7, <1>8, <1>9 DEF RmcpInv

-----------------------------------------------------------------------------
(* The invariant                                                           *)

LEMMA RmcpStart ==
    ASSUME RmcpInit
    PROVE  RmcpInv
<1>1. IsFiniteSet(net)
    BY FS_EmptySet DEF RmcpInit
<1>2. ASSUME NEW i \in Sids
      PROVE  SessionOK(i) /\ NumbersOK(i)
  <2>1. sessions[i] = NoSession
      BY DEF RmcpInit
  <2>2. SessionOK(i)
      BY <2>1 DEF SessionOK, NoSession
  <2>3. Responses(i) = {} /\ Cardinality({}) = 0
      BY FS_EmptySet DEF Responses, RmcpInit
  <2> QED
      BY <2>1, <2>2, <2>3 DEF NumbersOK, NoSession
<1>3. ASSUME NEW c \in Consoles
      PROVE  ConsoleOK(c)
  <2>1. console[c] = NoConsole
      BY DEF RmcpInit
  <2>2. <<>> \in Seq(Lengths)
      OBVIOUS
  <2>3. /\ NoConsole.pc = "idle" /\ NoConsole.cmds = <<>> /\ ~NoConsole.quiet
      BY DEF NoConsole
  <2> QED
      BY <2>1, <2>2, <2>3 DEF ConsoleOK
<1>4. LoopOK
    BY DEF RmcpInit, LoopOK, Idle
<1>5. net = {} /\ executed = {} /\ DOMAIN sessions = Sids /\ DOMAIN console = Consoles
    BY DEF RmcpInit
<1> QED
    BY <1>1, <1>2, <1>3, <1>4, <1>5 DEF RmcpInv

LEMMA RmcpStep ==
    ASSUME RmcpInv, RmcpNext
    PROVE  RmcpInv'
<1>1. ASSUME NEW c \in Consoles, Login(c) \/ Receives(c) \/ Command(c)
      PROVE  RmcpInv'
    BY <1>1, LoginKeeps, OpenedKeeps, Rakp2Keeps, Rakp4Keeps, CommandKeeps DEF Receives
<1>2. ASSUME NEW m \in net, Take(m)
      PROVE  RmcpInv'
    BY <1>2, OpenSessionKeeps, TakeRakp1Keeps, TakeRakp3Keeps, CommandInSessionKeeps DEF Take
<1>3. CASE LoopStep
    BY <1>3, LookupKeeps, AnswerRakp1Keeps, AnswerRakp3Keeps DEF LoopStep
<1>4. CASE ChangeTable
    BY <1>4, ChangeTableKeeps
<1> QED
    BY <1>1, <1>2, <1>3, <1>4 DEF RmcpNext

LEMMA RmcpStays ==
    ASSUME RmcpInv, UNCHANGED rmcpVars
    PROVE  RmcpInv'
<1>1. UNCHANGED <<table, changes, net, sessions, loop, console, executed>>
    BY DEF rmcpVars
<1>2. \A i \in Sids : SessionOK(i)' /\ NumbersOK(i)'
  <2> SUFFICES ASSUME NEW i \in Sids PROVE SessionOK(i)' /\ NumbersOK(i)'
      OBVIOUS
  <2>1. Responses(i)' = Responses(i)
      BY <1>1 DEF Responses
  <2>2. \A c \in Consoles : ConsoleKept(c)
      BY <1>1 DEF ConsoleKept, HasSession
  <2> QED
      BY <1>1, <2>1, <2>2, SessionStays, NumbersStay DEF RmcpInv
<1>3. AllKept
    BY <1>1 DEF AllKept, ConsoleKept, SessionKept, HasSession
<1>4. LoopOK'
    BY <1>1, <1>3, LoopStays
<1> QED
    BY <1>1, <1>2, <1>4, NoSessionTouched

LEMMA RmcpInvariant == ServersSpec => []RmcpInv
<1>1. ServersInit => RmcpInv
    BY RmcpStart DEF ServersInit
<1>2. RmcpInv /\ [ServersNext]_ipmiVars => RmcpInv'
  <2>1. ASSUME RmcpInv, [ServersNext]_ipmiVars
        PROVE  RmcpInv'
    <3>1. RmcpNext \/ UNCHANGED rmcpVars
        BY <2>1 DEF ServersNext, ipmiVars
    <3> QED
        BY <2>1, <3>1, RmcpStep, RmcpStays
  <2> QED
      BY <2>1
<1> QED
    BY <1>1, <1>2, PTL DEF ServersSpec

-----------------------------------------------------------------------------
(* What a session promises                                                 *)

\* A console that is logged in and the BMC hold the same keys, whatever is lost, late
\* or repeated, and whatever password is changed (handleRAKPMessage1, handleRAKPMessage3).
THEOREM SessionKeys == ServersSpec => []KeysAgree
<1>1. RmcpInv => KeysAgree
  <2>1. ASSUME RmcpInv, NEW c \in Consoles, ConsoleAt(c, "up")
        PROVE  sessions[console[c].sid].sik = ConsoleKey(c) /\ sessions[console[c].sid].rc = c
    <3>1. sessions[console[c].sid].sik = ConsoleKey(c) /\ HasSession(c)
        BY <2>1 DEF RmcpInv, ConsoleOK
    <3>2. SessionOK(console[c].sid) /\ console[c].sid[1] = c
        BY <2>1, <3>1 DEF RmcpInv, HasSession
    <3>3. ConsoleKey(c) # <<>>
        BY CodesTell DEF ConsoleKey
    <3> QED
        BY <3>1, <3>2, <3>3 DEF SessionOK
  <2> QED
      BY <2>1 DEF KeysAgree
<1> QED
    BY <1>1, RmcpInvariant, PTL

\* Where the user table does not change during a login, it is accepted with the password
\* in force and refused with any other (handleRAKPMessage1, handleRAKPMessage3 and
\* LookupUserByName, GetUserPassword that they call one after the other).
THEOREM LoginsDecided == ServersSpec => []LoginDecided
<1>1. RmcpInv => LoginDecided
    BY DEF RmcpInv, ConsoleOK, LoginDecided
<1> QED
    BY <1>1, RmcpInvariant, PTL

\* Commands arrive as they were sent, responses can be decoded, and no two of a session
\* bear the same number before the counter wraps (padPayload, handleEncryptedIPMI,
\* buildRMCPPlusEncryptedResponse).
THEOREM Responded == ServersSpec => []ResponsesTaken
<1>1. RmcpInv => ResponsesTaken
  <2>1. SUFFICES ASSUME RmcpInv
                 PROVE  ResponsesTaken
      OBVIOUS
  <2>2. \A e \in executed : e.length = console[e.sid[1]].cmds[e.n]
      BY <2>1 DEF RmcpInv, ExecutedOK
  <2>3. ASSUME NEW i \in Sids, NEW r \in Responses(i)
        PROVE  /\ r.payload.size % 16 = 0 /\ r.payload.size - r.payload.cpl - 1 = r.length
               /\ (12 + 16 + r.payload.size + r.integrity + 2) % 4 = 0
    <3>1. r.length \in Nat /\ r.payload = Pad(r.length) /\ r.integrity = IntegrityPad(r.payload.size)
        BY <2>1, <2>3 DEF RmcpInv, Responses, MessageOK, FromServer
    <3>2. PICK n \in Nat : n = r.length
        BY <3>1
    <3>3. PICK k : k = Pad(n)
        OBVIOUS
    <3>4. k.size \in Nat /\ k.size % 16 = 0 /\ k.size - k.cpl - 1 = n
        BY <3>3, Padding
    <3>5. (12 + 16 + k.size + IntegrityPad(k.size) + 2) % 4 = 0
        BY <3>4, WholeWords
    <3> QED
        BY <3>1, <3>2, <3>3, <3>4, <3>5
  <2>4. ASSUME NEW i \in Sids, Cardinality(Responses(i)) < SequenceMod
        PROVE  \A r, s \in Responses(i) : r # s => r.seq # s.seq
      BY <2>1, <2>4 DEF RmcpInv, NumbersOK
  <2> QED
      BY <2>2, <2>3, <2>4 DEF ResponsesTaken
<1> QED
    BY <1>1, RmcpInvariant, PTL

-----------------------------------------------------------------------------
(* The type invariant                                                      *)

LEMMA SentTyped ==
    ASSUME RmcpTyped, NEW m, m # <<>>, net' = net \cup {m}
    PROVE  \A n \in net' : n # <<>>
    BY DEF RmcpTyped

LEMMA TypedStep ==
    ASSUME RmcpInv, RmcpTyped, RmcpNext
    PROVE  RmcpTyped'
<1>1. ASSUME NEW c \in Consoles, Login(c) \/ Opened(c) \/ Command(c)
      PROVE  RmcpTyped'
  <2>1. UNCHANGED <<table, changes, loop>>
      BY <1>1 DEF Login, Opened, Command
  <2>2. \A m \in net' : m # <<>>
    <3>1. CASE Login(c)
      <4>1. PICK m : m = [kind |-> "open", from |-> c] /\ Transmit(m)
          BY <3>1 DEF Login
      <4>2. m # <<>>
          BY <4>1
      <4> QED
          BY <4>1, <4>2, SentTyped DEF Transmit
    <3>2. CASE Opened(c)
      <4>1. PICK o, m :
                /\ m = [kind |-> "rakp1", from |-> c, sid |-> o.sid, rn |-> c, name |-> console[c].name]
                /\ Transmit(m)
          BY <3>2 DEF Opened
      <4>2. m # <<>>
          BY <4>1
      <4> QED
          BY <4>1, <4>2, SentTyped DEF Transmit
    <3>3. CASE Command(c)
      <4>1. PICK l, m :
                /\ m = [kind |-> "command", from |-> c, sid |-> console[c].sid,
                        n |-> Len(console[c].cmds) + 1, key |-> ConsoleKey(c), payload |-> Pad(l)]
                /\ Transmit(m)
          BY <3>3 DEF Command
      <4>2. m # <<>>
          BY <4>1
      <4> QED
          BY <4>1, <4>2, SentTyped DEF Transmit
    <3> QED
        BY <1>1, <3>1, <3>2, <3>3
  <2> QED
      BY <2>1, <2>2 DEF RmcpTyped
<1>2. ASSUME NEW c \in Consoles, Rakp2(c) \/ Rakp4(c)
      PROVE  RmcpTyped'
  <2>1. UNCHANGED <<table, changes, loop>>
      BY <1>2 DEF Rakp2, Rakp4
  <2>2. \A m \in net' : m # <<>>
    <3>1. PICK m : m = [kind |-> "rakp3", from |-> c, sid |-> console[c].sid,
                        code |-> Code3(console[c].pw, console[c].sid, Mine(c))]
        OBVIOUS
    <3>2. UNCHANGED net \/ Transmit(m)
        BY <1>2, <3>1 DEF Rakp2, Rakp4
    <3>3. m # <<>>
        BY <3>1
    <3> QED
        BY <3>2, <3>3, SentTyped DEF Transmit, RmcpTyped
  <2> QED
      BY <2>1, <2>2 DEF RmcpTyped
<1>3. ASSUME NEW m \in net, Take(m)
      PROVE  RmcpTyped'
  <2>1. UNCHANGED <<table, changes>> /\ m # <<>>
      BY <1>3 DEF Take, OpenSession, TakeRakp1, TakeRakp3, CommandInSession, RmcpTyped
  <2>2. CASE OpenSession(m) \/ CommandInSession(m)
    <3>1. loop' = Idle
        BY <2>2 DEF OpenSession, CommandInSession, Reply
    <3>2. \A n \in net' : n # <<>>
      <4>1. PICK i, n :
                /\ \/ n = [kind |-> "opened", to |-> m.from, sid |-> i]
                   \/ n = Response(m, Unpad(m.payload))
                /\ Transmit(n)
          BY <2>2 DEF OpenSession, CommandInSession, Reply
      <4>2. \A l : Response(m, l) # <<>>
          BY DEF Response
      <4>3. n # <<>>
          BY <4>1, <4>2
      <4> QED
          BY <4>1, <4>3, SentTyped DEF Transmit
    <3> QED
        BY <2>1, <3>1, <3>2 DEF RmcpTyped, Idle
  <2>3. CASE TakeRakp1(m) \/ TakeRakp3(m)
    <3>1. loop' = [Idle EXCEPT !.pc = "lookup", !.msg = m] /\ net' = net
        BY <2>3 DEF TakeRakp1, TakeRakp3
    <3>2. loop'.pc = "lookup" /\ loop'.msg = m
        BY <3>1 DEF Idle
    <3> QED
        BY <2>1, <3>1, <3>2 DEF RmcpTyped
  <2> QED
      BY <1>3, <2>2, <2>3 DEF Take
<1>4. CASE LoopStep
  <2>1. UNCHANGED <<table, changes>>
      BY <1>4 DEF LoopStep, Lookup, AnswerRakp1, AnswerRakp3
  <2>2. CASE Lookup
    <3>1. DOMAIN loop = DOMAIN Idle /\ loop.msg \in net /\ loop.msg.kind \in {"rakp1", "rakp3"}
        BY <2>2 DEF Lookup, RmcpInv, LoopOK
    <3>2. loop'.msg = loop.msg /\ loop'.pc = loop.msg.kind /\ net' = net
        BY <2>2, <3>1 DEF Lookup, Idle
    <3> QED
        BY <2>1, <3>1, <3>2 DEF RmcpTyped
  <2>3. CASE AnswerRakp1
    <3>1. loop' = Idle
        BY <2>3 DEF AnswerRakp1, Refusal, Reply
    <3>2. \A n \in net' : n # <<>>
      <4>1. PICK k, m : m = [kind |-> "rakp2", to |-> Here.rc, code |-> k] /\ Transmit(m)
          BY <2>3 DEF AnswerRakp1, Refusal, Reply
      <4>2. m # <<>>
          BY <4>1
      <4> QED
          BY <4>1, <4>2, SentTyped DEF Transmit
    <3> QED
        BY <2>1, <3>1, <3>2 DEF RmcpTyped, Idle
  <2>4. CASE AnswerRakp3
    <3>1. loop' = Idle
        BY <2>4 DEF AnswerRakp3, Refusal, Reply
    <3>2. \A n \in net' : n # <<>>
      <4>1. PICK k, m : m = [kind |-> "rakp4", to |-> Here.rc, code |-> k] /\ Transmit(m)
          BY <2>4 DEF AnswerRakp3, Refusal, Reply
      <4>2. m # <<>>
          BY <4>1
      <4> QED
          BY <4>1, <4>2, SentTyped DEF Transmit
    <3> QED
        BY <2>1, <3>1, <3>2 DEF RmcpTyped, Idle
  <2> QED
      BY <1>4, <2>2, <2>3, <2>4 DEF LoopStep
<1>5. CASE ChangeTable
  <2>1. changes' \in 0..MaxChanges
      BY <1>5 DEF ChangeTable, RmcpTyped
  <2>2. table' \in [Slots -> [name: Names \cup {Unset}, pw: Passwords \cup {Unset}]]
      BY <1>5 DEF ChangeTable, RmcpTyped, Free
  <2> QED
      BY <1>5, <2>1, <2>2 DEF ChangeTable, RmcpTyped
<1> QED
    BY <1>1, <1>2, <1>3, <1>4, <1>5 DEF RmcpNext, Receives

\* The user table, the sessions and the loop have the types of State.users, Session and of
\* the variables of HandleRMCPPlusMessage; the loop is at work on a message whose session
\* exists and has a name.
THEOREM SessionsTyped == ServersSpec => []RmcpTypeOK
<1>1. ServersInit => RmcpTyped
    BY DEF ServersInit, RmcpInit, RmcpTyped, Idle, Free
<1>2. RmcpInv /\ RmcpTyped /\ [ServersNext]_ipmiVars => RmcpTyped'
  <2>1. ASSUME RmcpInv, RmcpTyped, [ServersNext]_ipmiVars
        PROVE  RmcpTyped'
    <3>1. RmcpNext \/ UNCHANGED rmcpVars
        BY <2>1 DEF ServersNext, ipmiVars
    <3>2. UNCHANGED rmcpVars => RmcpTyped'
        BY <2>1 DEF rmcpVars, RmcpTyped
    <3> QED
        BY <2>1, <3>1, <3>2, TypedStep
  <2> QED
      BY <2>1
<1>3. RmcpInv /\ RmcpTyped => RmcpTypeOK
  <2>1. SUFFICES ASSUME RmcpInv, RmcpTyped
                 PROVE  RmcpTypeOK
      OBVIOUS
  <2>2. ASSUME NEW i \in Sids
        PROVE  /\ sessions[i].rc \in {i[1], Unset} /\ sessions[i].out \in 0..(SequenceMod - 1)
               /\ sessions[i].name \in Names \cup {Unset}
    <3>1. i[1] \in Consoles /\ SessionOK(i)
        BY <2>1 DEF RmcpInv, Sids
    <3>2. HasSession(i[1]) => console[i[1]].name \in Names
        BY <2>1, <3>1 DEF RmcpInv, ConsoleOK, HasSession
    <3> QED
        BY <3>1, <3>2 DEF SessionOK
  <2>3. ASSUME ~LoopAt("receive")
        PROVE  loop.msg \in net /\ Found(loop.msg) /\ Here.name # Unset
    <3>1. loop.msg \in net /\ Here.name # Unset
        BY <2>1, <2>3 DEF RmcpInv, LoopOK
    <3>2. Found(loop.msg)
        BY <3>1 DEF Found, Here, NoSession
    <3> QED
        BY <3>1, <3>2
  <2>4. ASSUME NEW c \in Consoles
        PROVE  /\ console[c].pc \in {"idle", "opening", "rakp1", "rakp3", "up", "refused"}
               /\ console[c].pc \in {"rakp1", "rakp3", "up"} => console[c].sid \in Sids
      BY <2>1 DEF RmcpInv, ConsoleOK, HasSession
  <2> QED
      BY <2>1, <2>2, <2>3, <2>4 DEF RmcpTypeOK, RmcpTyped
<1> QED
    BY <1>1, <1>2, <1>3, RmcpInvariant, PTL DEF ServersSpec

-----------------------------------------------------------------------------
(* What a setting command writes                                           *)

\* A byte is the sum of its bits.
LEMMA BitsOf ==
    ASSUME NEW b \in Byte, (b \div 8) % 4 = 0
    PROVE  (b % 8) + IfBit(Bit(b, 32), 32) + IfBit(Bit(b, 64), 64) + IfBit(Bit(b, 128), 128) = b
    BY DEF Byte, Bit, IfBit

\* handleSetLANConfig, handleGetLANConfig.
LEMMA LanReadsBack ==
    ASSUME NEW m \in Requests, IsSetLAN(m), Execute(m)
    PROVE  IF Answer(m).code = OK THEN Kept(m) => ReadBack(m)' ELSE UNCHANGED commandVars
<1>1. PICK d \in Seq(Byte) : d = m.data
    BY WireAssumption
<1>2. Answer(m) = SetLANConfigAnswer(d)
    BY <1>1 DEF Answer, IsSetLAN, IsSetChannel, IsSetBoot, Is, Transport, App, Chassis
<1>3. SetLANConfig(d)
    BY <1>1 DEF Execute, IsSetLAN, IsSetChannel, IsSetBoot, Is, Transport, App, Chassis
<1>4. CASE SetLANConfigAnswer(d).code # OK
    BY <1>2, <1>3, <1>4 DEF SetLANConfig, commandVars
<1>5. CASE SetLANConfigAnswer(d).code = OK
  <2>1. Len(d) >= 2 /\ d[2] \in supportedLANParams
      BY <1>5 DEF SetLANConfigAnswer, Fail, OK, InvalidField, ParameterOutOfRange
  <2>2. d[2] # 0 => d[2] \in DOMAIN lanConfig' /\ lanConfig'[d[2]] = SubSeq(d, 3, Len(d))
      BY <1>3, <1>5 DEF SetLANConfig
  <2>3. PICK a, b : a = d[1] /\ b = d[2]
      OBVIOUS
  <2>4. Len(<<a, b, 0, 0>>) = 4 /\ <<a, b, 0, 0>>[2] = b
      OBVIOUS
  <2>5. b # 0 => GetLANConfig(<<a, b, 0, 0>>)' = Done(<<lanConfigRevision>> \o lanConfig'[b])
      BY <2>1, <2>2, <2>3, <2>4 DEF GetLANConfig
  <2>6. ASSUME b # 0
        PROVE  GetLANConfig(<<a, b, 0, 0>>)'.data = <<lanConfigRevision>> \o SubSeq(d, 3, Len(d))
    <3>1. PICK v : v = <<lanConfigRevision>> \o SubSeq(d, 3, Len(d))
        OBVIOUS
    <3>2. GetLANConfig(<<a, b, 0, 0>>)' = Done(v)
        BY <2>2, <2>3, <2>5, <2>6, <3>1
    <3>3. Done(v).data = v
        BY DEF Done
    <3> QED
        BY <3>1, <3>2, <3>3
  <2>7. Kept(m) => ReadBack(m)'
      BY <1>1, <2>3, <2>6 DEF ReadBack, Kept
  <2> QED
      BY <1>2, <1>5, <2>7
<1> QED
    BY <1>4, <1>5

\* handleSetChannelAccess, handleGetChannelAccess.
LEMMA ChannelReadsBack ==
    ASSUME NEW m \in Requests, IsSetChannel(m), Execute(m), DOMAIN channelAccess = 0..15
    PROVE  IF Answer(m).code = OK THEN Kept(m) => ReadBack(m)' ELSE UNCHANGED commandVars
<1>1. PICK d \in Seq(Byte) : d = m.data
    BY WireAssumption
<1>2. ~IsSetLAN(m) /\ ~IsSetBoot(m)
    BY DEF IsSetLAN, IsSetChannel, IsSetBoot, Is, Transport, App, Chassis
<1>3. Answer(m) = SetChannelAccessAnswer(d)
    BY <1>1 DEF Answer, IsSetLAN, IsSetChannel, IsSetBoot, Is, Transport, App, Chassis
<1>4. SetChannelAccess(d)
    BY <1>1, <1>2 DEF Execute
<1>5. CASE Len(d) < 3
  <2>1. Answer(m).code # OK
      BY <1>3, <1>5 DEF SetChannelAccessAnswer, Fail, InvalidField, OK
  <2> QED
      BY <1>4, <1>5, <2>1 DEF SetChannelAccess, commandVars
<1>6. CASE ~(Len(d) < 3) /\ ~Kept(m)
  <2>1. Answer(m).code = OK
      BY <1>3, <1>6 DEF SetChannelAccessAnswer, Done
  <2> QED
      BY <1>6, <2>1
<1>7. CASE ~(Len(d) < 3) /\ Kept(m)
  <2>1. /\ d[1] \in Byte /\ d[2] \in Byte /\ d[3] \in Byte
        /\ (d[2] \div 8) % 4 = 0 /\ d[3] < 16
      BY <1>1, <1>7 DEF Kept
  <2>2. PICK a, b, e : a = d[1] /\ b = d[2] /\ e = d[3]
      OBVIOUS
  <2>bytes. a \in 0..255 /\ b \in 0..255 /\ e \in 0..255 /\ (b \div 8) % 4 = 0 /\ e < 16
      BY <2>1, <2>2 DEF Byte
  <2>3. a % 16 \in 0..15
      BY <2>bytes
  <2>4. channelAccess'[a % 16] =
            [mode |-> b % 8, userAuth |-> Bit(b, 32), msgAuth |-> Bit(b, 64),
             alerting |-> ~Bit(b, 128), limit |-> e % 16]
      BY <1>4, <1>7, <2>2, <2>3 DEF SetChannelAccess
  <2>5. PICK x : x = channelAccess'[a % 16]
      OBVIOUS
  <2>6. /\ x.mode = b % 8 /\ x.limit = e % 16
        /\ x.userAuth <=> Bit(b, 32)
        /\ x.msgAuth <=> Bit(b, 64)
        /\ ~x.alerting <=> Bit(b, 128)
    <3>1. x = [mode |-> b % 8, userAuth |-> Bit(b, 32), msgAuth |-> Bit(b, 64),
               alerting |-> ~Bit(b, 128), limit |-> e % 16]
        BY <2>4, <2>5
    <3> QED
        BY <3>1, Zenon
  <2>7. GetChannelAccess(<<a, 64>>)' =
            Done(<<(x.mode % 8) + IfBit(x.userAuth, 32) + IfBit(x.msgAuth, 64) + IfBit(~x.alerting, 128),
                   x.limit % 16>>)
    <3>1. ~(Len(<<a, 64>>) < 2) /\ <<a, 64>>[1] = a
        OBVIOUS
    <3>2. x = channelAccess'[<<a, 64>>[1] % 16]
        BY <2>5, <3>1
    <3> QED
        BY <3>1, <3>2, Zenon DEF GetChannelAccess
  <2>8. (x.mode % 8) + IfBit(x.userAuth, 32) + IfBit(x.msgAuth, 64) + IfBit(~x.alerting, 128) = b
    <3>1. (b % 8) % 8 = b % 8
        BY <2>bytes
    <3>2. IfBit(x.userAuth, 32) = IfBit(Bit(b, 32), 32)
        BY <2>6 DEF IfBit
    <3>3. IfBit(x.msgAuth, 64) = IfBit(Bit(b, 64), 64)
        BY <2>6 DEF IfBit
    <3>4. IfBit(~x.alerting, 128) = IfBit(Bit(b, 128), 128)
        BY <2>6 DEF IfBit
    <3>5. (b % 8) + IfBit(Bit(b, 32), 32) + IfBit(Bit(b, 64), 64) + IfBit(Bit(b, 128), 128) = b
        BY <2>bytes, BitsOf DEF Byte
    <3> QED
        BY <2>6, <3>1, <3>2, <3>3, <3>4, <3>5
  <2>9. x.limit % 16 = e
    <3>1. (e % 16) % 16 = e
        BY <2>bytes
    <3> QED
        BY <2>6, <3>1
  <2>10. GetChannelAccess(<<a, 64>>)'.data = <<b, e>>
    <3>1. GetChannelAccess(<<a, 64>>)' = Done(<<b, e>>)
        BY <2>7, <2>8, <2>9
    <3>2. PICK v : v = <<b, e>>
        OBVIOUS
    <3>3. Done(v).data = v
        BY DEF Done
    <3> QED
        BY <3>1, <3>2, <3>3
  <2>11. ReadBack(m)'
      BY <1>1, <1>2, <2>2, <2>10 DEF ReadBack
  <2>12. Answer(m).code = OK
      BY <1>3, <1>7 DEF SetChannelAccessAnswer, Done
  <2> QED
      BY <2>11, <2>12
<1> QED
    BY <1>5, <1>6, <1>7

\* handleSetSystemBootOptions, handleGetSystemBootOptions.
LEMMA BootReadsBack ==
    ASSUME NEW m \in Requests, IsSetBoot(m), Execute(m)
    PROVE  IF Answer(m).code = OK THEN Kept(m) => ReadBack(m)' ELSE UNCHANGED commandVars
<1>1. PICK d \in Seq(Byte) : d = m.data
    BY WireAssumption
<1>2. ~IsSetLAN(m) /\ ~IsSetChannel(m)
    BY DEF IsSetLAN, IsSetChannel, IsSetBoot, Is, Transport, App, Chassis
<1>3. Answer(m) = SetBootOptionsAnswer(d)
    BY <1>1 DEF Answer, IsSetLAN, IsSetChannel, IsSetBoot, Is, Transport, App, Chassis
<1>4. SetBootOptions(d)
    BY <1>1, <1>2 DEF Execute
<1>5. CASE SetBootOptionsAnswer(d).code # OK
    BY <1>3, <1>4, <1>5 DEF SetBootOptions, commandVars
<1>6. CASE SetBootOptionsAnswer(d).code = OK /\ ~Kept(m)
    BY <1>3, <1>6
<1>7. CASE SetBootOptionsAnswer(d).code = OK /\ Kept(m)
  <2>1. Parameter(d) = 5
      BY <1>1, <1>7 DEF Kept
  <2>2. d[2] \in {0, 32, 128, 160} /\ \E t \in DOMAIN Devices : d[3] = 4 * Devices[t]
      BY <1>1, <1>7 DEF Kept
  <2>3. PICK b, n : b = d[2] /\ n = d[3]
      OBVIOUS
  <2>4. PICK t \in DOMAIN Devices : n = 4 * Devices[t]
      BY <2>2, <2>3
  <2>5. Devices[t] \in {0, 1, 2, 5, 6}
      BY DEF Devices
  <2>6. (n \div 4) % 16 = Devices[t]
      BY <2>4, <2>5
  <2>7. Devices[DeviceTarget(Devices[t])] = Devices[t]
      BY DEF DeviceTarget
  <2>8. override' = [enabled |-> IF Bit(b, 128) THEN "Once" ELSE "Disabled",
                     target |-> DeviceTarget(Devices[t]),
                     mode |-> IF Bit(b, 32) THEN "UEFI" ELSE "Legacy"]
      BY <1>4, <1>7, <2>1, <2>3, <2>6 DEF SetBootOptions
  <2>9. PICK o : o = override'
      OBVIOUS
  <2>10. /\ o.enabled # "Disabled" <=> Bit(b, 128)
         /\ o.mode = "UEFI" <=> Bit(b, 32)
         /\ o.target = DeviceTarget(Devices[t])
      BY <2>8, <2>9
  <2>11. IfBit(o.enabled # "Disabled", 128) + IfBit(o.mode = "UEFI", 32) = b
    <3>1. IfBit(Bit(b, 128), 128) + IfBit(Bit(b, 32), 32) = b
        BY <2>2, <2>3 DEF Bit, IfBit
    <3>2. IfBit(o.enabled # "Disabled", 128) = IfBit(Bit(b, 128), 128)
        BY <2>10 DEF IfBit
    <3>3. IfBit(o.mode = "UEFI", 32) = IfBit(Bit(b, 32), 32)
        BY <2>10 DEF IfBit
    <3> QED
        BY <3>1, <3>2, <3>3
  <2>12. 4 * Devices[o.target] = n
      BY <2>4, <2>7, <2>10
  <2>13. GetBootOptions(<<5, 0, 0>>)' =
             Done(<<1, 133, IfBit(o.enabled # "Disabled", 128) + IfBit(o.mode = "UEFI", 32),
                    4 * Devices[o.target], 0, 0, 0>>)
    <3>1. Len(<<5, 0, 0>>) = 3 /\ Parameter(<<5, 0, 0>>) = 5
        BY DEF Parameter
    <3> QED
        BY <2>9, <3>1 DEF GetBootOptions, IfBit
  <2>14. GetBootOptions(<<5, 0, 0>>)' = Done(<<1, 133, b, n, 0, 0, 0>>)
      BY <2>11, <2>12, <2>13
  <2>15. SubSeq(GetBootOptions(<<5, 0, 0>>)'.data, 3, 4) = <<b, n>>
    <3>1. PICK v : v = <<1, 133, b, n, 0, 0, 0>>
        OBVIOUS
    <3>2. Done(v).data = v
        BY DEF Done
    <3>3. SubSeq(v, 3, 4) = <<b, n>>
      <4>1. b \in Nat /\ n \in Nat
          BY <2>2, <2>3, <2>4, <2>5
      <4>2. v \in Seq(Nat) /\ Len(v) = 7 /\ v[3] = b /\ v[4] = n
          BY <3>1, <4>1
      <4>3. SubSeq(v, 3, 4) = [i \in 1..2 |-> v[i + 2]]
          BY <4>2
      <4>4. Len(<<b, n>>) = 2 /\ <<b, n>> = [i \in 1..2 |-> IF i = 1 THEN b ELSE n]
          OBVIOUS
      <4>5. [i \in 1..2 |-> v[i + 2]] = [i \in 1..2 |-> IF i = 1 THEN b ELSE n]
          BY <4>2
      <4> QED
          BY <4>3, <4>4, <4>5
    <3> QED
        BY <2>14, <3>1, <3>2, <3>3
  <2>16. ReadBack(m)'
      BY <1>1, <1>2, <2>3, <2>15 DEF ReadBack
  <2> QED
      BY <1>3, <1>7, <2>16
<1> QED
    BY <1>5, <1>6, <1>7

\* handleIPMICommand: told that it has been set, the reader finds it; told otherwise, or
\* not setting anything, it changes nothing.
LEMMA ReadsBack ==
    ASSUME NEW m \in Requests, Execute(m), DOMAIN channelAccess = 0..15
    PROVE  IF Answer(m).code = OK THEN Kept(m) => ReadBack(m)' ELSE UNCHANGED commandVars
<1>1. CASE IsSetLAN(m)
    BY <1>1, LanReadsBack
<1>2. CASE IsSetChannel(m)
    BY <1>2, ChannelReadsBack
<1>3. CASE IsSetBoot(m)
    BY <1>3, BootReadsBack
<1>4. CASE ~IsSetLAN(m) /\ ~IsSetChannel(m) /\ ~IsSetBoot(m)
  <2>1. UNCHANGED commandVars
      BY <1>4 DEF Execute
  <2>2. ReadBack(m)'
      BY <1>4 DEF ReadBack
  <2> QED
      BY <2>1, <2>2
<1> QED
    BY <1>1, <1>2, <1>3, <1>4

\* The sequence number and the LUN have no part in it.
LEMMA SameRequest ==
    ASSUME NEW r, NEW m, r.netFn = m.netFn, r.cmd = m.cmd, r.data = m.data
    PROVE  Answer(r) = Answer(m) /\ (Execute(r) <=> Execute(m))
<1>1. /\ \A n, k : Is(r, n, k) <=> Is(m, n, k)
      /\ IsSetLAN(r) <=> IsSetLAN(m)
      /\ IsSetChannel(r) <=> IsSetChannel(m)
      /\ IsSetBoot(r) <=> IsSetBoot(m)
    BY DEF Is, IsSetLAN, IsSetChannel, IsSetBoot
<1>2. Answer(r) = Answer(m)
    BY <1>1 DEF Answer
<1>3. Execute(r) <=> Execute(m)
    BY <1>1 DEF Execute
<1> QED
    BY <1>2, <1>3

IsSeq(s) == Len(s) \in Nat /\ s = [i \in 1..Len(s) |-> s[i]]

LEMMA AppendIsSeq ==
    ASSUME NEW s, IsSeq(s), NEW e
    PROVE  IsSeq(Append(s, e)) /\ Len(Append(s, e)) = Len(s) + 1 /\ Last(Append(s, e)) = e
<1> DEFINE S == {s[i] : i \in 1..Len(s)} \cup {e}
<1>1. s \in Seq(S) /\ e \in S
    BY DEF IsSeq
<1>2. Append(s, e) \in Seq(S) /\ Len(Append(s, e)) = Len(s) + 1
    BY <1>1
<1>3. Append(s, e)[Len(s) + 1] = e
    BY <1>1
<1> HIDE DEF S
<1>4. \A t \in Seq(S) : IsSeq(t)
    BY DEF IsSeq
<1> QED
    BY <1>2, <1>3, <1>4 DEF Last

\* What has been handled is in order; there are 16 channels.
Noted ==
    /\ DOMAIN handled = Conns /\ \A c \in Conns : IsSeq(handled[c])
    /\ DOMAIN channelAccess = 0..15

\* What a step notes of a connection's messages: nothing, a control command, or a request
\* and its answer.
LEMMA OneNoted ==
    ASSUME Noted, WireNext, NEW c \in Conns
    PROVE  \/ handled'[c] = handled[c]
           \/ \E s : handled'[c] = Append(handled[c], [ctl |-> s])
           \/ \E r : /\ Execute(r)
                     /\ handled'[c] = Append(handled[c],
                            [seq |-> r.seq, req |-> [netFn |-> r.netFn, cmd |-> r.cmd, data |-> r.data],
                             ans |-> Answer(r)])
<1>1. ASSUME NEW k \in Conns, Control(k)
      PROVE  handled'[c] = handled[c] \/ \E s : handled'[c] = Append(handled[c], [ctl |-> s])
    BY <1>1 DEF Noted, Control
<1>2. ASSUME NEW k \in Conns, Ipmi(k)
      PROVE  \/ handled'[c] = handled[c]
             \/ \E r : /\ Execute(r)
                       /\ handled'[c] = Append(handled[c],
                              [seq |-> r.seq, req |-> [netFn |-> r.netFn, cmd |-> r.cmd, data |-> r.data],
                               ans |-> Answer(r)])
    BY <1>2 DEF Noted, Ipmi
<1>3. CASE \E k \in Conns : \/ SendRequest(k) \/ SendControl(k) \/ SendGarbage(k) \/ Cut(k)
                            \/ ReadFails(k) \/ ReadEof(k) \/ WriteAnswer(k)
    BY <1>3 DEF SendRequest, SendControl, SendGarbage, Send, Cut, ReadFails, ReadEof, WriteAnswer
<1>4. CASE Elsewhere
    BY <1>4 DEF Elsewhere, wireVars
<1> QED
    BY <1>1, <1>2, <1>3, <1>4 DEF WireNext

LEMMA SameChannels ==
    ASSUME NEW r, Execute(r), DOMAIN channelAccess = 0..15
    PROVE  DOMAIN channelAccess' = 0..15
    BY DEF Execute, SetLANConfig, SetChannelAccess, SetBootOptions, commandVars

LEMMA NotedStep ==
    ASSUME Noted, ServersNext \/ UNCHANGED ipmiVars
    PROVE  Noted'
<1>1. CASE UNCHANGED <<commandVars, wireVars>>
    BY <1>1 DEF Noted, commandVars, wireVars
<1>2. CASE WireNext
  <2>1. DOMAIN handled' = Conns
    <3>1. \/ handled' = handled
          \/ \E k \in Conns : \E v : handled' = [handled EXCEPT ![k] = v]
      <4>1. ASSUME NEW k \in Conns, Control(k)
            PROVE  \E v : handled' = [handled EXCEPT ![k] = v]
          BY <4>1 DEF Control
      <4>2. ASSUME NEW k \in Conns, Ipmi(k)
            PROVE  handled' = handled \/ \E v : handled' = [handled EXCEPT ![k] = v]
          BY <4>2 DEF Ipmi
      <4>3. CASE \E k \in Conns : \/ SendRequest(k) \/ SendControl(k) \/ SendGarbage(k) \/ Cut(k)
                                  \/ ReadFails(k) \/ ReadEof(k) \/ WriteAnswer(k)
          BY <4>3 DEF SendRequest, SendControl, SendGarbage, Send, Cut, ReadFails, ReadEof, WriteAnswer
      <4>4. CASE Elsewhere
          BY <4>4 DEF Elsewhere, wireVars
      <4> QED
          BY <1>2, <4>1, <4>2, <4>3, <4>4 DEF WireNext
    <3> QED
        BY <3>1 DEF Noted
  <2>2. ASSUME NEW c \in Conns
        PROVE  IsSeq(handled'[c])
    <3>1. IsSeq(handled[c])
        BY DEF Noted
    <3>2. PICK s : s = handled[c]
        OBVIOUS
    <3>3. \A e : IsSeq(Append(s, e))
        BY <3>1, <3>2, AppendIsSeq
    <3> QED
        BY <1>2, <3>1, <3>2, <3>3, OneNoted
  <2>3. DOMAIN channelAccess' = 0..15
    <3>1. CASE \E r : Execute(r)
        BY <3>1, SameChannels DEF Noted
    <3>2. CASE UNCHANGED channelAccess
        BY <3>2 DEF Noted
    <3>3. (\E r : Execute(r)) \/ UNCHANGED channelAccess
      <4>1. ASSUME NEW k \in Conns, Control(k)
            PROVE  UNCHANGED channelAccess
          BY <4>1 DEF Control, commandVars
      <4>2. ASSUME NEW k \in Conns, Ipmi(k)
            PROVE  (\E r : Execute(r)) \/ UNCHANGED channelAccess
          BY <4>2 DEF Ipmi, commandVars
      <4>3. CASE \E k \in Conns : \/ SendRequest(k) \/ SendControl(k) \/ SendGarbage(k) \/ Cut(k)
                                  \/ ReadFails(k) \/ ReadEof(k) \/ WriteAnswer(k)
          BY <4>3 DEF SendRequest, SendControl, SendGarbage, Send, Cut, ReadFails, ReadEof,
                 WriteAnswer, commandVars
      <4>4. CASE Elsewhere
          BY <4>4 DEF Elsewhere
      <4> QED
          BY <1>2, <4>1, <4>2, <4>3, <4>4 DEF WireNext
    <3> QED
        BY <3>1, <3>2, <3>3
  <2> QED
      BY <2>1, <2>2, <2>3 DEF Noted
<1> QED
    BY <1>1, <1>2 DEF ServersNext, ipmiVars

LEMMA NotedAlways == ServersSpec => []Noted
<1>1. ServersInit => Noted
  <2> SUFFICES ASSUME ServersInit
               PROVE  Noted
      OBVIOUS
  <2>1. IsSeq(<<>>)
      BY DEF IsSeq
  <2>2. handled = [c \in Conns |-> <<>>] /\ DOMAIN channelAccess = 0..15
      BY DEF ServersInit, WireInit, CommandsInit
  <2> QED
      BY <2>1, <2>2 DEF Noted
<1>2. Noted /\ [ServersNext]_ipmiVars => Noted'
    BY NotedStep
<1> QED
    BY <1>1, <1>2, PTL DEF ServersSpec

\* A setting that was accepted reads back as the bytes that were sent, as far as the BMC
\* keeps it, and a refused one leaves the state alone (handleSetLANConfig,
\* handleSetChannelAccess, handleSetSystemBootOptions): for any requests, on any number of
\* connections, however the state changes by other interfaces.
THEOREM SettingsKept == ServersSpec => SettingsReadBack
<1> DEFINE Settled ==
        \A c \in Conns, m \in Requests :
           LET e == Last(handled'[c])
           IN  Len(handled'[c]) > Len(handled[c]) /\ "req" \in DOMAIN e /\ e.req = m =>
                   IF e.ans.code = OK THEN Kept(m) => ReadBack(m)' ELSE UNCHANGED commandVars
<1>1. ASSUME Noted, ServersNext \/ UNCHANGED ipmiVars
      PROVE  Settled
  <2> SUFFICES ASSUME NEW c \in Conns, NEW m \in Requests,
                      Len(handled'[c]) > Len(handled[c]),
                      "req" \in DOMAIN Last(handled'[c]), Last(handled'[c]).req = m
               PROVE  IF Last(handled'[c]).ans.code = OK THEN Kept(m) => ReadBack(m)' ELSE UNCHANGED commandVars
      OBVIOUS
  <2>1. handled'[c] # handled[c]
      BY DEF Noted, IsSeq
  <2>2. WireNext
      BY <1>1, <2>1 DEF ServersNext, ipmiVars, wireVars
  <2>3. PICK s : s = handled[c] /\ IsSeq(s)
      BY <1>1 DEF Noted
  <2>4. \A e : Last(Append(s, e)) = e
      BY <2>3, AppendIsSeq
  <2>5. ~\E k : handled'[c] = Append(handled[c], [ctl |-> k])
    <3>1. \A k : "req" \notin DOMAIN [ctl |-> k]
        OBVIOUS
    <3> QED
        BY <2>3, <2>4, <3>1
  <2>6. PICK r : /\ Execute(r)
                 /\ handled'[c] = Append(handled[c],
                        [seq |-> r.seq, req |-> [netFn |-> r.netFn, cmd |-> r.cmd, data |-> r.data],
                         ans |-> Answer(r)])
      BY <1>1, <2>1, <2>2, <2>5, OneNoted
  <2>7. /\ m = [netFn |-> r.netFn, cmd |-> r.cmd, data |-> r.data]
        /\ Last(handled'[c]).ans = Answer(r)
      BY <2>3, <2>4, <2>6
  <2>8. Execute(m) /\ Answer(r) = Answer(m)
      BY <2>6, <2>7, SameRequest
  <2> QED
      BY <1>1, <2>7, <2>8, ReadsBack DEF Noted
<1>2. Noted /\ [ServersNext]_ipmiVars => [Settled]_<<wireVars, commandVars>>
    BY <1>1
<1> HIDE DEF Settled
<1>3. ServersSpec => [][Settled]_<<wireVars, commandVars>>
    BY <1>2, NotedAlways, PTL DEF ServersSpec
<1> QED
    BY <1>3 DEF SettingsReadBack, Settled

-----------------------------------------------------------------------------
(* Bytes: induction over sequences, and the folds on them                  *)

HIDE RmcpAssumption DEF ConsoleAt, LoopAt

\* A set of numbers that is not empty has a least one.
LEMMA LeastNumber ==
    ASSUME NEW T \in SUBSET Nat, T # {}
    PROVE  \E n \in T : \A m \in T : n <= m
<1>1. \E n \in T : \A m \in T : ~(<<m, n>> \in OpToRel(<, Nat))
    BY NatLessThanWellFounded, WFMin
<1>2. ASSUME NEW n \in T, NEW m \in T, m < n
      PROVE  <<m, n>> \in OpToRel(<, Nat)
    BY <1>2 DEF OpToRel
<1>3. \A n, m \in T : ~(m < n) => n <= m
    OBVIOUS
<1> QED
    BY <1>1, <1>2, <1>3

\* Induction over the numbers, and over sequences: for sets, in place of predicates.
LEMMA NumbersClimb ==
    ASSUME NEW S, 0 \in S, \A n \in Nat : n \in S => n + 1 \in S
    PROVE  \A n \in Nat : n \in S
<1> DEFINE T == {n \in Nat : n \notin S}
<1>1. SUFFICES ASSUME T # {} PROVE FALSE
    OBVIOUS
<1>2. PICK n \in T : \A m \in T : n <= m
    BY <1>1, LeastNumber
<1>3. n # 0 /\ n - 1 \in Nat /\ n - 1 \notin T
    BY <1>2
<1>4. n - 1 \in S
    BY <1>3
<1> QED
    BY <1>2, <1>3, <1>4

LEMMA SequencesGrow ==
    ASSUME NEW X, NEW T, <<>> \in T, \A s \in Seq(X), e \in X : s \in T => Append(s, e) \in T
    PROVE  \A s \in Seq(X) : s \in T
<1> DEFINE N == {n \in Nat : \A s \in Seq(X) : Len(s) = n => s \in T}
<1>1. 0 \in N
  <2>1. \A s \in Seq(X) : Len(s) = 0 => s = <<>>
      OBVIOUS
  <2> QED
      BY <2>1
<1>2. ASSUME NEW n \in Nat, n \in N
      PROVE  n + 1 \in N
  <2> SUFFICES ASSUME NEW s \in Seq(X), Len(s) = n + 1
               PROVE  s \in T
      OBVIOUS
  <2>1. s # <<>>
      OBVIOUS
  <2>2. PICK t \in Seq(X), e \in X : s = Append(t, e)
      BY <2>1, SequenceEmptyOrAppend
  <2>3. Len(t) = n
      BY <2>2
  <2> QED
      BY <1>2, <2>2, <2>3
<1> HIDE DEF N
<1>3. \A n \in Nat : n \in N
    BY <1>1, <1>2, NumbersClimb
<1> QED
    BY <1>3 DEF N

\* The recursive function of FlattenSeq exists ...
LEMMA FlattenExists ==
    ASSUME NEW s
    PROVE  \A n \in Nat : \E f : f = [i \in 1..n |-> IF i = 1 THEN s[i] ELSE f[i - 1] \o s[i]]
<1> DEFINE N == {n \in Nat : \E f : f = [i \in 1..n |-> IF i = 1 THEN s[i] ELSE f[i - 1] \o s[i]]}
<1>1. 0 \in N
  <2> DEFINE g == [i \in 1..0 |-> 0]
  <2>1. g = [i \in 1..0 |-> IF i = 1 THEN s[i] ELSE g[i - 1] \o s[i]]
      OBVIOUS
  <2> QED
      BY <2>1
<1>2. ASSUME NEW n \in Nat, n \in N
      PROVE  n + 1 \in N
  <2>1. PICK f : f = [i \in 1..n |-> IF i = 1 THEN s[i] ELSE f[i - 1] \o s[i]]
      BY <1>2
  <2>2. \A i \in 1..n : f[i] = IF i = 1 THEN s[i] ELSE f[i - 1] \o s[i]
      BY <2>1, Zenon
  <2> DEFINE v == IF n = 0 THEN s[1] ELSE f[n] \o s[n + 1]
             g == [i \in 1..(n + 1) |-> IF i <= n THEN f[i] ELSE v]
  <2>3. ASSUME NEW i \in 1..(n + 1)
        PROVE  g[i] = IF i = 1 THEN s[i] ELSE g[i - 1] \o s[i]
    <3>1. CASE i <= n
      <4>1. i \in 1..n /\ g[i] = f[i] /\ (i # 1 => g[i - 1] = f[i - 1])
          BY <3>1
      <4> QED
          BY <2>2, <4>1
    <3>2. CASE i = n + 1
      <4>1. g[i] = v /\ (i # 1 => g[i - 1] = f[n])
          BY <3>2
      <4>2. v = IF i = 1 THEN s[i] ELSE f[n] \o s[i]
          BY <3>2
      <4> QED
          BY <4>1, <4>2
    <3> QED
        BY <3>1, <3>2
  <2>4. g = [i \in 1..(n + 1) |-> g[i]]
      OBVIOUS
  <2>5. PICK h : h = g
      OBVIOUS
  <2> HIDE DEF g
  <2>6. h = [i \in 1..(n + 1) |-> IF i = 1 THEN s[i] ELSE h[i - 1] \o s[i]]
      BY <2>3, <2>4, <2>5
  <2>7. \E flat : flat = [i \in 1..(n + 1) |-> IF i = 1 THEN s[i] ELSE flat[i - 1] \o s[i]]
      BY <2>6, Zenon
  <2>8. n + 1 \in Nat
      OBVIOUS
  <2> QED
      BY <2>7, <2>8, Zenon
<1> HIDE DEF N
<1>3. \A n \in Nat : n \in N
    BY <1>1, <1>2, NumbersClimb
<1> QED
    BY <1>3 DEF N

\* ... and is the same for a sequence and one that goes on.
FlatOf(s) == CHOOSE f : f = [i \in 1..Len(s) |-> IF i = 1 THEN s[i] ELSE f[i - 1] \o s[i]]

LEMMA FlatOfIs ==
    ASSUME NEW X, NEW s \in Seq(X)
    PROVE  /\ \A i \in 1..Len(s) : FlatOf(s)[i] = IF i = 1 THEN s[i] ELSE FlatOf(s)[i - 1] \o s[i]
           /\ FlattenSeq(s) = IF Len(s) = 0 THEN s ELSE FlatOf(s)[Len(s)]
<1>1. Len(s) \in Nat
    OBVIOUS
<1>2. \E f : f = [i \in 1..Len(s) |-> IF i = 1 THEN s[i] ELSE f[i - 1] \o s[i]]
    BY <1>1, FlattenExists
<1>3. FlatOf(s) = [i \in 1..Len(s) |-> IF i = 1 THEN s[i] ELSE FlatOf(s)[i - 1] \o s[i]]
    BY <1>2 DEF FlatOf
<1>4. FlattenSeq(s) = IF Len(s) = 0 THEN s ELSE FlatOf(s)[Len(s)]
    BY DEF FlattenSeq, FlatOf
<1> QED
    BY <1>3, <1>4, Zenon

\* One sequence more is put at the end.
LEMMA FlattenAppend ==
    ASSUME NEW X, NEW s \in Seq(Seq(X)), NEW x \in Seq(X), FlattenSeq(s) \in Seq(X)
    PROVE  FlattenSeq(<<>>) = <<>> /\ FlattenSeq(Append(s, x)) = FlattenSeq(s) \o x
<1>1. PICK t : t = Append(s, x)
    OBVIOUS
<1>2. t \in Seq(Seq(X)) /\ Len(t) = Len(s) + 1 /\ Len(s) \in Nat /\ t[Len(s) + 1] = x
    BY <1>1
<1>3. \A i \in 1..Len(s) : t[i] = s[i]
    BY <1>1
<1>4. FlattenSeq(<<>>) = <<>>
    BY DEF FlattenSeq
<1>5. /\ \A i \in 1..Len(s) : FlatOf(s)[i] = IF i = 1 THEN s[i] ELSE FlatOf(s)[i - 1] \o s[i]
      /\ FlattenSeq(s) = IF Len(s) = 0 THEN s ELSE FlatOf(s)[Len(s)]
    BY FlatOfIs
<1>6. /\ \A i \in 1..Len(t) : FlatOf(t)[i] = IF i = 1 THEN t[i] ELSE FlatOf(t)[i - 1] \o t[i]
      /\ FlattenSeq(t) = FlatOf(t)[Len(t)]
    BY <1>2, FlatOfIs
<1> DEFINE N == {n \in Nat : n \in 1..Len(s) => FlatOf(t)[n] = FlatOf(s)[n]}
<1>7. \A n \in Nat : n \in N
  <2>1. 0 \in N
      OBVIOUS
  <2>2. ASSUME NEW n \in Nat, n \in N
        PROVE  n + 1 \in N
    <3> SUFFICES ASSUME n + 1 \in 1..Len(s)
                 PROVE  FlatOf(t)[n + 1] = FlatOf(s)[n + 1]
        OBVIOUS
    <3>1. n + 1 \in 1..Len(t) /\ (n + 1) - 1 = n
        BY <1>2
    <3>2. /\ FlatOf(t)[n + 1] = IF n + 1 = 1 THEN t[n + 1] ELSE FlatOf(t)[n] \o t[n + 1]
          /\ FlatOf(s)[n + 1] = IF n + 1 = 1 THEN s[n + 1] ELSE FlatOf(s)[n] \o s[n + 1]
        BY <1>5, <1>6, <3>1
    <3>3. n + 1 # 1 => FlatOf(t)[n] = FlatOf(s)[n]
        BY <2>2
    <3> QED
        BY <1>3, <3>2, <3>3
  <2> HIDE DEF N
  <2> QED
      BY <2>1, <2>2, NumbersClimb
<1>8. CASE Len(s) = 0
  <2>1. FlattenSeq(t) = x
      BY <1>2, <1>6, <1>8
  <2>2. FlattenSeq(s) = <<>>
      BY <1>5, <1>8
  <2> QED
      BY <1>1, <1>4, <2>1, <2>2, ConcatEmptySeq
<1>9. CASE Len(s) # 0
  <2>1. /\ Len(t) \in 1..Len(t) /\ Len(t) # 1 /\ Len(t) - 1 = Len(s) /\ Len(s) \in 1..Len(s)
        /\ t[Len(t)] = x
      BY <1>2, <1>9
  <2>2. FlatOf(t)[Len(t)] = FlatOf(t)[Len(s)] \o x
      BY <1>6, <2>1
  <2>3. FlatOf(t)[Len(s)] = FlatOf(s)[Len(s)]
      BY <1>7, <1>2, <2>1
  <2> QED
      BY <1>1, <1>4, <1>5, <1>6, <1>9, <2>2, <2>3
<1> QED
    BY <1>8, <1>9

\* Sequences put together are a sequence, and two halves may be put together apart.
LEMMA FlattenType ==
    ASSUME NEW X
    PROVE  \A s \in Seq(Seq(X)) : FlattenSeq(s) \in Seq(X)
<1> DEFINE T == {s \in Seq(Seq(X)) : FlattenSeq(s) \in Seq(X)}
<1>1. <<>> \in T
  <2>1. FlattenSeq(<<>>) = <<>>
      BY DEF FlattenSeq
  <2>2. <<>> \in Seq(X) /\ <<>> \in Seq(Seq(X))
      OBVIOUS
  <2> QED
      BY <2>1, <2>2
<1>2. ASSUME NEW s \in Seq(Seq(X)), NEW e \in Seq(X), s \in T
      PROVE  Append(s, e) \in T
  <2>1. FlattenSeq(Append(s, e)) = FlattenSeq(s) \o e
      BY <1>2, FlattenAppend
  <2>2. Append(s, e) \in Seq(Seq(X)) /\ FlattenSeq(s) \o e \in Seq(X)
      BY <1>2
  <2> QED
      BY <2>1, <2>2
<1> HIDE DEF T
<1>3. \A s \in Seq(Seq(X)) : s \in T
    BY <1>1, <1>2, SequencesGrow
<1> QED
    BY <1>3 DEF T

LEMMA FlattenConcat ==
    ASSUME NEW X, NEW s \in Seq(Seq(X))
    PROVE  \A t \in Seq(Seq(X)) : FlattenSeq(s \o t) = FlattenSeq(s) \o FlattenSeq(t)
<1> DEFINE T == {t \in Seq(Seq(X)) : FlattenSeq(s \o t) = FlattenSeq(s) \o FlattenSeq(t)}
<1>1. <<>> \in T
  <2>1. FlattenSeq(<<>>) = <<>> /\ s \o <<>> = s /\ FlattenSeq(s) \in Seq(X)
      BY FlattenType, ConcatEmptySeq DEF FlattenSeq
  <2> QED
      BY <2>1, ConcatEmptySeq
<1>2. ASSUME NEW t \in Seq(Seq(X)), NEW e \in Seq(X), t \in T
      PROVE  Append(t, e) \in T
  <2>1. s \o Append(t, e) = Append(s \o t, e) /\ s \o t \in Seq(Seq(X))
      OBVIOUS
  <2>2. FlattenSeq(s) \in Seq(X) /\ FlattenSeq(t) \in Seq(X) /\ FlattenSeq(s \o t) \in Seq(X)
      BY <2>1, FlattenType
  <2>3. /\ FlattenSeq(Append(t, e)) = FlattenSeq(t) \o e
        /\ FlattenSeq(Append(s \o t, e)) = FlattenSeq(s \o t) \o e
      BY <2>1, <2>2, FlattenAppend
  <2>4. (FlattenSeq(s) \o FlattenSeq(t)) \o e = FlattenSeq(s) \o (FlattenSeq(t) \o e)
      BY <2>2, ConcatAssociative
  <2>5. Append(t, e) \in Seq(Seq(X))
      OBVIOUS
  <2> QED
      BY <1>2, <2>1, <2>3, <2>4, <2>5
<1> HIDE DEF T
<1>3. \A t \in Seq(Seq(X)) : t \in T
    BY <1>1, <1>2, SequencesGrow
<1> QED
    BY <1>3 DEF T


\* A set up to n + 1 that has it, has it for its greatest.
LEMMA MaxIsTop ==
    ASSUME NEW n \in Nat, NEW d \in SUBSET (1..(n + 1)), n + 1 \in d
    PROVE  Max(d) = n + 1
<1>1. \A x \in d : x \in Int /\ x <= n + 1
    OBVIOUS
<1>2. \A x \in d : (\A y \in d : x >= y) => x = n + 1
    BY <1>1
<1>3. \A y \in d : n + 1 >= y
    BY <1>1
<1> QED
    BY <1>2, <1>3 DEF Max

\* The sum of a sequence, and the bytes without the escapes, are both folds: a step for each
\* element, on the sets of places of s.
Added(s) == FoldLeft(LAMBDA a, b : a + b, 0, s)
Start == [bytes |-> <<>>, esc |-> FALSE]

Base(sum) == IF sum THEN 0 ELSE Start
Step(sum, x, b) == IF sum THEN x + b ELSE UnescapeStep(x, b)
Folds(f, sum, s, n) ==
    f = [d \in SUBSET (1..n) |->
             IF d = {} THEN Base(sum) ELSE Step(sum, f[d \ {Max(d)}], s[Max(d)])]
Folding(sum, s, n) == CHOOSE f : Folds(f, sum, s, n)

\* There is such a function ...
LEMMA FoldingExists ==
    ASSUME NEW sum, NEW s
    PROVE  \A n \in Nat : \E f : Folds(f, sum, s, n)
<1> DEFINE N == {n \in Nat : \E f : Folds(f, sum, s, n)}
<1>1. 0 \in N
  <2> DEFINE g == [d \in SUBSET (1..0) |-> Base(sum)]
  <2>1. ASSUME NEW d \in SUBSET (1..0)
        PROVE  d = {}
      OBVIOUS
  <2>2. g = [d \in SUBSET (1..0) |->
                 IF d = {} THEN Base(sum) ELSE Step(sum, g[d \ {Max(d)}], s[Max(d)])]
      BY <2>1, Zenon
  <2> HIDE DEF g
  <2>3. Folds(g, sum, s, 0)
      BY <2>2, Zenon DEF Folds
  <2>4. 0 \in Nat
      OBVIOUS
  <2> QED
      BY <2>3, <2>4, Zenon
<1>2. ASSUME NEW n \in Nat, n \in N
      PROVE  n + 1 \in N
  <2>1. PICK f : Folds(f, sum, s, n)
      BY <1>2, Zenon
  <2>2. \A d \in SUBSET (1..n) :
            f[d] = IF d = {} THEN Base(sum) ELSE Step(sum, f[d \ {Max(d)}], s[Max(d)])
      BY <2>1, Zenon DEF Folds
  <2> DEFINE g == [d \in SUBSET (1..(n + 1)) |->
                       IF n + 1 \in d THEN Step(sum, f[d \ {n + 1}], s[n + 1]) ELSE f[d]]
  <2>3. ASSUME NEW d \in SUBSET (1..(n + 1))
        PROVE  g[d] = IF d = {} THEN Base(sum) ELSE Step(sum, g[d \ {Max(d)}], s[Max(d)])
    <3>1. CASE n + 1 \in d
      <4>1. Max(d) = n + 1 /\ d # {}
          BY <3>1, MaxIsTop
      <4>2. d \ {n + 1} \in SUBSET (1..(n + 1)) /\ n + 1 \notin d \ {n + 1}
          OBVIOUS
      <4>3. g[d \ {n + 1}] = f[d \ {n + 1}]
          BY <4>2, Zenon
      <4>4. g[d] = Step(sum, f[d \ {n + 1}], s[n + 1])
          BY <3>1, Zenon
      <4> QED
          BY <4>1, <4>3, <4>4, Zenon
    <3>2. CASE n + 1 \notin d
      <4>1. d \in SUBSET (1..n)
          BY <3>2
      <4>2. d \ {Max(d)} \in SUBSET (1..(n + 1)) /\ n + 1 \notin d \ {Max(d)}
          BY <3>2
      <4>3. g[d \ {Max(d)}] = f[d \ {Max(d)}]
          BY <4>2, Zenon
      <4>4. g[d] = f[d]
          BY <3>2, Zenon
      <4> QED
          BY <2>2, <4>1, <4>3, <4>4, Zenon
    <3> QED
        BY <3>1, <3>2
  <2>4. g = [d \in SUBSET (1..(n + 1)) |-> g[d]]
      BY Zenon
  <2>5. PICK h : h = g
      OBVIOUS
  <2> HIDE DEF g
  <2>6. Folds(h, sum, s, n + 1)
      BY <2>3, <2>4, <2>5, Zenon DEF Folds
  <2>7. n + 1 \in Nat
      OBVIOUS
  <2> QED
      BY <2>6, <2>7, Zenon
<1> HIDE DEF N
<1>3. \A n \in Nat : n \in N
    BY <1>1, <1>2, NumbersClimb
<1> QED
    BY <1>3 DEF N

\* ... and on the first k places it has taken k steps.
LEMMA FoldingIs ==
    ASSUME NEW sum, NEW s, NEW n \in Nat
    PROVE  /\ Folding(sum, s, n)[1..0] = Base(sum)
           /\ \A k \in 1..n : Folding(sum, s, n)[1..k] = Step(sum, Folding(sum, s, n)[1..(k - 1)], s[k])
<1>1. PICK f : f = Folding(sum, s, n)
    OBVIOUS
<1>2. Folds(f, sum, s, n)
  <2>1. \E g : Folds(g, sum, s, n)
      BY FoldingExists, Zenon
  <2> QED
      BY <1>1, <2>1, Zenon DEF Folding
<1>3. \A d \in SUBSET (1..n) :
          f[d] = IF d = {} THEN Base(sum) ELSE Step(sum, f[d \ {Max(d)}], s[Max(d)])
    BY <1>2, Zenon DEF Folds
<1>4. f[1..0] = Base(sum)
  <2>1. 1..0 = {} /\ 1..0 \in SUBSET (1..n)
      OBVIOUS
  <2> QED
      BY <1>3, <2>1, Zenon
<1>5. ASSUME NEW k \in 1..n
      PROVE  f[1..k] = Step(sum, f[1..(k - 1)], s[k])
  <2>1. k - 1 \in Nat /\ (k - 1) + 1 = k
      OBVIOUS
  <2>2. 1..k \in SUBSET (1..k) /\ k \in 1..k /\ 1..k \in SUBSET (1..n) /\ 1..k # {}
      OBVIOUS
  <2>3. Max(1..k) = k
    <3>1. PICK j \in Nat : j = k - 1
        BY <2>1
    <3>2. PICK d : d = 1..k
        OBVIOUS
    <3>3. d \in SUBSET (1..(j + 1)) /\ j + 1 \in d /\ j + 1 = k
        BY <3>1, <3>2
    <3>4. Max(d) = j + 1
        BY <3>3, MaxIsTop
    <3> QED
        BY <3>2, <3>3, <3>4
  <2>4. (1..k) \ {k} = 1..(k - 1)
      OBVIOUS
  <2> QED
      BY <1>3, <2>2, <2>3, <2>4, Zenon
<1> QED
    BY <1>1, <1>4, <1>5

\* One element more is one step more.
LEMMA FoldingAppend ==
    ASSUME NEW sum, NEW X, NEW s \in Seq(X), NEW b \in X
    PROVE  Folding(sum, Append(s, b), Len(s) + 1)[1..(Len(s) + 1)] =
               Step(sum, Folding(sum, s, Len(s))[1..Len(s)], b)
<1>1. PICK t : t = Append(s, b)
    OBVIOUS
<1>2. /\ t \in Seq(X) /\ Len(t) = Len(s) + 1 /\ Len(s) \in Nat /\ t[Len(s) + 1] = b
      /\ \A i \in 1..Len(s) : t[i] = s[i]
    BY <1>1
<1>4. PICK f, g : f = Folding(sum, s, Len(s)) /\ g = Folding(sum, t, Len(t))
    OBVIOUS
<1>5. /\ f[1..0] = Base(sum)
      /\ \A k \in 1..Len(s) : f[1..k] = Step(sum, f[1..(k - 1)], s[k])
    BY <1>2, <1>4, FoldingIs
<1>6. /\ g[1..0] = Base(sum)
      /\ \A k \in 1..Len(t) : g[1..k] = Step(sum, g[1..(k - 1)], t[k])
  <2>1. Len(t) \in Nat
      BY <1>2
  <2> QED
      BY <2>1, <1>4, FoldingIs
<1> DEFINE N == {n \in Nat : n <= Len(s) => g[1..n] = f[1..n]}
<1>7. \A n \in Nat : n \in N
  <2>1. 0 \in N
      BY <1>5, <1>6
  <2>2. ASSUME NEW n \in Nat, n \in N, n + 1 <= Len(s)
        PROVE  g[1..(n + 1)] = f[1..(n + 1)]
    <3>1. n + 1 \in 1..Len(s) /\ n + 1 \in 1..Len(t) /\ (n + 1) - 1 = n /\ n <= Len(s)
        BY <1>2, <2>2
    <3>2. g[1..n] = f[1..n]
        BY <2>2, <3>1
    <3> QED
        BY <1>2, <1>5, <1>6, <3>1, <3>2
  <2>3. ASSUME NEW n \in Nat, n \in N
        PROVE  n + 1 \in N
      BY <2>2, <2>3
  <2> HIDE DEF N
  <2> QED
      BY <2>1, <2>3, NumbersClimb
<1>8. g[1..Len(s)] = f[1..Len(s)]
    BY <1>2, <1>7
<1>9. Len(t) \in 1..Len(t) /\ Len(t) - 1 = Len(s) /\ t[Len(t)] = b /\ Len(t) = Len(s) + 1
    BY <1>2
<1> QED
    BY <1>1, <1>4, <1>6, <1>8, <1>9

\* UnescapeBytes and the sum are those folds.
LEMMA FoldsAre ==
    ASSUME NEW X, NEW s \in Seq(X)
    PROVE  /\ UnescapeBytes(s) = Folding(FALSE, s, Len(s))[1..Len(s)]
           /\ Added(s) = Folding(TRUE, s, Len(s))[1..Len(s)]
<1>1. DOMAIN s = 1..Len(s)
    OBVIOUS
<1>2. UnescapeBytes(s) = Folding(FALSE, s, Len(s))[1..Len(s)]
    BY <1>1 DEF UnescapeBytes, FoldLeft, MapThenFoldSet, Folding, Folds, Start, Base, Step
<1>3. Added(s) = Folding(TRUE, s, Len(s))[1..Len(s)]
    BY <1>1 DEF Added, FoldLeft, MapThenFoldSet, Folding, Folds, Base, Step
<1> QED
    BY <1>2, <1>3

LEMMA OneMore ==
    ASSUME NEW X, NEW s \in Seq(X), NEW b \in X
    PROVE  /\ UnescapeBytes(<<>>) = Start
           /\ UnescapeBytes(Append(s, b)) = UnescapeStep(UnescapeBytes(s), b)
           /\ Added(<<>>) = 0
           /\ Added(Append(s, b)) = Added(s) + b
<1>1. Append(s, b) \in Seq(X) /\ Len(Append(s, b)) = Len(s) + 1
    OBVIOUS
<1>2. <<>> \in Seq(X) /\ Len(<<>>) = 0
    OBVIOUS
<1>3. UnescapeBytes(<<>>) = Base(FALSE) /\ Added(<<>>) = Base(TRUE)
  <2>1. /\ UnescapeBytes(<<>>) = Folding(FALSE, <<>>, 0)[1..0]
        /\ Added(<<>>) = Folding(TRUE, <<>>, 0)[1..0]
      BY <1>2, FoldsAre
  <2>2. Folding(FALSE, <<>>, 0)[1..0] = Base(FALSE) /\ Folding(TRUE, <<>>, 0)[1..0] = Base(TRUE)
      BY FoldingIs
  <2> QED
      BY <2>1, <2>2
<1>4. PICK t : t = Append(s, b)
    OBVIOUS
<1>5. /\ UnescapeBytes(t) = Folding(FALSE, t, Len(s) + 1)[1..(Len(s) + 1)]
      /\ Added(t) = Folding(TRUE, t, Len(s) + 1)[1..(Len(s) + 1)]
    BY <1>1, <1>4, FoldsAre
<1>6. /\ UnescapeBytes(s) = Folding(FALSE, s, Len(s))[1..Len(s)]
      /\ Added(s) = Folding(TRUE, s, Len(s))[1..Len(s)]
    BY FoldsAre
<1>7. \A sum : Folding(sum, t, Len(s) + 1)[1..(Len(s) + 1)] =
                   Step(sum, Folding(sum, s, Len(s))[1..Len(s)], b)
    BY <1>4, FoldingAppend
<1>8. UnescapeBytes(t) = Step(FALSE, UnescapeBytes(s), b) /\ Added(t) = Step(TRUE, Added(s), b)
    BY <1>5, <1>6, <1>7
<1> QED
    BY <1>3, <1>4, <1>8 DEF Base, Step

LEMMA AddedIsNat ==
    \A s \in Seq(Nat) : Added(s) \in Nat
<1> DEFINE T == {s \in Seq(Nat) : Added(s) \in Nat}
<1>1. <<>> \in T
  <2>1. <<>> \in Seq(Nat) /\ 0 \in Nat
      OBVIOUS
  <2> QED
      BY <2>1, OneMore
<1>2. ASSUME NEW s \in Seq(Nat), NEW e \in Nat, s \in T
      PROVE  Append(s, e) \in T
  <2>1. Append(s, e) \in Seq(Nat) /\ Added(Append(s, e)) = Added(s) + e
      BY OneMore
  <2> QED
      BY <1>2, <2>1
<1> HIDE DEF T
<1>3. \A s \in Seq(Nat) : s \in T
    BY <1>1, <1>2, SequencesGrow
<1> QED
    BY <1>3 DEF T

\* What QEMU writes for a byte.
Piece(b) == IF b \in {160, 161, 170} THEN <<170, b + 16>> ELSE <<b>>
Plain(s) == \A i \in 1..Len(s) : s[i] \notin Terminators

LEMMA PieceTyped ==
    ASSUME NEW b \in Byte
    PROVE  Piece(b) \in Seq(Byte) /\ Plain(Piece(b)) /\ Len(Piece(b)) # 0
<1>1. CASE b \in {160, 161, 170}
  <2>1. Piece(b) = <<170, b + 16>> /\ b + 16 \in Byte /\ 170 \in Byte /\ b + 16 \notin {160, 161}
      BY <1>1 DEF Piece, Byte
  <2> QED
      BY <2>1 DEF Plain, Terminators, VMMsgChar, VMCmdChar
<1>2. CASE b \notin {160, 161, 170}
  <2>1. Piece(b) = <<b>>
      BY <1>2 DEF Piece
  <2> QED
      BY <1>2, <2>1 DEF Plain, Terminators, VMMsgChar, VMCmdChar
<1> QED
    BY <1>1, <1>2

LEMMA EscapedAppend ==
    ASSUME NEW s \in Seq(Byte), NEW b \in Byte
    PROVE  Escaped(<<>>) = <<>> /\ Escaped(s) \in Seq(Byte)
           /\ Escaped(Append(s, b)) = Escaped(s) \o Piece(b)
<1> DEFINE P(q) == [i \in DOMAIN q |-> Piece(q[i])]
<1>1. \A q : Escaped(q) = FlattenSeq(P(q))
    BY DEF Escaped, Piece
<1>2. ASSUME NEW q \in Seq(Byte)
      PROVE  P(q) \in Seq(Seq(Byte))
  <2>1. \A i \in DOMAIN q : Piece(q[i]) \in Seq(Byte)
      BY PieceTyped
  <2>2. DOMAIN q = 1..Len(q) /\ Len(q) \in Nat
      OBVIOUS
  <2> QED
      BY <2>1, <2>2
<1>3. P(Append(s, b)) = Append(P(s), Piece(b))
  <2>1. P(s) \in Seq(Seq(Byte)) /\ Len(P(s)) = Len(s)
      BY <1>2
  <2>2. Append(P(s), Piece(b)) = [i \in 1..(Len(s) + 1) |-> IF i = Len(s) + 1 THEN Piece(b) ELSE P(s)[i]]
      BY <2>1
  <2>3. DOMAIN Append(s, b) = 1..(Len(s) + 1) /\ DOMAIN s = 1..Len(s) /\ Len(s) \in Nat
      OBVIOUS
  <2>4. ASSUME NEW i \in 1..(Len(s) + 1)
        PROVE  Piece(Append(s, b)[i]) = IF i = Len(s) + 1 THEN Piece(b) ELSE P(s)[i]
    <3>1. CASE i = Len(s) + 1
      <4>1. Append(s, b)[i] = b
          BY <3>1
      <4> QED
          BY <3>1, <4>1
    <3>2. CASE i # Len(s) + 1
      <4>1. i \in DOMAIN s /\ Append(s, b)[i] = s[i]
          BY <2>3, <3>2
      <4> QED
          BY <3>2, <4>1
    <3> QED
        BY <3>1, <3>2
  <2> QED
      BY <2>2, <2>3, <2>4
<1>4. P(<<>>) = <<>>
    OBVIOUS
<1> HIDE DEF P
<1>5. FlattenSeq(P(s)) \in Seq(Byte) /\ Piece(b) \in Seq(Byte) /\ P(s) \in Seq(Seq(Byte))
    BY <1>2, FlattenType, PieceTyped
<1>6. FlattenSeq(Append(P(s), Piece(b))) = FlattenSeq(P(s)) \o Piece(b) /\ FlattenSeq(<<>>) = <<>>
    BY <1>5, FlattenAppend
<1> QED
    BY <1>1, <1>3, <1>4, <1>5, <1>6

\* What QEMU writes, the BMC reads back, and no terminator is in it.
LEMMA Unescaped ==
    \A s \in Seq(Byte) : /\ Escaped(s) \in Seq(Byte)
                         /\ Plain(Escaped(s))
                         /\ UnescapeBytes(Escaped(s)) = [bytes |-> s, esc |-> FALSE]
<1> DEFINE T == {s \in Seq(Byte) : /\ Plain(Escaped(s))
                                   /\ UnescapeBytes(Escaped(s)) = [bytes |-> s, esc |-> FALSE]}
<1>1. <<>> \in T
  <2>1. <<>> \in Seq(Byte) /\ 0 \in Byte
      BY DEF Byte
  <2>2. Escaped(<<>>) = <<>>
      BY <2>1, EscapedAppend
  <2>3. UnescapeBytes(<<>>) = [bytes |-> <<>>, esc |-> FALSE]
      BY <2>1, OneMore DEF Start
  <2>4. Plain(<<>>)
      BY DEF Plain
  <2> QED
      BY <2>1, <2>2, <2>3, <2>4
<1>2. ASSUME NEW s \in Seq(Byte), NEW b \in Byte, s \in T
      PROVE  Append(s, b) \in T
  <2>1. PICK e : e = Escaped(s)
      OBVIOUS
  <2>2. /\ e \in Seq(Byte) /\ Plain(e) /\ UnescapeBytes(e) = [bytes |-> s, esc |-> FALSE]
        /\ Escaped(Append(s, b)) = e \o Piece(b)
      BY <1>2, <2>1, EscapedAppend
  <2>3. Piece(b) \in Seq(Byte) /\ Plain(Piece(b))
      BY PieceTyped
  <2>4. Plain(e \o Piece(b))
    <3>1. PICK p : p = Piece(b)
        OBVIOUS
    <3>2. \A i \in 1..Len(e \o p) : \/ i \in 1..Len(e) /\ (e \o p)[i] = e[i]
                                    \/ i - Len(e) \in 1..Len(p) /\ (e \o p)[i] = p[i - Len(e)]
        BY <2>2, <2>3, <3>1
    <3> QED
        BY <2>2, <2>3, <3>1, <3>2 DEF Plain
  <2>5. UnescapeBytes(e \o Piece(b)) = [bytes |-> Append(s, b), esc |-> FALSE]
    <3>1. CASE b \in {160, 161, 170}
      <4>1. e \o Piece(b) = Append(Append(e, 170), b + 16) /\ Append(e, 170) \in Seq(Byte)
            /\ 170 \in Byte /\ b + 16 \in Byte
          BY <2>2, <3>1 DEF Piece, Byte
      <4>2. UnescapeBytes(Append(e, 170)) = UnescapeStep([bytes |-> s, esc |-> FALSE], 170)
          BY <2>2, <4>1, OneMore
      <4>3. UnescapeStep([bytes |-> s, esc |-> FALSE], 170) = [bytes |-> s, esc |-> TRUE]
          BY DEF UnescapeStep, VMEscapeChar
      <4>4. UnescapeBytes(Append(Append(e, 170), b + 16)) = UnescapeStep([bytes |-> s, esc |-> TRUE], b + 16)
        <5>1. PICK q \in Seq(Byte), k \in Byte : q = Append(e, 170) /\ k = b + 16
            BY <4>1
        <5>2. UnescapeBytes(Append(q, k)) = UnescapeStep(UnescapeBytes(q), k)
            BY OneMore
        <5> QED
            BY <4>2, <4>3, <5>1, <5>2
      <4>5. AndNot16(b + 16) = b
          BY <3>1 DEF AndNot16, Bit
      <4> QED
          BY <4>1, <4>4, <4>5 DEF UnescapeStep
    <3>2. CASE b \notin {160, 161, 170}
      <4>1. e \o Piece(b) = Append(e, b)
          BY <2>2, <3>2 DEF Piece
      <4>2. UnescapeBytes(Append(e, b)) = UnescapeStep([bytes |-> s, esc |-> FALSE], b)
          BY <2>2, OneMore
      <4>3. b # VMEscapeChar
          BY <3>2 DEF VMEscapeChar
      <4> QED
          BY <4>1, <4>2, <4>3 DEF UnescapeStep
    <3> QED
        BY <3>1, <3>2
  <2>6. Append(s, b) \in Seq(Byte)
      OBVIOUS
  <2> QED
      BY <2>2, <2>4, <2>5, <2>6
<1> HIDE DEF T
<1>3. \A s \in Seq(Byte) : s \in T
    BY <1>1, <1>2, SequencesGrow
<1>4. \A s \in Seq(Byte) : Escaped(s) \in Seq(Byte)
  <2>1. 0 \in Byte
      BY DEF Byte
  <2> QED
      BY <2>1, EscapedAppend
<1> QED
    BY <1>3, <1>4 DEF T

\* The BMC writes what QEMU would.
LEMMA SameEscapes ==
    ASSUME NEW s \in Seq(Byte)
    PROVE  EscapeBytes(s) = Escaped(s)
<1>1. \A b \in {160, 161, 170} : Or16(b) = b + 16
    BY DEF Or16, Bit
<1>2. \A i \in DOMAIN s :
          (IF s[i] \in Terminators \cup {VMEscapeChar} THEN <<VMEscapeChar, Or16(s[i])>> ELSE <<s[i]>>)
          = (IF s[i] \in {160, 161, 170} THEN <<170, s[i] + 16>> ELSE <<s[i]>>)
    BY <1>1 DEF Terminators, VMMsgChar, VMCmdChar, VMEscapeChar
<1>3. [i \in DOMAIN s |-> IF s[i] \in Terminators \cup {VMEscapeChar} THEN <<VMEscapeChar, Or16(s[i])>> ELSE <<s[i]>>]
      = [i \in DOMAIN s |-> IF s[i] \in {160, 161, 170} THEN <<170, s[i] + 16>> ELSE <<s[i]>>]
    BY <1>2
<1> QED
    BY <1>3, Zenon DEF EscapeBytes, Escaped

\* A byte is missing to make the sum of a sequence a multiple of 256, and only one.
LEMMA ToZeroIs ==
    ASSUME NEW n \in 0..255
    PROVE  /\ (256 - n) % 256 \in 0..255
           /\ \A k \in 0..255 : (n + k) % 256 = 0 <=> k = (256 - n) % 256
<1>1. CASE n = 0
    BY <1>1
<1>2. CASE n # 0
  <2>1. (256 - n) % 256 = 256 - n
      BY <1>2
  <2>2. ASSUME NEW k \in 0..255
        PROVE  (n + k) % 256 = IF n + k < 256 THEN n + k ELSE (n + k) - 256
      OBVIOUS
  <2> QED
      BY <1>2, <2>1, <2>2
<1> QED
    BY <1>1, <1>2

LEMMA SumsToZero ==
    ASSUME NEW s \in Seq(Byte)
    PROVE  /\ Checksum(s) = ToZero(s)
           /\ ToZero(s) \in Byte
           /\ Total(Append(s, ToZero(s))) = 0
<1>0. s \in Seq(Nat)
  <2>1. Byte \subseteq Nat
      BY DEF Byte
  <2>2. Len(s) \in Nat /\ s = [i \in 1..Len(s) |-> s[i]] /\ \A i \in 1..Len(s) : s[i] \in Nat
      BY <2>1
  <2> QED
      BY <2>2
<1>1. \A q : Total(q) = Added(q) % 256
    BY DEF Total, Added
<1>2. Added(s) \in Nat
    BY <1>0, AddedIsNat
<1>3. PICK n \in 0..255 : n = Added(s) % 256
  <2>1. \A m \in Nat : m % 256 \in 0..255
      OBVIOUS
  <2> QED
      BY <1>2, <2>1
<1>4. /\ Checksum(s) \in Byte
      /\ \A k \in Byte : (Total(s) + k) % 256 = 0 <=> k = Checksum(s)
  <2>1. Total(s) = n
      BY <1>1, <1>3
  <2>2. /\ (256 - n) % 256 \in 0..255
        /\ \A k \in 0..255 : (n + k) % 256 = 0 <=> k = (256 - n) % 256
      BY ToZeroIs
  <2> QED
      BY <2>1, <2>2, Zenon DEF Checksum, Byte
<1>5. ToZero(s) = Checksum(s)
    BY <1>4 DEF ToZero
<1>6. Total(Append(s, Checksum(s))) = (Added(s) + Checksum(s)) % 256
  <2>1. Checksum(s) \in Nat
    <3>1. Byte \subseteq Nat
        BY DEF Byte
    <3> QED
        BY <1>4, <3>1
  <2> QED
      BY <1>0, <1>1, <2>1, OneMore
<1>7. \A m \in Nat, k \in 0..255 : ((m % 256) + k) % 256 = (m + k) % 256
    OBVIOUS
<1>8. (Total(s) + Checksum(s)) % 256 = (Added(s) + Checksum(s)) % 256
  <2>1. Added(s) \in Nat /\ Checksum(s) \in 0..255
      BY <1>2, <1>4 DEF Byte
  <2> QED
      BY <1>1, <1>7, <2>1, Zenon
<1> QED
    BY <1>4, <1>5, <1>6, <1>8

\* What vmEscapeBytes writes holds no terminator and is what vmUnescapeBytes reads back, and
\* vmChecksum is the byte that makes a message add up: for any bytes.
THEOREM BytesComeBack ==
    \A s \in Seq(Byte) :
        /\ EscapeBytes(s) \in Seq(Byte)
        /\ \A i \in DOMAIN EscapeBytes(s) : EscapeBytes(s)[i] \notin Terminators
        /\ UnescapeBytes(EscapeBytes(s)) = [bytes |-> s, esc |-> FALSE]
        /\ Total(Append(s, Checksum(s))) = 0
<1> SUFFICES ASSUME NEW s \in Seq(Byte)
             PROVE  /\ EscapeBytes(s) \in Seq(Byte)
                    /\ \A i \in DOMAIN EscapeBytes(s) : EscapeBytes(s)[i] \notin Terminators
                    /\ UnescapeBytes(EscapeBytes(s)) = [bytes |-> s, esc |-> FALSE]
                    /\ Total(Append(s, Checksum(s))) = 0
    OBVIOUS
<1>1. PICK e : e = EscapeBytes(s) /\ e = Escaped(s)
    BY SameEscapes
<1>2. e \in Seq(Byte) /\ Plain(e) /\ UnescapeBytes(e) = [bytes |-> s, esc |-> FALSE]
    BY <1>1, Unescaped
<1>3. \A i \in DOMAIN e : e[i] \notin Terminators
    BY <1>2 DEF Plain
<1>4. Total(Append(s, Checksum(s))) = 0
    BY SumsToZero
<1> QED
    BY <1>1, <1>2, <1>3, <1>4

-----------------------------------------------------------------------------
(* Frames: put together and taken apart                                    *)

\* A sequence put together piece by piece, from what F makes of each element.
Flat(F, s) == FlattenSeq([i \in DOMAIN s |-> F[s[i]]])

\* Put together piece by piece, the pieces of two sequences follow each other.
LEMMA FlatMap ==
    ASSUME NEW X, NEW Y, NEW F \in [X -> Seq(Y)]
    PROVE  /\ Flat(F, <<>>) = <<>>
           /\ \A s \in Seq(X) : Flat(F, s) \in Seq(Y)
           /\ \A e \in X : Flat(F, <<e>>) = F[e]
           /\ \A s, t \in Seq(X) : Flat(F, s \o t) = Flat(F, s) \o Flat(F, t)
<1> DEFINE M(s) == [i \in DOMAIN s |-> F[s[i]]]
<1>1. ASSUME NEW s \in Seq(X)
      PROVE  M(s) \in Seq(Seq(Y)) /\ Len(M(s)) = Len(s)
  <2>1. DOMAIN s = 1..Len(s) /\ Len(s) \in Nat /\ \A i \in 1..Len(s) : F[s[i]] \in Seq(Y)
      OBVIOUS
  <2>2. M(s) \in [1..Len(s) -> Seq(Y)]
      BY <2>1
  <2>3. M(s) \in Seq(Seq(Y))
      BY <2>1, <2>2, SeqDef
  <2> QED
      BY <2>1, <2>2, <2>3
<1>2. M(<<>>) = <<>> /\ \A e \in X : M(<<e>>) = <<F[e]>>
    OBVIOUS
<1>3. ASSUME NEW s \in Seq(X), NEW t \in Seq(X)
      PROVE  M(s \o t) = M(s) \o M(t)
  <2>1. PICK a \in Seq(Seq(Y)), b \in Seq(Seq(Y)) :
            a = M(s) /\ b = M(t) /\ Len(a) = Len(s) /\ Len(b) = Len(t)
      BY <1>1
  <2>2. PICK u \in Seq(X) : u = s \o t
    <3>1. s \o t \in Seq(X)
        OBVIOUS
    <3> QED
        BY <3>1
  <2>3. M(u) \in Seq(Seq(Y)) /\ Len(M(u)) = Len(u) /\ DOMAIN u = 1..Len(u) /\ Len(u) = Len(s) + Len(t)
      BY <1>1, <2>2
  <2>4. /\ a \o b \in Seq(Seq(Y)) /\ Len(a \o b) = Len(s) + Len(t)
        /\ \A i \in 1..Len(a \o b) : (a \o b)[i] = IF i <= Len(s) THEN a[i] ELSE b[i - Len(s)]
    <3>1. /\ a \o b \in Seq(Seq(Y)) /\ Len(a \o b) = Len(a) + Len(b)
          /\ \A i \in 1..(Len(a) + Len(b)) : (a \o b)[i] = IF i <= Len(a) THEN a[i] ELSE b[i - Len(a)]
        BY ConcatProperties
    <3> HIDE DEF M
    <3> QED
        BY <2>1, <3>1
  <2>5. ASSUME NEW i \in 1..(Len(s) + Len(t))
        PROVE  M(u)[i] = (a \o b)[i]
    <3>1. M(u)[i] = F[u[i]]
        BY <2>3
    <3>2. CASE i <= Len(s)
      <4>1. i \in DOMAIN s /\ u[i] = s[i]
          BY <2>2, <3>2
      <4> QED
          BY <2>1, <2>4, <3>1, <3>2, <4>1
    <3>3. CASE ~(i <= Len(s))
      <4>1. i - Len(s) \in DOMAIN t /\ u[i] = t[i - Len(s)]
          BY <2>2, <3>3
      <4> QED
          BY <2>1, <2>4, <3>1, <3>3, <4>1
    <3> QED
        BY <3>2, <3>3
  <2>6. M(u) = a \o b
    <3> HIDE DEF M
    <3> QED
      BY <2>3, <2>4, <2>5, SeqEqual
  <2> QED
      BY <2>1, <2>2, <2>6
<1>4. \A s : Flat(F, s) = FlattenSeq(M(s))
    BY DEF Flat
<1> HIDE DEF M
<1>5. \A s \in Seq(X) : Flat(F, s) \in Seq(Y)
    BY <1>1, <1>4, FlattenType
<1>6. FlattenSeq(<<>>) = <<>>
    BY DEF FlattenSeq
<1>7. ASSUME NEW e \in X
      PROVE  Flat(F, <<e>>) = F[e]
  <2>1. PICK x \in Seq(Y) : x = F[e]
      OBVIOUS
  <2>2. <<>> \in Seq(Seq(Y)) /\ <<>> \in Seq(Y)
      OBVIOUS
  <2>3. FlattenSeq(Append(<<>>, x)) = <<>> \o x
      BY <1>6, <2>2, FlattenAppend
  <2>4. Append(<<>>, x) = <<x>> /\ <<>> \o x = x
      BY ConcatEmptySeq
  <2> QED
      BY <1>2, <1>4, <2>1, <2>3, <2>4
<1>8. ASSUME NEW s \in Seq(X), NEW t \in Seq(X)
      PROVE  Flat(F, s \o t) = Flat(F, s) \o Flat(F, t)
  <2>1. M(s) \in Seq(Seq(Y)) /\ M(t) \in Seq(Seq(Y))
      BY <1>1
  <2>2. FlattenSeq(M(s) \o M(t)) = FlattenSeq(M(s)) \o FlattenSeq(M(t))
      BY <2>1, FlattenConcat
  <2>3. M(s \o t) = M(s) \o M(t)
      BY <1>3
  <2>4. /\ Flat(F, s \o t) = FlattenSeq(M(s \o t)) /\ Flat(F, s) = FlattenSeq(M(s))
        /\ Flat(F, t) = FlattenSeq(M(t))
      BY <1>4, Zenon
  <2> QED
      BY <2>2, <2>3, <2>4, Zenon
<1> QED
    BY <1>2, <1>4, <1>5, <1>6, <1>7, <1>8

LEMMA FlatTwo ==
    ASSUME NEW X, NEW Y, NEW F \in [X -> Seq(Y)]
    PROVE  \A s, t \in Seq(X) : Flat(F, s \o t) = Flat(F, s) \o Flat(F, t)
BY FlatMap

\* What follows a first terminator is the rest of the bytes.
LEMMA FirstFrame ==
    ASSUME NEW b \in Seq(Byte), Plain(b), NEW k \in Terminators, NEW t \in Seq(Byte)
    PROVE  LET s == Append(b, k) \o t
           IN  /\ Terminated(s) /\ End(s) = Len(b) + 1 /\ s[Len(b) + 1] = k
               /\ SubSeq(s, 1, End(s) - 1) = b
               /\ SubSeq(s, End(s) + 1, Len(s)) = t
<1>0. k \in Byte
    BY DEF Terminators, VMMsgChar, VMCmdChar, Byte
<1>1. PICK s \in Seq(Byte) : s = Append(b, k) \o t
  <2>1. Append(b, k) \in Seq(Byte)
      BY <1>0
  <2>2. Append(b, k) \o t \in Seq(Byte)
      BY <2>1
  <2> QED
      BY <2>2
<1>2. /\ Len(s) = Len(b) + 1 + Len(t) /\ Len(b) \in Nat /\ Len(t) \in Nat
      /\ DOMAIN s = 1..Len(s)
      /\ s[Len(b) + 1] = k
      /\ \A i \in 1..Len(b) : s[i] = b[i]
      /\ \A i \in 1..Len(t) : s[Len(b) + 1 + i] = t[i]
    BY <1>0, <1>1
<1>3. Terminated(s)
    BY <1>2 DEF Terminated
<1>4. End(s) = Len(b) + 1
  <2> DEFINE I == {i \in 1..Len(s) : s[i] \in Terminators}
  <2>1. Len(b) + 1 \in I /\ \A i \in I : Len(b) + 1 <= i
    <3>1. Len(b) + 1 \in 1..Len(s)
        BY <1>2
    <3>2. ASSUME NEW i \in 1..Len(s), ~(Len(b) + 1 <= i)
          PROVE  s[i] \notin Terminators
      <4>1. i \in 1..Len(b)
          BY <1>2, <3>2
      <4> QED
          BY <1>2, <4>1 DEF Plain
    <3> QED
        BY <1>2, <3>1, <3>2
  <2>2. I \subseteq Int
      OBVIOUS
  <2>3. End(s) = IF I # {} THEN Min(I) ELSE 0
      BY DEF End, SelectInSeq
  <2> HIDE DEF I
  <2>4. \A i \in I : (\A j \in I : i <= j) => i = Len(b) + 1
      BY <1>2, <2>1, <2>2
  <2>5. Min(I) = Len(b) + 1
      BY <2>1, <2>4 DEF Min
  <2> QED
      BY <2>1, <2>3, <2>5
<1>5. SubSeq(s, 1, Len(b)) = b
    BY <1>2
<1>6. SubSeq(s, Len(b) + 2, Len(s)) = t
    BY <1>2
<1>7. (Len(b) + 1) - 1 = Len(b) /\ (Len(b) + 1) + 1 = Len(b) + 2
    BY <1>2
<1> QED
    BY <1>1, <1>2, <1>3, <1>4, <1>5, <1>6, <1>7

\* Bytes that are no terminator end nothing.
LEMMA NothingEnds ==
    ASSUME NEW t \in Seq(Byte), Plain(t)
    PROVE  ~Terminated(t)
BY DEF Plain, Terminated

\* The BMC reads in a request's bytes what QEMU wrote.
Wanted == [netFn: 0..63, cmd: Byte, data: Seq(Byte)]

LEMMA Parsed ==
    ASSUME NEW m \in Wanted, NEW n \in Byte
    PROVE  LET body == <<n, 4 * m.netFn, m.cmd>> \o m.data
               r == ParseRequest(Append(body, ToZero(body)))
           IN  /\ body \in Seq(Byte) /\ Append(body, ToZero(body)) \in Seq(Byte)
               /\ DOMAIN r = {1}
               /\ r[1] = [seq |-> n, netFn |-> m.netFn, lun |-> 0, cmd |-> m.cmd, data |-> m.data]
<1>1. m.netFn \in 0..63 /\ m.cmd \in Byte /\ m.data \in Seq(Byte)
    BY DEF Wanted
<1>2. 4 * m.netFn \in Byte /\ (4 * m.netFn) \div 4 = m.netFn /\ (4 * m.netFn) % 4 = 0
  <2>1. \A x \in 0..63 : 4 * x \in 0..255 /\ (4 * x) \div 4 = x /\ (4 * x) % 4 = 0
      OBVIOUS
  <2> QED
      BY <1>1, <2>1 DEF Byte
<1>3. <<n, 4 * m.netFn, m.cmd>> \in Seq(Byte)
    BY <1>1, <1>2
<1>4. PICK body \in Seq(Byte) : body = <<n, 4 * m.netFn, m.cmd>> \o m.data
  <2>1. PICK a \in Seq(Byte) : a = <<n, 4 * m.netFn, m.cmd>>
      BY <1>3
  <2>2. a \o m.data \in Seq(Byte)
      BY <1>1
  <2> QED
      BY <2>1, <2>2
<1>5. PICK k \in Byte : k = ToZero(body) /\ Total(Append(body, k)) = 0
    BY SumsToZero
<1>6. PICK s \in Seq(Byte) : s = Append(body, k)
  <2>1. Append(body, k) \in Seq(Byte)
      OBVIOUS
  <2> QED
      BY <2>1
<1>7. /\ Len(s) = 4 + Len(m.data) /\ Len(m.data) \in Nat
      /\ s[1] = n /\ s[2] = 4 * m.netFn /\ s[3] = m.cmd
      /\ SubSeq(s, 4, Len(s) - 1) = m.data
  <2>1. /\ Len(body) = 3 + Len(m.data) /\ Len(m.data) \in Nat
        /\ body[1] = n /\ body[2] = 4 * m.netFn /\ body[3] = m.cmd
        /\ \A i \in 1..Len(m.data) : body[3 + i] = m.data[i]
      BY <1>1, <1>3, <1>4
  <2>2. /\ Len(s) = 4 + Len(m.data)
        /\ \A i \in 1..(3 + Len(m.data)) : s[i] = body[i]
      BY <1>6, <2>1
  <2>3. s[1] = n /\ s[2] = 4 * m.netFn /\ s[3] = m.cmd
      BY <2>1, <2>2
  <2>4. \A i \in 1..Len(m.data) : s[3 + i] = m.data[i]
      BY <2>1, <2>2
  <2>5. /\ SubSeq(s, 4, Len(s) - 1) \in Seq(Byte) /\ Len(SubSeq(s, 4, Len(s) - 1)) = Len(m.data)
        /\ \A i \in 1..Len(m.data) : SubSeq(s, 4, Len(s) - 1)[i] = s[3 + i]
      BY <2>1, <2>2
  <2>6. SubSeq(s, 4, Len(s) - 1) = m.data
      BY <1>1, <2>4, <2>5, SeqEqual
  <2> QED
      BY <2>1, <2>2, <2>3, <2>6
<1>8. ParseRequest(s) = <<[seq |-> n, netFn |-> m.netFn, lun |-> 0, cmd |-> m.cmd, data |-> m.data]>>
  <2>1. ~(Len(s) < 4) /\ Total(s) = 0
      BY <1>5, <1>6, <1>7
  <2>2. /\ s[1] = n /\ s[2] \div 4 = m.netFn /\ s[2] % 4 = 0 /\ s[3] = m.cmd
        /\ SubSeq(s, 4, Len(s) - 1) = m.data
      BY <1>2, <1>7
  <2> QED
      BY <2>1, <2>2, Zenon DEF ParseRequest
<1>9. PICK q : q = [seq |-> n, netFn |-> m.netFn, lun |-> 0, cmd |-> m.cmd, data |-> m.data]
    OBVIOUS
<1>10. DOMAIN <<q>> = {1} /\ <<q>>[1] = q
    OBVIOUS
<1> QED
    BY <1>4, <1>5, <1>6, <1>8, <1>9, <1>10

-----------------------------------------------------------------------------
(* The commands' answers are bytes                                         *)

\* The state the commands act on.
CommandsTyped ==
    /\ DOMAIN lanConfig \subseteq supportedLANParams /\ 1 \in DOMAIN lanConfig /\ lanConfig[1] = <<151>>
    /\ \A p \in DOMAIN lanConfig : lanConfig[p] \in Seq(Byte)
    /\ channelAccess \in [0..15 -> [mode: 0..7, userAuth: BOOLEAN, msgAuth: BOOLEAN,
                                    alerting: BOOLEAN, limit: 0..15]]
    /\ override \in [enabled: {"Disabled", "Once", "Continuous"}, target: DOMAIN Devices,
                     mode: {"UEFI", "Legacy"}]

\* An answer is bytes.
Answers == [code: Byte, data: Seq(Byte)]

\* The codes, and answers of a few bytes.
LEMMA ShortAnswers ==
    /\ \A code \in Byte : Fail(code) \in Answers
    /\ \A d \in Seq(Byte) : Done(d) \in Answers
    /\ {InvalidCommand, ParameterOutOfRange, InvalidField, lanConfigRevision} \subseteq Byte
    /\ 0..255 = Byte
<1>1. <<>> \in Seq(Byte) /\ OK \in Byte
    BY DEF OK, Byte
<1> QED
    BY <1>1 DEF Fail, Done, Answers, OK, InvalidCommand, ParameterOutOfRange, InvalidField, lanConfigRevision, Byte

\* The masks of the commands.
LEMMA Remainders ==
    ASSUME NEW b \in Byte
    PROVE  b % 16 \in 0..15 /\ b % 8 \in 0..7 /\ b % 128 \in Byte /\ b % 16 \in Byte
<1>1. b \in 0..255
    BY DEF Byte
<1>2. b % 16 \in 0..15 /\ b % 8 \in 0..7 /\ b % 128 \in 0..127
    BY <1>1
<1> QED
    BY <1>2 DEF Byte

LEMMA AnswerTyped ==
    ASSUME CommandsTyped, NEW m, m.data \in Seq(Byte)
    PROVE  Answer(m) \in Answers
<1>1. PICK d \in Seq(Byte) : d = m.data
    OBVIOUS
<1>2. Done(<<>>) \in Answers
  <2>1. <<>> \in Seq(Byte)
      OBVIOUS
  <2> QED
      BY <2>1, ShortAnswers
<1>3. /\ Fail(InvalidCommand) \in Answers /\ Fail(ParameterOutOfRange) \in Answers
      /\ Fail(InvalidField) \in Answers
    BY ShortAnswers
<1>4. /\ SetLANConfigAnswer(d) \in Answers /\ SetChannelAccessAnswer(d) \in Answers
      /\ SetBootOptionsAnswer(d) \in Answers
    BY <1>2, <1>3, Zenon DEF SetLANConfigAnswer, SetChannelAccessAnswer, SetBootOptionsAnswer
<1>5. GetLANConfig(d) \in Answers
  <2>1. <<lanConfigRevision, 0>> \in Seq(Byte) /\ <<lanConfigRevision>> \in Seq(Byte)
      BY DEF lanConfigRevision, Byte
  <2>2. ASSUME d[2] \in DOMAIN lanConfig
        PROVE  <<lanConfigRevision>> \o lanConfig[d[2]] \in Seq(Byte)
      BY <2>1, <2>2 DEF CommandsTyped
  <2> QED
      BY <1>3, <2>1, <2>2, ShortAnswers, Zenon DEF GetLANConfig
<1>6. GetChannelAccess(d) \in Answers
  <2>1. CASE Len(d) < 2
      BY <1>3, <2>1, Zenon DEF GetChannelAccess
  <2>2. CASE ~(Len(d) < 2)
    <3>1. d[1] % 16 \in 0..15
      <4>1. d[1] \in Byte
          BY <2>2
      <4> QED
          BY <4>1, Remainders
    <3>2. PICK a \in [mode: 0..7, userAuth: BOOLEAN, msgAuth: BOOLEAN, alerting: BOOLEAN, limit: 0..15] :
              a = channelAccess[d[1] % 16]
        BY <3>1 DEF CommandsTyped
    <3>3. \A p, k : IfBit(p, k) \in {0, k}
        BY DEF IfBit
    <3>4. PICK x \in {0, 32}, y \in {0, 64}, z \in {0, 128} :
              x = IfBit(a.userAuth, 32) /\ y = IfBit(a.msgAuth, 64) /\ z = IfBit(~a.alerting, 128)
        BY <3>3
    <3>5. a.mode % 8 \in 0..7 /\ a.limit % 16 \in 0..15
        BY <3>2
    <3>6. \A i \in 0..7, j \in 0..15 : i + x + y + z \in 0..255 /\ j \in 0..255
        OBVIOUS
    <3>7. PICK u \in Byte, v \in Byte : u = (a.mode % 8) + x + y + z /\ v = a.limit % 16
        BY <3>5, <3>6 DEF Byte
    <3>8. GetChannelAccess(d) = Done(<<u, v>>)
        BY <2>2, <3>2, <3>4, <3>7 DEF GetChannelAccess
    <3>9. PICK w \in Seq(Byte) : w = <<u, v>>
      <4>1. <<u, v>> \in Seq(Byte)
          OBVIOUS
      <4> QED
          BY <4>1
    <3>10. Done(w) \in Answers
        BY ShortAnswers
    <3> QED
        BY <3>8, <3>9, <3>10
  <2> QED
      BY <2>1, <2>2
<1>7. GetChannelInfo(d) \in Answers
  <2>1. CASE Len(d) < 1
      BY <1>3, <2>1, Zenon DEF GetChannelInfo
  <2>2. CASE ~(Len(d) < 1)
    <3>1. d[1] \in Byte
        BY <2>2
    <3>2. PICK ch \in Byte : ch = IF d[1] % 16 = 14 THEN 1 ELSE d[1] % 16
      <4>1. d[1] % 16 \in Byte
          BY <3>1, Remainders
      <4>2. 1 \in Byte
          BY DEF Byte
      <4> QED
          BY <4>1, <4>2
    <3>3. <<ch, 4, 1, 128, 0, 0, 0, 0, 0>> \in Seq(Byte)
        BY DEF Byte
    <3>4. GetChannelInfo(d) = Done(<<ch, 4, 1, 128, 0, 0, 0, 0, 0>>)
        BY <2>2, <3>2 DEF GetChannelInfo
    <3> QED
        BY <3>3, <3>4, ShortAnswers
  <2> QED
      BY <2>1, <2>2
<1>8. GetBootOptions(d) \in Answers
  <2>1. CASE Len(d) < 1
      BY <1>3, <2>1, Zenon DEF GetBootOptions
  <2>2. CASE ~(Len(d) < 1)
    <3>1. d[1] \in Byte
        BY <2>2
    <3>2. Parameter(d) \in Byte
        BY <3>1, Remainders DEF Parameter
    <3>3. <<1, 128, 0>> \in Seq(Byte) /\ <<1, Parameter(d), 0>> \in Seq(Byte)
        BY <3>2 DEF Byte
    <3>4. \A p, k : IfBit(p, k) \in {0, k}
        BY DEF IfBit
    <3>5. PICK x \in {0, 32}, y \in {0, 128} :
              y = IfBit(override.enabled # "Disabled", 128) /\ x = IfBit(override.mode = "UEFI", 32)
        BY <3>4
    <3>6. PICK n \in 0..6 : n = Devices[override.target]
      <4>1. override.target \in DOMAIN Devices
          BY DEF CommandsTyped
      <4>2. \A t \in DOMAIN Devices : Devices[t] \in 0..6
          BY DEF Devices
      <4> QED
          BY <4>1, <4>2
    <3>7. y + x \in Byte /\ 4 * n \in Byte
        BY DEF Byte
    <3>8. <<1, 133, y + x, 4 * n, 0, 0, 0>> \in Seq(Byte)
        BY <3>7 DEF Byte
    <3>9. GetBootOptions(d) \in {Done(<<1, 128, 0>>), Done(<<1, 133, y + x, 4 * n, 0, 0, 0>>),
                                 Done(<<1, Parameter(d), 0>>)}
        BY <2>2, <3>5, <3>6 DEF GetBootOptions
    <3>10. /\ Done(<<1, 128, 0>>) \in Answers /\ Done(<<1, 133, y + x, 4 * n, 0, 0, 0>>) \in Answers
           /\ Done(<<1, Parameter(d), 0>>) \in Answers
        BY <3>3, <3>8, ShortAnswers
    <3> QED
        BY <3>9, <3>10
  <2> QED
      BY <2>1, <2>2
<1> QED
    BY <1>1, <1>3, <1>4, <1>5, <1>6, <1>7, <1>8, Zenon DEF Answer

\* The commands keep their state typed.
LEMMA CommandsStay ==
    ASSUME CommandsTyped, NEW m, m.data \in Seq(Byte), Execute(m)
    PROVE  CommandsTyped'
<1>1. PICK d \in Seq(Byte) : d = m.data
    OBVIOUS
<1>2. CASE SetLANConfig(d)
  <2>1. UNCHANGED <<channelAccess, override>>
      BY <1>2 DEF SetLANConfig
  <2>2. CASE SetLANConfigAnswer(d).code = OK /\ d[2] # 0
    <3>1. d[2] \in supportedLANParams /\ d[2] # 1 /\ Len(d) >= 2
        BY <2>2 DEF SetLANConfigAnswer, Fail, OK, InvalidField, ParameterOutOfRange, readOnlyLANParams
    <3>2. lanConfig' = [p \in DOMAIN lanConfig \cup {d[2]} |->
                            IF p = d[2] THEN SubSeq(d, 3, Len(d)) ELSE lanConfig[p]]
        BY <1>2, <2>2 DEF SetLANConfig
    <3>3. SubSeq(d, 3, Len(d)) \in Seq(Byte)
        BY <3>1
    <3> QED
        BY <2>1, <3>1, <3>2, <3>3 DEF CommandsTyped
  <2>3. CASE ~(SetLANConfigAnswer(d).code = OK /\ d[2] # 0)
      BY <1>2, <2>1, <2>3 DEF SetLANConfig, CommandsTyped
  <2> QED
      BY <2>2, <2>3
<1>3. CASE SetChannelAccess(d)
  <2>1. CASE Len(d) < 3
      BY <1>3, <2>1 DEF SetChannelAccess, CommandsTyped
  <2>2. CASE ~(Len(d) < 3)
    <3>1. d[1] \in Byte /\ d[2] \in Byte /\ d[3] \in Byte
        BY <2>2
    <3>2. d[1] % 16 \in 0..15 /\ d[2] % 8 \in 0..7 /\ d[3] % 16 \in 0..15
        BY <3>1, Remainders
    <3>3. \A k : Bit(d[2], k) \in BOOLEAN
        BY DEF Bit
    <3>4. channelAccess' = [channelAccess EXCEPT ![d[1] % 16] =
                     [mode |-> d[2] % 8, userAuth |-> Bit(d[2], 32), msgAuth |-> Bit(d[2], 64),
                      alerting |-> ~Bit(d[2], 128), limit |-> d[3] % 16]]
        BY <1>3, <2>2 DEF SetChannelAccess
    <3>5. [mode |-> d[2] % 8, userAuth |-> Bit(d[2], 32), msgAuth |-> Bit(d[2], 64),
           alerting |-> ~Bit(d[2], 128), limit |-> d[3] % 16]
              \in [mode: 0..7, userAuth: BOOLEAN, msgAuth: BOOLEAN, alerting: BOOLEAN, limit: 0..15]
        BY <3>2, <3>3
    <3>6. channelAccess' \in [0..15 -> [mode: 0..7, userAuth: BOOLEAN, msgAuth: BOOLEAN,
                                        alerting: BOOLEAN, limit: 0..15]]
        BY <3>2, <3>4, <3>5, Zenon DEF CommandsTyped
    <3> QED
        BY <1>3, <3>6 DEF CommandsTyped, SetChannelAccess
  <2> QED
      BY <2>1, <2>2
<1>4. CASE SetBootOptions(d)
  <2>1. \A n : DeviceTarget(n) \in DOMAIN Devices
      BY DEF DeviceTarget, Devices
  <2>2. override' \in [enabled: {"Disabled", "Once", "Continuous"}, target: DOMAIN Devices,
                       mode: {"UEFI", "Legacy"}]
      BY <1>4, <2>1 DEF SetBootOptions, CommandsTyped
  <2> QED
      BY <1>4, <2>2 DEF SetBootOptions, CommandsTyped
<1>5. CASE UNCHANGED commandVars
    BY <1>5 DEF commandVars, CommandsTyped
<1> QED
    BY <1>1, <1>2, <1>3, <1>4, <1>5 DEF Execute

-----------------------------------------------------------------------------
(* What QEMU sends, as the BMC reads it                                    *)

\* What QEMU sends, and what is noted of the messages handled.
Asks == [seq: Byte, req: Requests]
Controls == [ctl: {Hello, Capabilities}]
Junk == [junk: Garbage]
SentMsgs == Asks \cup Controls \cup Junk
Replied == [seq: Byte, req: Requests, ans: Answers]
Answered == Replied \cup Controls

Wire(e) ==
    IF "junk" \in DOMAIN e THEN e.junk
    ELSE IF "ctl" \in DOMAIN e THEN Append(Escaped(e.ctl), 161) ELSE RequestFrame(e.req, e.seq)
Said(e) == IF "junk" \in DOMAIN e THEN <<>> ELSE <<e>>

\* The BMC has the message e when it has the bytes b, terminated by k.
ReadAs(e, b, k) ==
    LET r == UnescapeBytes(b)
    IN  /\ e \in Junk => Empty(b, k)
        /\ e \in Controls => k = VMCmdChar /\ r.bytes = e.ctl /\ ~r.esc
        /\ e \in Asks => /\ k = VMMsgChar /\ ~r.esc
                         /\ DOMAIN ParseRequest(r.bytes) = {1}
                         /\ ParseRequest(r.bytes)[1] =
                               [seq |-> e.seq, netFn |-> e.req.netFn, lun |-> 0, cmd |-> e.req.cmd,
                                data |-> e.req.data]

\* The three kinds of what QEMU sends are told apart by their fields.
LEMMA Kinds ==
    /\ \A e \in Asks : e \notin Controls /\ e \notin Junk /\ "junk" \notin DOMAIN e /\ "ctl" \notin DOMAIN e
                       /\ "req" \in DOMAIN e
    /\ \A e \in Controls : e \notin Asks /\ e \notin Junk /\ "junk" \notin DOMAIN e /\ "ctl" \in DOMAIN e
                           /\ "req" \notin DOMAIN e
    /\ \A e \in Junk : e \notin Asks /\ e \notin Controls /\ "junk" \in DOMAIN e
    /\ \A e \in Replied : "ctl" \notin DOMAIN e /\ "req" \in DOMAIN e
    BY DEF Asks, Controls, Junk, Replied

\* Requests and control commands are bytes, and the two terminators differ.
LEMMA WireMessages ==
    /\ Requests \subseteq Wanted
    /\ Hello \in Seq(Byte) /\ Capabilities \in Seq(Byte)
    /\ VMCmdChar \in Terminators /\ VMMsgChar \in Terminators /\ VMCmdChar # VMMsgChar
    /\ VMCmdChar = 161 /\ VMMsgChar = 160 /\ Terminators \subseteq Byte
    BY WireAssumption DEF Wanted, Hello, Capabilities, VMCmdVersion, VMCmdCapabilities, Byte,
       VMCmdChar, VMMsgChar, Terminators

\* A message's bytes end at their only terminator, and are read as they were meant.
LEMMA Framed ==
    ASSUME NEW e \in SentMsgs
    PROVE  \E b \in Seq(Byte), k \in Terminators : Wire(e) = Append(b, k) /\ Plain(b) /\ ReadAs(e, b, k)
<1>1. CASE e \in Asks
  <2>1. e.req \in Wanted /\ e.seq \in Byte
      BY <1>1, WireMessages DEF Asks
  <2>2. PICK s \in Seq(Byte) :
            /\ Wire(e) = Append(Escaped(s), 160)
            /\ DOMAIN ParseRequest(s) = {1}
            /\ ParseRequest(s)[1] = [seq |-> e.seq, netFn |-> e.req.netFn, lun |-> 0, cmd |-> e.req.cmd,
                                     data |-> e.req.data]
    <3>1. PICK body : body = <<e.seq, 4 * e.req.netFn, e.req.cmd>> \o e.req.data
        OBVIOUS
    <3>2. /\ Append(body, ToZero(body)) \in Seq(Byte)
          /\ DOMAIN ParseRequest(Append(body, ToZero(body))) = {1}
          /\ ParseRequest(Append(body, ToZero(body)))[1] =
                 [seq |-> e.seq, netFn |-> e.req.netFn, lun |-> 0, cmd |-> e.req.cmd, data |-> e.req.data]
        BY <2>1, <3>1, Parsed
    <3>3. Wire(e) = RequestFrame(e.req, e.seq)
        BY <1>1, Kinds DEF Wire
    <3>4. Wire(e) = Append(Escaped(Append(body, ToZero(body))), 160)
        BY <3>1, <3>3 DEF RequestFrame
    <3> QED
        BY <3>2, <3>4
  <2>3. Escaped(s) \in Seq(Byte) /\ Plain(Escaped(s)) /\ UnescapeBytes(Escaped(s)) = [bytes |-> s, esc |-> FALSE]
      BY Unescaped
  <2>4. ReadAs(e, Escaped(s), VMMsgChar)
      BY <1>1, <2>2, <2>3, Kinds DEF ReadAs
  <2> QED
      BY <2>2, <2>3, <2>4, WireMessages
<1>2. CASE e \in Controls
  <2>1. PICK s \in Seq(Byte) : s = e.ctl
      BY <1>2, WireMessages DEF Controls
  <2>2. Wire(e) = Append(Escaped(s), 161)
      BY <1>2, <2>1, Kinds DEF Wire
  <2>3. Escaped(s) \in Seq(Byte) /\ Plain(Escaped(s)) /\ UnescapeBytes(Escaped(s)) = [bytes |-> s, esc |-> FALSE]
      BY Unescaped
  <2>4. ReadAs(e, Escaped(s), VMCmdChar)
      BY <1>2, <2>1, <2>3, Kinds DEF ReadAs
  <2> QED
      BY <2>2, <2>3, <2>4, WireMessages
<1>3. CASE e \in Junk
  <2>1. PICK g \in Garbage : g = e.junk
      BY <1>3 DEF Junk
  <2>2. /\ g \in Seq(Byte) /\ g # <<>>
        /\ \A i \in DOMAIN g : g[i] \in Terminators <=> i = Len(g)
        /\ Empty(SubSeq(g, 1, Len(g) - 1), g[Len(g)])
      BY StreamAssumption
  <2>3. PICK b \in Seq(Byte) : b = SubSeq(g, 1, Len(g) - 1)
    <3>1. SubSeq(g, 1, Len(g) - 1) \in Seq(Byte)
        BY <2>2
    <3> QED
        BY <3>1
  <2>4. /\ Len(g) \in Nat \ {0} /\ Len(b) = Len(g) - 1 /\ DOMAIN g = 1..Len(g)
        /\ \A i \in 1..Len(b) : b[i] = g[i]
    <3>1. Len(g) \in Nat \ {0} /\ DOMAIN g = 1..Len(g)
        BY <2>2
    <3>2. Len(b) = Len(g) - 1
        BY <2>2, <2>3, <3>1
    <3> QED
        BY <2>2, <2>3, <3>1, <3>2
  <2>5. g[Len(g)] \in Terminators
      BY <2>2, <2>4
  <2>6. Plain(b)
      BY <2>2, <2>4 DEF Plain
  <2>7. g = Append(b, g[Len(g)])
    <3>1. Append(b, g[Len(g)]) \in Seq(Byte) /\ Len(Append(b, g[Len(g)])) = Len(g)
        BY <2>2, <2>4
    <3>2. \A i \in 1..Len(g) : Append(b, g[Len(g)])[i] = g[i]
        BY <2>2, <2>4
    <3> QED
        BY <2>2, <3>1, <3>2, SeqEqual
  <2>8. Wire(e) = g
      BY <1>3, <2>1, Kinds DEF Wire
  <2>9. ReadAs(e, b, g[Len(g)])
      BY <1>3, <2>2, <2>3, Kinds DEF ReadAs
  <2> QED
      BY <2>5, <2>6, <2>7, <2>8, <2>9
<1> QED
    BY <1>1, <1>2, <1>3 DEF SentMsgs

Wires == [e \in SentMsgs |-> Wire(e)]
Sayings == [e \in SentMsgs |-> Said(e)]

\* Every message has bytes.
LEMMA Streams ==
    /\ Wires \in [SentMsgs -> Seq(Byte)]
    /\ Sayings \in [SentMsgs -> Seq(SentMsgs)]
    /\ \A e \in SentMsgs : Len(Wire(e)) # 0
<1>1. ASSUME NEW e \in SentMsgs
      PROVE  Wire(e) \in Seq(Byte) /\ Len(Wire(e)) # 0
  <2>1. PICK b \in Seq(Byte), k \in Terminators : Wire(e) = Append(b, k)
      BY Framed
  <2> QED
      BY <2>1, WireMessages
<1>2. ASSUME NEW e \in SentMsgs
      PROVE  Said(e) \in Seq(SentMsgs)
  <2>1. <<>> \in Seq(SentMsgs) /\ <<e>> \in Seq(SentMsgs)
      OBVIOUS
  <2> QED
      BY <2>1 DEF Said
<1> QED
    BY <1>1, <1>2 DEF Wires, Sayings

\* The streams of several messages.
LEMMA FlatStreams ==
    /\ Flat(Wires, <<>>) = <<>> /\ Flat(Sayings, <<>>) = <<>>
    /\ \A s \in Seq(SentMsgs) : Flat(Wires, s) \in Seq(Byte) /\ Flat(Sayings, s) \in Seq(SentMsgs)
    /\ \A e \in SentMsgs : Flat(Wires, <<e>>) = Wire(e) /\ Flat(Sayings, <<e>>) = Said(e)
    /\ \A s, t \in Seq(SentMsgs) : Flat(Wires, s \o t) = Flat(Wires, s) \o Flat(Wires, t)
    /\ \A s, t \in Seq(SentMsgs) : Flat(Sayings, s \o t) = Flat(Sayings, s) \o Flat(Sayings, t)
<1>1. /\ Flat(Wires, <<>>) = <<>>
      /\ \A s \in Seq(SentMsgs) : Flat(Wires, s) \in Seq(Byte)
      /\ \A e \in SentMsgs : Flat(Wires, <<e>>) = Wires[e]
      /\ \A s, t \in Seq(SentMsgs) : Flat(Wires, s \o t) = Flat(Wires, s) \o Flat(Wires, t)
  <2>1. Wires \in [SentMsgs -> Seq(Byte)]
      BY Streams
  <2>2. Flat(Wires, <<>>) = <<>>
      BY <2>1, FlatMap
  <2>3. \A s \in Seq(SentMsgs) : Flat(Wires, s) \in Seq(Byte)
      BY <2>1, FlatMap
  <2>4. \A e \in SentMsgs : Flat(Wires, <<e>>) = Wires[e]
      BY <2>1, FlatMap
  <2>5. \A s, t \in Seq(SentMsgs) : Flat(Wires, s \o t) = Flat(Wires, s) \o Flat(Wires, t)
      BY <2>1, FlatTwo
  <2> QED
      BY <2>2, <2>3, <2>4, <2>5
<1>2. /\ Flat(Sayings, <<>>) = <<>>
      /\ \A s \in Seq(SentMsgs) : Flat(Sayings, s) \in Seq(SentMsgs)
      /\ \A e \in SentMsgs : Flat(Sayings, <<e>>) = Sayings[e]
      /\ \A s, t \in Seq(SentMsgs) : Flat(Sayings, s \o t) = Flat(Sayings, s) \o Flat(Sayings, t)
  <2>1. Sayings \in [SentMsgs -> Seq(SentMsgs)]
      BY Streams
  <2>2. Flat(Sayings, <<>>) = <<>>
      BY <2>1, FlatMap
  <2>3. \A s \in Seq(SentMsgs) : Flat(Sayings, s) \in Seq(SentMsgs)
      BY <2>1, FlatMap
  <2>4. \A e \in SentMsgs : Flat(Sayings, <<e>>) = Sayings[e]
      BY <2>1, FlatMap
  <2>5. \A s, t \in Seq(SentMsgs) : Flat(Sayings, s \o t) = Flat(Sayings, s) \o Flat(Sayings, t)
      BY <2>1, FlatTwo
  <2> QED
      BY <2>2, <2>3, <2>4, <2>5
<1>3. \A e \in SentMsgs : Wires[e] = Wire(e) /\ Sayings[e] = Said(e)
    BY DEF Wires, Sayings
<1> QED
    BY <1>1, <1>2, <1>3

\* The streams of one message more, last or first.
LEMMA StreamsGrow ==
    ASSUME NEW m \in SentMsgs, NEW s \in Seq(SentMsgs)
    PROVE  /\ Wire(m) \in Seq(Byte) /\ Said(m) \in Seq(SentMsgs) /\ <<m>> \in Seq(SentMsgs)
           /\ Flat(Wires, s \o <<m>>) = Flat(Wires, s) \o Wire(m)
           /\ Flat(Wires, <<m>> \o s) = Wire(m) \o Flat(Wires, s)
           /\ Flat(Sayings, s \o <<m>>) = Flat(Sayings, s) \o Said(m)
           /\ Flat(Sayings, <<m>> \o s) = Said(m) \o Flat(Sayings, s)
<1>1. <<m>> \in Seq(SentMsgs)
    OBVIOUS
<1>2. Flat(Wires, <<m>>) = Wire(m) /\ Flat(Sayings, <<m>>) = Said(m)
    BY FlatStreams
<1>3. Wire(m) \in Seq(Byte) /\ Said(m) \in Seq(SentMsgs)
    BY <1>1, <1>2, FlatStreams
<1>4. PICK q \in Seq(SentMsgs) : q = <<m>>
    BY <1>1
<1>5. /\ Flat(Wires, s \o q) = Flat(Wires, s) \o Flat(Wires, q)
      /\ Flat(Wires, q \o s) = Flat(Wires, q) \o Flat(Wires, s)
      /\ Flat(Sayings, s \o q) = Flat(Sayings, s) \o Flat(Sayings, q)
      /\ Flat(Sayings, q \o s) = Flat(Sayings, q) \o Flat(Sayings, s)
    BY FlatStreams, Zenon
<1> QED
    BY <1>1, <1>2, <1>3, <1>4, <1>5

\* Reading up to the first terminator takes the first message that is left.
Takes(s, rest, tail) ==
    \E e \in SentMsgs, r \in Seq(SentMsgs), b \in Seq(Byte), k \in Terminators :
        /\ rest = <<e>> \o r /\ ReadAs(e, b, k)
        /\ s[End(s)] = k /\ SubSeq(s, 1, End(s) - 1) = b
        /\ SubSeq(s, End(s) + 1, Len(s)) = Flat(Wires, r) \o tail

LEMMA TakesOne ==
    ASSUME NEW rest \in Seq(SentMsgs), NEW tail \in Seq(Byte), Plain(tail),
           NEW s, s = Flat(Wires, rest) \o tail, Terminated(s)
    PROVE  Takes(s, rest, tail)
<1>1. rest # <<>>
  <2>1. Flat(Wires, <<>>) = <<>>
      BY FlatStreams
  <2>2. rest = <<>> => s = tail
      BY <2>1, ConcatEmptySeq
  <2> QED
      BY <2>2, NothingEnds
<1>2. PICK e \in SentMsgs, r \in Seq(SentMsgs) : rest = <<e>> \o r
  <2>1. Head(rest) \in SentMsgs /\ Tail(rest) \in Seq(SentMsgs) /\ rest = <<Head(rest)>> \o Tail(rest)
      BY <1>1
  <2> QED
      BY <2>1
<1>3. PICK b \in Seq(Byte), k \in Terminators : Wire(e) = Append(b, k) /\ Plain(b) /\ ReadAs(e, b, k)
    BY Framed
<1>4. PICK t \in Seq(Byte) : t = Flat(Wires, r) \o tail
  <2>1. Flat(Wires, r) \in Seq(Byte)
      BY FlatStreams
  <2>2. Flat(Wires, r) \o tail \in Seq(Byte)
      BY <2>1
  <2> QED
      BY <2>2
<1>5. s = Append(b, k) \o t
  <2>1. <<e>> \in Seq(SentMsgs)
      OBVIOUS
  <2>2. Flat(Wires, rest) = Flat(Wires, <<e>>) \o Flat(Wires, r)
      BY <1>2, <2>1, FlatStreams
  <2>3. Flat(Wires, <<e>>) = Append(b, k)
      BY <1>3, FlatStreams
  <2>4. k \in Byte
      BY WireMessages
  <2>5. PICK x \in Seq(Byte), y \in Seq(Byte) : x = Append(b, k) /\ y = Flat(Wires, r)
    <3>1. Append(b, k) \in Seq(Byte)
        BY <2>4
    <3>2. Flat(Wires, r) \in Seq(Byte)
        BY FlatStreams
    <3> QED
        BY <3>1, <3>2
  <2>6. (x \o y) \o tail = x \o (y \o tail)
      BY ConcatAssociative
  <2> QED
      BY <1>4, <2>2, <2>3, <2>5, <2>6
<1>6. /\ End(s) = Len(b) + 1 /\ s[Len(b) + 1] = k
      /\ SubSeq(s, 1, End(s) - 1) = b
      /\ SubSeq(s, End(s) + 1, Len(s)) = t
    BY <1>3, <1>5, FirstFrame
<1> QED
    BY <1>2, <1>3, <1>4, <1>6 DEF Takes

-----------------------------------------------------------------------------
(* What the BMC answers                                                    *)

\* The BMC writes the answer that QEMU has to read.
LEMMA Written ==
    ASSUME NEW q \in Requests, NEW n \in Byte, NEW a \in Answers,
           NEW r, r = [seq |-> n, netFn |-> q.netFn, lun |-> 0, cmd |-> q.cmd, data |-> q.data]
    PROVE  /\ Append(EscapeBytes(BuildResponse(r, a)), VMMsgChar) = AnswerBytes([seq |-> n, req |-> q, ans |-> a])
           /\ AnswerBytes([seq |-> n, req |-> q, ans |-> a]) \in Seq(Byte)
<1>1. q.netFn \in 0..63 /\ q.cmd \in Byte /\ q.netFn % 2 = 0 /\ a.code \in Byte /\ a.data \in Seq(Byte)
    BY WireMessages, StreamAssumption DEF Wanted, Answers
<1>2. PICK k \in Byte : k = 4 * q.netFn + 4 /\ k = 4 * (q.netFn + 1 - (q.netFn % 2)) + 0
  <2>1. \A x \in 0..63 : x % 2 = 0 => /\ 4 * x + 4 \in 0..255
                                      /\ 4 * (x + 1 - (x % 2)) + 0 = 4 * x + 4
      OBVIOUS
  <2> QED
      BY <1>1, <2>1 DEF Byte
<1>3. PICK body \in Seq(Byte) : body = <<n, k, q.cmd, a.code>> \o a.data
  <2>1. PICK x \in Seq(Byte) : x = <<n, k, q.cmd, a.code>>
    <3>1. <<n, k, q.cmd, a.code>> \in Seq(Byte)
        BY <1>1
    <3> QED
        BY <3>1
  <2>2. x \o a.data \in Seq(Byte)
      BY <1>1
  <2> QED
      BY <2>1, <2>2
<1>4. BuildResponse(r, a) = Append(body, Checksum(body))
    BY <1>2, <1>3 DEF BuildResponse
<1>5. PICK e : e = [seq |-> n, req |-> q, ans |-> a]
    OBVIOUS
<1>6. e.seq = n /\ e.req = q /\ e.ans = a /\ "ctl" \notin DOMAIN e
    BY <1>5
<1>7. AnswerBytes(e) = Append(Escaped(Append(body, ToZero(body))), 160)
    BY <1>2, <1>3, <1>6 DEF AnswerBytes
<1>8. Checksum(body) = ToZero(body) /\ ToZero(body) \in Byte
    BY SumsToZero
<1>9. PICK s \in Seq(Byte) : s = Append(body, ToZero(body))
  <2>1. Append(body, ToZero(body)) \in Seq(Byte)
      BY <1>8
  <2> QED
      BY <2>1
<1>10. EscapeBytes(s) = Escaped(s) /\ Escaped(s) \in Seq(Byte)
    BY SameEscapes, Unescaped
<1>11. VMMsgChar = 160 /\ 160 \in Byte
    BY WireMessages
<1>12. Append(Escaped(s), 160) \in Seq(Byte)
    BY <1>10, <1>11
<1> QED
    BY <1>4, <1>5, <1>7, <1>8, <1>9, <1>10, <1>11, <1>12

\* Of the control commands only Capabilities is answered.
LEMMA WrittenControl ==
    ASSUME NEW e \in Controls
    PROVE  /\ AnswerBytes(e) = IF e.ctl # <<>> /\ e.ctl[1] = VMCmdCapabilities
                               THEN Append(EscapeBytes(<<VMCmdNoAttn>>), VMCmdChar) ELSE <<>>
           /\ AnswerBytes(e) \in Seq(Byte)
           /\ e.ctl # <<>> /\ \A i \in 1..Len(e.ctl) : e.ctl[i] \in Byte
<1>1. e.ctl \in {Hello, Capabilities} /\ "ctl" \in DOMAIN e
    BY DEF Controls
<1>2. e.ctl \in Seq(Byte) /\ Len(e.ctl) = 2
    BY <1>1, WireMessages DEF Hello, Capabilities
<1>3. <<VMCmdNoAttn>> \in Seq(Byte)
    BY DEF VMCmdNoAttn, Byte
<1>4. EscapeBytes(<<VMCmdNoAttn>>) = Escaped(<<VMCmdNoAttn>>) /\ Escaped(<<VMCmdNoAttn>>) \in Seq(Byte)
    BY <1>3, SameEscapes, Unescaped
<1>5. AnswerBytes(e) = IF e.ctl[1] = VMCmdCapabilities THEN Append(Escaped(<<VMCmdNoAttn>>), 161) ELSE <<>>
    BY <1>1 DEF AnswerBytes
<1>6. VMCmdChar = 161 /\ 161 \in Byte
    BY WireMessages
<1>7. Append(Escaped(<<VMCmdNoAttn>>), 161) \in Seq(Byte) /\ <<>> \in Seq(Byte)
    BY <1>4, <1>6
<1>8. e.ctl # <<>>
  <2>1. \A s \in Seq(Byte) : Len(s) = 2 => s # <<>>
      BY EmptySeq
  <2> QED
      BY <1>2, <2>1, Zenon
<1> QED
    BY <1>2, <1>4, <1>5, <1>6, <1>7, <1>8

Replies == [e \in Answered |-> AnswerBytes(e)]

\* The answers of several messages.
LEMMA FlatReplies ==
    /\ \A e \in Answered : AnswerBytes(e) \in Seq(Byte)
    /\ Flat(Replies, <<>>) = <<>>
    /\ \A s \in Seq(Answered) : Flat(Replies, s) \in Seq(Byte)
    /\ \A s \in Seq(Answered), e \in Answered :
           Flat(Replies, Append(s, e)) = Flat(Replies, s) \o AnswerBytes(e)
<1>1. ASSUME NEW e \in Answered
      PROVE  AnswerBytes(e) \in Seq(Byte)
  <2>1. CASE e \in Replied
    <3>1. e.seq \in Byte /\ e.req \in Requests /\ e.ans \in Answers /\ e = [seq |-> e.seq, req |-> e.req, ans |-> e.ans]
        BY <2>1 DEF Replied
    <3> QED
        BY <3>1, Written
  <2>2. CASE e \in Controls
      BY <2>2, WrittenControl
  <2> QED
      BY <2>1, <2>2 DEF Answered
<1>2. Replies \in [Answered -> Seq(Byte)] /\ \A e \in Answered : Replies[e] = AnswerBytes(e)
    BY <1>1 DEF Replies
<1>3. Flat(Replies, <<>>) = <<>>
    BY <1>2, FlatMap
<1>4. \A s \in Seq(Answered) : Flat(Replies, s) \in Seq(Byte)
    BY <1>2, FlatMap
<1>5. ASSUME NEW s \in Seq(Answered), NEW e \in Answered
      PROVE  Flat(Replies, Append(s, e)) = Flat(Replies, s) \o AnswerBytes(e)
  <2>1. <<e>> \in Seq(Answered) /\ Append(s, e) = s \o <<e>>
      BY AppendIsConcat
  <2>2. Flat(Replies, s \o <<e>>) = Flat(Replies, s) \o Flat(Replies, <<e>>)
      BY <1>2, <2>1, FlatTwo
  <2>3. Flat(Replies, <<e>>) = Replies[e]
      BY <1>2, FlatMap
  <2> QED
      BY <1>2, <2>1, <2>2, <2>3
<1> QED
    BY <1>1, <1>3, <1>4, <1>5

\* The messages that an answered one counts as.
Seen(s) == [i \in DOMAIN s |-> Asked(s[i])]

\* A message counts as one that was sent, and is no garbage.
LEMMA SeenTyped ==
    /\ Seen(<<>>) = <<>>
    /\ \A e \in Answered : Asked(e) \in SentMsgs /\ Said(Asked(e)) = <<Asked(e)>>
    /\ \A s \in Seq(Answered) : Seen(s) \in Seq(SentMsgs)
    /\ \A s \in Seq(Answered), e \in Answered : Seen(Append(s, e)) = Append(Seen(s), Asked(e))
<1>1. ASSUME NEW e \in Answered
      PROVE  Asked(e) \in SentMsgs /\ Said(Asked(e)) = <<Asked(e)>>
  <2>1. CASE e \in Replied
    <3>1. Asked(e) = [seq |-> e.seq, req |-> e.req]
        BY <2>1, Kinds DEF Asked
    <3>2. [seq |-> e.seq, req |-> e.req] \in Asks
        BY <2>1 DEF Replied, Asks
    <3> QED
        BY <3>1, <3>2, Kinds DEF SentMsgs, Said
  <2>2. CASE e \in Controls
    <3>1. Asked(e) = e
        BY <2>2, Kinds DEF Asked
    <3> QED
        BY <2>2, <3>1, Kinds DEF SentMsgs, Said
  <2> QED
      BY <2>1, <2>2 DEF Answered
<1>2. ASSUME NEW s \in Seq(Answered)
      PROVE  Seen(s) \in Seq(SentMsgs) /\ Len(Seen(s)) = Len(s)
  <2>1. DOMAIN s = 1..Len(s) /\ Len(s) \in Nat /\ \A i \in 1..Len(s) : Asked(s[i]) \in SentMsgs
      BY <1>1
  <2>2. Seen(s) \in [1..Len(s) -> SentMsgs]
      BY <2>1 DEF Seen
  <2>3. Seen(s) \in Seq(SentMsgs)
      BY <2>1, <2>2, SeqDef
  <2> QED
      BY <2>1, <2>2, <2>3
<1>3. ASSUME NEW s \in Seq(Answered), NEW e \in Answered
      PROVE  Seen(Append(s, e)) = Append(Seen(s), Asked(e))
  <2>1. PICK t \in Seq(Answered) : t = Append(s, e)
    <3>1. Append(s, e) \in Seq(Answered)
        OBVIOUS
    <3> QED
        BY <3>1
  <2>2. /\ Len(t) = Len(s) + 1 /\ DOMAIN t = 1..Len(t) /\ DOMAIN s = 1..Len(s) /\ Len(s) \in Nat
        /\ t[Len(s) + 1] = e /\ \A i \in 1..Len(s) : t[i] = s[i]
      BY <2>1
  <2>3. PICK x \in Seq(SentMsgs), y \in Seq(SentMsgs) :
            x = Seen(t) /\ y = Seen(s) /\ Len(x) = Len(t) /\ Len(y) = Len(s)
      BY <1>2
  <2>4. /\ Append(y, Asked(e)) \in Seq(SentMsgs) /\ Len(Append(y, Asked(e))) = Len(t)
        /\ Append(y, Asked(e))[Len(s) + 1] = Asked(e)
        /\ \A i \in 1..Len(s) : Append(y, Asked(e))[i] = y[i]
      BY <1>1, <2>2, <2>3
  <2>5. /\ x[Len(s) + 1] = Asked(e)
        /\ \A i \in 1..Len(s) : x[i] = Asked(s[i]) /\ y[i] = Asked(s[i])
      BY <2>2, <2>3 DEF Seen
  <2>6. \A i \in 1..Len(t) : x[i] = Append(y, Asked(e))[i]
      BY <2>2, <2>4, <2>5
  <2>7. x = Append(y, Asked(e))
      BY <2>3, <2>4, <2>6, SeqEqual
  <2> QED
      BY <2>1, <2>3, <2>7
<1>4. Seen(<<>>) = <<>>
    BY DEF Seen
<1> QED
    BY <1>1, <1>2, <1>3, <1>4

-----------------------------------------------------------------------------
(* What is on the way                                                      *)

StreamsTyped ==
    /\ sent \in [Conns -> Seq(SentMsgs)] /\ \A c \in Conns : Len(sent[c]) <= MaxSent
    /\ handled \in [Conns -> Seq(Answered)]
    /\ inbound \in [Conns -> Seq(Byte)]
    /\ outbound \in [Conns -> Seq(Byte)]
    /\ pending \in [Conns -> Seq(Byte)]
    /\ conn \in [Conns -> {"open", "cut", "closed"}]
    /\ vmCaps \in Byte

\* What is left to read: messages, those sent and not yet handled, and after a cut the
\* beginning of one.
OnTheWay(c) ==
    \E rest \in Seq(SentMsgs), tail \in Seq(Byte) :
        /\ Flat(Sayings, sent[c]) = Seen(handled[c]) \o Flat(Sayings, rest)
        /\ inbound[c] = Flat(Wires, rest) \o tail
        /\ Plain(tail) /\ (conn[c] = "open" => tail = <<>>)

Received(c) ==
    IF conn[c] = "closed" THEN IsPrefix(Seen(handled[c]), Flat(Sayings, sent[c])) ELSE OnTheWay(c)

Returned(c) ==
    IF conn[c] = "open" THEN outbound[c] \o pending[c] = Flat(Replies, handled[c])
    ELSE IsPrefix(outbound[c], Flat(Replies, handled[c]))

WireInv ==
    /\ CommandsTyped
    /\ StreamsTyped
    /\ \A c \in Conns : Received(c) /\ Returned(c)

\* A beginning stays one, whatever follows.
LEMMA StillPrefix ==
    ASSUME NEW X, NEW s \in Seq(X), NEW t \in Seq(X), NEW r \in Seq(X), IsPrefix(r, s)
    PROVE  IsPrefix(r, s \o t)
<1>1. PICK u \in Seq(X) : /\ u = s \o t /\ Len(u) = Len(s) + Len(t) /\ Len(s) \in Nat /\ Len(t) \in Nat
                          /\ \A i \in 1..Len(s) : u[i] = s[i]
  <2>1. /\ s \o t \in Seq(X) /\ Len(s \o t) = Len(s) + Len(t) /\ Len(s) \in Nat /\ Len(t) \in Nat
        /\ \A i \in 1..Len(s) : (s \o t)[i] = s[i]
      BY ConcatProperties
  <2> QED
      BY <2>1, Zenon
<1>2. Len(r) \in Nat /\ Len(r) <= Len(s) /\ SubSeq(r, 1, Len(r)) = SubSeq(s, 1, Len(r))
    BY DEF IsPrefix
<1>3. /\ SubSeq(u, 1, Len(r)) \in Seq(X) /\ SubSeq(s, 1, Len(r)) \in Seq(X)
      /\ Len(SubSeq(u, 1, Len(r))) = Len(r) /\ Len(SubSeq(s, 1, Len(r))) = Len(r)
      /\ \A i \in 1..Len(r) : SubSeq(u, 1, Len(r))[i] = u[i] /\ SubSeq(s, 1, Len(r))[i] = s[i]
    BY <1>1, <1>2
<1>4. \A i \in 1..Len(r) : u[i] = s[i]
    BY <1>1, <1>2
<1>5. SubSeq(u, 1, Len(r)) = SubSeq(s, 1, Len(r))
    BY <1>3, <1>4, SeqEqual
<1>6. Len(r) <= Len(u)
    BY <1>1, <1>2
<1> QED
    BY <1>1, <1>2, <1>5, <1>6 DEF IsPrefix

LEMMA FirstPart ==
    ASSUME NEW X, NEW s \in Seq(X), NEW t \in Seq(X)
    PROVE  IsPrefix(s, s) /\ IsPrefix(s, s \o t)
<1>1. IsPrefix(s, s)
    BY DEF IsPrefix
<1> QED
    BY <1>1, StillPrefix

\* The first terminator has a place.
LEMMA EndIsNat ==
    ASSUME NEW s \in Seq(Byte), Terminated(s)
    PROVE  End(s) \in Nat
<1> DEFINE I == {i \in 1..Len(s) : s[i] \in Terminators}
<1>1. I # {} /\ I \in SUBSET Nat
    BY DEF Terminated
<1>2. End(s) = Min(I)
    BY <1>1 DEF End, SelectInSeq
<1> HIDE DEF I
<1>3. \E n \in I : \A m \in I : n <= m
    BY <1>1, LeastNumber
<1> QED
    BY <1>1, <1>2, <1>3 DEF Min

\* A connection of which nothing has changed.
LEMMA ConnStays ==
    ASSUME NEW k \in Conns,
           inbound'[k] = inbound[k], outbound'[k] = outbound[k], conn'[k] = conn[k],
           pending'[k] = pending[k], sent'[k] = sent[k], handled'[k] = handled[k]
    PROVE  (Received(k) => Received(k)') /\ (Returned(k) => Returned(k)')
BY DEF Received, OnTheWay, Returned

\* An action of c.
OnlyOf(c) ==
    \A k \in Conns \ {c} :
        /\ inbound'[k] = inbound[k] /\ outbound'[k] = outbound[k] /\ conn'[k] = conn[k]
        /\ pending'[k] = pending[k] /\ sent'[k] = sent[k] /\ handled'[k] = handled[k]

\* So it is enough to look at the connection that acts.
LEMMA OneConn ==
    ASSUME WireInv, NEW c \in Conns, OnlyOf(c), CommandsTyped', StreamsTyped', Received(c)', Returned(c)'
    PROVE  WireInv'
<1>1. ASSUME NEW k \in Conns \ {c}
      PROVE  Received(k)' /\ Returned(k)'
    BY ConnStays DEF OnlyOf, WireInv
<1> QED
    BY <1>1 DEF WireInv

\* QEMU sends: one more message is on the way.
LEMMA SendKeeps ==
    ASSUME WireInv, NEW c \in Conns, NEW m \in SentMsgs, Send(c, Wire(m), m)
    PROVE  WireInv'
<1>1. /\ conn[c] = "open" /\ Len(sent[c]) < MaxSent
      /\ inbound' = [inbound EXCEPT ![c] = @ \o Wire(m)]
      /\ sent' = [sent EXCEPT ![c] = Append(@, m)]
      /\ UNCHANGED <<outbound, conn, pending, vmCaps, handled>>
      /\ UNCHANGED <<lanConfig, channelAccess, override>>
    BY DEF Send, commandVars
<1>2. StreamsTyped
    BY DEF WireInv
<1>3. Wire(m) \in Seq(Byte) /\ <<m>> \in Seq(SentMsgs)
  <2>1. sent[c] \in Seq(SentMsgs)
      BY <1>2 DEF StreamsTyped
  <2> QED
      BY <2>1, StreamsGrow
<1>4. StreamsTyped'
  <2>1. inbound' \in [Conns -> Seq(Byte)]
    <3>1. inbound[c] \o Wire(m) \in Seq(Byte)
        BY <1>2, <1>3 DEF StreamsTyped
    <3> QED
        BY <1>1, <1>2, <3>1 DEF StreamsTyped
  <2>2. sent' \in [Conns -> Seq(SentMsgs)]
      BY <1>1, <1>2 DEF StreamsTyped
  <2>3. \A k \in Conns : Len(sent'[k]) <= MaxSent
    <3>1. Len(Append(sent[c], m)) = Len(sent[c]) + 1 /\ Len(sent[c]) \in Nat
        BY <1>2 DEF StreamsTyped
    <3> QED
        BY <1>1, <1>2, <3>1, WireAssumption DEF StreamsTyped
  <2> QED
      BY <1>1, <1>2, <2>1, <2>2, <2>3 DEF StreamsTyped
<1>5. OnlyOf(c)
    BY <1>1, <1>2 DEF OnlyOf, StreamsTyped
<1>6. CommandsTyped'
    BY <1>1 DEF WireInv, CommandsTyped
<1>7. Returned(c)'
    BY <1>1 DEF WireInv, Returned
<1>8. Received(c)'
  <2>1. OnTheWay(c)
      BY <1>1 DEF WireInv, Received
  <2>2. PICK rest \in Seq(SentMsgs) :
            /\ Flat(Sayings, sent[c]) = Seen(handled[c]) \o Flat(Sayings, rest)
            /\ inbound[c] = Flat(Wires, rest)
    <3>1. PICK rest \in Seq(SentMsgs), tail \in Seq(Byte) :
              /\ Flat(Sayings, sent[c]) = Seen(handled[c]) \o Flat(Sayings, rest)
              /\ inbound[c] = Flat(Wires, rest) \o tail /\ tail = <<>>
        BY <1>1, <2>1 DEF OnTheWay
    <3>2. Flat(Wires, rest) \in Seq(Byte)
        BY FlatStreams
    <3>3. Flat(Wires, rest) \o <<>> = Flat(Wires, rest)
        BY <3>2, ConcatEmptySeq
    <3> QED
        BY <3>1, <3>3
  <2>3. PICK more \in Seq(SentMsgs) : more = rest \o <<m>>
    <3>1. rest \o <<m>> \in Seq(SentMsgs)
        BY <1>3
    <3> QED
        BY <3>1
  <2>4. Flat(Wires, more) = Flat(Wires, rest) \o Wire(m)
      BY <2>3, StreamsGrow
  <2>5. Flat(Sayings, more) = Flat(Sayings, rest) \o Said(m)
      BY <2>3, StreamsGrow
  <2>6. Flat(Sayings, sent'[c]) = Flat(Sayings, sent[c]) \o Said(m)
    <3>1. sent[c] \in Seq(SentMsgs) /\ sent'[c] = sent[c] \o <<m>>
        BY <1>1, <1>2, AppendIsConcat DEF StreamsTyped
    <3> QED
        BY <3>1, StreamsGrow
  <2>7. Flat(Sayings, sent'[c]) = Seen(handled[c]) \o Flat(Sayings, more)
    <3>1. Seen(handled[c]) \in Seq(SentMsgs)
        BY <1>2, SeenTyped DEF StreamsTyped
    <3>2. Flat(Sayings, rest) \in Seq(SentMsgs) /\ Said(m) \in Seq(SentMsgs)
        BY FlatStreams, StreamsGrow
    <3>3. (Seen(handled[c]) \o Flat(Sayings, rest)) \o Said(m) = Seen(handled[c]) \o (Flat(Sayings, rest) \o Said(m))
        BY <3>1, <3>2, ConcatAssociative
    <3> QED
        BY <2>2, <2>5, <2>6, <3>3
  <2>8. inbound'[c] = Flat(Wires, more) \o <<>>
    <3>1. inbound'[c] = Flat(Wires, more)
        BY <1>1, <1>2, <2>2, <2>4 DEF StreamsTyped
    <3>2. Flat(Wires, more) \in Seq(Byte)
        BY FlatStreams
    <3> QED
        BY <3>1, <3>2, ConcatEmptySeq
  <2>9. <<>> \in Seq(Byte) /\ Plain(<<>>)
      BY DEF Plain
  <2>10. OnTheWay(c)'
      BY <1>1, <2>7, <2>8, <2>9 DEF OnTheWay
  <2> QED
      BY <1>1, <2>10 DEF Received
<1> QED
    BY <1>4, <1>5, <1>6, <1>7, <1>8, OneConn

\* A connection is cut, and what is left of a message has no end; or the handler closes it:
\* what was noted stays noted.
LEMMA CutKeeps ==
    ASSUME WireInv, NEW c \in Conns, Cut(c)
    PROVE  WireInv'
<1>1. PICK f \in Fragments :
          /\ conn[c] = "open"
          /\ inbound' = [inbound EXCEPT ![c] = @ \o f]
          /\ conn' = [conn EXCEPT ![c] = "cut"]
          /\ UNCHANGED <<outbound, pending, vmCaps, sent, handled>>
          /\ UNCHANGED <<lanConfig, channelAccess, override>>
    BY DEF Cut, commandVars
<1>2. StreamsTyped
    BY DEF WireInv
<1>3. f \in Seq(Byte) /\ Plain(f)
  <2>1. f \in Seq(Byte) /\ ~Terminated(f)
      BY StreamAssumption
  <2> QED
      BY <2>1 DEF Plain, Terminated
<1>4. StreamsTyped'
  <2>1. inbound[c] \o f \in Seq(Byte)
      BY <1>2, <1>3 DEF StreamsTyped
  <2> QED
      BY <1>1, <1>2, <2>1 DEF StreamsTyped
<1>5. OnlyOf(c)
    BY <1>1, <1>2 DEF OnlyOf, StreamsTyped
<1>6. CommandsTyped'
    BY <1>1 DEF WireInv, CommandsTyped
<1>7. conn'[c] = "cut" /\ inbound'[c] = inbound[c] \o f
    BY <1>1, <1>2 DEF StreamsTyped
<1>8. Returned(c)'
  <2>1. outbound[c] \o pending[c] = Flat(Replies, handled[c])
      BY <1>1 DEF WireInv, Returned
  <2>2. outbound[c] \in Seq(Byte) /\ pending[c] \in Seq(Byte)
      BY <1>2 DEF StreamsTyped
  <2>3. IsPrefix(outbound[c], Flat(Replies, handled[c]))
      BY <2>1, <2>2, FirstPart
  <2> QED
      BY <1>1, <1>7, <2>3 DEF Returned
<1>9. Received(c)'
  <2>1. OnTheWay(c)
      BY <1>1 DEF WireInv, Received
  <2>2. PICK rest \in Seq(SentMsgs) :
            /\ Flat(Sayings, sent[c]) = Seen(handled[c]) \o Flat(Sayings, rest)
            /\ inbound[c] = Flat(Wires, rest)
    <3>1. PICK rest \in Seq(SentMsgs), tail \in Seq(Byte) :
              /\ Flat(Sayings, sent[c]) = Seen(handled[c]) \o Flat(Sayings, rest)
              /\ inbound[c] = Flat(Wires, rest) \o tail /\ tail = <<>>
        BY <1>1, <2>1 DEF OnTheWay
    <3>2. Flat(Wires, rest) \in Seq(Byte)
        BY FlatStreams
    <3>3. Flat(Wires, rest) \o <<>> = Flat(Wires, rest)
        BY <3>2, ConcatEmptySeq
    <3> QED
        BY <3>1, <3>3
  <2>3. OnTheWay(c)'
      BY <1>1, <1>3, <1>7, <2>2 DEF OnTheWay
  <2> QED
      BY <1>7, <2>3 DEF Received
<1> QED
    BY <1>4, <1>5, <1>6, <1>8, <1>9, OneConn

LEMMA CloseKeeps ==
    ASSUME WireInv, NEW c \in Conns, ReadFails(c) \/ ReadEof(c)
    PROVE  WireInv'
<1>1. /\ conn[c] # "closed" /\ pending[c] = <<>>
      /\ conn' = [conn EXCEPT ![c] = "closed"]
      /\ UNCHANGED <<outbound, pending, vmCaps, sent, handled>>
      /\ UNCHANGED <<lanConfig, channelAccess, override>>
    BY DEF ReadFails, ReadEof, Arrived, commandVars
<1>2. StreamsTyped
    BY DEF WireInv
<1>3. PICK t \in Seq(Byte) : inbound' = [inbound EXCEPT ![c] = t]
  <2>1. CASE ReadFails(c)
    <3>1. PICK s \in Seq(Byte) : s = inbound[c]
        BY <1>2 DEF StreamsTyped
    <3>2. inbound' = [inbound EXCEPT ![c] = SubSeq(s, End(s) + 1, Len(s))] /\ Terminated(s)
        BY <2>1, <3>1 DEF ReadFails, Taken, Arrived
    <3>3. End(s) \in Nat
        BY <3>2, EndIsNat
    <3>4. SubSeq(s, End(s) + 1, Len(s)) \in Seq(Byte)
        BY <3>3
    <3> QED
        BY <3>2, <3>4
  <2>2. CASE ReadEof(c)
    <3>1. <<>> \in Seq(Byte)
        OBVIOUS
    <3> QED
        BY <2>2, <3>1 DEF ReadEof
  <2> QED
      BY <2>1, <2>2
<1>4. StreamsTyped'
    BY <1>1, <1>2, <1>3 DEF StreamsTyped
<1>5. OnlyOf(c)
    BY <1>1, <1>2, <1>3 DEF OnlyOf, StreamsTyped
<1>6. CommandsTyped'
    BY <1>1 DEF WireInv, CommandsTyped
<1>7. conn'[c] = "closed"
    BY <1>1, <1>2 DEF StreamsTyped
<1>8. Returned(c)'
  <2>1. CASE conn[c] = "open"
    <3>1. outbound[c] \o pending[c] = Flat(Replies, handled[c])
        BY <2>1 DEF WireInv, Returned
    <3>2. outbound[c] \in Seq(Byte) /\ pending[c] \in Seq(Byte)
        BY <1>2 DEF StreamsTyped
    <3>3. IsPrefix(outbound[c], Flat(Replies, handled[c]))
        BY <3>1, <3>2, FirstPart
    <3> QED
        BY <1>1, <1>7, <3>3 DEF Returned
  <2>2. CASE conn[c] # "open"
      BY <1>1, <1>7, <2>2 DEF WireInv, Returned
  <2> QED
      BY <2>1, <2>2
<1>9. Received(c)'
  <2>1. PICK rest \in Seq(SentMsgs) : Flat(Sayings, sent[c]) = Seen(handled[c]) \o Flat(Sayings, rest)
      BY <1>1 DEF WireInv, Received, OnTheWay
  <2>2. Seen(handled[c]) \in Seq(SentMsgs) /\ Flat(Sayings, rest) \in Seq(SentMsgs)
      BY <1>2, SeenTyped, FlatStreams DEF StreamsTyped
  <2>3. IsPrefix(Seen(handled[c]), Flat(Sayings, sent[c]))
      BY <2>1, <2>2, FirstPart
  <2> QED
      BY <1>1, <1>7, <2>3 DEF Received
<1> QED
    BY <1>4, <1>5, <1>6, <1>8, <1>9, OneConn

\* What reading a message does: it takes the first of those left, and notes and answers it
\* unless it is none.
LEMMA OneHandled ==
    ASSUME WireInv, NEW c \in Conns, Control(c) \/ Ipmi(c)
    PROVE  /\ \E e \in SentMsgs, r \in Seq(SentMsgs), tail \in Seq(Byte) :
                  /\ Flat(Sayings, sent[c]) = Seen(handled[c]) \o (Said(e) \o Flat(Sayings, r))
                  /\ inbound' = [inbound EXCEPT ![c] = Flat(Wires, r) \o tail]
                  /\ Plain(tail) /\ (conn[c] = "open" => tail = <<>>)
                  /\ \/ Said(e) = <<>> /\ handled' = handled /\ pending' = pending
                     \/ \E h \in Answered : /\ Asked(h) = e
                                            /\ handled' = [handled EXCEPT ![c] = Append(@, h)]
                                            /\ pending' = [pending EXCEPT ![c] = AnswerBytes(h)]
           /\ vmCaps' \in Byte
           /\ CommandsTyped'
<1>1. StreamsTyped /\ CommandsTyped /\ Received(c)
    BY DEF WireInv
<1>2. conn[c] # "closed" /\ Terminated(inbound[c]) /\ pending[c] = <<>> /\ ~Frame(c).esc
    BY DEF Control, Ipmi, Arrived
<1>3. PICK rest \in Seq(SentMsgs), tail \in Seq(Byte) :
          /\ Flat(Sayings, sent[c]) = Seen(handled[c]) \o Flat(Sayings, rest)
          /\ inbound[c] = Flat(Wires, rest) \o tail
          /\ Plain(tail) /\ (conn[c] = "open" => tail = <<>>)
    BY <1>1, <1>2 DEF Received, OnTheWay
<1>4. PICK e \in SentMsgs, r \in Seq(SentMsgs), b \in Seq(Byte), k \in Terminators :
          /\ rest = <<e>> \o r /\ ReadAs(e, b, k)
          /\ inbound[c][End(inbound[c])] = k
          /\ SubSeq(inbound[c], 1, End(inbound[c]) - 1) = b
          /\ SubSeq(inbound[c], End(inbound[c]) + 1, Len(inbound[c])) = Flat(Wires, r) \o tail
  <2>1. PICK s : s = inbound[c]
      OBVIOUS
  <2>2. s = Flat(Wires, rest) \o tail /\ Terminated(s) /\ Plain(tail)
      BY <1>2, <1>3, <2>1
  <2>3. Takes(s, rest, tail)
      BY <2>2, TakesOne
  <2> QED
      BY <2>1, <2>3, Zenon DEF Takes
<1>5. Flat(Sayings, sent[c]) = Seen(handled[c]) \o (Said(e) \o Flat(Sayings, r))
    BY <1>3, <1>4, StreamsGrow
<1>6. inbound' = [inbound EXCEPT ![c] = Flat(Wires, r) \o tail]
    BY <1>4 DEF Control, Ipmi, Taken
<1>7. Frame(c) = UnescapeBytes(b) /\ Terminator(c) = k
    BY <1>4 DEF Frame, Terminator
<1>8. /\ pending = [pending EXCEPT ![c] = <<>>]
      /\ handled = [handled EXCEPT ![c] = @]
    BY <1>1, <1>2 DEF StreamsTyped
<1>9. CASE Control(c)
  <2>1. k = VMCmdChar /\ UNCHANGED <<lanConfig, channelAccess, override>>
      BY <1>7, <1>9 DEF Control, commandVars
  <2>2. PICK s : s = Frame(c).bytes
      OBVIOUS
  <2>3. PICK caps \in BOOLEAN : caps = (s # <<>> /\ s[1] = VMCmdCapabilities)
      OBVIOUS
  <2>4. /\ vmCaps' = IF ~caps THEN vmCaps ELSE IF Len(s) > 1 THEN s[2] ELSE 0
        /\ pending' = [pending EXCEPT ![c] = IF caps THEN Append(EscapeBytes(<<VMCmdNoAttn>>), VMCmdChar) ELSE <<>>]
        /\ handled' = [handled EXCEPT ![c] = IF s = <<>> THEN @ ELSE Append(@, [ctl |-> s])]
      BY <1>9, <2>2, <2>3 DEF Control
  <2>5. CommandsTyped'
      BY <1>1, <2>1 DEF CommandsTyped
  <2>6. vmCaps \in Byte /\ 0 \in Byte
      BY <1>1 DEF StreamsTyped, Byte
  <2>7. CASE e \in Junk
    <3>1. s = <<>>
        BY <1>2, <1>4, <1>7, <2>1, <2>2, <2>7 DEF ReadAs, Empty
    <3>2. Said(e) = <<>>
        BY <2>7, Kinds DEF Said
    <3>3. handled' = handled /\ pending' = pending /\ vmCaps' = vmCaps
        BY <1>8, <2>3, <2>4, <3>1
    <3> QED
        BY <1>3, <1>5, <1>6, <2>5, <2>6, <3>2, <3>3
  <2>8. CASE e \in Controls
    <3>1. s = e.ctl /\ s # <<>> /\ \A i \in 1..Len(s) : s[i] \in Byte
        BY <1>4, <1>7, <2>2, <2>8, WrittenControl DEF ReadAs
    <3>2. [ctl |-> s] = e
        BY <2>8, <3>1 DEF Controls
    <3>3. pending' = [pending EXCEPT ![c] = AnswerBytes(e)]
        BY <2>3, <2>4, <2>8, <3>1, WrittenControl
    <3>4. handled' = [handled EXCEPT ![c] = Append(@, e)]
        BY <2>4, <3>1, <3>2
    <3>5. e \in Answered /\ Asked(e) = e
        BY <2>8, Kinds DEF Answered, Asked
    <3>6. vmCaps' \in Byte
      <4>1. Len(s) \in Nat
          BY <2>8, <3>1, WireMessages DEF Controls
      <4>2. Len(s) > 1 => s[2] \in Byte
          BY <3>1, <4>1
      <4> QED
          BY <2>4, <2>6, <4>2
    <3> QED
        BY <1>3, <1>5, <1>6, <2>5, <3>3, <3>4, <3>5, <3>6
  <2>9. CASE e \in Asks
      BY <1>4, <2>1, <2>9, WireMessages DEF ReadAs
  <2> QED
      BY <2>7, <2>8, <2>9 DEF SentMsgs
<1>10. CASE Ipmi(c)
  <2>1. k = VMMsgChar /\ vmCaps' = vmCaps
      BY <1>7, <1>10 DEF Ipmi
  <2>2. PICK p : p = ParseRequest(UnescapeBytes(b).bytes)
      OBVIOUS
  <2>3. \/ p = <<>> /\ UNCHANGED <<pending, handled, lanConfig, channelAccess, override>>
        \/ \E i \in DOMAIN p :
              /\ Execute(p[i])
              /\ pending' = [pending EXCEPT
                     ![c] = Append(EscapeBytes(BuildResponse(p[i], Answer(p[i]))), VMMsgChar)]
              /\ handled' = [handled EXCEPT ![c] = Append(@,
                     [seq |-> p[i].seq, req |-> [netFn |-> p[i].netFn, cmd |-> p[i].cmd, data |-> p[i].data],
                      ans |-> Answer(p[i])])]
    <3>1. p = ParseRequest(Frame(c).bytes)
        BY <1>7, <2>2
    <3>2. \/ p = <<>> /\ UNCHANGED <<pending, handled, commandVars>>
          \/ \E q \in {p[i] : i \in DOMAIN p} :
                /\ Execute(q)
                /\ pending' = [pending EXCEPT ![c] = Append(EscapeBytes(BuildResponse(q, Answer(q))), VMMsgChar)]
                /\ handled' = [handled EXCEPT ![c] = Append(@,
                       [seq |-> q.seq, req |-> [netFn |-> q.netFn, cmd |-> q.cmd, data |-> q.data],
                        ans |-> Answer(q)])]
        BY <1>10, <3>1, Zenon DEF Ipmi
    <3>3. UNCHANGED commandVars => UNCHANGED <<lanConfig, channelAccess, override>>
        BY DEF commandVars
    <3> QED
        BY <3>2, <3>3
  <2>4. vmCaps' \in Byte
      BY <1>1, <2>1 DEF StreamsTyped
  <2>5. CASE e \in Junk
    <3>1. p = <<>>
        BY <1>2, <1>4, <1>7, <2>1, <2>2, <2>5, WireMessages DEF ReadAs, Empty
    <3>2. DOMAIN p = {}
        BY <3>1
    <3>3. UNCHANGED <<pending, handled, lanConfig, channelAccess, override>>
        BY <2>3, <3>2
    <3>4. Said(e) = <<>>
        BY <2>5, Kinds DEF Said
    <3>5. CommandsTyped'
        BY <1>1, <3>3 DEF CommandsTyped
    <3> QED
        BY <1>3, <1>5, <1>6, <2>4, <3>3, <3>4, <3>5
  <2>6. CASE e \in Controls
      BY <1>4, <2>1, <2>6, WireMessages DEF ReadAs
  <2>7. CASE e \in Asks
    <3>1. /\ DOMAIN p = {1}
          /\ p[1] = [seq |-> e.seq, netFn |-> e.req.netFn, lun |-> 0, cmd |-> e.req.cmd,
                     data |-> e.req.data]
        BY <1>4, <2>2, <2>7 DEF ReadAs
    <3>2. PICK q : q = p[1]
        OBVIOUS
    <3>3. e.seq \in Byte /\ e.req \in Requests /\ e = [seq |-> e.seq, req |-> e.req]
        BY <2>7 DEF Asks
    <3>4. p # <<>>
      <4>1. DOMAIN <<>> = {}
          OBVIOUS
      <4> QED
          BY <3>1, <4>1
    <3>5. /\ Execute(q)
          /\ pending' = [pending EXCEPT ![c] = Append(EscapeBytes(BuildResponse(q, Answer(q))), VMMsgChar)]
          /\ handled' = [handled EXCEPT ![c] = Append(@,
                 [seq |-> q.seq, req |-> [netFn |-> q.netFn, cmd |-> q.cmd, data |-> q.data],
                  ans |-> Answer(q)])]
      <4>1. PICK i \in DOMAIN p :
              /\ Execute(p[i])
              /\ pending' = [pending EXCEPT
                     ![c] = Append(EscapeBytes(BuildResponse(p[i], Answer(p[i]))), VMMsgChar)]
              /\ handled' = [handled EXCEPT ![c] = Append(@,
                     [seq |-> p[i].seq, req |-> [netFn |-> p[i].netFn, cmd |-> p[i].cmd, data |-> p[i].data],
                      ans |-> Answer(p[i])])]
          BY <2>3, <3>4
      <4>2. p[i] = q
          BY <3>1, <3>2
      <4> QED
          BY <4>1, <4>2
    <3>6. e.req \in Wanted /\ q.data = e.req.data /\ q.data \in Seq(Byte)
        BY <3>1, <3>2, <3>3, WireMessages DEF Wanted
    <3>7. Answer(q) \in Answers
        BY <1>1, <3>6, AnswerTyped
    <3>8. CommandsTyped'
        BY <1>1, <3>5, <3>6, CommandsStay
    <3>9. PICK a \in Answers : a = Answer(q)
        BY <3>7
    <3>10. PICK h : h = [seq |-> e.seq, req |-> e.req, ans |-> a]
        OBVIOUS
    <3>11. Append(EscapeBytes(BuildResponse(q, a)), VMMsgChar) = AnswerBytes(h)
        BY <3>1, <3>2, <3>3, <3>10, Written
    <3>12. [seq |-> q.seq, req |-> [netFn |-> q.netFn, cmd |-> q.cmd, data |-> q.data], ans |-> Answer(q)] = h
      <4>1. e.req = [netFn |-> e.req.netFn, cmd |-> e.req.cmd, data |-> e.req.data]
          BY <3>6 DEF Wanted
      <4> QED
          BY <3>1, <3>2, <3>9, <3>10, <4>1
    <3>13. h \in Answered /\ Asked(h) = e
      <4>1. h \in Replied
          BY <3>3, <3>9, <3>10 DEF Replied
      <4> QED
          BY <3>3, <3>10, <4>1, Kinds DEF Answered, Asked
    <3>14. /\ pending' = [pending EXCEPT ![c] = AnswerBytes(h)]
           /\ handled' = [handled EXCEPT ![c] = Append(@, h)]
        BY <3>5, <3>9, <3>10, <3>11, <3>12
    <3> QED
        BY <1>3, <1>5, <1>6, <2>4, <3>8, <3>13, <3>14
  <2> QED
      BY <2>5, <2>6, <2>7 DEF SentMsgs
<1> QED
    BY <1>9, <1>10

\* A message read is one fewer on the way and one more noted.
LEMMA HandledKeeps ==
    ASSUME WireInv, NEW c \in Conns, Control(c) \/ Ipmi(c)
    PROVE  WireInv'
<1>1. /\ conn[c] # "closed" /\ pending[c] = <<>> /\ UNCHANGED <<outbound, conn, sent>>
    BY DEF Control, Ipmi, Arrived
<1>2. StreamsTyped
    BY DEF WireInv
<1>3. vmCaps' \in Byte /\ CommandsTyped'
    BY OneHandled
<1>4. PICK e \in SentMsgs, r \in Seq(SentMsgs), tail \in Seq(Byte) :
          /\ Flat(Sayings, sent[c]) = Seen(handled[c]) \o (Said(e) \o Flat(Sayings, r))
          /\ inbound' = [inbound EXCEPT ![c] = Flat(Wires, r) \o tail]
          /\ Plain(tail) /\ (conn[c] = "open" => tail = <<>>)
          /\ \/ Said(e) = <<>> /\ handled' = handled /\ pending' = pending
             \/ \E h \in Answered : /\ Asked(h) = e
                                    /\ handled' = [handled EXCEPT ![c] = Append(@, h)]
                                    /\ pending' = [pending EXCEPT ![c] = AnswerBytes(h)]
    BY OneHandled
<1>5. Flat(Wires, r) \o tail \in Seq(Byte) /\ inbound' \in [Conns -> Seq(Byte)]
      /\ inbound'[c] = Flat(Wires, r) \o tail
  <2>1. Flat(Wires, r) \in Seq(Byte)
      BY FlatStreams
  <2>2. Flat(Wires, r) \o tail \in Seq(Byte)
      BY <2>1
  <2> QED
      BY <1>2, <1>4, <2>2 DEF StreamsTyped
<1>6. PICK hs : hs = handled[c] /\ hs \in Seq(Answered)
    BY <1>2 DEF StreamsTyped
<1>7. Seen(hs) \in Seq(SentMsgs) /\ Flat(Sayings, r) \in Seq(SentMsgs)
    BY <1>6, SeenTyped, FlatStreams
<1>8. CASE Said(e) = <<>> /\ handled' = handled /\ pending' = pending
  <2>1. StreamsTyped'
      BY <1>1, <1>2, <1>3, <1>5, <1>8 DEF StreamsTyped
  <2>2. OnlyOf(c)
      BY <1>1, <1>2, <1>4, <1>8 DEF OnlyOf, StreamsTyped
  <2>3. Returned(c)'
      BY <1>1, <1>8 DEF WireInv, Returned
  <2>4. <<>> \o Flat(Sayings, r) = Flat(Sayings, r)
      BY <1>7, ConcatEmptySeq
  <2>5. OnTheWay(c)'
      BY <1>1, <1>4, <1>5, <1>8, <2>4 DEF OnTheWay
  <2>6. Received(c)'
      BY <1>1, <2>5 DEF Received
  <2> QED
      BY <1>3, <2>1, <2>2, <2>3, <2>6, OneConn
<1>9. CASE \E h \in Answered : /\ Asked(h) = e
                               /\ handled' = [handled EXCEPT ![c] = Append(@, h)]
                               /\ pending' = [pending EXCEPT ![c] = AnswerBytes(h)]
  <2>1. PICK h \in Answered : /\ Asked(h) = e
                              /\ handled' = [handled EXCEPT ![c] = Append(@, h)]
                              /\ pending' = [pending EXCEPT ![c] = AnswerBytes(h)]
      BY <1>9
  <2>2. PICK more \in Seq(Answered) : more = Append(hs, h)
    <3>1. Append(hs, h) \in Seq(Answered)
        BY <1>6
    <3> QED
        BY <3>1
  <2>3. handled'[c] = more /\ handled' = [handled EXCEPT ![c] = more] /\ pending'[c] = AnswerBytes(h)
      BY <1>2, <1>6, <2>1, <2>2 DEF StreamsTyped
  <2>4. AnswerBytes(h) \in Seq(Byte)
      BY FlatReplies
  <2>5. StreamsTyped'
      BY <1>1, <1>2, <1>3, <1>5, <2>1, <2>3, <2>4 DEF StreamsTyped
  <2>6. OnlyOf(c)
      BY <1>1, <1>2, <1>4, <2>1 DEF OnlyOf, StreamsTyped
  <2>7. Returned(c)'
    <3>1. Flat(Replies, more) = Flat(Replies, hs) \o AnswerBytes(h) /\ Flat(Replies, hs) \in Seq(Byte)
        BY <1>6, <2>2, FlatReplies
    <3>2. CASE conn[c] = "open"
      <4>1. outbound[c] \o pending[c] = Flat(Replies, hs)
          BY <1>6, <3>2 DEF WireInv, Returned
      <4>2. outbound[c] \o <<>> = outbound[c]
          BY <1>2, ConcatEmptySeq DEF StreamsTyped
      <4> QED
          BY <1>1, <2>3, <3>1, <3>2, <4>1, <4>2 DEF Returned
    <3>3. CASE conn[c] # "open"
      <4>1. IsPrefix(outbound[c], Flat(Replies, hs)) /\ outbound[c] \in Seq(Byte)
          BY <1>2, <1>6, <3>3 DEF WireInv, Returned, StreamsTyped
      <4>2. IsPrefix(outbound[c], Flat(Replies, hs) \o AnswerBytes(h))
          BY <2>4, <3>1, <4>1, StillPrefix
      <4> QED
          BY <1>1, <2>3, <3>1, <3>3, <4>2 DEF Returned
    <3> QED
        BY <3>2, <3>3
  <2>8. Flat(Sayings, sent[c]) = Seen(more) \o Flat(Sayings, r)
    <3>1. Seen(more) = Append(Seen(hs), e) /\ Said(e) = <<e>>
        BY <1>6, <2>1, <2>2, SeenTyped
    <3>2. PICK a \in Seq(SentMsgs), z \in Seq(SentMsgs) : a = Seen(hs) /\ z = Flat(Sayings, r)
        BY <1>7
    <3>3. <<e>> \in Seq(SentMsgs)
        BY <1>7, StreamsGrow
    <3>4. a \o (<<e>> \o z) = (a \o <<e>>) \o z /\ Append(a, e) = a \o <<e>>
        BY <3>3, ConcatAssociative, AppendIsConcat
    <3> QED
        BY <1>4, <1>6, <3>1, <3>2, <3>4
  <2>9. OnTheWay(c)'
      BY <1>1, <1>4, <1>5, <2>3, <2>8 DEF OnTheWay
  <2>10. Received(c)'
      BY <1>1, <2>9 DEF Received
  <2> QED
      BY <1>3, <2>5, <2>6, <2>7, <2>10, OneConn
<1> QED
    BY <1>4, <1>8, <1>9

\* An answer written was pending, or its connection is gone.
LEMMA WriteKeeps ==
    ASSUME WireInv, NEW c \in Conns, WriteAnswer(c)
    PROVE  WireInv'
<1>1. /\ outbound' = [outbound EXCEPT ![c] = IF conn[c] = "open" THEN @ \o pending[c] ELSE @]
      /\ pending' = [pending EXCEPT ![c] = <<>>]
      /\ UNCHANGED <<inbound, conn, vmCaps, sent, handled>>
      /\ UNCHANGED <<lanConfig, channelAccess, override>>
    BY DEF WriteAnswer, commandVars
<1>2. StreamsTyped
    BY DEF WireInv
<1>3. outbound[c] \in Seq(Byte) /\ pending[c] \in Seq(Byte) /\ outbound[c] \o pending[c] \in Seq(Byte)
    BY <1>2 DEF StreamsTyped
<1>4. <<>> \in Seq(Byte)
    OBVIOUS
<1>5. /\ outbound'[c] = IF conn[c] = "open" THEN outbound[c] \o pending[c] ELSE outbound[c]
      /\ pending'[c] = <<>>
    BY <1>1, <1>2 DEF StreamsTyped
<1>6. StreamsTyped'
    BY <1>1, <1>2, <1>3, <1>4 DEF StreamsTyped
<1>7. OnlyOf(c)
    BY <1>1, <1>2 DEF OnlyOf, StreamsTyped
<1>8. CommandsTyped'
    BY <1>1 DEF WireInv, CommandsTyped
<1>9. Received(c)'
    BY <1>1 DEF WireInv, Received, OnTheWay
<1>10. Returned(c)'
  <2>1. (outbound[c] \o pending[c]) \o <<>> = outbound[c] \o pending[c]
      BY <1>3, ConcatEmptySeq
  <2>2. CASE conn[c] = "open"
      BY <1>1, <1>5, <2>1, <2>2 DEF WireInv, Returned
  <2>3. CASE conn[c] # "open"
      BY <1>1, <1>5, <2>3 DEF WireInv, Returned
  <2> QED
      BY <2>2, <2>3
<1> QED
    BY <1>6, <1>7, <1>8, <1>9, <1>10, OneConn

\* The streams stay where only the settings change.
LEMMA WireStays ==
    ASSUME WireInv, UNCHANGED wireVars, CommandsTyped'
    PROVE  WireInv'
<1>1. UNCHANGED <<inbound, outbound, conn, pending, vmCaps, sent, handled>>
    BY DEF wireVars
<1>2. StreamsTyped'
    BY <1>1 DEF WireInv, StreamsTyped
<1>3. ASSUME NEW k \in Conns
      PROVE  Received(k)' /\ Returned(k)'
    BY <1>1, ConnStays DEF WireInv
<1> QED
    BY <1>2, <1>3 DEF WireInv

\* The other interfaces change the settings, as the commands do.
LEMMA ElsewhereKeeps ==
    ASSUME WireInv, Elsewhere
    PROVE  WireInv'
<1>1. CommandsTyped
    BY DEF WireInv
<1>2. CASE \E m \in Requests : Execute(m)
  <2>1. PICK m \in Requests : Execute(m)
      BY <1>2
  <2>2. m.data \in Seq(Byte)
      BY WireMessages DEF Wanted
  <2>3. CommandsTyped'
      BY <1>1, <2>1, <2>2, CommandsStay
  <2> QED
      BY <2>3, WireStays DEF Elsewhere
<1>3. CASE \E e \in {"Disabled", "Continuous"} :
               /\ override' = [override EXCEPT !.enabled = e, !.target = "None"]
               /\ UNCHANGED <<lanConfig, channelAccess>>
  <2>1. "None" \in DOMAIN Devices
      BY DEF Devices
  <2>2. CommandsTyped'
      BY <1>1, <1>3, <2>1 DEF CommandsTyped
  <2> QED
      BY <2>2, WireStays DEF Elsewhere
<1> QED
    BY <1>2, <1>3 DEF Elsewhere

\* Every step of a connection keeps the invariant, and it holds at the start.
LEMMA WireStep ==
    ASSUME WireInv, WireNext
    PROVE  WireInv'
<1>1. ASSUME NEW c \in Conns, SendRequest(c)
      PROVE  WireInv'
  <2>1. PICK m \in Requests : Send(c, RequestFrame(m, Tag(c)), [seq |-> Tag(c), req |-> m])
      BY <1>1 DEF SendRequest
  <2>2. Tag(c) \in Byte
    <3>1. Len(sent[c]) \in Nat /\ Len(sent[c]) <= MaxSent /\ MaxSent \in Nat /\ MaxSent <= 95
        BY WireAssumption, StreamAssumption DEF WireInv, StreamsTyped
    <3>2. \A n \in Nat : n <= 95 => 160 + n \in 0..255
        OBVIOUS
    <3>3. Len(sent[c]) <= 95
        BY <3>1
    <3> QED
        BY <3>1, <3>2, <3>3 DEF Tag, Byte
  <2>3. PICK n \in Byte : n = Tag(c)
      BY <2>2
  <2>4. PICK e : e = [seq |-> n, req |-> m]
      OBVIOUS
  <2>5. e \in Asks /\ e.req = m /\ e.seq = n
      BY <2>4 DEF Asks
  <2>6. Wire(e) = RequestFrame(m, n)
      BY <2>5, Kinds DEF Wire
  <2> QED
      BY <2>1, <2>3, <2>4, <2>5, <2>6, SendKeeps DEF SentMsgs
<1>2. ASSUME NEW c \in Conns, SendControl(c)
      PROVE  WireInv'
  <2>1. PICK s \in {Hello, Capabilities} : Send(c, Append(Escaped(s), 161), [ctl |-> s])
      BY <1>2 DEF SendControl
  <2>2. PICK e : e = [ctl |-> s]
      OBVIOUS
  <2>3. e \in Controls /\ e.ctl = s
      BY <2>2 DEF Controls
  <2>4. Wire(e) = Append(Escaped(s), 161)
      BY <2>3, Kinds DEF Wire
  <2> QED
      BY <2>1, <2>2, <2>3, <2>4, SendKeeps DEF SentMsgs
<1>3. ASSUME NEW c \in Conns, SendGarbage(c)
      PROVE  WireInv'
  <2>1. PICK s \in Garbage : Send(c, s, [junk |-> s])
      BY <1>3 DEF SendGarbage
  <2>2. PICK e : e = [junk |-> s]
      OBVIOUS
  <2>3. e \in Junk /\ e.junk = s
      BY <2>2 DEF Junk
  <2>4. Wire(e) = s
      BY <2>3, Kinds DEF Wire
  <2> QED
      BY <2>1, <2>2, <2>3, <2>4, SendKeeps DEF SentMsgs
<1> QED
    BY <1>1, <1>2, <1>3, CutKeeps, CloseKeeps, HandledKeeps, WriteKeeps, ElsewhereKeeps DEF WireNext

LEMMA WireStart ==
    ASSUME WireInit
    PROVE  WireInv
<1>1. CommandsTyped
  <2>1. /\ lanConfig = [p \in {1, 2, 3, 4, 5, 6, 12} |->
                        CASE p = 1 -> <<151>>
                          [] p = 2 -> <<20, 20, 20, 20, 0>>
                          [] p = 4 -> <<1>>
                          [] p = 5 -> <<0, 0, 0, 0, 0, 0>>
                          [] OTHER -> <<0, 0, 0, 0>>]
      BY DEF WireInit, CommandsInit
  <2>2. DOMAIN lanConfig = {1, 2, 3, 4, 5, 6, 12} /\ lanConfig[1] = <<151>>
      BY <2>1
  <2>3. {1, 2, 3, 4, 5, 6, 12} \subseteq supportedLANParams
      BY DEF supportedLANParams
  <2>4. /\ <<151>> \in Seq(Byte) /\ <<20, 20, 20, 20, 0>> \in Seq(Byte) /\ <<1>> \in Seq(Byte)
        /\ <<0, 0, 0, 0, 0, 0>> \in Seq(Byte) /\ <<0, 0, 0, 0>> \in Seq(Byte)
      BY DEF Byte
  <2>5. ASSUME NEW p \in DOMAIN lanConfig
        PROVE  lanConfig[p] \in Seq(Byte)
    <3>1. lanConfig[p] = CASE p = 1 -> <<151>>
                          [] p = 2 -> <<20, 20, 20, 20, 0>>
                          [] p = 4 -> <<1>>
                          [] p = 5 -> <<0, 0, 0, 0, 0, 0>>
                          [] OTHER -> <<0, 0, 0, 0>>
        BY <2>1, <2>2
    <3> QED
        BY <2>4, <3>1
  <2>6. channelAccess \in [0..15 -> [mode: 0..7, userAuth: BOOLEAN, msgAuth: BOOLEAN,
                                     alerting: BOOLEAN, limit: 0..15]]
    <3>1. channelAccess = [ch \in 0..15 |->
                            [mode |-> IF ch = 1 THEN 2 ELSE 0, userAuth |-> ch = 1,
                             msgAuth |-> ch = 1, alerting |-> FALSE,
                             limit |-> IF ch = 1 THEN 4 ELSE 0]]
        BY DEF WireInit, CommandsInit
    <3>2. \A ch \in 0..15 : (IF ch = 1 THEN 2 ELSE 0) \in 0..7 /\ (IF ch = 1 THEN 4 ELSE 0) \in 0..15
        OBVIOUS
    <3> QED
        BY <3>1, <3>2
  <2>7. override \in [enabled: {"Disabled", "Once", "Continuous"}, target: DOMAIN Devices,
                      mode: {"UEFI", "Legacy"}]
      BY DEF WireInit, CommandsInit, Devices
  <2> QED
      BY <2>2, <2>3, <2>5, <2>6, <2>7 DEF CommandsTyped
<1>2. /\ inbound = [c \in Conns |-> <<>>] /\ outbound = [c \in Conns |-> <<>>]
      /\ conn = [c \in Conns |-> "open"] /\ pending = [c \in Conns |-> <<>>] /\ vmCaps = 0
      /\ sent = [c \in Conns |-> <<>>] /\ handled = [c \in Conns |-> <<>>]
    BY DEF WireInit
<1>3. /\ <<>> \in Seq(Byte) /\ <<>> \in Seq(SentMsgs) /\ <<>> \in Seq(Answered)
      /\ Len(<<>>) = 0
    OBVIOUS
<1>4. 0 \in Byte
    BY DEF Byte
<1>5. StreamsTyped
    BY <1>2, <1>3, <1>4, WireAssumption DEF StreamsTyped
<1>6. ASSUME NEW c \in Conns
      PROVE  Received(c) /\ Returned(c)
  <2>1. <<>> \o <<>> = <<>>
      BY <1>3, ConcatEmptySeq
  <2>2. Plain(<<>>)
      BY <1>3 DEF Plain
  <2>3. OnTheWay(c)
      BY <1>2, <1>3, <2>1, <2>2, FlatStreams, SeenTyped DEF OnTheWay
  <2>4. Returned(c)
      BY <1>2, <2>1, FlatReplies DEF Returned
  <2> QED
      BY <1>2, <2>3, <2>4 DEF Received
<1> QED
    BY <1>1, <1>5, <1>6 DEF WireInv

\* What the properties say follows.
LEMMA Follows ==
    ASSUME WireInv
    PROVE  HandledAsSent /\ AnswersInOrder /\ WireTypeOK
<1>1. StreamsTyped /\ CommandsTyped
    BY DEF WireInv
<1>2. ASSUME NEW s \in Seq(SentMsgs)
      PROVE  Messages(s) = Flat(Sayings, s)
  <2>1. [i \in DOMAIN s |-> IF "junk" \in DOMAIN s[i] THEN <<>> ELSE <<s[i]>>] = [i \in DOMAIN s |-> Sayings[s[i]]]
    <3>1. \A i \in DOMAIN s : s[i] \in SentMsgs
        OBVIOUS
    <3> QED
        BY <3>1 DEF Sayings, Said
  <2> QED
      BY <2>1 DEF Messages, Flat
<1>3. ASSUME NEW s \in Seq(Answered)
      PROVE  FlattenSeq([i \in DOMAIN s |-> AnswerBytes(s[i])]) = Flat(Replies, s)
  <2>1. [i \in DOMAIN s |-> AnswerBytes(s[i])] = [i \in DOMAIN s |-> Replies[s[i]]]
    <3>1. \A i \in DOMAIN s : s[i] \in Answered
        OBVIOUS
    <3> QED
        BY <3>1 DEF Replies
  <2> QED
      BY <2>1 DEF Flat
<1>4. AnswersInOrder
  <2>1. ASSUME NEW c \in Conns
        PROVE  FlattenSeq([i \in DOMAIN handled[c] |-> AnswerBytes(handled[c][i])]) = Flat(Replies, handled[c])
    <3>1. PICK s \in Seq(Answered) : s = handled[c]
        BY <1>1 DEF StreamsTyped
    <3> QED
        BY <1>3, <3>1
  <2>2. \A c \in Conns : Returned(c)
      BY DEF WireInv
  <2> QED
      BY <2>1, <2>2 DEF AnswersInOrder, Returned
<1>5. HandledAsSent
  <2> SUFFICES ASSUME NEW c \in Conns
               PROVE  /\ IsPrefix(Seen(handled[c]), Messages(sent[c]))
                      /\ conn[c] = "open" /\ inbound[c] = <<>> => Seen(handled[c]) = Messages(sent[c])
      BY DEF HandledAsSent, Seen
  <2>1. Messages(sent[c]) = Flat(Sayings, sent[c])
      BY <1>1, <1>2 DEF StreamsTyped
  <2>2. CASE conn[c] = "closed"
      BY <2>1, <2>2 DEF WireInv, Received
  <2>3. CASE conn[c] # "closed"
    <3>1. PICK rest \in Seq(SentMsgs), tail \in Seq(Byte) :
              /\ Flat(Sayings, sent[c]) = Seen(handled[c]) \o Flat(Sayings, rest)
              /\ inbound[c] = Flat(Wires, rest) \o tail
        BY <2>3 DEF WireInv, Received, OnTheWay
    <3>2. Seen(handled[c]) \in Seq(SentMsgs) /\ Flat(Sayings, rest) \in Seq(SentMsgs)
        BY <1>1, SeenTyped, FlatStreams DEF StreamsTyped
    <3>3. IsPrefix(Seen(handled[c]), Flat(Sayings, sent[c]))
        BY <3>1, <3>2, FirstPart
    <3>4. ASSUME inbound[c] = <<>>
          PROVE  rest = <<>>
      <4>1. SUFFICES ASSUME rest # <<>>
                     PROVE  FALSE
          OBVIOUS
      <4>2. PICK e \in SentMsgs, r \in Seq(SentMsgs) : rest = <<e>> \o r
        <5>1. Head(rest) \in SentMsgs /\ Tail(rest) \in Seq(SentMsgs) /\ rest = <<Head(rest)>> \o Tail(rest)
            BY <4>1
        <5> QED
            BY <5>1
      <4>3. PICK x \in Seq(Byte), y \in Seq(Byte) : x = Wire(e) /\ y = Flat(Wires, r) /\ Len(x) # 0
        <5>1. Wire(e) \in Seq(Byte) /\ Len(Wire(e)) # 0
            BY StreamsGrow, Streams
        <5>2. Flat(Wires, r) \in Seq(Byte)
            BY FlatStreams
        <5> QED
            BY <5>1, <5>2
      <4>4. inbound[c] = (x \o y) \o tail
          BY <3>1, <4>2, <4>3, StreamsGrow
      <4>5. Len((x \o y) \o tail) = Len(x) + Len(y) + Len(tail) /\ Len(x) > 0 /\ Len(y) >= 0 /\ Len(tail) >= 0
          BY <4>3
      <4>6. Len(<<>>) = 0
          OBVIOUS
      <4> QED
          BY <3>4, <4>4, <4>5, <4>6
    <3>5. ASSUME inbound[c] = <<>>
          PROVE  Seen(handled[c]) = Flat(Sayings, sent[c])
      <4>1. Flat(Sayings, rest) = <<>>
          BY <3>4, <3>5, FlatStreams
      <4>2. Seen(handled[c]) \o <<>> = Seen(handled[c])
          BY <3>2, ConcatEmptySeq
      <4> QED
          BY <3>1, <4>1, <4>2
    <3> QED
        BY <2>1, <3>3, <3>5
  <2> QED
      BY <2>2, <2>3
<1>6. WireTypeOK
  <2>1. \A s \in Seq(Byte) : \A i \in DOMAIN s : s[i] \in Byte
      OBVIOUS
  <2>2. ASSUME NEW c \in Conns
        PROVE  \A s \in {inbound[c], outbound[c], pending[c]} : s \in Seq(Byte)
      BY <1>1 DEF StreamsTyped
  <2> QED
      BY <1>1, <2>1, <2>2 DEF WireTypeOK, CommandsTyped, StreamsTyped
<1> QED
    BY <1>4, <1>5, <1>6

-----------------------------------------------------------------------------
(* The message streams, together                                           *)

\* The steps of consoles change no stream.
LEMMA WireInvariant == ServersSpec => []WireInv
<1>1. ServersInit => WireInv
    BY WireStart DEF ServersInit
<1>2. WireInv /\ [ServersNext]_ipmiVars => WireInv'
  <2> SUFFICES ASSUME WireInv, [ServersNext]_ipmiVars
               PROVE  WireInv'
      OBVIOUS
  <2>1. CASE inUse = "vm" /\ WireNext
      BY <2>1, WireStep
  <2>2. CASE UNCHANGED <<wireVars, commandVars>>
    <3>1. CommandsTyped'
        BY <2>2 DEF WireInv, CommandsTyped, commandVars
    <3> QED
        BY <2>2, <3>1, WireStays
  <2> QED
      BY <2>1, <2>2 DEF ServersNext, ipmiVars
<1> QED
    BY <1>1, <1>2, PTL DEF ServersSpec

\* The variables of a connection and of the commands have their types: what arrives, and
\* what is written, are bytes (VMServer, handleConn, SetLANConfigParam, SetBootOverride).
THEOREM WireTyped == ServersSpec => []WireTypeOK
<1>1. WireInv => WireTypeOK
    BY Follows
<1> QED
    BY <1>1, WireInvariant, PTL

\* The VM server handles the messages that QEMU sent on a connection, each once and in
\* their order, with the contents that QEMU gave them, and all of them once it has read
\* what there is: ReadMessage splits the stream, vmUnescapeBytes restores the bytes, and
\* vmParseIPMIRequest takes them apart, around whatever is no message.
THEOREM MessagesHandled == ServersSpec => []HandledAsSent
<1>1. WireInv => HandledAsSent
    BY Follows
<1> QED
    BY <1>1, WireInvariant, PTL

\* What QEMU reads on a connection is an answer to each message handled, in the same order,
\* under its sequence number, with the bytes it has to read (handleIPMIMsg,
\* vmBuildIPMIResponse, vmEscapeBytes, WriteMessage).
THEOREM AnswersOrdered == ServersSpec => []AnswersInOrder
<1>1. WireInv => AnswersInOrder
    BY Follows
<1> QED
    BY <1>1, WireInvariant, PTL
=============================================================================
