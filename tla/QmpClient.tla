------------------------------ MODULE QmpClient ------------------------------
(***************************************************************************)
(* The QMP client (internal/qmp/client.go) against the monitor sockets of  *)
(* the QEMU processes of QemuProcess.                                      *)
(*                                                                         *)
(* One connection, one mutex, held for a whole exchange: a command is      *)
(* written and its answer read before the next caller gets in.  Nothing    *)
(* bounds the read, so a QEMU that stops answering keeps the mutex taken.  *)
(* The client is not told when QEMU exits: connected stays true until the  *)
(* next Connect, and commands fail on the dead connection.                 *)
(***************************************************************************)
EXTENDS QemuProcess

CONSTANTS Hangs,       \* bound: the generations whose monitor may stop answering
          BootStates,  \* run states a QEMU may come up in
          NoShutdown   \* whether QEMU outlives its guest (-no-shutdown)

VARIABLES conn,       \* generation c.conn is connected to, 0 for nil
          connected,  \* c.connected
          guest,      \* run state each QEMU reports
          hung,       \* generations that have stopped answering
          qmp         \* each caller's frame in the client

qmpVars == <<conn, connected, guest, hung, qmp>>

Commands == {"query-status", "system_powerdown", "system_reset", "quit"}
RunStates == {"running", "paused", "shutdown"}

ASSUME BootAssumption == BootStates \subseteq RunStates

QmpFrame == [cmd: Commands \cup {"none", "connect"}, at: {"idle", "reply", "greet", "done"},
             res: {"ok", "err"} \cup RunStates, peer: Gen0]

\* peer: the QEMU that answered, for the properties to tell.
Exchange(c, at, r) == [cmd |-> c, at |-> at, res |-> r, peer |-> 0]

NoExchange == Exchange("none", "idle", "ok")

QmpInit ==
    /\ conn = 0
    /\ connected = FALSE
    /\ guest \in [Gen -> BootStates]
    /\ hung = {}
    /\ qmp = [t \in Callers |-> NoExchange]

\* c.mu: held by the caller that waits for an answer.
QmpFree == \A t \in Callers : qmp[t].at \notin {"reply", "greet"}

QmpReturned(t) == qmp[t].at = "done"

\* The other end of the connection is there / is there and answers.
PeerUp == conn \in Gen /\ proc[conn] = "up"
PeerAnswers == PeerUp /\ conn \notin hung

QmpDone(t, r) ==
    qmp' = [qmp EXCEPT ![t] = [Exchange(@.cmd, "done", r) EXCEPT !.peer = conn]]

QmpReturn(t) == QmpReturned(t) /\ qmp' = [qmp EXCEPT ![t] = NoExchange]

-----------------------------------------------------------------------------
(* execute and executeWithResponse                                         *)

\* ErrNotConnected, or the write to (the read from) a dead QEMU fails.
ExecuteFails(t, c) ==
    /\ qmp[t].at = "idle"
    /\ QmpFree
    /\ ~connected \/ ~PeerUp
    /\ qmp' = [qmp EXCEPT ![t] = Exchange(c, "done", "err")]
    /\ UNCHANGED <<conn, connected, guest, hung, sig>>

ExecuteSends(t, c) ==
    /\ qmp[t].at = "idle"
    /\ QmpFree
    /\ connected
    /\ PeerUp
    /\ qmp' = [qmp EXCEPT ![t] = Exchange(c, "reply", "ok")]
    /\ UNCHANGED <<conn, connected, guest, hung, sig>>

Execute(t, c) == ExecuteFails(t, c) \/ ExecuteSends(t, c)

\* QEMU carries the command out and answers; events in between are skipped.
ExecuteReply(t) ==
    /\ qmp[t].at = "reply"
    /\ PeerAnswers
    /\ QmpDone(t, IF qmp[t].cmd = "query-status" THEN guest[conn] ELSE "ok")
    /\ sig' = IF qmp[t].cmd = "quit" THEN Signalled(conn, "quit") ELSE sig
    /\ UNCHANGED <<conn, connected, guest, hung>>

\* QEMU ended before it answered; connected stays as it is.
ExecuteEof(t) ==
    /\ qmp[t].at = "reply"
    /\ ~PeerUp
    /\ QmpDone(t, "err")
    /\ UNCHANGED <<conn, connected, guest, hung, sig>>

-----------------------------------------------------------------------------
(* Connect: drop the old connection, dial, read the greeting, negotiate    *)
(* capabilities; all under the mutex.                                      *)

\* Nobody listens: no QEMU, or its socket is not there yet.
ConnectRefused(t) ==
    /\ qmp[t].at = "idle"
    /\ QmpFree
    /\ conn' = 0
    /\ connected' = FALSE
    /\ qmp' = [qmp EXCEPT ![t] = Exchange("connect", "done", "err")]
    /\ UNCHANGED <<guest, hung, sig>>

\* Variant: the mutex is not taken.
ConnectDialsUnlocked(t) ==
    /\ qmp[t].at = "idle"
    /\ conn' \in {g \in Gen : proc[g] = "up"}
    /\ connected' = FALSE
    /\ qmp' = [qmp EXCEPT ![t] = Exchange("connect", "greet", "ok")]
    /\ UNCHANGED <<guest, hung, sig>>

ConnectDials(t) ==
    /\ qmp[t].at = "idle"
    /\ QmpFree
    /\ conn' \in {g \in Gen : proc[g] = "up"}
    /\ connected' = FALSE
    /\ qmp' = [qmp EXCEPT ![t] = Exchange("connect", "greet", "ok")]
    /\ UNCHANGED <<guest, hung, sig>>

Connect(t) == ConnectRefused(t) \/ ConnectDials(t)

ConnectReady(t) ==
    /\ qmp[t].at = "greet"
    /\ PeerAnswers
    /\ connected' = TRUE
    /\ QmpDone(t, "ok")
    /\ UNCHANGED <<conn, guest, hung, sig>>

ConnectEof(t) ==
    /\ qmp[t].at = "greet"
    /\ ~PeerUp
    /\ conn' = 0
    /\ QmpDone(t, "err")
    /\ UNCHANGED <<connected, guest, hung, sig>>

\* The holder of the mutex gets its answer, or sees the connection end.
QmpAnswer(t) == ExecuteReply(t) \/ ExecuteEof(t) \/ ConnectReady(t) \/ ConnectEof(t)

-----------------------------------------------------------------------------
(* QEMU's side                                                             *)

QemuHangs(g) ==
    /\ g \in Hangs
    /\ proc[g] = "up"
    /\ g \notin hung
    /\ hung' = hung \cup {g}
    /\ UNCHANGED <<conn, connected, guest, qmp>>

\* With -no-shutdown a guest that powers off leaves its QEMU behind.
GuestPowersOff(g) ==
    /\ NoShutdown
    /\ proc[g] = "up"
    /\ guest[g] = "running"
    /\ guest' = [guest EXCEPT ![g] = "shutdown"]
    /\ UNCHANGED <<conn, connected, hung, qmp>>

QmpTypeOK ==
    /\ conn \in Gen0
    /\ connected \in BOOLEAN
    /\ guest \in [Gen -> RunStates]
    /\ hung \in SUBSET Gen
    /\ qmp \in [Callers -> QmpFrame]
=============================================================================
