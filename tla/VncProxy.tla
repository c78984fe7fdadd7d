------------------------------ MODULE VncProxy ------------------------------
(***************************************************************************)
(* The noVNC proxy (internal/novnc, handler.go).  Each viewer has a        *)
(* handler, which starts two goroutines that copy between the viewer's     *)
(* WebSocket and QEMU's VNC server, and waits for the first of them to     *)
(* end.  Either end may go away, or fall silent, at any time.              *)
(***************************************************************************)
EXTENDS Naturals

CONSTANT Viewers

VARIABLES handler,   \* where each viewer's ServeWebSocket is
          ws, vnc,   \* its two connections
          copier,    \* its two goroutines, "down" from VNC and "up" to VNC
          done       \* how many messages its channel holds

vncVars == <<handler, ws, vnc, copier, done>>

Directions == {"down", "up"}

DoneCapacity == 2

VncInit ==
    /\ handler = [v \in Viewers |-> "idle"]
    /\ ws = [v \in Viewers |-> "none"]
    /\ vnc = [v \in Viewers |-> "none"]
    /\ copier = [v \in Viewers |-> [d \in Directions |-> "none"]]
    /\ done = [v \in Viewers |-> 0]

HandlerAt(v, p) == handler[v] = p
HandlerGoto(v, p) == handler' = [handler EXCEPT ![v] = p]

-----------------------------------------------------------------------------
(* ServeWebSocket                                                          *)

Upgrade(v) ==
    /\ HandlerAt(v, "idle")
    /\ ws' = [ws EXCEPT ![v] = "open"]
    /\ HandlerGoto(v, "dial")
    /\ UNCHANGED <<vnc, copier, done>>

StartCopiers(v) == copier' = [copier EXCEPT ![v] = [d \in Directions |-> "read"]]

\* The close message that tells the viewer so is left out.
DialFails(v) ==
    /\ HandlerAt(v, "dial")
    /\ HandlerGoto(v, "close_ws")
    /\ UNCHANGED <<ws, vnc, copier, done>>

Dial(v) ==
    /\ HandlerAt(v, "dial")
    /\ vnc' = [vnc EXCEPT ![v] = "open"]
    /\ StartCopiers(v)
    /\ HandlerGoto(v, "serve")
    /\ UNCHANGED <<ws, done>>

\* <-done
FirstDone(v) ==
    /\ HandlerAt(v, "serve") /\ done[v] > 0
    /\ done' = [done EXCEPT ![v] = @ - 1]
    /\ HandlerGoto(v, "close_vnc")
    /\ UNCHANGED <<ws, vnc, copier>>

\* The deferred calls, last one first.
CloseVnc(v) ==
    /\ HandlerAt(v, "close_vnc")
    /\ vnc' = [vnc EXCEPT ![v] = "closed"]
    /\ HandlerGoto(v, "close_ws")
    /\ UNCHANGED <<ws, copier, done>>

CloseWs(v) ==
    /\ HandlerAt(v, "close_ws")
    /\ ws' = [ws EXCEPT ![v] = "closed"]
    /\ HandlerGoto(v, "returned")
    /\ UNCHANGED <<vnc, copier, done>>

-----------------------------------------------------------------------------
(* The goroutines                                                          *)

CopierAt(v, d, p) == copier[v][d] = p
CopierGoto(v, d, p) ==
    /\ copier' = [copier EXCEPT ![v][d] = p]
    /\ UNCHANGED <<handler, ws, vnc>>

Source(v, d) == IF d = "down" THEN vnc[v] ELSE ws[v]
Sink(v, d) == IF d = "down" THEN ws[v] ELSE vnc[v]

\* Data arrives and is taken by the other end as long as that is there and willing.
Read(v, d) == CopierAt(v, d, "read") /\ Source(v, d) = "open" /\ CopierGoto(v, d, "write") /\ UNCHANGED done
Write(v, d) == CopierAt(v, d, "write") /\ Sink(v, d) = "open" /\ CopierGoto(v, d, "read") /\ UNCHANGED done

\* A connection the peer has left, or the handler has closed, gives an error.
ReadFails(v, d) ==
    CopierAt(v, d, "read") /\ Source(v, d) # "open" /\ CopierGoto(v, d, "end") /\ UNCHANGED done
WriteFails(v, d) ==
    CopierAt(v, d, "write") /\ Sink(v, d) # "open" /\ CopierGoto(v, d, "end") /\ UNCHANGED done

\* Variant: a channel without a buffer; the message needs its receiver.
SendDoneUnbuffered(v, d) ==
    /\ CopierAt(v, d, "end") /\ HandlerAt(v, "serve") /\ done[v] = 0
    /\ done' = [done EXCEPT ![v] = @ + 1]
    /\ CopierGoto(v, d, "ended")

\* The deferred send.
SendDone(v, d) ==
    /\ CopierAt(v, d, "end") /\ done[v] < DoneCapacity
    /\ done' = [done EXCEPT ![v] = @ + 1]
    /\ CopierGoto(v, d, "ended")

-----------------------------------------------------------------------------
(* The other ends                                                          *)

ViewerLeaves(v) ==
    /\ ws[v] = "open"
    /\ ws' = [ws EXCEPT ![v] = "left"]
    /\ UNCHANGED <<handler, vnc, copier, done>>

QemuLeaves(v) ==
    /\ vnc[v] = "open"
    /\ vnc' = [vnc EXCEPT ![v] = "left"]
    /\ UNCHANGED <<handler, ws, copier, done>>

HandlerStep(v) == DialFails(v) \/ Dial(v) \/ FirstDone(v) \/ CloseVnc(v) \/ CloseWs(v)
CopierEnds(v, d) == ReadFails(v, d) \/ WriteFails(v, d) \/ SendDone(v, d)
CopierStep(v, d) == Read(v, d) \/ Write(v, d) \/ CopierEnds(v, d)

VncNext ==
    \E v \in Viewers :
        \/ Upgrade(v) \/ HandlerStep(v) \/ ViewerLeaves(v) \/ QemuLeaves(v)
        \/ \E d \in Directions : CopierStep(v, d)

\* Calls that can return do.  An end that is there need not send anything; it does
\* take what it is sent, for no write has a deadline.
VncFairness ==
    \A v \in Viewers :
        /\ WF_vncVars(HandlerStep(v))
        /\ \A d \in Directions : WF_vncVars(CopierEnds(v, d) \/ Write(v, d))

VncSpec == VncInit /\ [][VncNext]_vncVars /\ VncFairness

-----------------------------------------------------------------------------
(***************************************************************************)
(* Properties                                                              *)
(***************************************************************************)

\* No goroutine copies without two connections, and the channel never makes a
\* goroutine wait (ServeWebSocket).
VncTypeOK ==
    \A v \in Viewers :
        /\ handler[v] \in {"idle", "dial", "serve", "close_vnc", "close_ws", "returned"}
        /\ ws[v] \in {"none", "open", "left", "closed"}
        /\ vnc[v] \in {"none", "open", "left", "closed"}
        /\ \A d \in Directions :
               /\ copier[v][d] \in {"none", "read", "write", "end", "ended"}
               /\ copier[v][d] # "none" => ws[v] # "none" /\ vnc[v] # "none"
               /\ copier[v][d] = "end" => done[v] < DoneCapacity

ProxyGone(v) ==
    /\ HandlerAt(v, "returned")
    /\ ws[v] = "closed" /\ vnc[v] # "open"
    /\ \A d \in Directions : copier[v][d] \in {"none", "ended"}

\* When either end goes away the handler returns, both goroutines end and both
\* connections are closed, though the other end may never send again (ServeWebSocket).
ProxyEnds ==
    \A v \in Viewers : (ws[v] = "left" \/ vnc[v] = "left") ~> ProxyGone(v)
=============================================================================
