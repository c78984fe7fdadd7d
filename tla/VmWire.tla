------------------------------- MODULE VmWire -------------------------------
(***************************************************************************)
(* The VM IPMI server (internal/ipmi, vm_server.go and vm_protocol.go):    *)
(* QEMUs send control commands and IPMI requests over TCP, as escaped      *)
(* bytes that a terminator ends, and one goroutine per connection answers  *)
(* them in order.  Commands come from other interfaces too, and a          *)
(* connection may end in the middle of a message.                          *)
(***************************************************************************)
EXTENDS IpmiCommands, SequencesExt

CONSTANTS Conns,       \* connections of QEMUs
          Requests,    \* the IPMI requests the guests make: [netFn, cmd, data]
          Garbage,     \* frames that hold no message
          Fragments,   \* the beginnings of frames after which a connection may end
          MaxSent      \* bound on the messages of one connection

VARIABLES inbound,   \* bytes on the way to the BMC
          outbound,  \* bytes sent by the BMC
          conn,      \* "open", "cut" by QEMU, or "closed" by the handler
          pending,   \* what the handler is about to write
          vmCaps,    \* VMServer.vmCaps
          sent,      \* the messages sent on each connection, in order
          handled    \* those handled and answered, each with its answer

wireVars == <<inbound, outbound, conn, pending, vmCaps, sent, handled>>

ASSUME WireAssumption ==
    /\ MaxSent \in Nat
    /\ Requests \subseteq [netFn: 0..63, cmd: Byte, data: Seq(Byte)]

-----------------------------------------------------------------------------
(* Framing                                                                 *)

VMMsgChar == 160
VMCmdChar == 161
VMEscapeChar == 170
Terminators == {VMMsgChar, VMCmdChar}

Or16(b) == IF Bit(b, 16) THEN b ELSE b + 16
AndNot16(b) == IF Bit(b, 16) THEN b - 16 ELSE b

\* Variant: the escape character itself is not escaped.
EscapeBytesTerminators(s) ==
    FlattenSeq([i \in DOMAIN s |-> IF s[i] \in Terminators THEN <<VMEscapeChar, Or16(s[i])>> ELSE <<s[i]>>])

EscapeBytes(s) ==
    FlattenSeq([i \in DOMAIN s |->
        IF s[i] \in Terminators \cup {VMEscapeChar} THEN <<VMEscapeChar, Or16(s[i])>> ELSE <<s[i]>>])

\* Variant: the escape is dropped and the byte after it taken as it is.
UnescapeStepPlain(r, b) ==
    IF r.esc THEN [bytes |-> Append(r.bytes, b), esc |-> FALSE]
    ELSE IF b = VMEscapeChar THEN [r EXCEPT !.esc = TRUE]
    ELSE [r EXCEPT !.bytes = Append(@, b)]

\* esc: the last byte was an escape whose byte is still to come.
UnescapeStep(r, b) ==
    IF r.esc THEN [bytes |-> Append(r.bytes, AndNot16(b)), esc |-> FALSE]
    ELSE IF b = VMEscapeChar THEN [r EXCEPT !.esc = TRUE]
    ELSE [r EXCEPT !.bytes = Append(@, b)]

UnescapeBytes(s) == FoldLeft(UnescapeStep, [bytes |-> <<>>, esc |-> FALSE], s)

Total(s) == FoldLeft(LAMBDA a, b : a + b, 0, s) % 256

Checksum(s) == (256 - Total(s)) % 256

\* What ends at the first terminator, and what follows it.
Terminated(s) == \E i \in DOMAIN s : s[i] \in Terminators
End(s) == SelectInSeq(s, LAMBDA b : b \in Terminators)

\* vmBuildIPMIResponse
BuildResponse(r, a) ==
    LET body == <<r.seq, 4 * (r.netFn + 1 - (r.netFn % 2)) + r.lun, r.cmd, a.code>> \o a.data
    IN  Append(body, Checksum(body))

\* vmParseIPMIRequest; <<>> is a refusal.
ParseRequest(s) ==
    IF Len(s) < 4 \/ Total(s) # 0 THEN <<>>
    ELSE <<[seq |-> s[1], netFn |-> s[2] \div 4, lun |-> s[2] % 4, cmd |-> s[3],
            data |-> SubSeq(s, 4, Len(s) - 1)]>>

VMCmdNoAttn == 0
VMCmdCapabilities == 8
VMCmdVersion == 255

\* A frame without a message: an escape and nothing to escape, no command, a request refused.
Empty(s, terminator) ==
    LET r == UnescapeBytes(s)
    IN  r.esc \/ IF terminator = VMCmdChar THEN r.bytes = <<>> ELSE ParseRequest(r.bytes) = <<>>

\* Requests have even function numbers; a frame ends at its first terminator, and what
\* a cut connection leaves has none; a connection's sequence numbers fit a byte.
ASSUME StreamAssumption ==
    /\ MaxSent <= 95
    /\ \A m \in Requests : m.netFn % 2 = 0
    /\ \A g \in Garbage :
           /\ g \in Seq(Byte) /\ g # <<>>
           /\ \A i \in DOMAIN g : g[i] \in Terminators <=> i = Len(g)
           /\ Empty(SubSeq(g, 1, Len(g) - 1), g[Len(g)])
    /\ \A f \in Fragments : f \in Seq(Byte) /\ ~Terminated(f)

-----------------------------------------------------------------------------
(* QEMU                                                                    *)

\* The wire format as QEMU writes it.
Escaped(s) == FlattenSeq([i \in DOMAIN s |-> IF s[i] \in {160, 161, 170} THEN <<170, s[i] + 16>> ELSE <<s[i]>>])
ToZero(s) == CHOOSE k \in Byte : (Total(s) + k) % 256 = 0

RequestFrame(m, n) ==
    LET body == <<n, 4 * m.netFn, m.cmd>> \o m.data
    IN  Append(Escaped(Append(body, ToZero(body))), 160)

Hello == <<VMCmdVersion, 1>>
Capabilities == <<VMCmdCapabilities, 63>>

WireInit ==
    /\ CommandsInit
    /\ inbound = [c \in Conns |-> <<>>]
    /\ outbound = [c \in Conns |-> <<>>]
    /\ conn = [c \in Conns |-> "open"]
    /\ pending = [c \in Conns |-> <<>>]
    /\ vmCaps = 0
    /\ sent = [c \in Conns |-> <<>>]
    /\ handled = [c \in Conns |-> <<>>]

\* The sequence number of the next request.
Tag(c) == 160 + Len(sent[c])

Send(c, bytes, m) ==
    /\ conn[c] = "open" /\ Len(sent[c]) < MaxSent
    /\ inbound' = [inbound EXCEPT ![c] = @ \o bytes]
    /\ sent' = [sent EXCEPT ![c] = Append(@, m)]
    /\ UNCHANGED <<outbound, conn, pending, vmCaps, handled, commandVars>>

SendRequest(c) == \E m \in Requests : Send(c, RequestFrame(m, Tag(c)), [seq |-> Tag(c), req |-> m])
SendControl(c) ==
    \E s \in {Hello, Capabilities} : Send(c, Append(Escaped(s), 161), [ctl |-> s])
SendGarbage(c) == \E s \in Garbage : Send(c, s, [junk |-> s])

\* The connection ends after some of a message's bytes.
Cut(c) ==
    /\ conn[c] = "open"
    /\ \E f \in Fragments : inbound' = [inbound EXCEPT ![c] = @ \o f]
    /\ conn' = [conn EXCEPT ![c] = "cut"]
    /\ UNCHANGED <<outbound, pending, vmCaps, sent, handled, commandVars>>

-----------------------------------------------------------------------------
(* HandleConnection                                                        *)

\* The handler's goroutine is reading, and a message has arrived: its terminator,
\* its bytes without the escapes.
Arrived(c) == conn[c] # "closed" /\ pending[c] = <<>> /\ Terminated(inbound[c])
Terminator(c) == inbound[c][End(inbound[c])]
Frame(c) == UnescapeBytes(SubSeq(inbound[c], 1, End(inbound[c]) - 1))
Taken(c) ==
    inbound' = [inbound EXCEPT ![c] = SubSeq(@, End(@) + 1, Len(@))]

\* An escape with nothing to escape ends the connection.
ReadFails(c) ==
    /\ Arrived(c) /\ Frame(c).esc
    /\ conn' = [conn EXCEPT ![c] = "closed"]
    /\ Taken(c)
    /\ UNCHANGED <<outbound, pending, vmCaps, sent, handled, commandVars>>

\* End of file: what has been read of an unfinished message is dropped.
ReadEof(c) ==
    /\ conn[c] = "cut" /\ pending[c] = <<>> /\ ~Terminated(inbound[c])
    /\ conn' = [conn EXCEPT ![c] = "closed"]
    /\ inbound' = [inbound EXCEPT ![c] = <<>>]
    /\ UNCHANGED <<outbound, pending, vmCaps, sent, handled, commandVars>>

\* handleControlCommand; only capabilities are answered.
Control(c) ==
    /\ Arrived(c) /\ ~Frame(c).esc /\ Terminator(c) = VMCmdChar
    /\ Taken(c)
    /\ LET s == Frame(c).bytes
           caps == s # <<>> /\ s[1] = VMCmdCapabilities
       IN  /\ vmCaps' = IF ~caps THEN vmCaps ELSE IF Len(s) > 1 THEN s[2] ELSE 0
           /\ pending' = [pending EXCEPT ![c] = IF caps THEN Append(EscapeBytes(<<VMCmdNoAttn>>), VMCmdChar) ELSE <<>>]
           /\ handled' = [handled EXCEPT ![c] = IF s = <<>> THEN @ ELSE Append(@, [ctl |-> s])]
    /\ UNCHANGED <<outbound, conn, sent, commandVars>>

\* handleIPMIMsg, up to the write of the answer.
Ipmi(c) ==
    /\ Arrived(c) /\ ~Frame(c).esc /\ Terminator(c) = VMMsgChar
    /\ Taken(c)
    /\ \/ /\ ParseRequest(Frame(c).bytes) = <<>>
          /\ UNCHANGED <<pending, handled, commandVars>>
       \/ \E r \in {ParseRequest(Frame(c).bytes)[i] : i \in DOMAIN ParseRequest(Frame(c).bytes)} :
              /\ Execute(r)
              /\ pending' = [pending EXCEPT
                     ![c] = Append(EscapeBytes(BuildResponse(r, Answer(r))), VMMsgChar)]
              /\ handled' = [handled EXCEPT ![c] = Append(@,
                     [seq |-> r.seq, req |-> [netFn |-> r.netFn, cmd |-> r.cmd, data |-> r.data],
                      ans |-> Answer(r)])]
    /\ UNCHANGED <<outbound, conn, vmCaps, sent>>

\* The write fails when QEMU has gone, and the handler reads on.
WriteAnswer(c) ==
    /\ pending[c] # <<>>
    /\ outbound' = [outbound EXCEPT ![c] = IF conn[c] = "open" THEN @ \o pending[c] ELSE @]
    /\ pending' = [pending EXCEPT ![c] = <<>>]
    /\ UNCHANGED <<inbound, conn, vmCaps, sent, handled, commandVars>>

\* A command over the LAN, a boot that consumes the override, a Redfish PATCH.
Elsewhere ==
    /\ \/ \E m \in Requests : Execute(m)
       \/ \E e \in {"Disabled", "Continuous"} : override' = [override EXCEPT !.enabled = e, !.target = "None"]
                                               /\ UNCHANGED <<lanConfig, channelAccess>>
    /\ UNCHANGED wireVars

WireNext ==
    \/ \E c \in Conns :
           \/ SendRequest(c) \/ SendControl(c) \/ SendGarbage(c) \/ Cut(c)
           \/ ReadFails(c) \/ ReadEof(c) \/ Control(c) \/ Ipmi(c) \/ WriteAnswer(c)
    \/ Elsewhere

WireSpec == WireInit /\ [][WireNext]_<<wireVars, commandVars>>

-----------------------------------------------------------------------------
(***************************************************************************)
(* Properties                                                              *)
(***************************************************************************)

\* Everything on the wire is a byte; the read-only LAN parameter keeps its value.
WireTypeOK ==
    /\ \A c \in Conns : \A s \in {inbound[c], outbound[c], pending[c]} :
           \A i \in DOMAIN s : s[i] \in Byte
    /\ conn \in [Conns -> {"open", "cut", "closed"}]
    /\ vmCaps \in Byte
    /\ DOMAIN lanConfig \subseteq supportedLANParams /\ lanConfig[1] = <<151>>
    /\ channelAccess \in [0..15 -> [mode: 0..7, userAuth: BOOLEAN, msgAuth: BOOLEAN,
                                    alerting: BOOLEAN, limit: 0..15]]
    /\ override \in [enabled: {"Disabled", "Once", "Continuous"}, target: DOMAIN Devices,
                     mode: {"UEFI", "Legacy"}]

Asked(e) == IF "req" \in DOMAIN e THEN [seq |-> e.seq, req |-> e.req] ELSE e
Messages(s) == FlattenSeq([i \in DOMAIN s |-> IF "junk" \in DOMAIN s[i] THEN <<>> ELSE <<s[i]>>])

\* The handler sees the messages QEMU sent, byte for byte and in order, none left out
\* and none made up from garbage or from one that was cut off (ReadMessage,
\* vmUnescapeBytes, vmParseIPMIRequest).
HandledAsSent ==
    \A c \in Conns :
        LET seen == [i \in DOMAIN handled[c] |-> Asked(handled[c][i])]
        IN  /\ IsPrefix(seen, Messages(sent[c]))
            /\ conn[c] = "open" /\ inbound[c] = <<>> => seen = Messages(sent[c])

\* What QEMU has to read for a message handled: the request's sequence number, the
\* response function, the command, and the answer of the moment it was handled.
AnswerBytes(e) ==
    IF "ctl" \in DOMAIN e
    THEN IF e.ctl[1] = VMCmdCapabilities THEN Append(Escaped(<<VMCmdNoAttn>>), 161) ELSE <<>>
    ELSE LET body == <<e.seq, 4 * e.req.netFn + 4, e.req.cmd, e.ans.code>> \o e.ans.data
         IN  Append(Escaped(Append(body, ToZero(body))), 160)

\* Answers go out in the order of the requests, one for each, whole and decodable
\* (handleIPMIMsg, vmBuildIPMIResponse, vmEscapeBytes).
AnswersInOrder ==
    \A c \in Conns :
        LET all == FlattenSeq([i \in DOMAIN handled[c] |-> AnswerBytes(handled[c][i])])
        IN  IF conn[c] = "open" THEN outbound[c] \o pending[c] = all ELSE IsPrefix(outbound[c], all)

\* What the BMC keeps of a setting: all of it if its reserved bits are zero and it names a
\* boot device there is.  LAN parameter 0, set in progress, is not kept; of the boot options
\* only parameter 5 is.
Kept(m) ==
    /\ IsSetLAN(m) => m.data[2] # 0
    /\ IsSetChannel(m) => (m.data[2] \div 8) % 4 = 0 /\ m.data[3] < 16
    /\ IsSetBoot(m) => /\ Parameter(m.data) = 5 /\ m.data[2] \in {0, 32, 128, 160}
                       /\ \E t \in DOMAIN Devices : m.data[3] = 4 * Devices[t]

\* The setting a message writes, as the bytes that reading it back must give.
ReadBack(m) ==
    IF IsSetLAN(m) THEN GetLANConfig(<<m.data[1], m.data[2], 0, 0>>).data = <<lanConfigRevision>> \o SubSeq(m.data, 3, Len(m.data))
    ELSE IF IsSetChannel(m) THEN GetChannelAccess(<<m.data[1], 64>>).data = <<m.data[2], m.data[3]>>
    ELSE IsSetBoot(m) => SubSeq(GetBootOptions(<<5, 0, 0>>).data, 3, 4) = <<m.data[2], m.data[3]>>

\* A guest that sets a value, and is told so, reads the same bytes back until somebody
\* else sets it; handling a message changes nothing but what the message sets.
SettingsReadBack ==
    [][\A c \in Conns, m \in Requests :
           LET e == Last(handled'[c])
           IN  Len(handled'[c]) > Len(handled[c]) /\ "req" \in DOMAIN e /\ e.req = m =>
                   IF e.ans.code = OK THEN Kept(m) => ReadBack(m)' ELSE UNCHANGED commandVars
      ]_<<wireVars, commandVars>>
=============================================================================
