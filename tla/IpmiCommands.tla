---------------------------- MODULE IpmiCommands ----------------------------
(***************************************************************************)
(* The IPMI commands that read and write the BMC's LAN parameters, channel *)
(* access and boot flags (internal/ipmi, handler_lan.go,                   *)
(* handler_channel.go, handler_chassis.go; internal/bmc, state.go).  A     *)
(* command is [netFn, cmd, data] and its answer [code, data], with data a  *)
(* sequence of bytes; it looks at or changes the state once, under a lock. *)
(* Commands about users and power are modelled with the parts they act on. *)
(***************************************************************************)
EXTENDS Naturals, Sequences

VARIABLES lanConfig,       \* State.lanConfig: parameter number -> value
          channelAccess,   \* State.channelAccess
          override         \* Machine.bootOverride

commandVars == <<lanConfig, channelAccess, override>>

Byte == 0..255

\* Whether byte b has the bit of mask m; the mask, if a flag is set.
Bit(b, m) == (b \div m) % 2 = 1
IfBit(p, m) == IF p THEN m ELSE 0

Chassis == 0
App == 6
Transport == 12

OK == 0
InvalidCommand == 193
ParameterOutOfRange == 201
InvalidField == 204

Fail(code) == [code |-> code, data |-> <<>>]
Done(data) == [code |-> OK, data |-> data]

CommandsInit ==
    /\ lanConfig = [p \in {1, 2, 3, 4, 5, 6, 12} |->
                        CASE p = 1 -> <<151>>
                          [] p = 2 -> <<20, 20, 20, 20, 0>>
                          [] p = 4 -> <<1>>
                          [] p = 5 -> <<0, 0, 0, 0, 0, 0>>
                          [] OTHER -> <<0, 0, 0, 0>>]
    /\ channelAccess = [ch \in 0..15 |->
                            [mode |-> IF ch = 1 THEN 2 ELSE 0, userAuth |-> ch = 1,
                             msgAuth |-> ch = 1, alerting |-> FALSE,
                             limit |-> IF ch = 1 THEN 4 ELSE 0]]
    /\ override = [enabled |-> "Disabled", target |-> "None", mode |-> "UEFI"]

-----------------------------------------------------------------------------
(* LAN configuration                                                       *)

supportedLANParams == 0..7 \cup {12, 13}
readOnlyLANParams == {1}
lanConfigRevision == 17

GetLANConfig(d) ==
    IF Len(d) < 4 THEN Fail(InvalidField)
    ELSE IF d[2] \notin supportedLANParams THEN Fail(ParameterOutOfRange)
    ELSE IF d[2] = 0 THEN Done(<<lanConfigRevision, 0>>)
    ELSE IF d[2] \notin DOMAIN lanConfig THEN Fail(ParameterOutOfRange)
    ELSE Done(<<lanConfigRevision>> \o lanConfig[d[2]])

SetLANConfigAnswer(d) ==
    IF Len(d) < 2 THEN Fail(InvalidField)
    ELSE IF d[2] \notin supportedLANParams THEN Fail(ParameterOutOfRange)
    ELSE IF d[2] \in readOnlyLANParams THEN Fail(InvalidField)
    ELSE Done(<<>>)

SetLANConfig(d) ==
    /\ lanConfig' = IF SetLANConfigAnswer(d).code = OK /\ d[2] # 0
                    THEN [p \in DOMAIN lanConfig \cup {d[2]} |->
                              IF p = d[2] THEN SubSeq(d, 3, Len(d)) ELSE lanConfig[p]]
                    ELSE lanConfig
    /\ UNCHANGED <<channelAccess, override>>

-----------------------------------------------------------------------------
(* Channel access                                                          *)

GetChannelAccess(d) ==
    IF Len(d) < 2 THEN Fail(InvalidField)
    ELSE LET a == channelAccess[d[1] % 16]
         IN  Done(<<(a.mode % 8) + IfBit(a.userAuth, 32) + IfBit(a.msgAuth, 64) + IfBit(~a.alerting, 128),
                    a.limit % 16>>)

\* The current channel is channel 1.
GetChannelInfo(d) ==
    IF Len(d) < 1 THEN Fail(InvalidField)
    ELSE LET ch == IF d[1] % 16 = 14 THEN 1 ELSE d[1] % 16
         IN  Done(<<ch, 4, 1, 128, 0, 0, 0, 0, 0>>)

SetChannelAccessAnswer(d) == IF Len(d) < 3 THEN Fail(InvalidField) ELSE Done(<<>>)

\* Variant: the bit says that alerting is enabled.
SetChannelAccessUninverted(d) ==
    /\ channelAccess' =
           IF Len(d) < 3 THEN channelAccess
           ELSE [channelAccess EXCEPT ![d[1] % 16] =
                     [mode |-> d[2] % 8, userAuth |-> Bit(d[2], 32), msgAuth |-> Bit(d[2], 64),
                      alerting |-> Bit(d[2], 128), limit |-> d[3] % 16]]
    /\ UNCHANGED <<lanConfig, override>>

SetChannelAccess(d) ==
    /\ channelAccess' =
           IF Len(d) < 3 THEN channelAccess
           ELSE [channelAccess EXCEPT ![d[1] % 16] =
                     [mode |-> d[2] % 8, userAuth |-> Bit(d[2], 32), msgAuth |-> Bit(d[2], 64),
                      alerting |-> ~Bit(d[2], 128), limit |-> d[3] % 16]]
    /\ UNCHANGED <<lanConfig, override>>

-----------------------------------------------------------------------------
(* Boot flags, parameter 5 of the boot options                             *)

Devices == [None |-> 0, Pxe |-> 1, Hdd |-> 2, Cd |-> 5, BiosSetup |-> 6]

Parameter(d) == d[1] % 128

GetBootOptions(d) ==
    IF Len(d) < 1 THEN Fail(InvalidField)
    ELSE IF Parameter(d) = 0 THEN Done(<<1, 128, 0>>)
    ELSE IF Parameter(d) = 5
         THEN Done(<<1, 133, IfBit(override.enabled # "Disabled", 128) + IfBit(override.mode = "UEFI", 32),
                     4 * Devices[override.target], 0, 0, 0>>)
    ELSE Done(<<1, Parameter(d), 0>>)

SetBootOptionsAnswer(d) ==
    IF Len(d) < 1 \/ (Parameter(d) = 5 /\ Len(d) < 6) THEN Fail(InvalidField) ELSE Done(<<>>)

\* A device the table does not have is none.
DeviceTarget(n) ==
    IF \E t \in DOMAIN Devices : Devices[t] = n
    THEN CHOOSE t \in DOMAIN Devices : Devices[t] = n
    ELSE "None"

SetBootOptions(d) ==
    /\ override' =
           IF SetBootOptionsAnswer(d).code = OK /\ Parameter(d) = 5
           THEN [enabled |-> IF Bit(d[2], 128) THEN "Once" ELSE "Disabled",
                 target |-> DeviceTarget((d[3] \div 4) % 16),
                 mode |-> IF Bit(d[2], 32) THEN "UEFI" ELSE "Legacy"]
           ELSE override
    /\ UNCHANGED <<lanConfig, channelAccess>>

-----------------------------------------------------------------------------
(* handleIPMICommand                                                       *)

Is(m, netFn, cmd) == m.netFn = netFn /\ m.cmd = cmd

IsSetLAN(m) == Is(m, Transport, 1)
IsSetChannel(m) == Is(m, App, 64)
IsSetBoot(m) == Is(m, Chassis, 8)

Answer(m) ==
    CASE IsSetLAN(m) -> SetLANConfigAnswer(m.data)
      [] Is(m, Transport, 2) -> GetLANConfig(m.data)
      [] IsSetChannel(m) -> SetChannelAccessAnswer(m.data)
      [] Is(m, App, 65) -> GetChannelAccess(m.data)
      [] Is(m, App, 66) -> GetChannelInfo(m.data)
      [] IsSetBoot(m) -> SetBootOptionsAnswer(m.data)
      [] Is(m, Chassis, 9) -> GetBootOptions(m.data)
      [] OTHER -> Fail(InvalidCommand)

Execute(m) ==
    \/ IsSetLAN(m) /\ SetLANConfig(m.data)
    \/ IsSetChannel(m) /\ SetChannelAccess(m.data)
    \/ IsSetBoot(m) /\ SetBootOptions(m.data)
    \/ ~IsSetLAN(m) /\ ~IsSetChannel(m) /\ ~IsSetBoot(m) /\ UNCHANGED commandVars
=============================================================================
