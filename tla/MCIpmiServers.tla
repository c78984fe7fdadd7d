---------------------------- MODULE MCIpmiServers ----------------------------
(* Model checking instance of IpmiServers: requests whose bytes, and the     *)
(* bytes of whose answers, need escaping.                                    *)
EXTENDS IpmiServers

Message(netFn, cmd, data) == [netFn |-> netFn, cmd |-> cmd, data |-> data]

MCRequests ==
    {Message(Transport, 1, <<1, 3, 160, 170, 161, 45>>), Message(Transport, 2, <<1, 3, 0, 0>>),
     Message(Transport, 1, <<1, 1, 0>>), Message(App, 64, <<1, 162, 4>>), Message(App, 65, <<1, 64>>),
     Message(Chassis, 8, <<5, 160, 4, 0, 0, 0>>), Message(Chassis, 9, <<5, 0, 0>>), Message(4, 45, <<>>)}

\* Too short, a wrong checksum, nothing at all, an escape with nothing after it.
MCGarbage == {<<1, 2, 160>>, <<1, 24, 9, 7, 160>>, <<161>>, <<1, 170, 160>>}

MCFragments == {SubSeq(<<160 + 16, 170, 176, 4, 64, 1>>, 1, n) : n \in 0..3}
=============================================================================
