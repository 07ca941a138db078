-------------------------- MODULE MCRedirectionLoop --------------------------
(* A client, a server, and the proxy with its upstream socket. *)
EXTENDS RedirectionLoop, TLC

CONSTANTS host, server, loopback

Ports == ("tcp" :> 18080) @@ ("udp" :> 18081)
BothEnabled == [p \in Protocols |-> TRUE]

Datagram(sport) ==
  [version |-> 6, whole |-> TRUE, protocol |-> "udp", src |-> host, sport |-> sport,
   dst |-> server, dport |-> 53]

FromClient == {Datagram(1001)}
AllPackets == {Datagram(1001), Datagram(2001)}

MCKeys == {Key(p) : p \in Packets}
MCDests == {Target(p) : p \in Packets}

=============================================================================
