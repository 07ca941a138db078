------------------------- MODULE MCWinDivertCapture -------------------------
(* Instances of WinDivertCapture for TLC. *)
EXTENDS WinDivertCapture, TLC

CONSTANTS host, server, loopback, v4client

Ports == ("tcp" :> 18080) @@ ("udp" :> 18081)

P6(protocol, sport, dst, dport, whole) ==
  [version |-> 6, whole |-> whole, protocol |-> protocol, src |-> host,
   sport |-> sport, dst |-> dst, dport |-> dport]

P4(protocol, sport, dst, dport) ==
  [version |-> 4, whole |-> TRUE, protocol |-> protocol, src |-> v4client,
   sport |-> sport, dst |-> dst, dport |-> dport]

(* TCP is switched off, a client sends to two servers from one UDP port, and
   the other packets are for the proxy, over either family, truncated, or of
   another protocol. *)
UdpEnabled == [p \in Protocols |-> p = "udp"]

MixedPackets ==
  {P6("udp", 1001, server, 53, TRUE),
   P6("udp", 1001, server, 54, TRUE),
   P6("udp", 1002, server, 53, TRUE),
   P6("udp", 1002, loopback, 18081, TRUE),
   P6("udp", 1003, server, 18081, TRUE),
   P4("udp", 1005, <<127, 0, 0, 1>>, 18081),
   P6("tcp", 1001, server, 80, TRUE),
   P6("icmp", 0, server, 0, TRUE),
   P6("udp", 1002, server, 53, FALSE)}

(* FlowKey and the targets, as far as these packets need them. *)
MCKeys ==
  {Key(p) : p \in {q \in Packets : Redirects(q)}}
  \cup {SenderKey(p) : p \in {q \in Packets : Redirects(q) \/ Delivered(q)}}
MCDests == {Target(p) : p \in {q \in Packets : Redirects(q)}}

=============================================================================
