----------------------------- MODULE MCUdpProxy -----------------------------
(* Instances of UdpProxy for TLC. *)
EXTENDS UdpProxy, TLC

CONSTANTS c1, c2, a, b, fixed

(* Redirected datagrams are IPv6, the fixed upstream has an IPv4 address. *)
Families == [t \in {a, b, fixed} |-> IF t = fixed THEN "v4" ELSE "v6"]

(* A client with two redirected conversations from one port, and one with one
   that also addresses the proxy. *)
Conversations == (c1 :> {a, b}) @@ (c2 :> {b, fixed})

=============================================================================
