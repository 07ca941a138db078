---------------------------- MODULE MCTcpSession ----------------------------
(* Instances of TcpSession for TLC. *)
EXTENDS TcpSession

(* A client that speaks a protocol the proxy does not know, and a server that
   answers in another one. *)
RawScript ==
  [client |-> <<T("data", 1), T("data", 2), T("data", 3)>>,
   upstream |-> <<T("data", 4), T("data", 5)>>]

(* One HTTP request that no response follows. *)
RequestScript ==
  [client |-> HttpMessage(<<T("http", 1), T("sp", 0), T("line", 1)>>, <<T("data", 1)>>),
   upstream |-> <<>>]

(* A replacement rule: the byte 2 becomes two bytes, the byte 4 vanishes; a
   structured patch of HTTP leaves the others alone too. *)
PatchToken(t) ==
  IF t = T("data", 2) THEN <<T("data", 7), T("data", 8)>>
  ELSE IF t = T("data", 4) THEN <<>>
  ELSE <<t>>

MCPatch(plaintext, d, k, payload) ==
  FlattenSeq([i \in 1..Len(payload) |-> PatchToken(payload[i])])

=============================================================================
