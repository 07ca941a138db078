--------------------------- MODULE RedirectionLoop ---------------------------
(***************************************************************************)
(* WinDivertCapture with what the proxy sends: a worker that has found the *)
(* target of a datagram forwards it there from the upstream socket, an     *)
(* outbound packet of this machine like those of the clients.  The filter  *)
(* that WinDivertOpen is given, `outbound and (tcp or udp)', takes it to   *)
(* the capture thread as well.                                             *)
(***************************************************************************)
EXTENDS WinDivertCapture

CONSTANTS
  ClientPackets,  \* what other programs of this machine send
  ProxyAddress,   \* the source address of what the proxy sends
  ProxyPort       \* the port of its upstream socket

(* The datagram a worker sends for p to the target it has found. *)
Forwarded(p, target) ==
  [p EXCEPT !.src = ProxyAddress, !.sport = ProxyPort,
            !.dst = target[1], !.dport = target[2]]

VARIABLE wire  \* what the proxy has sent to the targets

LoopInit == CaptureInit /\ wire = {}

(* The lookup returns; with a target, the datagram goes there. *)
AnswerForward(w) ==
  /\ Answer(w)
  /\ wire' = IF op[w].key \in present'
               THEN wire \cup {Forwarded(held[w], dest[op[w].key])}
               ELSE wire

(* The capture thread takes a packet of a client, or one of the proxy. *)
Capturing == \E p \in ClientPackets \cup wire : Receive(p) /\ UNCHANGED wire

Otherwise ==
  /\ \/ Rewrite \/ Send \/ SendFail \/ Finish \/ RequestStop \/ Time \/ Waits
     \/ \E w \in Workers, p \in inbox : Lookup(w, p)
  /\ UNCHANGED wire

LoopNext == Capturing \/ Otherwise \/ \E w \in Workers : AnswerForward(w)

LoopSpec == LoopInit /\ [][LoopNext]_<<vars, captureVars, wire>>

-----------------------------------------------------------------------------
(* Properties *)

(* What the proxy sends to an original target goes there: the capture thread
   passes it on as it is.  With the shipped filter it does not: the proxy's own
   datagram is redirected to the proxy, again and again. *)
ForwardsReachTarget == pc = "send" /\ original \in wire => Packet = original

=============================================================================
