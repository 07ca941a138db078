----------------------------- MODULE TcpSession -----------------------------
(***************************************************************************)
(* One client connection of TcpProxyServer: handle_client, the two pump    *)
(* threads it starts and joins, their reassembly buffers, and the two      *)
(* sockets both threads share.                                             *)
(*                                                                         *)
(* The peers are the client and the upstream server.  Each has a Script,   *)
(* the stream it would write; it may write it in any pieces, stop short,   *)
(* half-close, stop reading or reset the connection.  A timed-out recv is  *)
(* `continue' in the code, a step that changes nothing.                    *)
(***************************************************************************)
EXTENDS HttpFraming, Integers

CONSTANTS
  Script,             \* what each peer would write
  InitialMax,         \* sizeof(initial_buffer), 8192
  RecvMax,            \* sizeof(buffer) in pump, 4096
  MaxBuffered,        \* the flush limit of the Http branch, 8192
  DecideSize,         \* bytes after which an unknown protocol is final, 32
  TunnelModes,        \* what the configurations make of a CONNECT request
  PeerFaults,         \* the faults a peer may show
  Patch(_, _, _, _)   \* Patch(plaintext, direction, protocol_kind, payload)

Peers == {"client", "upstream"}
Directions == {"outbound", "inbound"}

(* https_mitm_enabled without https_plaintext_test_mode; the test mode; or
   neither, and the tunnel is forwarded as any other stream. *)
Tunnels == {"mitm", "plaintext", "opaque"}

ASSUME ConstantsAssumption ==
  /\ Script \in [Peers -> Seq(Token)]
  /\ InitialMax \in Nat \ {0}
  /\ RecvMax \in Nat \ {0}
  /\ MaxBuffered \in Nat
  /\ DecideSize \in Nat
  /\ TunnelModes \subseteq Tunnels
  /\ TunnelModes # {}
  /\ PeerFaults \subseteq {"stalled", "reset"}

(* The capacities of the two receive buffers and of the flush limit, as the
   source declares them: 4096 <= 8192 <= 8192. *)
ASSUME CapacityAssumption == RecvMax <= InitialMax /\ InitialMax <= MaxBuffered

Source(d) == IF d = "outbound" THEN "client" ELSE "upstream"
Target(d) == IF d = "outbound" THEN "upstream" ELSE "client"

(* Whatever run of bytes of the source's stream patch_and_send is given, the
   patch engine and the protocol adapters return a byte stream. *)
ASSUME PatchAssumption ==
  \A plaintext \in BOOLEAN, d \in Directions, k \in ProtocolKinds :
    \A i \in 1..Len(Script[Source(d)]) + 1, j \in 0..Len(Script[Source(d)]) :
      Patch(plaintext, d, k, SubSeq(Script[Source(d)], i, j)) \in Seq(Token)

VARIABLES
  written,   \* how much of its script each peer has written
  inq,       \* what a peer has written and recv has not returned yet
  out,       \* what the kernel has accepted from send for each peer
  eof,       \* the peer has closed its writing side
  health,    \* "ok", "stalled" (no longer reads) or "reset"
  sock,      \* the proxy's socket to the peer: none, made, open, shut, closed
  pc,        \* where the handle_client thread is
  tunnel,    \* is_connect_tunnel, with the mode: "no" or one of Tunnels
  ppc,       \* where each pump thread is
  buf,       \* reassembly_buffer
  kind,      \* protocol_kind
  decided,   \* protocol_decided
  pend,      \* the rest of the payload that send_all is sending
  skipped,   \* history: read from the source and dropped
  taken,     \* history: read from the source and given to patch_and_send
  emitted    \* history: given to send_all for the target

netVars == <<written, inq, eof, health>>
pumpVars == <<ppc, buf, kind, decided, pend, skipped, taken, emitted>>
vars == <<written, inq, out, eof, health, sock, pc, tunnel,
          ppc, buf, kind, decided, pend, skipped, taken, emitted>>

(* HTTP/1.1 200 Connection Established *)
ConnectOk == <<T("established", 200)>>

(* The lengths a recv of at most max bytes may return for the data in q. *)
RecvLengths(q, max) == {k \in 1..Len(q) : k <= max}

From(s, k) == SubSeq(s, k, Len(s))

-----------------------------------------------------------------------------

Init ==
  /\ written = [p \in Peers |-> 0]
  /\ inq = [p \in Peers |-> <<>>]
  /\ out = [p \in Peers |-> <<>>]
  /\ eof = [p \in Peers |-> FALSE]
  /\ health = [p \in Peers |-> "ok"]
  /\ sock = [p \in Peers |-> IF p = "client" THEN "open" ELSE "none"]
  /\ pc = "initial_recv"
  /\ tunnel = "no"
  /\ ppc = [d \in Directions |-> "off"]
  /\ buf = [d \in Directions |-> <<>>]
  /\ kind = [d \in Directions |-> "Unknown"]
  /\ decided = [d \in Directions |-> FALSE]
  /\ pend = [d \in Directions |-> <<>>]
  /\ skipped = [d \in Directions |-> <<>>]
  /\ taken = [d \in Directions |-> <<>>]
  /\ emitted = [d \in Directions |-> <<>>]

-----------------------------------------------------------------------------
(* The peers.  The upstream server takes part once connect has succeeded.  *)

Connected(p) == sock[p] \in {"open", "shut"}

PeerWrite(p) ==
  /\ Connected(p)
  /\ ~eof[p]
  /\ health[p] # "reset"
  /\ written[p] < Len(Script[p])
  /\ written' = [written EXCEPT ![p] = @ + 1]
  /\ inq' = [inq EXCEPT ![p] = Append(@, Script[p][written[p] + 1])]
  /\ UNCHANGED <<out, eof, health, sock, pc, tunnel, pumpVars>>

PeerClose(p) ==
  /\ Connected(p)
  /\ ~eof[p]
  /\ eof' = [eof EXCEPT ![p] = TRUE]
  /\ UNCHANGED <<written, inq, out, health, sock, pc, tunnel, pumpVars>>

PeerFail(p) ==
  /\ Connected(p)
  /\ health[p] = "ok"
  /\ \E f \in PeerFaults : health' = [health EXCEPT ![p] = f]
  /\ UNCHANGED <<written, inq, out, eof, sock, pc, tunnel, pumpVars>>

-----------------------------------------------------------------------------
(* handle_client *)

CloseClient == sock' = [sock EXCEPT !["client"] = "closed"]
CloseBoth == sock' = [p \in Peers |-> "closed"]

(* send() to a peer that no longer reads times out (SO_SNDTIMEO), to one that
   has reset the connection or whose socket is shut down it fails. *)
SendCanFail(p) == sock[p] = "shut" \/ health[p] # "ok"

(* Mutant of InitialRecv: the CONNECT request is forwarded like any payload. *)
InitialRecvKeepsConnect ==
  /\ pc = "initial_recv"
  /\ \E payload \in
       {SubSeq(inq["client"], 1, k) : k \in RecvLengths(inq["client"], InitialMax)}
       \cup (IF inq["client"] = <<>> \/ health["client"] = "reset"
               THEN {<<>>} ELSE {}) :
       /\ inq' = [inq EXCEPT !["client"] = From(@, Len(payload) + 1)]
       /\ tunnel' \in IF ParseConnectAuthority(payload) THEN TunnelModes ELSE {"no"}
       /\ skipped' = [skipped EXCEPT !["outbound"] = IF tunnel' # "no" THEN payload ELSE <<>>]
       /\ buf' = [buf EXCEPT !["outbound"] = payload]
  /\ pc' = "dial"
  /\ UNCHANGED <<written, out, eof, health, sock,
                 ppc, kind, decided, pend, taken, emitted>>

(* The first recv, and the recognition of a CONNECT request in what it
   returned.  A tunnel drops the whole of it; otherwise it becomes the first
   payload of the outbound pump. *)
InitialRecv ==
  /\ pc = "initial_recv"
  /\ \E payload \in
       {SubSeq(inq["client"], 1, k) : k \in RecvLengths(inq["client"], InitialMax)}
       \cup (IF inq["client"] = <<>> \/ health["client"] = "reset"
               THEN {<<>>} ELSE {}) :
       /\ inq' = [inq EXCEPT !["client"] = From(@, Len(payload) + 1)]
       /\ tunnel' \in IF ParseConnectAuthority(payload) THEN TunnelModes ELSE {"no"}
       /\ skipped' = [skipped EXCEPT !["outbound"] = IF tunnel' # "no" THEN payload ELSE <<>>]
       /\ buf' = [buf EXCEPT !["outbound"] = IF tunnel' # "no" THEN <<>> ELSE payload]
  /\ pc' = IF tunnel' = "mitm" THEN "mitm_reply" ELSE "dial"
  /\ UNCHANGED <<written, out, eof, health, sock,
                 ppc, kind, decided, pend, taken, emitted>>

SendConnectOk ==
  /\ out' = [out EXCEPT !["client"] = @ \o ConnectOk]
  /\ emitted' = [emitted EXCEPT !["inbound"] = @ \o ConnectOk]

(* The 200 reply that precedes a TLS man-in-the-middle session. *)
MitmReply ==
  /\ pc = "mitm_reply"
  /\ SendConnectOk
  /\ pc' = "mitm"
  /\ UNCHANGED <<netVars, sock, tunnel, ppc, buf, kind, decided, pend, skipped, taken>>

(* run_tls_mitm_session returns: the client socket is closed. *)
MitmEnd ==
  /\ pc = "mitm"
  /\ CloseClient
  /\ pc' = "done"
  /\ UNCHANGED <<netVars, out, tunnel, pumpVars>>

(* resolve_endpoint or socket fails: there is no upstream socket yet.  The
   reply before a man-in-the-middle session fails the same way. *)
FailWithoutUpstream ==
  /\ \/ pc = "dial"
     \/ pc = "mitm_reply" /\ SendCanFail("client")
  /\ CloseClient
  /\ pc' = "done"
  /\ UNCHANGED <<netVars, out, tunnel, pumpVars>>

(* The pump threads are started; the outbound one finds the first payload in
   its buffer. *)
StartPumps ==
  /\ pc' = "join_outbound"
  /\ ppc' = [d \in Directions |-> "loop"]

(* socket() has made the upstream socket; connect is called on it. *)
MakeUpstream ==
  /\ pc = "dial"
  /\ sock' = [sock EXCEPT !["upstream"] = "made"]
  /\ pc' = "connect"
  /\ UNCHANGED <<netVars, out, tunnel, pumpVars>>

Connect ==
  /\ pc = "connect"
  /\ sock' = [sock EXCEPT !["upstream"] = "open"]
  /\ IF tunnel # "no" THEN pc' = "reply" /\ UNCHANGED ppc ELSE StartPumps
  /\ UNCHANGED <<netVars, out, tunnel, buf, kind, decided, pend, skipped, taken, emitted>>

(* The 200 reply of a tunnel that is forwarded as it is. *)
TunnelReply ==
  /\ pc = "reply"
  /\ SendConnectOk
  /\ StartPumps
  /\ UNCHANGED <<netVars, sock, tunnel, buf, kind, decided, pend, skipped, taken>>

(* Mutant of FailWithUpstream: the socket that has not been connected is left. *)
FailLeaksUpstream ==
  /\ \/ pc = "connect"
     \/ pc = "reply" /\ SendCanFail("client")
  /\ CloseClient
  /\ pc' = "done"
  /\ UNCHANGED <<netVars, out, tunnel, pumpVars>>

(* connect fails, or the reply to the client fails after it. *)
FailWithUpstream ==
  /\ \/ pc = "connect"
     \/ pc = "reply" /\ SendCanFail("client")
  /\ CloseBoth
  /\ pc' = "done"
  /\ UNCHANGED <<netVars, out, tunnel, pumpVars>>

JoinOutbound ==
  /\ pc = "join_outbound"
  /\ ppc["outbound"] = "done"
  /\ pc' = "join_inbound"
  /\ UNCHANGED <<netVars, out, sock, tunnel, pumpVars>>

(* Mutant of JoinInbound: the sockets are closed without the second join. *)
CloseWithoutJoin ==
  /\ pc = "join_inbound"
  /\ CloseBoth
  /\ pc' = "done"
  /\ UNCHANGED <<netVars, out, tunnel, pumpVars>>

JoinInbound ==
  /\ pc = "join_inbound"
  /\ ppc["inbound"] = "done"
  /\ CloseBoth
  /\ pc' = "done"
  /\ UNCHANGED <<netVars, out, tunnel, pumpVars>>

-----------------------------------------------------------------------------
(* pump *)

(* Mutant of PumpRecv: recv is called with the buffer in any state. *)
PumpRecvAlways(d) ==
  LET p == Source(d) IN
  /\ ppc[d] = "loop"
  /\ sock[p] = "open"
  /\ \E k \in RecvLengths(inq[p], RecvMax) :
       /\ buf' = [buf EXCEPT ![d] = @ \o SubSeq(inq[p], 1, k)]
       /\ inq' = [inq EXCEPT ![p] = From(@, k + 1)]
  /\ UNCHANGED <<written, out, eof, health, sock, pc, tunnel,
                 ppc, kind, decided, pend, skipped, taken, emitted>>

(* recv is called only with an empty reassembly buffer. *)
PumpRecv(d) ==
  LET p == Source(d) IN
  /\ ppc[d] = "loop"
  /\ buf[d] = <<>>
  /\ sock[p] = "open"
  /\ \E k \in RecvLengths(inq[p], RecvMax) :
       /\ buf' = [buf EXCEPT ![d] = SubSeq(inq[p], 1, k)]
       /\ inq' = [inq EXCEPT ![p] = From(@, k + 1)]
  /\ UNCHANGED <<written, out, eof, health, sock, pc, tunnel,
                 ppc, kind, decided, pend, skipped, taken, emitted>>

(* recv returns 0 or an error other than a timeout.  The flush of the tail
   that follows the loop finds the buffer empty. *)
PumpBreak(d) ==
  LET p == Source(d) IN
  /\ ppc[d] = "loop"
  /\ buf[d] = <<>>
  /\ \/ sock[p] = "shut"
     \/ health[p] = "reset"
     \/ eof[p] /\ inq[p] = <<>>
  /\ ppc' = [ppc EXCEPT ![d] = "shut_source"]
  /\ UNCHANGED <<netVars, out, sock, pc, tunnel,
                 buf, kind, decided, pend, skipped, taken, emitted>>

(* protocol_kind and protocol_decided after the detection step. *)
KindNow(d) == IF decided[d] THEN kind[d] ELSE DetectProtocolKind(buf[d])
DecidedNow(d) == decided[d] \/ KindNow(d) # "Unknown" \/ Len(buf[d]) >= DecideSize

Detect(d) ==
  /\ kind' = [kind EXCEPT ![d] = KindNow(d)]
  /\ decided' = [decided EXCEPT ![d] = DecidedNow(d)]

(* Mutant of PayloadLengths: what is there of an unfinished message is taken. *)
PayloadUnfinished(d) ==
  IF KindNow(d) # "Http" \/ TryTakeHttpMessage(buf[d]) = {} THEN {Len(buf[d])}
  ELSE TryTakeHttpMessage(buf[d])

(* Mutant of PayloadLengths: an undecided stream waits for more bytes. *)
PayloadWhenDecided(d) == {n \in {Len(buf[d])} : DecidedNow(d)}

(* The lengths of the payload that one turn of the loop takes from the
   buffer: one HTTP message, everything once the buffer passes the flush
   limit, everything when the protocol is not HTTP. *)
PayloadLengths(d) ==
  IF KindNow(d) # "Http" THEN {Len(buf[d])}
  ELSE IF TryTakeHttpMessage(buf[d]) # {} THEN TryTakeHttpMessage(buf[d])
  ELSE {n \in {Len(buf[d])} : n > MaxBuffered}

(* A payload leaves the buffer and is patched; send_all begins. *)
PumpTake(d) ==
  /\ ppc[d] = "loop"
  /\ buf[d] # <<>>
  /\ Detect(d)
  /\ \E n \in PayloadLengths(d) :
       LET payload == SubSeq(buf[d], 1, n)
           patched == Patch(tunnel = "plaintext", d, KindNow(d), payload)
       IN  /\ buf' = [buf EXCEPT ![d] = From(@, n + 1)]
           /\ taken' = [taken EXCEPT ![d] = @ \o payload]
           /\ emitted' = [emitted EXCEPT ![d] = @ \o patched]
           /\ pend' = [pend EXCEPT ![d] = patched]
           /\ ppc' = [ppc EXCEPT ![d] = IF patched = <<>> THEN "loop" ELSE "send"]
  /\ UNCHANGED <<netVars, out, sock, pc, tunnel, skipped>>

(* The Http branch finds no whole message and fewer bytes than the flush
   limit: `continue', with the buffer as it was. *)
PumpSpin(d) ==
  /\ ppc[d] = "loop"
  /\ buf[d] # <<>>
  /\ Detect(d)
  /\ PayloadLengths(d) = {}
  /\ UNCHANGED <<netVars, out, sock, pc, tunnel,
                 ppc, buf, pend, skipped, taken, emitted>>

(* Mutant of PumpSend: a partial send starts over with the whole payload. *)
PumpSendFromStart(d) ==
  LET p == Target(d) IN
  /\ ppc[d] = "send"
  /\ sock[p] = "open"
  /\ \E k \in 1..Len(pend[d]) :
       /\ out' = [out EXCEPT ![p] = @ \o SubSeq(pend[d], 1, k)]
       /\ pend' = [pend EXCEPT ![d] = IF k = Len(@) THEN <<>> ELSE @]
       /\ ppc' = [ppc EXCEPT ![d] = IF k = Len(pend[d]) THEN "loop" ELSE "send"]
  /\ UNCHANGED <<netVars, sock, pc, tunnel, buf, kind, decided, skipped, taken, emitted>>

(* One send of send_all: the kernel accepts a part of the rest. *)
PumpSend(d) ==
  LET p == Target(d) IN
  /\ ppc[d] = "send"
  /\ sock[p] = "open"
  /\ \E k \in 1..Len(pend[d]) :
       /\ out' = [out EXCEPT ![p] = @ \o SubSeq(pend[d], 1, k)]
       /\ pend' = [pend EXCEPT ![d] = From(@, k + 1)]
       /\ ppc' = [ppc EXCEPT ![d] = IF k = Len(pend[d]) THEN "loop" ELSE "send"]
  /\ UNCHANGED <<netVars, sock, pc, tunnel, buf, kind, decided, skipped, taken, emitted>>

(* send fails: the pump returns and drops the rest of the payload. *)
PumpSendFail(d) ==
  /\ ppc[d] = "send"
  /\ SendCanFail(Target(d))
  /\ ppc' = [ppc EXCEPT ![d] = "shut_source"]
  /\ UNCHANGED <<netVars, out, sock, pc, tunnel,
                 buf, kind, decided, pend, skipped, taken, emitted>>

(* shutdown_socket_pair, one socket at a time: SD_BOTH on the source, then on
   the target, whichever way the pump ended. *)
ShutdownSource(d) ==
  /\ ppc[d] = "shut_source"
  /\ sock' = [sock EXCEPT ![Source(d)] = "shut"]
  /\ ppc' = [ppc EXCEPT ![d] = "shut_target"]
  /\ UNCHANGED <<netVars, out, pc, tunnel,
                 buf, kind, decided, pend, skipped, taken, emitted>>

(* Mutant of ShutdownTarget: only the source is shut down. *)
KeepTarget(d) ==
  /\ ppc[d] = "shut_target"
  /\ ppc' = [ppc EXCEPT ![d] = "done"]
  /\ UNCHANGED <<netVars, out, sock, pc, tunnel,
                 buf, kind, decided, pend, skipped, taken, emitted>>

ShutdownTarget(d) ==
  /\ ppc[d] = "shut_target"
  /\ sock' = [sock EXCEPT ![Target(d)] = "shut"]
  /\ ppc' = [ppc EXCEPT ![d] = "done"]
  /\ UNCHANGED <<netVars, out, pc, tunnel,
                 buf, kind, decided, pend, skipped, taken, emitted>>

-----------------------------------------------------------------------------

Handler ==
  \/ InitialRecv
  \/ MitmReply
  \/ MitmEnd
  \/ FailWithoutUpstream
  \/ MakeUpstream
  \/ Connect
  \/ TunnelReply
  \/ FailWithUpstream
  \/ JoinOutbound
  \/ JoinInbound

Pump(d) ==
  \/ PumpRecv(d)
  \/ PumpBreak(d)
  \/ PumpTake(d)
  \/ PumpSpin(d)
  \/ PumpSend(d)
  \/ PumpSendFail(d)
  \/ ShutdownSource(d)
  \/ ShutdownTarget(d)

Peer(p) ==
  \/ PeerWrite(p)
  \/ PeerClose(p)
  \/ PeerFail(p)

(* handle_client has returned; its last state persists. *)
Finished == pc = "done" /\ UNCHANGED vars

Next ==
  \/ Handler
  \/ \E d \in Directions : Pump(d)
  \/ \E p \in Peers : Peer(p)
  \/ Finished

Spec == Init /\ [][Next]_vars

(* The operating system schedules all three threads, and every blocking call
   they make carries a one-second timeout.  A peer that keeps its connection
   goes on to write its script. *)
Fairness ==
  /\ WF_vars(Handler)
  /\ \A d \in Directions : WF_vars(Pump(d))
  /\ \A p \in Peers : WF_vars(PeerWrite(p))

FairSpec == Spec /\ Fairness

-----------------------------------------------------------------------------
(* Properties *)

SocketStates == {"none", "made", "open", "shut", "closed"}
HandlerStates == {"initial_recv", "mitm_reply", "mitm", "dial", "connect", "reply",
                  "join_outbound", "join_inbound", "done"}
PumpStates == {"off", "loop", "send", "shut_source", "shut_target", "done"}

(* Type invariant of a client session and its two pumps. *)
TypeOK ==
  /\ written \in [Peers -> Nat]
  /\ \A p \in Peers : written[p] <= Len(Script[p])
  /\ inq \in [Peers -> Seq(Token)]
  /\ out \in [Peers -> Seq(Token)]
  /\ eof \in [Peers -> BOOLEAN]
  /\ health \in [Peers -> {"ok", "stalled", "reset"}]
  /\ sock \in [Peers -> SocketStates]
  /\ pc \in HandlerStates
  /\ tunnel \in Tunnels \cup {"no"}
  /\ ppc \in [Directions -> PumpStates]
  /\ buf \in [Directions -> Seq(Token)]
  /\ kind \in [Directions -> ProtocolKinds]
  /\ decided \in [Directions -> BOOLEAN]
  /\ pend \in [Directions -> Seq(Token)]
  /\ skipped \in [Directions -> Seq(Token)]
  /\ taken \in [Directions -> Seq(Token)]
  /\ emitted \in [Directions -> Seq(Token)]

(* What a peer has written is, in this order and with nothing lost, repeated
   or reordered: what the handler dropped with the CONNECT request, what went
   through patch_and_send, what the reassembly buffer holds, what recv has not
   read yet. *)
SourceIntegrity ==
  \A d \in Directions :
    skipped[d] \o taken[d] \o buf[d] \o inq[Source(d)]
      = SubSeq(Script[Source(d)], 1, written[Source(d)])

(* What the kernel accepted for a peer, followed by the rest of the payload
   that send_all is at (or gave up on), is what was patched for that peer: the
   partial sends of send_all add up. *)
TargetIntegrity ==
  \A d \in Directions : out[Target(d)] \o pend[d] = emitted[d]

(* Neither pump, nor handle_client in front of them, loses, repeats or
   reorders a byte, however recv and send cut the stream up. *)
StreamIntegrity == SourceIntegrity /\ TargetIntegrity

(* The session as the two pipes of PatchedPipes: what recv has read and what it
   has not are one to them, and a greeting that has been sent ends the opening. *)
Opening ==
  IF pc = "initial_recv" THEN "new"
  ELSE IF tunnel # "no" /\ emitted["inbound"] = <<>> THEN "connect"
  ELSE "pipe"

Unwritten == [d \in Directions |-> From(Script[Source(d)], written[Source(d)] + 1)]
Todo == [d \in Directions |-> buf[d] \o inq[Source(d)]]
Given == [d \in Directions |-> out[Target(d)]]

Pipes ==
  INSTANCE PatchedPipes WITH
    Stream <- [d \in Directions |-> Script[Source(d)]],
    Kinds <- ProtocolKinds,
    Greeting <- ConnectOk,
    unwritten <- Unwritten,
    todo <- Todo,
    due <- pend,
    given <- Given,
    opening <- Opening

(* Whatever the threads, the buffers and the faults of the peers, a session is
   a pair of pipes that patch: every step of it is a step of theirs, or none. *)
ImplementsPipes == Pipes!Spec

(* A socket is closed only when no pump can touch it any more, and a handler
   that has returned has released both, on every error path. *)
SocketsReleased ==
  /\ \A p \in Peers : sock[p] = "closed" => \A d \in Directions : ppc[d] \in {"off", "done"}
  /\ pc = "done" => \A p \in Peers : sock[p] \in {"none", "closed"}

(* How the threads of a session are coordinated: the pumps run only between
   StartPumps and the joins, and what is still to be sent is empty outside
   send_all. *)
ControlInv ==
  /\ pc \in {"initial_recv", "mitm_reply", "mitm", "dial", "connect", "reply"}
       => \A d \in Directions : ppc[d] = "off"
  /\ pc \in {"initial_recv", "mitm_reply", "mitm", "dial"} => sock["upstream"] = "none"
  /\ pc = "initial_recv"
       => /\ skipped["outbound"] = <<>>
          /\ taken["outbound"] = <<>>
          /\ buf["outbound"] = <<>>
  /\ pc = "join_inbound" => ppc["outbound"] = "done"
  /\ pc = "done" => \A d \in Directions : ppc[d] \in {"off", "done"}
  /\ pc = "done" => \A p \in Peers : sock[p] \in {"none", "closed"}
  /\ \A p \in Peers : sock[p] = "closed" => pc = "done"
  /\ \A d \in Directions : ppc[d] \in {"off", "loop"} => pend[d] = <<>>

(* The buffer never holds more than one recv returned, since recv is called
   only when it is empty: the flush of an Http buffer past 8192 bytes is never
   reached, and no message longer than a read is ever whole. *)
FlushUnreachable ==
  \A d \in Directions : Len(buf[d]) <= MaxBuffered

(* The peers that write HTTP messages, and between which tokens. *)
HttpPeers == {p \in Peers : OfMessages(Script[p])}
MessageEnds == [p \in Peers |-> Ends(Script[p])]

(* From the moment a pump takes its source for one that speaks HTTP it is, after
   each payload, between two messages of the source: a patch never sees half a
   message, nor two.  It does not matter what was dropped with a CONNECT request
   or taken before as bytes of an unknown protocol. *)
WholeMessages ==
  \A d \in Directions :
    kind[d] = "Http" /\ Source(d) \in HttpPeers
      => Len(skipped[d] \o taken[d]) \in MessageEnds[Source(d)]

(* What a pump takes from its buffer as HTTP is the message that begins at that
   place of the whole stream, as the framing of the stream alone says: the ends
   of messages do not depend on how recv cut the stream up, on how much of a
   body was in the buffer, or on the other pump. *)
CutsAreTheStreams ==
  [][\A d \in Directions :
       taken'[d] # taken[d] /\ kind'[d] = "Http"
         => Len(taken'[d]) - Len(taken[d])
              \in TryTakeHttpMessage(From(Script[Source(d)], Len(skipped[d] \o taken[d]) + 1))]_vars

(* Both peers keep reading, neither closes, and the pumps run: then what both
   have written reaches the other side, patched. *)
Undisturbed ==
  /\ pc = "join_outbound"
  /\ \A p \in Peers : health[p] = "ok" /\ ~eof[p]

(* Everything the source of d has written has been patched and accepted by
   the kernel for the target, but for what the handler dropped. *)
Forwarded(d) ==
  /\ Len(skipped[d] \o taken[d]) = Len(Script[Source(d)])
  /\ out[Target(d)] = emitted[d]

(* A stream whose connection stays up is forwarded to its end, in both
   directions. *)
EventuallyForwarded ==
  \A d \in Directions : (<>[]Undisturbed) => <>Forwarded(d)

(* A pump that holds a part of an HTTP message and no more: it goes round its
   loop without calling recv, and never sees a close, a reset or a shutdown. *)
Spins(d) == ppc[d] = "loop" /\ buf[d] # <<>> /\ PayloadLengths(d) = {}

(* When a peer closes or resets its connection the session ends: both pumps
   stop, handle_client joins them and closes both sockets.  Only a pump that
   spins on a part of a message, its own peer's or the other's, keeps it. *)
SessionEnds ==
  \A p \in Peers :
    (eof[p] \/ health[p] = "reset") ~> (pc = "done" \/ \E d \in Directions : Spins(d))

=============================================================================
