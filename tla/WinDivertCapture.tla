-------------------------- MODULE WinDivertCapture --------------------------
(***************************************************************************)
(* WinDivertCapture and the flow table between it and the servers: the     *)
(* capture thread takes a packet, remembers where it was going, redirects  *)
(* it to the proxy and sends it on; a thread of the proxy, to which the    *)
(* local stack delivers it, looks its sender up.                           *)
(*                                                                         *)
(* An IPv4 address is its four bytes in memory, an IPv6 one a model value. *)
(* The tests on lengths are folded into `whole': the IP header and the     *)
(* transport header are both there.                                        *)
(***************************************************************************)
EXTENDS FlowTable, Sequences, SequencesExt

CONSTANTS
  Packets,          \* what WinDivertRecv may return
  Capture,          \* the capture thread, one of Threads
  LoopbackIpv6,     \* ::1
  ListenPort,       \* tcp_listen_port or udp_listen_port, by protocol
  Enabled,          \* tcp_enabled or udp_enabled, by protocol
  ListenFamily,     \* the family of the listening sockets, 4 or 6
  MaxInbox          \* bound: the packets that wait in the listening sockets

Protocols == {"tcp", "udp"}

(* The key of a mapping is (protocol, source ip as text, source port). *)
Key(p) == <<p.protocol, p.src, p.sport>>
Target(p) == <<p.dst, p.dport>>

(* The TCP clients' threads and the UDP thread. *)
Workers == Threads \ {Capture}

ASSUME CaptureAssumption ==
  /\ Capture \in Threads
  /\ ListenPort \in [Protocols -> Nat]
  /\ Enabled \in [Protocols -> BOOLEAN]
  /\ ListenFamily \in {4, 6}
  /\ MaxInbox \in Nat
  /\ Packets # {}

VARIABLES
  stop,        \* stop_requested
  pc,          \* where run is
  original,    \* the packet under way, as captured; the first one when none is
  inbox,       \* redirected packets the local stack has given to the proxy
  held,        \* the packet whose sender a worker looks up
  overtaken    \* history: packets whose sender has been redirected elsewhere since

captureVars == <<stop, pc, original, inbox, held, overtaken>>

AnyPacket == CHOOSE p \in Packets : TRUE

CaptureInit ==
  /\ Init
  /\ stop = FALSE
  /\ pc = "top"
  /\ original = AnyPacket
  /\ inbox = {}
  /\ held = [w \in Workers |-> original]
  /\ overtaken = {}

-----------------------------------------------------------------------------

(* k_loopback_ipv4_network_order = 0x0100007F, as a word of a little-endian
   machine lies in memory. *)
LoopbackIpv4NetworkOrder == <<127, 0, 0, 1>>

(* htonl of a little-endian machine swaps the bytes of a word. *)
Htonl(word) == Reverse(word)

(* What rewrite_packet_to_local_proxy takes for the loopback address and
   redirects to. *)
Loopback(version) ==
  IF version = 4 THEN Htonl(LoopbackIpv4NetworkOrder) ELSE LoopbackIpv6

(* The packets that rewrite_packet_to_local_proxy redirects. *)
Redirects(p) ==
  /\ p.whole
  /\ p.version \in {4, 6}
  /\ p.dst # Loopback(p.version)
  /\ p.protocol \in Protocols
  /\ Enabled[p.protocol]
  /\ p.dport # ListenPort[p.protocol]

Redirected(p) ==
  [p EXCEPT !.dst = Loopback(p.version), !.dport = ListenPort[p.protocol]]

(* packet_buffer: the packet under way, rewritten before it is sent. *)
Packet == IF pc = "send" /\ Redirects(original) THEN Redirected(original) ELSE original

(* Mutant of Receive: the rewritten packet is remembered. *)
ReceiveRemembersLate(p) ==
  /\ pc = "top"
  /\ ~stop
  /\ original' = p
  /\ IF Redirects(p)
       THEN CallRemember(Capture, Key(p), Target(Redirected(p))) /\ pc' = "rewrite"
       ELSE UNCHANGED vars /\ pc' = "send"
  /\ UNCHANGED <<stop, inbox, held, overtaken>>

(* Mutant of Receive: the packet is sent while the mapping still waits for the
   mutex. *)
ReceiveSendsFirst(p) ==
  /\ pc = "top"
  /\ ~stop
  /\ original' = p
  /\ IF Redirects(p) THEN CallRemember(Capture, Key(p), Target(p)) ELSE UNCHANGED vars
  /\ pc' = "send"
  /\ UNCHANGED <<stop, inbox, held, overtaken>>

(* WinDivertRecv returns a packet.  If it is one to redirect, remember_mapping
   is called with where it was going, and samples the clock. *)
Receive(p) ==
  /\ pc = "top"
  /\ ~stop
  /\ original' = p
  /\ IF Redirects(p)
       THEN CallRemember(Capture, Key(p), Target(p)) /\ pc' = "rewrite"
       ELSE UNCHANGED vars /\ pc' = "send"
  /\ UNCHANGED <<stop, inbox, held, overtaken>>

(* The packets that wait for a worker or for its lookup. *)
InProxy == inbox \cup {held[w] : w \in Workers}

(* The mapping is in the table; then the packet is changed. *)
Rewrite ==
  /\ pc = "rewrite"
  /\ Remember(Capture)
  /\ overtaken' =
       {p \in InProxy : IF Key(p) = Key(original) THEN Target(p) # Target(original)
                        ELSE p \in overtaken}
  /\ pc' = "send"
  /\ UNCHANGED <<stop, original, inbox, held>>

(* The local stack gives a packet for the loopback address and a listening
   port to the proxy; IPv4 reaches a dual-stack IPv6 socket as well. *)
LocalAddress(version) == IF version = 4 THEN <<127, 0, 0, 1>> ELSE LoopbackIpv6

Delivered(p) ==
  /\ p.whole
  /\ p.protocol \in Protocols
  /\ Enabled[p.protocol]
  /\ p.dst = LocalAddress(p.version)
  /\ p.dport = ListenPort[p.protocol]
  /\ p.version <= ListenFamily

(* WinDivertSend. *)
Send ==
  /\ pc = "send"
  /\ inbox' = IF Delivered(Packet) /\ Cardinality(inbox) < MaxInbox
                THEN inbox \cup {original} ELSE inbox
  /\ original' = AnyPacket
  /\ pc' = "top"
  /\ UNCHANGED <<vars, stop, held, overtaken>>

(* WinDivertSend fails: the packet is lost. *)
SendFail ==
  /\ pc = "send"
  /\ original' = AnyPacket
  /\ pc' = "top"
  /\ UNCHANGED <<vars, stop, inbox, held, overtaken>>

Finish ==
  /\ pc = "top"
  /\ stop
  /\ pc' = "done"
  /\ UNCHANGED <<vars, stop, original, inbox, held, overtaken>>

RequestStop ==
  /\ ~stop
  /\ stop' = TRUE
  /\ UNCHANGED <<vars, pc, original, inbox, held, overtaken>>

(* endpoint_ip_to_string of the sender, at the proxy: a dual-stack socket
   shows an IPv4 sender as an IPv6 address. *)
SenderKey(p) ==
  IF p.version < ListenFamily
    THEN <<p.protocol, <<"mapped", p.src>>, p.sport>>
    ELSE Key(p)

(* FlowKey has room for every sender, FlowEntry for every target. *)
ASSUME KeysAssumption ==
  \A p \in Packets :
    /\ Redirects(p) => Key(p) \in Keys /\ Target(p) \in Dests
    /\ Redirects(p) \/ Delivered(p) => SenderKey(p) \in Keys

(* The call of handle_client and of UdpProxyServer::serve ... *)
Lookup(w, p) ==
  /\ p \in inbox
  /\ CallLookup(w, SenderKey(p))
  /\ inbox' = inbox \ {p}
  /\ held' = [held EXCEPT ![w] = p]
  /\ UNCHANGED <<stop, pc, original, overtaken>>

(* ... and what it returns. *)
Answer(w) ==
  /\ LookupHit(w) \/ LookupMiss(w)
  /\ held' = [held EXCEPT ![w] = AnyPacket]
  /\ UNCHANGED <<stop, pc, original, inbox>>
  /\ overtaken' = overtaken \cap InProxy'

Time == Tick /\ UNCHANGED captureVars

(* run waits for a packet, or has returned. *)
Waits == pc \in {"top", "done"} /\ UNCHANGED <<vars, captureVars>>

CaptureNext ==
  \/ \E p \in Packets : Receive(p)
  \/ Rewrite
  \/ Send
  \/ SendFail
  \/ Finish
  \/ RequestStop
  \/ \E w \in Workers : Answer(w) \/ \E p \in inbox : Lookup(w, p)
  \/ Time
  \/ Waits

CaptureSpec == CaptureInit /\ [][CaptureNext]_<<vars, captureVars>>

-----------------------------------------------------------------------------
(* Properties *)

(* The capture thread and the packets under way; a packet is sent only when its
   mapping is in the table. *)
CaptureTypeOK ==
  /\ stop \in BOOLEAN
  /\ pc \in {"top", "rewrite", "send", "done"}
  /\ original \in Packets
  /\ pc = "rewrite" <=> op[Capture].call = "remember"
  /\ inbox \subseteq Packets
  /\ held \in [Workers -> Packets]
  /\ overtaken \subseteq Packets

(* Type invariant of the capture and of the table it fills. *)
RedirectionTypeOK == TypeOK /\ CaptureTypeOK

(* A packet that names the listening port itself, or whose sender the proxy
   sees under another name than the capture thread. *)
Direct(p) == ~Redirects(p) \/ SenderKey(p) # Key(p)

(* What the proxy finds for a packet it was given: the target the packet had
   when it was captured, unless its sender has been redirected elsewhere since;
   nothing only if no packet of the sender was redirected within the lifetime of
   a mapping.  A packet that was addressed to the proxy finds nothing, unless its
   port was redirected within that lifetime: then it is mistaken for one of
   that conversation. *)
RightAnswer(w) ==
  LET p == held[w]
      k == SenderKey(p)
  IN  IF k \in present'
        THEN IF Direct(p) THEN clock - lastUse[k] <= TTL + MaxSkew
             ELSE dest[k] = Target(p) \/ p \in overtaken
        ELSE Direct(p) \/ (lastUse[k] # Never /\ clock - lastUse[k] > TTL - MaxSkew)

TransparentTarget ==
  [][ \A w \in Workers : op[w] # Idle /\ op'[w] = Idle => RightAnswer(w) ]_vars

=============================================================================
