------------------------------ MODULE UdpProxy ------------------------------
(***************************************************************************)
(* The UDP path: WinDivert redirects a client's datagram to the proxy and  *)
(* remembers where it was going; UdpProxyServer::serve takes one datagram  *)
(* at a time, looks its sender up, forwards it and waits up to a second on *)
(* the socket it shares between all clients for a datagram to send back.   *)
(*                                                                         *)
(* A datagram is an identity: patches change its bytes, never where it     *)
(* goes.  The flow table is its mapping per client, with the time of its   *)
(* last use: a lookup finds it expired when the datagrams before took too  *)
(* long.  That clocks are sampled before the mutex is FlowTable's; that    *)
(* the proxy's own datagrams are captured too is RedirectionLoop's.        *)
(***************************************************************************)
EXTENDS Integers, Sequences

CONSTANTS
  Clients,       \* (ip, port) of the clients
  Servers,       \* the targets the clients address
  Default,       \* udp_upstream_host and udp_upstream_port, the target of a
                 \* client that addresses the proxy itself
  Family,        \* the upstream socket a target is reached with
  Addresses,     \* the targets each client addresses
  TTL,           \* k_entry_ttl_millis
  MaxClock,      \* bound on the clock, for TLC
  MaxDatagrams,  \* bound on the clients' datagrams, for TLC
  MaxQueued      \* the datagrams an upstream socket has room for

Targets == Servers \cup {Default}
Sockets == {"v4", "v6"}
None == "none"

ASSUME ParametersAssumption ==
  /\ Family \in [Targets -> Sockets]
  /\ Addresses \in [Clients -> SUBSET Targets]
  /\ None \notin Targets \cup Clients
  /\ TTL \in Nat
  /\ MaxClock \in Nat
  /\ MaxDatagrams \in Nat
  /\ MaxQueued \in Nat

VARIABLES
  clock,     \* steady_clock
  stop,      \* stop_requested
  pc,        \* where serve is
  open,      \* the open sockets
  flow,      \* flow_table_: destination_host and destination_port of a sender
  touched,   \* flow_table_: touched_millis
  listenq,   \* datagrams queued at the listening socket
  cur,       \* the datagram of this turn of the loop: buffer, client_endpoint
  target,    \* upstream_host and upstream_port
  reply,     \* upstream_buffer: the identity of the request it answers, or 0
  rx,        \* what is queued at the upstream sockets
  sent,      \* history: the datagrams clients have sent: target, time
  looked,    \* history: the time of the last lookup
  clean,     \* history: the first datagram to come to the upstream socket
             \* since it was empty at this turn's sendto is the answer
  routed,    \* history: every sendto upstream: datagram, target, lookup time
  delivered, \* history: every sendto client: client, reply, clean
  last       \* history: the datagram forwarded last

tableVars == <<flow, touched>>
turnVars == <<cur, target, reply, looked, clean>>
histVars == <<routed, delivered, last>>
vars == <<clock, stop, pc, open, flow, touched, listenq, cur, target, reply, rx, sent,
          looked, clean, routed, delivered, last>>

NoDatagram == [id |-> 0, from |-> None]

(* The turn of the loop is over, and with it the scope of its variables. *)
EndTurn ==
  /\ pc' = "loop"
  /\ cur' = NoDatagram
  /\ target' = Default
  /\ reply' = 0
  /\ looked' = 0
  /\ clean' = TRUE

Init ==
  /\ clock = 0
  /\ stop = FALSE
  /\ pc = "setup"
  /\ open = {}
  /\ flow = [s \in Clients |-> None]
  /\ touched = [s \in Clients |-> 0]
  /\ listenq = <<>>
  /\ cur = NoDatagram
  /\ target = Default
  /\ reply = 0
  /\ rx = [s \in Sockets |-> <<>>]
  /\ sent = <<>>
  /\ looked = 0
  /\ clean = TRUE
  /\ routed = {}
  /\ delivered = {}
  /\ last = 0

-----------------------------------------------------------------------------
(* The environment: time, clients, WinDivert, servers, the other threads. *)

Tick ==
  /\ clock < MaxClock
  /\ clock' = clock + 1
  /\ UNCHANGED <<stop, pc, open, tableVars, listenq, turnVars, rx, sent, histVars>>

(* rewrite_packet_to_local_proxy, for UDP: the target is remembered under the
   sender.  An IPv6 datagram reaches the listening socket; an IPv4 one is sent
   to 1.0.0.127 (WinDivertCapture) and lost. *)
Redirect(id, from, to) ==
  /\ flow' = [flow EXCEPT ![from] = to]
  /\ touched' = [touched EXCEPT ![from] = clock]
  /\ listenq' = IF Family[to] = "v6"
                  THEN Append(listenq, [id |-> id, from |-> from])
                  ELSE listenq

(* A client sends a datagram to a server, or to the proxy's own port, which
   WinDivert leaves alone. *)
ClientSend(c, t) ==
  /\ Len(sent) < MaxDatagrams
  /\ "listen" \in open
  /\ sent' = Append(sent, [from |-> c, to |-> t, at |-> clock])
  /\ IF t = Default
       THEN /\ listenq' = Append(listenq, [id |-> Len(sent) + 1, from |-> c])
            /\ UNCHANGED tableVars
       ELSE Redirect(Len(sent) + 1, c, t)
  /\ UNCHANGED <<clock, stop, pc, open, turnVars, rx, histVars>>

(* A datagram comes to an upstream socket that is open and has room: the answer
   to datagram id, or another one (id = 0). *)
Arrive(s, id) ==
  /\ s \in open
  /\ Len(rx[s]) < MaxQueued
  /\ rx' = [rx EXCEPT ![s] = Append(@, id)]
  /\ clean' = (clean /\ (pc = "await" /\ s = Family[target] /\ rx[s] = <<>> => id = cur.id))
  /\ UNCHANGED <<clock, stop, pc, open, tableVars, listenq, cur, target, reply,
                 looked, sent, histVars>>

(* The target of a request answers it: once, more often, or never. *)
ServerReply(r) ==
  /\ r \in routed
  /\ Arrive(Family[r.to], r.id)

(* Anyone may send to the port of an upstream socket, which it has from its
   first sendto on. *)
Stray(s) ==
  /\ \E r \in routed : Family[r.to] = s
  /\ Arrive(s, 0)

(* The main thread or another server thread asks for the end. *)
RequestStop ==
  /\ ~stop
  /\ stop' = TRUE
  /\ UNCHANGED <<clock, pc, open, tableVars, listenq, turnVars, rx, sent, histVars>>

-----------------------------------------------------------------------------
(* serve *)

(* The listening socket and the IPv4 one are there and bound; the IPv6 one may
   be missing. *)
Setup ==
  /\ pc = "setup"
  /\ open' \in {{"listen", "v4"}, {"listen", "v4", "v6"}}
  /\ pc' = "loop"
  /\ UNCHANGED <<clock, stop, tableVars, listenq, turnVars, rx, sent, histVars>>

(* A step of the setup fails: every socket made so far is closed. *)
SetupFail ==
  /\ pc = "setup"
  /\ stop' = TRUE
  /\ pc' = "done"
  /\ UNCHANGED <<clock, open, tableVars, listenq, turnVars, rx, sent, histVars>>

(* Mutant of Finish: the IPv6 socket is left open. *)
FinishLeaks ==
  /\ pc = "loop"
  /\ stop
  /\ open' = open \cap {"v6"}
  /\ pc' = "done"
  /\ UNCHANGED <<clock, stop, tableVars, listenq, turnVars, rx, sent, histVars>>

(* The loop sees stop_requested, and closes the sockets. *)
Finish ==
  /\ pc = "loop"
  /\ stop
  /\ open' = {}
  /\ pc' = "done"
  /\ UNCHANGED <<clock, stop, tableVars, listenq, turnVars, rx, sent, histVars>>

(* The entry of a sender is there and has expired. *)
Expired(c) == flow[c] # None /\ clock - touched[c] > TTL

(* What try_get_upstream returns for a sender. *)
Found(c) == IF Expired(c) THEN None ELSE flow[c]

(* Mutants of Lookup: a hit does not renew the entry; a sender without an entry
   gets no target. *)
LookupKeepsAge(c) ==
  /\ flow' = [flow EXCEPT ![c] = Found(c)]
  /\ target' = IF Found(c) = None THEN Default ELSE Found(c)
  /\ UNCHANGED touched

LookupNoDefault(c) ==
  /\ flow' = [flow EXCEPT ![c] = Found(c)]
  /\ touched' = IF Found(c) = None THEN touched ELSE [touched EXCEPT ![c] = clock]
  /\ target' = Found(c)

(* The sender is looked up: the remembered target, whose entry is renewed, or
   the configured one; an entry that has expired is erased. *)
Lookup(c) ==
  /\ flow' = [flow EXCEPT ![c] = Found(c)]
  /\ touched' = IF Found(c) = None THEN touched ELSE [touched EXCEPT ![c] = clock]
  /\ target' = IF Found(c) = None THEN Default ELSE Found(c)

(* Mutant of Receive: the datagram stays in the queue. *)
ReceivePeek ==
  /\ pc = "loop"
  /\ ~stop
  /\ listenq # <<>>
  /\ cur' = Head(listenq)
  /\ Lookup(Head(listenq).from)
  /\ looked' = clock
  /\ pc' = "forward"
  /\ UNCHANGED <<clock, stop, open, listenq, reply, rx, sent, clean, histVars>>

(* recvfrom returns a datagram. *)
Receive ==
  /\ pc = "loop"
  /\ ~stop
  /\ listenq # <<>>
  /\ cur' = Head(listenq)
  /\ listenq' = Tail(listenq)
  /\ Lookup(Head(listenq).from)
  /\ looked' = clock
  /\ pc' = "forward"
  /\ UNCHANGED <<clock, stop, open, reply, rx, sent, clean, histVars>>

(* `continue' before anything is sent: the target does not resolve, there is
   no IPv6 socket, or sendto fails. *)
Drop ==
  /\ pc = "forward"
  /\ EndTurn
  /\ UNCHANGED <<clock, stop, open, tableVars, listenq, rx, sent, histVars>>

(* sendto on the socket of the target's family. *)
Forward ==
  LET s == Family[target] IN
  /\ pc = "forward"
  /\ s \in open
  /\ routed' = routed \cup {[id |-> cur.id, to |-> target, at |-> looked]}
  /\ last' = cur.id
  /\ clean' = (rx[s] = <<>>)
  /\ pc' = "await"
  /\ UNCHANGED <<clock, stop, open, tableVars, listenq, cur, target, reply, looked,
                 rx, sent, delivered>>

(* Mutant of ReceiveReply: the IPv4 socket is read whatever the target is. *)
ReceiveReplyV4 ==
  /\ pc = "await"
  /\ rx["v4"] # <<>>
  /\ reply' = Head(rx["v4"])
  /\ rx' = [rx EXCEPT !["v4"] = Tail(@)]
  /\ pc' = "reply"
  /\ UNCHANGED <<clock, stop, open, tableVars, listenq, cur, target, looked, clean,
                 sent, histVars>>

(* recvfrom on that socket: whatever datagram is first in its queue, whoever
   upstream_sender is. *)
ReceiveReply ==
  LET s == Family[target] IN
  /\ pc = "await"
  /\ rx[s] # <<>>
  /\ reply' = Head(rx[s])
  /\ rx' = [rx EXCEPT ![s] = Tail(@)]
  /\ pc' = "reply"
  /\ UNCHANGED <<clock, stop, open, tableVars, listenq, cur, target, looked, clean,
                 sent, histVars>>

(* It times out, with nothing to read, or fails for another reason. *)
NoReply ==
  /\ pc = "await"
  /\ EndTurn
  /\ UNCHANGED <<clock, stop, open, tableVars, listenq, rx, sent, histVars>>

(* sendto the client of this turn; a failure is logged and nothing else. *)
SendReply ==
  /\ pc = "reply"
  /\ delivered' \in
       {delivered, delivered \cup {[client |-> cur.from, id |-> reply, clean |-> clean]}}
  /\ EndTurn
  /\ UNCHANGED <<clock, stop, open, tableVars, listenq, rx, sent, routed, last>>

Serve ==
  \/ Setup \/ SetupFail \/ Finish
  \/ Receive \/ Drop \/ Forward \/ ReceiveReply \/ NoReply \/ SendReply

(* serve waits for a datagram, time after time, or has returned. *)
Idle ==
  /\ pc = "done" \/ (pc = "loop" /\ ~stop /\ listenq = <<>>)
  /\ UNCHANGED vars

Environment ==
  \/ Tick
  \/ \E c \in Clients : \E t \in Addresses[c] : ClientSend(c, t)
  \/ \E r \in routed : ServerReply(r)
  \/ \E s \in Sockets : Stray(s)
  \/ RequestStop

Next == Serve \/ Environment \/ Idle

Spec == Init /\ [][Next]_vars

(* The thread is scheduled, and its blocking calls have timeouts. *)
FairSpec == Spec /\ WF_vars(Serve)

-----------------------------------------------------------------------------
(* Properties *)

Ids == 0..MaxDatagrams
Times == 0..MaxClock

(* Type invariant of the UDP path. *)
TypeOK ==
  /\ clock \in Times
  /\ stop \in BOOLEAN
  /\ pc \in {"setup", "loop", "forward", "await", "reply", "done"}
  /\ open \subseteq Sockets \cup {"listen"}
  /\ flow \in [Clients -> Targets \cup {None}]
  /\ touched \in [Clients -> Times]
  /\ listenq \in Seq([id : Ids, from : Clients])
  /\ cur \in [id : Ids, from : Clients \cup {None}]
  /\ target \in Targets
  /\ reply \in Ids
  /\ rx \in [Sockets -> Seq(Ids)]
  /\ sent \in Seq([from : Clients, to : Targets, at : Times])
  /\ Len(sent) <= MaxDatagrams
  /\ looked \in Times
  /\ clean \in BOOLEAN
  /\ routed \subseteq [id : Ids, to : Targets, at : Times]
  /\ delivered \subseteq [client : Clients, id : Ids, clean : BOOLEAN]
  /\ last \in Ids

(* t is where datagram k was addressed to or, from the same port, a later one;
   a datagram addressed to the proxy itself may also go where the port was
   redirected last before it. *)
Addressed(k, t) ==
  \E i \in 1..Len(sent) :
    /\ sent[i].from = sent[k].from
    /\ sent[i].to = t
    /\ \A j \in (i + 1)..k : sent[j].from = sent[i].from => sent[j].to = Default

(* By time t the port of datagram k has had no use of its mapping, by a
   redirection or by a lookup for an earlier datagram, for longer than TTL. *)
Unused(k, t) ==
  /\ \A j \in 1..k : sent[j].from = sent[k].from /\ sent[j].to # Default => t - sent[j].at > TTL
  /\ \A q \in routed :
       q.id < k /\ sent[q.id].from = sent[k].from /\ q.to # Default => t - q.at > TTL

(* Every datagram that serve forwards goes to the target its client addressed
   with it (Addressed); the table has one mapping for a port, which never is
   another client's.  The configured target is for a port with no mapping or
   with one that nothing has used for the lifetime of a mapping, be it because
   the datagram waited in the queue as long: its client may have addressed
   another. *)
OriginalTarget ==
  \A r \in routed : IF r.to = Default THEN Unused(r.id, r.at) ELSE Addressed(r.id, r.to)

(* An answer is sent to the client whose datagram it answers. *)
ReplyToRequester ==
  \A d \in delivered : d.id # 0 => d.client = sent[d.id].from

(* Whatever waits on the other family's socket and whatever went wrong before:
   when the upstream socket is empty at the sendto and the first datagram to
   come is the answer, what the client gets is the answer to its own datagram. *)
UndisturbedReply ==
  \A d \in delivered : d.clean => d.id # 0 /\ d.client = sent[d.id].from

(* A datagram is forwarded at most once, and never after a later one. *)
OnceInOrder == [][pc = "forward" /\ pc' = "await" => last' > last]_vars

(* Once stop_requested is set, serve closes its sockets and returns, however
   much traffic there is. *)
Stops == stop ~> (pc = "done" /\ open = {})

=============================================================================
