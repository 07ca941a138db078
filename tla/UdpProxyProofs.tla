--------------------------- MODULE UdpProxyProofs ---------------------------
(***************************************************************************)
(* Proofs about UdpProxy, for any clients, servers and addresses, any      *)
(* number of datagrams and any lifetime of a mapping: where the datagrams  *)
(* go, in which order, and whom an undisturbed answer goes to.             *)
(***************************************************************************)
EXTENDS UdpProxy, TLAPS

Sent == 1..Len(sent)

(* OriginalTarget of one datagram. *)
MayGo(k, t, at) == IF t = Default THEN Unused(k, at) ELSE Addressed(k, t)

(* When the client of one datagram, and no Default, was involved. *)
Redirections(c) == {j \in Sent : sent[j].from = c /\ sent[j].to # Default}
Hits(c) == {q \in routed : sent[q.id].from = c /\ q.to # Default}

(* The table has a client's last redirected datagram, with a time no use of the
   mapping is later than; or no use was within its lifetime. *)
FlowInv ==
  \A c \in Clients :
    /\ touched[c] <= clock
    /\ flow[c] # Default
    /\ flow[c] = None =>
         /\ \A j \in Redirections(c) : clock - sent[j].at > TTL
         /\ \A q \in Hits(c) : clock - q.at > TTL
    /\ flow[c] # None =>
         /\ \A j \in Redirections(c) : sent[j].at <= touched[c]
         /\ \A q \in Hits(c) : q.at <= touched[c]
         /\ \E i \in Sent :
              /\ sent[i].from = c
              /\ sent[i].to = flow[c]
              /\ \A j \in (i + 1)..Len(sent) : sent[j].from = c => sent[j].to = Default

(* What waits in the listening socket has been sent, in this order, and after
   everything that has been forwarded. *)
QueueInv ==
  /\ \A i \in 1..Len(listenq) :
       /\ listenq[i].id \in Sent
       /\ listenq[i].from = sent[listenq[i].id].from
       /\ listenq[i].id > last
  /\ \A i, j \in 1..Len(listenq) : i < j => listenq[i].id < listenq[j].id

(* The datagram of this turn has been sent by the client it is kept with; until
   it is forwarded it is older than the queue, and the entry it was found with,
   if it was, is there. *)
TurnInv ==
  /\ last <= Len(sent)
  /\ pc \in {"forward", "await", "reply"} =>
       cur.id \in Sent /\ cur.from = sent[cur.id].from
  /\ pc = "forward" =>
       /\ cur.id > last
       /\ \A i \in 1..Len(listenq) : cur.id < listenq[i].id
       /\ MayGo(cur.id, target, looked)
       /\ target # Default => flow[cur.from] # None /\ looked <= touched[cur.from]

RoutedInv ==
  \A r \in routed : r.id \in Sent /\ r.id <= last /\ MayGo(r.id, r.to, r.at)

(* While nothing has disturbed the wait, the first datagram on the socket is the
   answer, if there is one. *)
CleanInv ==
  /\ pc = "await" /\ clean =>
       rx[Family[target]] = <<>> \/ rx[Family[target]][1] = cur.id
  /\ pc = "reply" /\ clean => reply = cur.id
  /\ \A d \in delivered : d.clean => d.id \in Sent /\ d.client = sent[d.id].from

(* The inductive invariant. *)
UdpInv ==
  /\ TypeOK
  /\ FlowInv
  /\ QueueInv
  /\ TurnInv
  /\ RoutedInv
  /\ CleanInv

(* The proxy begins with nothing sent. *)
LEMMA InitUdp == Init => UdpInv
<1> SUFFICES ASSUME Init PROVE UdpInv
  OBVIOUS
<1> USE ParametersAssumption DEF Init
<1>1. TypeOK
  <2>1. flow \in [Clients -> Targets \cup {None}] /\ target \in Targets
    BY DEF Targets
  <2>2. cur \in [id : Ids, from : Clients \cup {None}] /\ reply \in Ids /\ last \in Ids
    BY DEF NoDatagram, Ids
  <2>3. /\ listenq \in Seq([id : Ids, from : Clients])
        /\ sent \in Seq([from : Clients, to : Targets, at : Times])
        /\ Len(sent) <= MaxDatagrams
    OBVIOUS
  <2>4. rx \in [Sockets -> Seq(Ids)]
    OBVIOUS
  <2>5. clock \in Times /\ looked \in Times /\ touched \in [Clients -> Times]
    BY DEF Times
  <2> QED
    BY <2>1, <2>2, <2>3, <2>4, <2>5 DEF TypeOK
<1>2. FlowInv
  BY DEF FlowInv, Redirections, Hits, Sent, Targets
<1>3. QueueInv /\ TurnInv /\ RoutedInv /\ CleanInv
  BY DEF QueueInv, TurnInv, RoutedInv, CleanInv, Sent
<1> QED
  BY <1>1, <1>2, <1>3 DEF UdpInv

-----------------------------------------------------------------------------
(* Type correctness. *)

(* A queue that grows at its end, and one that is read at its front. *)
LEMMA AppendFacts ==
  ASSUME NEW S, NEW q \in Seq(S), NEW e \in S
  PROVE  /\ Append(q, e) \in Seq(S)
         /\ Len(Append(q, e)) = Len(q) + 1
         /\ \A i \in 1..Len(q) : Append(q, e)[i] = q[i]
         /\ Append(q, e)[Len(q) + 1] = e
  OBVIOUS

LEMMA TailFacts ==
  ASSUME NEW S, NEW q \in Seq(S), q # <<>>
  PROVE  /\ Len(q) \in Nat /\ Len(q) >= 1
         /\ Head(q) = q[1] /\ Head(q) \in S
         /\ Tail(q) \in Seq(S)
         /\ Len(Tail(q)) = Len(q) - 1
         /\ \A i \in 1..Len(Tail(q)) : Tail(q)[i] = q[i + 1]
  OBVIOUS

LEMMA ElementTyped ==
  ASSUME NEW S, NEW q \in Seq(S), NEW i \in 1..Len(q)
  PROVE  q[i] \in S
  OBVIOUS

(* What was sent is a datagram. *)
LEMMA SentTyped ==
  ASSUME TypeOK, NEW i \in Sent
  PROVE  sent[i] \in [from : Clients, to : Targets, at : Times]
<1>1. sent \in Seq([from : Clients, to : Targets, at : Times])
  BY DEF TypeOK
<1> QED
  BY <1>1, ElementTyped DEF Sent

(* A datagram is sent, and may be queued. *)
LEMMA ClientSendFacts ==
  ASSUME TypeOK, NEW c \in Clients, NEW t \in Addresses[c], ClientSend(c, t)
  PROVE  /\ t \in Targets /\ t # None
         /\ Len(sent) + 1 \in Ids
         /\ sent' = Append(sent, [from |-> c, to |-> t, at |-> clock])
         /\ \/ listenq' = listenq
            \/ listenq' = Append(listenq, [id |-> Len(sent) + 1, from |-> c])
         /\ flow' = IF t = Default THEN flow ELSE [flow EXCEPT ![c] = t]
         /\ touched' = IF t = Default THEN touched ELSE [touched EXCEPT ![c] = clock]
         /\ UNCHANGED <<clock, pc, cur, target, reply, looked, clean, rx,
                        routed, delivered, last>>
  BY ParametersAssumption
  DEF TypeOK, ClientSend, Redirect, Ids, tableVars, turnVars, histVars

(* What one more datagram makes of the history. *)
LEMMA SentGrows ==
  ASSUME TypeOK, NEW c \in Clients, NEW t \in Addresses[c], ClientSend(c, t)
  PROVE  /\ sent' \in Seq([from : Clients, to : Targets, at : Times])
         /\ Len(sent) \in Nat
         /\ Len(sent') = Len(sent) + 1
         /\ Sent' = 1..(Len(sent) + 1)
         /\ \A i \in Sent : i \in Sent' /\ i < Len(sent) + 1 /\ sent'[i] = sent[i]
         /\ sent'[Len(sent) + 1] = [from |-> c, to |-> t, at |-> clock]
<1> DEFINE e == [from |-> c, to |-> t, at |-> clock]
<1>1. sent' = Append(sent, e) /\ t \in Targets
  BY ClientSendFacts
<1>2. /\ sent \in Seq([from : Clients, to : Targets, at : Times])
      /\ e \in [from : Clients, to : Targets, at : Times]
  BY <1>1 DEF TypeOK
<1>3. Len(sent) \in Nat
  BY <1>2
<1> HIDE DEF e
<1>4. /\ sent' \in Seq([from : Clients, to : Targets, at : Times])
      /\ Len(sent') = Len(sent) + 1
      /\ \A i \in 1..Len(sent) : sent'[i] = sent[i]
      /\ sent'[Len(sent) + 1] = e
  BY <1>1, <1>2, AppendFacts
<1> QED
  BY <1>3, <1>4 DEF Sent, e

(* A datagram that comes to an upstream socket. *)
LEMMA ArriveFacts ==
  ASSUME TypeOK, NEW s \in Sockets, NEW id \in Ids, Arrive(s, id)
  PROVE  /\ rx' \in [Sockets -> Seq(Ids)]
         /\ rx' = [rx EXCEPT ![s] = Append(@, id)]
         /\ clean' \in BOOLEAN
         /\ clean' => clean /\ (pc = "await" /\ s = Family[target] /\ rx[s] = <<>> => id = cur.id)
         /\ UNCHANGED <<clock, stop, pc, open, flow, touched, listenq, cur, target, reply,
                        looked, sent, routed, delivered, last>>
<1>1. /\ rx' = [rx EXCEPT ![s] = Append(@, id)]
      /\ UNCHANGED <<clock, stop, pc, open, flow, touched, listenq, cur, target, reply,
                     looked, sent, routed, delivered, last>>
  BY DEF Arrive, tableVars, histVars
<1>2. rx' \in [Sockets -> Seq(Ids)]
  <2>1. rx \in [Sockets -> Seq(Ids)]
    BY DEF TypeOK
  <2>2. Append(rx[s], id) \in Seq(Ids)
    BY <2>1, AppendFacts
  <2> QED
    BY <1>1, <2>1, <2>2
<1>3. /\ clean' \in BOOLEAN
      /\ clean' => clean /\ (pc = "await" /\ s = Family[target] /\ rx[s] = <<>> => id = cur.id)
  BY Zenon DEF Arrive
<1> QED
  BY <1>1, <1>2, <1>3

(* The steps that bring a datagram to an upstream socket. *)
LEMMA Arrivals ==
  ASSUME TypeOK,
         \/ \E r \in routed : ServerReply(r)
         \/ \E s \in Sockets : Stray(s)
  PROVE  \E s \in Sockets, id \in Ids : Arrive(s, id)
<1>1. ASSUME NEW r \in routed, ServerReply(r) PROVE Family[r.to] \in Sockets /\ r.id \in Ids
  BY ParametersAssumption DEF TypeOK
<1>2. 0 \in Ids
  BY ParametersAssumption DEF Ids
<1> QED
  BY <1>1, <1>2 DEF ServerReply, Stray, Arrive

(* The steps of the environment are typed. *)
LEMMA EnvironmentTyped ==
  ASSUME TypeOK, Environment
  PROVE  TypeOK'
<1> USE DEF tableVars, turnVars, histVars
<1>1. ASSUME NEW c \in Clients, NEW t \in Addresses[c], ClientSend(c, t) PROVE TypeOK'
  <2>1. t \in Targets /\ Len(sent) + 1 \in Ids
    BY <1>1, ClientSendFacts
  <2>2. sent' \in Seq([from : Clients, to : Targets, at : Times]) /\ Len(sent') <= MaxDatagrams
    <3>1. /\ Len(sent') = Len(sent) + 1
          /\ sent' \in Seq([from : Clients, to : Targets, at : Times])
      BY <1>1, SentGrows
    <3> QED
      BY <3>1, <2>1, ParametersAssumption DEF Ids, TypeOK
  <2>3. listenq' \in Seq([id : Ids, from : Clients])
    <3>1. \/ listenq' = listenq
          \/ listenq' = Append(listenq, [id |-> Len(sent) + 1, from |-> c])
      BY <1>1, ClientSendFacts
    <3>2. [id |-> Len(sent) + 1, from |-> c] \in [id : Ids, from : Clients]
      BY <2>1
    <3>3. listenq \in Seq([id : Ids, from : Clients])
      BY DEF TypeOK
    <3>4. Append(listenq, [id |-> Len(sent) + 1, from |-> c]) \in Seq([id : Ids, from : Clients])
      BY <3>2, <3>3, AppendFacts
    <3> QED
      BY <3>1, <3>3, <3>4
  <2>4. flow' \in [Clients -> Targets \cup {None}] /\ touched' \in [Clients -> Times]
    BY <1>1, <2>1, ClientSendFacts DEF TypeOK
  <2> QED
    BY <1>1, <2>2, <2>3, <2>4 DEF ClientSend, TypeOK
<1>2. CASE (\E r \in routed : ServerReply(r)) \/ (\E s \in Sockets : Stray(s))
  <2>1. PICK s \in Sockets, id \in Ids : Arrive(s, id)
    BY <1>2, Arrivals
  <2> QED
    BY <1>2, <2>1, Arrivals, ArriveFacts DEF TypeOK
<1>4. CASE RequestStop
  BY <1>4 DEF RequestStop, TypeOK
<1>5. CASE Tick
  <2>1. clock' \in Times
    BY <1>5, ParametersAssumption DEF Tick, TypeOK, Times
  <2> QED
    BY <1>5, <2>1 DEF Tick, TypeOK
<1> QED
  BY <1>1, <1>2, <1>4, <1>5 DEF Environment

(* recvfrom takes the first datagram of the queue, and looks its sender up. *)
LEMMA ReceiveFacts ==
  ASSUME TypeOK, Receive
  PROVE  /\ Len(listenq) \in Nat
         /\ Len(listenq) >= 1
         /\ cur' = listenq[1]
         /\ cur' \in [id : Ids, from : Clients]
         /\ listenq' \in Seq([id : Ids, from : Clients])
         /\ Len(listenq') = Len(listenq) - 1
         /\ \A i \in 1..Len(listenq') :
              i + 1 \in 1..Len(listenq) /\ listenq'[i] = listenq[i + 1]
         /\ Lookup(cur'.from)
         /\ looked' = clock
         /\ pc = "loop" /\ pc' = "forward"
         /\ UNCHANGED <<clock, stop, open, reply, rx, sent, clean,
                        routed, delivered, last>>
<1>1. /\ listenq # <<>> /\ cur' = Head(listenq) /\ listenq' = Tail(listenq)
      /\ Lookup(Head(listenq).from) /\ looked' = clock
      /\ pc = "loop" /\ pc' = "forward"
      /\ UNCHANGED <<clock, stop, open, reply, rx, sent, clean,
                     routed, delivered, last>>
  BY DEF Receive, histVars
<1>2. listenq \in Seq([id : Ids, from : Clients])
  BY DEF TypeOK
<1>3. /\ Len(listenq) \in Nat
      /\ Len(listenq) >= 1
      /\ cur' = listenq[1]
      /\ cur' \in [id : Ids, from : Clients]
      /\ listenq' \in Seq([id : Ids, from : Clients])
      /\ Len(listenq') = Len(listenq) - 1
      /\ \A i \in 1..Len(listenq') : listenq'[i] = listenq[i + 1]
  BY <1>1, <1>2, TailFacts
<1> QED
  BY <1>1, <1>3

(* A lookup changes the entry of the sender and no other. *)
LEMMA LookupFacts ==
  ASSUME TypeOK, NEW c \in Clients, Lookup(c)
  PROVE  /\ \A d \in Clients : d # c => flow'[d] = flow[d] /\ touched'[d] = touched[d]
         /\ flow'[c] = Found(c)
         /\ touched'[c] = IF Found(c) = None THEN touched[c] ELSE clock
         /\ target' = IF Found(c) = None THEN Default ELSE Found(c)
         /\ flow' \in [Clients -> Targets \cup {None}]
         /\ touched' \in [Clients -> Times]
         /\ target' \in Targets
<1>1. Found(c) \in Targets \cup {None}
  BY DEF TypeOK, Found
<1> QED
  BY <1>1 DEF TypeOK, Lookup, Targets

(* The turn ends. *)
LEMMA EndTurnTyped ==
  ASSUME EndTurn
  PROVE  /\ pc' = "loop"
         /\ cur' \in [id : Ids, from : Clients \cup {None}]
         /\ target' \in Targets
         /\ reply' \in Ids
         /\ looked' \in Times
         /\ clean' \in BOOLEAN
  BY ParametersAssumption DEF EndTurn, NoDatagram, Targets, Ids, Times

(* The steps of serve are typed. *)
LEMMA ServeTyped ==
  ASSUME TypeOK, TurnInv, Serve
  PROVE  TypeOK'
<1> USE DEF tableVars, turnVars, histVars
<1>1. CASE Setup
  BY <1>1 DEF TypeOK, Setup, Sockets
<1>2. CASE SetupFail
  BY <1>2 DEF TypeOK, SetupFail
<1>3. CASE Finish
  BY <1>3 DEF TypeOK, Finish
<1>4. CASE Receive
  <2>1. /\ cur' \in [id : Ids, from : Clients \cup {None}]
        /\ cur'.from \in Clients
        /\ listenq' \in Seq([id : Ids, from : Clients])
        /\ Lookup(cur'.from)
        /\ looked' = clock /\ pc' = "forward"
        /\ UNCHANGED <<clock, stop, open, reply, rx, sent, clean,
                       routed, delivered, last>>
    BY <1>4, ReceiveFacts
  <2>2. PICK c \in Clients : c = cur'.from /\ Lookup(c)
    BY <2>1
  <2>3. /\ flow' \in [Clients -> Targets \cup {None}]
        /\ touched' \in [Clients -> Times]
        /\ target' \in Targets
    BY <2>2, LookupFacts
  <2> QED
    BY <2>1, <2>3 DEF TypeOK
<1>5. CASE Drop
  BY <1>5, EndTurnTyped DEF TypeOK, Drop
<1>6. CASE Forward
  <2>1. [id |-> cur.id, to |-> target, at |-> looked] \in [id : Ids, to : Targets, at : Times]
    BY DEF TypeOK
  <2> QED
    BY <1>6, <2>1 DEF TypeOK, Forward
<1>7. CASE ReceiveReply
  <2>1. Family[target] \in Sockets
    BY ParametersAssumption DEF TypeOK
  <2>2. reply' \in Ids
    BY <1>7, <2>1 DEF TypeOK, ReceiveReply
  <2>3. rx' \in [Sockets -> Seq(Ids)]
    BY <1>7, <2>1 DEF TypeOK, ReceiveReply
  <2> QED
    BY <1>7, <2>2, <2>3 DEF TypeOK, ReceiveReply
<1>8. CASE NoReply
  BY <1>8, EndTurnTyped DEF TypeOK, NoReply
<1>9. CASE SendReply
  <2>1. cur.from \in Clients
    <3>1. cur.id \in Sent /\ cur.from = sent[cur.id].from
      BY <1>9 DEF SendReply, TurnInv
    <3>2. sent[cur.id] \in [from : Clients, to : Targets, at : Times]
      BY <3>1, SentTyped
    <3> QED
      BY <3>1, <3>2
  <2>2. [client |-> cur.from, id |-> reply, clean |-> clean]
          \in [client : Clients, id : Ids, clean : BOOLEAN]
    BY <2>1 DEF TypeOK
  <2>3. delivered' \subseteq [client : Clients, id : Ids, clean : BOOLEAN]
    BY <1>9, <2>2 DEF TypeOK, SendReply
  <2> QED
    BY <1>9, <2>3, EndTurnTyped DEF TypeOK, SendReply
<1> QED
  BY <1>1, <1>2, <1>3, <1>4, <1>5, <1>6, <1>7, <1>8, <1>9 DEF Serve

-----------------------------------------------------------------------------
(* The environment. *)

(* Where a datagram may go does not change with the datagrams sent later. *)
LEMMA MayGoKept ==
  ASSUME TypeOK, RoutedInv, NEW c \in Clients, NEW t \in Addresses[c], ClientSend(c, t),
         NEW k \in Sent, NEW u, NEW at, MayGo(k, u, at)
  PROVE  MayGo(k, u, at)'
<1>a. /\ \A j \in Sent : j \in Sent' /\ sent'[j] = sent[j]
      /\ Len(sent) \in Nat
  BY SentGrows
<1>b. routed' = routed
  BY ClientSendFacts
<1>c. \A j \in 1..k : j \in Sent
  BY <1>a DEF Sent
<1>1. /\ \A j \in Sent : j \in Sent' /\ sent'[j] = sent[j]
      /\ Len(sent) \in Nat /\ routed' = routed
      /\ \A j \in 1..k : j \in Sent
  BY <1>a, <1>b, <1>c
<1>2. CASE u = Default
  <2>1. Unused(k, at)
    BY <1>2 DEF MayGo
  <2>2. \A q \in routed : q.id \in Sent
    BY DEF RoutedInv
  <2>3. Unused(k, at)'
    BY <1>1, <2>1, <2>2 DEF Unused
  <2> QED
    BY <1>2, <2>3 DEF MayGo
<1>3. CASE u # Default
  <2>1. PICK i \in Sent : /\ sent[i].from = sent[k].from
                          /\ sent[i].to = u
                          /\ \A j \in (i + 1)..k :
                               sent[j].from = sent[i].from => sent[j].to = Default
    BY <1>3 DEF MayGo, Addressed, Sent
  <2>2. \A j \in (i + 1)..k : j \in Sent
    BY <1>1 DEF Sent
  <2>3. Addressed(k, u)'
    BY <1>1, <2>1, <2>2 DEF Addressed, Sent
  <2> QED
    BY <1>3, <2>3 DEF MayGo
<1> QED
  BY <1>2, <1>3

(* The mapping of a client is the target of its last redirected datagram, with
   the datagram it sends now. *)
LEMMA ClientSendFlow ==
  ASSUME TypeOK, FlowInv, RoutedInv,
         NEW c \in Clients, NEW t \in Addresses[c], ClientSend(c, t)
  PROVE  FlowInv'
<1> DEFINE n == Len(sent) + 1
<1>1. /\ t \in Targets /\ t # None /\ clock' = clock /\ routed' = routed
      /\ flow' = IF t = Default THEN flow ELSE [flow EXCEPT ![c] = t]
      /\ touched' = IF t = Default THEN touched ELSE [touched EXCEPT ![c] = clock]
  BY ClientSendFacts
<1>2. /\ Len(sent) \in Nat /\ Len(sent') = n /\ Sent' = 1..n /\ n \in Sent'
      /\ \A j \in Sent : j \in Sent' /\ sent'[j] = sent[j]
      /\ sent'[n] = [from |-> c, to |-> t, at |-> clock]
      /\ \A j \in Sent' : j \in Sent \/ j = n
  BY SentGrows DEF Sent
<1>3. clock \in Nat /\ TTL \in Nat /\ touched \in [Clients -> Nat]
  BY ParametersAssumption DEF TypeOK, Times
<1>4. ASSUME NEW d \in Clients PROVE Hits(d)' = Hits(d)
  <2>1. \A q \in routed : q.id \in Sent
    BY DEF RoutedInv
  <2> QED
    BY <1>1, <1>2, <2>1 DEF Hits
<1>5. \A j \in Sent : sent[j].at \in Nat
  BY SentTyped DEF Times
<1>6. \A q \in routed : q.at \in Nat
  BY DEF TypeOK, Times
<1>7. ASSUME NEW d \in Clients
      PROVE  \A j \in Redirections(d)' :
               (j \in Redirections(d) /\ sent'[j] = sent[j])
               \/ (j = n /\ d = c /\ t # Default)
  BY <1>2 DEF Redirections
<1> SUFFICES ASSUME NEW d \in Clients
             PROVE  /\ touched'[d] <= clock'
                    /\ flow'[d] # Default
                    /\ flow'[d] = None =>
                         /\ \A j \in Redirections(d)' : clock' - sent'[j].at > TTL
                         /\ \A q \in Hits(d)' : clock' - q.at > TTL
                    /\ flow'[d] # None =>
                         /\ \A j \in Redirections(d)' : sent'[j].at <= touched'[d]
                         /\ \A q \in Hits(d)' : q.at <= touched'[d]
                         /\ \E i \in Sent' :
                              /\ sent'[i].from = d
                              /\ sent'[i].to = flow'[d]
                              /\ \A j \in (i + 1)..Len(sent') :
                                   sent'[j].from = d => sent'[j].to = Default
  BY DEF FlowInv
<1>8. CASE d = c /\ t # Default
  <2>1. flow'[d] = t /\ touched'[d] = clock
    BY <1>1, <1>8 DEF TypeOK
  <2>2. \A j \in Redirections(d) : sent[j].at <= clock
    <3>1. \A j \in Redirections(d) : sent[j].at \in Nat
      BY <1>5 DEF Redirections
    <3>2. touched[d] <= clock /\ touched[d] \in Nat
      BY <1>3 DEF FlowInv
    <3>3. \A j \in Redirections(d) : clock - sent[j].at > TTL \/ sent[j].at <= touched[d]
      BY DEF FlowInv
    <3> QED
      BY <1>3, <3>1, <3>2, <3>3
  <2>3. \A q \in Hits(d) : q.at <= clock
    <3>1. \A q \in Hits(d) : q.at \in Nat
      BY <1>6 DEF Hits
    <3>2. touched[d] <= clock /\ touched[d] \in Nat
      BY <1>3 DEF FlowInv
    <3>3. \A q \in Hits(d) : clock - q.at > TTL \/ q.at <= touched[d]
      BY DEF FlowInv
    <3> QED
      BY <1>3, <3>1, <3>2, <3>3
  <2>4. \A j \in Redirections(d)' : sent'[j].at <= clock
    BY <1>2, <1>3, <1>7, <2>2
  <2> QED
    BY <1>1, <1>2, <1>3, <1>4, <1>8, <2>1, <2>3, <2>4
<1>9. CASE ~(d = c /\ t # Default)
  <2>1. flow'[d] = flow[d] /\ touched'[d] = touched[d]
    BY <1>1, <1>9 DEF TypeOK
  <2>2. \A j \in Redirections(d)' : j \in Redirections(d) /\ sent'[j] = sent[j]
    BY <1>7, <1>9
  <2>3. ASSUME flow[d] # None
        PROVE  \E i \in Sent' :
                 /\ sent'[i].from = d
                 /\ sent'[i].to = flow[d]
                 /\ \A j \in (i + 1)..Len(sent') : sent'[j].from = d => sent'[j].to = Default
    <3>1. PICK i \in Sent : /\ sent[i].from = d
                            /\ sent[i].to = flow[d]
                            /\ \A j \in (i + 1)..Len(sent) :
                                 sent[j].from = d => sent[j].to = Default
      BY <2>3 DEF FlowInv
    <3>2. sent'[n].from = d => sent'[n].to = Default
      BY <1>2, <1>9
    <3>3. ASSUME NEW j \in (i + 1)..n, sent'[j].from = d PROVE sent'[j].to = Default
      BY <1>2, <3>1, <3>2, <3>3 DEF Sent
    <3> QED
      BY <1>2, <3>1, <3>3
  <2> QED
    BY <1>1, <1>4, <2>1, <2>2, <2>3 DEF FlowInv
<1> QED
  BY <1>8, <1>9

(* The datagram a client sends goes to the end of the queue, if it goes there. *)
LEMMA ClientSendQueue ==
  ASSUME TypeOK, QueueInv, TurnInv,
         NEW c \in Clients, NEW t \in Addresses[c], ClientSend(c, t)
  PROVE  /\ QueueInv'
         /\ \A i \in 1..Len(listenq') :
              \/ i \in 1..Len(listenq) /\ listenq'[i] = listenq[i]
              \/ listenq'[i].id = Len(sent) + 1
<1> DEFINE n == Len(sent) + 1
           e == [id |-> n, from |-> c]
<1>1. listenq' = listenq \/ listenq' = Append(listenq, e)
  BY ClientSendFacts
<1>a. /\ Len(sent) \in Nat
      /\ Len(sent') = Len(sent) + 1
      /\ Sent' = 1..(Len(sent) + 1)
      /\ \A i \in Sent : i \in Sent' /\ i < Len(sent) + 1 /\ sent'[i] = sent[i]
      /\ sent'[Len(sent) + 1] = [from |-> c, to |-> t, at |-> clock]
  BY SentGrows
<1>2. Len(sent) \in Nat /\ Len(sent') = n /\ Sent' = 1..n /\ n \in Sent'
  BY <1>a
<1>3. /\ \A i \in Sent : i \in Sent' /\ i < n /\ sent'[i] = sent[i]
      /\ sent'[n].from = c
  BY <1>a
<1>4. last' = last /\ last \in Nat /\ n > last
  <2>1. last' = last
    BY ClientSendFacts
  <2>2. last \in Nat /\ last <= Len(sent)
    BY DEF TypeOK, Ids, TurnInv
  <2> QED
    BY <1>2, <2>1, <2>2
<1>5. CASE listenq' = listenq
  BY <1>3, <1>4, <1>5 DEF QueueInv
<1>6. CASE listenq' = Append(listenq, e)
  <2>1. /\ Len(listenq) \in Nat
        /\ Len(listenq') = Len(listenq) + 1
        /\ \A i \in 1..Len(listenq) : listenq'[i] = listenq[i]
        /\ listenq'[Len(listenq) + 1] = e
    <3>1. listenq \in Seq([id : Ids, from : Clients]) /\ e \in [id : Ids, from : Clients]
      BY ClientSendFacts DEF TypeOK
    <3> HIDE DEF e
    <3> QED
      BY <1>6, <3>1, AppendFacts
  <2>2. \A i \in 1..Len(listenq') :
          \/ i \in 1..Len(listenq) /\ listenq'[i] = listenq[i]
          \/ i = Len(listenq) + 1 /\ listenq'[i] = e
    BY <2>1
  <2>3. ASSUME NEW i \in 1..Len(listenq')
        PROVE  /\ listenq'[i].id \in Sent'
               /\ listenq'[i].from = sent'[listenq'[i].id].from
               /\ listenq'[i].id > last'
    <3>1. CASE i \in 1..Len(listenq) /\ listenq'[i] = listenq[i]
      <4>1. /\ listenq[i].id \in Sent
            /\ listenq[i].from = sent[listenq[i].id].from
            /\ listenq[i].id > last
        BY <3>1 DEF QueueInv
      <4> QED
        BY <1>3, <1>4, <3>1, <4>1
    <3>2. CASE listenq'[i] = e
      BY <1>2, <1>3, <1>4, <3>2
    <3> QED
      BY <2>2, <3>1, <3>2
  <2>4. ASSUME NEW i \in 1..Len(listenq'), NEW j \in 1..Len(listenq'), i < j
        PROVE  listenq'[i].id < listenq'[j].id
    <3>1. i \in 1..Len(listenq) /\ listenq'[i] = listenq[i] /\ listenq[i].id < n
      BY <1>3, <2>1, <2>2, <2>4 DEF QueueInv
    <3> QED
      BY <2>2, <2>4, <3>1 DEF QueueInv
  <2> QED
    BY <2>2, <2>3, <2>4 DEF QueueInv
<1> QED
  BY <1>1, <1>5, <1>6

(* A client's datagram keeps the invariant. *)
LEMMA ClientSendInv ==
  ASSUME UdpInv, TypeOK', NEW c \in Clients, NEW t \in Addresses[c], ClientSend(c, t)
  PROVE  UdpInv'
<1>0. TypeOK /\ FlowInv /\ QueueInv /\ TurnInv /\ RoutedInv /\ CleanInv
  BY DEF UdpInv
<1>1. /\ UNCHANGED <<clock, pc, cur, target, reply, looked, clean, rx,
                     routed, delivered, last>>
      /\ flow' = IF t = Default THEN flow ELSE [flow EXCEPT ![c] = t]
      /\ touched' = IF t = Default THEN touched ELSE [touched EXCEPT ![c] = clock]
      /\ t # None
  BY <1>0, ClientSendFacts
<1>2. Len(sent) \in Nat /\ Len(sent') = Len(sent) + 1
      /\ \A i \in Sent : i \in Sent' /\ sent'[i] = sent[i]
  BY <1>0, SentGrows
<1>3. FlowInv' /\ QueueInv'
  BY <1>0, ClientSendFlow, ClientSendQueue
<1>4. ASSUME NEW k \in Sent, NEW u, NEW at, MayGo(k, u, at) PROVE MayGo(k, u, at)'
  BY <1>0, <1>4, MayGoKept
<1>5. TurnInv'
  <2>1. last' <= Len(sent')
    BY <1>0, <1>1, <1>2 DEF TurnInv, TypeOK, Ids
  <2>2. ASSUME pc' \in {"forward", "await", "reply"}
        PROVE  cur'.id \in Sent' /\ cur'.from = sent'[cur'.id].from
    BY <1>0, <1>1, <1>2, <2>2 DEF TurnInv
  <2>3. ASSUME pc' = "forward"
        PROVE  /\ cur'.id > last'
               /\ \A i \in 1..Len(listenq') : cur'.id < listenq'[i].id
               /\ MayGo(cur.id, target, looked)'
               /\ target' # Default => flow'[cur'.from] # None /\ looked' <= touched'[cur'.from]
    <3>1. /\ cur.id \in Sent /\ MayGo(cur.id, target, looked) /\ cur.id > last
          /\ cur.from = sent[cur.id].from
          /\ target # Default => flow[cur.from] # None /\ looked <= touched[cur.from]
      BY <1>0, <1>1, <2>3 DEF TurnInv
    <3>2. \A i \in 1..Len(listenq') : cur'.id < listenq'[i].id
      BY <1>0, <1>1, <1>2, <2>3, <3>1, ClientSendQueue DEF TurnInv, Sent
    <3>3. MayGo(cur.id, target, looked)'
      BY <1>1, <1>4, <3>1 DEF MayGo, Addressed, Unused
    <3>4. target # Default => flow'[cur.from] # None /\ looked <= touched'[cur.from]
      <4>1. cur.from \in Clients
        BY <1>0, <3>1, SentTyped
      <4>2. /\ touched[cur.from] <= clock /\ touched[cur.from] \in Nat
            /\ clock \in Nat /\ looked \in Nat
        BY <1>0, <4>1 DEF FlowInv, TypeOK, Times
      <4> QED
        BY <1>0, <1>1, <3>1, <4>1, <4>2 DEF TypeOK
    <3> QED
      BY <1>1, <3>1, <3>2, <3>3, <3>4
  <2> QED
    BY <2>1, <2>2, <2>3 DEF TurnInv
<1>6. RoutedInv'
  BY <1>0, <1>1, <1>2, <1>4 DEF RoutedInv
<1>7. CleanInv'
  BY <1>0, <1>1, <1>2 DEF CleanInv
<1> QED
  BY <1>3, <1>5, <1>6, <1>7 DEF UdpInv

(* What is in the tables and histories is as good as before. *)
LEMMA HistoryKept ==
  ASSUME UdpInv,
         UNCHANGED <<clock, flow, touched, listenq, sent, routed, delivered, last>>
  PROVE  /\ FlowInv' /\ QueueInv' /\ RoutedInv'
         /\ \A d \in delivered' : d.clean => d.id \in Sent' /\ d.client = sent'[d.id].from
  BY DEF UdpInv, FlowInv, Redirections, Hits, QueueInv, RoutedInv, CleanInv, MayGo,
         Addressed, Unused, Sent

(* A datagram comes to an upstream socket. *)
LEMMA ArriveInv ==
  ASSUME UdpInv, TypeOK', NEW s \in Sockets, NEW id \in Ids, Arrive(s, id)
  PROVE  UdpInv'
<1>0. TypeOK /\ FlowInv /\ QueueInv /\ TurnInv /\ RoutedInv /\ CleanInv
  BY DEF UdpInv
<1>1. /\ rx' = [rx EXCEPT ![s] = Append(@, id)]
      /\ clean' => clean /\ (pc = "await" /\ s = Family[target] /\ rx[s] = <<>> => id = cur.id)
      /\ UNCHANGED <<clock, pc, flow, touched, listenq, cur, target, reply, looked, sent,
                     routed, delivered, last>>
  BY <1>0, ArriveFacts
<1>2. FlowInv' /\ QueueInv' /\ RoutedInv'
  BY <1>1, HistoryKept
<1>3. TurnInv'
  BY <1>0, <1>1 DEF TurnInv, MayGo, Addressed, Unused, Sent
<1>4. CleanInv'
  <2>1. ASSUME pc = "await", clean'
        PROVE  rx'[Family[target]] = <<>> \/ rx'[Family[target]][1] = cur.id
    <3> DEFINE f == Family[target]
    <3>1. f \in Sockets /\ rx[f] \in Seq(Ids)
      BY <1>0, ParametersAssumption DEF TypeOK
    <3>2. rx[f] = <<>> \/ rx[f][1] = cur.id
      BY <1>0, <1>1, <2>1 DEF CleanInv
    <3>3. CASE s # f
      BY <1>0, <1>1, <3>1, <3>2, <3>3 DEF TypeOK
    <3>4. CASE s = f
      <4>1. rx'[f] = Append(rx[f], id)
        BY <1>0, <1>1, <3>4 DEF TypeOK
      <4>2. CASE rx[f] = <<>>
        <5>1. id = cur.id
          BY <1>1, <2>1, <3>4, <4>2
        <5> QED
          BY <4>1, <4>2, <5>1
      <4>3. CASE rx[f] # <<>>
        <5>1. rx'[f][1] = rx[f][1]
          BY <3>1, <4>1, <4>3
        <5> QED
          BY <3>2, <4>3, <5>1
      <4> QED
        BY <4>2, <4>3
    <3> QED
      BY <3>3, <3>4
  <2> QED
    BY <1>0, <1>1, <2>1 DEF CleanInv, Sent
<1> QED
  BY <1>2, <1>3, <1>4 DEF UdpInv

(* Time passes. *)
LEMMA TickInv ==
  ASSUME UdpInv, TypeOK', Tick
  PROVE  UdpInv'
<1>0. TypeOK /\ FlowInv /\ QueueInv /\ TurnInv /\ RoutedInv /\ CleanInv
  BY DEF UdpInv
<1>1. /\ clock' = clock + 1
      /\ UNCHANGED <<pc, flow, touched, listenq, cur, target, reply, looked, clean, rx, sent,
                     routed, delivered, last>>
  BY DEF Tick, tableVars, turnVars, histVars
<1>2. FlowInv'
  <2>1. /\ clock \in Nat /\ TTL \in Nat /\ touched \in [Clients -> Nat]
    BY <1>0, ParametersAssumption DEF TypeOK, Times
  <2>5. \A j \in Sent : sent[j].at \in Nat
    BY <1>0, SentTyped DEF Times
  <2>6. \A q \in routed : q.at \in Nat
    BY <1>0 DEF TypeOK, Times
  <2>2. ASSUME NEW c \in Clients
        PROVE  Redirections(c)' = Redirections(c) /\ Hits(c)' = Hits(c)
    BY <1>1 DEF Redirections, Hits, Sent
  <2>3. ASSUME NEW c \in Clients, flow[c] = None
        PROVE  /\ \A j \in Redirections(c) : clock' - sent[j].at > TTL
               /\ \A q \in Hits(c) : clock' - q.at > TTL
    <3>1. /\ \A j \in Redirections(c) : clock - sent[j].at > TTL /\ sent[j].at \in Nat
          /\ \A q \in Hits(c) : clock - q.at > TTL /\ q.at \in Nat
      BY <1>0, <2>3, <2>5, <2>6 DEF FlowInv, Redirections, Hits
    <3> QED
      BY <1>1, <2>1, <3>1
  <2>4. \A c \in Clients : touched[c] <= clock + 1
    BY <1>0, <2>1 DEF FlowInv
  <2> SUFFICES ASSUME NEW c \in Clients
               PROVE  /\ touched'[c] <= clock'
                      /\ flow'[c] # Default
                      /\ flow'[c] = None =>
                           /\ \A j \in Redirections(c)' : clock' - sent'[j].at > TTL
                           /\ \A q \in Hits(c)' : clock' - q.at > TTL
                      /\ flow'[c] # None =>
                           /\ \A j \in Redirections(c)' : sent'[j].at <= touched'[c]
                           /\ \A q \in Hits(c)' : q.at <= touched'[c]
                           /\ \E i \in Sent' :
                                /\ sent'[i].from = c
                                /\ sent'[i].to = flow'[c]
                                /\ \A j \in (i + 1)..Len(sent') :
                                     sent'[j].from = c => sent'[j].to = Default
    BY DEF FlowInv
  <2>7. Sent' = Sent
    BY <1>1 DEF Sent
  <2>8. /\ touched[c] <= clock + 1
        /\ flow[c] # Default
    BY <1>0, <2>4 DEF FlowInv
  <2>9. flow[c] # None =>
          /\ \A j \in Redirections(c) : sent[j].at <= touched[c]
          /\ \A q \in Hits(c) : q.at <= touched[c]
          /\ \E i \in Sent :
               /\ sent[i].from = c
               /\ sent[i].to = flow[c]
               /\ \A j \in (i + 1)..Len(sent) : sent[j].from = c => sent[j].to = Default
    BY <1>0 DEF FlowInv
  <2>10. /\ touched'[c] <= clock' /\ flow'[c] = flow[c] /\ flow'[c] # Default
         /\ touched' = touched /\ sent' = sent /\ clock' = clock + 1
    BY <1>1, <2>8
  <2>11. ASSUME flow[c] = None
         PROVE  /\ \A j \in Redirections(c)' : clock' - sent'[j].at > TTL
                /\ \A q \in Hits(c)' : clock' - q.at > TTL
    BY <2>2, <2>3, <2>10, <2>11
  <2>12. ASSUME flow[c] # None
         PROVE  /\ \A j \in Redirections(c)' : sent'[j].at <= touched'[c]
                /\ \A q \in Hits(c)' : q.at <= touched'[c]
    BY <2>2, <2>9, <2>10, <2>12
  <2>13. ASSUME flow[c] # None
         PROVE  \E i \in Sent' :
                  /\ sent'[i].from = c
                  /\ sent'[i].to = flow'[c]
                  /\ \A j \in (i + 1)..Len(sent') : sent'[j].from = c => sent'[j].to = Default
    BY <2>7, <2>9, <2>10, <2>13
  <2> QED
    BY <2>10, <2>11, <2>12, <2>13
<1>3. QueueInv' /\ TurnInv' /\ RoutedInv' /\ CleanInv'
  BY <1>0, <1>1 DEF QueueInv, TurnInv, RoutedInv, CleanInv, MayGo, Addressed, Unused, Sent
<1> QED
  BY <1>2, <1>3 DEF UdpInv

-----------------------------------------------------------------------------
(* serve. *)

(* What happens before and after a turn touches nothing the invariant is about,
   but for where serve is. *)
LEMMA TurnsInv ==
  ASSUME UdpInv, TypeOK',
         \/ Setup \/ SetupFail \/ Finish \/ Drop \/ NoReply \/ RequestStop
  PROVE  UdpInv'
<1>0. TypeOK /\ FlowInv /\ QueueInv /\ TurnInv /\ RoutedInv /\ CleanInv
  BY DEF UdpInv
<1>1. UNCHANGED <<clock, flow, touched, listenq, sent, rx, routed, delivered, last>>
  BY DEF Setup, SetupFail, Finish, Drop, NoReply, RequestStop, tableVars,
         histVars
<1>2. \/ pc' \in {"loop", "done"}
      \/ pc' = pc /\ UNCHANGED <<cur, target, reply, looked, clean>>
  BY DEF Setup, SetupFail, Finish, Drop, NoReply, RequestStop, EndTurn, turnVars
<1>3. /\ FlowInv' /\ QueueInv' /\ RoutedInv'
      /\ \A d \in delivered' : d.clean => d.id \in Sent' /\ d.client = sent'[d.id].from
  BY <1>1, HistoryKept
<1>4. TurnInv' /\ CleanInv'
  BY <1>0, <1>1, <1>2, <1>3 DEF TurnInv, CleanInv, MayGo, Addressed, Unused, Sent
<1> QED
  BY <1>3, <1>4 DEF UdpInv

(* The target of a datagram is looked up: it is one it may go to. *)
LEMMA LookupMayGo ==
  ASSUME UdpInv, NEW k \in Sent, NEW c \in Clients, c = sent[k].from, NEW t,
         t = IF Found(c) = None THEN Default ELSE Found(c)
  PROVE  MayGo(k, t, clock)
<1>0. TypeOK /\ FlowInv /\ RoutedInv
  BY DEF UdpInv
<1>1. /\ Len(sent) \in Nat /\ clock \in Nat /\ TTL \in Nat /\ touched[c] \in Nat
  BY <1>0, ParametersAssumption DEF TypeOK, Times
<1>a. \A j \in Sent : sent[j].at \in Nat
  BY <1>0, SentTyped DEF Times
<1>b. \A q \in routed : q.at \in Nat
  BY <1>0 DEF TypeOK, Times
<1>2. flow[c] # Default
  BY <1>0 DEF FlowInv
<1>3. CASE t = Default
  <2>1. flow[c] = None \/ clock - touched[c] > TTL
    BY <1>2, <1>3 DEF Found, Expired
  <2>2. \A j \in Redirections(c) : clock - sent[j].at > TTL
    <3>1. \A j \in Redirections(c) :
            sent[j].at \in Nat /\ (clock - sent[j].at > TTL \/ sent[j].at <= touched[c])
      BY <1>0, <1>a DEF FlowInv, Redirections
    <3>2. flow[c] = None => \A j \in Redirections(c) : clock - sent[j].at > TTL
      BY <1>0 DEF FlowInv
    <3> QED
      BY <1>1, <2>1, <3>1, <3>2
  <2>3. \A q \in Hits(c) : clock - q.at > TTL
    <3>1. \A q \in Hits(c) :
            q.at \in Nat /\ (clock - q.at > TTL \/ q.at <= touched[c])
      BY <1>0, <1>b DEF FlowInv, Hits
    <3>2. flow[c] = None => \A q \in Hits(c) : clock - q.at > TTL
      BY <1>0 DEF FlowInv
    <3> QED
      BY <1>1, <2>1, <3>1, <3>2
  <2>4. \A j \in 1..k : j \in Sent
    BY <1>1 DEF Sent
  <2>5. Unused(k, clock)
    BY <2>2, <2>3, <2>4 DEF Unused, Redirections, Hits
  <2> QED
    BY <1>3, <2>5 DEF MayGo
<1>4. CASE t # Default
  <2>1. t = flow[c] /\ flow[c] # None
    BY <1>4 DEF Found
  <2>2. PICK i \in Sent : /\ sent[i].from = c
                          /\ sent[i].to = flow[c]
                          /\ \A j \in (i + 1)..Len(sent) :
                               sent[j].from = c => sent[j].to = Default
    BY <1>0, <2>1 DEF FlowInv
  <2>3. \A j \in (i + 1)..k : j \in (i + 1)..Len(sent)
    BY <1>1 DEF Sent
  <2>4. Addressed(k, t)
    BY <2>1, <2>2, <2>3 DEF Addressed, Sent
  <2> QED
    BY <1>4, <2>4 DEF MayGo
<1> QED
  BY <1>3, <1>4

(* A lookup keeps the table. *)
LEMMA LookupFlow ==
  ASSUME UdpInv, NEW c \in Clients, Lookup(c), UNCHANGED <<clock, sent, routed>>
  PROVE  FlowInv'
<1>0. TypeOK /\ FlowInv /\ RoutedInv
  BY DEF UdpInv
<1>1. /\ clock \in Nat /\ TTL \in Nat /\ touched \in [Clients -> Nat]
      /\ \A j \in Sent : sent[j].at \in Nat
      /\ \A q \in routed : q.at \in Nat
  BY <1>0, SentTyped, ParametersAssumption DEF TypeOK, Times
<1>2. ASSUME NEW d \in Clients
      PROVE  Redirections(d)' = Redirections(d) /\ Hits(d)' = Hits(d)
  BY DEF Redirections, Hits, Sent
<1>3. /\ \A d \in Clients : d # c => flow'[d] = flow[d] /\ touched'[d] = touched[d]
      /\ flow'[c] = Found(c)
      /\ touched'[c] = IF Found(c) = None THEN touched[c] ELSE clock
  BY <1>0, LookupFacts
<1> SUFFICES ASSUME NEW d \in Clients
             PROVE  /\ touched'[d] <= clock'
                    /\ flow'[d] # Default
                    /\ flow'[d] = None =>
                         /\ \A j \in Redirections(d)' : clock' - sent'[j].at > TTL
                         /\ \A q \in Hits(d)' : clock' - q.at > TTL
                    /\ flow'[d] # None =>
                         /\ \A j \in Redirections(d)' : sent'[j].at <= touched'[d]
                         /\ \A q \in Hits(d)' : q.at <= touched'[d]
                         /\ \E i \in Sent' :
                              /\ sent'[i].from = d
                              /\ sent'[i].to = flow'[d]
                              /\ \A j \in (i + 1)..Len(sent') :
                                   sent'[j].from = d => sent'[j].to = Default
  BY DEF FlowInv
<1>4. /\ touched[d] <= clock /\ touched[d] \in Nat
      /\ flow[d] # Default
      /\ \A j \in Redirections(d) : sent[j].at \in Nat
      /\ \A q \in Hits(d) : q.at \in Nat
  BY <1>0, <1>1 DEF FlowInv, Redirections, Hits
<1>5. CASE d # c \/ flow[d] = None
  <2>1. flow'[d] = flow[d] /\ touched'[d] = touched[d]
    BY <1>3, <1>5 DEF Found, Expired
  <2> QED
    BY <1>0, <1>2, <2>1 DEF FlowInv, Sent
<1>6. CASE d = c /\ flow[d] # None
  <2>1. /\ \A j \in Redirections(d) : sent[j].at <= touched[d]
        /\ \A q \in Hits(d) : q.at <= touched[d]
        /\ \E i \in Sent :
             /\ sent[i].from = d
             /\ sent[i].to = flow[d]
             /\ \A j \in (i + 1)..Len(sent) : sent[j].from = d => sent[j].to = Default
    BY <1>0, <1>6 DEF FlowInv
  <2>2. CASE Expired(d)
    <3>1. flow'[d] = None /\ touched'[d] = touched[d] /\ clock - touched[d] > TTL
      BY <1>3, <1>6, <2>2 DEF Found, Expired
    <3>2. /\ \A j \in Redirections(d) : clock - sent[j].at > TTL
          /\ \A q \in Hits(d) : clock - q.at > TTL
      BY <1>1, <1>4, <2>1, <3>1
    <3>3. None # Default
      BY ParametersAssumption DEF Targets
    <3> QED
      BY <1>2, <1>4, <3>1, <3>2, <3>3
  <2>3. CASE ~Expired(d)
    <3>1. flow'[d] = flow[d] /\ touched'[d] = clock
      BY <1>3, <1>6, <2>3 DEF Found
    <3>2. /\ \A j \in Redirections(d) : sent[j].at <= clock
          /\ \A q \in Hits(d) : q.at <= clock
      BY <1>1, <1>4, <2>1
    <3> QED
      BY <1>1, <1>2, <1>4, <1>6, <2>1, <3>1, <3>2 DEF Sent
  <2> QED
    BY <2>2, <2>3
<1> QED
  BY <1>5, <1>6

(* A turn begins. *)
LEMMA ReceiveInv ==
  ASSUME UdpInv, TypeOK', Receive
  PROVE  UdpInv'
<1>0. TypeOK /\ FlowInv /\ QueueInv /\ TurnInv /\ RoutedInv /\ CleanInv
  BY DEF UdpInv
<1>1. /\ Len(listenq) \in Nat /\ Len(listenq) >= 1 /\ cur' = listenq[1]
      /\ Len(listenq') = Len(listenq) - 1
      /\ \A i \in 1..Len(listenq') : i + 1 \in 1..Len(listenq) /\ listenq'[i] = listenq[i + 1]
      /\ cur' \in [id : Ids, from : Clients]
      /\ Lookup(cur'.from) /\ looked' = clock
      /\ pc = "loop" /\ pc' = "forward"
      /\ UNCHANGED <<clock, reply, rx, sent, clean, routed, delivered, last>>
  BY <1>0, ReceiveFacts
<1>2. PICK c \in Clients : c = cur'.from
  BY <1>1
<1>3. Lookup(c)
  BY <1>1, <1>2
<1>4. FlowInv'
  BY <1>1, <1>3, LookupFlow
<1>5. RoutedInv'
  BY <1>0, <1>1 DEF RoutedInv, MayGo, Addressed, Unused, Sent
<1>6. QueueInv'
  <2>1. ASSUME NEW i \in 1..Len(listenq')
        PROVE  /\ listenq'[i].id \in Sent'
               /\ listenq'[i].from = sent'[listenq'[i].id].from
               /\ listenq'[i].id > last'
    BY <1>0, <1>1 DEF QueueInv, Sent
  <2>2. ASSUME NEW i \in 1..Len(listenq'), NEW j \in 1..Len(listenq'), i < j
        PROVE  listenq'[i].id < listenq'[j].id
    <3>1. /\ i + 1 \in 1..Len(listenq) /\ j + 1 \in 1..Len(listenq) /\ i + 1 < j + 1
          /\ listenq'[i] = listenq[i + 1] /\ listenq'[j] = listenq[j + 1]
      BY <1>1, <2>2
    <3> QED
      BY <1>0, <3>1 DEF QueueInv
  <2> QED
    BY <2>1, <2>2 DEF QueueInv
<1>7. TurnInv'
  <2>1. PICK k \in Sent : k = cur'.id /\ c = sent[k].from /\ k > last
    BY <1>0, <1>1, <1>2 DEF QueueInv
  <2>2. \A i \in 1..Len(listenq') : cur'.id < listenq'[i].id
    BY <1>0, <1>1 DEF QueueInv
  <2>3. /\ target' = IF Found(c) = None THEN Default ELSE Found(c)
        /\ flow'[c] = Found(c)
        /\ touched'[c] = IF Found(c) = None THEN touched[c] ELSE clock
    BY <1>0, <1>3, LookupFacts
  <2>4. MayGo(k, target', clock)
    <3> DEFINE t == target'
    <3>1. t = IF Found(c) = None THEN Default ELSE Found(c)
      BY <2>3
    <3> HIDE DEF t
    <3>2. MayGo(k, t, clock)
      BY <2>1, <3>1, LookupMayGo
    <3> QED
      BY <3>2 DEF t
  <2>5. MayGo(cur.id, target, looked)'
    BY <1>1, <2>1, <2>4 DEF MayGo, Addressed, Unused
  <2>6. target' # Default => flow'[c] # None /\ looked' <= touched'[c]
    <3>1. clock \in Nat
      BY <1>0 DEF TypeOK, Times
    <3> QED
      BY <1>1, <2>3, <3>1
  <2> QED
    BY <1>0, <1>1, <1>2, <2>1, <2>2, <2>5, <2>6 DEF TurnInv, Sent
<1>8. CleanInv'
  BY <1>0, <1>1 DEF CleanInv, Sent
<1> QED
  BY <1>4, <1>5, <1>6, <1>7, <1>8 DEF UdpInv

(* The datagram goes to its target, and serve waits. *)
LEMMA ForwardInv ==
  ASSUME UdpInv, TypeOK', Forward
  PROVE  UdpInv'
<1>0. TypeOK /\ FlowInv /\ QueueInv /\ TurnInv /\ RoutedInv /\ CleanInv
  BY DEF UdpInv
<1> DEFINE new == [id |-> cur.id, to |-> target, at |-> looked]
<1>1. /\ pc = "forward" /\ pc' = "await" /\ last' = cur.id
      /\ UNCHANGED <<clock, flow, touched, listenq, cur, target, reply, looked, rx, sent,
                     delivered>>
      /\ routed' = routed \cup {new}
      /\ clean' = (rx[Family[target]] = <<>>)
  BY DEF Forward, tableVars
<1>2. /\ cur.id \in Sent /\ cur.from = sent[cur.id].from /\ cur.id > last
      /\ MayGo(cur.id, target, looked)
      /\ \A i \in 1..Len(listenq) : cur.id < listenq[i].id
      /\ target # Default => flow[cur.from] # None /\ looked <= touched[cur.from]
  BY <1>0, <1>1 DEF TurnInv
<1>3. /\ Len(sent) \in Nat /\ last \in Nat /\ \A r \in routed : r.id \in Nat
      /\ cur.id \in Nat
  BY <1>0 DEF TypeOK, Ids
<1>4. FlowInv'
  <2>1. ASSUME NEW c \in Clients, flow[c] = None
        PROVE  Hits(c)' = Hits(c)
    BY <1>1, <1>2, <2>1 DEF Hits
  <2>2. ASSUME NEW c \in Clients, NEW q \in Hits(c)', flow[c] # None
        PROVE  q.at <= touched[c]
    <3>1. CASE q \in routed
      BY <1>0, <1>1, <2>2, <3>1 DEF FlowInv, Hits
    <3>2. CASE q = new
      BY <1>1, <1>2, <2>2, <3>2 DEF Hits
    <3> QED
      BY <1>1, <3>1, <3>2 DEF Hits
  <2>3. \A c \in Clients : Redirections(c)' = Redirections(c)
    BY <1>1 DEF Redirections, Sent
  <2> QED
    BY <1>0, <1>1, <2>1, <2>2, <2>3 DEF FlowInv, Sent
<1>5. QueueInv'
  BY <1>0, <1>1, <1>2, <1>3 DEF QueueInv, Sent
<1>6. TurnInv'
  BY <1>1, <1>2, <1>3 DEF TurnInv, Sent
<1>7. RoutedInv'
  <2>1. ASSUME NEW k \in Sent, NEW u, NEW at, MayGo(k, u, at), k <= cur.id
        PROVE  MayGo(k, u, at)'
    <3>1. k \in Nat /\ ~(new.id < k)
      BY <1>3, <2>1 DEF Sent
    <3> QED
      BY <1>1, <2>1, <3>1 DEF MayGo, Addressed, Unused
  <2>2. MayGo(new.id, new.to, new.at)'
    BY <1>1, <1>2, <1>3, <2>1 DEF MayGo, Addressed, Unused
  <2>3. ASSUME NEW r \in routed
        PROVE  r.id \in Sent /\ r.id <= cur.id /\ MayGo(r.id, r.to, r.at)'
    <3>1. r.id \in Sent /\ r.id <= cur.id /\ MayGo(r.id, r.to, r.at)
      BY <1>0, <1>2, <1>3 DEF RoutedInv
    <3> QED
      BY <2>1, <3>1
  <2>4. new.id \in Sent /\ new.id <= cur.id
    BY <1>2, <1>3
  <2>5. Sent' = Sent
    BY <1>1 DEF Sent
  <2>6. ASSUME NEW r \in routed'
        PROVE  r.id \in Sent' /\ r.id <= last' /\ MayGo(r.id, r.to, r.at)'
    <3>1. CASE r \in routed
      BY <1>1, <2>3, <2>5, <3>1
    <3>2. CASE r = new
      BY <1>1, <2>2, <2>4, <2>5, <3>2
    <3> QED
      BY <1>1, <3>1, <3>2
  <2> QED
    BY <2>6 DEF RoutedInv
<1>8. CleanInv'
  BY <1>0, <1>1 DEF CleanInv, Sent
<1> QED
  BY <1>4, <1>5, <1>6, <1>7, <1>8 DEF UdpInv

(* The wait ends with a datagram from the socket of the target's family. *)
LEMMA ReceiveReplyInv ==
  ASSUME UdpInv, TypeOK', ReceiveReply
  PROVE  UdpInv'
<1>0. TypeOK /\ FlowInv /\ QueueInv /\ TurnInv /\ RoutedInv /\ CleanInv
  BY DEF UdpInv
<1> DEFINE f == Family[target]
<1>1. /\ pc = "await" /\ pc' = "reply"
      /\ UNCHANGED <<clock, flow, touched, listenq, cur, target, looked, clean, sent,
                     routed, delivered, last>>
      /\ rx[f] # <<>> /\ reply' = Head(rx[f])
  BY DEF ReceiveReply, tableVars, histVars
<1>2. f \in Sockets /\ rx[f] \in Seq(Ids)
  BY <1>0, ParametersAssumption DEF TypeOK
<1>3. FlowInv' /\ QueueInv' /\ RoutedInv'
  BY <1>1, HistoryKept
<1>4. TurnInv'
  BY <1>0, <1>1 DEF TurnInv, Sent
<1>5. reply' = rx[f][1]
  BY <1>1, <1>2, TailFacts
<1>6. CleanInv'
  BY <1>0, <1>1, <1>5 DEF CleanInv, Sent
<1> QED
  BY <1>3, <1>4, <1>6 DEF UdpInv

(* The answer goes to the client of this turn. *)
LEMMA SendReplyInv ==
  ASSUME UdpInv, TypeOK', SendReply
  PROVE  UdpInv'
<1>0. TypeOK /\ FlowInv /\ QueueInv /\ TurnInv /\ RoutedInv /\ CleanInv
  BY DEF UdpInv
<1>1. /\ pc = "reply" /\ pc' = "loop"
      /\ UNCHANGED <<clock, flow, touched, listenq, sent, routed, last>>
      /\ delivered' \in
           {delivered, delivered \cup {[client |-> cur.from, id |-> reply, clean |-> clean]}}
  BY DEF SendReply, EndTurn, tableVars
<1>2. FlowInv' /\ QueueInv' /\ RoutedInv'
  BY <1>0, <1>1 DEF FlowInv, Redirections, Hits, QueueInv, RoutedInv, MayGo, Addressed,
                    Unused, Sent
<1>3. TurnInv'
  BY <1>0, <1>1 DEF TurnInv, Sent
<1>4. CleanInv'
  <2>1. cur.id \in Sent /\ cur.from = sent[cur.id].from /\ (clean => reply = cur.id)
    BY <1>0, <1>1 DEF TurnInv, CleanInv
  <2>2. ASSUME NEW d \in delivered', d.clean
        PROVE  d.id \in Sent /\ d.client = sent[d.id].from
    <3>1. CASE d \in delivered
      BY <1>0, <2>2, <3>1 DEF CleanInv
    <3>2. CASE d = [client |-> cur.from, id |-> reply, clean |-> clean]
      BY <2>1, <2>2, <3>2
    <3> QED
      BY <1>1, <3>1, <3>2
  <2> QED
    BY <1>1, <2>2 DEF CleanInv, Sent
<1> QED
  BY <1>2, <1>3, <1>4 DEF UdpInv

-----------------------------------------------------------------------------
(* The results. *)

(* Every step keeps the invariant. *)
LEMMA UdpStep == UdpInv /\ [Next]_vars => UdpInv'
<1> SUFFICES ASSUME UdpInv, [Next]_vars PROVE UdpInv'
  OBVIOUS
<1>0. TypeOK /\ TurnInv
  BY DEF UdpInv
<1>1. CASE Serve
  <2>1. TypeOK'
    BY <1>0, <1>1, ServeTyped
  <2> QED
    BY <1>1, <2>1, TurnsInv, ReceiveInv, ForwardInv, ReceiveReplyInv, SendReplyInv DEF Serve
<1>2. CASE Environment
  <2>1. TypeOK'
    BY <1>0, <1>2, EnvironmentTyped
  <2>2. ASSUME NEW c \in Clients, NEW t \in Addresses[c], ClientSend(c, t) PROVE UdpInv'
    BY <2>1, <2>2, ClientSendInv
  <2>3. CASE (\E r \in routed : ServerReply(r)) \/ (\E s \in Sockets : Stray(s))
    <3>1. PICK s \in Sockets, id \in Ids : Arrive(s, id)
      BY <1>0, <2>3, Arrivals
    <3> QED
      BY <2>1, <3>1, ArriveInv
  <2>4. CASE Tick
    BY <2>1, <2>4, TickInv
  <2>5. CASE RequestStop
    BY <2>1, <2>5, TurnsInv
  <2> QED
    BY <1>2, <2>2, <2>3, <2>4, <2>5 DEF Environment
<1>3. CASE UNCHANGED vars
  <2>1. TypeOK'
    BY <1>0, <1>3 DEF vars, TypeOK
  <2>2. FlowInv' /\ QueueInv' /\ RoutedInv'
    BY <1>3, HistoryKept DEF vars
  <2>3. TurnInv' /\ CleanInv'
    BY <1>3 DEF vars, UdpInv, TurnInv, CleanInv, MayGo, Addressed, Unused, Sent
  <2> QED
    BY <2>1, <2>2, <2>3 DEF UdpInv
<1> QED
  BY <1>1, <1>2, <1>3 DEF Next, Idle

(* The inductive invariant holds in every behaviour. *)
THEOREM UdpInvariant == Spec => []UdpInv
  BY InitUdp, UdpStep, PTL DEF Spec

(* Type correctness of the UDP path. *)
THEOREM TypeCorrect == Spec => []TypeOK
<1>1. UdpInv => TypeOK
  BY DEF UdpInv
<1> QED
  BY <1>1, UdpInvariant, PTL

(* serve forwards a datagram to the target its client addressed with it, or to
   the configured one when the client's port has no mapping or has not used it
   for the lifetime of a mapping. *)
THEOREM TargetsAreOriginal == Spec => []OriginalTarget
<1>1. UdpInv => OriginalTarget
  BY DEF UdpInv, RoutedInv, MayGo, OriginalTarget
<1> QED
  BY <1>1, UdpInvariant, PTL

(* Whoever sends to the upstream sockets, and however often: a client that gets
   what came first to a socket that was empty when its datagram was forwarded,
   and it is the answer, gets the answer to its own datagram. *)
THEOREM UndisturbedReachRequester == Spec => []UndisturbedReply
<1>1. UdpInv => UndisturbedReply
  <2> SUFFICES ASSUME UdpInv, NEW d \in delivered, d.clean
               PROVE  d.id # 0 /\ d.client = sent[d.id].from
    BY DEF UndisturbedReply
  <2>1. d.id \in Sent /\ d.client = sent[d.id].from
    BY DEF UdpInv, CleanInv
  <2> QED
    BY <2>1 DEF Sent
<1> QED
  BY <1>1, UdpInvariant, PTL

(* Datagrams are forwarded at most once each, in the order they were sent in. *)
THEOREM ForwardedOnceInOrder == Spec => OnceInOrder
<1>1. UdpInv /\ [Next]_vars => [pc = "forward" /\ pc' = "await" => last' > last]_vars
  <2> SUFFICES ASSUME UdpInv, Next, pc = "forward", pc' = "await" PROVE last' > last
    OBVIOUS
  <2>1. Forward
    BY DEF Next, Serve, Environment, Setup, SetupFail, Finish, Receive, Drop, ReceiveReply,
           NoReply, SendReply, EndTurn, ClientSend, ServerReply, Stray, Arrive,
           RequestStop, Tick, Idle, vars
  <2> QED
    BY <2>1 DEF Forward, UdpInv, TurnInv
<1> QED
  BY <1>1, UdpInvariant, PTL DEF Spec, OnceInOrder

=============================================================================
