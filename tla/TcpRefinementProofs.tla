------------------------ MODULE TcpRefinementProofs ------------------------
(***************************************************************************)
(* A client session implements PatchedPipes, for every pair of scripts,    *)
(* every buffer size, every patch and every fault: each step of a session  *)
(* is a step of the pipes, or changes nothing that they know of.           *)
(***************************************************************************)
EXTENDS TcpSessionProofs

(* The greeting of a tunnel precedes the pumps, and nothing precedes it. *)
OpeningInv ==
  /\ pc \in {"initial_recv", "mitm_reply", "dial", "connect", "reply"} => emitted["inbound"] = <<>>
  /\ pc \in {"mitm_reply", "reply"} => tunnel # "no"
  /\ pc \in {"mitm", "join_outbound", "join_inbound"}
       => tunnel = "no" \/ emitted["inbound"] # <<>>

PipesInv == FlowInv /\ OpeningInv

(* A session starts as a pair of empty pipes. *)
LEMMA InitPipes == Init => Pipes!Init
<1> SUFFICES ASSUME Init PROVE Pipes!Init
  OBVIOUS
<1>1. Unwritten = [d \in Directions |-> Script[Source(d)]]
  <2>1. \A d \in Directions : written[Source(d)] = 0 /\ Script[Source(d)] \in Seq(Token)
    BY ConstantFacts DEF Init
  <2>2. \A d \in Directions : From(Script[Source(d)], 1) = Script[Source(d)]
    BY <2>1, SubSeqFull DEF From
  <2> QED
    BY <2>1, <2>2 DEF Unwritten
<1>2. Todo = [d \in Directions |-> <<>>]
  <2>1. <<>> \o <<>> = <<>>
    BY EmptySeq, ConcatEmptySeq
  <2> QED
    BY <2>1, ConstantFacts DEF Init, Todo
<1>3. Given = [d \in Directions |-> <<>>]
  BY ConstantFacts DEF Init, Given
<1>4. pend = [d \in Directions |-> <<>>] /\ Opening = "new"
  BY DEF Init, Opening
<1> QED
  BY <1>1, <1>2, <1>3, <1>4 DEF Pipes!Init

(* What the pipes do not see. *)
LEMMA Unseen ==
  ASSUME UNCHANGED <<written, inq, out, buf, pend>>, Opening' = Opening
  PROVE  UNCHANGED Pipes!vars
BY DEF Pipes!vars, Unwritten, Todo, Given

-----------------------------------------------------------------------------
(* A sequence cut near its ends. *)

(* What is cut off the front of a buffer is cut off the front of the buffer and
   the queue behind it. *)
LEMMA CutFront ==
  ASSUME NEW S, NEW a \in Seq(S), NEW b \in Seq(S), NEW n \in 0..Len(a)
  PROVE  /\ SubSeq(a \o b, 1, n) = SubSeq(a, 1, n)
         /\ SubSeq(a \o b, n + 1, Len(a \o b)) = From(a, n + 1) \o b
         /\ n \in 0..Len(a \o b)
<1>1. PICK x \in Seq(S), y \in Seq(S) :
        x = SubSeq(a, 1, n) /\ y = From(a, n + 1) /\ x \o y = a /\ Len(x) = n
  <2>1. SubSeq(a, 1, n) \in Seq(S) /\ From(a, n + 1) \in Seq(S)
        /\ SubSeq(a, 1, n) \o From(a, n + 1) = a /\ Len(SubSeq(a, 1, n)) = n
    BY CutSeq
  <2> QED
    BY <2>1, Zenon
<1>2. PICK z \in Seq(S) : z = y \o b
  BY ConcatProperties
<1>3. a \o b = x \o z
  <2>1. (x \o y) \o b = x \o (y \o b)
    OBVIOUS
  <2> QED
    BY <1>1, <1>2, <2>1
<1>4. SubSeq(x \o z, 1, Len(x)) = x /\ SubSeq(x \o z, Len(x) + 1, Len(x \o z)) = z
  OBVIOUS
<1>5. Len(x) \in 0..Len(x \o z)
  BY ConcatProperties, LenProperties
<1> QED
  BY <1>1, <1>2, <1>3, <1>4, <1>5

(* The rest of a script begins with the byte that is written next. *)
LEMMA CutHead ==
  ASSUME NEW S, NEW s \in Seq(S), NEW w \in Nat, w + 1 <= Len(s)
  PROVE  /\ From(s, w + 1) # <<>>
         /\ Head(From(s, w + 1)) = s[w + 1]
         /\ Tail(From(s, w + 1)) = From(s, w + 1 + 1)
<1>1. PICK l \in Nat, m \in Nat : l = Len(s) /\ m = w + 1 /\ m <= l
  BY LenProperties
<1>2. \A i \in m..l : s[i] \in S
  BY <1>1, ElementOfSeq
<1>3. /\ SubSeq(s, m, l) \in Seq(S)
      /\ Len(SubSeq(s, m, l)) = l - m + 1
      /\ \A i \in 1..l - m + 1 : SubSeq(s, m, l)[i] = s[m + i - 1]
  BY <1>1, <1>2, SubSeqProperties
<1>4. /\ SubSeq(s, m + 1, l) \in Seq(S)
      /\ Len(SubSeq(s, m + 1, l)) = l - m
      /\ \A i \in 1..l - m : SubSeq(s, m + 1, l)[i] = s[m + i]
  <2>1. PICK j \in Nat : j = m + 1
    OBVIOUS
  <2>2. \A i \in j..l : s[i] \in S
    BY <1>2, <2>1
  <2>3. /\ SubSeq(s, j, l) \in Seq(S)
        /\ Len(SubSeq(s, j, l)) = IF j <= l THEN l - j + 1 ELSE 0
        /\ \A i \in 1..l - j + 1 : SubSeq(s, j, l)[i] = s[j + i - 1]
    BY <2>2, SubSeqProperties
  <2> QED
    BY <1>1, <2>1, <2>3
<1>5. PICK x \in Seq(S) : x = SubSeq(s, m, l)
  BY <1>3
<1>6. /\ x # <<>> /\ Head(x) = x[1]
      /\ Tail(x) \in Seq(S) /\ Len(Tail(x)) = Len(x) - 1
      /\ \A i \in 1..Len(Tail(x)) : Tail(x)[i] = x[i + 1]
  <2>1. x # <<>>
    <3>1. Len(x) = l - m + 1 /\ Len(<<>>) = 0
      BY <1>3, <1>5, EmptySeq
    <3>2. Len(x) # Len(<<>>)
      BY <1>1, <3>1
    <3> QED
      BY <3>2
  <2> QED
    BY <2>1, HeadTailProperties
<1>7. Head(x) = s[m]
  BY <1>1, <1>3, <1>5, <1>6
<1>8. Tail(x) = SubSeq(s, m + 1, l)
  <2>1. \A i \in 1..l - m : Tail(x)[i] = SubSeq(s, m + 1, l)[i]
    <3> SUFFICES ASSUME NEW i \in 1..l - m PROVE Tail(x)[i] = SubSeq(s, m + 1, l)[i]
      OBVIOUS
    <3>1. i + 1 \in 1..l - m + 1 /\ Len(Tail(x)) = l - m
      BY <1>1, <1>3, <1>5, <1>6
    <3> QED
      BY <1>1, <1>3, <1>4, <1>5, <1>6, <3>1
  <2>2. Len(Tail(x)) = l - m
    BY <1>1, <1>3, <1>5, <1>6
  <2> QED
    BY <2>1, <2>2, <1>4, <1>6, SeqEqual
<1> QED
  BY <1>1, <1>5, <1>6, <1>7, <1>8 DEF From

(* It is appended to the buffer and the queue as it is to the queue. *)
LEMMA AppendBehind ==
  ASSUME NEW S, NEW a \in Seq(S), NEW q \in Seq(S), NEW e \in S
  PROVE  a \o Append(q, e) = Append(a \o q, e)
OBVIOUS

-----------------------------------------------------------------------------
(* The opening of a session. *)

(* What tells the opening apart is only touched by the handler and by a pump
   that has taken a payload. *)
LEMMA OpeningStep == PipesInv /\ [Next]_vars => OpeningInv'
<1> SUFFICES ASSUME PipesInv, [Next]_vars PROVE OpeningInv'
  OBVIOUS
<1>0. TypeOK /\ ControlInv /\ OpeningInv
  BY DEF PipesInv, FlowInv
<1>1. CASE UNCHANGED <<pc, tunnel, emitted>>
  BY <1>0, <1>1 DEF OpeningInv
<1>2. CASE InitialRecv
  <2>1. /\ pc = "initial_recv" /\ pc' = IF tunnel' = "mitm" THEN "mitm_reply" ELSE "dial"
        /\ UNCHANGED emitted
    BY <1>2 DEF InitialRecv
  <2> QED
    BY <1>0, <2>1 DEF OpeningInv
<1>3. CASE MitmReply \/ TunnelReply
  <2>1. /\ pc' \in {"mitm", "join_outbound"}
        /\ emitted' = [emitted EXCEPT !["inbound"] = @ \o ConnectOk]
    BY <1>3 DEF MitmReply, TunnelReply, StartPumps, SendConnectOk
  <2>2. emitted'["inbound"] # <<>>
    <3>1. emitted["inbound"] \in Seq(Token) /\ emitted'["inbound"] = emitted["inbound"] \o ConnectOk
      BY <1>0, <2>1, ConstantFacts DEF TypeOK
    <3>2. PICK a \in Seq(Token), e \in Token : a = emitted["inbound"] /\ ConnectOk = <<e>>
      BY <3>1 DEF ConnectOk, T, Token, TokenKinds
    <3>3. Len(a \o <<e>>) = Len(a) + 1
      OBVIOUS
    <3>4. Len(emitted["inbound"]) \in Nat /\ Len(<<>>) = 0
      BY <3>1, LenProperties, EmptySeq
    <3> QED
      BY <3>1, <3>2, <3>3, <3>4
  <2> QED
    BY <2>1, <2>2 DEF OpeningInv
<1>4. CASE FailWithoutUpstream \/ FailWithUpstream \/ MitmEnd \/ JoinInbound
  BY <1>4 DEF FailWithoutUpstream, FailWithUpstream, MitmEnd, JoinInbound, OpeningInv
<1>5. CASE JoinOutbound
  BY <1>0, <1>5 DEF JoinOutbound, OpeningInv, pumpVars
<1>6. CASE Connect
  BY <1>0, <1>6 DEF Connect, StartPumps, OpeningInv
<1>8. CASE MakeUpstream
  BY <1>0, <1>8 DEF MakeUpstream, OpeningInv, pumpVars
<1>7. ASSUME NEW d \in Directions, PumpTake(d) PROVE OpeningInv'
  <2>1. PICK n \in PayloadLengths(d) :
          emitted' = [emitted EXCEPT ![d] =
            @ \o Patch(tunnel = "plaintext", d, KindNow(d), SubSeq(buf[d], 1, n))]
    BY <1>7 DEF PumpTake
  <2>2. UNCHANGED <<pc, tunnel>> /\ pc \notin {"initial_recv", "mitm_reply", "dial", "connect", "reply"}
    BY <1>0, <1>7 DEF PumpTake, ControlInv
  <2>3. emitted["inbound"] # <<>> => emitted'["inbound"] # <<>>
    <3>1. CASE d # "inbound"
      BY <1>0, <2>1, <3>1 DEF TypeOK
    <3>2. CASE d = "inbound"
      <4>1. PICK x \in Seq(Token) :
              x = Patch(tunnel = "plaintext", d, KindNow(d), SubSeq(buf[d], 1, n))
        <5>1. n \in 0..Len(buf[d]) /\ KindNow(d) \in ProtocolKinds
              /\ (tunnel = "plaintext") \in BOOLEAN /\ SourceIntegrity
          BY <1>0, PayloadFits, KindNowTyped DEF PipesInv, FlowInv, StreamIntegrity
        <5>2. Patch(tunnel = "plaintext", d, KindNow(d), SubSeq(buf[d], 1, n)) \in Seq(Token)
          BY <1>0, <5>1, PatchTyped
        <5> QED
          BY <5>2, Zenon
      <4>2. emitted'["inbound"] = emitted["inbound"] \o x /\ emitted["inbound"] \in Seq(Token)
        BY <1>0, <2>1, <3>2, <4>1, ConstantFacts DEF TypeOK
      <4> QED
        BY <4>2, <4>1
    <3> QED
      BY <3>1, <3>2
  <2> QED
    BY <1>0, <2>2, <2>3 DEF OpeningInv
<1> QED
  BY <1>1, <1>2, <1>3, <1>4, <1>5, <1>6, <1>7, <1>8
  DEF Next, Handler, Pump, Peer, Finished, PumpRecv, PumpBreak, PumpSpin, PumpSend,
      PumpSendFail, ShutdownSource, ShutdownTarget, PeerWrite, PeerClose, PeerFail,
      pumpVars, vars

-----------------------------------------------------------------------------
(* One lemma for each step of a session that the pipes see. *)

(* A peer writes: so do the pipes. *)
LEMMA WriteStep ==
  ASSUME PipesInv, NEW p \in Peers, PeerWrite(p)
  PROVE  \E d \in Directions : Pipes!Write(d)
<1>0. TypeOK
  BY DEF PipesInv, FlowInv
<1>1. PICK d \in Directions : Source(d) = p
  BY DEF Source, Directions, Peers
<1>2. /\ written' = [written EXCEPT ![p] = @ + 1]
      /\ inq' = [inq EXCEPT ![p] = Append(@, Script[p][written[p] + 1])]
      /\ UNCHANGED <<out, pc, tunnel, buf, pend, emitted>>
      /\ written[p] < Len(Script[p])
  BY DEF PeerWrite, pumpVars
<1>3. PICK s \in Seq(Token), w \in Nat, b \in Seq(Token), q \in Seq(Token) :
        s = Script[p] /\ w = written[p] /\ b = buf[d] /\ q = inq[p]
  <2>1. /\ Script[p] \in Seq(Token) /\ written[p] \in Nat
        /\ buf[d] \in Seq(Token) /\ inq[p] \in Seq(Token)
    BY <1>0, ConstantFacts DEF TypeOK
  <2> QED
    BY <2>1, Zenon
<1>4. w + 1 <= Len(s)
  BY <1>2, <1>3, LenProperties
<1>5. PICK e \in Token : e = s[w + 1]
  BY <1>4, ElementOfSeq, LenProperties
<1>6. /\ From(s, w + 1) # <<>>
      /\ Head(From(s, w + 1)) = e
      /\ Tail(From(s, w + 1)) = From(s, w + 1 + 1)
  BY <1>4, <1>5, CutHead
<1>7. b \o Append(q, e) = Append(b \o q, e)
  BY AppendBehind
<1>8. Unwritten[d] = From(s, w + 1) /\ Todo[d] = b \o q
  BY <1>1, <1>3 DEF Unwritten, Todo
<1>9. Unwritten' = [Unwritten EXCEPT ![d] = Tail(@)]
  <2>1. Unwritten'[d] = From(s, w + 1 + 1)
    BY <1>0, <1>1, <1>2, <1>3 DEF Unwritten, TypeOK
  <2>2. \A c \in Directions : c # d => Unwritten'[c] = Unwritten[c]
    BY <1>0, <1>1, <1>2, ConstantFacts DEF Unwritten, TypeOK
  <2> QED
    BY <1>6, <1>8, <2>1, <2>2 DEF Unwritten
<1>10. Todo' = [Todo EXCEPT ![d] = Append(@, Head(Unwritten[d]))]
  <2>1. Todo'[d] = b \o Append(q, e)
    BY <1>0, <1>1, <1>2, <1>3, <1>5 DEF Todo, TypeOK
  <2>2. \A c \in Directions : c # d => Todo'[c] = Todo[c]
    BY <1>0, <1>1, <1>2, ConstantFacts DEF Todo, TypeOK
  <2> QED
    BY <1>6, <1>7, <1>8, <2>1, <2>2 DEF Todo
<1>11. UNCHANGED <<pend, Given, Opening>>
  BY <1>2 DEF Given, Opening
<1> QED
  BY <1>6, <1>8, <1>9, <1>10, <1>11 DEF Pipes!Write

(* A payload is taken: it is the front of what has been written. *)
LEMMA TakeStep ==
  ASSUME PipesInv, NEW d \in Directions, PumpTake(d)
  PROVE  Pipes!Take(d)
<1>0. TypeOK /\ ControlInv /\ OpeningInv
  BY DEF PipesInv, FlowInv
<1>1. PICK n \in PayloadLengths(d) :
        /\ buf' = [buf EXCEPT ![d] = From(buf[d], n + 1)]
        /\ emitted' = [emitted EXCEPT ![d] =
             @ \o Patch(tunnel = "plaintext", d, KindNow(d), SubSeq(buf[d], 1, n))]
        /\ pend' = [pend EXCEPT ![d] =
             Patch(tunnel = "plaintext", d, KindNow(d), SubSeq(buf[d], 1, n))]
  BY DEF PumpTake
<1>2. UNCHANGED <<written, inq, out, pc, tunnel>> /\ ppc[d] = "loop"
  BY DEF PumpTake, netVars
<1>3. n \in 0..Len(buf[d]) /\ KindNow(d) \in ProtocolKinds
  BY <1>0, PayloadFits, KindNowTyped
<1>4. PICK b \in Seq(Token), q \in Seq(Token) : b = buf[d] /\ q = inq[Source(d)]
  <2>1. buf[d] \in Seq(Token) /\ inq[Source(d)] \in Seq(Token)
    BY <1>0, FlowTypes
  <2> QED
    BY <2>1, Zenon
<1>5. /\ SubSeq(b \o q, 1, n) = SubSeq(b, 1, n)
      /\ SubSeq(b \o q, n + 1, Len(b \o q)) = From(b, n + 1) \o q
      /\ n \in 0..Len(b \o q)
  BY <1>3, <1>4, CutFront
<1>6. Opening = "pipe" /\ Opening' = "pipe"
  <2>1. OpeningInv'
    <3>1. [Next]_vars
      BY DEF Next, Pump
    <3> QED
      BY <3>1, OpeningStep
  <2>2. pc \in {"join_outbound", "join_inbound"}
    BY <1>0, <1>2 DEF ControlInv, TypeOK, HandlerStates
  <2> QED
    BY <1>0, <1>2, <2>1, <2>2 DEF OpeningInv, Opening
<1>7. Todo[d] = b \o q
  BY <1>4 DEF Todo
<1>8. Todo' = [Todo EXCEPT ![d] = SubSeq(@, n + 1, Len(@))]
  <2>1. Todo'[d] = From(b, n + 1) \o q
    BY <1>0, <1>1, <1>2, <1>4 DEF Todo, TypeOK
  <2>2. \A c \in Directions : c # d => Todo'[c] = Todo[c]
    BY <1>0, <1>1, <1>2 DEF Todo, TypeOK
  <2> QED
    BY <1>5, <1>7, <2>1, <2>2 DEF Todo
<1>9. pend' = [pend EXCEPT ![d] =
        Patch(tunnel = "plaintext", d, KindNow(d), SubSeq(Todo[d], 1, n))]
  BY <1>1, <1>4, <1>5, <1>7
<1>10. pend[d] = <<>>
  BY <1>0, <1>2 DEF ControlInv
<1>11. UNCHANGED <<Unwritten, Given>>
  BY <1>2 DEF Unwritten, Given
<1>12. n \in 0..Len(Todo[d]) /\ (tunnel = "plaintext") \in BOOLEAN
  BY <1>5, <1>7
<1> QED
  BY <1>3, <1>6, <1>8, <1>9, <1>10, <1>11, <1>12 DEF Pipes!Take

(* send accepts a part of a payload: it is delivered. *)
LEMMA DeliverStep ==
  ASSUME PipesInv, NEW d \in Directions, PumpSend(d)
  PROVE  Pipes!Deliver(d)
<1>0. TypeOK /\ ControlInv /\ OpeningInv
  BY DEF PipesInv, FlowInv
<1>1. PICK k \in 1..Len(pend[d]) :
        /\ out' = [out EXCEPT ![Target(d)] = @ \o SubSeq(pend[d], 1, k)]
        /\ pend' = [pend EXCEPT ![d] = From(@, k + 1)]
  BY DEF PumpSend
<1>2. UNCHANGED <<written, inq, pc, tunnel, buf, emitted>> /\ ppc[d] = "send"
  BY DEF PumpSend, netVars
<1>3. Opening = "pipe" /\ Opening' = "pipe"
  <2>1. pc \in {"join_outbound", "join_inbound"}
    BY <1>0, <1>2 DEF ControlInv, TypeOK, HandlerStates
  <2> QED
    BY <1>0, <1>2, <2>1 DEF OpeningInv, Opening
<1>4. Given' = [Given EXCEPT ![d] = @ \o SubSeq(pend[d], 1, k)]
  <2>1. Given'[d] = Given[d] \o SubSeq(pend[d], 1, k)
    BY <1>0, <1>1, ConstantFacts DEF Given, TypeOK
  <2>2. \A c \in Directions : c # d => Given'[c] = Given[c]
    BY <1>0, <1>1, ConstantFacts DEF Given, TypeOK
  <2> QED
    BY <2>1, <2>2 DEF Given
<1>5. pend' = [pend EXCEPT ![d] = SubSeq(@, k + 1, Len(@))]
  BY <1>1 DEF From
<1>6. UNCHANGED <<Unwritten, Todo>>
  BY <1>2 DEF Unwritten, Todo
<1> QED
  BY <1>3, <1>4, <1>5, <1>6 DEF Pipes!Deliver

(* A recv of a pump moves bytes from the queue to the empty buffer. *)
LEMMA RecvUnseen ==
  ASSUME PipesInv, NEW d \in Directions, PumpRecv(d)
  PROVE  UNCHANGED Pipes!vars
<1>0. TypeOK
  BY DEF PipesInv, FlowInv
<1>1. PICK k \in RecvLengths(inq[Source(d)], RecvMax) :
        /\ buf' = [buf EXCEPT ![d] = SubSeq(inq[Source(d)], 1, k)]
        /\ inq' = [inq EXCEPT ![Source(d)] = From(@, k + 1)]
  BY DEF PumpRecv
<1>2. UNCHANGED <<written, out, pc, tunnel, pend, emitted>> /\ buf[d] = <<>>
  BY DEF PumpRecv
<1>3. PICK q \in Seq(Token) : q = inq[Source(d)]
  <2>1. inq[Source(d)] \in Seq(Token)
    BY <1>0, FlowTypes
  <2> QED
    BY <2>1, Zenon
<1>4. k \in 0..Len(q)
  BY <1>3, LenProperties DEF RecvLengths
<1>5. SubSeq(q, 1, k) \o From(q, k + 1) = <<>> \o q
  BY <1>4, CutSeq, ConcatEmptySeq
<1>6. Todo' = Todo
  <2>1. Todo'[d] = SubSeq(q, 1, k) \o From(q, k + 1) /\ Todo[d] = <<>> \o q
    BY <1>0, <1>1, <1>2, <1>3, ConstantFacts DEF Todo, TypeOK
  <2>2. \A c \in Directions : c # d => Todo'[c] = Todo[c]
    BY <1>0, <1>1, ConstantFacts DEF Todo, TypeOK
  <2> QED
    BY <1>5, <2>1, <2>2 DEF Todo
<1>7. UNCHANGED <<Unwritten, Given, Opening>>
  BY <1>2 DEF Unwritten, Given, Opening
<1> QED
  BY <1>2, <1>6, <1>7 DEF Pipes!vars

(* The first recv opens the pipes, or swallows a CONNECT request. *)
LEMMA OpenStep ==
  ASSUME PipesInv, InitialRecv
  PROVE  Pipes!Pass \/ Pipes!Swallow
<1>0. TypeOK /\ ControlInv /\ OpeningInv
  BY DEF PipesInv, FlowInv
<1>1. PICK q \in Seq(Token) : q = inq["client"]
  <2>1. inq["client"] \in Seq(Token)
    BY <1>0, ConstantFacts DEF TypeOK
  <2> QED
    BY <2>1, Zenon
<1>2. PICK payload \in
        {SubSeq(inq["client"], 1, k) : k \in RecvLengths(inq["client"], InitialMax)}
        \cup (IF inq["client"] = <<>> \/ health["client"] = "reset" THEN {<<>>} ELSE {}) :
        /\ inq' = [inq EXCEPT !["client"] = From(@, Len(payload) + 1)]
        /\ tunnel' \in IF ParseConnectAuthority(payload) THEN TunnelModes ELSE {"no"}
        /\ buf' = [buf EXCEPT !["outbound"] = IF tunnel' # "no" THEN <<>> ELSE payload]
  BY DEF InitialRecv
<1>3. /\ pc = "initial_recv"
      /\ pc' \in {"mitm_reply", "dial"}
      /\ UNCHANGED <<written, out, pend, emitted>>
  BY DEF InitialRecv
<1>4. PICK n \in 0..Len(q) : payload = SubSeq(q, 1, n) /\ Len(payload) = n
  <2>1. CASE payload = <<>>
    <3>1. 0 \in 0..Len(q) /\ SubSeq(q, 1, 0) = <<>> /\ Len(<<>>) = 0
      BY LenProperties, SubSeqEmpty, EmptySeq
    <3> QED
      BY <2>1, <3>1
  <2>2. CASE payload # <<>>
    <3>1. PICK k \in RecvLengths(q, InitialMax) : payload = SubSeq(q, 1, k)
      BY <1>1, <1>2, <2>2, Zenon
    <3>2. k \in 0..Len(q)
      BY LenProperties DEF RecvLengths
    <3>3. Len(SubSeq(q, 1, k)) = k
      BY <3>2, CutSeq
    <3> QED
      BY <3>1, <3>2, <3>3
  <2> QED
    BY <2>1, <2>2
<1>5. PICK x \in Seq(Token), y \in Seq(Token) :
        x = payload /\ y = From(q, n + 1) /\ x \o y = q
  <2>1. SubSeq(q, 1, n) \in Seq(Token) /\ From(q, n + 1) \in Seq(Token)
        /\ SubSeq(q, 1, n) \o From(q, n + 1) = q
    BY CutSeq
  <2> QED
    BY <1>4, <2>1, Zenon
<1>6. Todo["outbound"] = q /\ Opening = "new"
  <2>1. Todo["outbound"] = <<>> \o q
    BY <1>0, <1>1, <1>3, ConstantFacts DEF Todo, ControlInv
  <2>2. <<>> \o q = q
    BY ConcatEmptySeq
  <2> QED
    BY <1>3, <2>1, <2>2 DEF Opening
<1>7. \A c \in Directions : c # "outbound" => Todo'[c] = Todo[c]
  BY <1>0, <1>2, ConstantFacts DEF Todo, TypeOK
<1>8. Todo'["outbound"] = buf'["outbound"] \o y
  BY <1>0, <1>1, <1>2, <1>4, <1>5, ConstantFacts DEF Todo, TypeOK
<1>9. UNCHANGED <<Unwritten, pend, Given>>
  BY <1>3 DEF Unwritten, Given
<1>10. CASE tunnel' = "no"
  <2>1. buf'["outbound"] = x
    BY <1>0, <1>2, <1>5, <1>10, ConstantFacts DEF TypeOK
  <2>2. Todo' = Todo
    BY <1>5, <1>6, <1>7, <1>8, <2>1 DEF Todo
  <2>3. Opening' = "pipe"
    BY <1>3, <1>10 DEF Opening
  <2> QED
    BY <1>6, <1>9, <2>2, <2>3 DEF Pipes!Pass
<1>11. CASE tunnel' # "no"
  <2>1. buf'["outbound"] = <<>>
    BY <1>0, <1>2, <1>11, ConstantFacts DEF TypeOK
  <2>2. <<>> \o y = y
    BY ConcatEmptySeq
  <2>3. Todo' = [Todo EXCEPT !["outbound"] = SubSeq(@, n + 1, Len(@))]
    <3>1. Todo'["outbound"] = SubSeq(Todo["outbound"], n + 1, Len(Todo["outbound"]))
      BY <1>5, <1>6, <1>8, <2>1, <2>2 DEF From
    <3> QED
      BY <1>7, <3>1, ConstantFacts DEF Todo
  <2>4. n \in 1..Len(Todo["outbound"])
    <3>1. Len(payload) >= 3
      BY <1>2, <1>11 DEF ParseConnectAuthority
    <3> QED
      BY <1>4, <1>6, <3>1
  <2>5. Opening' = "connect"
    BY <1>0, <1>3, <1>11 DEF Opening, OpeningInv
  <2> QED
    BY <1>6, <1>9, <2>3, <2>4, <2>5 DEF Pipes!Swallow
<1> QED
  BY <1>10, <1>11

(* The 200 reply is the greeting of the client. *)
LEMMA GreetStep ==
  ASSUME PipesInv, MitmReply \/ TunnelReply
  PROVE  Pipes!Greet
<1>0. TypeOK /\ OpeningInv
  BY DEF PipesInv, FlowInv
<1>1. /\ out' = [out EXCEPT !["client"] = @ \o ConnectOk]
      /\ pc \in {"mitm_reply", "reply"} /\ pc' \in {"mitm", "join_outbound"}
      /\ UNCHANGED <<written, inq, tunnel, buf, pend>>
  BY DEF MitmReply, TunnelReply, SendConnectOk, StartPumps, netVars
<1>2. Opening = "connect"
  BY <1>0, <1>1 DEF OpeningInv, Opening
<1>3. Opening' = "pipe"
  <2>1. OpeningInv'
    <3>1. [Next]_vars
      BY DEF Next, Handler
    <3> QED
      BY <3>1, OpeningStep
  <2> QED
    BY <1>1, <2>1 DEF OpeningInv, Opening
<1>4. Given' = [Given EXCEPT !["inbound"] = @ \o ConnectOk]
  <2>1. Given'["inbound"] = Given["inbound"] \o ConnectOk
    BY <1>0, <1>1, ConstantFacts DEF Given, TypeOK
  <2>2. \A c \in Directions : c # "inbound" => Given'[c] = Given[c]
    BY <1>0, <1>1, ConstantFacts DEF Given, TypeOK
  <2> QED
    BY <2>1, <2>2 DEF Given
<1>5. UNCHANGED <<Unwritten, Todo, pend>>
  BY <1>1 DEF Unwritten, Todo
<1> QED
  BY <1>2, <1>3, <1>4, <1>5 DEF Pipes!Greet

(* What else the handler does, the pipes do not see. *)
LEMMA HandlerUnseen ==
  ASSUME PipesInv,
         \/ MitmEnd \/ FailWithoutUpstream \/ MakeUpstream \/ Connect \/ FailWithUpstream
         \/ JoinOutbound \/ JoinInbound
  PROVE  UNCHANGED Pipes!vars
<1>1. /\ UNCHANGED <<written, inq, out, buf, pend, tunnel, emitted>>
      /\ pc # "initial_recv" /\ pc' # "initial_recv"
  BY DEF MitmEnd, FailWithoutUpstream, MakeUpstream, Connect, StartPumps, FailWithUpstream,
         JoinOutbound, JoinInbound, netVars, pumpVars
<1> QED
  BY <1>1, Unseen DEF Opening

-----------------------------------------------------------------------------

(* Every step of a session is a step of the pipes, or none. *)
LEMMA StepPipes == PipesInv /\ [Next]_vars => [Pipes!Next]_(Pipes!vars)
<1> SUFFICES ASSUME PipesInv, [Next]_vars
             PROVE  Pipes!Next \/ UNCHANGED Pipes!vars
  OBVIOUS
<1>1. CASE Handler
  <2>1. CASE InitialRecv
    BY <2>1, OpenStep DEF Pipes!Next
  <2>2. CASE MitmReply \/ TunnelReply
    BY <2>2, GreetStep DEF Pipes!Next
  <2> QED
    BY <1>1, <2>1, <2>2, HandlerUnseen DEF Handler
<1>2. ASSUME NEW d \in Directions, Pump(d)
      PROVE  Pipes!Next \/ UNCHANGED Pipes!vars
  <2>1. CASE PumpTake(d)
    BY <2>1, TakeStep DEF Pipes!Next
  <2>2. CASE PumpSend(d)
    BY <2>2, DeliverStep DEF Pipes!Next
  <2>3. CASE PumpRecv(d)
    BY <2>3, RecvUnseen
  <2>4. CASE PumpBreak(d) \/ PumpSpin(d) \/ PumpSendFail(d)
             \/ ShutdownSource(d) \/ ShutdownTarget(d)
    <3>1. UNCHANGED <<written, inq, out, buf, pend, tunnel, emitted, pc>>
      BY <2>4 DEF PumpBreak, PumpSpin, PumpSendFail, ShutdownSource, ShutdownTarget, netVars
    <3> QED
      BY <3>1, Unseen DEF Opening
  <2> QED
    BY <1>2, <2>1, <2>2, <2>3, <2>4 DEF Pump
<1>3. ASSUME NEW p \in Peers, Peer(p)
      PROVE  Pipes!Next \/ UNCHANGED Pipes!vars
  <2>1. CASE PeerWrite(p)
    BY <2>1, WriteStep DEF Pipes!Next
  <2>2. CASE PeerClose(p) \/ PeerFail(p)
    <3>1. UNCHANGED <<written, inq, out, buf, pend, tunnel, emitted, pc>>
      BY <2>2 DEF PeerClose, PeerFail, pumpVars
    <3> QED
      BY <3>1, Unseen DEF Opening
  <2> QED
    BY <1>3, <2>1, <2>2 DEF Peer
<1>4. CASE UNCHANGED vars
  BY <1>4, Unseen DEF vars, Opening
<1> QED
  BY <1>1, <1>2, <1>3, <1>4 DEF Next, Finished

(* A client session implements a pair of patching pipes, whatever the streams,
   the tunnel modes, the buffer sizes, the patch and the faults of the peers. *)
THEOREM Implements == Spec => ImplementsPipes
<1>1. Init => PipesInv
  <2>1. Init => OpeningInv
    BY ConstantFacts DEF OpeningInv, Init
  <2> QED
    BY <2>1, InitFlow DEF PipesInv
<1>2. PipesInv /\ [Next]_vars => PipesInv'
  BY FlowStep, OpeningStep DEF PipesInv
<1> QED
  BY <1>1, <1>2, InitPipes, StepPipes, PTL DEF Spec, ImplementsPipes, Pipes!Spec

=============================================================================
