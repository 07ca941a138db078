-------------------------- MODULE TcpSessionProofs --------------------------
(***************************************************************************)
(* Proofs about TcpSession, for every pair of scripts, every buffer size   *)
(* and every patch.                                                        *)
(***************************************************************************)
EXTENDS TcpSession, SequenceTheorems, WellFoundedInduction, TLAPS

-----------------------------------------------------------------------------
(* Sequences that are cut in two and put together again. *)

(* A sequence is its first k elements followed by the others. *)
LEMMA CutSeq ==
  ASSUME NEW S, NEW s \in Seq(S), NEW k \in 0..Len(s)
  PROVE  /\ SubSeq(s, 1, k) \in Seq(S)
         /\ Len(SubSeq(s, 1, k)) = k
         /\ From(s, k + 1) \in Seq(S)
         /\ Len(From(s, k + 1)) = Len(s) - k
         /\ SubSeq(s, 1, k) \o From(s, k + 1) = s
<1>1. Len(s) \in Nat /\ k \in Int
  BY LenProperties
<1>2. \A i \in 1..Len(s) : s[i] \in S
  BY ElementOfSeq
<1>3. SubSeq(s, 1, k) \in Seq(S) /\ Len(SubSeq(s, 1, k)) = k
  <2>1. \A i \in 1..k : s[i] \in S
    BY <1>1, <1>2
  <2> QED
    BY <2>1, <1>1, SubSeqProperties
<1>4. From(s, k + 1) \in Seq(S) /\ Len(From(s, k + 1)) = Len(s) - k
  <2>1. \A i \in k + 1..Len(s) : s[i] \in S
    BY <1>1, <1>2
  <2> QED
    BY <2>1, <1>1, SubSeqProperties DEF From
<1>5. SubSeq(s, 1, k) \o SubSeq(s, k + 1, Len(s)) = SubSeq(s, 1, Len(s))
  <2>1. 1 \in 1..Len(s) + 1 /\ k \in 1 - 1..Len(s) /\ Len(s) \in k..Len(s)
    BY <1>1
  <2> QED
    BY <2>1, ConcatAdjacentSubSeq, Zenon
<1> QED
  BY <1>3, <1>4, <1>5, SubSeqFull DEF From

(* send_all hands the first k of the rest to the kernel. *)
LEMMA MoveToEnd ==
  ASSUME NEW S, NEW a \in Seq(S), NEW b \in Seq(S), NEW k \in 0..Len(b)
  PROVE  (a \o SubSeq(b, 1, k)) \o From(b, k + 1) = a \o b
<1>1. PICK x \in Seq(S), y \in Seq(S) : x = SubSeq(b, 1, k) /\ y = From(b, k + 1) /\ x \o y = b
  <2>1. SubSeq(b, 1, k) \in Seq(S) /\ From(b, k + 1) \in Seq(S)
        /\ SubSeq(b, 1, k) \o From(b, k + 1) = b
    BY CutSeq
  <2> QED
    BY <2>1, Zenon
<1>2. (a \o x) \o y = a \o (x \o y)
  OBVIOUS
<1> QED
  BY <1>1, <1>2

(* recv moves the first k of the queue to an empty buffer. *)
LEMMA MoveToEmpty ==
  ASSUME NEW S, NEW a \in Seq(S), NEW q \in Seq(S), NEW k \in 0..Len(q)
  PROVE  (a \o SubSeq(q, 1, k)) \o From(q, k + 1) = (a \o <<>>) \o q
<1>1. a \o <<>> = a
  OBVIOUS
<1> QED
  BY <1>1, MoveToEnd

(* One more element of s joins the end of q, which stays a sequence. *)
LEMMA GrowTyped ==
  ASSUME NEW S, NEW s \in Seq(S), NEW w \in Nat, w + 1 <= Len(s), NEW q \in Seq(S)
  PROVE  Append(q, s[w + 1]) \in Seq(S)
OBVIOUS

(* It joins the prefix of s that q ends too. *)
LEMMA GrowPrefix ==
  ASSUME NEW S, NEW s \in Seq(S), NEW w \in Nat, w + 1 <= Len(s),
         NEW x \in Seq(S), NEW q \in Seq(S)
  PROVE  x \o q = SubSeq(s, 1, w) => x \o Append(q, s[w + 1]) = SubSeq(s, 1, w + 1)
<1>1. s[w + 1] \in S /\ Append(SubSeq(s, 1, w), s[w + 1]) = SubSeq(s, 1, w + 1)
  OBVIOUS
<1>2. PICK e \in S : e = s[w + 1]
  BY <1>1
<1>3. x \o Append(q, e) = Append(x \o q, e)
  OBVIOUS
<1> QED
  BY <1>1, <1>2, <1>3

(* The front of a buffer that lies between a and q in a prefix of s is a run
   of s. *)
LEMMA RunLength ==
  ASSUME NEW S, NEW s \in Seq(S), NEW w \in Nat, w <= Len(s),
         NEW a \in Seq(S), NEW b \in Seq(S), NEW q \in Seq(S), NEW n \in 0..Len(b)
  PROVE  (a \o b) \o q = SubSeq(s, 1, w) => Len(a) + n <= Len(s)
<1>1. Len((a \o b) \o q) = Len(a) + Len(b) + Len(q)
  OBVIOUS
<1>2. Len(SubSeq(s, 1, w)) = w
  OBVIOUS
<1>3. Len(a) \in Nat /\ Len(b) \in Nat /\ Len(q) \in Nat /\ Len(s) \in Nat
  BY LenProperties
<1> QED
  BY <1>1, <1>2, <1>3

LEMMA RunOfPrefix ==
  ASSUME NEW S, NEW s \in Seq(S), NEW w \in Nat, w <= Len(s),
         NEW a \in Seq(S), NEW b \in Seq(S), NEW q \in Seq(S), NEW n \in 0..Len(b)
  PROVE  (a \o b) \o q = SubSeq(s, 1, w)
           => SubSeq(b, 1, n) = SubSeq(s, Len(a) + 1, Len(a) + n)
<1>1. Len(a) \in Nat /\ Len(b) \in Nat /\ Len(q) \in Nat /\ Len(s) \in Nat
  BY LenProperties
<1>2. /\ Len((a \o b) \o q) = Len(a) + Len(b) + Len(q)
      /\ \A i \in 1..Len(b) : ((a \o b) \o q)[Len(a) + i] = b[i]
  OBVIOUS
<1>3. /\ Len(SubSeq(s, 1, w)) = w
      /\ \A i \in 1..w : SubSeq(s, 1, w)[i] = s[i]
  OBVIOUS
<1>s. SUFFICES ASSUME (a \o b) \o q = SubSeq(s, 1, w)
               PROVE  SubSeq(b, 1, n) = SubSeq(s, Len(a) + 1, Len(a) + n)
  OBVIOUS
<1>4. Len(a) + Len(b) + Len(q) = w
  BY <1>s, <1>2, <1>3
<1>5. \A i \in 1..n : b[i] = s[Len(a) + i]
  <2> SUFFICES ASSUME NEW i \in 1..n PROVE b[i] = s[Len(a) + i]
    OBVIOUS
  <2>1. i \in 1..Len(b) /\ Len(a) + i \in 1..w
    BY <1>1, <1>4
  <2> QED
    BY <1>s, <1>2, <1>3, <2>1
<1>6. PICK m \in Nat : m = Len(a)
  BY <1>1
<1>7. m + n <= Len(s) /\ \A i \in 1..n : b[i] = s[m + i]
  BY <1>1, <1>4, <1>5, <1>6
<1>8. SubSeq(b, 1, n) = SubSeq(s, m + 1, m + n)
  <2>1. SubSeq(b, 1, n) \in Seq(S) /\ Len(SubSeq(b, 1, n)) = n
        /\ \A i \in 1..n : SubSeq(b, 1, n)[i] = b[i]
    OBVIOUS
  <2>2. SubSeq(s, m + 1, m + n) \in Seq(S) /\ Len(SubSeq(s, m + 1, m + n)) = n
        /\ \A i \in 1..n : SubSeq(s, m + 1, m + n)[i] = s[m + i]
    <3>1. PICK j \in Nat, l \in Nat : j = m + 1 /\ l = m + n
      OBVIOUS
    <3>2. \A i \in j..l : s[i] \in S
      BY <1>1, <1>7, <3>1, ElementOfSeq
    <3>3. /\ SubSeq(s, j, l) \in Seq(S)
          /\ Len(SubSeq(s, j, l)) = IF j <= l THEN l - j + 1 ELSE 0
          /\ \A i \in 1..l - j + 1 : SubSeq(s, j, l)[i] = s[j + i - 1]
      BY <3>2, SubSeqProperties
    <3>4. \A i \in 1..n : i \in 1..l - j + 1 /\ j + i - 1 = m + i
      BY <3>1
    <3> QED
      BY <3>1, <3>3, <3>4
  <2> QED
    BY <2>1, <2>2, <1>7, SeqEqual
<1> QED
  BY <1>6, <1>8

-----------------------------------------------------------------------------
(* The inductive invariant. *)

FlowInv == TypeOK /\ StreamIntegrity /\ ControlInv

flow == <<written, inq, out, buf, pend, skipped, taken, emitted>>

(* The constants, in the form the steps below use them. *)
LEMMA ConstantFacts ==
  /\ \A p \in Peers : Script[p] \in Seq(Token) /\ Len(Script[p]) \in Nat
  /\ \A d \in Directions : Source(d) \in Peers /\ Target(d) \in Peers
  /\ \A d, e \in Directions : Source(d) = Source(e) => d = e
  /\ \A d, e \in Directions : Target(d) = Target(e) => d = e
  /\ Source("outbound") = "client" /\ Target("inbound") = "client"
  /\ "outbound" \in Directions /\ "inbound" \in Directions
  /\ "client" \in Peers /\ "upstream" \in Peers
<1>1. \A p \in Peers : Script[p] \in Seq(Token)
  BY ConstantsAssumption
<1>2. \A p \in Peers : Len(Script[p]) \in Nat
  BY <1>1, LenProperties
<1> QED
  BY <1>1, <1>2 DEF Source, Target, Peers, Directions

(* A step that moves no byte keeps both halves of StreamIntegrity. *)
LEMMA FlowUnchanged ==
  ASSUME StreamIntegrity, UNCHANGED flow
  PROVE  StreamIntegrity'
BY DEF StreamIntegrity, SourceIntegrity, TargetIntegrity, flow

(* Nothing has been read or written at the start of a session. *)
LEMMA InitFlow == Init => FlowInv
<1> SUFFICES ASSUME Init PROVE FlowInv
  OBVIOUS
<1>1. TypeOK
  <2>1. /\ [p \in Peers |-> <<>>] \in [Peers -> Seq(Token)]
        /\ [d \in Directions |-> <<>>] \in [Directions -> Seq(Token)]
    <3>1. <<>> \in Seq(Token)
      BY EmptySeq
    <3> QED
      BY <3>1, Zenon
  <2>2. \A p \in Peers : written[p] <= Len(Script[p])
    BY ConstantFacts DEF Init
  <2>3. /\ written \in [Peers -> Nat]
        /\ eof \in [Peers -> BOOLEAN]
        /\ health \in [Peers -> {"ok", "stalled", "reset"}]
        /\ sock \in [Peers -> SocketStates]
        /\ pc \in HandlerStates
        /\ tunnel \in Tunnels \cup {"no"}
        /\ ppc \in [Directions -> PumpStates]
        /\ kind \in [Directions -> ProtocolKinds]
        /\ decided \in [Directions -> BOOLEAN]
    BY DEF Init, SocketStates, HandlerStates, PumpStates, ProtocolKinds
  <2> QED
    BY <2>1, <2>2, <2>3, Zenon DEF Init, TypeOK
<1>2. SourceIntegrity
  <2>1. <<>> \o <<>> = <<>>
    BY EmptySeq, ConcatEmptySeq
  <2> SUFFICES ASSUME NEW d \in Directions
               PROVE  skipped[d] \o taken[d] \o buf[d] \o inq[Source(d)]
                        = SubSeq(Script[Source(d)], 1, written[Source(d)])
    BY DEF SourceIntegrity
  <2>2. written[Source(d)] = 0 /\ inq[Source(d)] = <<>>
    BY ConstantFacts DEF Init
  <2>3. SubSeq(Script[Source(d)], 1, 0) = <<>>
    BY SubSeqEmpty
  <2> QED
    BY <2>1, <2>2, <2>3 DEF Init
<1>3. TargetIntegrity
  <2>1. <<>> \o <<>> = <<>>
    BY EmptySeq, ConcatEmptySeq
  <2> QED
    BY <2>1, ConstantFacts DEF Init, TargetIntegrity
<1>4. ControlInv
  BY DEF Init, ControlInv, Peers, Directions
<1> QED
  BY <1>1, <1>2, <1>3, <1>4 DEF FlowInv, StreamIntegrity

-----------------------------------------------------------------------------
(* The steps that move bytes. *)

(* A written byte joins the end of the queue and of what was written. *)
LEMMA PeerWriteFlow ==
  ASSUME FlowInv, NEW p \in Peers, PeerWrite(p)
  PROVE  FlowInv'
<1>0. TypeOK /\ SourceIntegrity /\ TargetIntegrity /\ ControlInv
  BY DEF FlowInv, StreamIntegrity
<1>1. /\ inq' = [inq EXCEPT ![p] = Append(inq[p], Script[p][written[p] + 1])]
      /\ written' = [written EXCEPT ![p] = written[p] + 1]
      /\ UNCHANGED <<out, eof, health, sock, pc, tunnel, pumpVars>>
  BY DEF PeerWrite
<1>2. /\ written[p] \in Nat /\ inq[p] \in Seq(Token)
      /\ Script[p] \in Seq(Token) /\ Len(Script[p]) \in Nat
  BY <1>0, ConstantFacts DEF TypeOK
<1>3. written[p] + 1 <= Len(Script[p])
  BY <1>2 DEF PeerWrite
<1>4. PICK d \in Directions : Source(d) = p
  BY DEF Source, Directions, Peers
<1>5. PICK x \in Seq(Token) : x = skipped[d] \o taken[d] \o buf[d]
  <2>1. skipped[d] \o taken[d] \in Seq(Token)
    BY <1>0, ConcatProperties DEF TypeOK
  <2> QED
    BY <1>0, <2>1, ConcatProperties DEF TypeOK
<1>6. x \o inq[p] = SubSeq(Script[p], 1, written[p])
  BY <1>0, <1>4, <1>5 DEF SourceIntegrity
<1>7. /\ inq'[p] \in Seq(Token)
      /\ x \o inq'[p] = SubSeq(Script[p], 1, written'[p])
  <2>1. inq'[p] = Append(inq[p], Script[p][written[p] + 1]) /\ written'[p] = written[p] + 1
    BY <1>0, <1>1 DEF TypeOK
  <2>2. Append(inq[p], Script[p][written[p] + 1]) \in Seq(Token)
    BY <1>2, <1>3, GrowTyped
  <2>3. x \o Append(inq[p], Script[p][written[p] + 1])
          = SubSeq(Script[p], 1, written[p] + 1)
    <3>1. x \in Seq(Token)
      BY <1>5
    <3> QED
      BY <1>2, <1>3, <1>6, <3>1, GrowPrefix
  <2> QED
    BY <2>1, <2>2, <2>3
<1>10. TypeOK'
  <2>1. inq' \in [Peers -> Seq(Token)]
    BY <1>0, <1>1, <1>7 DEF TypeOK
  <2>2. written' \in [Peers -> Nat] /\ \A y \in Peers : written'[y] <= Len(Script[y])
    BY <1>0, <1>1, <1>2, <1>3 DEF TypeOK
  <2> QED
    BY <2>1, <2>2, <1>0, <1>1 DEF TypeOK, pumpVars
<1>11. SourceIntegrity'
  <2> SUFFICES ASSUME NEW c \in Directions
               PROVE  (skipped[c] \o taken[c] \o buf[c] \o inq[Source(c)]
                        = SubSeq(Script[Source(c)], 1, written[Source(c)]))'
    BY DEF SourceIntegrity
  <2>1. CASE c = d
    BY <1>1, <1>4, <1>5, <1>7, <2>1 DEF pumpVars
  <2>2. CASE c # d
    <3>1. inq'[Source(c)] = inq[Source(c)] /\ written'[Source(c)] = written[Source(c)]
      BY <1>0, <1>1, <1>4, <2>2, ConstantFacts DEF TypeOK
    <3> QED
      BY <1>0, <1>1, <3>1 DEF SourceIntegrity, pumpVars
  <2> QED
    BY <2>1, <2>2
<1>12. TargetIntegrity'
  BY <1>0, <1>1 DEF TargetIntegrity, pumpVars
<1>13. ControlInv'
  BY <1>0, <1>1 DEF ControlInv, pumpVars
<1> QED
  BY <1>10, <1>11, <1>12, <1>13 DEF FlowInv, StreamIntegrity

(* The typing of what one direction holds, gathered for the steps below. *)
LEMMA FlowTypes ==
  ASSUME TypeOK, NEW d \in Directions
  PROVE  /\ skipped[d] \in Seq(Token) /\ taken[d] \in Seq(Token)
         /\ buf[d] \in Seq(Token) /\ pend[d] \in Seq(Token)
         /\ emitted[d] \in Seq(Token)
         /\ inq[Source(d)] \in Seq(Token) /\ out[Target(d)] \in Seq(Token)
         /\ skipped[d] \o taken[d] \in Seq(Token)
         /\ Script[Source(d)] \in Seq(Token)
         /\ written[Source(d)] \in Nat /\ written[Source(d)] <= Len(Script[Source(d)])
<1>1. /\ skipped[d] \in Seq(Token) /\ taken[d] \in Seq(Token)
      /\ buf[d] \in Seq(Token) /\ pend[d] \in Seq(Token)
      /\ emitted[d] \in Seq(Token)
      /\ inq[Source(d)] \in Seq(Token) /\ out[Target(d)] \in Seq(Token)
      /\ written[Source(d)] \in Nat /\ written[Source(d)] <= Len(Script[Source(d)])
  BY ConstantFacts DEF TypeOK
<1>2. skipped[d] \o taken[d] \in Seq(Token)
  BY <1>1, ConcatProperties
<1> QED
  BY <1>1, <1>2, ConstantFacts

(* A recv moves bytes from the queue to the empty buffer. *)
LEMMA PumpRecvFlow ==
  ASSUME FlowInv, NEW d \in Directions, PumpRecv(d)
  PROVE  FlowInv'
<1>0. TypeOK /\ SourceIntegrity /\ TargetIntegrity /\ ControlInv
  BY DEF FlowInv, StreamIntegrity
<1>1. PICK k \in RecvLengths(inq[Source(d)], RecvMax) :
        /\ buf' = [buf EXCEPT ![d] = SubSeq(inq[Source(d)], 1, k)]
        /\ inq' = [inq EXCEPT ![Source(d)] = From(inq[Source(d)], k + 1)]
  BY DEF PumpRecv
<1>2. /\ UNCHANGED <<written, out, eof, health, sock, pc, tunnel,
                     ppc, kind, decided, pend, skipped, taken, emitted>>
      /\ buf[d] = <<>> /\ ppc[d] = "loop"
  BY DEF PumpRecv
<1>3. inq[Source(d)] \in Seq(Token) /\ skipped[d] \o taken[d] \in Seq(Token)
  BY <1>0, FlowTypes
<1>4. k \in 0..Len(inq[Source(d)])
  BY <1>3 DEF RecvLengths
<1>5. /\ buf'[d] = SubSeq(inq[Source(d)], 1, k)
      /\ inq'[Source(d)] = From(inq[Source(d)], k + 1)
  BY <1>0, <1>1, ConstantFacts DEF TypeOK
<1>6. SubSeq(inq[Source(d)], 1, k) \in Seq(Token) /\ From(inq[Source(d)], k + 1) \in Seq(Token)
  BY <1>3, <1>4, CutSeq
<1>10. TypeOK'
  <2>1. inq' \in [Peers -> Seq(Token)] /\ buf' \in [Directions -> Seq(Token)]
    BY <1>0, <1>1, <1>6 DEF TypeOK
  <2> QED
    BY <2>1, <1>0, <1>2 DEF TypeOK
<1>11. SourceIntegrity'
  <2> SUFFICES ASSUME NEW c \in Directions
               PROVE  (skipped[c] \o taken[c] \o buf[c] \o inq[Source(c)]
                        = SubSeq(Script[Source(c)], 1, written[Source(c)]))'
    BY DEF SourceIntegrity
  <2>1. CASE c = d
    <3>1. (skipped[d] \o taken[d] \o SubSeq(inq[Source(d)], 1, k)) \o From(inq[Source(d)], k + 1)
            = (skipped[d] \o taken[d] \o <<>>) \o inq[Source(d)]
      BY <1>3, <1>4, MoveToEmpty
    <3> QED
      BY <1>0, <1>2, <1>5, <2>1, <3>1 DEF SourceIntegrity
  <2>2. CASE c # d
    <3>1. inq'[Source(c)] = inq[Source(c)] /\ buf'[c] = buf[c]
      BY <1>0, <1>1, <2>2, ConstantFacts DEF TypeOK
    <3> QED
      BY <1>0, <1>2, <3>1 DEF SourceIntegrity
  <2> QED
    BY <2>1, <2>2
<1>12. TargetIntegrity'
  BY <1>0, <1>2 DEF TargetIntegrity
<1>13. ControlInv'
  <2>1. pc # "initial_recv"
    BY <1>0, <1>2 DEF ControlInv
  <2> QED
    BY <1>0, <1>2, <2>1 DEF ControlInv
<1> QED
  BY <1>10, <1>11, <1>12, <1>13 DEF FlowInv, StreamIntegrity

(* A payload is no longer than the buffer it is taken from. *)
LEMMA PayloadFits ==
  ASSUME TypeOK, NEW d \in Directions, NEW n \in PayloadLengths(d)
  PROVE  n \in 0..Len(buf[d])
<1>1. Len(buf[d]) \in Nat
  BY LenProperties DEF TypeOK
<1> QED
  BY <1>1 DEF PayloadLengths, TryTakeHttpMessage

(* The kind a payload is patched as. *)
LEMMA KindNowTyped ==
  ASSUME TypeOK, NEW d \in Directions
  PROVE  KindNow(d) \in ProtocolKinds
BY DEF TypeOK, KindNow, DetectProtocolKind, ProtocolKinds

(* The buffer's front is a run of the source's script, so that the patch
   returns a byte stream for it. *)
LEMMA PatchTyped ==
  ASSUME TypeOK, SourceIntegrity, NEW d \in Directions, NEW n \in 0..Len(buf[d]),
         NEW plaintext \in BOOLEAN, NEW k \in ProtocolKinds
  PROVE  Patch(plaintext, d, k, SubSeq(buf[d], 1, n)) \in Seq(Token)
<1>1. PICK a \in Seq(Token) : a = skipped[d] \o taken[d]
  <2>1. skipped[d] \o taken[d] \in Seq(Token)
    BY FlowTypes
  <2> QED
    BY <2>1, Zenon
<1>2. (a \o buf[d]) \o inq[Source(d)] = SubSeq(Script[Source(d)], 1, written[Source(d)])
  BY <1>1 DEF SourceIntegrity
<1>3. /\ Script[Source(d)] \in Seq(Token) /\ buf[d] \in Seq(Token)
      /\ inq[Source(d)] \in Seq(Token)
      /\ written[Source(d)] \in Nat /\ written[Source(d)] <= Len(Script[Source(d)])
  BY FlowTypes
<1>4. a \in Seq(Token)
  BY <1>1
<1>5. SubSeq(buf[d], 1, n) = SubSeq(Script[Source(d)], Len(a) + 1, Len(a) + n)
  <2>1. PICK s, b, q, w : /\ s = Script[Source(d)] /\ b = buf[d]
                          /\ q = inq[Source(d)] /\ w = written[Source(d)]
    OBVIOUS
  <2>2. /\ s \in Seq(Token) /\ b \in Seq(Token) /\ q \in Seq(Token) /\ n \in 0..Len(b)
        /\ w \in Nat /\ w <= Len(s) /\ (a \o b) \o q = SubSeq(s, 1, w)
    BY <2>1, <1>2, <1>3
  <2>3. SubSeq(b, 1, n) = SubSeq(s, Len(a) + 1, Len(a) + n)
    BY <2>2, <1>4, RunOfPrefix
  <2> QED
    BY <2>1, <2>3
<1>6. Len(a) + n <= Len(Script[Source(d)])
  BY <1>2, <1>3, <1>4, RunLength
<1>7. PICK i, j : i = Len(a) + 1 /\ j = Len(a) + n
  OBVIOUS
<1>8. i \in 1..Len(Script[Source(d)]) + 1 /\ j \in 0..Len(Script[Source(d)])
  <2>1. Len(a) \in Nat /\ Len(Script[Source(d)]) \in Nat /\ Len(buf[d]) \in Nat
    BY <1>3, <1>4, LenProperties
  <2> QED
    BY <2>1, <1>6, <1>7
<1>9. Patch(plaintext, d, k, SubSeq(Script[Source(d)], i, j)) \in Seq(Token)
  BY <1>8, PatchAssumption
<1> QED
  BY <1>5, <1>7, <1>9

(* A payload leaves the front of the buffer; its patched form is still to be
   sent. *)
LEMMA PumpTakeFlow ==
  ASSUME FlowInv, NEW d \in Directions, PumpTake(d)
  PROVE  FlowInv'
<1>0. TypeOK /\ SourceIntegrity /\ TargetIntegrity /\ ControlInv
  BY DEF FlowInv, StreamIntegrity
<1>1. PICK n \in PayloadLengths(d) :
        LET payload == SubSeq(buf[d], 1, n)
            patched == Patch(tunnel = "plaintext", d, KindNow(d), payload)
        IN  /\ buf' = [buf EXCEPT ![d] = From(buf[d], n + 1)]
            /\ taken' = [taken EXCEPT ![d] = taken[d] \o payload]
            /\ emitted' = [emitted EXCEPT ![d] = emitted[d] \o patched]
            /\ pend' = [pend EXCEPT ![d] = patched]
            /\ ppc' = [ppc EXCEPT ![d] = IF patched = <<>> THEN "loop" ELSE "send"]
  BY DEF PumpTake
<1>2. /\ UNCHANGED <<netVars, out, sock, pc, tunnel, skipped>>
      /\ ppc[d] = "loop"
      /\ kind' = [kind EXCEPT ![d] = KindNow(d)]
      /\ decided' = [decided EXCEPT ![d] = DecidedNow(d)]
  BY DEF PumpTake, Detect
<1>3. n \in 0..Len(buf[d])
  BY <1>0, PayloadFits
<1>4. PICK x, y, patched :
        /\ x = SubSeq(buf[d], 1, n) /\ y = From(buf[d], n + 1)
        /\ patched = Patch(tunnel = "plaintext", d, KindNow(d), SubSeq(buf[d], 1, n))
  OBVIOUS
<1>5. patched \in Seq(Token)
  <2>1. (tunnel = "plaintext") \in BOOLEAN
    OBVIOUS
  <2>2. KindNow(d) \in ProtocolKinds
    BY <1>0, KindNowTyped
  <2> QED
    BY <1>0, <1>3, <1>4, <2>1, <2>2, PatchTyped
<1>6. /\ skipped[d] \in Seq(Token) /\ taken[d] \in Seq(Token) /\ buf[d] \in Seq(Token)
      /\ emitted[d] \in Seq(Token) /\ inq[Source(d)] \in Seq(Token)
      /\ out[Target(d)] \in Seq(Token)
  BY <1>0, FlowTypes
<1>7. x \in Seq(Token) /\ y \in Seq(Token)
  BY <1>3, <1>4, <1>6, CutSeq
<1>8. /\ buf' = [buf EXCEPT ![d] = y]
      /\ taken' = [taken EXCEPT ![d] = taken[d] \o x]
      /\ emitted' = [emitted EXCEPT ![d] = emitted[d] \o patched]
      /\ pend' = [pend EXCEPT ![d] = patched]
      /\ ppc' = [ppc EXCEPT ![d] = IF patched = <<>> THEN "loop" ELSE "send"]
  BY <1>1, <1>4, Zenon
<1>10. TypeOK'
  <2>1. taken[d] \o x \in Seq(Token) /\ emitted[d] \o patched \in Seq(Token)
    BY <1>5, <1>6, <1>7, ConcatProperties
  <2>2. /\ buf' \in [Directions -> Seq(Token)] /\ taken' \in [Directions -> Seq(Token)]
        /\ emitted' \in [Directions -> Seq(Token)] /\ pend' \in [Directions -> Seq(Token)]
    BY <1>0, <1>5, <1>7, <1>8, <2>1 DEF TypeOK
  <2>3. kind' \in [Directions -> ProtocolKinds]
    BY <1>0, <1>2, KindNowTyped DEF TypeOK
  <2>4. decided' \in [Directions -> BOOLEAN]
    <3>1. DecidedNow(d) \in BOOLEAN
      BY <1>0 DEF TypeOK, DecidedNow
    <3> QED
      BY <1>0, <1>2, <3>1 DEF TypeOK
  <2>5. ppc' \in [Directions -> PumpStates]
    BY <1>0, <1>8 DEF TypeOK, PumpStates
  <2> QED
    BY <1>0, <1>2, <2>2, <2>3, <2>4, <2>5 DEF TypeOK, netVars
<1>11. SourceIntegrity'
  <2> SUFFICES ASSUME NEW c \in Directions
               PROVE  (skipped[c] \o taken[c] \o buf[c] \o inq[Source(c)]
                        = SubSeq(Script[Source(c)], 1, written[Source(c)]))'
    BY DEF SourceIntegrity
  <2>1. CASE c = d
    <3>1. (skipped[d] \o (taken[d] \o x)) \o y = (skipped[d] \o taken[d]) \o buf[d]
      <4>1. (skipped[d] \o (taken[d] \o x)) \o y = (skipped[d] \o taken[d]) \o (x \o y)
        <5>1. PICK a \in Seq(Token), t \in Seq(Token) : a = skipped[d] /\ t = taken[d]
          BY <1>6, Zenon
        <5>2. a \in Seq(Token) /\ t \in Seq(Token)
          BY <5>1
        <5>3. (a \o (t \o x)) \o y = (a \o t) \o (x \o y)
          BY <1>7, <5>2
        <5> QED
          BY <5>1, <5>3
      <4>2. x \o y = buf[d]
        BY <1>3, <1>4, <1>6, CutSeq
      <4> QED
        BY <4>1, <4>2
    <3>2. taken'[d] = taken[d] \o x /\ buf'[d] = y
      BY <1>0, <1>8 DEF TypeOK
    <3> QED
      BY <1>0, <1>2, <2>1, <3>1, <3>2 DEF SourceIntegrity, netVars
  <2>2. CASE c # d
    <3>1. taken'[c] = taken[c] /\ buf'[c] = buf[c]
      BY <1>0, <1>8, <2>2 DEF TypeOK
    <3> QED
      BY <1>0, <1>2, <3>1 DEF SourceIntegrity, netVars
  <2> QED
    BY <2>1, <2>2
<1>12. TargetIntegrity'
  <2> SUFFICES ASSUME NEW c \in Directions
               PROVE  (out[Target(c)] \o pend[c] = emitted[c])'
    BY DEF TargetIntegrity
  <2>1. CASE c = d
    <3>1. out[Target(d)] \o <<>> = emitted[d]
      BY <1>0, <1>2 DEF TargetIntegrity, ControlInv
    <3>2. out[Target(d)] = emitted[d]
      BY <1>6, <3>1, ConcatEmptySeq
    <3>3. pend'[d] = patched /\ emitted'[d] = emitted[d] \o patched
      BY <1>0, <1>8 DEF TypeOK
    <3> QED
      BY <1>2, <2>1, <3>2, <3>3
  <2>2. CASE c # d
    <3>1. pend'[c] = pend[c] /\ emitted'[c] = emitted[c]
      BY <1>0, <1>8, <2>2 DEF TypeOK
    <3> QED
      BY <1>0, <1>2, <3>1 DEF TargetIntegrity
  <2> QED
    BY <2>1, <2>2
<1>13. ControlInv'
  <2>1. pc \notin {"initial_recv", "mitm_reply", "mitm", "dial", "connect", "reply", "done"}
    BY <1>0, <1>2 DEF ControlInv
  <2>2. d = "outbound" => pc # "join_inbound"
    BY <1>0, <1>2 DEF ControlInv
  <2>3. \A c \in Directions : ppc'[c] \in {"off", "loop"} => pend'[c] = <<>>
    BY <1>0, <1>8 DEF ControlInv, TypeOK
  <2>4. pc' = "join_inbound" => ppc'["outbound"] = "done"
    BY <1>0, <1>2, <1>8, <2>2 DEF ControlInv, TypeOK
  <2> QED
    BY <1>0, <1>2, <2>1, <2>3, <2>4 DEF ControlInv
<1> QED
  BY <1>10, <1>11, <1>12, <1>13 DEF FlowInv, StreamIntegrity

(* A partial send moves the front of the rest to the kernel. *)
LEMMA PumpSendFlow ==
  ASSUME FlowInv, NEW d \in Directions, PumpSend(d)
  PROVE  FlowInv'
<1>0. TypeOK /\ SourceIntegrity /\ TargetIntegrity /\ ControlInv
  BY DEF FlowInv, StreamIntegrity
<1>1. PICK k \in 1..Len(pend[d]) :
        /\ out' = [out EXCEPT ![Target(d)] = out[Target(d)] \o SubSeq(pend[d], 1, k)]
        /\ pend' = [pend EXCEPT ![d] = From(pend[d], k + 1)]
        /\ ppc' = [ppc EXCEPT ![d] = IF k = Len(pend[d]) THEN "loop" ELSE "send"]
  BY DEF PumpSend
<1>2. /\ UNCHANGED <<netVars, sock, pc, tunnel, buf, kind, decided, skipped, taken, emitted>>
      /\ ppc[d] = "send"
  BY DEF PumpSend
<1>3. /\ pend[d] \in Seq(Token) /\ out[Target(d)] \in Seq(Token)
      /\ Len(pend[d]) \in Nat /\ k \in 0..Len(pend[d])
  BY <1>0, FlowTypes, LenProperties
<1>4. PICK x, y : x = SubSeq(pend[d], 1, k) /\ y = From(pend[d], k + 1)
  OBVIOUS
<1>5. x \in Seq(Token) /\ y \in Seq(Token) /\ Len(y) = Len(pend[d]) - k
  BY <1>3, <1>4, CutSeq
<1>6. /\ out' = [out EXCEPT ![Target(d)] = out[Target(d)] \o x]
      /\ pend' = [pend EXCEPT ![d] = y]
  BY <1>1, <1>4
<1>10. TypeOK'
  <2>1. out[Target(d)] \o x \in Seq(Token)
    BY <1>3, <1>5, ConcatProperties
  <2>2. out' \in [Peers -> Seq(Token)] /\ pend' \in [Directions -> Seq(Token)]
    BY <1>0, <1>5, <1>6, <2>1 DEF TypeOK
  <2>3. ppc' \in [Directions -> PumpStates]
    BY <1>0, <1>1 DEF TypeOK, PumpStates
  <2> QED
    BY <1>0, <1>2, <2>2, <2>3 DEF TypeOK, netVars
<1>11. SourceIntegrity'
  BY <1>0, <1>2 DEF SourceIntegrity, netVars
<1>12. TargetIntegrity'
  <2> SUFFICES ASSUME NEW c \in Directions
               PROVE  (out[Target(c)] \o pend[c] = emitted[c])'
    BY DEF TargetIntegrity
  <2>1. CASE c = d
    <3>1. (out[Target(d)] \o SubSeq(pend[d], 1, k)) \o From(pend[d], k + 1)
            = out[Target(d)] \o pend[d]
      BY <1>3, MoveToEnd
    <3>2. out'[Target(d)] = out[Target(d)] \o x /\ pend'[d] = y
      BY <1>0, <1>6, ConstantFacts DEF TypeOK
    <3> QED
      BY <1>0, <1>2, <1>4, <2>1, <3>1, <3>2 DEF TargetIntegrity
  <2>2. CASE c # d
    <3>1. out'[Target(c)] = out[Target(c)] /\ pend'[c] = pend[c]
      BY <1>0, <1>6, <2>2, ConstantFacts DEF TypeOK
    <3> QED
      BY <1>0, <1>2, <3>1 DEF TargetIntegrity
  <2> QED
    BY <2>1, <2>2
<1>13. ControlInv'
  <2>1. pc \notin {"initial_recv", "mitm_reply", "mitm", "dial", "connect", "reply", "done"}
    BY <1>0, <1>2 DEF ControlInv
  <2>2. d = "outbound" => pc # "join_inbound"
    BY <1>0, <1>2 DEF ControlInv
  <2>3. k = Len(pend[d]) => y = <<>>
    BY <1>3, <1>5, EmptySeq
  <2>4. \A c \in Directions : ppc'[c] \in {"off", "loop"} => pend'[c] = <<>>
    BY <1>0, <1>1, <1>6, <2>3 DEF ControlInv, TypeOK
  <2>5. pc' = "join_inbound" => ppc'["outbound"] = "done"
    BY <1>0, <1>1, <1>2, <2>2 DEF ControlInv, TypeOK
  <2> QED
    BY <1>0, <1>2, <2>1, <2>4, <2>5 DEF ControlInv
<1> QED
  BY <1>10, <1>11, <1>12, <1>13 DEF FlowInv, StreamIntegrity

(* The first recv hands its payload to the outbound buffer, or drops it when
   it is a CONNECT request. *)
LEMMA InitialRecvFlow ==
  ASSUME FlowInv, InitialRecv
  PROVE  FlowInv'
<1>0. TypeOK /\ SourceIntegrity /\ TargetIntegrity /\ ControlInv
  BY DEF FlowInv, StreamIntegrity
<1> DEFINE q == inq["client"]
<1>1. PICK k \in 0..Len(q) :
        /\ inq' = [inq EXCEPT !["client"] = From(q, k + 1)]
        /\ skipped' = [skipped EXCEPT !["outbound"] = IF tunnel' # "no" THEN SubSeq(q, 1, k) ELSE <<>>]
        /\ buf' = [buf EXCEPT !["outbound"] = IF tunnel' # "no" THEN <<>> ELSE SubSeq(q, 1, k)]
  <2>1. PICK payload \in
          {SubSeq(q, 1, k) : k \in RecvLengths(q, InitialMax)}
          \cup (IF q = <<>> \/ health["client"] = "reset" THEN {<<>>} ELSE {}) :
          /\ inq' = [inq EXCEPT !["client"] = From(q, Len(payload) + 1)]
          /\ skipped' = [skipped EXCEPT !["outbound"] = IF tunnel' # "no" THEN payload ELSE <<>>]
          /\ buf' = [buf EXCEPT !["outbound"] = IF tunnel' # "no" THEN <<>> ELSE payload]
    BY DEF InitialRecv
  <2>2. q \in Seq(Token) /\ Len(q) \in Nat
    BY <1>0, ConstantFacts, LenProperties DEF TypeOK
  <2>3. PICK k \in 0..Len(q) : payload = SubSeq(q, 1, k)
    <3>1. CASE payload = <<>>
      <4>1. SubSeq(q, 1, 0) = <<>>
        BY SubSeqEmpty
      <4>2. 0 \in 0..Len(q)
        BY <2>2
      <4> QED
        BY <3>1, <4>1, <4>2
    <3>2. CASE payload # <<>>
      <4>1. PICK k \in RecvLengths(q, InitialMax) : payload = SubSeq(q, 1, k)
        BY <2>1, <3>2, Zenon
      <4>2. k \in 0..Len(q)
        BY <2>2 DEF RecvLengths
      <4> QED
        BY <4>1, <4>2
    <3> QED
      BY <3>1, <3>2
  <2>4. Len(payload) = k
    BY <2>2, <2>3, CutSeq
  <2> QED
    BY <2>1, <2>3, <2>4
<1>2. /\ UNCHANGED <<written, out, eof, health, sock, ppc, kind, decided, pend, taken, emitted>>
      /\ pc = "initial_recv"
      /\ pc' = IF tunnel' = "mitm" THEN "mitm_reply" ELSE "dial"
      /\ tunnel' \in Tunnels \cup {"no"}
  BY ConstantsAssumption DEF InitialRecv
<1>3. q \in Seq(Token)
  BY <1>0, ConstantFacts DEF TypeOK
<1>4. PICK x, y : x = SubSeq(q, 1, k) /\ y = From(q, k + 1)
  OBVIOUS
<1>5. x \in Seq(Token) /\ y \in Seq(Token) /\ x \o y = q
  BY <1>3, <1>4, CutSeq
<1>6. /\ inq' = [inq EXCEPT !["client"] = y]
      /\ skipped' = [skipped EXCEPT !["outbound"] = IF tunnel' # "no" THEN x ELSE <<>>]
      /\ buf' = [buf EXCEPT !["outbound"] = IF tunnel' # "no" THEN <<>> ELSE x]
  BY <1>1, <1>4
<1>7. <<>> \in Seq(Token)
  BY EmptySeq
<1>10. TypeOK'
  <2>1. inq' \in [Peers -> Seq(Token)]
    BY <1>0, <1>5, <1>6 DEF TypeOK
  <2>2. skipped' \in [Directions -> Seq(Token)] /\ buf' \in [Directions -> Seq(Token)]
    <3>1. /\ (IF tunnel' # "no" THEN x ELSE <<>>) \in Seq(Token)
          /\ (IF tunnel' # "no" THEN <<>> ELSE x) \in Seq(Token)
      BY <1>5, <1>7
    <3> QED
      BY <1>0, <1>6, <3>1, Zenon DEF TypeOK
  <2>3. pc' \in HandlerStates
    BY <1>2 DEF HandlerStates
  <2> QED
    BY <1>0, <1>2, <2>1, <2>2, <2>3 DEF TypeOK
<1>11. SourceIntegrity'
  <2> SUFFICES ASSUME NEW c \in Directions
               PROVE  (skipped[c] \o taken[c] \o buf[c] \o inq[Source(c)]
                        = SubSeq(Script[Source(c)], 1, written[Source(c)]))'
    BY DEF SourceIntegrity
  <2>1. CASE c = "outbound"
    <3>1. <<>> \o <<>> \o <<>> \o q = SubSeq(Script["client"], 1, written["client"])
      BY <1>0, <1>2, ConstantFacts DEF SourceIntegrity, ControlInv
    <3>2. /\ <<>> \o <<>> \o <<>> \o q = q
          /\ (x \o <<>> \o <<>>) \o y = x \o y
          /\ (<<>> \o <<>> \o x) \o y = x \o y
      BY <1>3, <1>5
    <3>3. /\ inq'["client"] = y /\ taken'["outbound"] = <<>>
          /\ skipped'["outbound"] = IF tunnel' # "no" THEN x ELSE <<>>
          /\ buf'["outbound"] = IF tunnel' # "no" THEN <<>> ELSE x
      BY <1>0, <1>2, <1>6, ConstantFacts DEF TypeOK, ControlInv
    <3>4. CASE tunnel' # "no"
      BY <1>2, <1>5, <2>1, <3>1, <3>2, <3>3, <3>4, ConstantFacts
    <3>5. CASE tunnel' = "no"
      BY <1>2, <1>5, <2>1, <3>1, <3>2, <3>3, <3>5, ConstantFacts
    <3> QED
      BY <3>4, <3>5
  <2>2. CASE c # "outbound"
    <3>1. inq'[Source(c)] = inq[Source(c)] /\ buf'[c] = buf[c] /\ skipped'[c] = skipped[c]
      BY <1>0, <1>6, <2>2, ConstantFacts DEF TypeOK
    <3> QED
      BY <1>0, <1>2, <3>1 DEF SourceIntegrity
  <2> QED
    BY <2>1, <2>2
<1>12. TargetIntegrity'
  BY <1>0, <1>2 DEF TargetIntegrity
<1>13. ControlInv'
  BY <1>0, <1>2 DEF ControlInv
<1> QED
  BY <1>10, <1>11, <1>12, <1>13 DEF FlowInv, StreamIntegrity

(* The 200 reply goes to the kernel and into what was meant for the client. *)
LEMMA SendConnectOkFlow ==
  ASSUME FlowInv, SendConnectOk, pc \in {"mitm_reply", "reply"},
         UNCHANGED <<netVars, sock, tunnel, buf, kind, decided, pend, skipped, taken>>
  PROVE  /\ StreamIntegrity'
         /\ out' \in [Peers -> Seq(Token)] /\ emitted' \in [Directions -> Seq(Token)]
<1>0. TypeOK /\ SourceIntegrity /\ TargetIntegrity /\ ControlInv
  BY DEF FlowInv, StreamIntegrity
<1>1. PICK r \in Seq(Token) : r = ConnectOk
  <2>1. ConnectOk \in Seq(Token)
    <3>1. T("established", 200) \in Token
      BY DEF T, Token, TokenKinds
    <3> QED
      BY <3>1 DEF ConnectOk
  <2> QED
    BY <2>1, Zenon
<1>2. /\ out' = [out EXCEPT !["client"] = out["client"] \o r]
      /\ emitted' = [emitted EXCEPT !["inbound"] = emitted["inbound"] \o r]
  BY <1>1 DEF SendConnectOk
<1>3. out["client"] \in Seq(Token) /\ emitted["inbound"] \in Seq(Token) /\ r \in Seq(Token)
  BY <1>0, <1>1, ConstantFacts DEF TypeOK
<1>4. out["client"] \o r \in Seq(Token) /\ emitted["inbound"] \o r \in Seq(Token)
  BY <1>3, ConcatProperties
<1>5. out' \in [Peers -> Seq(Token)] /\ emitted' \in [Directions -> Seq(Token)]
  BY <1>0, <1>2, <1>4 DEF TypeOK
<1>6. SourceIntegrity'
  BY <1>0 DEF SourceIntegrity, netVars
<1>7. TargetIntegrity'
  <2> SUFFICES ASSUME NEW c \in Directions
               PROVE  (out[Target(c)] \o pend[c] = emitted[c])'
    BY DEF TargetIntegrity
  <2>1. CASE c = "inbound"
    <3>1. pend["inbound"] = <<>>
      BY <1>0, ConstantFacts DEF ControlInv
    <3>2. out["client"] \o <<>> = emitted["inbound"]
      BY <1>0, <3>1, ConstantFacts DEF TargetIntegrity
    <3>3. out["client"] \o <<>> = out["client"] /\ (out["client"] \o r) \o <<>> = out["client"] \o r
      BY <1>3, <1>4, ConcatEmptySeq
    <3>4. out'["client"] = out["client"] \o r /\ emitted'["inbound"] = emitted["inbound"] \o r
      BY <1>0, <1>2, ConstantFacts DEF TypeOK
    <3> QED
      BY <2>1, <3>1, <3>2, <3>3, <3>4, ConstantFacts
  <2>2. CASE c # "inbound"
    <3>1. out'[Target(c)] = out[Target(c)] /\ emitted'[c] = emitted[c]
      BY <1>0, <1>2, <2>2, ConstantFacts DEF TypeOK
    <3> QED
      BY <1>0, <3>1 DEF TargetIntegrity
  <2> QED
    BY <2>1, <2>2
<1> QED
  BY <1>5, <1>6, <1>7 DEF StreamIntegrity

-----------------------------------------------------------------------------
(* The steps that move none. *)

(* A peer closes its writing side, stalls or resets. *)
LEMMA PeerFaultFlow ==
  ASSUME FlowInv, NEW p \in Peers, PeerClose(p) \/ PeerFail(p)
  PROVE  FlowInv'
<1>0. TypeOK /\ StreamIntegrity /\ ControlInv
  BY DEF FlowInv
<1>1. UNCHANGED <<written, inq, out, sock, pc, tunnel, pumpVars>>
  BY DEF PeerClose, PeerFail
<1>2. eof' \in [Peers -> BOOLEAN] /\ health' \in [Peers -> {"ok", "stalled", "reset"}]
  BY <1>0, ConstantsAssumption DEF PeerClose, PeerFail, TypeOK
<1>3. TypeOK'
  BY <1>0, <1>1, <1>2 DEF TypeOK, pumpVars
<1>4. StreamIntegrity'
  BY <1>0, <1>1, FlowUnchanged DEF flow, pumpVars
<1>5. ControlInv'
  BY <1>0, <1>1 DEF ControlInv, pumpVars
<1> QED
  BY <1>3, <1>4, <1>5 DEF FlowInv

(* The two replies to a CONNECT request. *)
LEMMA ReplyFlow ==
  ASSUME FlowInv, MitmReply \/ TunnelReply
  PROVE  FlowInv'
<1>0. TypeOK /\ StreamIntegrity /\ ControlInv
  BY DEF FlowInv
<1>1. /\ SendConnectOk /\ pc \in {"mitm_reply", "reply"}
      /\ UNCHANGED <<netVars, sock, tunnel, buf, kind, decided, pend, skipped, taken>>
  BY DEF MitmReply, TunnelReply
<1>2. /\ StreamIntegrity'
      /\ out' \in [Peers -> Seq(Token)] /\ emitted' \in [Directions -> Seq(Token)]
  BY <1>1, SendConnectOkFlow
<1>3. CASE MitmReply
  <2>1. pc = "mitm_reply" /\ pc' = "mitm" /\ ppc' = ppc
    BY <1>3 DEF MitmReply
  <2>2. TypeOK'
    BY <1>0, <1>1, <1>2, <2>1 DEF TypeOK, netVars, HandlerStates
  <2>3. ControlInv'
    BY <1>0, <1>1, <2>1 DEF ControlInv
  <2> QED
    BY <1>2, <2>2, <2>3 DEF FlowInv
<1>4. CASE TunnelReply
  <2>1. pc = "reply" /\ pc' = "join_outbound" /\ ppc' = [d \in Directions |-> "loop"]
    BY <1>4 DEF TunnelReply, StartPumps
  <2>2. TypeOK'
    BY <1>0, <1>1, <1>2, <2>1 DEF TypeOK, netVars, HandlerStates, PumpStates
  <2>3. ControlInv'
    BY <1>0, <1>1, <2>1 DEF ControlInv
  <2> QED
    BY <1>2, <2>2, <2>3 DEF FlowInv
<1> QED
  BY <1>3, <1>4

(* The other steps of handle_client: its failures, connect, the joins. *)
LEMMA HandlerControlFlow ==
  ASSUME FlowInv,
         MitmEnd \/ FailWithoutUpstream \/ MakeUpstream \/ Connect \/ FailWithUpstream
           \/ JoinOutbound \/ JoinInbound
  PROVE  FlowInv'
<1>0. TypeOK /\ StreamIntegrity /\ ControlInv
  BY DEF FlowInv
<1>1. UNCHANGED <<netVars, out, tunnel, buf, kind, decided, pend, skipped, taken, emitted>>
  BY DEF MitmEnd, FailWithoutUpstream, MakeUpstream, Connect, FailWithUpstream, JoinOutbound,
         JoinInbound, pumpVars
<1>2. StreamIntegrity'
  BY <1>0, <1>1, FlowUnchanged DEF flow, netVars
<1>3. CASE MitmEnd \/ FailWithoutUpstream
  <2>1. /\ pc \in {"mitm", "dial", "mitm_reply"} /\ pc' = "done" /\ ppc' = ppc
        /\ sock' = [sock EXCEPT !["client"] = "closed"]
    BY <1>3 DEF MitmEnd, FailWithoutUpstream, CloseClient, pumpVars
  <2>2. TypeOK'
    BY <1>0, <1>1, <2>1 DEF TypeOK, netVars, HandlerStates, SocketStates
  <2>3. ControlInv'
    BY <1>0, <1>1, <2>1 DEF ControlInv, TypeOK, Peers
  <2> QED
    BY <1>2, <2>2, <2>3 DEF FlowInv
<1>4. CASE FailWithUpstream \/ JoinInbound
  <2>1. /\ pc' = "done" /\ ppc' = ppc /\ sock' = [p \in Peers |-> "closed"]
        /\ pc \in {"connect", "reply"} \/ (pc = "join_inbound" /\ ppc["inbound"] = "done")
    BY <1>4 DEF FailWithUpstream, JoinInbound, CloseBoth, pumpVars
  <2>2. TypeOK'
    BY <1>0, <1>1, <2>1 DEF TypeOK, netVars, HandlerStates, SocketStates
  <2>3. \A d \in Directions : ppc'[d] \in {"off", "done"}
    BY <1>0, <2>1 DEF ControlInv, Directions
  <2>4. ControlInv'
    BY <1>0, <1>1, <2>1, <2>3 DEF ControlInv
  <2> QED
    BY <1>2, <2>2, <2>4 DEF FlowInv
<1>5. CASE JoinOutbound
  <2>1. /\ pc = "join_outbound" /\ pc' = "join_inbound" /\ UNCHANGED <<ppc, sock>>
        /\ ppc["outbound"] = "done"
    BY <1>5 DEF JoinOutbound, pumpVars
  <2>2. TypeOK'
    BY <1>0, <1>1, <2>1 DEF TypeOK, netVars, HandlerStates
  <2>3. ControlInv'
    BY <1>0, <1>1, <2>1 DEF ControlInv
  <2> QED
    BY <1>2, <2>2, <2>3 DEF FlowInv
<1>6. CASE Connect
  <2>1. /\ pc = "connect" /\ sock' = [sock EXCEPT !["upstream"] = "open"]
        /\ \/ pc' = "reply" /\ ppc' = ppc
           \/ pc' = "join_outbound" /\ ppc' = [d \in Directions |-> "loop"]
    BY <1>6 DEF Connect, StartPumps
  <2>2. TypeOK'
    BY <1>0, <1>1, <2>1 DEF TypeOK, netVars, HandlerStates, SocketStates, PumpStates
  <2>3. ControlInv'
    BY <1>0, <1>1, <2>1 DEF ControlInv, TypeOK
  <2> QED
    BY <1>2, <2>2, <2>3 DEF FlowInv
<1>7. CASE MakeUpstream
  <2>1. /\ pc = "dial" /\ sock' = [sock EXCEPT !["upstream"] = "made"]
        /\ pc' = "connect" /\ ppc' = ppc
    BY <1>7 DEF MakeUpstream, pumpVars
  <2>2. TypeOK'
    BY <1>0, <1>1, <2>1 DEF TypeOK, netVars, HandlerStates, SocketStates
  <2>3. ControlInv'
    BY <1>0, <1>1, <2>1 DEF ControlInv, TypeOK
  <2> QED
    BY <1>2, <2>2, <2>3 DEF FlowInv
<1> QED
  BY <1>3, <1>4, <1>5, <1>6, <1>7

(* A pump spins, breaks, gives up on a send or shuts the sockets down. *)
LEMMA PumpControlFlow ==
  ASSUME FlowInv, NEW d \in Directions,
         PumpSpin(d) \/ PumpBreak(d) \/ PumpSendFail(d) \/ ShutdownSource(d) \/ ShutdownTarget(d)
  PROVE  FlowInv'
<1>0. TypeOK /\ StreamIntegrity /\ ControlInv
  BY DEF FlowInv
<1>1. UNCHANGED <<netVars, out, pc, tunnel, buf, pend, skipped, taken, emitted>>
  BY DEF PumpSpin, PumpBreak, PumpSendFail, ShutdownSource, ShutdownTarget
<1>2. StreamIntegrity'
  BY <1>0, <1>1, FlowUnchanged DEF flow, netVars
<1>3. CASE PumpSpin(d)
  <2>1. UNCHANGED <<ppc, sock>>
    BY <1>3 DEF PumpSpin
  <2>2. kind' \in [Directions -> ProtocolKinds] /\ decided' \in [Directions -> BOOLEAN]
    <3>1. KindNow(d) \in ProtocolKinds /\ DecidedNow(d) \in BOOLEAN
      BY <1>0, KindNowTyped DEF DecidedNow, TypeOK
    <3> QED
      BY <1>0, <1>3, <3>1 DEF PumpSpin, Detect, TypeOK
  <2>3. TypeOK'
    BY <1>0, <1>1, <2>1, <2>2 DEF TypeOK, netVars
  <2>4. ControlInv'
    BY <1>0, <1>1, <2>1 DEF ControlInv
  <2> QED
    BY <1>2, <2>3, <2>4 DEF FlowInv
<1>4. CASE PumpBreak(d) \/ PumpSendFail(d) \/ ShutdownSource(d) \/ ShutdownTarget(d)
  <2>1. PICK next \in {"shut_source", "shut_target", "done"} :
          ppc' = [ppc EXCEPT ![d] = next] /\ ppc[d] \in {"loop", "send", "shut_source", "shut_target"}
    BY <1>4 DEF PumpBreak, PumpSendFail, ShutdownSource, ShutdownTarget
  <2>2. sock' = sock \/ \E p \in Peers : sock' = [sock EXCEPT ![p] = "shut"]
    BY <1>4, ConstantFacts DEF PumpBreak, PumpSendFail, ShutdownSource, ShutdownTarget
  <2>3. UNCHANGED <<kind, decided>>
    BY <1>4 DEF PumpBreak, PumpSendFail, ShutdownSource, ShutdownTarget
  <2>4. TypeOK'
    <3>1. sock' \in [Peers -> SocketStates]
      BY <1>0, <2>2 DEF TypeOK, SocketStates
    <3>2. ppc' \in [Directions -> PumpStates]
      BY <1>0, <2>1 DEF TypeOK, PumpStates
    <3> QED
      BY <1>0, <1>1, <2>3, <3>1, <3>2 DEF TypeOK, netVars
  <2>5. ControlInv'
    <3>1. pc \notin {"initial_recv", "mitm_reply", "mitm", "dial", "connect", "reply", "done"}
      BY <1>0, <2>1 DEF ControlInv
    <3>2. pc = "join_inbound" => d # "outbound"
      BY <1>0, <2>1 DEF ControlInv
    <3>3. pc' = "join_inbound" => ppc'["outbound"] = "done"
      BY <1>0, <1>1, <2>1, <3>2 DEF ControlInv, TypeOK
    <3>4. \A p \in Peers : sock'[p] # "closed"
      BY <1>0, <2>2, <3>1 DEF ControlInv, TypeOK
    <3>5. \A c \in Directions : ppc'[c] \in {"off", "loop"} => pend'[c] = <<>>
      BY <1>0, <1>1, <2>1 DEF ControlInv, TypeOK
    <3> QED
      BY <1>1, <3>1, <3>3, <3>4, <3>5 DEF ControlInv
  <2> QED
    BY <1>2, <2>4, <2>5 DEF FlowInv
<1> QED
  BY <1>3, <1>4

-----------------------------------------------------------------------------
(* The theorems. *)

(* FlowInv is inductive: every step of the handler, the pumps and the peers
   preserves it. *)
LEMMA FlowStep == FlowInv /\ [Next]_vars => FlowInv'
<1> SUFFICES ASSUME FlowInv, [Next]_vars PROVE FlowInv'
  OBVIOUS
<1>1. CASE Handler
  BY <1>1, InitialRecvFlow, ReplyFlow, HandlerControlFlow DEF Handler
<1>2. CASE \E d \in Directions : Pump(d)
  BY <1>2, PumpRecvFlow, PumpTakeFlow, PumpSendFlow, PumpControlFlow DEF Pump
<1>3. CASE \E p \in Peers : Peer(p)
  BY <1>3, PeerWriteFlow, PeerFaultFlow DEF Peer
<1>4. CASE UNCHANGED vars
  <2>1. TypeOK' /\ ControlInv'
    BY <1>4 DEF FlowInv, TypeOK, ControlInv, vars
  <2>2. StreamIntegrity'
    BY <1>4, FlowUnchanged DEF FlowInv, flow, vars
  <2> QED
    BY <2>1, <2>2 DEF FlowInv
<1> QED
  BY <1>1, <1>2, <1>3, <1>4 DEF Next, Finished

(* FlowInv holds in every state of a session. *)
THEOREM FlowInvariant == Spec => []FlowInv
  BY InitFlow, FlowStep, PTL DEF Spec

(* The variables of a session keep their types: handle_client and both pumps. *)
THEOREM TypeCorrect == Spec => []TypeOK
<1>1. FlowInv => TypeOK
  BY DEF FlowInv
<1> QED
  BY <1>1, FlowInvariant, PTL

(* No byte is lost, repeated or reordered by handle_client and the pumps,
   whatever the streams, the buffer sizes, the patch and the way recv and send
   cut the streams up. *)
THEOREM Integrity == Spec => []StreamIntegrity
<1>1. FlowInv => StreamIntegrity
  BY DEF FlowInv
<1> QED
  BY <1>1, FlowInvariant, PTL

(* Sockets are closed after both pumps are done, and none outlives the
   handler. *)
THEOREM Release == Spec => []SocketsReleased
<1>1. FlowInv => SocketsReleased
  BY DEF FlowInv, ControlInv, SocketsReleased
<1> QED
  BY <1>1, FlowInvariant, PTL

(* What a buffer holds came from one recv. *)
OneRecv == \A d \in Directions : Len(buf[d]) <= InitialMax

(* Only the two recvs fill a buffer, each an empty one; taking a payload
   shortens it. *)
LEMMA OneRecvStep == FlowInv /\ OneRecv /\ [Next]_vars => OneRecv'
<1> SUFFICES ASSUME FlowInv, OneRecv, [Next]_vars, NEW c \in Directions
             PROVE  Len(buf'[c]) <= InitialMax
  BY DEF OneRecv
<1>0. /\ TypeOK /\ ControlInv /\ Len(buf[c]) \in Nat /\ Len(buf[c]) <= InitialMax
      /\ InitialMax \in Nat /\ RecvMax \in Nat /\ RecvMax <= InitialMax
  BY LenProperties, ConstantsAssumption, CapacityAssumption DEF FlowInv, OneRecv, TypeOK
<1>1. CASE buf' = buf
  BY <1>0, <1>1
<1>2. CASE InitialRecv
  <2>1. inq["client"] \in Seq(Token) /\ Len(inq["client"]) \in Nat
    BY <1>0, ConstantFacts, LenProperties DEF TypeOK
  <2>2. PICK payload \in
          {SubSeq(inq["client"], 1, k) : k \in RecvLengths(inq["client"], InitialMax)}
          \cup (IF inq["client"] = <<>> \/ health["client"] = "reset" THEN {<<>>} ELSE {}) :
          buf' = [buf EXCEPT !["outbound"] = IF tunnel' # "no" THEN <<>> ELSE payload]
    BY <1>2 DEF InitialRecv
  <2>3. Len(<<>>) = 0
    BY EmptySeq
  <2>4. Len(payload) <= InitialMax
    <3>1. CASE payload = <<>>
      BY <1>0, <2>3, <3>1
    <3>2. CASE payload # <<>>
      <4>1. PICK k \in RecvLengths(inq["client"], InitialMax) :
              payload = SubSeq(inq["client"], 1, k)
        BY <2>2, <3>2, Zenon
      <4>2. k \in 0..Len(inq["client"]) /\ k <= InitialMax
        BY <2>1 DEF RecvLengths
      <4>3. Len(SubSeq(inq["client"], 1, k)) = k
        BY <2>1, <4>2, CutSeq
      <4> QED
        BY <4>1, <4>2, <4>3
    <3> QED
      BY <3>1, <3>2
  <2>5. buf'[c] \in {buf[c], <<>>, payload}
    BY <1>0, <2>2 DEF TypeOK
  <2> QED
    BY <1>0, <2>3, <2>4, <2>5
<1>3. ASSUME NEW d \in Directions, PumpRecv(d)
      PROVE  Len(buf'[c]) <= InitialMax
  <2>1. inq[Source(d)] \in Seq(Token) /\ Len(inq[Source(d)]) \in Nat
    BY <1>0, FlowTypes, LenProperties
  <2>2. PICK k \in RecvLengths(inq[Source(d)], RecvMax) :
          buf' = [buf EXCEPT ![d] = SubSeq(inq[Source(d)], 1, k)]
    BY <1>3 DEF PumpRecv
  <2>3. k \in 0..Len(inq[Source(d)]) /\ k <= RecvMax
    BY <2>1 DEF RecvLengths
  <2>4. Len(SubSeq(inq[Source(d)], 1, k)) = k
    BY <2>1, <2>3, CutSeq
  <2>5. buf'[c] \in {buf[c], SubSeq(inq[Source(d)], 1, k)}
    BY <1>0, <2>2 DEF TypeOK
  <2> QED
    BY <1>0, <2>3, <2>4, <2>5
<1>4. ASSUME NEW d \in Directions, PumpTake(d)
      PROVE  Len(buf'[c]) <= InitialMax
  <2>1. buf[d] \in Seq(Token) /\ Len(buf[d]) \in Nat
    BY <1>0, FlowTypes, LenProperties
  <2>2. PICK n \in PayloadLengths(d) : buf' = [buf EXCEPT ![d] = From(buf[d], n + 1)]
    BY <1>4 DEF PumpTake
  <2>3. n \in 0..Len(buf[d])
    BY <1>0, PayloadFits
  <2>4. Len(From(buf[d], n + 1)) = Len(buf[d]) - n
    BY <2>1, <2>3, CutSeq
  <2>5. buf'[c] = buf[c] \/ (c = d /\ buf'[c] = From(buf[d], n + 1))
    BY <1>0, <2>2 DEF TypeOK
  <2> QED
    BY <1>0, <2>1, <2>3, <2>4, <2>5
<1>5. CASE Handler
  BY <1>1, <1>2, <1>5
  DEF Handler, MitmReply, MitmEnd, FailWithoutUpstream, MakeUpstream, Connect, TunnelReply,
      FailWithUpstream, JoinOutbound, JoinInbound, pumpVars
<1>6. ASSUME NEW d \in Directions, Pump(d)
      PROVE  Len(buf'[c]) <= InitialMax
  BY <1>1, <1>3, <1>4, <1>6
  DEF Pump, PumpBreak, PumpSpin, PumpSend, PumpSendFail, ShutdownSource, ShutdownTarget
<1>7. CASE \E p \in Peers : Peer(p)
  BY <1>1, <1>7 DEF Peer, PeerWrite, PeerClose, PeerFail, pumpVars
<1>8. CASE UNCHANGED vars
  BY <1>1, <1>8 DEF vars
<1> QED
  BY <1>5, <1>6, <1>7, <1>8 DEF Next, Finished

(* The flush of an Http buffer that has passed 8192 bytes is dead code, for
   every script: no buffer ever passes the flush limit. *)
THEOREM FlushIsDead == Spec => []FlushUnreachable
<1>1. Init => OneRecv
  BY ConstantsAssumption, EmptySeq DEF Init, OneRecv
<1>2. FlowInv /\ OneRecv => FlushUnreachable
  <2> SUFFICES ASSUME FlowInv, OneRecv, NEW d \in Directions
               PROVE  Len(buf[d]) <= MaxBuffered
    BY DEF FlushUnreachable
  <2>1. Len(buf[d]) \in Nat
    BY FlowTypes, LenProperties DEF FlowInv
  <2> QED
    BY <2>1, ConstantsAssumption, CapacityAssumption DEF OneRecv
<1> QED
  BY <1>1, <1>2, OneRecvStep, FlowInvariant, PTL DEF Spec

-----------------------------------------------------------------------------
(* Where one message ends does not depend on how much of the stream is seen. *)

(* A set of naturals that is not empty has a least element, and Min is it. *)
LEMMA SmallestExists ==
  ASSUME NEW I \in SUBSET Nat, I # {}
  PROVE  Min(I) \in I /\ \A i \in I : Min(I) <= i
<1> DEFINE R == OpToRel(<, Nat)
<1>1. \E x \in I : \A y \in I : ~ (<<y, x>> \in R)
  <2>1. IsWellFoundedOn(R, Nat)
    BY NatLessThanWellFounded, Zenon
  <2> HIDE DEF R
  <2> QED
    BY <2>1, WFMin, Zenon
<1>2. \A x, y \in Nat : x < y => <<x, y>> \in R
  BY DEF OpToRel
<1>3. PICK x \in I : \A y \in I : ~ (<<y, x>> \in R)
  BY <1>1
<1>4. \A y \in I : ~ (y < x)
  BY <1>2, <1>3, Zenon
<1>5. \A y \in I : x <= y
  BY <1>4
<1> QED
  BY <1>5 DEF Min

(* The least element of the part up to m is the least of all; when there is
   nothing up to m it is beyond. *)
LEMMA SmallestInPart ==
  ASSUME NEW I \in SUBSET Nat, NEW m \in Nat
  PROVE  LET part == {i \in I : i <= m} IN
         /\ part # {} => I # {} /\ Min(part) = Min(I)
         /\ part = {} /\ I # {} => Min(I) \in Nat /\ Min(I) > m
<1> DEFINE part == {i \in I : i <= m}
<1>1. part \in SUBSET Nat
  OBVIOUS
<1>2. ASSUME part # {} PROVE I # {} /\ Min(part) = Min(I)
  <2>1. Min(part) \in part /\ \A i \in part : Min(part) <= i
    BY <1>1, <1>2, SmallestExists
  <2>2. I # {}
    BY <1>2
  <2>3. Min(I) \in I /\ \A i \in I : Min(I) <= i
    BY <2>2, SmallestExists
  <2>4. Min(part) \in I /\ Min(part) <= m
    BY <2>1
  <2>5. Min(I) <= Min(part)
    BY <2>3, <2>4
  <2>6. PICK x \in Nat, y \in Nat : x = Min(part) /\ y = Min(I)
    BY <2>3, <2>4
  <2>7. y \in part
    BY <2>3, <2>4, <2>5, <2>6
  <2>8. x = y
    BY <2>1, <2>5, <2>6, <2>7
  <2> QED
    BY <2>2, <2>6, <2>8
<1>3. ASSUME part = {}, I # {} PROVE Min(I) \in Nat /\ Min(I) > m
  <2>1. PICK y \in I : y = Min(I)
    BY <1>3, SmallestExists
  <2>2. y \in Nat /\ ~ (y <= m)
    BY <1>3, <2>1
  <2> QED
    BY <2>1, <2>2
<1> QED
  BY <1>2, <1>3

(* What a search finds in the first m elements of a sequence it finds in all of
   it; what it does not find there it finds behind them, or nowhere. *)
LEMMA FirstOfPart ==
  ASSUME NEW s \in Seq(Token), NEW m \in 0..Len(s), NEW k
  PROVE  LET at == FirstOf(SubSeq(s, 1, m), k) IN
         /\ at \in 0..m
         /\ at # 0 => FirstOf(s, k) = at
<1> DEFINE p == SubSeq(s, 1, m)
           J == {i \in 1..Len(p) : p[i].k = k}
           I == {i \in 1..Len(s) : s[i].k = k}
<1>1. /\ Len(s) \in Nat /\ m \in Nat /\ Len(p) = m
      /\ \A i \in 1..m : p[i] = s[i]
  OBVIOUS
<1>2. FirstOf(p, k) = (IF J # {} THEN Min(J) ELSE 0) /\ FirstOf(s, k) = (IF I # {} THEN Min(I) ELSE 0)
  BY DEF FirstOf, SelectInSeq
<1>3. J = {i \in I : i <= m} /\ I \in SUBSET Nat /\ J \in SUBSET (1..m)
  BY <1>1
<1>4. J # {} => I # {} /\ Min(J) = Min(I) /\ Min(J) \in J
  <2> HIDE DEF I, J, p
  <2> QED
    BY <1>1, <1>3, SmallestInPart, SmallestExists
<1>5. FirstOf(p, k) \in 0..m /\ (FirstOf(p, k) # 0 => FirstOf(s, k) = FirstOf(p, k))
  <2> HIDE DEF I, J, p
  <2> QED
    BY <1>1, <1>2, <1>3, <1>4
<1> QED
  BY <1>5

(* The Content-Length of a head is the same in every prefix that holds the
   head, even when there is another Content-Length in a body behind it. *)
LEMMA LengthOfPart ==
  ASSUME NEW s \in Seq(Token), NEW m \in 0..Len(s), NEW h \in 1..m
  PROVE  ParseContentLength(SubSeq(s, 1, m), h) = ParseContentLength(s, h)
<1> DEFINE p == SubSeq(s, 1, m)
           J == {i \in 1..Len(p) : p[i].k \in Lengths \cup {"xlen"}}
           I == {i \in 1..Len(s) : s[i].k \in Lengths \cup {"xlen"}}
           atp == IF J # {} THEN Min(J) ELSE 0
           ats == IF I # {} THEN Min(I) ELSE 0
<1>1. /\ Len(s) \in Nat /\ m \in Nat /\ Len(p) = m
      /\ \A i \in 1..m : p[i] = s[i]
  OBVIOUS
<1>2. /\ ParseContentLength(p, h) = IF atp \in 1..h THEN p[atp].n ELSE 0
      /\ ParseContentLength(s, h) = IF ats \in 1..h THEN s[ats].n ELSE 0
  BY DEF ParseContentLength, SelectInSeq
<1>3. J = {i \in I : i <= m} /\ I \in SUBSET Nat /\ J \in SUBSET (1..m)
  BY <1>1
<1>4. /\ J # {} => I # {} /\ Min(J) = Min(I) /\ Min(J) \in J
      /\ J = {} /\ I # {} => Min(I) \in Nat /\ Min(I) > m
  <2> HIDE DEF I, J, p
  <2> QED
    BY <1>1, <1>3, SmallestInPart, SmallestExists
<1>5. CASE J # {}
  <2>1. atp = ats /\ atp \in 1..m
    BY <1>3, <1>4, <1>5
  <2>2. p[atp] = s[ats]
    <3> HIDE DEF atp, ats, p
    <3> QED
      BY <1>1, <2>1
  <2> HIDE DEF atp, ats
  <2> QED
    BY <1>2, <2>1, <2>2
<1>6. CASE J = {}
  <2>1. atp \notin 1..h /\ ats \notin 1..h
    <3>1. atp = 0 /\ (ats = 0 \/ (ats \in Nat /\ ats > m))
      BY <1>4, <1>6
    <3> HIDE DEF atp, ats
    <3> QED
      BY <1>1, <3>1
  <2> QED
    BY <1>2, <2>1
<1> QED
  BY <1>5, <1>6

(* A message that is whole in the first bytes of a stream is the first message
   of the stream. *)
LEMMA MessageOfPart ==
  ASSUME NEW s \in Seq(Token), NEW m \in 0..Len(s)
  PROVE  TryTakeHttpMessage(SubSeq(s, 1, m)) \subseteq TryTakeHttpMessage(s)
<1> SUFFICES ASSUME NEW n \in TryTakeHttpMessage(SubSeq(s, 1, m))
             PROVE  n \in TryTakeHttpMessage(s)
  OBVIOUS
<1> DEFINE p == SubSeq(s, 1, m)
           h == FirstOf(p, "end")
<1>1. n \in 0..Len(p) /\ h # 0 /\ n = (h + ParseContentLength(p, h)) % SizeModulus
  BY DEF TryTakeHttpMessage, MessageLength
<1>2. h \in 1..m /\ FirstOf(s, "end") = h
  BY <1>1, FirstOfPart
<1>3. ParseContentLength(p, h) = ParseContentLength(s, h)
  <2> HIDE DEF h
  <2> QED
    BY <1>2, LengthOfPart
<1>4. n \in 0..Len(s)
  BY <1>1
<1>5. n = MessageLength(s)
  BY <1>1, <1>2, <1>3, Zenon DEF MessageLength
<1> QED
  BY <1>2, <1>4, <1>5 DEF TryTakeHttpMessage

(* The buffer of a pump is a prefix of what follows, in the script, what the
   pump has taken. *)
LEMMA BufferIsNext ==
  ASSUME FlowInv, NEW d \in Directions
  PROVE  LET rest == From(Script[Source(d)], Len(skipped[d] \o taken[d]) + 1) IN
         /\ rest \in Seq(Token)
         /\ Len(buf[d]) \in 0..Len(rest)
         /\ buf[d] = SubSeq(rest, 1, Len(buf[d]))
<1>1. PICK a \in Seq(Token), s \in Seq(Token), b \in Seq(Token), q \in Seq(Token) :
        /\ a = skipped[d] \o taken[d] /\ s = Script[Source(d)]
        /\ b = buf[d] /\ q = inq[Source(d)]
  BY FlowTypes, Zenon DEF FlowInv
<1>2. PICK w \in Nat : w = written[Source(d)] /\ w <= Len(s)
  BY <1>1, FlowTypes DEF FlowInv
<1>3. (a \o b) \o q = SubSeq(s, 1, w)
  BY <1>1, <1>2, Zenon DEF FlowInv, StreamIntegrity, SourceIntegrity
<1>4. PICK m \in Nat, n \in Nat : m = Len(a) /\ n = Len(b)
  BY LenProperties
<1>5. m + n <= Len(s) /\ SubSeq(b, 1, n) = SubSeq(s, m + 1, m + n)
  <2>1. n \in 0..Len(b)
    BY <1>4
  <2>2. Len(a) + n <= Len(s)
    BY <1>2, <1>3, <2>1, RunLength
  <2>3. SubSeq(b, 1, n) = SubSeq(s, Len(a) + 1, Len(a) + n)
    <3>1. /\ a \in Seq(Token) /\ s \in Seq(Token) /\ b \in Seq(Token) /\ q \in Seq(Token)
          /\ w \in Nat /\ w <= Len(s)
      BY <1>1, <1>2
    <3> QED
      BY <1>3, <2>1, <3>1, RunOfPrefix
  <2> QED
    BY <1>4, <2>2, <2>3
<1>6. PICK l \in Nat : l = Len(s)
  BY LenProperties
<1>7. PICK r \in Seq(Token) : r = From(s, m + 1) /\ Len(r) = l - m
  <2>1. m \in 0..Len(s)
    BY <1>5, <1>6
  <2>2. From(s, m + 1) \in Seq(Token) /\ Len(From(s, m + 1)) = Len(s) - m
    BY <2>1, CutSeq, Zenon
  <2> QED
    BY <1>6, <2>2
<1>8. b = SubSeq(r, 1, n)
  <2>1. /\ SubSeq(r, 1, n) \in Seq(Token) /\ Len(SubSeq(r, 1, n)) = n
        /\ \A i \in 1..n : SubSeq(r, 1, n)[i] = r[i]
    BY <1>5, <1>6, <1>7
  <2>2. \A i \in 1..n : r[i] = s[m + i]
    <3>1. PICK j \in Nat : j = m + 1
      OBVIOUS
    <3>2. \A i \in j..l : s[i] \in Token
      BY <1>6, <3>1, ElementOfSeq
    <3>3. \A i \in 1..l - j + 1 : SubSeq(s, j, l)[i] = s[j + i - 1]
      BY <3>1, <3>2, SubSeqProperties
    <3>4. r = SubSeq(s, j, l)
      BY <1>6, <1>7, <3>1 DEF From
    <3>5. \A i \in 1..n : i \in 1..l - j + 1 /\ j + i - 1 = m + i
      BY <1>5, <1>6, <3>1
    <3> QED
      BY <3>3, <3>4, <3>5
  <2>3. \A i \in 1..n : b[i] = s[m + i]
    <3>1. \A i \in 1..n : SubSeq(b, 1, n)[i] = b[i]
      BY <1>4
    <3>2. \A i \in 1..n : SubSeq(s, m + 1, m + n)[i] = s[m + i]
      BY <1>5, <1>6
    <3> QED
      BY <1>5, <3>1, <3>2, Zenon
  <2> QED
    BY <1>4, <2>1, <2>2, <2>3, SeqEqual
<1>9. From(Script[Source(d)], Len(skipped[d] \o taken[d]) + 1) = r
  BY <1>1, <1>4, <1>7, Zenon
<1>10. n \in 0..Len(r) /\ Len(buf[d]) = n /\ buf[d] = SubSeq(r, 1, n)
  <2>1. n \in 0..Len(r)
    BY <1>4, <1>5, <1>6, <1>7
  <2> QED
    BY <1>1, <1>4, <1>8, <2>1, Zenon
<1> QED
  BY <1>9, <1>10, Zenon

(* Only PumpTake lengthens what has been taken. *)
LEMMA OnlyTakesTake ==
  ASSUME FlowInv, [Next]_vars, NEW d \in Directions, taken'[d] # taken[d]
  PROVE  PumpTake(d)
<1>1. ASSUME NEW e \in Directions, Pump(e)
      PROVE  PumpTake(d)
  <2>1. PumpTake(e)
    BY <1>1 DEF Pump, PumpRecv, PumpBreak, PumpSpin, PumpSend, PumpSendFail,
                ShutdownSource, ShutdownTarget
  <2>2. e = d
    BY <2>1 DEF PumpTake, FlowInv, TypeOK
  <2> QED
    BY <2>1, <2>2
<1>2. CASE Handler
  BY <1>2 DEF Handler, InitialRecv, MitmReply, MitmEnd, FailWithoutUpstream, MakeUpstream, Connect, TunnelReply,
      FailWithUpstream, JoinOutbound, JoinInbound, SendConnectOk, pumpVars
<1>3. CASE \E p \in Peers : Peer(p)
  BY <1>3 DEF Peer, PeerWrite, PeerClose, PeerFail, pumpVars
<1>4. CASE UNCHANGED vars
  BY <1>4 DEF vars
<1> QED
  BY <1>1, <1>2, <1>3, <1>4 DEF Next, Finished

(* A pump that takes a payload as HTTP takes the message that the stream has at
   that place. *)
LEMMA TakeOfStream ==
  ASSUME FlowInv, FlushUnreachable, NEW d \in Directions, PumpTake(d), KindNow(d) = "Http"
  PROVE  \E n \in TryTakeHttpMessage(From(Script[Source(d)], Len(skipped[d] \o taken[d]) + 1)) :
           /\ n \in Nat
           /\ Len(taken'[d]) = Len(taken[d]) + n
           /\ Len(skipped'[d] \o taken'[d]) = Len(skipped[d] \o taken[d]) + n
<1>1. TypeOK /\ buf[d] \in Seq(Token) /\ taken[d] \in Seq(Token) /\ skipped[d] \in Seq(Token)
  BY FlowTypes DEF FlowInv
<1>2. PICK n \in PayloadLengths(d) : taken' = [taken EXCEPT ![d] = taken[d] \o SubSeq(buf[d], 1, n)]
  BY DEF PumpTake
<1>3. n \in TryTakeHttpMessage(buf[d])
  <2>1. ~ (Len(buf[d]) > MaxBuffered)
    <3>1. Len(buf[d]) \in Nat /\ MaxBuffered \in Nat
      BY <1>1, LenProperties, ConstantsAssumption
    <3> QED
      BY <3>1 DEF FlushUnreachable
  <2> QED
    BY <1>2, <2>1 DEF PayloadLengths
<1>4. n \in 0..Len(buf[d]) /\ n \in Nat
  <2>1. n \in 0..Len(buf[d])
    BY <1>1, <1>2, PayloadFits
  <2> QED
    BY <1>1, <2>1, LenProperties
<1>5. Len(taken'[d]) = Len(taken[d]) + n /\ Len(skipped'[d] \o taken'[d]) = Len(skipped[d] \o taken[d]) + n
  <2>1. SubSeq(buf[d], 1, n) \in Seq(Token) /\ Len(SubSeq(buf[d], 1, n)) = n
    BY <1>1, <1>4, CutSeq
  <2>2. taken'[d] = taken[d] \o SubSeq(buf[d], 1, n) /\ skipped'[d] = skipped[d]
    BY <1>1, <1>2 DEF TypeOK, PumpTake
  <2>3. PICK x \in Seq(Token), t \in Seq(Token), k \in Seq(Token) :
          x = SubSeq(buf[d], 1, n) /\ Len(x) = n /\ t = taken[d] /\ k = skipped[d]
    BY <1>1, <2>1
  <2>4. /\ Len(t \o x) = Len(t) + Len(x)
        /\ Len(k \o (t \o x)) = Len(k \o t) + Len(x)
    OBVIOUS
  <2> QED
    BY <2>2, <2>3, <2>4
<1>6. PICK rest \in Seq(Token) :
        /\ rest = From(Script[Source(d)], Len(skipped[d] \o taken[d]) + 1)
        /\ Len(buf[d]) \in 0..Len(rest)
        /\ buf[d] = SubSeq(rest, 1, Len(buf[d]))
  BY BufferIsNext, Zenon
<1>7. n \in TryTakeHttpMessage(rest)
  BY <1>3, <1>6, MessageOfPart
<1> QED
  BY <1>4, <1>5, <1>6, <1>7

(* So each payload that a step takes as HTTP is the message of the stream at that
   place. *)
LEMMA CutOfTake ==
  ASSUME FlowInv, FlushUnreachable, [Next]_vars, NEW d \in Directions,
         taken'[d] # taken[d], kind'[d] = "Http"
  PROVE  Len(taken'[d]) - Len(taken[d])
           \in TryTakeHttpMessage(From(Script[Source(d)], Len(skipped[d] \o taken[d]) + 1))
<1>1. PumpTake(d)
  BY OnlyTakesTake
<1>2. TypeOK /\ Len(taken[d]) \in Nat
  BY FlowTypes, LenProperties DEF FlowInv
<1>3. KindNow(d) = "Http"
  BY <1>1, <1>2 DEF PumpTake, Detect, TypeOK
<1>4. PICK n \in TryTakeHttpMessage(From(Script[Source(d)], Len(skipped[d] \o taken[d]) + 1)) :
        n \in Nat /\ Len(taken'[d]) = Len(taken[d]) + n
  BY <1>1, <1>3, TakeOfStream
<1>5. Len(taken'[d]) - Len(taken[d]) = n
  <2>1. PICK l \in Nat : l = Len(taken[d])
    BY <1>2
  <2> QED
    BY <1>4, <2>1
<1> QED
  BY <1>4, <1>5, Zenon

(* However recv cuts a stream up, and whatever the other pump does meanwhile,
   each payload that is patched as HTTP is the message that the whole stream
   has at that place: for every stream, malformed ones included. *)
THEOREM CutsHold == Spec => CutsAreTheStreams
<1>1. FlowInv /\ FlushUnreachable /\ [Next]_vars
        => [\A d \in Directions :
              taken'[d] # taken[d] /\ kind'[d] = "Http"
                => Len(taken'[d]) - Len(taken[d])
                     \in TryTakeHttpMessage(From(Script[Source(d)], Len(skipped[d] \o taken[d]) + 1))]_vars
  BY CutOfTake
<1> QED
  BY <1>1, FlowInvariant, FlushIsDead, PTL DEF Spec, CutsAreTheStreams

(***************************************************************************)
(* Between two messages                                                    *)
(***************************************************************************)

(* The length of a message, for the buffer that has its head, is the length its
   sender gave it. *)
LEMMA LengthOfMessage ==
  ASSUME NEW s \in Seq(Token), NEW m \in 0..Len(s), IsMessage(SubSeq(s, 1, m))
  PROVE  MessageLength(s) = m
<1> DEFINE p == SubSeq(s, 1, m)
           h == FirstOf(p, "end")
           I == {i \in 1..Len(p) : p[i].k \in Lengths \cup {"xlen"}}
           L == {i \in 1..h : p[i].k \in Lengths}
           at == IF I # {} THEN Min(I) ELSE 0
<1>1. Len(s) \in Nat /\ m \in Nat /\ Len(p) = m /\ p \in Seq(Token)
  OBVIOUS
<1>2. /\ h # 0 /\ \A i \in 1..h : p[i].k # "xlen"
      /\ \/ L = {} /\ m = h
         \/ \E i \in L : L = {i} /\ m = h + p[i].n
      /\ m < SizeModulus
  BY <1>1, Zenon DEF IsMessage
<1>3. h \in 1..m /\ FirstOf(s, "end") = h
  BY <1>2, FirstOfPart
<1>4. ParseContentLength(p, h) = IF at \in 1..h THEN p[at].n ELSE 0
  BY DEF ParseContentLength, SelectInSeq
<1>5. /\ I # {} => at \in I /\ \A i \in I : at <= i
      /\ I = {} => at = 0
  <2>1. I \in SUBSET Nat
    OBVIOUS
  <2> HIDE DEF I
  <2> QED
    BY <2>1, SmallestExists
<1>6. L = {i \in I : i <= h}
  <2>1. \A i \in 1..h : i \in 1..Len(p)
    BY <1>1, <1>3
  <2> QED
    BY <1>2, <1>3, <2>1
<1>7. h + ParseContentLength(p, h) = m
  <2>1. CASE L = {}
    <3>1. at \notin 1..h
      <4> HIDE DEF at, I, L
      <4> QED
        BY <1>5, <1>6, <2>1
    <3>2. m = h
      BY <1>2, <2>1
    <3> HIDE DEF at, h
    <3> QED
      BY <1>1, <1>4, <3>1, <3>2
  <2>2. ASSUME NEW i \in L, L = {i}, m = h + p[i].n
        PROVE  h + ParseContentLength(p, h) = m
    <3>1. at = i /\ at \in 1..h
      <4>1. i \in I /\ i \in 1..h
        BY <1>6, <2>2
      <4>2. at \in I /\ at <= i
        <5> HIDE DEF at, I, L, h
        <5> QED
          BY <1>5, <4>1
      <4>3. at \in L
        <5>0. I \in SUBSET Nat
          OBVIOUS
        <5> HIDE DEF at, I, L, h
        <5>1. at \in Nat /\ i <= h /\ i \in Nat
          BY <5>0, <1>3, <4>1, <4>2
        <5> QED
          BY <1>3, <1>6, <4>2, <5>1
      <4> HIDE DEF at, I, L, h
      <4> QED
        BY <2>2, <4>1, <4>3
    <3> HIDE DEF at, h
    <3> QED
      BY <1>4, <2>2, <3>1
  <2> QED
    BY <1>2, <2>1, <2>2
<1>8. ParseContentLength(s, h) = ParseContentLength(p, h)
  <2> HIDE DEF h
  <2> QED
    BY <1>3, LengthOfPart
<1>9. MessageLength(s) = (h + ParseContentLength(s, h)) % SizeModulus
  BY <1>3, Zenon DEF MessageLength
<1>10. m % SizeModulus = m
  BY <1>1, <1>2, SizeModulusAssumption
<1> QED
  BY <1>7, <1>8, <1>9, <1>10, Zenon

(* A run of a sequence, and its elements. *)
LEMMA RunElements ==
  ASSUME NEW S, NEW s \in Seq(S), NEW c \in Nat, NEW j \in 0..Len(s), c <= j
  PROVE  /\ SubSeq(s, c + 1, j) \in Seq(S)
         /\ Len(SubSeq(s, c + 1, j)) = j - c
         /\ \A i \in 1..j - c : SubSeq(s, c + 1, j)[i] = s[c + i]
<1>1. PICK k \in Nat, l \in Nat : k = c + 1 /\ l = j
  BY LenProperties
<1>2. Len(s) \in Nat /\ l <= Len(s)
  BY <1>1, LenProperties
<1>3. \A i \in k..l : s[i] \in S
  <2>1. \A i \in k..l : i \in 1..Len(s)
    BY <1>1, <1>2
  <2> QED
    BY <2>1, ElementOfSeq
<1>4. /\ SubSeq(s, k, l) \in Seq(S)
      /\ Len(SubSeq(s, k, l)) = IF k <= l THEN l - k + 1 ELSE 0
      /\ \A i \in 1..l - k + 1 : SubSeq(s, k, l)[i] = s[k + i - 1]
  BY <1>1, <1>3, SubSeqProperties
<1>5. l - k + 1 = j - c /\ (k <= l \/ j - c = 0) /\ \A i \in 1..j - c : k + i - 1 = c + i
  BY <1>1, <1>2
<1>6. Len(SubSeq(s, k, l)) = j - c
  BY <1>1, <1>4, <1>5
<1> QED
  BY <1>1, <1>4, <1>5, <1>6

(* A pump that finds its buffer HTTP is between two messages, and not behind the
   last one. *)
LEMMA StartOfBuffer ==
  ASSUME FlowInv, WholeMessages, NEW d \in Directions, buf[d] # <<>>, KindNow(d) = "Http"
  PROVE  LET c == Len(skipped[d] \o taken[d]) IN
         /\ c \in 0..Len(Script[Source(d)])
         /\ Source(d) \in HttpPeers => c \in Starts(Script[Source(d)])
<1>1. PICK s \in Seq(Token), b \in Seq(Token), c \in Nat, l \in Nat :
        s = Script[Source(d)] /\ b = buf[d] /\ c = Len(skipped[d] \o taken[d]) /\ l = Len(s)
  BY FlowTypes, LenProperties DEF FlowInv
<1>t. s \in Seq(Token) /\ b \in Seq(Token) /\ c \in Nat /\ l \in Nat /\ l = Len(s) /\ b # <<>>
  BY <1>1, Zenon
<1>2. PICK r \in Seq(Token), n \in Nat :
        r = From(s, c + 1) /\ n = Len(b) /\ n \in 0..Len(r) /\ b = SubSeq(r, 1, n)
  <2>1. /\ From(s, c + 1) \in Seq(Token) /\ Len(b) \in 0..Len(From(s, c + 1))
        /\ b = SubSeq(From(s, c + 1), 1, Len(b))
    BY <1>1, BufferIsNext, Zenon
  <2> QED
    BY <2>1, LenProperties
<1>3. n > 0 /\ Len(r) > 0 /\ Len(r) \in Nat
  BY <1>t, <1>2
<1>4. c < l
  <2> SUFFICES ASSUME ~ (c < l) PROVE FALSE
    OBVIOUS
  <2>1. PICK k \in Nat : k = c + 1 /\ k > l
    BY <1>t
  <2>2. \A i \in k..l : s[i] \in Token
    BY <1>t, <2>1
  <2>3. Len(SubSeq(s, k, l)) = IF k <= l THEN l - k + 1 ELSE 0
    BY <1>t, <2>1, <2>2, SubSeqProperties
  <2>4. r = SubSeq(s, k, l)
    BY <1>t, <1>2, <2>1 DEF From
  <2> QED
    BY <1>t, <1>3, <2>1, <2>3, <2>4
<1>5. ASSUME Source(d) \in HttpPeers PROVE c \in Starts(s)
  <2>1. CASE decided[d]
    <3>1. kind[d] = "Http"
      BY <2>1 DEF KindNow
    <3>2. c \in MessageEnds[Source(d)]
      BY <1>1, <1>5, <3>1, Zenon DEF WholeMessages
    <3>3. MessageEnds[Source(d)] = Ends(s)
      BY <1>1, ConstantFacts DEF MessageEnds
    <3> QED
      BY <1>t, <1>4, <3>2, <3>3 DEF Ends, Starts
  <2>2. CASE ~decided[d]
    <3>1. DetectProtocolKind(b) = "Http"
      BY <1>1, <2>2 DEF KindNow
    <3>2. Len(b) >= 2 /\ b[1].k \in {"http", "connect"} /\ b[2].k = "sp"
      BY <3>1 DEF DetectProtocolKind
    <3>3. \A i \in 1..n : SubSeq(r, 1, n)[i] = r[i]
      BY <1>2
    <3>4. b[1] = r[1] /\ b[2] = r[2] /\ Len(r) >= 2
      BY <1>2, <3>2, <3>3
    <3>5. DetectProtocolKind(r) = "Http"
      BY <3>2, <3>4, Zenon DEF DetectProtocolKind
    <3> QED
      BY <1>t, <1>2, <1>4, <3>5 DEF Starts, From
  <2> QED
    BY <2>1, <2>2
<1>6. c \in 0..Len(s)
  BY <1>t, <1>4
<1> QED
  BY <1>1, <1>5, <1>6

(* From one end of a message to the next. *)
LEMMA NextEnd ==
  ASSUME NEW s \in Seq(Token), OfMessages(s), NEW c \in Starts(s),
         NEW n \in TryTakeHttpMessage(From(s, c + 1))
  PROVE  c + n \in Ends(s)
<1>1. c \in 0..Len(s) /\ Len(s) \in Nat
  BY DEF Starts
<1>2. PICK j \in Ends(s) : c < j /\ IsMessage(SubSeq(s, c + 1, j))
  BY DEF OfMessages
<1>3. j \in 0..Len(s)
  BY <1>1, <1>2 DEF Ends, Starts
<1>4. PICK r \in Seq(Token), m \in Nat, l \in Nat :
        /\ l = Len(s) /\ r = From(s, c + 1) /\ Len(r) = l - c /\ m = j - c /\ m \in 0..Len(r)
  <2>1. From(s, c + 1) \in Seq(Token) /\ Len(From(s, c + 1)) = Len(s) - c
    BY <1>1, CutSeq
  <2>2. Len(s) - c \in Nat /\ j - c \in Nat /\ j - c <= Len(s) - c
    BY <1>1, <1>2, <1>3
  <2> QED
    BY <1>1, <2>1, <2>2
<1>5. SubSeq(s, c + 1, j) = SubSeq(r, 1, m)
  <2>1. \A i \in 1..m : r[i] = s[c + i]
    <3>1. c \in Nat /\ l \in 0..Len(s) /\ c <= l /\ \A i \in 1..m : i \in 1..l - c
      BY <1>1, <1>2, <1>3, <1>4
    <3>2. \A i \in 1..l - c : SubSeq(s, c + 1, l)[i] = s[c + i]
      BY <3>1, RunElements
    <3> QED
      BY <1>4, <3>1, <3>2 DEF From
  <2>2. /\ SubSeq(r, 1, m) \in Seq(Token) /\ Len(SubSeq(r, 1, m)) = m
        /\ \A i \in 1..m : SubSeq(r, 1, m)[i] = r[i]
    BY <1>4
  <2>3. PICK x \in Seq(Token) :
          x = SubSeq(s, c + 1, j) /\ Len(x) = m /\ \A i \in 1..m : x[i] = s[c + i]
    <3>1. c \in Nat /\ j \in 0..Len(s) /\ c <= j
      BY <1>1, <1>2, <1>3
    <3>2. /\ SubSeq(s, c + 1, j) \in Seq(Token) /\ Len(SubSeq(s, c + 1, j)) = j - c
          /\ \A i \in 1..j - c : SubSeq(s, c + 1, j)[i] = s[c + i]
      BY <3>1, RunElements
    <3> QED
      BY <1>4, <3>2
  <2>4. PICK y \in Seq(Token) : y = SubSeq(r, 1, m) /\ Len(y) = m /\ \A i \in 1..m : y[i] = r[i]
    BY <2>2
  <2>5. x = y
    BY <2>1, <2>3, <2>4, SeqEqual
  <2> QED
    BY <2>3, <2>4, <2>5
<1>6. MessageLength(r) = m
  BY <1>2, <1>4, <1>5, LengthOfMessage
<1>7. n = m
  BY <1>4, <1>6 DEF TryTakeHttpMessage
<1> QED
  BY <1>1, <1>2, <1>3, <1>4, <1>7

(* With WholeMessages, what it takes to keep it. *)
MessageInv ==
  /\ WholeMessages
  /\ \A d \in Directions : ppc[d] = "off" => kind[d] = "Unknown"

LEMMA MessageStep ==
  ASSUME FlowInv, FlushUnreachable, MessageInv, [Next]_vars
  PROVE  MessageInv'
<1>0. TypeOK /\ ControlInv
  BY DEF FlowInv
<1>1. CASE UNCHANGED <<kind, skipped, taken>> /\ \A d \in Directions : ppc'[d] = "off" => ppc[d] = "off"
  BY <1>1 DEF MessageInv, WholeMessages
<1>2. CASE InitialRecv
  <2>1. \A d \in Directions : kind'[d] = "Unknown"
    BY <1>0, <1>2 DEF InitialRecv, ControlInv, MessageInv
  <2> QED
    BY <2>1 DEF MessageInv, WholeMessages
<1>3. ASSUME NEW d \in Directions, PumpTake(d) \/ PumpSpin(d)
      PROVE  MessageInv'
  <2>1. /\ kind' = [kind EXCEPT ![d] = KindNow(d)]
        /\ buf[d] # <<>> /\ ppc[d] = "loop" /\ skipped' = skipped
        /\ ppc' = [ppc EXCEPT ![d] = ppc'[d]] /\ ppc'[d] # "off"
        /\ \A e \in Directions \ {d} : taken'[e] = taken[e] /\ kind'[e] = kind[e]
    BY <1>0, <1>3 DEF PumpTake, PumpSpin, Detect, TypeOK
  <2>2. ASSUME KindNow(d) = "Http", Source(d) \in HttpPeers
        PROVE  Len(skipped'[d] \o taken'[d]) \in MessageEnds[Source(d)]
    <3>1. PICK s, c : s = Script[Source(d)] /\ c = Len(skipped[d] \o taken[d])
      OBVIOUS
    <3>2. c \in 0..Len(s) /\ c \in Starts(s) /\ s \in Seq(Token)
      BY <2>1, <2>2, <3>1, StartOfBuffer, FlowTypes DEF MessageInv, FlowInv
    <3>3. MessageEnds[Source(d)] = Ends(s) /\ OfMessages(s)
      BY <2>2, <3>1, ConstantFacts DEF MessageEnds, HttpPeers
    <3>4. CASE PumpTake(d)
      <4>1. PICK n \in TryTakeHttpMessage(From(s, c + 1)) : Len(skipped'[d] \o taken'[d]) = c + n
        BY <2>2, <3>1, <3>4, TakeOfStream, Zenon
      <4>2. c + n \in Ends(s)
        BY <3>2, <3>3, NextEnd
      <4> QED
        BY <3>3, <4>1, <4>2
    <3>5. CASE PumpSpin(d)
      <4>1. taken' = taken
        BY <3>5 DEF PumpSpin
      <4> QED
        BY <2>1, <3>1, <3>2, <3>3, <4>1, Zenon DEF Ends
    <3> QED
      BY <1>3, <3>4, <3>5
  <2>3. kind'[d] = KindNow(d)
    BY <1>0, <2>1 DEF TypeOK
  <2>4. WholeMessages'
    <3> SUFFICES ASSUME NEW e \in Directions, kind'[e] = "Http", Source(e) \in HttpPeers
                 PROVE  Len(skipped'[e] \o taken'[e]) \in MessageEnds[Source(e)]
      BY DEF WholeMessages
    <3>1. CASE e = d
      BY <2>2, <2>3, <3>1
    <3>2. CASE e # d
      BY <2>1, <3>2 DEF MessageInv, WholeMessages
    <3> QED
      BY <3>1, <3>2
  <2>5. \A e \in Directions : ppc'[e] = "off" => kind'[e] = "Unknown"
    <3>1. \A e \in Directions \ {d} : ppc'[e] = ppc[e]
      BY <1>0, <2>1 DEF TypeOK
    <3> QED
      BY <2>1, <3>1 DEF MessageInv
  <2> QED
    BY <2>4, <2>5 DEF MessageInv
<1>4. CASE Handler /\ ~InitialRecv
  <2>1. UNCHANGED <<kind, skipped, taken>>
    BY <1>4 DEF Handler, MitmReply, MitmEnd, FailWithoutUpstream, MakeUpstream, Connect, TunnelReply,
      FailWithUpstream, JoinOutbound, JoinInbound, SendConnectOk, pumpVars
  <2>2. ppc' = ppc \/ ppc' = [d \in Directions |-> "loop"]
    BY <1>4 DEF Handler, MitmReply, MitmEnd, FailWithoutUpstream, MakeUpstream, Connect, TunnelReply, StartPumps,
      FailWithUpstream, JoinOutbound, JoinInbound, pumpVars
  <2> QED
    BY <1>1, <2>1, <2>2
<1>5. ASSUME NEW d \in Directions, Pump(d), ~(PumpTake(d) \/ PumpSpin(d))
      PROVE  MessageInv'
  <2>1. UNCHANGED <<kind, skipped, taken>>
    BY <1>5 DEF Pump, PumpRecv, PumpBreak, PumpSend, PumpSendFail, ShutdownSource, ShutdownTarget
  <2>2. ppc' = ppc \/ ppc' \in {[ppc EXCEPT ![d] = v] : v \in {"loop", "send", "shut_source", "shut_target", "done"}}
    BY <1>5, Zenon DEF Pump, PumpRecv, PumpBreak, PumpSend, PumpSendFail, ShutdownSource, ShutdownTarget
  <2>3. \A e \in Directions : ppc'[e] = "off" => ppc[e] = "off"
    BY <1>0, <2>2 DEF TypeOK
  <2> QED
    BY <1>1, <2>1, <2>3
<1>6. CASE \E p \in Peers : Peer(p)
  BY <1>1, <1>6 DEF Peer, PeerWrite, PeerClose, PeerFail, pumpVars
<1>7. CASE UNCHANGED vars
  BY <1>1, <1>7 DEF vars
<1> QED
  BY <1>2, <1>3, <1>4, <1>5, <1>6, <1>7 DEF Next, Finished

(* However the bytes of a stream of messages arrive, what a pump patches as HTTP
   begins and ends between two messages, for every stream, every size of the
   buffers and every way the rest of the session may go. *)
THEOREM MessagesStayWhole == Spec => []WholeMessages
<1>1. Init => MessageInv
  BY DEF Init, MessageInv, WholeMessages
<1>2. FlowInv /\ FlushUnreachable /\ MessageInv /\ [Next]_vars => MessageInv'
  BY MessageStep
<1>3. MessageInv => WholeMessages
  BY DEF MessageInv
<1> QED
  BY <1>1, <1>2, <1>3, FlowInvariant, FlushIsDead, PTL DEF Spec

=============================================================================
