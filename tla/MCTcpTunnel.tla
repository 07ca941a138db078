----------------------------- MODULE MCTcpTunnel -----------------------------
(***************************************************************************)
(* A client session with the patches of the program in the place of the    *)
(* constant Patch: TcpSession cuts the streams up, HttpPatching rewrites   *)
(* what has been cut.                                                      *)
(***************************************************************************)
EXTENDS TcpSession, HttpPatching

Request(body) == HttpMessage(<<T("http", 1), T("sp", 0), T("line", 1)>>, body)

(* A CONNECT request and two pipelined HTTP requests, and an answer. *)
Messages ==
  [client |-> <<<<T("connect", 0), T("sp", 0), T("line", 1), T("end", 0)>>,
                Request(<<T("data", 1)>>), Request(<<>>)>>,
   upstream |-> <<<<T("data", 4)>>>>]

HttpScript == [p \in Peers |-> FlattenSeq(Messages[p])]

(* The keys the patches read: their defaults, but for a text patch of answers.
   A rule lengthens the body of requests. *)
Enabled == {"protocol.enabled", "protocol.http_enabled", "patch.add_proxy_header",
            "patch.append_debug_suffix", "patch.enable_text_patch"}

Cfg == [k \in Enabled |-> TRUE]
       @@ ("patch.enable_hex_patch" :> FALSE)
       @@ ("patch.outbound_find" :> <<>>) @@ ("patch.outbound_replace" :> <<>>)
       @@ ("patch.inbound_find" :> <<T("data", 4)>>)
       @@ ("patch.inbound_replace" :> <<T("data", 5), T("data", 6)>>)

Rules == <<[EmptyRule("r") EXCEPT !.protocol = "http", !.body_find = <<T("data", 1)>>,
                                  !.body_replace = <<T("data", 2), T("data", 3)>>]>>

MCUpstream == [host |-> 2, port |-> 80]

MCHostOrder == <<"hosthint", "host">>

PatchPump(plaintext, d, k, payload) ==
  (IF plaintext THEN PatchHttpsPlaintext(Cfg, Rules, d, payload)
   ELSE PatchAndSend(Cfg, Rules, "tcp", k, d, payload)).out

(* The lengths of the prefixes of a stream of messages that end between two
   messages: what Ends reads off the stream of this client. *)
Boundaries(messages) ==
  {Len(FlattenSeq(SubSeq(messages, 1, i))) : i \in 0..Len(messages)}

ASSUME ClientWritesMessages ==
  OfMessages(HttpScript["client"]) /\ Ends(HttpScript["client"]) = Boundaries(Messages["client"])

(* Where the next message of a stream ends for a receiver that goes by the
   Content-Length; beyond the stream when it is not all there. *)
NextMessage(stream) ==
  LET head == SubSeq(stream, 1, FirstOf(stream, "end"))
      length == SelectInSeq(head, LAMBDA t : t.k \in Lengths)
  IN  IF head = <<>> THEN Len(stream) + 1
      ELSE Len(head) + (IF length = 0 THEN 0 ELSE head[length].n)

(* The number of messages such a receiver reads from a stream; some other
   number, never reached by a sender, when the stream ends inside of one. *)
Received(stream) ==
  LET from[i \in 1..Len(stream) + 1] ==
        IF i = Len(stream) + 1 THEN 0
        ELSE LET next == i + NextMessage(SubSeq(stream, i, Len(stream)))
             IN  IF next > Len(stream) + 1 THEN 100 ELSE 1 + from[next]
  IN  from[1]

(* What the pump of a stream of HTTP messages hands to send is, for a receiver
   that goes by the Content-Length, exactly as many messages as were taken:
   the cutting of the stream and the rewriting of its pieces fit together. *)
MessagesArrive ==
  ppc["outbound"] = "send" /\ kind["outbound"] = "Http"
    => Received(emitted["outbound"]) = Received(taken["outbound"])

=============================================================================
