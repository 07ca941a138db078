---------------------------- MODULE HttpFraming ----------------------------
(***************************************************************************)
(* The pure part of the TCP path: how detect_protocol_kind classifies the  *)
(* bytes a pump holds, how TcpReassemblyBuffer cuts one HTTP message off   *)
(* the front of them, and how parse_connect_authority recognises a CONNECT *)
(* request.                                                                *)
(*                                                                         *)
(* A byte stream is a sequence of tokens, each a run of bytes that no test *)
(* in the code looks inside of:                                            *)
(*   http     a request method of k_http_request_methods, n which one, or  *)
(*            n = 0: HTTP/1.x                                              *)
(*   connect  the method CONNECT                                           *)
(*   sp       the space that completes one of those prefixes               *)
(*   line     the rest of a line with its CRLF; on a request line n is the *)
(*            target, and 0 when it, or the authority of a CONNECT, does   *)
(*            not parse                                                    *)
(*   len      a Content-Length header line, n its value                    *)
(*   lenlower the same in another spelling, content-length                 *)
(*   lenhint  a header line whose name is longer than Content-Length and   *)
(*            begins with it                                               *)
(*   xlen     a header line whose name ends in -Content-Length             *)
(*   host, via, field, coding     a Host, X-Network-Proxy, X-... or        *)
(*            Transfer-Encoding header line, n its value                   *)
(*   hosthint a header line whose name is longer than Host and begins      *)
(*            with it                                                      *)
(*   end      the last CRLF of the first CRLF CRLF                         *)
(*   tls1     byte 0x16          tls2     byte 0x03                        *)
(*   data     any other byte; n tells the bytes of a stream apart          *)
(* A prefix is two tokens so that a read may end inside it.                *)
(***************************************************************************)
EXTENDS Naturals, Sequences, SequencesExt

CONSTANT SizeModulus    \* 2^64 in the code: the lengths are size_t

ASSUME SizeModulusAssumption == SizeModulus \in Nat \ {0}

HeaderNames ==
  {"len", "lenlower", "lenhint", "xlen", "host", "hosthint", "via", "field", "coding"}

(* What a receiver takes for the length of a body, whatever its spelling. *)
Lengths == {"len", "lenlower"}

TokenKinds == {"http", "connect", "sp", "line", "end", "tls1", "tls2", "data",
               "established"} \cup HeaderNames

Token == [k : TokenKinds, n : Nat]

ProtocolKinds == {"Unknown", "Http", "Https"}

(* A token of kind k that carries the number n. *)
T(k, n) == [k |-> k, n |-> n]

(* The first i with payload[i].k = k, or 0: std::string::find. *)
FirstOf(payload, k) == SelectInSeq(payload, LAMBDA t : t.k = k)

(* detect_protocol_kind *)
DetectProtocolKind(payload) ==
  IF /\ Len(payload) >= 2
     /\ payload[1].k \in {"http", "connect"}
     /\ payload[2].k = "sp"
    THEN "Http"
  ELSE IF /\ Len(payload) >= 3
          /\ payload[1].k = "tls1"
          /\ payload[2].k = "tls2"
    THEN "Https"
  ELSE "Unknown"

(* parse_content_length, over the header block that ends at header_end: what
   stands behind the first "content-length:" in it, wherever that is, or 0. *)
ParseContentLength(payload, header_end) ==
  LET at == SelectInSeq(payload, LAMBDA t : t.k \in Lengths \cup {"xlen"})
  IN  IF at \in 1..header_end THEN payload[at].n ELSE 0

(* Mutant of MessageLength: the body is forgotten. *)
HeadLength(payload) == FirstOf(payload, "end")

(* message_length of try_take_http_message, a size_t sum that wraps. *)
MessageLength(payload) ==
  LET header_end == FirstOf(payload, "end")
  IN  (header_end + ParseContentLength(payload, header_end)) % SizeModulus

(* What try_take_http_message may take: the length of the first message when
   all of it is there, and nothing otherwise (the call returns false). *)
TryTakeHttpMessage(payload) ==
  {n \in 0..Len(payload) : /\ FirstOf(payload, "end") # 0
                           /\ n = MessageLength(payload)}

(* parse_connect_authority returns a target: the first line is there with its
   CRLF, begins with the CONNECT prefix and holds a usable authority. *)
ParseConnectAuthority(payload) ==
  /\ Len(payload) >= 3
  /\ payload[1].k = "connect"
  /\ payload[2].k = "sp"
  /\ payload[3].k = "line"
  /\ payload[3].n # 0

(***************************************************************************)
(* Reference definitions, for the properties: what the sender of a stream  *)
(* of HTTP messages means by a message, with no buffer in sight.           *)
(***************************************************************************)

(* The request or response m, whole: a head and as many body tokens as its
   Content-Length announces. *)
HttpMessage(head, body) == head \o <<T("len", Len(body)), T("end", 0)>> \o body

(* m is one whole message to its sender: a head and behind it as many tokens
   as its one Content-Length announces, or none when it has none.  A header
   line that ends in -Content-Length makes it something else to the buffer, and
   so does a length that wraps. *)
IsMessage(m) ==
  LET head_end == FirstOf(m, "end")
      lengths == {i \in 1..head_end : m[i].k \in Lengths}
  IN  /\ head_end # 0
      /\ \A i \in 1..head_end : m[i].k # "xlen"
      /\ \/ lengths = {} /\ Len(m) = head_end
         \/ \E i \in lengths : lengths = {i} /\ Len(m) = head_end + m[i].n
      /\ Len(m) < SizeModulus

(* Where a stream shows a method, or HTTP/1.x, and its space: as many tokens
   are before it.  In a stream of messages one whole message reaches from each
   of these places to another, or to the end; the first is in front. *)
Starts(stream) ==
  {i \in 0..Len(stream) : DetectProtocolKind(SubSeq(stream, i + 1, Len(stream))) = "Http"}

Ends(stream) == Starts(stream) \cup {Len(stream)}

OfMessages(stream) ==
  /\ 0 \in Starts(stream)
  /\ \A i \in Starts(stream) :
       \E j \in Ends(stream) :
         /\ i < j
         /\ IsMessage(SubSeq(stream, i + 1, j))

=============================================================================
