---------------------------- MODULE HttpPatching ----------------------------
(***************************************************************************)
(* What becomes of one payload between recv and send: the protocol manager,*)
(* the HTTP adapter that takes a message apart and puts it together again, *)
(* the patch engine, and the three places that call them.  cfg is the      *)
(* loaded AppConfig, a function of the keys of the file; rules is the      *)
(* sequence of the loaded rules, empty when there is no rule engine.       *)
(***************************************************************************)
EXTENDS RuleEngine

CONSTANTS
  Upstream,    \* the upstream of the session: its host and its port
  HostOrder    \* the order in which a map of headers holds the names that
               \* begin with Host

ASSUME HostOrderAssumption ==
  HostOrder \in {<<"host", "hosthint">>, <<"hosthint", "host">>}

(* "network_proxy", the value of the X-Network-Proxy header. *)
ProxyName == 77

(* The debug suffix of a direction: of a request, of a response. *)
Suffix(response) == T("data", IF response THEN 91 ELSE 90)

(* RuleMatchContext.  No caller sets its process_name. *)
Context(protocol, direction, host, port) ==
  [protocol |-> protocol, direction |-> direction, host |-> host, method |-> 0,
   path |-> 0, process |-> 0, remote_port |-> port]

Body(payload) == SubSeq(payload, FirstOf(payload, "end") + 1, Len(payload))

-----------------------------------------------------------------------------
(* PatchEngine *)

(* apply_request_patch and apply_response_patch: rules, then the proxy's
   header, then the debug suffix. *)
PatchMessage(cfg, rules, context, message, response) ==
  LET ruled == ApplyHttp(rules, context, message)
      named == [ruled EXCEPT !.headers = Only("via", ProxyName) ++ @]
      via == IF cfg["patch.add_proxy_header"]
               THEN [named EXCEPT !.changed = @ \/ named.headers # ruled.headers] ELSE ruled
  IN  IF cfg["patch.append_debug_suffix"] /\ via.body # <<>>
        THEN [via EXCEPT !.body = Append(@, Suffix(response)), !.changed = TRUE] ELSE via

(* The texts of the configuration for the payloads of a direction. *)
PatchText ==
  [outbound |-> [find |-> "patch.outbound_find", replace |-> "patch.outbound_replace",
                 find_hex |-> "patch.outbound_find_hex", replace_hex |-> "patch.outbound_replace_hex"],
   inbound |-> [find |-> "patch.inbound_find", replace |-> "patch.inbound_replace",
                find_hex |-> "patch.inbound_find_hex", replace_hex |-> "patch.inbound_replace_hex"]]

PatchTexts == {PatchText[d][k] : d \in {"outbound", "inbound"},
                                 k \in {"find", "replace", "find_hex", "replace_hex"}}

(* apply_transport_patch: the rules, then the text and the bytes that the
   configuration names for the direction. *)
ApplyTransportPatch(cfg, rules, protocol, direction, context, payload) ==
  LET ruled == ApplyTransport(rules, [context EXCEPT !.protocol = protocol,
                                                     !.direction = direction], payload)
      Of(key) == cfg[PatchText[direction][key]]
      text == IF cfg["patch.enable_text_patch"]
                THEN ReplaceEvery(ruled, Of("find"), Of("replace")) ELSE ruled
  IN  IF cfg["patch.enable_hex_patch"]
        THEN ReplaceEvery(text, HexFind(Of("find_hex"), Of("replace_hex")), Of("replace_hex"))
        ELSE text

-----------------------------------------------------------------------------
(* HttpProtocolAdapter *)

(* parse_headers: a map.  The last of two lines with one name stays, a line
   without a colon does not. *)
ParseHeaders(payload) ==
  FoldLeft(LAMBDA headers, t : IF t.k \in HeaderNames THEN Only(t.k, t.n) ++ headers ELSE headers,
           <<>>, SubSeq(payload, 1, FirstOf(payload, "end")))

IsResponse(payload) == payload[1] = T("http", 0)

(* parse_request_start_line succeeds: there are two spaces in the line. *)
HasTarget(payload) ==
  Len(payload) >= 3 /\ payload[2].k = "sp" /\ payload[3].k = "line" /\ payload[3].n # 0

(* get_header_value for Host: the value of the first name in the map that begins
   with it. *)
HostValue(headers) ==
  LET found == SelectSeq(HostOrder, LAMBDA h : h \in DOMAIN headers)
  IN  IF found = <<>> THEN 0 ELSE headers[found[1]]

(* build_rule_context; kind is Http whenever can_handle let the payload in. *)
BuildRuleContext(kind, context, payload, headers) ==
  [context EXCEPT
     !.protocol = [Http |-> "http", Https |-> "https", Unknown |-> "unknown"][kind],
     !.method = IF IsResponse(payload) THEN 0 ELSE payload[1].n,
     !.path = IF IsResponse(payload) THEN @ ELSE payload[3].n,
     !.host = IF @ = 0 THEN HostValue(headers) ELSE @]

(* The headers that rebuild_head_from_model takes for the length: all whose
   name, in any spelling, begins with Content-Length.  To the map they are
   different names. *)
LengthNames == {"len", "lenlower", "lenhint"}

(* Mutant of HeaderLines: the loop ends at a Content-Length line. *)
HeaderLinesStop(headers, size) ==
  LET Line(h) == IF h \in DOMAIN headers THEN <<T(h, headers[h])>> ELSE <<>>
  IN  IF LengthNames \cap DOMAIN headers = {}
        THEN Line("field") \o Line("host") \o Line("hosthint") \o Line("xlen") \o Line("coding") \o Line("via")
        ELSE <<T("len", size)>>

(* The lines of an unordered_map come out in some order, here this one, and a
   length as that of the body. *)
HeaderLines(headers, size) ==
  LET Line(h) == IF h \notin DOMAIN headers THEN <<>>
                 ELSE IF h \in LengthNames THEN <<T("len", size)>>
                 ELSE <<T(h, headers[h])>>
  IN  Line("field") \o Line("host") \o Line("hosthint") \o Line("xlen") \o Line("coding")
        \o Line("lenlower") \o Line("lenhint") \o Line("len") \o Line("via")

(* Without any of them the length is added. *)
LengthLine(headers, size) ==
  IF LengthNames \cap DOMAIN headers = {} THEN <<T("len", size)>> ELSE <<>>

(* Mutant of RebuildMessage: the length is that of the body that was read. *)
RebuildOldLength(start_line, message) ==
  LET lengths == Lengths \cap DOMAIN message.headers
      size == IF lengths = {} THEN Len(message.body)
              ELSE message.headers[CHOOSE h \in lengths : TRUE]
  IN  start_line \o HeaderLines(message.headers, size) \o LengthLine(message.headers, size)
        \o <<T("end", 0)>> \o message.body

(* rebuild_head_from_model; what rebuild_headers_with_content_length would
   then rewrite or add is as it wants it already. *)
RebuildMessage(start_line, message) ==
  LET size == Len(message.body)
  IN  start_line \o HeaderLines(message.headers, size) \o LengthLine(message.headers, size)
        \o <<T("end", 0)>> \o message.body

(* Mutant of ApplyPatch: a message that no patch changed is rebuilt too. *)
ApplyPatchAlways(cfg, rules, kind, context, payload) ==
  IF \/ FirstOf(payload, "end") = 0
     \/ ~IsResponse(payload) /\ ~HasTarget(payload)
    THEN {}
  ELSE LET headers == ParseHeaders(payload)
           message == PatchMessage(cfg, rules, BuildRuleContext(kind, context, payload, headers),
                        [headers |-> headers, body |-> Body(payload), changed |-> TRUE],
                        IsResponse(payload))
       IN  {RebuildMessage(SubSeq(payload, 1, FirstOf(payload, "line")), message)}

(* apply_patch: the patched message, or nothing where it returns false, the
   payload left as it was. *)
ApplyPatch(cfg, rules, kind, context, payload) ==
  IF \/ FirstOf(payload, "end") = 0
     \/ ~IsResponse(payload) /\ ~HasTarget(payload)
    THEN {}
  ELSE LET headers == ParseHeaders(payload)
           message == PatchMessage(cfg, rules, BuildRuleContext(kind, context, payload, headers),
                        [headers |-> headers, body |-> Body(payload), changed |-> FALSE],
                        IsResponse(payload))
       IN  IF message.changed
             THEN {RebuildMessage(SubSeq(payload, 1, FirstOf(payload, "line")), message)} ELSE {}

(* can_handle *)
CanHandle(kind, payload) ==
  kind = "Http" /\ \E i \in DOMAIN payload : payload[i].k \in HeaderNames \cup {"line", "end"}

(* ProtocolManager::patch_payload, with the one adapter there is. *)
PatchPayload(cfg, rules, kind, context, payload) ==
  IF cfg["protocol.enabled"] /\ cfg["protocol.http_enabled"] /\ CanHandle(kind, payload)
    THEN ApplyPatch(cfg, rules, kind, context, payload) ELSE {}

-----------------------------------------------------------------------------
(* The callers.  Their result says whether an adapter has changed the payload. *)

(* What goes out: the message the adapter made, or what the transport patch,
   where it is tried, makes of a payload that no adapter has changed. *)
Patched(structured, otherwise) ==
  [out |-> IF structured = {} THEN otherwise ELSE CHOOSE p \in structured : TRUE,
   structured |-> structured # {}]

(* patch_and_send of the TCP pump, and both halves of UdpProxyServer::serve. *)
PatchAndSend(cfg, rules, protocol, kind, direction, payload) ==
  LET context == Context(protocol, direction, Upstream.host, Upstream.port)
  IN  Patched(PatchPayload(cfg, rules, kind, context, payload),
              ApplyTransportPatch(cfg, rules, protocol, direction, context, payload))

(* patch_https_plaintext_http: the kind is detected anew in every payload,
   neither host nor port is known, and only HTTP is patched. *)
PatchHttpsPlaintext(cfg, rules, direction, payload) ==
  LET context == Context(NoText, direction, 0, 0)
      kind == DetectProtocolKind(payload)
  IN  Patched(PatchPayload(cfg, rules, kind, context, payload),
              IF kind = "Http"
                THEN ApplyTransportPatch(cfg, rules, "https-http", direction, context, payload)
                ELSE payload)

=============================================================================
