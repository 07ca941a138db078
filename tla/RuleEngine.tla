----------------------------- MODULE RuleEngine -----------------------------
(***************************************************************************)
(* RuleEngine: the loader of the rules file, the conditions of a rule, and *)
(* what the rules do to raw bytes and to a parsed HTTP message.            *)
(*                                                                         *)
(* A line of the file is a record whose text is                            *)
(*   "blank"   nothing but spaces and a comment                            *)
(*   "rule"    rule <name> {      name = "" when nothing is left of it     *)
(*   "close"   }                                                           *)
(*   "set"     <key> = <value>    the key without its "when." or "action." *)
(*   "junk"    anything else                                               *)
(* Hosts, methods, paths and processes are numbers, 0 the empty one; no    *)
(* host or path contains another.                                          *)
(***************************************************************************)
EXTENDS TextValues

WordKeys == {"protocol", "direction", "host_contains", "method", "path_contains", "process"}
ByteKeys == {"text_find", "text_replace", "hex_find", "hex_replace", "body_find", "body_replace"}

(* RuleDefinition{}, with the name its block is given. *)
EmptyRule(name) ==
  [name |-> name, protocol |-> NoText, direction |-> NoText, host_contains |-> 0, method |-> 0,
   path_contains |-> 0, process |-> 0, remote_port |-> 0,
   text_find |-> <<>>, text_replace |-> <<>>, hex_find |-> <<>>, hex_replace |-> <<>>,
   body_find |-> <<>>, body_replace |-> <<>>, header_set |-> <<>>]

-----------------------------------------------------------------------------
(* load_from_file.  A loader holds the rules so far and, while it is inside *)
(* of one, the block it reads, as a set of at most one rule.  Where it gives *)
(* up there is no loader any more: a step returns a set of at most one.     *)

(* One line of a block.  The value of a header_set is a name and a value. *)
SetKey(rule, key, value) ==
  IF key \in WordKeys THEN {[rule EXCEPT ![key] = value]}
  ELSE IF key \in ByteKeys THEN {[rule EXCEPT ![key] = Unquote(StripComment(value))]}
  ELSE IF key = "remote_port" THEN {[rule EXCEPT !.remote_port = n] : n \in ParseU16(value)}
  ELSE IF key = "header_set" /\ value.name # NoText
    THEN {[rule EXCEPT !.header_set = Only(value.name, value.n) ++ @]}
  ELSE {}

(* Mutant of LoadRuleLine: the block before is not left behind. *)
LoadRuleLineKeeps(loader, line) ==
  CASE line.text = "blank" -> {loader}
    [] line.text = "rule" /\ loader.block = {} /\ line.name # NoText ->
         {[loader EXCEPT !.block = {IF loader.rules = <<>> THEN EmptyRule(line.name)
                                    ELSE [loader.rules[Len(loader.rules)] EXCEPT !.name = line.name]}]}
    [] line.text = "close" ->
         {[rules |-> Append(loader.rules, r), block |-> {}] : r \in loader.block}
    [] line.text = "set" ->
         {[loader EXCEPT !.block = {r}] : r \in UNION {SetKey(b, line.key, line.value) : b \in loader.block}}
    [] OTHER -> {}

(* One line of the file: outside of a block only a rule with a name is
   accepted, inside of one only its end and a key the engine knows. *)
LoadRuleLine(loader, line) ==
  CASE line.text = "blank" -> {loader}
    [] line.text = "rule" /\ loader.block = {} /\ line.name # NoText ->
         {[loader EXCEPT !.block = {EmptyRule(line.name)}]}
    [] line.text = "close" ->
         {[rules |-> Append(loader.rules, r), block |-> {}] : r \in loader.block}
    [] line.text = "set" ->
         {[loader EXCEPT !.block = {r}] : r \in UNION {SetKey(b, line.key, line.value) : b \in loader.block}}
    [] OTHER -> {}

(* The rules of a file, or nothing where it is refused.  A file is a set that
   is empty when the file is not there and holds its lines otherwise. *)
LoadRules(file) ==
  LET Read(lines) == FoldLeft(LAMBDA ls, line : UNION {LoadRuleLine(l, line) : l \in ls},
                              {[rules |-> <<>>, block |-> {}]}, lines)
  IN  {l.rules : l \in {l \in UNION {Read(lines) : lines \in file} : l.block = {}}}

-----------------------------------------------------------------------------
(* Matching and patching. *)

(* matches *)
Matches(rule, context) ==
  /\ rule.protocol \in {NoText, "any", context.protocol}
  /\ rule.direction \in {NoText, "any", context.direction}
  /\ rule.host_contains \in {0, context.host}
  /\ rule.method \in {0, context.method}
  /\ rule.path_contains \in {0, context.path}
  /\ rule.process \in {0, context.process}
  /\ rule.remote_port \in {0, context.remote_port}

(* apply_transport: text, then bytes, rule by rule; one that does not match is
   passed over. *)
ApplyTransport(rules, context, payload) ==
  FoldLeft(LAMBDA p, r :
             IF Matches(r, context)
               THEN ReplaceEvery(ReplaceEvery(p, r.text_find, r.text_replace),
                                 HexFind(r.hex_find, r.hex_replace), r.hex_replace)
               ELSE p,
           payload, rules)

(* apply_http_request and apply_http_response: headers, then the body; the
   bytes of a rule are for the transport only. *)
ApplyHttp(rules, context, message) ==
  LET Apply(m, r) ==
        LET body == ReplaceEvery(m.body, r.body_find, r.body_replace)
            headers == r.header_set ++ m.headers
        IN  IF Matches(r, context)
              THEN [headers |-> headers,
                    body |-> ReplaceEvery(body, r.text_find, r.text_replace),
                    changed |-> \/ m.changed
                                \/ headers # m.headers
                                \/ Occurs(m.body, r.body_find)
                                \/ Occurs(body, r.text_find)]
              ELSE m
  IN  FoldLeft(Apply, message, rules)

=============================================================================
