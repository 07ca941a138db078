----------------------------- MODULE Application -----------------------------
(***************************************************************************)
(* Application::run: the command line, the configuration, the root         *)
(* certificate, the rules, and then the proxy, which forwards whatever     *)
(* payloads come with the configuration and the rules that were loaded.    *)
(***************************************************************************)
EXTENDS HttpPatching, AppConfig

CONSTANTS
  Setups,      \* [args, disk, trusted]: the command line, the files, each at
               \* its path, and whether the root certificate is installed
  Payloads     \* what a payload may be

Directions == {"outbound", "inbound"}

(* Where payloads are patched: the TCP pump, the UDP loop, the plaintext of
   an HTTPS session. *)
Sites == {"tcp", "udp", "https"}

(* A file is its lines, in order, and the value of a line of a rule is of the
   kind that its key asks for. *)
IsRuleLine(line) ==
  /\ line.text = "rule" => line.name \in STRING
  /\ line.text = "set" =>
       /\ line.key \in {"protocol", "direction"} => line.value \in STRING
       /\ line.key \in {"host_contains", "method", "path_contains", "process"} => line.value \in Nat
       /\ line.key \in ByteKeys => line.value \in Seq(Token)
       /\ line.key = "remote_port" => line.value \in Int
       /\ line.key = "header_set" => line.value \in [name : STRING, n : Nat]

(* The number of a line of the configuration is one, and a text of the patches,
   whatever section its key may be read in, is bytes. *)
IsConfigLine(line, lines) ==
  LET named == {i \in DOMAIN lines : lines[i].text \in {"name", "pair"} /\ OpensSection(lines[i])}
      sections == {NoText} \cup {SectionName(lines[i]) : i \in named}
  IN  /\ line.text \in {"name", "pair"} =>
           /\ line.number \in SUBSET Int
           /\ (\E s \in sections : FullKey(s, line.key) \in PatchTexts) => line.value \in Seq(Token)
      /\ line.text = "name" => line.value = <<>>

ASSUME FilesAssumption ==
  \A s \in Setups :
    /\ s.args \in Seq(Range(s.args)) /\ s.trusted \in BOOLEAN
    /\ \A p \in DOMAIN s.disk :
         /\ s.disk[p] \in Seq(Range(s.disk[p]))
         /\ \A i \in DOMAIN s.disk[p] : /\ IsRuleLine(s.disk[p][i])
                                       /\ IsConfigLine(s.disk[p][i], s.disk[p])

(* A payload is bytes.  Up to the end of its head a header line begins where a
   line ends, the blank line too; a space completes a prefix. *)
IsPayload(payload) ==
  LET head_end == FirstOf(payload, "end")
  IN  /\ payload \in Seq(Token)
      /\ head_end # 1
      /\ \A i \in 2..head_end :
           /\ payload[i].k \in HeaderNames \cup {"end"} => payload[i - 1].k \in HeaderNames \cup {"line"}
           /\ payload[i].k = "sp" => payload[i - 1].k \in {"http", "connect"}

ASSUME PayloadsAssumption == \A p \in Payloads : IsPayload(p)

VARIABLES
  setup,    \* the command line and the files, as they were at the start
  pc,       \* where run is
  config,   \* the AppConfig, Defaults before it is loaded
  rules,    \* the rules of the engine
  trusted,  \* the root certificate is in the store
  code,     \* the exit code, 2 while there is none
  traffic   \* the payload that is patched, before and after: at most one

vars == <<setup, pc, config, rules, trusted, code, traffic>>

-----------------------------------------------------------------------------

(* parse_options.  The word behind --config is the path, whatever it is; a
   --config without one, and any other word, is passed over. *)
ParseOptions(args) ==
  FoldLeft(LAMBDA o, a :
             CASE o.path_next -> [o EXCEPT !.config_path = <<Word(a)>>, !.path_next = FALSE]
               [] ~o.path_next /\ a = "--config" -> [o EXCEPT !.path_next = TRUE]
               [] ~o.path_next /\ a = "--install-ca" -> [o EXCEPT !.install = TRUE]
               [] ~o.path_next /\ a = "--uninstall-ca" -> [o EXCEPT !.uninstall = TRUE]
               [] OTHER -> o,
           [config_path |-> <<Word("config/proxy.yaml")>>, install |-> FALSE, uninstall |-> FALSE,
            path_next |-> FALSE],
           args)

options == ParseOptions(setup.args)

(* The file at a path: its lines, or nothing. *)
File(path) == {setup.disk[p] : p \in {path} \cap DOMAIN setup.disk}

Init ==
  /\ setup \in Setups
  /\ pc = "config"
  /\ config = Defaults
  /\ rules = <<>>
  /\ trusted = setup.trusted
  /\ code = 2
  /\ traffic = {}

Exit(n) == pc' = "exited" /\ code' = n

LoadConfiguration ==
  /\ pc = "config"
  /\ \E c \in LoadConfig(File(options.config_path)) : config' = c
  /\ pc' = IF options.install \/ options.uninstall THEN "certutil" ELSE "rules"
  /\ UNCHANGED <<setup, rules, trusted, code, traffic>>

ConfigurationFails ==
  /\ pc = "config"
  /\ LoadConfig(File(options.config_path)) = {}
  /\ Exit(1)
  /\ UNCHANGED <<setup, config, rules, trusted, traffic>>

(* install_root_ca and uninstall_root_ca refuse without running certutil. *)
CertUtilRuns ==
  IF options.install THEN config["https_mitm.ca_cert_path"] \in DOMAIN setup.disk
                     ELSE config["https_mitm.ca_subject_name"] # <<>>

(* The command of --install-ca, which goes first, or of --uninstall-ca. *)
CertUtil ==
  /\ pc = "certutil"
  /\ CertUtilRuns
  /\ trusted' = options.install
  /\ Exit(0)
  /\ UNCHANGED <<setup, config, rules, traffic>>

CertUtilFails ==
  /\ pc = "certutil"
  /\ Exit(1)
  /\ UNCHANGED <<setup, config, rules, trusted, traffic>>

(* No rule engine when the rules are switched off. *)
LoadRuleFile ==
  /\ pc = "rules"
  /\ \E r \in (IF config["rules.enabled"] THEN LoadRules(File(config["rules.file"])) ELSE {<<>>}) :
       rules' = r
  /\ pc' = "serving"
  /\ UNCHANGED <<setup, config, trusted, code, traffic>>

RulesFail ==
  /\ pc = "rules"
  /\ config["rules.enabled"]
  /\ LoadRules(File(config["rules.file"])) = {}
  /\ Exit(1)
  /\ UNCHANGED <<setup, config, rules, trusted, traffic>>

(* ProxyServer::run returns, and with what, is the subject of ProxyServer. *)
ServerReturns ==
  /\ pc = "serving"
  /\ \E n \in {0, 1} : Exit(n)
  /\ UNCHANGED <<setup, config, rules, trusted, traffic>>

(* A payload of a TCP pump, of a datagram, or of an HTTPS session is patched.
   A pump may have settled on a kind with an earlier payload of its stream. *)
Forward(site, direction, payload) ==
  /\ pc = "serving"
  /\ traffic = {}
  /\ \E kind \in {DetectProtocolKind(payload)} \cup (IF site = "tcp" THEN {"Http", "Unknown"} ELSE {}) :
       LET patched == IF site = "https"
                        THEN PatchHttpsPlaintext(config, rules, direction, payload)
                        ELSE PatchAndSend(config, rules, site, kind, direction, payload)
       IN  traffic' = {[site |-> site, direction |-> direction, in |-> payload] ++ patched}
  /\ UNCHANGED <<setup, pc, config, rules, trusted, code>>

(* The payload is on its way.  Nothing of it is left in the engine. *)
Sent ==
  /\ traffic # {}
  /\ traffic' = {}
  /\ UNCHANGED <<setup, pc, config, rules, trusted, code>>

Exited == pc = "exited" /\ UNCHANGED vars

Next ==
  \/ LoadConfiguration \/ ConfigurationFails
  \/ CertUtil \/ CertUtilFails
  \/ LoadRuleFile \/ RulesFail
  \/ ServerReturns
  \/ \E s \in Sites, d \in Directions, p \in Payloads : Forward(s, d, p)
  \/ Sent
  \/ Exited

Spec == Init /\ [][Next]_vars

-----------------------------------------------------------------------------
(* The files, read by a person: reference definitions for the properties.  *)

(* The last line at or before i for which P holds, or 0. *)
LastUpTo(i, P(_)) == LET found == {j \in 1..i : P(j)} IN IF found = {} THEN 0 ELSE Max(found)

(* Indented lines belong to the name above them, the others are the top. *)
MeantKey(lines, i) ==
  LET above == LastUpTo(i, LAMBDA j : lines[j].text = "name")
  IN  IF lines[i].nested /\ above # 0 THEN lines[above].key \o "." \o lines[i].key
      ELSE lines[i].key

(* The last line up to i that is about key, or 0. *)
SaidUpTo(lines, i, key) ==
  LastUpTo(i, LAMBDA j : lines[j].text = "pair" /\ MeantKey(lines, j) = key)

Said(lines, key) == SaidUpTo(lines, Len(lines), key)

(* What a person reads as the value of a line: a # between quotes is no
   comment, and what stands behind the quotes is one. *)
MeantBytes(text) ==
  LET closing == SelectInSeq(Tail(text), LAMBDA t : t = Quote)
  IN  IF text # <<>> /\ text[1] = Quote /\ closing # 0 THEN SubSeq(text, 2, closing)
      ELSE StripComment(text)

(* The value that a line means a key to have. *)
MeantValue(key, line) ==
  CASE Keys[key] = "text" -> {MeantBytes(line.value)}
    [] Keys[key] = "bool" ->
         {b \in BOOLEAN : MeantBytes(line.value) = <<Word(IF b THEN "true" ELSE "false")>>}
    [] Keys[key] \in {"u16", "u32"} -> {n \in line.number : MeantBytes(line.value) = <<Digits>>}

(* The line of a value that the loader and a reader take alike: neither quotes
   nor a comment in a text, and digits that are no negative number.  The loader
   leaves quotes and comments in a text and reads a number up to what is none. *)
PlainValue(key, line) ==
  IF Keys[key] \in {"text", "bool"} THEN MeantBytes(line.value) = line.value
  ELSE MeantBytes(line.value) = <<Digits>> /\ line.number \subseteq Nat

(* A configuration file whose sections the loader and a reader take alike: no
   section without a name or with a space in front of its colon, no pair that
   opens one because there is nothing, or a colon, at its end and no space in
   it, and no key at the top below a section. *)
Tidy(lines) ==
  \A i \in DOMAIN lines :
    /\ lines[i].text = "name" =>
         lines[i].key # NoText /\ lines[i].value = <<>> /\ ~lines[i].spaced
    /\ lines[i].text = "pair" =>
         /\ ~OpensSection(lines[i])
         /\ lines[i].nested \/ \A j \in 1..i : lines[j].text # "name"

(* A rules file is blocks: i is inside of the block that opened at Opened(i). *)
Opened(lines, i) == LastUpTo(i - 1, LAMBDA j : lines[j].text = "rule")
Closed(lines, i) == LastUpTo(i - 1, LAMBDA j : lines[j].text = "close")
Inside(lines, i) == Opened(lines, i) > Closed(lines, i)

(* What may stand where: line i. *)
Fits(lines, i) ==
  CASE lines[i].text = "blank" -> TRUE
    [] lines[i].text = "rule" -> ~Inside(lines, i) /\ lines[i].name # NoText
    [] lines[i].text = "close" -> Inside(lines, i)
    [] lines[i].text = "set" ->
         Inside(lines, i) /\ SetKey(EmptyRule(NoText), lines[i].key, lines[i].value) # {}
    [] OTHER -> FALSE

WellFormed(lines) ==
  /\ \A i \in DOMAIN lines : Fits(lines, i)
  /\ ~Inside(lines, Len(lines) + 1)

(* The lines of a block that say what key is, the block being from one line to
   another. *)
Says(lines, from, to, key) == {i \in from..to : lines[i].text = "set" /\ lines[i].key = key}

(* The rule meant by a block. *)
MeantRule(lines, from, to) ==
  LET Value(key, default, Read(_)) ==
        LET says == Says(lines, from, to, key)
        IN  IF says = {} THEN default ELSE Read(lines[Max(says)].value)
      Plain(v) == v
      empty == EmptyRule(lines[from].name)
  IN  [key \in DOMAIN empty |->
        CASE key \in WordKeys -> Value(key, empty[key], Plain)
          [] key \in ByteKeys -> Value(key, empty[key], MeantBytes)
          [] key = "remote_port" -> Value(key, 0, Plain)
          [] key = "header_set" ->
               [h \in {lines[i].value.name : i \in Says(lines, from, to, key)} |->
                  lines[Max({i \in Says(lines, from, to, key) : lines[i].value.name = h})].value.n]
          [] OTHER -> empty[key]]

(* The ends of blocks up to line i. *)
Closes(lines, i) == {j \in 1..i : lines[j].text = "close"}

(* A rules file without the two values that the loader and a reader take
   differently: a # between quotes, a negative number. *)
PlainValues(lines) ==
  \A i \in DOMAIN lines :
    lines[i].text = "set" =>
      /\ lines[i].key \in ByteKeys => MeantBytes(lines[i].value) = Unquote(StripComment(lines[i].value))
      /\ lines[i].key = "remote_port" => lines[i].value >= 0

-----------------------------------------------------------------------------
(* Properties *)

(* Type invariant of the application. *)
TypeOK ==
  /\ pc \in {"config", "certutil", "rules", "serving", "exited"}
  /\ DOMAIN config = DOMAIN Defaults
  /\ \A k \in KeysOf("bool") : config[k] \in BOOLEAN
  /\ \A k \in KeysOf("u16") : config[k] \in 0..PortMax
  /\ \A i \in DOMAIN rules : DOMAIN rules[i] = DOMAIN EmptyRule(NoText)
  /\ trusted \in BOOLEAN
  /\ code \in {0, 1, 2}
  /\ code = 2 <=> pc # "exited"
  /\ \A t \in traffic : t.site \in Sites /\ t.direction \in Directions /\ t.structured \in BOOLEAN
                        /\ t.in \in Seq(Token) /\ t.out \in Seq(Token)

(* A configuration that is in force says for every key what a reader of the
   file takes the last line about it to say, and the default where there is
   none; nothing of a file that was given up on is in force.  Two exceptions:
   files with sections that the loader finds elsewhere (Tidy), and values that
   it takes otherwise (PlainValue): config/proxy.yaml:52-55 write "" for texts that
   are empty, and what is loaded is two quote characters. *)
ConfigAsWritten ==
  pc \in {"certutil", "rules"} =>
    \E lines \in File(options.config_path) :
      Tidy(lines) => \A key \in DOMAIN Keys :
        LET says == Said(lines, key)
        IN  IF says = 0 THEN config[key] = Defaults[key]
            ELSE PlainValue(key, lines[says]) => config[key] \in MeantValue(key, lines[says])

(* A proxy that serves with rules has every block of the file, in order, each
   with the last value of every key and nothing of the block before. *)
RulesAsWritten ==
  pc = "serving" /\ traffic = {} /\ config["rules.enabled"] =>
    \E lines \in File(config["rules.file"]) :
      /\ WellFormed(lines)
      /\ PlainValues(lines) =>
           LET closes == Closes(lines, Len(lines))
           IN  /\ Len(rules) = Cardinality(closes)
               /\ \A c \in closes :
                    rules[Cardinality(Closes(lines, c))] = MeantRule(lines, Opened(lines, c), c)

(* The start is refused for a cause only: a file that is not there, a line
   that says nothing, a value that cannot be read, a block that is broken. *)
RefusedForCause ==
  [][/\ pc = "config" /\ pc' = "exited" =>
          \A lines \in File(options.config_path) :
            Tidy(lines) => \E i \in DOMAIN lines :
              \/ lines[i].text \notin {"blank", "name", "pair"}
              \/ /\ lines[i].text = "pair"
                 /\ MeantKey(lines, i) \in DOMAIN Keys
                 /\ ReadValue(MeantKey(lines, i), lines[i]) = {}
     /\ pc = "rules" /\ pc' = "exited" =>
          \A lines \in File(config["rules.file"]) : ~WellFormed(lines)]_vars

(* A message whose end its receiver finds: by its one Content-Length, or, for
   a request, because there is neither a length nor a body. *)
Whole(message) ==
  LET head == SubSeq(message, 1, FirstOf(message, "end"))
      lengths == {i \in DOMAIN head : head[i].k \in Lengths}
  IN  /\ head # <<>>
      /\ \A i \in DOMAIN head : head[i].k # "coding"
      /\ \/ \E i \in lengths : lengths = {i} /\ head[i].n = Len(Body(message))
         \/ lengths = {} /\ Body(message) = <<>> /\ ~IsResponse(message)

(* The names of the header lines of a message. *)
NamesIn(message) == {message[i].k : i \in 1..FirstOf(message, "end")}

(* The names that a rule may set. *)
RuleHeaders == UNION {DOMAIN rules[i].header_set : i \in DOMAIN rules}

(* Every line of a message from the adapter that gives a length gives that of
   the body behind it, whatever rules, header and suffix did to the body; no
   length of another spelling is left.  And a message that came in whole goes
   out whole, with two exceptions: a rule sets a Transfer-Encoding, or the
   message and the rules have two names that begin with Content-Length, both of
   which the adapter gives back as a Content-Length line.  Not every message
   that comes in is whole: a head that was cut off a body without a length goes
   out with a Content-Length of 0.  And the transport patch, which takes over
   when the adapter changed nothing, may change the length of a body alone. *)
FramingKept ==
  \A t \in traffic : t.structured =>
    /\ \A i \in 1..FirstOf(t.out, "end") :
         /\ t.out[i].k = "len" => t.out[i].n = Len(Body(t.out))
         /\ t.out[i].k \notin LengthNames \ {"len"}
    /\ /\ Whole(t.in)
       /\ "coding" \notin RuleHeaders
       /\ \A g, h \in LengthNames \cap (NamesIn(t.in) \cup RuleHeaders) : g = h
       => Whole(t.out)

(* A rule for any protocol that config/rules.dsl:4 offers, or that the code
   gives a payload, and for the direction of t; no payload has a process. *)
MayApply(rule, t) ==
  /\ rule.protocol \in {NoText, "any", "tcp", "udp", "http", "https", "https-http"}
  /\ rule.process = 0
  /\ rule.direction \in {NoText, "any", t.direction}

(* Nothing that is looked for is in the payload of t, and nothing is added. *)
Quiet(t) ==
  /\ ~config["patch.add_proxy_header"] /\ ~config["patch.append_debug_suffix"]
  /\ \A k \in {"find", "find_hex"} : ~Occurs(t.in, config[PatchText[t.direction][k]])
  /\ \A i \in DOMAIN rules : MayApply(rules[i], t) =>
       /\ rules[i].header_set = <<>>
       /\ \A k \in {"text_find", "hex_find", "body_find"} : ~Occurs(t.in, rules[i][k])

(* A payload that no patch is about passes byte for byte, malformed, repeated
   and unknown header lines included. *)
UntouchedUnlessHit ==
  \A t \in traffic : Quiet(t) => t.out = t.in

(* The adapter gives every header line that stands alone and that no rule sets
   back as it was, behind the same start line, whatever else it changes; but
   all whose name begins with Content-Length become the length of the body. *)
HeadersKept ==
  \A t \in traffic : t.structured =>
    LET head == SubSeq(t.in, 1, FirstOf(t.in, "end"))
        line == FirstOf(t.in, "line")
        Count(h, m) == Cardinality({i \in 1..FirstOf(m, "end") : m[i].k = h})
    IN  /\ SubSeq(t.out, 1, line) = SubSeq(t.in, 1, line)
        /\ \A i \in DOMAIN head :
             head[i].k \in HeaderNames \ (LengthNames \cup {"via"} \cup RuleHeaders) /\ Count(head[i].k, t.in) = 1
               => Count(head[i].k, t.out) = 1 /\ head[i] \in Range(t.out)

=============================================================================
