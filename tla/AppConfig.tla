------------------------------ MODULE AppConfig ------------------------------
(***************************************************************************)
(* AppConfig: the keys of the configuration file, their defaults, and the  *)
(* loader.  A configuration is a function of the full names of the keys; a *)
(* text is a sequence, empty when the text is.                             *)
(*                                                                         *)
(* A line of the file is a record whose text is                            *)
(*   "blank"  empty or a comment                                           *)
(*   "pair"   <key>: <value>   the value as text, with its quotes and what *)
(*                             stands behind it, and, in number, the       *)
(*                             number its text begins with, if it does     *)
(*   "name"   <key>:           meant to open a section, without a value    *)
(*   "junk"   anything without a colon                                     *)
(* spaced says whether there is a space inside of the line, and nested     *)
(* whether it is indented, to which the loader is blind.                   *)
(***************************************************************************)
EXTENDS TextValues

(* What load_from_file makes of each key, and where its value ends up. *)
Kind(kind, keys) == [k \in keys |-> kind]

CaptureKeys ==
  Kind("bool", {"capture.enabled", "capture.use_windivert", "capture.use_wfp",
                "capture.wfp_redirect_enabled", "capture.wfp_redirect_allow_startup_fallback",
                "capture.wfp_redirect_allow_runtime_fallback"})
  ++ Kind("text", {"capture.wfp_filter", "capture.wfp_callout_channel",
                   "capture.wfp_redirect_filter", "capture.windivert_filter"})

TransportKeys ==
  Kind("bool", {"tcp.enabled", "udp.enabled"})
  ++ Kind("text", {"tcp.listen_host", "tcp.upstream_host", "udp.listen_host", "udp.upstream_host"})
  ++ Kind("u16", {"tcp.listen_port", "tcp.upstream_port", "udp.listen_port", "udp.upstream_port"})

RuntimeKeys ==
  Kind("bool", {"runtime.dry_run", "protocol.enabled", "protocol.http_enabled", "rules.enabled"})
  ++ Kind("text", {"runtime.log_level", "rules.file"})
  ++ Kind("u32", {"runtime.max_runtime_seconds"})

HttpsKeys ==
  Kind("bool", {"https_mitm.enabled", "https_mitm.install_to_current_user",
                "https_mitm.plaintext_test_mode"})
  ++ Kind("text", {"https_mitm.ca_cert_path", "https_mitm.ca_key_path",
                   "https_mitm.ca_subject_name", "https_mitm.cert_cache_dir",
                   "https_mitm.openssl_bin_path"})

PatchKeys ==
  Kind("bool", {"patch.add_proxy_header", "patch.append_debug_suffix",
                "patch.enable_text_patch", "patch.enable_hex_patch"})
  ++ Kind("text", {"patch.outbound_find", "patch.outbound_replace",
                   "patch.outbound_find_hex", "patch.outbound_replace_hex",
                   "patch.inbound_find", "patch.inbound_replace",
                   "patch.inbound_find_hex", "patch.inbound_replace_hex"})

Keys == CaptureKeys ++ TransportKeys ++ RuntimeKeys ++ HttpsKeys ++ PatchKeys

KeysOf(kind) == {k \in DOMAIN Keys : Keys[k] = kind}

(* The member initialisers of AppConfig; any other text is empty. *)
DefaultTexts ==
  [k \in {"capture.wfp_filter", "capture.wfp_redirect_filter", "capture.windivert_filter"}
     |-> <<Word("ip and (tcp or udp)")>>]
  ++ [k \in {"tcp.listen_host", "tcp.upstream_host", "udp.listen_host", "udp.upstream_host"}
       |-> <<Word("127.0.0.1")>>]
  ++ Only("capture.wfp_callout_channel", <<Word("local://network_proxy_callout")>>)
  ++ Only("runtime.log_level", <<Word("info")>>)
  ++ Only("rules.file", <<Word("config/rules.dsl")>>)
  ++ Only("https_mitm.ca_subject_name", <<Word("NetworkProxy Local CA")>>)
  ++ Only("https_mitm.cert_cache_dir", <<Word("cert/cache")>>)
  ++ Only("https_mitm.openssl_bin_path", <<Word("openssl")>>)

DefaultPorts ==
  Only("tcp.listen_port", 18080) ++ Only("tcp.upstream_port", 28080)
  ++ Only("udp.listen_port", 18081) ++ Only("udp.upstream_port", 28081)

ASSUME PortsAssumption == \A k \in DOMAIN DefaultPorts : DefaultPorts[k] \in 0..PortMax

Defaults ==
  [k \in KeysOf("bool") |->
     k \notin {"capture.enabled", "capture.use_wfp", "capture.use_windivert",
               "capture.wfp_redirect_enabled", "https_mitm.enabled",
               "https_mitm.plaintext_test_mode", "patch.enable_hex_patch"}]
  ++ DefaultPorts ++ Only("runtime.max_runtime_seconds", 0)
  ++ DefaultTexts ++ [k \in KeysOf("text") |-> <<>>]

-----------------------------------------------------------------------------
(* load_from_file *)

(* parse_bool *)
ParseBool(value) == {b \in BOOLEAN : value = <<Word(IF b THEN "true" ELSE "false")>>}

(* What a value is for a key, or nothing where it cannot be read. *)
ReadValue(key, line) ==
  CASE Keys[key] = "text" -> {line.value}
    [] Keys[key] = "bool" -> ParseBool(line.value)
    [] Keys[key] = "u16" -> UNION {ParseU16(n) : n \in line.number}
    [] Keys[key] = "u32" -> UNION {ParseU32(n) : n \in line.number}

(* A line that ends in a colon and has no space in it opens a section, be it a
   name, a pair with an empty value or one whose value ends in a colon. *)
OpensSection(line) ==
  /\ ~line.spaced
  /\ line.value = <<>> \/ line.value[Len(line.value)] = Colon

(* What stands before that colon: no key begins with the last of these. *)
SectionName(line) == IF line.value = <<>> THEN line.key ELSE line.key \o ":"

FullKey(section, key) == IF section = NoText THEN key ELSE section \o "." \o key

(* Mutant of LoadConfigLine: a key that is not known ends the loading. *)
LoadConfigLineStrict(loader, line) ==
  CASE line.text = "blank" -> {loader}
    [] line.text \in {"name", "pair"} /\ OpensSection(line) ->
         {[loader EXCEPT !.section = SectionName(line)]}
    [] line.text \in {"name", "pair"} /\ ~OpensSection(line) ->
         LET key == FullKey(loader.section, line.key)
         IN  IF key \in DOMAIN Keys
               THEN {[loader EXCEPT !.config[key] = v] : v \in ReadValue(key, line)}
               ELSE {}
    [] OTHER -> {}

(* Mutant of LoadConfigLine: the first value of a key stays. *)
LoadConfigLineFirst(loader, line) ==
  CASE line.text = "blank" -> {loader}
    [] line.text \in {"name", "pair"} /\ OpensSection(line) ->
         {[loader EXCEPT !.section = SectionName(line)]}
    [] line.text \in {"name", "pair"} /\ ~OpensSection(line) ->
         LET key == FullKey(loader.section, line.key)
         IN  IF key \in DOMAIN Keys /\ loader.config[key] = Defaults[key]
               THEN {[loader EXCEPT !.config[key] = v] : v \in ReadValue(key, line)}
               ELSE {loader}
    [] OTHER -> {}

(* One line, read by a loader that holds the section it is in and the members
   as they are; no loader where it gives up.  A key that is not known is
   passed over. *)
LoadConfigLine(loader, line) ==
  CASE line.text = "blank" -> {loader}
    [] line.text \in {"name", "pair"} /\ OpensSection(line) ->
         {[loader EXCEPT !.section = SectionName(line)]}
    [] line.text \in {"name", "pair"} /\ ~OpensSection(line) ->
         LET key == FullKey(loader.section, line.key)
         IN  IF key \in DOMAIN Keys
               THEN {[loader EXCEPT !.config[key] = v] : v \in ReadValue(key, line)}
               ELSE {loader}
    [] OTHER -> {}

(* The configuration of a file (a set, as in LoadRules), or nothing. *)
LoadConfig(file) ==
  LET Read(lines) == FoldLeft(LAMBDA ls, line : UNION {LoadConfigLine(l, line) : l \in ls},
                              {[section |-> NoText, config |-> Defaults]}, lines)
  IN  {l.config : l \in UNION {Read(lines) : lines \in file}}

=============================================================================
