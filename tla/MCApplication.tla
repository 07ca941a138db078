---------------------------- MODULE MCApplication ----------------------------
(* An instance of Application for TLC. *)
EXTENDS Application, TLC

a == T("data", 1)
b == T("data", 2)
Host(n) == T("host", n)
Field(n) == T("field", n)
Get == <<T("http", 1), T("sp", 0), T("line", 1)>>
Post == <<T("http", 2), T("sp", 0), T("line", 2)>>
Answer == <<T("http", 0), T("sp", 0), T("line", 200)>>
End == <<T("end", 0)>>

(* Requests and responses of every framing, a request line without a target,
   a repeated header and a line without a colon, the length in another spelling,
   names that begin with one the code looks for, alone and beside it, a message
   the proxy has seen before, and two protocols that are not HTTP. *)
MCPayloads ==
  {Get \o <<Host(1)>> \o End,
   Get \o <<Field(1), T("line", 0), Field(2)>> \o End,
   <<T("http", 1), T("sp", 0), T("line", 0)>> \o End \o <<a>>,
   Get \o <<T("via", ProxyName), Host(3)>> \o End,
   HttpMessage(Post \o <<Host(2), Field(3)>>, <<a, b>>),
   HttpMessage(Post \o <<T("xlen", 1), T("via", 5)>>, <<a>>),
   Post \o <<T("hosthint", 2), T("lenlower", 2), Host(1)>> \o End \o <<a, b>>,
   HttpMessage(Post \o <<T("lenhint", 9)>>, <<b>>),
   Get \o <<T("lenhint", 3)>> \o End,
   HttpMessage(Answer \o <<Field(1)>>, <<b, a>>),
   Answer \o <<T("coding", 1)>> \o End,
   Answer \o End \o <<a>>,
   <<a, b>>,
   <<T("tls1", 0), T("tls2", 0), a>>}

-----------------------------------------------------------------------------

Blank == [text |-> "blank"]
Junk == [text |-> "junk"]
Name(key) == [text |-> "name", key |-> key, value |-> <<>>, number |-> {}, nested |-> FALSE, spaced |-> FALSE]
Pair(key, value) ==
  [text |-> "pair", key |-> key, value |-> value, number |-> {}, nested |-> TRUE, spaced |-> TRUE]
PairOf(key, word) == Pair(key, <<Word(word)>>)
Number(key, n) == [Pair(key, <<Digits>>) EXCEPT !.number = {n}]
AtTop(line) == [line EXCEPT !.nested = FALSE]
Spaced(line) == [line EXCEPT !.spaced = TRUE]
Tight(line) == [line EXCEPT !.spaced = FALSE]
Behind(line, text) == [line EXCEPT !.value = @ \o text]

(* A configuration without header and suffix, and one with both and with
   patches of both kinds. *)
Plain ==
  <<Name("patch"), PairOf("add_proxy_header", "false"), PairOf("append_debug_suffix", "false")>>
Patching ==
  <<Name("patch"), Pair("outbound_find", <<a>>), Pair("outbound_replace", <<b, b>>),
    PairOf("enable_hex_patch", "true"), Pair("inbound_find_hex", <<b>>)>>
NoHttp == Plain \o <<Pair("outbound_find", <<a, b>>), Name("protocol"), PairOf("enabled", "false")>>

(* What a hand may write below or above it. *)
ConfigLines ==
  {Blank, Junk, Name(""), Name("tcp"), Spaced(Name("rules")), PairOf("enabled", "false"), PairOf("enabled", "maybe"),
   PairOf("append_debug_suffix", "true"), Tight(Pair("outbound_find", <<>>)), Pair("inbound_find", <<a>>),
   Tight(Pair("inbound_find", <<a, Colon>>)), Pair("outbound_find", <<Quote, Quote>>),
   Pair("outbound_replace", <<a, Hash, b>>), Number("listen_port", 8080),
   Behind(Number("listen_port", 8081), <<Hash, a>>), Number("listen_port", 70000),
   AtTop(Number("runtime.max_runtime_seconds", -1)), AtTop(PairOf("rules.enabled", "true"))}

ConfigFiles ==
  {Plain, Patching, NoHttp}
  \cup {Plain \o lines : lines \in SeqOf(ConfigLines, 2)} \cup {lines \o Plain : lines \in SeqOf(ConfigLines, 2)}

-----------------------------------------------------------------------------

Rule(name) == [text |-> "rule", name |-> name]
Close == [text |-> "close"]
Set(key, value) == [text |-> "set", key |-> key, value |-> value]
SetHeader(name, n) == Set("header_set", [name |-> name, n |-> n])
Block(lines) == <<Rule("r")>> \o lines \o <<Close>>
Find == <<Set("text_find", <<Quote, a, Quote>>), Set("text_replace", <<a, b>>)>>

Blocks ==
  {Block(<<>>), Block(Find), Block(<<Set("body_find", <<b>>), Set("remote_port", 80)>>),
   Block(<<Set("protocol", "http"), SetHeader("field", 9), SetHeader("field", 8)>>),
   Block(<<SetHeader("coding", 1)>>),
   Block(<<SetHeader("len", 7)>>),
   Block(<<Set("protocol", "https")>> \o Find),
   Block(<<Set("process", 1)>> \o Find),
   Block(<<Set("direction", "inbound"), Set("hex_find", <<a>>), Set("hex_replace", <<b>>)>>),
   Block(<<Set("hex_find", <<a, NoDigit>>), Set("path_contains", 2)>>),
   Block(<<Set("method", 2), Set("host_contains", 2)>> \o Find),
   Block(<<Set("text_find", <<Quote, a, Hash, b, Quote>>)>>),
   Block(<<Set("text_find", <<b, Hash, a>>), Blank>>)}

Broken ==
  {<<Junk>>, <<Close>>, <<Rule("")>>, Find, <<Rule("r")>>, Block(<<Junk>>), Block(<<Rule("r")>>),
   Block(<<SetHeader("", 1)>>), Block(<<Set("remote_port", 70000)>>), Block(<<Set("colour", 1)>>)}

RuleFiles == {FlattenSeq(s) : s \in SeqOf(Blocks, 2) \cup (Blocks \X Broken) \cup (Broken \X Blocks)}

-----------------------------------------------------------------------------

Path(p) == <<Word(p)>>
Disk(cfg, ruleLines) == (Path("config/proxy.yaml") :> cfg) @@ (Path("config/rules.dsl") :> ruleLines)

Start(args, disk) == [args |-> args, disk |-> disk, trusted |-> TRUE]

(* Every configuration with one rules file, every rules file with the plain
   configuration, and the command lines. *)
MCSetups ==
  {Start(<<>>, Disk(c, Block(Find))) : c \in ConfigFiles}
  \cup {Start(<<>>, Disk(c, r)) : c \in {Plain, Patching}, r \in RuleFiles}
  \cup {Start(args, d) :
          args \in SeqOf({"--config", "--install-ca", "--uninstall-ca", "ca.crt"}, 3),
          d \in {Disk(Plain, <<>>),
                 Disk(<<Name("https_mitm"), PairOf("ca_cert_path", "ca.crt")>>, <<>>)
                   @@ (Path("ca.crt") :> <<Junk>>)}}
  \cup {Start(<<>>, Path("config/proxy.yaml") :> Plain)}

MCUpstream == [host |-> 2, port |-> 80]

MCHostOrder == <<"hosthint", "host">>

=============================================================================
