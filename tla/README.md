# A TLA+ model of NetworkProxy

NetworkProxy is a transparent TCP and UDP proxy for Windows. It captures the
traffic of a machine with WinDivert or WFP, redirects it to itself, finds the
original target of every connection and datagram in a flow table, applies
patch rules to the bytes and forwards them. HTTPS is opened with openssl child
processes and certificates made on the fly.

This directory models its parts and how they meet, checks them with TLC on small
instances, and proves the safety of the TCP session, the flow table, the
redirection, the UDP path, the life cycle, the HTTPS sessions, the certificate
cache, the loaders of the configuration and of the rules, and the patches for all
instances with TLAPS. `PROJECT.json` lists
the runs, the lines each definition stands for, the hazards and the findings.
Paths below are relative to the repository.

## 1. The system

| Component | State | Operations | Source |
|---|---|---|---|
| Proxy life cycle | `stop_requested`, WinSock, the backend, three threads | `run`: start, pick a backend, wait, clean up, join | `src/proxy/proxy_server.cpp` |
| WinDivert capture | driver handle, packet buffer | `initialize`, `run`, `rewrite_packet_to_local_proxy` | `src/capture/win_divert_capture.cpp` |
| WFP capture, redirect controller, callout bridge | engine and subscription, policy, fallback flags | `initialize`, `run`, `tick_health`, `shutdown` | `src/capture/wfp_*.cpp` |
| Flow table | map from (protocol, ip, port) to target and time of last use | `remember_mapping`, `try_get_upstream` | `src/capture/flow_table.cpp` |
| TCP proxy | listening socket, one thread per client, two pumps per client | `serve`, `handle_client`, `pump` | `src/transport/tcp_proxy_server.cpp` |
| Reassembly buffer, protocol detector | buffered bytes, protocol kind | `append`, `try_take_http_message`, `take_all`, `detect_protocol_kind` | `src/transport/tcp_reassembly_buffer.cpp`, `src/protocol/protocol_detector.cpp` |
| UDP proxy | listening socket, two shared upstream sockets | `serve` | `src/transport/udp_proxy_server.cpp` |
| HTTPS session | two openssl processes, four threads, one stop flag | `run_tls_mitm_session` | `src/tls/https_mitm_proxy.cpp`, `src/tls/openssl_process.cpp` |
| Certificate manager | files in the cache directory, the certificate store | `generate_leaf_certificate`, `install_root_ca`, `uninstall_root_ca` | `src/tls/certificate_manager.cpp` |
| Protocol manager, HTTP adapter, patch engine | the rules | `patch_payload`, `apply_patch`, `apply_*_patch` | `src/protocol`, `src/patch` |
| Rule engine | the rules | `load_from_file`, `matches`, `apply_*` | `src/rules/rule_engine.cpp` |
| Configuration | the `AppConfig` | `load_config` | `src/config/app_config.cpp` |
| Application | exit code | `parse_options`, `run` | `src/app/application.cpp`, `src/main.cpp` |
| Logger, string helpers | | | `src/logging`, `src/common` |

How they interact:

- The capture thread writes the flow table; the UDP thread and every TCP client
  thread read it. It has a mutex, but the clock is read before the mutex is taken.
- The capture thread, `TcpProxyServer::serve`, `UdpProxyServer::serve` and `run`
  share `stop_requested`; each may set it, and each tests it once per turn.
- The two pumps of a TCP client share both sockets. The end of one direction
  shuts both sockets down; `handle_client` closes them after it has joined both.
- A pump cuts its stream into messages and hands each to the protocol manager;
  if no adapter changes it, the patch engine's transport patch has its turn. The
  UDP loop and the HTTPS session's plaintext threads call the same two.
- `WSACleanup` is called while the server threads still run.
- The UDP loop serves all clients with one socket per address family.
- The four threads of an HTTPS session end one another through a flag, two
  sockets, and the pipes and the death of two processes.
- The certificate cache is files on disk, shared by all sessions without a lock;
  so are the local ports their `s_server` processes listen on.
- `Application::run` loads the configuration, then the rules the configuration
  names, and runs the proxy with both.

What is hard, and what makes each part right:

| Part | Hard because of | Right when |
|---|---|---|
| TCP session | two pumps on two sockets, partial `recv` and `send`, six early returns | it is a pair of pipes that patch; sockets are released once, after their last use; a stream is forwarded to its end; a close ends the session |
| HTTP framing and patching | messages cut anywhere by `recv`, bodies that change their length | a patch sees one whole message, and the receiver finds as many messages as were sent |
| Flow table | a stale clock, pruning | fresh mappings survive; a lookup answers with the latest target, inside the lifetime |
| Redirection | packets that overtake one another, expiry, byte order, address text, the proxy's own packets | the target of every redirected packet is found again |
| UDP proxy | one socket for all clients that anybody may send to, a one-second timeout, one mapping per port, which runs out while datagrams wait | a datagram goes to its own target, an answer to its requester, `stop` ends the loop |
| Life cycle | failures in the middle of the start, cleanup under running threads | everything is released, all threads end, the fallback happens |
| HTTPS session | what a thread waits for is ended by another thread | one end ends all; nothing is left behind; a session reaches its own `s_server` |
| Certificate cache | concurrent sessions, commands that fail, leave a file half written or outlive the proxy, restarts | the certificate belongs to the key |
| Configuration, rules | line by line loaders with a state between lines, give-ups in the middle | what the files say is in force, or the start is refused for a cause |

## 2. Modules

| Module | Models | Used by |
|---|---|---|
| `HttpFraming` | the detector, `try_take_http_message` and `parse_connect_authority`, as operators over tokens | `TcpSession`, `TextValues` |
| `TcpSession` | `handle_client`, both pumps, both peers | `MCTcpSession`, `MCTcpTunnel`, `TcpSessionProofs` |
| `PatchedPipes` | abstract specification of a client session | `TcpSession` (refinement) |
| `TextValues` | comments, quotes, numbers, replacement, hexadecimal text, merging functions (`++`) | `RuleEngine`, `AppConfig` |
| `RuleEngine` | the rules file, matching, the three ways of applying rules | `HttpPatching` |
| `HttpPatching` | protocol manager, HTTP adapter, patch engine, and their three callers | `Application`, `MCTcpTunnel` |
| `AppConfig` | `load_config` | `Application` |
| `Application` | command line, start, exit codes, patching under what was loaded | `MCApplication`, `ApplicationProofs` |
| `FlowTable` | the table and its callers | `WinDivertCapture` |
| `WinDivertCapture` | the capture thread and the servers' lookups, around the table | `MCWinDivertCapture`, `RedirectionLoop`, `RedirectionProofs` |
| `RedirectionLoop` | the same with what the proxy itself sends | `MCRedirectionLoop` |
| `UdpProxy` | redirection of datagrams, `serve`, clients and servers | `MCUdpProxy`, `UdpProxyProofs` |
| `ProxyServer` | `run`, both capture backends, the life of the server and client threads | `MCProxyServer`, `ProxyServerProofs` |
| `MitmSession` | `run_tls_mitm_session`, `OpenSslProcess` | run directly; `MitmSessionProofs` |
| `LeafCertificates` | `generate_leaf_certificate` and its files | `TlsTerminators` |
| `TlsTerminators` | the sessions for one host with the cache and the ports they share | `MCTlsTerminators`, `TlsTerminatorsProofs` |
| `TcpSessionProofs`, `TcpRefinementProofs`, `RedirectionProofs`, `UdpProxyProofs`, `ProxyServerProofs`, `MitmSessionProofs`, `TlsTerminatorsProofs`, `ApplicationProofs` | the proofs | |

The `MC` modules give values to constants; `MCTcpTunnel` also puts the real
patches of `HttpPatching` into the place of the constant `Patch` of `TcpSession`
and states what is to hold of the two together. Definitions whose comment begins
with "Mutant of" are faulty variants of the definition after them. No specification
uses them: they record, for every property, a slip in the code that the
property would catch.

Five compositions:

- `MCTcpTunnel`: `TcpSession` cuts the streams, `HttpPatching` rewrites the pieces.
- `WinDivertCapture` EXTENDS `FlowTable`: the capture thread remembers, the
  servers' threads look up, each in two steps around the mutex.
- `RedirectionLoop` EXTENDS `WinDivertCapture`: what a worker forwards is itself
  an outbound packet that the capture thread takes.
- `TlsTerminators` EXTENDS `LeafCertificates`: the sessions run the steps of the
  certificate manager and go on to the ports.
- `Application` EXTENDS `AppConfig` and `HttpPatching` (with `RuleEngine`): what
  the loaders make of the files is what the patches work with.

### HttpFraming, TcpSession, PatchedPipes

A byte stream is a sequence of tokens. A token stands for a run of bytes the
code tells apart: the letters of a method, a space, the rest of a line, a header
line, the blank line after a head, a `Content-Length` with its value, a TLS record's
first two bytes, a byte of data. `recv` may cut the stream between any two of
them. `header_end + 4 + content_length` wraps at `SizeModulus`, the stand-in
for 2^64. The names of header lines that some search in the code finds by a part of
them are tokens of their own. `xlen` is a line whose name ends in
`-Content-Length`: the buffer takes it for the length, the adapter does not.
`lenlower` is `content-length`, which every receiver takes for the length (`Lengths`)
and which is another name than `Content-Length` to the adapter's map. `lenhint` and
`hosthint` are names that begin with `Content-Length` and with `Host`, which the
adapter finds by their beginning.

`pc` is where `handle_client` is, `ppc[d]` where the pump of direction `d` is,
Each early return has its action, the socket that could be made but not connected
included (`MakeUpstream`, `Connect`, `FailWithUpstream`).
`buf`, `kind` and `decided` are the pump's locals, `pend` is the rest that
`send_all` still has to send. A peer writes its `Script` token by token, may
half-close (`PeerClose`), stop reading or reset (`PeerFail`). A `recv` that
times out is a `continue` in the code and changes nothing, so it is no action;
a `send` that times out fails (`PumpSendFail`). The end of a pump is two steps,
since `shutdown_socket_pair` shuts one socket and then the other and the second
pump may run in between. `tunnel` says
whether the client has sent CONNECT and what the configuration makes of it: a
man in the middle, the plaintext test mode, or a tunnel forwarded like any other
stream. `Patch` is a constant operator: every theorem holds
for any patch that turns bytes into bytes. `skipped`, `taken` and `emitted` are
history variables.

`PatchedPipes` says what a session promises without sockets, buffers or threads:
in each direction what is written is taken out in order, in pieces, each piece is
patched once, and the results are delivered in order. A session may swallow the
beginning of the client's stream, and then greets it. `ImplementsPipes` maps the
session to it: what lies in a socket's queue and in the pump's buffer is one
`todo`, what `send` accepted is `given`, and `Opening` reads off `pc` and
`tunnel` whether the greeting is still to come.

### TextValues, RuleEngine, HttpPatching

Text is trimmed and, where the code compares without case, lowered before anything
looks at it, so one value stands for all its spellings. Values that are compared
as a whole (protocol, host, path) are numbers, 0 for the empty one, of which none
contains another; values that go into payloads are sequences of tokens, with `#`,
`"`, `:` and a digit that is none as tokens of their own. A word of which no byte
matters (`true`, a host name, the digits of a number) is one token.

`LoadRules` folds `LoadRuleLine` over the lines; a loader is the rules so far and
the block that is open, and a step gives a set of at most one loader, empty where
the code returns false. `ApplyTransport` and `ApplyHttp` are the rules applied to
bytes and to a message.

`PatchAndSend` is what the TCP pump and the UDP loop do with a payload,
`PatchHttpsPlaintext` what an HTTPS session does. `ApplyPatch` parses a head into a
map of headers, which is where repeated headers and lines without a colon are
lost, patches, and rebuilds it. The map tells spellings of one name apart, and what
is written out of it does not: every name that begins with `Content-Length`
(`LengthNames`) becomes a line with the length of the body, and only if there is
none one is added (`HeaderLines`, `LengthLine`). The host of the rules is the value
of the first name in the map that begins with `Host`; which of two comes first is
the constant `HostOrder`. The order in which an `unordered_map` is written out is
one fixed order here; no property depends on it.

### AppConfig, Application

`Keys` gives every key of the configuration its kind and default. The loader sees lines.
One that ends in a colon and has no space in it opens a section, whether or not it is
indented and whatever stands before that colon (`OpensSection`, `SectionName`), and the
section stays open until the next one. A value is what stands behind the colon, with its
quotes and with what its writer meant as a comment. `Setups` are the command line, the
files and the state of the certificate store; `Application` starts from each, takes the
steps of `run`, and, when it serves, patches any payload at any of the three places.
What `ProxyServer::run` does there is the subject of the other modules. `MeantValue` and
`MeantRule` are what a person reads in the files, written without reference to the
loaders' state: for every key the last line that is about it, quotes taken off and
comments cut (`MeantBytes`).

### FlowTable, WinDivertCapture

An operation on the table is two steps: `CallRemember` and `CallLookup` read the
clock, `Remember`, `LookupHit` and `LookupMiss` are the sections under the mutex.
`MaxSkew` bounds the time between the two. `lastUse` and `latest` are history.

An IPv4 address is its four bytes in memory, so that the byte order of a constant and
`htonl` can be told apart; an IPv6 address is a value. `Receive` is `WinDivertRecv` with
the decision to redirect, `Rewrite` the mapping entering the table, `Send` hands the
packet to the stack, which gives it to the proxy if it is addressed to it: a redirected
IPv4 packet goes to 1.0.0.127, since `htonl` swaps a constant that is in network order
already. A worker (the UDP thread, a client's thread) takes a packet and looks its
sender up (`Lookup`, `Answer`). A dual-stack socket shows an IPv4 sender as
`::ffff:a.b.c.d` (`SenderKey`). `overtaken` is history: the waiting packets whose sender
has been redirected to another target since.

`RedirectionLoop` adds `wire`, what the proxy has sent to the targets its lookups
found (`AnswerForward`), and lets the capture thread take that too (`Capturing`), as
the filter of `config/proxy.yaml` does.

### UdpProxy

One datagram is an identity with its sender. `ClientSend` includes what
WinDivert does to it: the mapping of the sender is overwritten, and its time. `serve` is
split where it blocks: `Receive` (with the lookup), `Forward`, `ReceiveReply` or
`NoReply` (the timeout and every other failure of `recvfrom`), `SendReply`. The table
is the mapping and the time of last use of each client; `Lookup` erases an entry that
has expired and renews one that has not, and `Tick` lets time pass anywhere, while
datagrams wait in the queue and while `serve` waits for an answer. That the
clock is read before the mutex is taken is the subject of `WinDivertCapture`.

What comes to the sockets upstream is not under the code's control, as it compares
`upstream_sender` with nothing: a target may answer a request at any time, any
number of times or never (`ServerReply`), and anybody else may send, too (`Stray`).
What has come waits in the queue of that socket until somebody calls `recvfrom` on
it. `clean` is history: the socket was empty when the datagram of this turn was
forwarded, and what came first is an answer to it.

### ProxyServer

`config` ranges over all combinations of the flags the life cycle reads. `pc`
follows `run` through its early returns, the spawning of the threads, the wait,
`WSACleanup` and then the joins in the reverse order of declaration, and the
destructors. The server threads are modelled by their setup, their turns and
their joins. `live` counts client threads waiting on their peers, `stuck` those
whose pump spins on an unfinished message (see `tcp_split` below). Whether the
receive timeout applies to `accept` is left open: it may return without a client
at any time, and fairness forces it to only once WinSock is gone.

### MitmSession

The four threads of a session test the flag, wait to read, write. What ends a
wait is modelled, the bytes are not. `StopProcess` is `stop` where no other
thread is there; at the end of a session it is `CloseStdin`, `CloseStdout` and
`Terminate`, since the plaintext threads come between. Whether `CloseHandle` on a
pipe waits for a read that another thread has under way on it is left open: the
step may be taken at once, and fairness forces it only when the pipe is not in
use (`PipeInUse`).

### LeafCertificates, TlsTerminators

The files of one host. Their contents are which call's key they are or belong
to, or `Torn`: there, and empty or cut short. The openssl commands are processes of
their own (`cmd`): `openssl req` opens the key file, which truncates it, writes it,
and writes the request; `openssl x509` reads whatever request is there, opens the
certificate, and writes it. A command may fail or be killed between any two of these
(`CommandFails`), and what it had opened stays as it is. The proxy may end and
start again anywhere (`Restart`); the files stay and the commands go on. Where a
session waits for a command in `std::system`, the end of the command takes it
further (`Resume`). `alone` (no two calls have generated at once, a command that has
outlived its call included) and `broken` (a command has ended with the certificate
half written) are history.

In `TlsTerminators` a session asks for its certificate, finds a free port by
binding and closing a probe socket, starts an `s_server` on it and connects to
whoever listens there. The processes and other programs bind and let go of ports
on their own; an `s_server` may outlive the proxy.

## 3. Runs

Passing runs:

| Run | Instance | Shows |
|---|---|---|
| `tcp_raw` | 3 and 2 bytes of an unknown protocol, stalls, resets and half-closes, fairness | `ImplementsPipes`, `FlushUnreachable`, `EventuallyForwarded`, `SessionEnds` |
| `tcp_tunnel` | CONNECT in its three modes, two pipelined requests, an answer, resets, the real patches with a rule that lengthens bodies | `StreamIntegrity`, `SocketsReleased`, `WholeMessages`, `MessagesArrive`, `CutsAreTheStreams` |
| `redirection` | 9 packets of all kinds, the capture thread and one worker, real expiry and pruning | `TransparentTarget`, `LookupWindow`, `FreshKept`, `OverflowIsFresh` |
| `udp_proxy` | 2 clients, one with two targets, one with a target that also addresses the proxy, 2 servers and the fixed one, 2 datagrams, any answers and stray datagrams, expiry, fairness | `OriginalTarget`, `UndisturbedReply`, `OnceInOrder`, `Stops` |
| `proxy_server` | every capture configuration and every server configuration, 2 clients, fairness | `Released`, `HandlesOutliveThread`, `RuntimeFallbackUnreachable`, `ShutdownCompletes`, `ServerFailureStops` |
| `mitm_session` | one session, fairness | `NothingLeft`, `OneEndsAll` |
| `tls_terminators` | 2 sessions for one host, 2 calls each, a port, commands that fail, are killed or outlive the proxy, restarts, other programs | `OkMeansPair`, `CacheStays`, `OwnServer` |
| `application` | all configuration files of up to two lines before or after a base, all rules files of up to two blocks, intact and broken, command lines of up to three words; 14 payloads at three places | `ConfigAsWritten`, `RulesAsWritten`, `RefusedForCause`, `FramingKept`, `HeadersKept`, `UntouchedUnlessHit` |

Each but `tcp_raw` and `tcp_tunnel`, whose types section 4 proves, also checks the type
invariant of its modules.

Runs in which the code does not do what the repository says:

| Run | Property | What happens |
|---|---|---|
| `tcp_split` | `EventuallyForwarded` | `recv` is called only with an empty buffer. A request that arrives in two reads stays in the buffer, and the pump spins |
| `udp_late` | `ReplyToRequester` | an answer after the timeout, a second answer, or what anybody sends to the upstream port goes to the next client |
| `windivert_loop` | `ForwardsReachTarget` | the datagram that the proxy forwards is captured and redirected to the proxy |
| `proxy_fallback` | `FallbackHonoured` | the fallback that WFP requests is read by nobody |

The quotations are in `PROJECT.json` under `findings`. Three more disagreements are in
the models without a run of their own: redirected IPv4 packets go to 1.0.0.127
(`Rewrite`; the comment at `win_divert_capture.cpp:56` says 127.0.0.1), a text written
`""`, as in `config/proxy.yaml:52-55`, is two quote characters (`ReadValue`), and a rule
for protocol `https`, which `config/rules.dsl:4` offers, applies to nothing
(`PatchHttpsPlaintext`).

Some properties name the exceptions that the code has:

- `ShutdownCompletes`: the shutdown waits for a pump that spins on an unfinished
  message, and for `WinDivertRecv` when no packet comes.
- `OneEndsAll`: a `CloseHandle` that waits for a read of a living process keeps
  the session, since the process is terminated only afterwards.
- `OriginalTarget`: a client that talks to two servers from one port has a
  datagram that waits in the queue sent to the server it addressed later, since
  the table has one mapping for a port; for the same reason a datagram to the
  proxy's own port goes to the server its port was redirected to before. A
  datagram of a port that has not used its mapping for the lifetime, because it
  waited in the queue behind unanswered ones for example, goes to the configured target.
- `UndisturbedReply`: the client whose datagram was forwarded while something was
  left on the socket, or was followed by another datagram before its answer, may get
  what is not for it (`clean`); `udp_late` shows it.
- `TransparentTarget`: the same, for a packet that has been overtaken; a packet
  that waits longer than the lifetime finds nothing; and a packet that was
  addressed to the proxy itself, or comes over IPv4 to a dual-stack socket, finds a
  mapping only if it is mistaken for one of a conversation that is not over.
- `OkMeansPair`: two sessions that generate the same host's certificate at the
  same time may leave a certificate that does not belong to the key; and an
  `openssl x509` that is stopped, or looked at, between opening the certificate and
  writing it leaves an empty one (`HalfWritten`), which `exists` takes for a
  certificate. `CacheStays` says that what is left stays.
- `OwnServer`: a session is connected to another `s_server`, or to another program,
  when that has bound the port since the probe.
- `SessionEnds`: a pump that spins on a part of an HTTP message calls `recv` no more
  and never sees the close (`Spins`), its own peer's or the other's; `tcp_split` shows
  such a pump, the streams of `tcp_raw` have none. And a client that only closes its
  writing side ends the session, and with it the response.
- `ConfigAsWritten`: of a section without a name or with a space in front of its
  colon, of a pair without a value or with a colon at its end and no space in it, and of
  a key at the top below a section the loader makes something else than a reader
  (`Tidy`). So it does of single values (`PlainValue`): quotes and comments
  stay in a text, and a number may be negative or have something behind it. The
  shipped files have such values.
- `RulesAsWritten`: the loader of the rules takes a `#` between quotes and a negative
  port otherwise (`PlainValues`).
- `FramingKept`: every length that the adapter writes is that of the body, but a
  message is whole only if what came was, if no rule sets a `Transfer-Encoding`, which
  would stand beside the length, and if message and rules together have at most
  one name that begins with `Content-Length`: two of them make two lines. The
  transport patch may change the length of a body and leave its `Content-Length`, and
  a message without a length, or a chunked one, is given one.
- `HeadersKept`: of repeated headers one is left, lines without a colon vanish, and a
  name that begins with `Content-Length`, alone or not, becomes the length of the body.
- `UntouchedUnlessHit`: a payload is hit if what a rule for any protocol looks for is in
  it, one for `https` included, though the code applies no such rule.
- `WholeMessages`: for a source that writes a stream of messages (`HttpPeers`). A head
  with a line that ends in `-Content-Length`, with two lengths, or with one that wraps
  makes the stream none (`IsMessage`).

### Bounds

- Scripts of `tcp_raw` and `tcp_tunnel` are long enough that a stream needs more
  than one `recv`, a payload more than one `send`, and both directions overlap;
  buffers keep the order of the source (4096 <= 8192 <= 8192). In `tcp_tunnel` a
  read can hold one message and part of the next, or two, and can end inside the
  CONNECT request or behind it. 148,000 and 7.3 million states.
- `redirection`: the clock runs for two lifetimes, so an entry can expire, be
  pruned, and come back; a capacity of 1 with two senders reaches the pruning; a
  skew of 1 lets an operation work with a time that has passed; one waiting
  packet and one worker let a packet be overtaken both in the queue and during
  its lookup. More threads are covered by the proofs. 723,000 states.
- `udp_proxy`: two datagrams let a late answer, a second one or a stray datagram meet
  the turn of another client, and two queued datagrams of one port
  expire, be renewed by the first of them, or go to a target that the second has set; a
  clock of twice the lifetime lets an entry expire after it was renewed. The properties
  but `Stops` are proved for any number of datagrams. 748,000 states.
- `proxy_server`: two clients make the joins of `serve` meet one live and one stuck
  client.
- `tls_terminators`: two calls let a session fail, generate, or be ended by a restart and
  then find what is in the cache, while a command of the call before is still there; two
  sessions, with an `s_server` each, and other programs compete for one port.
  Sessions are interchangeable, and the run uses that. 3.5 million states.
- `application`: two lines around a base reach every pair of line kinds in either
  order, two blocks every carry-over from one to the next. 293,000 states.

Every run is checked for deadlock. Where the program really waits for something
outside, or has ended, the models say so with an action of its own (`Waits`,
`Finished`, `Exited`).

### Fairness

- Every thread of the proxy is scheduled (weak fairness of its steps). No socket
  call of a pump, of the UDP loop or of a relay's client side blocks longer than
  the timeouts the code sets, so a step that is enabled stays so and is taken.
- A peer writes on unless it closes (`PeerWrite`); nothing else of a peer is fair.
- In `UdpProxy` nothing is assumed of clients and servers, nor of the clock.
- In `ProxyServer` a client thread ends, and `accept` returns, once WinSock is
  gone; before that nothing is assumed of them. Nothing is assumed of
  `WinDivertRecv`, which has no timeout.
- In `MitmSession` a wait ends only through what the code itself does:
  `ReadReturns` and `WriteReturns` list it. No process is assumed to exit, and
  `CloseHandle` is assumed to return only when the pipe is not in use.

## 4. Proofs

`TcpSessionProofs`: for every script, buffer size, patch, set of tunnel
modes and set of faults,

- `TypeCorrect`: `Spec => []TypeOK`;
- `Integrity`: `Spec => []StreamIntegrity`;
- `Release`: `Spec => []SocketsReleased`;
- `FlushIsDead`: `Spec => []FlushUnreachable`;
- `CutsHold`: `Spec => CutsAreTheStreams`, what a pump takes as HTTP is the message
  that the whole stream has at that place, for malformed streams too;
- `MessagesStayWhole`: `Spec => []WholeMessages`, a pump of a stream of messages is
  between two of them whenever it has taken something as HTTP.

The inductive invariant is `FlowInv == TypeOK /\ StreamIntegrity /\ ControlInv`.
`StreamIntegrity` alone is not inductive: that `InitialRecv` may start the outbound
history afresh needs that nothing was taken yet, that `PumpTake` may overwrite `pend`
needs that it is empty outside `send_all`, and that `CloseBoth` is safe needs that both
pumps are over. `ControlInv` says so. Each action is a lemma that rests on a few facts
about cutting and joining sequences (`CutSeq`, `MoveToEnd`, `GrowPrefix`). `FlushIsDead`
adds `OneRecv`: a buffer is never longer than one read. `CutsHold` needs both: the
buffer is a prefix of what is left of the stream (`BufferIsNext`), a message that is
whole in a prefix is the first of the stream (`MessageOfPart`, from what a search in a
prefix finds, `FirstOfPart`), and the flush that would take half a message is dead.
`MessagesStayWhole` needs all of this and `MessageInv`, which adds that a pump that has
not begun has decided nothing. Where the buffer shows HTTP the stream does, so the pump
is at a start (`StartOfBuffer`); what the buffer takes there has the length its sender
gave it (`LengthOfMessage`), so the pump comes to an end (`NextEnd`). The reference
`OfMessages` speaks of where messages begin and end in a stream and not of a list of
them; `ClientWritesMessages` has TLC compare the two. The assumptions are
`ConstantsAssumption` (types), `CapacityAssumption` (the order of the three sizes, only
from `FlushIsDead` on), `SizeModulusAssumption` and `PatchAssumption` (a patch returns
bytes).

`TcpRefinementProofs`: `Implements`, `Spec => ImplementsPipes`, under the same
assumptions. Initial states map to initial states (`InitPipes`), and each action to
an action of the pipes or to a stutter: `PeerWrite` to `Write`, `InitialRecv` to
`Pass` or `Swallow`, the reply of a tunnel to `Greet`, a take of a pump to `Take`,
`PumpSend` to `Deliver`, everything else to a stutter. The invariant is
`PipesInv == FlowInv /\ OpeningInv`; `OpeningInv` says that a greeting precedes the
pumps and nothing precedes a greeting, without which a session might greet twice.
`Swallow` and `Greet` occur in the proof only: the script of `tcp_raw` has no
CONNECT, and in `tcp_tunnel` the refinement is too large to check.

`RedirectionProofs`, the table: for every number of threads, keys and targets, every
lifetime, capacity and skew,

- `TypeCorrect`: `Spec => []TypeOK`;
- `TracksUse`: `Spec => []TouchedTracksUse`;
- `KeepsFresh`: `Spec => []FreshKept`;
- `LookupInWindow`: `Spec => LookupWindow`, an action property;
- `OverflowFresh`: `Spec => OverflowIsFresh`, an action property.

The inductive invariant `TableInv` has three parts beside the types and
`FreshKept`: `touched_millis` is late by at most `MaxSkew` (`TouchedTracksUse`), a
call under way has sampled the clock at most `MaxSkew` ago (`OpsRecent`), and an
entry of the table has been used and holds the target remembered last
(`EntriesUsed`). The clock of the model is bounded by `MaxClock`, which may be any
number. The assumption is `ParametersAssumption`.

`RedirectionProofs`, the capture: for any packets, ports, listening family, number of
threads and waiting packets,

- `CaptureUsesTable`: `CaptureSpec => Spec`. The capture and the servers use the
  table as `FlowTable` allows, so all of the above holds of the redirection;
- `RedirectionTypeCorrect`: `CaptureSpec => []RedirectionTypeOK`;
- `FindsTarget`: `CaptureSpec => TransparentTarget`, an action property.

The inductive invariant is `TableInv /\ CaptureInv`. What `FindsTarget` needs beyond
the table's answer (`AnswerInWindow`) is that the call a worker is in is about the
packet it holds (`CallsInv`) and that every redirected packet that waits has a
mapping, the latest of which is its own unless it has been overtaken
(`TargetsInv`). The assumptions are `CaptureAssumption` (types) and `KeysAssumption`
(the table has room for every sender and target).

`UdpProxyProofs`: for any clients, servers, addresses, families, number of
datagrams, lifetime and clock,

- `TypeCorrect`: `Spec => []TypeOK`;
- `TargetsAreOriginal`: `Spec => []OriginalTarget`;
- `ForwardedOnceInOrder`: `Spec => OnceInOrder`, an action property;
- `UndisturbedReachRequester`: `Spec => []UndisturbedReply`. Without `clean` it would be
  `ReplyToRequester`, which is false, as `udp_late` shows.

The inductive invariant `UdpInv` says of the table that it has a client's last
redirected datagram, with a time that no use of the mapping is later than, or that
the last use is longer ago than the lifetime (`FlowInv`); of the queue that its
datagrams are in the order they were sent in and younger than what was forwarded
(`QueueInv`); of the datagram in hand that it may go where it is about to go
(`TurnInv`), and of what was forwarded that it might (`RoutedInv`); and of an undisturbed
wait that what is first on the socket is the answer (`CleanInv`). `OriginalTarget`
alone is not inductive: a lookup happens between the datagram's arrival and its
forwarding, and the table may change before and after. The assumption is
`ParametersAssumption` (types, and that `None` is no client and no target).

`ProxyServerProofs`: for every set of configurations and number of clients,

- `TypeCorrect`: `Spec => []TypeOK`;
- `AllReleased`: `Spec => []Released`;
- `HandlesOutlive`: `Spec => []HandlesOutliveThread`;
- `RuntimeFallbackDead`: `Spec => []RuntimeFallbackUnreachable`;
- `EndIsTold`: `Spec => []StopInv`: nothing fails, ends or is joined without
  `stop_requested` set.

The inductive invariant `ServerInv` ties `pc` to the threads that can exist
(`ThreadsInv`), the client threads to the accept loop that joins them (`ClientsInv`),
the active backend to its handles and the capture thread to the backend
(`BackendInv`), and the redirect controller's flags to one another
(`RedirectInv`): an unhealthy controller of an initialized capture has asked for the
fallback at the start, so that the loop never does.

`MitmSessionProofs`, without any assumption:

- `TypeCorrect`: `Spec => []TypeOK`;
- `NothingLeftBehind`: `Spec => []NothingLeft`;
- `JoinWaits`: `Spec => []JoinWaitsForNoPeer`: at the joins every read or write that
  a thread is still in has been ended by the shutdown. It is the safety half of
  `OneEndsAll`; the other half, that the threads are then scheduled, is liveness.

`SessionInv` adds what each step of the calling thread has ended so far
(`ProcessesEnd`): the threads may close a `stdin`, but nobody opens a pipe or
starts a process again.

`TlsTerminatorsProofs`: for any number of sessions, calls and ports,

- `SessionsUseCache`: `SetupSpec => Spec` (of `LeafCertificates`). So the cache is
  proved about by itself (`LeafInvariant`, `OkMeansPairHolds`, `CacheIsSettled`), and
  `SessionsOkMeansPair` and `SessionsCacheStays` carry the results over;
- `SetupTypeCorrect`: `SetupSpec => []SetupTypeOK`;
- `OwnServerHolds`: `SetupSpec => []OwnServer`.

For `OkMeansPair` the invariant `LeafInv` has to say what half-made files can be there.
A call whose command runs has been made (`CalledInv`), and the key is there when the
certificate is or is being made (`FilesInv`). As long as sessions generate one at a time
(`AloneInv`) there is at most one call with a command or a generating session
(`OneInv`); what it has reached says which files are torn, and that the request and then
the certificate are for the key on disk (`StagesInv`); and a certificate that is there
is for a whole key or half written (`PairInv`), failures, kills, restarts and surviving
commands at any point included. For `OwnServer` it is that whoever listens on a
session's port, other than its own `s_server`, has come after the probe (`PortsInv`).
The assumptions are that the names of files, ports and programs differ from those of
sessions (`FilesAssumption`, `NamesAssumption`) and that `MaxCalls` is a number
(`CallsAssumption`).

`ApplicationProofs`: for any command lines, any files and any payloads,

- `ConfigHolds`: `Spec => []ConfigAsWritten`;
- `RulesHold`: `Spec => []RulesAsWritten`;
- `RefusalHolds`: `Spec => RefusedForCause`, an action property;
- `QuietPasses`: `Spec => []UntouchedUnlessHit`;
- `FramingHolds`: `Spec => []FramingKept`;
- `HeadersHold`: `Spec => []HeadersKept`;
- `TypesHold`: `Spec => []TypeOK`.

A loader is a fold over the lines of a file. The prover cannot do an induction on
what a fold computes, so the fold is unfolded first: `FoldExists` shows, by looking
for the smallest length without one, that there is a function from sets of lines to
loaders that satisfies the equation the library gives of a fold, and `ConfigSteps`
and `RuleSteps` take from it a sequence `after` of which `after[i]` is what the loader
is behind line `i`. The rest goes from line to line (`UpTo`): the loader behind line
`i` holds what a reader of the first `i` lines holds, for every key whose last line
has a plain value (`LoaderMeant`, `LoadedAsMeant`, `RulesMeant`). For
the rules this must speak of the block that is open too: that it is the block
which `Opened` finds, with the values of its lines so far and none of the block
before. `RefusalHolds` has to go the other way: a well-formed file leaves a loader
behind every line (`WellFormedIsLoaded`). The invariant `AppInv` carries what was
loaded to the states in which it is used.

The patches are folds too, over the rules (`TransportSteps`, `HttpSteps`) and over the
lines of a head (`HeaderSteps`), and `ReplaceEvery` is a recursive function of the
position, which `RestExists` shows to be well defined from the end of the bytes to the
front. The invariant `ServeInv` says that what is on its way was patched under the rules
and the configuration in force, at one of the three places (`IsPatched`). `QuietPasses`
needs that no rule that matches finds anything in the bytes, nor in the body alone
(`BytesFound`), so that the adapter finds nothing to rebuild (`QuietHttp`) and the
transport patch nothing to replace (`QuietTransport`). For `FramingHolds` and
`HeadersHold` the two ends are taken apart: `HeadersParsed` is what the map that was
read has of the head; `PatchKeepsHeaders` that the patches leave in it whatever no rule
sets; `RebuiltIs` that what is written out of it has each of its headers once, every
Content-Length with the length of the body, one of them if one name in the map begins
so, and the first end of a head where the body begins (`LinesRebuilt`). `StartLine` is
why the start line has no part in this: nothing before the end of the first line is a
header. `TypesHold` carries the types of the configuration through the loader
(`LineFits`, by the section a key may be read in).

The assumptions are `FilesAssumption` (a file is a sequence of lines, a value has the
kind its key asks for, the texts of the patches are bytes), `PayloadsAssumption` (in
the head of a payload a header line begins where another line ends), `PortsAssumption`,
`NumberAssumption` and `HostOrderAssumption`.

Each inductive invariant was checked by TLC on the instances of section 3, or for
`ApplicationProofs` on smaller ones, before it was proved.

Only model-checked: all liveness properties (`EventuallyForwarded`, `SessionEnds`,
`Stops`, `ShutdownCompletes`, `ServerFailureStops`, `OneEndsAll`), since the prover
does not handle fairness; and `MessagesArrive`, which counts the messages in a whole
stream by a recursive function of it and would take an induction over its pieces. It
is also a property of the configuration in `MCTcpTunnel`: a transport patch that
changes lengths breaks it. Two facts it rests on are proved for every instance: what a
pump patches begins and ends between two messages (`MessagesStayWhole`), and a whole
message that the adapter changes stays whole (`FramingHolds`).

## 5. Not modelled

- Logger: output under a mutex on which nothing depends.
- Trimming, lower case, and spellings: below the values of `TextValues`.
- `try_extract_sni_from_client_hello`: nothing calls it.
- Names that are resolved: `resolve_endpoint` succeeds or fails.
- Two threads in `close_handle` on one handle: a close is one step of `MitmSession`.
- The handles that a child process inherits beside its own.
- Which packets match the filter: that is the driver's. The filter of
  `config/proxy.yaml`, like the default `ip and (tcp or udp)`, matches the proxy's
  own packets, and nothing in the code exempts them: `RedirectionLoop` shows what
  becomes of one, and the other modules have the capture take the clients' packets only.
- Replies to redirected packets: no code rewrites their source address back.
- A `Content-Length` near 2^64: the model wraps as the code does, but no script has one.

## 6. Plan

Done, in this order: `HttpFraming` and `TcpSession` with their proofs; `FlowTable` with
its proofs; `UdpProxy`; `WinDivertCapture`; `ProxyServer`; `MitmSession`;
`LeafCertificates`; then `TextValues`, `RuleEngine`, `HttpPatching`, `AppConfig` and
`Application`; `PatchedPipes` with the refinement and its proof; the compositions
`MCTcpTunnel`, `WinDivertCapture` with `FlowTable`, `RedirectionLoop`, and
`TlsTerminators`; the proofs about the redirection; the proofs about `UdpProxy`,
`ProxyServer`, `MitmSession` and `TlsTerminators`; `MessagesStayWhole`; the proofs about
`Application`, the loaders first and then the patches.

Next:

1. `MessagesArrive` from `MessagesStayWhole` and `FramingHolds`, as a theorem about every
   configuration whose transport patch leaves lengths alone.
2. A sender that lies about its `Content-Length`, and what a wrapped length makes of
   its stream.
3. `close_handle` in two steps; the inherited handles of two HTTPS sessions.
