----------------------------- MODULE ProxyServer -----------------------------
(***************************************************************************)
(* ProxyServer::run: how the proxy starts, which capture backend it picks, *)
(* how its threads share stop_requested, and how it shuts down.  The       *)
(* capture, TCP and UDP threads are modelled by what their life cycle has  *)
(* to do with the others; TcpSession and UdpProxy model what they forward. *)
(*                                                                         *)
(* run ends with WSACleanup while the threads still run: every later       *)
(* socket call of theirs fails.  The std::jthread variables then join the  *)
(* threads in the reverse order of their declaration, and only after that  *)
(* do the capture objects' destructors run.                                *)
(***************************************************************************)
EXTENDS Naturals

CONSTANTS
  Configs,          \* the configurations to start from
  MaxClients        \* bound on the client connections, for TLC

(* AppConfig, as far as the life cycle reads it.  channel and filter tell
   whether wfp_callout_channel and wfp_redirect_filter are non-empty, timed
   whether max_runtime_seconds is non-zero. *)
Config ==
  [dry_run : BOOLEAN, capture_enabled : BOOLEAN, use_wfp : BOOLEAN,
   use_windivert : BOOLEAN, redirect_enabled : BOOLEAN,
   allow_startup_fallback : BOOLEAN, allow_runtime_fallback : BOOLEAN,
   channel : BOOLEAN, filter : BOOLEAN,
   tcp_enabled : BOOLEAN, udp_enabled : BOOLEAN, timed : BOOLEAN]

ASSUME ParametersAssumption ==
  /\ Configs \subseteq Config
  /\ MaxClients \in Nat

VARIABLES
  config,     \* config_
  pc,         \* where run is
  result,     \* what run returns, once pc is past its return
  stop,       \* stop_requested
  winsock,    \* WSAStartup without its WSACleanup
  backend,    \* active_capture_backend
  wfp,        \* WfpCapture with its WfpRedirectController and callout bridge
  divert,     \* WinDivertCapture: module_handle_ and divert_handle_
  cap,        \* the capture thread
  tcp,        \* the thread of TcpProxyServer::serve
  udp,        \* the thread of UdpProxyServer::serve
  live,       \* client threads that wait for their peers
  stuck       \* client threads whose pump spins on an unfinished message

mainVars == <<config, result, backend>>
captureVars == <<wfp, divert>>
threadVars == <<cap, tcp, udp, live, stuck>>
vars == <<config, pc, result, stop, winsock, backend, wfp, divert,
          cap, tcp, udp, live, stuck>>

(* The WFP objects as constructed: engine_handle_ and subscription_handle_;
   connected_ and policy_applied_ of the bridge; initialized_ (ready) and
   fallback_requested_ of the controller; fallback_requested_ and initialized_
   of WfpCapture. *)
NoWfp == [engine |-> FALSE, subscribed |-> FALSE,
          connected |-> FALSE, applied |-> FALSE,
          ready |-> FALSE, unhealthy |-> FALSE,
          fallback |-> FALSE, initialized |-> FALSE]

NoDivert == [module |-> FALSE, handle |-> FALSE]

Init ==
  /\ config \in Configs
  /\ pc = "begin"
  /\ result = FALSE
  /\ stop = FALSE
  /\ winsock = FALSE
  /\ backend = "None"
  /\ wfp = NoWfp
  /\ divert = NoDivert
  /\ cap = "none"
  /\ tcp = "none"
  /\ udp = "none"
  /\ live = 0
  /\ stuck = 0

-----------------------------------------------------------------------------
(* run, up to the choice of the backend. *)

(* Mutant of FailStart: no WSACleanup. *)
FailStartLeaks ==
  /\ pc' = "destroy"
  /\ result' = FALSE
  /\ UNCHANGED winsock

(* The return of run(false) before any thread exists: WSACleanup, then the
   destructors. *)
FailStart ==
  /\ pc' = "destroy"
  /\ result' = FALSE
  /\ winsock' = FALSE

(* A dry run returns at once, and so does a failed WSAStartup. *)
ReturnEarly ==
  /\ pc = "begin"
  /\ result' = config.dry_run
  /\ pc' = "returned"
  /\ UNCHANGED <<config, backend, stop, winsock, captureVars, threadVars>>

InitializeWinsock ==
  /\ pc = "begin"
  /\ ~config.dry_run
  /\ winsock' = TRUE
  /\ pc' = "mitm"
  /\ UNCHANGED <<mainVars, stop, captureVars, threadVars>>

(* HttpsMitmProxy::initialize. *)
InitializeMitm ==
  /\ pc = "mitm"
  /\ \/ FailStart
     \/ pc' = "wfp" /\ UNCHANGED <<result, winsock>>
  /\ UNCHANGED <<config, backend, stop, captureVars, threadVars>>

(* LocalCalloutBridge::apply_policy accepts the default policy. *)
PolicyAccepted ==
  /\ config.filter
  /\ config.tcp_enabled \/ config.udp_enabled

(* WfpRedirectController::initialize: the bridge connects, the default policy
   is applied; either failure requests the fallback. *)
RedirectInitialized(w) ==
  IF ~config.channel THEN [w EXCEPT !.unhealthy = TRUE]
  ELSE IF ~PolicyAccepted THEN [w EXCEPT !.connected = TRUE, !.unhealthy = TRUE]
  ELSE [w EXCEPT !.connected = TRUE, !.applied = TRUE, !.ready = TRUE]

(* Mutant of CaptureInitialized: the fallback is not noted. *)
CaptureForgetsFallback(w) ==
  LET r == IF config.redirect_enabled THEN RedirectInitialized(w) ELSE w IN
  [r EXCEPT !.initialized = ~r.unhealthy \/ config.allow_startup_fallback]

(* WfpCapture::initialize once the engine is open and the subscription made.
   A redirect that cannot be set up is a failure only when the fallback at
   startup is not allowed: otherwise initialize succeeds and leaves a note in
   fallback_requested_. *)
CaptureInitialized(w) ==
  LET r == IF config.redirect_enabled THEN RedirectInitialized(w) ELSE w IN
  IF ~r.unhealthy THEN [r EXCEPT !.initialized = TRUE]
  ELSE IF config.allow_startup_fallback
    THEN [r EXCEPT !.initialized = TRUE, !.fallback = TRUE]
  ELSE r

(* The WFP step of run: the engine does not open, or the subscription fails
   and the engine is closed again, or both are there. *)
InitializeWfp ==
  /\ pc = "wfp"
  /\ config.capture_enabled
  /\ config.use_wfp
  /\ \/ wfp' = wfp
     \/ wfp' = CaptureInitialized([wfp EXCEPT !.engine = TRUE, !.subscribed = TRUE])
  /\ backend' = IF wfp'.initialized THEN "Wfp" ELSE "None"
  /\ pc' = "divert"
  /\ UNCHANGED <<config, result, stop, winsock, divert, threadVars>>

SkipWfp ==
  /\ pc = "wfp"
  /\ ~(config.capture_enabled /\ config.use_wfp)
  /\ pc' = "divert"
  /\ UNCHANGED <<mainVars, stop, winsock, captureVars, threadVars>>

(* Mutant of WantsDivert: WinDivert is opened beside WFP. *)
AlwaysWantsDivert == config.capture_enabled /\ config.use_windivert

(* WinDivert is tried when no other backend is active. *)
WantsDivert ==
  /\ config.capture_enabled
  /\ backend = "None"
  /\ config.use_windivert

(* WinDivertCapture::initialize: no library, a library whose functions cannot
   be bound or whose filter does not open, or a handle. *)
InitializeDivert ==
  /\ pc = "divert"
  /\ WantsDivert
  /\ \/ /\ divert' = [module |-> TRUE, handle |-> TRUE]
        /\ backend' = "WinDivert"
        /\ pc' = "spawn_capture"
        /\ UNCHANGED <<result, winsock>>
     \/ /\ divert' \in {NoDivert, [module |-> TRUE, handle |-> FALSE]}
        /\ FailStart
        /\ UNCHANGED backend
  /\ UNCHANGED <<config, stop, wfp, threadVars>>

SkipDivert ==
  /\ pc = "divert"
  /\ ~WantsDivert
  /\ pc' = "spawn_capture"
  /\ UNCHANGED <<mainVars, stop, winsock, captureVars, threadVars>>

-----------------------------------------------------------------------------
(* run, from its threads to its return. *)

SpawnCapture ==
  /\ pc = "spawn_capture"
  /\ cap' = CASE backend = "Wfp" -> "wfp"
              [] backend = "WinDivert" -> "divert"
              [] OTHER -> "none"
  /\ pc' = "spawn_tcp"
  /\ UNCHANGED <<mainVars, stop, winsock, captureVars, tcp, udp, live, stuck>>

SpawnTcp ==
  /\ pc = "spawn_tcp"
  /\ tcp' = IF config.tcp_enabled THEN "setup" ELSE "none"
  /\ pc' = "spawn_udp"
  /\ UNCHANGED <<mainVars, stop, winsock, captureVars, cap, udp, live, stuck>>

SpawnUdp ==
  /\ pc = "spawn_udp"
  /\ udp' = IF config.udp_enabled THEN "setup" ELSE "none"
  /\ pc' = "main"
  /\ UNCHANGED <<mainVars, stop, winsock, captureVars, cap, tcp, live, stuck>>

(* The wait of run: until stop_requested, or for max_runtime_seconds, after
   which run sets it. *)
MainWait ==
  /\ pc = "main"
  /\ stop \/ config.timed
  /\ stop' = TRUE
  /\ pc' = "cleanup"
  /\ UNCHANGED <<mainVars, winsock, captureVars, threadVars>>

(* Mutant of Cleanup: WSACleanup is left to the end of the process. *)
CleanupLater ==
  /\ pc = "cleanup"
  /\ result' = TRUE
  /\ pc' = "join_udp"
  /\ UNCHANGED <<config, backend, stop, winsock, captureVars, threadVars>>

Cleanup ==
  /\ pc = "cleanup"
  /\ winsock' = FALSE
  /\ result' = TRUE
  /\ pc' = "join_udp"
  /\ UNCHANGED <<config, backend, stop, captureVars, threadVars>>

(* A thread that never ran or has ended can be joined. *)
Joinable(state) == state \in {"none", "failed", "done"}

JoinUdp ==
  /\ pc = "join_udp"
  /\ Joinable(udp)
  /\ pc' = "join_tcp"
  /\ UNCHANGED <<mainVars, stop, winsock, captureVars, threadVars>>

JoinTcp ==
  /\ pc = "join_tcp"
  /\ Joinable(tcp)
  /\ pc' = "join_capture"
  /\ UNCHANGED <<mainVars, stop, winsock, captureVars, threadVars>>

JoinCapture ==
  /\ pc = "join_capture"
  /\ Joinable(cap)
  /\ pc' = "destroy"
  /\ UNCHANGED <<mainVars, stop, winsock, captureVars, threadVars>>

(* WfpRedirectController::shutdown, from its destructor. *)
RedirectShutdown(w) ==
  IF w.ready THEN [w EXCEPT !.ready = FALSE, !.applied = FALSE] ELSE w

(* ~WinDivertCapture closes its handle and frees the library; ~WfpCapture
   unsubscribes, closes the engine and destroys the controller. *)
Destroy ==
  /\ pc = "destroy"
  /\ divert' = NoDivert
  /\ wfp' = RedirectShutdown([wfp EXCEPT !.engine = FALSE, !.subscribed = FALSE])
  /\ pc' = "returned"
  /\ UNCHANGED <<mainVars, stop, winsock, threadVars>>

-----------------------------------------------------------------------------
(* The capture thread. *)

(* LocalCalloutBridge::check_health *)
Healthy == wfp.connected /\ wfp.applied

(* tick_health: what the controller's fallback_requested_ is after it. *)
TickHealth == wfp.unhealthy \/ (wfp.ready /\ ~Healthy)

(* One turn of the loop of WfpCapture::run. *)
WfpTurn ==
  LET asked == config.redirect_enabled /\ ~wfp.fallback /\ TickHealth IN
  /\ cap = "wfp"
  /\ cap' = IF stop \/ asked THEN "done" ELSE "wfp"
  /\ wfp' = IF ~stop /\ asked
              THEN [wfp EXCEPT !.unhealthy = TRUE,
                               !.fallback = config.allow_runtime_fallback]
              ELSE wfp
  /\ stop' = (stop \/ (asked /\ ~config.allow_runtime_fallback))
  /\ UNCHANGED <<mainVars, pc, winsock, divert, tcp, udp, live, stuck>>

(* The test of stop_requested in WinDivertCapture::run, before it blocks in
   WinDivertRecv. *)
DivertTurn ==
  /\ cap = "divert"
  /\ cap' = IF stop THEN "done" ELSE "divert_recv"
  /\ UNCHANGED <<mainVars, pc, stop, winsock, captureVars, tcp, udp, live, stuck>>

(* A packet that matches the filter ends the wait; it is rewritten and sent. *)
DivertPacket ==
  /\ cap = "divert_recv"
  /\ cap' = "divert"
  /\ UNCHANGED <<mainVars, pc, stop, winsock, captureVars, tcp, udp, live, stuck>>

-----------------------------------------------------------------------------
(* The TCP thread and its client threads. *)

(* Mutant of TcpSetup: a failed bind ends the thread and nothing else. *)
TcpSetupSilent ==
  /\ tcp = "setup"
  /\ \/ winsock /\ tcp' = "loop"
     \/ tcp' = "failed"
  /\ UNCHANGED <<mainVars, pc, stop, winsock, captureVars, cap, udp, live, stuck>>

(* resolve_endpoint, socket, bind and listen succeed, or one of them fails and
   takes the whole proxy down; without winsock they fail. *)
TcpSetup ==
  /\ tcp = "setup"
  /\ \/ winsock /\ tcp' = "loop" /\ UNCHANGED stop
     \/ tcp' = "failed" /\ stop' = TRUE
  /\ UNCHANGED <<mainVars, pc, winsock, captureVars, cap, udp, live, stuck>>

(* The test of stop_requested before accept; the loop's end closes the
   listening socket. *)
TcpTurn ==
  /\ tcp = "loop"
  /\ tcp' = IF stop THEN "join" ELSE "accept"
  /\ UNCHANGED <<mainVars, pc, stop, winsock, captureVars, cap, udp, live, stuck>>

AcceptClient ==
  /\ tcp = "accept"
  /\ winsock
  /\ live + stuck < MaxClients
  /\ live' = live + 1
  /\ tcp' = "loop"
  /\ UNCHANGED <<mainVars, pc, stop, winsock, captureVars, cap, udp, stuck>>

(* accept returns without a client.  Whether SO_RCVTIMEO applies to accept is
   left open: it may return at any time, and must once winsock is gone. *)
AcceptNone ==
  /\ tcp = "accept"
  /\ tcp' = "loop"
  /\ UNCHANGED <<mainVars, pc, stop, winsock, captureVars, cap, udp, live, stuck>>

(* The joins of the client threads. *)
TcpJoin ==
  /\ tcp = "join"
  /\ live + stuck = 0
  /\ tcp' = "done"
  /\ UNCHANGED <<mainVars, pc, stop, winsock, captureVars, cap, udp, live, stuck>>

(* Mutant of ClientEnds: a client thread is counted out twice. *)
ClientEndsTwice ==
  /\ live > 0
  /\ live' = live - 2
  /\ UNCHANGED <<mainVars, pc, stop, winsock, captureVars, cap, tcp, udp, stuck>>

(* A client thread ends: its peers are done, or winsock is gone and its pumps
   see an error that is no timeout.  Nothing tells it of stop_requested. *)
ClientEnds ==
  /\ live > 0
  /\ live' = live - 1
  /\ UNCHANGED <<mainVars, pc, stop, winsock, captureVars, cap, tcp, udp, stuck>>

(* A pump finds an HTTP message unfinished and never calls recv again. *)
ClientSplits ==
  /\ live > 0
  /\ live' = live - 1
  /\ stuck' = stuck + 1
  /\ UNCHANGED <<mainVars, pc, stop, winsock, captureVars, cap, tcp, udp>>

-----------------------------------------------------------------------------
(* The UDP thread. *)

UdpSetup ==
  /\ udp = "setup"
  /\ \/ winsock /\ udp' = "loop" /\ UNCHANGED stop
     \/ udp' = "failed" /\ stop' = TRUE
  /\ UNCHANGED <<mainVars, pc, winsock, captureVars, cap, tcp, live, stuck>>

(* The test of stop_requested: each turn waits for at most 1.5 seconds. *)
UdpTurn ==
  /\ udp = "loop"
  /\ stop
  /\ udp' = "done"
  /\ UNCHANGED <<mainVars, pc, stop, winsock, captureVars, cap, tcp, live, stuck>>

-----------------------------------------------------------------------------

Main ==
  \/ ReturnEarly \/ InitializeWinsock \/ InitializeMitm
  \/ InitializeWfp \/ SkipWfp \/ InitializeDivert \/ SkipDivert
  \/ SpawnCapture \/ SpawnTcp \/ SpawnUdp
  \/ MainWait \/ Cleanup
  \/ JoinUdp \/ JoinTcp \/ JoinCapture \/ Destroy

TcpThread == TcpSetup \/ TcpTurn \/ TcpJoin
UdpThread == UdpSetup \/ UdpTurn
CaptureThread == WfpTurn \/ DivertTurn

(* What the network does to the threads. *)
Network == AcceptClient \/ AcceptNone \/ ClientEnds \/ ClientSplits \/ DivertPacket

(* run sleeps in its loop or has returned; a stuck pump spins. *)
Idle ==
  /\ \/ pc = "returned"
     \/ pc = "main" /\ ~stop
     \/ stuck > 0
  /\ UNCHANGED vars

Next == Main \/ TcpThread \/ UdpThread \/ CaptureThread \/ Network \/ Idle

Spec == Init /\ [][Next]_vars

(* The operating system schedules every thread.  Without winsock accept returns
   and a client thread ends by itself.  Nothing is assumed of packets, which
   alone wake WinDivertRecv. *)
Fairness ==
  /\ WF_vars(Main)
  /\ WF_vars(TcpThread)
  /\ WF_vars(UdpThread)
  /\ WF_vars(CaptureThread)
  /\ WF_vars(~winsock /\ ClientEnds)
  /\ WF_vars(~winsock /\ AcceptNone)

FairSpec == Spec /\ Fairness

-----------------------------------------------------------------------------
(* Properties *)

(* Type invariant of the proxy's life cycle. *)
TypeOK ==
  /\ config \in Config
  /\ pc \in {"begin", "mitm", "wfp", "divert", "spawn_capture", "spawn_tcp",
             "spawn_udp", "main", "cleanup", "join_udp", "join_tcp",
             "join_capture", "destroy", "returned"}
  /\ result \in BOOLEAN
  /\ stop \in BOOLEAN
  /\ winsock \in BOOLEAN
  /\ backend \in {"None", "Wfp", "WinDivert"}
  /\ wfp \in [engine : BOOLEAN, subscribed : BOOLEAN, connected : BOOLEAN,
              applied : BOOLEAN, ready : BOOLEAN, unhealthy : BOOLEAN,
              fallback : BOOLEAN, initialized : BOOLEAN]
  /\ divert \in [module : BOOLEAN, handle : BOOLEAN]
  /\ cap \in {"none", "wfp", "divert", "divert_recv", "done"}
  /\ tcp \in {"none", "setup", "loop", "accept", "join", "failed", "done"}
  /\ udp \in {"none", "setup", "loop", "failed", "done"}
  /\ live \in Nat
  /\ stuck \in Nat

(* Whatever step of the start failed and however the threads ended, run
   returns with every thread joined, no client thread left, and WinSock, the
   WFP engine, its subscription and policy and WinDivert released. *)
Released ==
  pc = "returned" =>
    /\ ~winsock
    /\ ~wfp.engine /\ ~wfp.subscribed /\ ~wfp.applied
    /\ divert = NoDivert
    /\ Joinable(cap) /\ Joinable(tcp) /\ Joinable(udp)
    /\ live + stuck = 0

(* The capture thread never runs on a handle that has been closed, and the two
   backends are never both open. *)
HandlesOutliveThread ==
  /\ cap = "wfp" => wfp.engine /\ wfp.subscribed
  /\ cap \in {"divert", "divert_recv"} => divert.handle
  /\ ~(wfp.initialized /\ divert.handle)

(* The callout bridge of this program never loses its policy while the capture
   thread runs: the runtime fallback of WfpCapture::run, and the stop it would
   request where that fallback is not allowed, are never reached. *)
RuntimeFallbackUnreachable ==
  cap = "wfp" /\ config.redirect_enabled => wfp.fallback \/ ~TickHealth

(* Once stop_requested is set, by a deadline or a thread that failed, all
   threads come to their end and run returns, however many clients hold their
   connections open.  Two things alone keep it: a pump that spins on an
   unfinished message, and WinDivertRecv without a packet. *)
ShutdownCompletes ==
  <>stop => \/ <>(pc = "returned")
            \/ <>[](stuck > 0)
            \/ <>[](cap = "divert_recv")

(* A server thread that cannot be set up takes the whole proxy down, to the
   WSACleanup that ends the other threads. *)
ServerFailureStops == (tcp = "failed" \/ udp = "failed") ~> winsock = FALSE

(* A request for the fallback from WFP ends with WinDivert capturing, where it
   is enabled. *)
FallbackHonoured ==
  (wfp.fallback /\ config.use_windivert) ~> (backend = "WinDivert" \/ stop)

=============================================================================
