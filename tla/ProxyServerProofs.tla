-------------------------- MODULE ProxyServerProofs --------------------------
(***************************************************************************)
(* Proofs about ProxyServer, for any set of configurations and any number  *)
(* of clients: whatever fails at the start and however the threads end,    *)
(* run returns with everything released, and no thread outlives what it    *)
(* works on.                                                               *)
(***************************************************************************)
EXTENDS ProxyServer, TLAPS

(* run has not yet come to the thread of ... *)
BeforeCapture == {"begin", "mitm", "wfp", "divert", "spawn_capture"}
BeforeTcp == BeforeCapture \cup {"spawn_tcp"}
BeforeUdp == BeforeTcp \cup {"spawn_udp"}

(* A thread is there from its creation to its join. *)
ThreadsInv ==
  /\ pc \in BeforeCapture => cap = "none"
  /\ pc \in BeforeTcp => tcp = "none"
  /\ pc \in BeforeUdp => udp = "none"
  /\ pc \in {"join_tcp", "join_capture", "destroy", "returned"} => Joinable(udp)
  /\ pc \in {"join_capture", "destroy", "returned"} => Joinable(tcp)
  /\ pc \in {"destroy", "returned"} => Joinable(cap)

(* Only a TCP thread that serves has client threads: it joins them. *)
ClientsInv == tcp \in {"none", "setup", "failed", "done"} => live = 0 /\ stuck = 0

(* WinSock is there from WSAStartup to WSACleanup. *)
WinsockInv ==
  pc \in {"begin", "join_udp", "join_tcp", "join_capture", "destroy", "returned"} => ~winsock

(* The active backend is the one whose handles are open, until they are
   closed, and the capture thread is the backend's. *)
BackendInv ==
  /\ pc \in {"begin", "mitm", "wfp"} => wfp = NoWfp /\ backend = "None"
  /\ pc \in {"begin", "mitm", "wfp", "divert"} => divert = NoDivert
  /\ pc # "returned" =>
       /\ backend = "Wfp" <=> wfp.initialized
       /\ backend = "WinDivert" <=> divert.handle
       /\ wfp.initialized => wfp.engine /\ wfp.subscribed
  /\ cap = "wfp" => backend = "Wfp"
  /\ cap \in {"divert", "divert_recv"} => backend = "WinDivert"
  /\ pc = "returned" => ~wfp.engine /\ ~wfp.subscribed /\ ~wfp.applied /\ divert = NoDivert

(* The controller is ready exactly while its policy is applied, on a connected
   bridge; an unhealthy one has asked for the fallback. *)
RedirectInv ==
  /\ wfp.applied <=> wfp.ready
  /\ wfp.ready => wfp.connected
  /\ wfp.initialized /\ wfp.unhealthy => wfp.fallback

(* Whoever ends the proxy, a server thread that fails or the deadline, has
   told the others. *)
StopInv ==
  /\ tcp = "failed" \/ udp = "failed" => stop
  /\ pc \in {"cleanup", "join_udp", "join_tcp", "join_capture"} => stop
  /\ tcp \in {"join", "done"} \/ udp = "done" \/ cap = "done" => stop

(* The inductive invariant. *)
ServerInv ==
  /\ TypeOK
  /\ ThreadsInv
  /\ ClientsInv
  /\ WinsockInv
  /\ BackendInv
  /\ RedirectInv
  /\ StopInv

(* The proxy begins with nothing started. *)
LEMMA InitServerInv == Init => ServerInv
<1> SUFFICES ASSUME Init PROVE ServerInv
  OBVIOUS
<1>1. TypeOK
  BY ParametersAssumption DEF Init, TypeOK, NoWfp, NoDivert
<1>2. ThreadsInv /\ ClientsInv /\ WinsockInv /\ StopInv
  BY DEF Init, ThreadsInv, ClientsInv, WinsockInv, StopInv
<1>3. BackendInv /\ RedirectInv
  BY DEF Init, BackendInv, RedirectInv, NoWfp, NoDivert
<1> QED
  BY <1>1, <1>2, <1>3 DEF ServerInv

(* What WfpCapture::initialize makes of a capture whose engine is open. *)
LEMMA CaptureInitializedFacts ==
  ASSUME TypeOK, wfp = NoWfp,
         NEW w, w = CaptureInitialized([wfp EXCEPT !.engine = TRUE, !.subscribed = TRUE])
  PROVE  /\ w \in [engine : BOOLEAN, subscribed : BOOLEAN, connected : BOOLEAN,
                   applied : BOOLEAN, ready : BOOLEAN, unhealthy : BOOLEAN,
                   fallback : BOOLEAN, initialized : BOOLEAN]
         /\ w.engine /\ w.subscribed
         /\ w.applied <=> w.ready
         /\ w.ready => w.connected
         /\ w.initialized /\ w.unhealthy => w.fallback
<1> DEFINE opened == [NoWfp EXCEPT !.engine = TRUE, !.subscribed = TRUE]
           r == IF config.redirect_enabled THEN RedirectInitialized(opened) ELSE opened
<1>1. /\ r \in [engine : BOOLEAN, subscribed : BOOLEAN, connected : BOOLEAN,
                 applied : BOOLEAN, ready : BOOLEAN, unhealthy : BOOLEAN,
                 fallback : BOOLEAN, initialized : BOOLEAN]
      /\ r.engine /\ r.subscribed /\ ~r.initialized
      /\ r.applied <=> r.ready
      /\ r.ready => r.connected
  BY DEF RedirectInitialized, NoWfp
<1>2. w = IF ~r.unhealthy THEN [r EXCEPT !.initialized = TRUE]
          ELSE IF config.allow_startup_fallback
            THEN [r EXCEPT !.initialized = TRUE, !.fallback = TRUE]
          ELSE r
  BY DEF CaptureInitialized
<1> HIDE DEF r
<1> QED
  BY <1>1, <1>2

(* A pair of handles is typed. *)
LEMMA DivertTyped ==
  \A m, h \in BOOLEAN :
    [module |-> m, handle |-> h] \in [module : BOOLEAN, handle : BOOLEAN]
  OBVIOUS

(* run, up to the choice of the backend. *)
LEMMA StartInv ==
  ASSUME ServerInv,
         \/ ReturnEarly \/ InitializeWinsock \/ InitializeMitm
         \/ InitializeWfp \/ SkipWfp \/ InitializeDivert \/ SkipDivert
  PROVE  ServerInv'
<1> USE DEF ServerInv, TypeOK, ThreadsInv, ClientsInv, WinsockInv, BackendInv, RedirectInv,
            StopInv, BeforeCapture, BeforeTcp, BeforeUdp, Joinable,
            mainVars, captureVars, threadVars, FailStart
<1>1. CASE ReturnEarly
  BY <1>1 DEF ReturnEarly, NoWfp, Config
<1>2. CASE InitializeWinsock
  BY <1>2 DEF InitializeWinsock
<1>3. CASE InitializeMitm
  <2>1. TypeOK'
    BY <1>3 DEF InitializeMitm
  <2>2. ThreadsInv'
    BY <1>3 DEF InitializeMitm
  <2>3. ClientsInv'
    BY <1>3 DEF InitializeMitm
  <2>4. WinsockInv'
    BY <1>3 DEF InitializeMitm
  <2>5. BackendInv'
    BY <1>3 DEF InitializeMitm
  <2>6. RedirectInv'
    BY <1>3 DEF InitializeMitm
  <2>7. StopInv'
    BY <1>3 DEF InitializeMitm
  <2> QED
    BY <2>1, <2>2, <2>3, <2>4, <2>5, <2>6, <2>7
<1>4. CASE InitializeWfp
  BY <1>4, CaptureInitializedFacts DEF InitializeWfp, NoWfp, NoDivert
<1>5. CASE SkipWfp
  BY <1>5 DEF SkipWfp
<1>6. CASE InitializeDivert
  <2>1. TypeOK'
    <3>1. result' \in BOOLEAN /\ winsock' \in BOOLEAN
      BY <1>6 DEF InitializeDivert
    <3>2. divert' \in [module : BOOLEAN, handle : BOOLEAN]
      <4>1. \/ divert' = [module |-> TRUE, handle |-> TRUE]
            \/ divert' = [module |-> FALSE, handle |-> FALSE]
            \/ divert' = [module |-> TRUE, handle |-> FALSE]
        BY <1>6 DEF InitializeDivert, NoDivert
      <4> QED
        BY <4>1, DivertTyped
    <3>3. pc' \in {"spawn_capture", "destroy"} /\ backend' \in {"None", "Wfp", "WinDivert"}
      BY <1>6 DEF InitializeDivert
    <3> QED
      BY <1>6, <3>1, <3>2, <3>3 DEF InitializeDivert
  <2>2. ThreadsInv'
    BY <1>6 DEF InitializeDivert, WantsDivert, NoDivert
  <2>3. ClientsInv'
    BY <1>6 DEF InitializeDivert, WantsDivert, NoDivert
  <2>4. WinsockInv'
    BY <1>6 DEF InitializeDivert, WantsDivert, NoDivert
  <2>5. BackendInv'
    BY <1>6 DEF InitializeDivert, WantsDivert, NoDivert
  <2>6. RedirectInv'
    BY <1>6 DEF InitializeDivert, WantsDivert, NoDivert
  <2>7. StopInv'
    BY <1>6 DEF InitializeDivert, WantsDivert, NoDivert
  <2> QED
    BY <2>1, <2>2, <2>3, <2>4, <2>5, <2>6, <2>7
<1>7. CASE SkipDivert
  BY <1>7 DEF SkipDivert
<1> QED
  BY <1>1, <1>2, <1>3, <1>4, <1>5, <1>6, <1>7

(* run, from its threads to its return. *)
LEMMA MainInv ==
  ASSUME ServerInv,
         \/ SpawnCapture \/ SpawnTcp \/ SpawnUdp
         \/ MainWait \/ Cleanup
         \/ JoinUdp \/ JoinTcp \/ JoinCapture \/ Destroy
  PROVE  ServerInv'
<1> USE DEF ServerInv, TypeOK, ThreadsInv, ClientsInv, WinsockInv, BackendInv, RedirectInv,
            StopInv, BeforeCapture, BeforeTcp, BeforeUdp, Joinable,
            mainVars, captureVars, threadVars
<1>1. CASE SpawnCapture
  BY <1>1 DEF SpawnCapture
<1>2. CASE SpawnTcp
  BY <1>2 DEF SpawnTcp
<1>3. CASE SpawnUdp
  BY <1>3 DEF SpawnUdp
<1>4. CASE MainWait
  BY <1>4 DEF MainWait
<1>5. CASE Cleanup
  <2>1. TypeOK'
    <3>1. result' \in BOOLEAN /\ winsock' \in BOOLEAN
      BY <1>5 DEF Cleanup
    <3> QED
      BY <1>5, <3>1 DEF Cleanup
  <2>2. ThreadsInv'
    BY <1>5 DEF Cleanup
  <2>3. ClientsInv'
    BY <1>5 DEF Cleanup
  <2>4. WinsockInv'
    BY <1>5 DEF Cleanup
  <2>5. BackendInv'
    BY <1>5 DEF Cleanup
  <2>6. RedirectInv'
    BY <1>5 DEF Cleanup
  <2>7. StopInv'
    BY <1>5 DEF Cleanup
  <2> QED
    BY <2>1, <2>2, <2>3, <2>4, <2>5, <2>6, <2>7
<1>6. CASE JoinUdp
  BY <1>6 DEF JoinUdp
<1>7. CASE JoinTcp
  BY <1>7 DEF JoinTcp
<1>8. CASE JoinCapture
  BY <1>8 DEF JoinCapture
<1>9. CASE Destroy
  <2>1. TypeOK'
    BY <1>9 DEF Destroy, RedirectShutdown, NoDivert
  <2>2. ThreadsInv'
    BY <1>9 DEF Destroy, RedirectShutdown, NoDivert
  <2>3. ClientsInv'
    BY <1>9 DEF Destroy, RedirectShutdown, NoDivert
  <2>4. WinsockInv'
    BY <1>9 DEF Destroy, RedirectShutdown, NoDivert
  <2>5. BackendInv'
    BY <1>9 DEF Destroy, RedirectShutdown, NoDivert
  <2>6. RedirectInv'
    BY <1>9 DEF Destroy, RedirectShutdown, NoDivert
  <2>7. StopInv'
    BY <1>9 DEF Destroy, RedirectShutdown, NoDivert
  <2> QED
    BY <2>1, <2>2, <2>3, <2>4, <2>5, <2>6, <2>7
<1> QED
  BY <1>1, <1>2, <1>3, <1>4, <1>5, <1>6, <1>7, <1>8, <1>9

(* The capture thread: the turn of the loop that would ask for the fallback at
   runtime is never taken. *)
LEMMA CaptureInv ==
  ASSUME ServerInv, WfpTurn \/ DivertTurn \/ DivertPacket
  PROVE  ServerInv'
<1> USE DEF ServerInv, TypeOK, ThreadsInv, ClientsInv, WinsockInv, BackendInv, RedirectInv,
            StopInv, BeforeCapture, BeforeTcp, BeforeUdp, Joinable,
            mainVars, captureVars, threadVars
<1>1. CASE WfpTurn
  <2>1. ~(config.redirect_enabled /\ ~wfp.fallback /\ TickHealth)
    BY <1>1 DEF WfpTurn, TickHealth, Healthy
  <2>2. /\ cap = "wfp"
        /\ cap' = IF stop THEN "done" ELSE "wfp"
        /\ wfp' = wfp
        /\ stop' = stop
        /\ UNCHANGED <<mainVars, pc, winsock, divert, tcp, udp, live, stuck>>
    BY <1>1, <2>1 DEF WfpTurn
  <2> QED
    BY <2>2
<1>2. CASE DivertTurn
  BY <1>2 DEF DivertTurn
<1>3. CASE DivertPacket
  BY <1>3 DEF DivertPacket
<1> QED
  BY <1>1, <1>2, <1>3

(* The server threads and the client threads. *)
LEMMA ServersInv ==
  ASSUME ServerInv,
         TcpThread \/ UdpThread \/ AcceptClient \/ AcceptNone \/ ClientEnds \/ ClientSplits
  PROVE  ServerInv'
<1> USE DEF ServerInv, TypeOK, ThreadsInv, ClientsInv, WinsockInv, BackendInv, RedirectInv,
            StopInv, BeforeCapture, BeforeTcp, BeforeUdp, Joinable,
            mainVars, captureVars, threadVars
<1>1. CASE TcpSetup
  <2>1. TypeOK'
    <3>1. stop' \in BOOLEAN
      BY <1>1 DEF TcpSetup
    <3>2. tcp' \in {"loop", "failed"}
      BY <1>1 DEF TcpSetup
    <3> QED
      BY <1>1, <3>1, <3>2 DEF TcpSetup
  <2>2. ThreadsInv'
    BY <1>1 DEF TcpSetup
  <2>3. ClientsInv'
    BY <1>1 DEF TcpSetup
  <2>4. WinsockInv'
    BY <1>1 DEF TcpSetup
  <2>5. BackendInv'
    BY <1>1 DEF TcpSetup
  <2>6. RedirectInv'
    BY <1>1 DEF TcpSetup
  <2>7. StopInv'
    BY <1>1 DEF TcpSetup
  <2> QED
    BY <2>1, <2>2, <2>3, <2>4, <2>5, <2>6, <2>7
<1>2. CASE TcpTurn
  BY <1>2 DEF TcpTurn
<1>3. CASE TcpJoin
  BY <1>3 DEF TcpJoin
<1>4. CASE UdpSetup
  <2>1. TypeOK'
    <3>1. stop' \in BOOLEAN
      BY <1>4 DEF UdpSetup
    <3>2. udp' \in {"loop", "failed"}
      BY <1>4 DEF UdpSetup
    <3> QED
      BY <1>4, <3>1, <3>2 DEF UdpSetup
  <2>2. ThreadsInv'
    BY <1>4 DEF UdpSetup
  <2>3. ClientsInv'
    BY <1>4 DEF UdpSetup
  <2>4. WinsockInv'
    BY <1>4 DEF UdpSetup
  <2>5. BackendInv'
    BY <1>4 DEF UdpSetup
  <2>6. RedirectInv'
    BY <1>4 DEF UdpSetup
  <2>7. StopInv'
    BY <1>4 DEF UdpSetup
  <2> QED
    BY <2>1, <2>2, <2>3, <2>4, <2>5, <2>6, <2>7
<1>5. CASE UdpTurn
  BY <1>5 DEF UdpTurn
<1>6. CASE AcceptClient
  BY <1>6 DEF AcceptClient
<1>7. CASE AcceptNone
  BY <1>7 DEF AcceptNone
<1>8. CASE ClientEnds
  BY <1>8 DEF ClientEnds
<1>9. CASE ClientSplits
  BY <1>9 DEF ClientSplits
<1> QED
  BY <1>1, <1>2, <1>3, <1>4, <1>5, <1>6, <1>7, <1>8, <1>9 DEF TcpThread, UdpThread

(* Every step keeps the invariant. *)
LEMMA ServerStep == ServerInv /\ [Next]_vars => ServerInv'
<1> SUFFICES ASSUME ServerInv, [Next]_vars PROVE ServerInv'
  OBVIOUS
<1>1. CASE UNCHANGED vars
  BY <1>1 DEF vars, ServerInv, TypeOK, ThreadsInv, ClientsInv, WinsockInv, BackendInv,
              RedirectInv, StopInv, Joinable
<1>2. CASE Main
  BY <1>2, StartInv, MainInv DEF Main
<1> QED
  BY <1>1, <1>2, CaptureInv, ServersInv DEF Next, CaptureThread, Network, Idle

(* The inductive invariant holds in every behaviour. *)
THEOREM ServerInvariant == Spec => []ServerInv
  BY InitServerInv, ServerStep, PTL DEF Spec

(* Type correctness of the proxy's life cycle. *)
THEOREM TypeCorrect == Spec => []TypeOK
<1>1. ServerInv => TypeOK
  BY DEF ServerInv
<1> QED
  BY <1>1, ServerInvariant, PTL

(* run returns, on whichever path, with every thread joined, no client thread
   left, and WinSock, the WFP objects and WinDivert released. *)
THEOREM AllReleased == Spec => []Released
<1>1. ServerInv => Released
  BY DEF ServerInv, TypeOK, ThreadsInv, ClientsInv, WinsockInv, BackendInv, Joinable, Released
<1> QED
  BY <1>1, ServerInvariant, PTL

(* The handles of a backend are closed only after its capture thread has ended,
   and the handles of two backends are never both open. *)
THEOREM HandlesOutlive == Spec => []HandlesOutliveThread
<1>1. ServerInv => HandlesOutliveThread
  BY DEF ServerInv, TypeOK, ThreadsInv, BackendInv, Joinable, NoDivert, HandlesOutliveThread
<1> QED
  BY <1>1, ServerInvariant, PTL

(* The fallback at runtime, and the stop in its place, are dead code for every
   configuration. *)
THEOREM RuntimeFallbackDead == Spec => []RuntimeFallbackUnreachable
<1>1. ServerInv => RuntimeFallbackUnreachable
  BY DEF ServerInv, TypeOK, ThreadsInv, BackendInv, RedirectInv, Joinable,
         RuntimeFallbackUnreachable, TickHealth, Healthy
<1> QED
  BY <1>1, ServerInvariant, PTL

(* A server thread that has failed, and a thread that is to be joined or has
   ended, leaves stop_requested set: no thread ends and the others do not know. *)
THEOREM EndIsTold == Spec => []StopInv
<1>1. ServerInv => StopInv
  BY DEF ServerInv
<1> QED
  BY <1>1, ServerInvariant, PTL

=============================================================================
