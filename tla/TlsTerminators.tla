--------------------------- MODULE TlsTerminators ---------------------------
(***************************************************************************)
(* How the man-in-the-middle sessions for one host come by an s_server     *)
(* each: run_tls_mitm_session up to the connection to its own TLS          *)
(* terminator.  The sessions meet in the certificate cache, which is       *)
(* LeafCertificates, and on the local ports: allocate_local_port finds a   *)
(* free port and lets go of it, the s_server binds it later, and the       *)
(* session connects to whoever listens there by then.                      *)
(***************************************************************************)
EXTENDS LeafCertificates

CONSTANTS
  Ports,    \* the ports the system hands out to allocate_local_port
  Other,    \* any other program, or an s_server that has outlived its proxy
  Nobody    \* no port, nobody on a port

ASSUME NamesAssumption ==
  /\ Other \notin Sessions
  /\ Nobody \notin Sessions \cup Ports \cup {Other}

VARIABLES
  at,        \* where run_tls_mitm_session is
  port,      \* local_tls_port
  server,    \* the s_server of a session: none, starting, accepting, gone
  listener,  \* who listens on a port
  reached,   \* whose s_server the bridge socket is connected to
  taken      \* history: another has bound the port since it was found free

setupVars == <<at, port, server, listener, reached, taken>>

SetupInit ==
  /\ Init
  /\ at = [s \in Sessions |-> "idle"]
  /\ port = [s \in Sessions |-> Nobody]
  /\ server = [s \in Sessions |-> "none"]
  /\ listener = [p \in Ports |-> Nobody]
  /\ reached = [s \in Sessions |-> Nobody]
  /\ taken = [s \in Sessions |-> FALSE]

-----------------------------------------------------------------------------
(* The calling threads. *)

Enter(s, where) == at' = [at EXCEPT ![s] = where]

(* A session begins, and asks for its certificate ... *)
BeginSession(s) ==
  /\ at[s] = "idle"
  /\ Call(s) \/ CallRefused(s)
  /\ Enter(s, "certificate")
  /\ UNCHANGED <<port, server, listener, reached, taken>>

(* ... which takes the steps of generate_leaf_certificate. *)
Generate(s) ==
  /\ at[s] = "certificate"
  /\ WriteExt(s) \/ FailExt(s) \/ Remove(s) \/ Verify(s)
  /\ UNCHANGED setupVars

(* The openssl commands that make the certificates. *)
RunCommand(v) == Command(v) /\ UNCHANGED setupVars

(* Mutant of AllocatePort: any port is taken for free. *)
AllocateAnyPort(s) ==
  /\ at[s] = "certificate"
  /\ pc[s] = "ok"
  /\ \E p \in Ports : port' = [port EXCEPT ![s] = p]
  /\ taken' = [taken EXCEPT ![s] = FALSE]
  /\ Enter(s, "start")
  /\ UNCHANGED <<vars, server, listener, reached>>

(* allocate_local_port: the probe socket is bound to a free port and closed
   again. *)
AllocatePort(s) ==
  /\ at[s] = "certificate"
  /\ pc[s] = "ok"
  /\ \E p \in Ports : /\ listener[p] = Nobody
                      /\ port' = [port EXCEPT ![s] = p]
  /\ taken' = [taken EXCEPT ![s] = FALSE]
  /\ Enter(s, "start")
  /\ UNCHANGED <<vars, server, listener, reached>>

StartServer(s) ==
  /\ at[s] = "start"
  /\ server' = [server EXCEPT ![s] = "starting"]
  /\ Enter(s, "connect")
  /\ UNCHANGED <<vars, port, listener, reached, taken>>

(* connect_local_port: one of the thirty attempts finds somebody listening. *)
ConnectBridge(s) ==
  /\ at[s] = "connect"
  /\ listener[port[s]] # Nobody
  /\ reached' = [reached EXCEPT ![s] = listener[port[s]]]
  /\ Enter(s, "bridged")
  /\ UNCHANGED <<vars, port, server, listener, taken>>

(* Mutant of Leave: the s_server is not stopped. *)
LeaveServer(s) ==
  /\ at' = [at EXCEPT ![s] = "idle"]
  /\ server' = [server EXCEPT ![s] = "none"]
  /\ port' = [port EXCEPT ![s] = Nobody]
  /\ reached' = [reached EXCEPT ![s] = Nobody]
  /\ UNCHANGED <<vars, listener, taken>>

(* The session returns; its s_server, if it has one, is stopped. *)
Leave(s) ==
  /\ at' = [at EXCEPT ![s] = "idle"]
  /\ server' = [server EXCEPT ![s] = "none"]
  /\ listener' = [p \in Ports |-> IF listener[p] = s THEN Nobody ELSE listener[p]]
  /\ port' = [port EXCEPT ![s] = Nobody]
  /\ reached' = [reached EXCEPT ![s] = Nobody]
  /\ UNCHANGED <<vars, taken>>

(* There is no certificate, no port, or no s_server; the thirty attempts fail,
   or the session has run and ends. *)
EndSession(s) ==
  /\ \/ at[s] = "certificate" /\ pc[s] \in {"ok", "failed"}
     \/ at[s] \in {"start", "connect", "bridged"}
  /\ Leave(s)

-----------------------------------------------------------------------------
(* The openssl processes, and the other programs. *)

(* p is bound by who, and taken from the sessions that found it free. *)
Bind(p, who) ==
  /\ listener[p] = Nobody
  /\ listener' = [listener EXCEPT ![p] = who]
  /\ taken' = [s \in Sessions |-> taken[s] \/ (port[s] = p /\ s # who)]

(* The pair is loaded, whole and a pair, and the port bound. *)
ServerAccepts(s) ==
  /\ server[s] = "starting"
  /\ key \in Versions
  /\ crt = key
  /\ Bind(port[s], s)
  /\ server' = [server EXCEPT ![s] = "accepting"]
  /\ UNCHANGED <<vars, at, port, reached>>

(* A file is torn, the certificate is not for the key, the port is in use, or it
   ends for a reason of its own. *)
ServerEnds(s) ==
  /\ server[s] \in {"starting", "accepting"}
  /\ server' = [server EXCEPT ![s] = "gone"]
  /\ listener' = [p \in Ports |-> IF listener[p] = s THEN Nobody ELSE listener[p]]
  /\ UNCHANGED <<vars, at, port, reached, taken>>

OtherBinds(p) == Bind(p, Other) /\ UNCHANGED <<vars, at, port, server, reached>>

OtherCloses(p) ==
  /\ listener[p] = Other
  /\ listener' = [listener EXCEPT ![p] = Nobody]
  /\ UNCHANGED <<vars, at, port, server, reached, taken>>

(* The proxy ends at any moment, and is started again: the files stay, and an
   s_server or a command may. *)
ProxyRestarts ==
  /\ Restart
  /\ at' = [s \in Sessions |-> "idle"]
  /\ port' = [s \in Sessions |-> Nobody]
  /\ server' = [s \in Sessions |-> "none"]
  /\ reached' = [s \in Sessions |-> Nobody]
  /\ \E stays \in BOOLEAN :
       listener' = [p \in Ports |-> IF listener[p] \in Sessions
                                      THEN IF stays THEN Other ELSE Nobody
                                      ELSE listener[p]]
  /\ UNCHANGED taken

-----------------------------------------------------------------------------

Session(s) ==
  \/ BeginSession(s) \/ Generate(s) \/ AllocatePort(s) \/ StartServer(s)
  \/ ConnectBridge(s) \/ EndSession(s)
  \/ ServerAccepts(s) \/ ServerEnds(s)

SetupNext ==
  \/ \E s \in Sessions : Session(s)
  \/ \E v \in Versions : RunCommand(v)
  \/ \E p \in Ports : OtherBinds(p) \/ OtherCloses(p)
  \/ ProxyRestarts

SetupSpec == SetupInit /\ [][SetupNext]_<<vars, setupVars>>

-----------------------------------------------------------------------------
(* Properties *)

(* Type invariant of the cache, the sessions, their processes and the ports. *)
SetupTypeOK ==
  /\ TypeOK
  /\ at \in [Sessions -> {"idle", "certificate", "start", "connect", "bridged"}]
  /\ port \in [Sessions -> Ports \cup {Nobody}]
  /\ server \in [Sessions -> {"none", "starting", "accepting", "gone"}]
  /\ listener \in [Ports -> Sessions \cup {Other, Nobody}]
  /\ \A p \in Ports, s \in Sessions :
       listener[p] = s <=> server[s] = "accepting" /\ port[s] = p
  /\ reached \in [Sessions -> Sessions \cup {Other, Nobody}]
  /\ taken \in [Sessions -> BOOLEAN]

(* A session reaches its own s_server, although it only knows a port that was
   free a while ago: but for a port that another has bound in between, be it
   the s_server of another session, whose plaintext this one then never reads. *)
OwnServer ==
  \A s \in Sessions : reached[s] \notin {s, Nobody} => taken[s]

=============================================================================
