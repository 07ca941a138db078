-------------------------- MODULE MitmSessionProofs --------------------------
(***************************************************************************)
(* Proofs about MitmSession: whatever the peers and the processes do, and  *)
(* in whatever order the four threads end, a session that is over has left *)
(* nothing behind.                                                         *)
(***************************************************************************)
EXTENDS MitmSession, TLAPS

(* p does not run, and its pipes are closed.  Nothing but StartProcess
   undoes it. *)
Ended(p) == ~Running(p) /\ ~stdin[p] /\ ~stdout[p]

AllThreads(where) == \A t \in Threads : thr[t] = where

(* Until the s_client is started there is neither a thread nor an s_client. *)
BeforeThreads ==
  pc \in {"prepare", "connect", "start_client", "failed"} =>
    AllThreads("off") /\ Ended("client")

(* The processes: what the steps of the calling thread have ended so far. *)
ProcessesEnd ==
  /\ pc \in {"prepare", "failed"} => Ended("server")
  /\ pc \notin {"close_stdin", "close_stdout", "terminate", "join", "returned"} =>
       victim = "server"
  /\ pc \in {"close_stdout", "terminate"} => ~stdin[victim]
  /\ pc = "terminate" => ~stdout[victim]
  /\ pc \in {"close_stdin", "close_stdout", "terminate"} /\ victim = "client" =>
       Ended("server")
  /\ pc \in {"join", "returned"} => Ended("server") /\ Ended("client")

(* The socket to the s_server is open from its connection to the shutdown. *)
BridgeInv == bridge => pc \in {"start_client", "poll", "shutdown"}

JoinedInv == pc = "returned" => AllThreads("done")

(* The inductive invariant. *)
SessionInv ==
  /\ TypeOK
  /\ BeforeThreads
  /\ ProcessesEnd
  /\ BridgeInv
  /\ JoinedInv

(* The session begins with nothing started. *)
LEMMA InitSessionInv == Init => SessionInv
  BY DEF Init, SessionInv, TypeOK, BeforeThreads, ProcessesEnd, BridgeInv, JoinedInv,
         Ended, Running, AllThreads, Processes, Threads, Relays, Plain

(* The steps of the calling thread. *)
LEMMA CallerInv == SessionInv /\ (Caller \/ Closes) => SessionInv'
<1> SUFFICES ASSUME SessionInv, Caller \/ Closes PROVE SessionInv'
  OBVIOUS
<1> USE DEF SessionInv, TypeOK, BeforeThreads, ProcessesEnd, BridgeInv, JoinedInv,
            Ended, Running, AllThreads, Processes, procVars
<1>1. CASE PrepareFail
  BY <1>1 DEF PrepareFail
<1>2. CASE StartServer
  BY <1>2 DEF StartServer, StartProcess
<1>3. CASE ConnectBridge
  BY <1>3 DEF ConnectBridge
<1>4. CASE ConnectFail
  BY <1>4 DEF ConnectFail, StopProcess
<1>5. CASE StartClient
  BY <1>5 DEF StartClient, StartProcess
<1>6. CASE StartClientFail
  BY <1>6 DEF StartClientFail, StopProcess
<1>7. CASE Poll
  BY <1>7 DEF Poll
<1>8. CASE ShutdownSockets
  BY <1>8 DEF ShutdownSockets
<1>9. CASE CloseStdin
  BY <1>9 DEF CloseStdin
<1>10. CASE CloseStdout
  BY <1>10 DEF CloseStdout
<1>11. CASE Terminate
  BY <1>11 DEF Terminate, NextVictim
<1>12. CASE Join
  BY <1>12 DEF Join
<1> QED
  BY <1>1, <1>2, <1>3, <1>4, <1>5, <1>6, <1>7, <1>8, <1>9, <1>10, <1>11, <1>12
     DEF Caller, Closes

(* The steps of a thread: it moves on, and at most closes a stdin. *)
LEMMA ThreadInv ==
  ASSUME SessionInv, NEW t \in Threads, Thread(t)
  PROVE  SessionInv'
<1> USE DEF SessionInv, TypeOK, BeforeThreads, ProcessesEnd, BridgeInv, JoinedInv,
            Ended, Running, AllThreads, Processes, procVars, Goto
<1>1. CASE Turn(t)
  BY <1>1 DEF Turn
<1>2. CASE ReadData(t)
  BY <1>2 DEF ReadData
<1>3. CASE ReadEnds(t)
  BY <1>3 DEF ReadEnds
<1>4. CASE WriteData(t)
  BY <1>4 DEF WriteData
<1>5. CASE WriteFails(t)
  BY <1>5 DEF WriteFails
<1>6. CASE ThreadEnd(t)
  BY <1>6 DEF ThreadEnd, Writes
<1> QED
  BY <1>1, <1>2, <1>3, <1>4, <1>5, <1>6 DEF Thread

(* Every step keeps the invariant. *)
LEMMA SessionInvStep == SessionInv /\ [Next]_vars => SessionInv'
<1> SUFFICES ASSUME SessionInv, [Next]_vars PROVE SessionInv'
  OBVIOUS
<1>1. CASE Caller \/ Closes
  BY <1>1, CallerInv
<1>2. ASSUME NEW t \in Threads, Thread(t) PROVE SessionInv'
  BY <1>2, ThreadInv
<1>3. ASSUME NEW p \in Processes, ProcessExits(p) PROVE SessionInv'
  BY <1>3 DEF ProcessExits, SessionInv, TypeOK, BeforeThreads, ProcessesEnd,
              BridgeInv, JoinedInv, Ended, Running, AllThreads, Processes
<1>4. CASE UNCHANGED vars
  BY <1>4 DEF vars, SessionInv, TypeOK, BeforeThreads, ProcessesEnd,
              BridgeInv, JoinedInv, Ended, Running, AllThreads
<1> QED
  BY <1>1, <1>2, <1>3, <1>4 DEF Next, Finished

(* The inductive invariant holds in every behaviour. *)
THEOREM SessionInvariant == Spec => []SessionInv
  BY InitSessionInv, SessionInvStep, PTL DEF Spec

(* Type correctness of a session. *)
THEOREM TypeCorrect == Spec => []TypeOK
<1>1. SessionInv => TypeOK
  BY DEF SessionInv
<1> QED
  BY <1>1, SessionInvariant, PTL

(* run_tls_mitm_session returns, with success or from any of its early
   returns, only with both openssl processes ended, their pipes and the socket
   to the s_server closed and its threads joined. *)
THEOREM NothingLeftBehind == Spec => []NothingLeft
<1>1. SessionInv => NothingLeft
  BY DEF SessionInv, TypeOK, BeforeThreads, ProcessesEnd, BridgeInv, JoinedInv,
         NothingLeft, Ended, AllThreads, Processes
<1> QED
  BY <1>1, SessionInvariant, PTL

(* The threads the calling thread has still to join wait for nothing that is
   left to the peers: what each of them reads from or writes to has ended. *)
JoinWaitsForNoPeer ==
  pc = "join" => \A t \in Threads :
    /\ thr[t] = "read" => ReadReturns(t)
    /\ thr[t] = "write" => WriteReturns(t)

(* When run_tls_mitm_session comes to its joins, the order of its shutdown,
   sockets first, then the pipes and the process of each OpenSslProcess, has
   ended every wait a thread can be in. *)
THEOREM JoinWaits == Spec => []JoinWaitsForNoPeer
<1>1. SessionInv => JoinWaitsForNoPeer
  <2> SUFFICES ASSUME SessionInv, pc = "join", NEW t \in Threads
               PROVE  ReadReturns(t) /\ WriteReturns(t)
    BY DEF JoinWaitsForNoPeer
  <2>1. ~bridge /\ ~Running("server") /\ ~Running("client")
    BY DEF SessionInv, ProcessesEnd, BridgeInv, Ended
  <2> QED
    BY <2>1 DEF ReadReturns, WriteReturns, Reads, Writes, Threads, Relays
<1> QED
  BY <1>1, SessionInvariant, PTL

=============================================================================
