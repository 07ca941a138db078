---------------------------- MODULE MitmSession ----------------------------
(***************************************************************************)
(* HttpsMitmProxy::run_tls_mitm_session: the calling thread starts an      *)
(* openssl s_server and an openssl s_client, and four threads between      *)
(* which the bytes go round:                                               *)
(*   c2s, s2c           relay_socket_stream, ciphertext between the client *)
(*                      and the s_server                                   *)
(*   outbound, inbound  plaintext from the stdout of one process, patched, *)
(*                      to the stdin of the other                          *)
(* They share stop_requested and end one another by what they close.  The  *)
(* bytes are left out; what a thread waits for, and what ends the wait, is *)
(* not.                                                                    *)
(***************************************************************************)
Relays == {"c2s", "s2c"}
Plain == {"outbound", "inbound"}
Threads == Relays \cup Plain
Processes == {"server", "client"}

(* The process a plaintext thread reads from, and the one it writes to. *)
Reads(t) == IF t = "outbound" THEN "server" ELSE "client"
Writes(t) == IF t = "outbound" THEN "client" ELSE "server"

VARIABLES
  pc,       \* where run_tls_mitm_session is
  stop,     \* stop_requested
  proc,     \* the openssl processes: none, running, exited, stopped
  stdin,    \* stdin_write_handle_ of each is there
  stdout,   \* stdout_read_handle_ of each is there
  bridge,   \* tls_bridge_socket is open
  client,   \* client_socket is not shut down
  thr,      \* where each thread is
  victim    \* the process the calling thread stops at the end

procVars == <<proc, stdin, stdout>>
vars == <<pc, stop, proc, stdin, stdout, bridge, client, thr, victim>>

Init ==
  /\ pc = "prepare"
  /\ stop = FALSE
  /\ proc = [p \in Processes |-> "none"]
  /\ stdin = [p \in Processes |-> FALSE]
  /\ stdout = [p \in Processes |-> FALSE]
  /\ bridge = FALSE
  /\ client = TRUE
  /\ thr = [t \in Threads |-> "off"]
  /\ victim = "server"

-----------------------------------------------------------------------------
(* OpenSslProcess *)

(* start succeeds. *)
StartProcess(p) ==
  /\ proc' = [proc EXCEPT ![p] = "running"]
  /\ stdin' = [stdin EXCEPT ![p] = TRUE]
  /\ stdout' = [stdout EXCEPT ![p] = TRUE]

(* Mutant of StopProcess: the pipes are closed and the process left alone. *)
ClosePipes(p) ==
  /\ stdin' = [stdin EXCEPT ![p] = FALSE]
  /\ stdout' = [stdout EXCEPT ![p] = FALSE]
  /\ UNCHANGED proc

(* stop, before there are threads that use the pipes: both are closed, then
   the process is terminated. *)
StopProcess(p) ==
  /\ proc' = [proc EXCEPT ![p] = IF @ = "none" THEN "none" ELSE "stopped"]
  /\ stdin' = [stdin EXCEPT ![p] = FALSE]
  /\ stdout' = [stdout EXCEPT ![p] = FALSE]

(* A process ends by itself. *)
ProcessExits(p) ==
  /\ proc[p] = "running"
  /\ proc' = [proc EXCEPT ![p] = "exited"]
  /\ UNCHANGED <<pc, stop, stdin, stdout, bridge, client, thr, victim>>

Running(p) == proc[p] = "running"

-----------------------------------------------------------------------------
(* The calling thread. *)

(* No leaf certificate, no local port, or no s_server: return false. *)
PrepareFail ==
  /\ pc = "prepare"
  /\ pc' = "failed"
  /\ UNCHANGED <<stop, procVars, bridge, client, thr, victim>>

StartServer ==
  /\ pc = "prepare"
  /\ StartProcess("server")
  /\ pc' = "connect"
  /\ UNCHANGED <<stop, bridge, client, thr, victim>>

(* connect_local_port: one of its thirty attempts succeeds.  Whoever listens
   on the port is reached, see TlsTerminators. *)
ConnectBridge ==
  /\ pc = "connect"
  /\ bridge' = TRUE
  /\ pc' = "start_client"
  /\ UNCHANGED <<stop, procVars, client, thr, victim>>

ConnectFail ==
  /\ pc = "connect"
  /\ StopProcess("server")
  /\ pc' = "failed"
  /\ UNCHANGED <<stop, bridge, client, thr, victim>>

(* The s_client is started, and the four threads with it. *)
StartClient ==
  /\ pc = "start_client"
  /\ StartProcess("client")
  /\ thr' = [t \in Threads |-> "top"]
  /\ pc' = "poll"
  /\ UNCHANGED <<stop, bridge, client, victim>>

StartClientFail ==
  /\ pc = "start_client"
  /\ bridge' = FALSE
  /\ StopProcess("server")
  /\ pc' = "failed"
  /\ UNCHANGED <<stop, client, thr, victim>>

(* The loop that watches the flag and the processes. *)
Poll ==
  /\ pc = "poll"
  /\ stop \/ \E p \in Processes : ~Running(p)
  /\ stop' = TRUE
  /\ pc' = "shutdown"
  /\ UNCHANGED <<procVars, bridge, client, thr, victim>>

ShutdownSockets ==
  /\ pc = "shutdown"
  /\ client' = FALSE
  /\ bridge' = FALSE
  /\ pc' = "close_stdin"
  /\ UNCHANGED <<stop, procVars, thr, victim>>

(* stop of the s_server, then of the s_client, in the steps the plaintext
   threads can come between. *)
CloseStdin ==
  /\ pc = "close_stdin"
  /\ stdin' = [stdin EXCEPT ![victim] = FALSE]
  /\ pc' = "close_stdout"
  /\ UNCHANGED <<stop, proc, stdout, bridge, client, thr, victim>>

CloseStdout ==
  /\ pc = "close_stdout"
  /\ stdout' = [stdout EXCEPT ![victim] = FALSE]
  /\ pc' = "terminate"
  /\ UNCHANGED <<stop, proc, stdin, bridge, client, thr, victim>>

NextVictim ==
  /\ victim' = "client"
  /\ pc' = IF victim = "server" THEN "close_stdin" ELSE "join"
  /\ UNCHANGED <<stop, stdin, stdout, bridge, client, thr>>

Terminate ==
  /\ pc = "terminate"
  /\ proc' = [proc EXCEPT ![victim] = "stopped"]
  /\ NextVictim

(* The std::jthread variables join their threads. *)
Join ==
  /\ pc = "join"
  /\ \A t \in Threads : thr[t] = "done"
  /\ pc' = "returned"
  /\ UNCHANGED <<stop, procVars, bridge, client, thr, victim>>

-----------------------------------------------------------------------------
(* The threads.  Each tests the flag, waits to read, writes what it has read. *)

Goto(t, where) == thr' = [thr EXCEPT ![t] = where]

(* The flag is tested, and read_stdout finds its handle gone. *)
Turn(t) ==
  /\ thr[t] = "top"
  /\ IF stop \/ (t \in Plain /\ ~stdout[Reads(t)])
       THEN Goto(t, "end") ELSE Goto(t, "read")
  /\ UNCHANGED <<pc, stop, procVars, bridge, client, victim>>

(* recv or ReadFile returns bytes; a pipe still holds what a process that is
   gone has written. *)
ReadData(t) ==
  /\ thr[t] = "read"
  /\ t = "c2s" => client
  /\ t = "s2c" => bridge
  /\ Goto(t, "write")
  /\ UNCHANGED <<pc, stop, procVars, bridge, client, victim>>

(* They return without: the peer has closed, or the second of the client's
   socket is over, which relay_socket_stream takes for the end; the pipe is
   broken or its handle closed. *)
ReadEnds(t) ==
  /\ thr[t] = "read"
  /\ t \in Plain => ~Running(Reads(t)) \/ ~stdout[Reads(t)]
  /\ Goto(t, "end")
  /\ UNCHANGED <<pc, stop, procVars, bridge, client, victim>>

(* All bytes are written; write_stdin on a closed handle also succeeds. *)
WriteData(t) ==
  /\ thr[t] = "write"
  /\ t = "c2s" => bridge
  /\ t = "s2c" => client
  /\ t \in Plain => ~stdin[Writes(t)] \/ Running(Writes(t))
  /\ Goto(t, "top")
  /\ UNCHANGED <<pc, stop, procVars, bridge, client, victim>>

(* send fails or times out; WriteFile fails once the process is gone, or the
   handle is closed after write_stdin has tested it. *)
WriteFails(t) ==
  /\ thr[t] = "write"
  /\ t \in Plain => ~stdin[Writes(t)] \/ ~Running(Writes(t))
  /\ Goto(t, "end")
  /\ UNCHANGED <<pc, stop, procVars, bridge, client, victim>>

(* Mutant of ThreadEnd: the others are not told. *)
ThreadEndSilent(t) ==
  /\ thr[t] = "end"
  /\ stdin' = IF t \in Plain THEN [stdin EXCEPT ![Writes(t)] = FALSE] ELSE stdin
  /\ Goto(t, "done")
  /\ UNCHANGED <<pc, stop, proc, stdout, bridge, client, victim>>

(* Mutant of ThreadEnd: closing one stdin handle loses the other. *)
ThreadEndLosesHandle(t) ==
  /\ thr[t] = "end"
  /\ stdin' = IF t \in Plain THEN [p \in {Writes(t)} |-> FALSE] ELSE stdin
  /\ stop' = TRUE
  /\ Goto(t, "done")
  /\ UNCHANGED <<pc, proc, stdout, bridge, client, victim>>

(* Every thread ends with the flag set; a plaintext thread first closes the
   stdin it wrote to. *)
ThreadEnd(t) ==
  /\ thr[t] = "end"
  /\ stdin' = IF t \in Plain THEN [stdin EXCEPT ![Writes(t)] = FALSE] ELSE stdin
  /\ stop' = TRUE
  /\ Goto(t, "done")
  /\ UNCHANGED <<pc, proc, stdout, bridge, client, victim>>

-----------------------------------------------------------------------------

Closes == CloseStdin \/ CloseStdout

(* The steps of the calling thread but for the closing of the pipes. *)
Caller ==
  \/ PrepareFail \/ StartServer \/ ConnectBridge \/ ConnectFail
  \/ StartClient \/ StartClientFail \/ Poll
  \/ ShutdownSockets \/ Terminate \/ Join

Thread(t) ==
  \/ Turn(t) \/ ReadData(t) \/ ReadEnds(t)
  \/ WriteData(t) \/ WriteFails(t) \/ ThreadEnd(t)

(* The session has returned. *)
Finished == pc \in {"failed", "returned"} /\ UNCHANGED vars

Next ==
  \/ Caller
  \/ Closes
  \/ \E t \in Threads : Thread(t)
  \/ \E p \in Processes : ProcessExits(p)
  \/ Finished

Spec == Init /\ [][Next]_vars

(* What ends a wait whatever the peers do: the timeouts of the client's
   socket, the end of the bridge, the end of a process. *)
ReadReturns(t) ==
  \/ t = "c2s"
  \/ t = "s2c" /\ ~bridge
  \/ t \in Plain /\ ~Running(Reads(t))

WriteReturns(t) ==
  \/ t = "s2c"
  \/ t = "c2s" /\ ~bridge
  \/ t \in Plain /\ (~stdin[Writes(t)] \/ ~Running(Writes(t)))

(* A plaintext thread is reading or writing the pipe that stop closes. *)
PipeInUse ==
  \E t \in Plain :
    \/ pc = "close_stdin" /\ Writes(t) = victim /\ thr[t] = "write" /\ stdin[victim]
    \/ pc = "close_stdout" /\ Reads(t) = victim /\ thr[t] = "read"

(* Every thread is scheduled and takes note of what ends its wait.  Nothing
   is assumed of the bytes: any other read or write may wait for ever.  Nor is
   it assumed that CloseHandle returns while the pipe is in use. *)
Fairness ==
  /\ WF_vars(Caller)
  /\ WF_vars(~PipeInUse /\ Closes)
  /\ \A t \in Threads :
       /\ WF_vars(Turn(t) \/ ThreadEnd(t))
       /\ WF_vars(ReadReturns(t) /\ (ReadData(t) \/ ReadEnds(t)))
       /\ WF_vars(WriteReturns(t) /\ (WriteData(t) \/ WriteFails(t)))

FairSpec == Spec /\ Fairness

-----------------------------------------------------------------------------
(* Properties *)

(* Type invariant of a session. *)
TypeOK ==
  /\ pc \in {"prepare", "connect", "start_client", "poll", "shutdown",
             "close_stdin", "close_stdout", "terminate", "join", "returned", "failed"}
  /\ stop \in BOOLEAN
  /\ proc \in [Processes -> {"none", "running", "exited", "stopped"}]
  /\ stdin \in [Processes -> BOOLEAN]
  /\ stdout \in [Processes -> BOOLEAN]
  /\ bridge \in BOOLEAN
  /\ client \in BOOLEAN
  /\ thr \in [Threads -> {"off", "top", "read", "write", "end", "done"}]
  /\ victim \in Processes

(* A session that is over, on whichever path, leaves no openssl process, no
   pipe, no socket to it and no thread behind. *)
NothingLeft ==
  pc \in {"failed", "returned"} =>
    /\ \A p \in Processes : ~Running(p) /\ ~stdin[p] /\ ~stdout[p]
    /\ ~bridge
    /\ \A t \in Threads : thr[t] \in {"off", "done"}

(* A thread that ends, or a process that dies, ends the whole session: every
   other thread is woken from whatever it waits for, and joined.  The one
   exception is a CloseHandle that waits, for ever, for a thread in a read or
   write that only the end of a living process would end. *)
OneEndsAll ==
  <>(/\ pc = "poll"
     /\ \/ \E t \in Threads : thr[t] = "end"
        \/ \E p \in Processes : ~Running(p))
    => <>(pc = "returned") \/ <>[](PipeInUse /\ Running(victim))

=============================================================================
