------------------------ MODULE TlsTerminatorsProofs ------------------------
(***************************************************************************)
(* Proofs about LeafCertificates and TlsTerminators, for any number of     *)
(* sessions, calls and ports.  The cache is proved about by itself, under  *)
(* its own specification; the sessions are shown to use it as that         *)
(* specification says, which carries the results over.                     *)
(***************************************************************************)
EXTENDS TlsTerminators, TLAPS

-----------------------------------------------------------------------------
(* The certificate cache. *)

(* A session that is not idle has been called; a command belongs to a call that
   was made. *)
CalledInv ==
  /\ \A s \in Sessions : pc[s] # "idle" => calls[s] # 0
  /\ \A v \in Versions : cmd[v] # "none" => v[2] <= calls[v[1]]

(* The key is opened before the certificate, and neither is ever removed. *)
FilesInv ==
  /\ key = NoFile => crt = NoFile
  /\ \A v \in Versions :
       /\ cmd[v] \in {"keywrite", "csr", "sign", "crtwrite"} => key # NoFile
       /\ cmd[v] = "crtwrite" => input[v] # NoFile
  /\ \A s \in Sessions :
       /\ pc[s] = "sign" => key # NoFile
       /\ pc[s] \in {"remove", "verify", "ok"} => Cached

(* One call at most is generating, and it has found no certificate. *)
OneInv ==
  /\ \A s, o \in Sessions : pc[s] \in Generating /\ pc[o] \in Generating => s = o
  /\ \A v, w \in Versions : cmd[v] # "none" /\ cmd[w] # "none" => v = w
  /\ \A s \in Sessions, v \in Versions :
       pc[s] \in Generating /\ cmd[v] # "none" => Version(s) = v /\ pc[s] \in {"req", "sign"}

(* The files of the one who is generating. *)
StagesInv ==
  /\ \A s \in Sessions : pc[s] = "ext" => crt = NoFile
  /\ \A v \in Versions :
       /\ cmd[v] \in {"key", "keywrite", "csr", "sign"} => crt = NoFile
       /\ cmd[v] = "csr" => key = v
       /\ cmd[v] = "sign" => csr = key
       /\ cmd[v] = "crtwrite" => input[v] = key /\ key \in Versions /\ crt = Torn

(* The certificate that is there, if one is, is for the key that is there. *)
PairInv == crt # NoFile => key \in Versions /\ (crt = key \/ HalfWritten)

(* While no two calls have generated at the same time. *)
AloneInv == alone => OneInv /\ StagesInv /\ PairInv

(* The inductive invariant of the cache. *)
LeafInv == TypeOK /\ CalledInv /\ FilesInv /\ AloneInv

(* What a call writes is the content of a file. *)
LEMMA VersionIsContent ==
  ASSUME TypeOK, NEW s \in Sessions, calls[s] # 0
  PROVE  Version(s) \in Versions
  BY CallsAssumption DEF TypeOK, Version, Versions

(* The cache begins empty. *)
LEMMA InitLeaf == Init => LeafInv
<1> SUFFICES ASSUME Init PROVE LeafInv
  OBVIOUS
<1> USE DEF Init
<1>1. TypeOK
  <2>1. pc \in [Sessions -> Generating \cup {"idle", "ok", "failed"}]
    BY DEF Generating
  <2>2. calls \in [Sessions -> 0..MaxCalls]
    BY CallsAssumption
  <2> QED
    BY <2>1, <2>2 DEF TypeOK, Contents
<1>2. CalledInv /\ FilesInv /\ AloneInv
  BY DEF CalledInv, FilesInv, AloneInv, OneInv, StagesInv, PairInv, Generating
<1> QED
  BY <1>1, <1>2 DEF LeafInv

(* Type correctness, step by step. *)
LEMMA StepTyped ==
  ASSUME TypeOK, CalledInv, NEW s \in Sessions, Step(s)
  PROVE  TypeOK' /\ CalledInv'
<1> USE CallsAssumption DEF TypeOK, CalledInv, Contents, Goto, Run, Generating, files
<1>0. \A v \in Versions : v[1] \in Sessions /\ v[2] \in Nat
  BY DEF Versions
<1>1. CASE Call(s)
  BY <1>0, <1>1 DEF Call, Cached, Quiet
<1>2. CASE CallRefused(s)
  BY <1>0, <1>2 DEF CallRefused
<1>3. CASE WriteExt(s)
  <2>1. Version(s)[1] = s /\ Version(s)[2] = calls[s]
    BY DEF Version
  <2> QED
    BY <1>3, <2>1, VersionIsContent DEF WriteExt
<1>4. CASE FailExt(s)
  BY <1>4 DEF FailExt
<1>5. CASE Remove(s)
  BY <1>5 DEF Remove
<1>6. CASE Verify(s)
  BY <1>6 DEF Verify, Cached
<1> QED
  BY <1>1, <1>2, <1>3, <1>4, <1>5, <1>6 DEF Step

LEMMA CommandTyped ==
  ASSUME TypeOK, CalledInv, NEW v \in Versions, Command(v)
  PROVE  TypeOK' /\ CalledInv'
<1> USE DEF TypeOK, CalledInv, Contents, Run, Resume, Waits, Generating, files
<1>1. CASE OpenKey(v)
  BY <1>1 DEF OpenKey
<1>2. CASE WriteKey(v)
  BY <1>2 DEF WriteKey
<1>3. CASE WriteCsr(v)
  BY <1>3 DEF WriteCsr
<1>4. CASE OpenCrt(v)
  BY <1>4 DEF OpenCrt
<1>5. CASE WriteCrt(v)
  BY <1>5 DEF WriteCrt
<1>6. CASE CommandFails(v)
  BY <1>6 DEF CommandFails
<1> QED
  BY <1>1, <1>2, <1>3, <1>4, <1>5, <1>6 DEF Command

(* A session's step keeps the order of the files, and the pair of a session
   that generates alone. *)
LEMMA StepKept ==
  ASSUME LeafInv, NEW s \in Sessions, Step(s)
  PROVE  FilesInv' /\ AloneInv'
<1> USE DEF LeafInv, TypeOK, CalledInv, FilesInv, AloneInv, OneInv, StagesInv, PairInv,
            HalfWritten, Cached, Goto, Run, Generating, Version, files
<1>1. CASE Call(s)
  <2>1. /\ pc' = [pc EXCEPT ![s] = IF Cached THEN "ok" ELSE "ext"]
        /\ pc[s] \in {"idle", "ok", "failed"}
        /\ calls' = [calls EXCEPT ![s] = @ + 1]
        /\ UNCHANGED <<cmd, input, key, csr, crt, broken>>
    BY <1>1 DEF Call
  <2>2. alone' => alone /\ (Cached \/ Quiet)
    BY <1>1, Zenon DEF Call
  <2>3. CASE Cached
    BY <2>1, <2>2, <2>3
  <2>4. CASE ~Cached
    <3>1. alone' => alone /\ Quiet
      BY <2>2, <2>4
    <3>2. FilesInv'
      BY <2>1, <2>4
    <3>3. ASSUME alone' PROVE OneInv' /\ StagesInv' /\ PairInv'
      BY <2>1, <2>4, <3>1, <3>3 DEF Quiet
    <3> QED
      BY <3>2, <3>3
  <2> QED
    BY <2>3, <2>4
<1>2. CASE CallRefused(s)
  BY <1>2 DEF CallRefused
<1>3. CASE WriteExt(s)
  BY <1>3, VersionIsContent DEF WriteExt
<1>4. CASE FailExt(s)
  BY <1>4 DEF FailExt
<1>5. CASE Remove(s)
  BY <1>5 DEF Remove
<1>6. CASE Verify(s)
  BY <1>6 DEF Verify
<1> QED
  BY <1>1, <1>2, <1>3, <1>4, <1>5, <1>6 DEF Step

(* So does a command's. *)
LEMMA CommandKept ==
  ASSUME LeafInv, NEW v \in Versions, Command(v)
  PROVE  FilesInv' /\ AloneInv'
<1> USE FilesAssumption
    DEF LeafInv, TypeOK, CalledInv, FilesInv, AloneInv, OneInv, StagesInv, PairInv,
        HalfWritten, Cached, Run, Resume, Waits, Generating, Version, files
<1>1. CASE OpenKey(v)
  BY <1>1 DEF OpenKey
<1>2. CASE WriteKey(v)
  BY <1>2 DEF WriteKey
<1>3. CASE WriteCsr(v)
  BY <1>3 DEF WriteCsr
<1>4. CASE OpenCrt(v)
  BY <1>4 DEF OpenCrt
<1>5. CASE WriteCrt(v)
  BY <1>5 DEF WriteCrt
<1>6. CASE CommandFails(v)
  BY <1>6 DEF CommandFails
<1> QED
  BY <1>1, <1>2, <1>3, <1>4, <1>5, <1>6 DEF Command

(* Every step, a restart among them, keeps the invariant. *)
LEMMA LeafStep == LeafInv /\ [Next]_vars => LeafInv'
<1> SUFFICES ASSUME LeafInv, [Next]_vars PROVE LeafInv'
  OBVIOUS
<1>1. ASSUME NEW s \in Sessions, Step(s) PROVE LeafInv'
  BY <1>1, StepTyped, StepKept DEF LeafInv
<1>2. ASSUME NEW v \in Versions, Command(v) PROVE LeafInv'
  BY <1>2, CommandTyped, CommandKept DEF LeafInv
<1>3. CASE Restart
  BY <1>3 DEF Restart, LeafInv, TypeOK, CalledInv, FilesInv, AloneInv, OneInv, StagesInv,
              PairInv, HalfWritten, Cached, Generating, Version, files
<1>4. CASE UNCHANGED vars
  BY <1>4 DEF vars, files, LeafInv, TypeOK, CalledInv, FilesInv, AloneInv, OneInv, StagesInv,
              PairInv, HalfWritten, Cached, Version
<1> QED
  BY <1>1, <1>2, <1>3, <1>4 DEF Next

(* The inductive invariant holds in every behaviour of the cache. *)
THEOREM LeafInvariant == Spec => []LeafInv
  BY InitLeaf, LeafStep, PTL DEF Spec

(* generate_leaf_certificate returns true only with a whole key and a certificate
   for it on disk, unless two calls have generated at the same time, or a command
   is stopped, or looked at, between the opening of the certificate and its
   writing. *)
THEOREM OkMeansPairHolds == Spec => []OkMeansPair
<1>1. LeafInv => OkMeansPair
  BY DEF LeafInv, FilesInv, AloneInv, PairInv, OkMeansPair, Cached
<1> QED
  BY <1>1, LeafInvariant, PTL

(* With the pair there, nobody generating and no command left, no call, failure
   or restart touches the files again. *)
THEOREM CacheIsSettled == Spec => CacheStays
<1>1. LeafInv /\ [Next]_vars => [Settled => Settled' /\ UNCHANGED <<key, crt>>]_vars
  <2> SUFFICES ASSUME LeafInv, Next, Settled
               PROVE  Settled' /\ UNCHANGED <<key, crt>>
    OBVIOUS
  <2> USE DEF LeafInv, TypeOK, Settled, Quiet, Cached, Goto, files
  <2>1. ASSUME NEW s \in Sessions, Step(s) PROVE Settled' /\ UNCHANGED <<key, crt>>
    BY <2>1 DEF Step, Call, CallRefused, WriteExt, FailExt, Remove, Verify, Generating
  <2>2. ASSUME NEW v \in Versions, Command(v) PROVE FALSE
    BY <2>2 DEF Command, OpenKey, WriteKey, WriteCsr, OpenCrt, WriteCrt, CommandFails
  <2>3. CASE Restart
    BY <2>3 DEF Restart, Generating
  <2> QED
    BY <2>1, <2>2, <2>3 DEF Next
<1> QED
  BY <1>1, LeafInvariant, PTL DEF Spec, CacheStays

-----------------------------------------------------------------------------
(* The sessions and their s_servers. *)

(* What a session has, by where it is. *)
PlacesInv ==
  \A s \in Sessions :
    /\ at[s] \in {"idle", "certificate"} => port[s] = Nobody
    /\ at[s] \in {"idle", "certificate", "start"} => server[s] = "none"
    /\ at[s] \in {"start", "connect", "bridged"} => port[s] \in Ports
    /\ at[s] # "bridged" => reached[s] = Nobody

(* Whoever listens on a session's port and is not its own s_server has bound it
   after the session found it free. *)
PortsInv ==
  \A s \in Sessions :
    port[s] \in Ports /\ listener[port[s]] \notin {s, Nobody} => taken[s]

(* The inductive invariant of the composition, beside LeafInv. *)
SetupInv ==
  /\ SetupTypeOK
  /\ PlacesInv
  /\ PortsInv
  /\ OwnServer

(* Every step of the composition is a step of the cache, or leaves it alone. *)
LEMMA CacheStepped == [SetupNext]_<<vars, setupVars>> => [Next]_vars
<1> SUFFICES ASSUME [SetupNext]_<<vars, setupVars>> PROVE [Next]_vars
  OBVIOUS
<1>1. ASSUME NEW s \in Sessions, Session(s) PROVE [Next]_vars
  BY <1>1 DEF Session, BeginSession, Generate, AllocatePort, StartServer, ConnectBridge,
     EndSession, Leave, ServerAccepts, ServerEnds, Next, Step
<1>5. ASSUME NEW v \in Versions, RunCommand(v) PROVE [Next]_vars
  BY <1>5 DEF RunCommand, Next
<1>2. ASSUME NEW p \in Ports, OtherBinds(p) \/ OtherCloses(p) PROVE [Next]_vars
  BY <1>2 DEF OtherBinds, OtherCloses
<1>3. CASE ProxyRestarts
  BY <1>3 DEF ProxyRestarts, Next
<1>4. CASE UNCHANGED <<vars, setupVars>>
  BY <1>4
<1> QED
  BY <1>1, <1>2, <1>3, <1>4, <1>5 DEF SetupNext

(* The sessions use the certificate cache as LeafCertificates says. *)
THEOREM SessionsUseCache == SetupSpec => Spec
<1>1. SetupInit => Init
  BY DEF SetupInit
<1> QED
  BY <1>1, CacheStepped, PTL DEF SetupSpec, Spec

(* A returned certificate is one for the key, for the sessions as composed. *)
THEOREM SessionsOkMeansPair == SetupSpec => []OkMeansPair
  BY SessionsUseCache, OkMeansPairHolds, PTL

(* The pair in the cache stays, for the sessions as composed. *)
THEOREM SessionsCacheStays == SetupSpec => CacheStays
  BY SessionsUseCache, CacheIsSettled, PTL

(* The composition begins with no session, no s_server and every port free. *)
LEMMA InitSetup == SetupInit => SetupInv
<1> SUFFICES ASSUME SetupInit PROVE SetupInv
  OBVIOUS
<1>1. TypeOK
  BY InitLeaf DEF SetupInit, LeafInv
<1>2. SetupTypeOK
  BY <1>1, NamesAssumption DEF SetupInit, SetupTypeOK
<1>3. PlacesInv /\ PortsInv /\ OwnServer
  BY NamesAssumption DEF SetupInit, PlacesInv, PortsInv, OwnServer
<1> QED
  BY <1>2, <1>3 DEF SetupInv

(* Whoever binds a port takes it from the sessions that hold its number, and
   gives none back. *)
LEMMA BindTakes ==
  ASSUME SetupTypeOK, NEW p \in Ports, NEW who, Bind(p, who), NEW o \in Sessions
  PROVE  /\ taken[o] => taken'[o]
         /\ port[o] = p /\ o # who => taken'[o]
<1>1. taken'[o] = (taken[o] \/ (port[o] = p /\ o # who))
  BY DEF Bind
<1> QED
  BY <1>1, Zenon

(* A port that is bound keeps PortsInv and OwnServer. *)
LEMMA BindKeeps ==
  ASSUME SetupInv, NEW p \in Ports, NEW who, Bind(p, who), UNCHANGED <<port, reached>>
  PROVE  PortsInv' /\ OwnServer' /\ taken' \in [Sessions -> BOOLEAN]
<1> USE DEF SetupInv, SetupTypeOK
<1>1. ASSUME NEW o \in Sessions, port[o] \in Ports, listener'[port[o]] \notin {o, Nobody}
      PROVE  taken'[o]
  <2>1. CASE port[o] = p
    <3>1. listener'[p] = who
      BY DEF Bind
    <3>2. o # who
      BY <1>1, <2>1, <3>1
    <3> QED
      BY <2>1, <3>2, BindTakes
  <2>2. CASE port[o] # p
    <3>1. listener'[port[o]] = listener[port[o]]
      BY <1>1, <2>2 DEF Bind
    <3>2. taken[o]
      BY <1>1, <3>1 DEF PortsInv
    <3> QED
      BY <3>2, BindTakes
  <2> QED
    BY <2>1, <2>2
<1>2. ASSUME NEW o \in Sessions, reached[o] \notin {o, Nobody}
      PROVE  taken'[o]
  BY <1>2, BindTakes DEF OwnServer
<1>3. taken' \in [Sessions -> BOOLEAN]
  <2>1. taken' = [o \in Sessions |-> taken[o] \/ (port[o] = p /\ o # who)]
    BY DEF Bind
  <2> QED
    BY <2>1, Zenon
<1> QED
  BY <1>1, <1>2, <1>3 DEF PortsInv, OwnServer

(* The steps of a session and of its s_server. *)
LEMMA SessionInvStep ==
  ASSUME SetupInv, TypeOK', NEW s \in Sessions, Session(s)
  PROVE  SetupInv'
<1> USE NamesAssumption DEF SetupInv, SetupTypeOK, PlacesInv, PortsInv, OwnServer, Enter
<1>1. CASE BeginSession(s)
  BY <1>1 DEF BeginSession
<1>2. CASE Generate(s)
  BY <1>2 DEF Generate, setupVars
<1>3. CASE AllocatePort(s)
  BY <1>3 DEF AllocatePort
<1>4. CASE StartServer(s)
  BY <1>4 DEF StartServer
<1>5. CASE ConnectBridge(s)
  BY <1>5 DEF ConnectBridge
<1>6. CASE EndSession(s)
  BY <1>6 DEF EndSession, Leave
<1>7. CASE ServerAccepts(s)
  <2>1. port[s] \in Ports /\ listener[port[s]] = Nobody /\ server[s] = "starting"
    BY <1>7 DEF ServerAccepts, Bind
  <2>2. /\ listener' = [listener EXCEPT ![port[s]] = s]
        /\ server' = [server EXCEPT ![s] = "accepting"]
        /\ at' = at /\ port' = port /\ reached' = reached
    BY <1>7 DEF ServerAccepts, Bind
  <2>3. PortsInv' /\ OwnServer' /\ taken' \in [Sessions -> BOOLEAN]
    BY <1>7, <2>1, <2>2, BindKeeps DEF ServerAccepts
  <2>4. ASSUME NEW p \in Ports, NEW o \in Sessions
        PROVE  listener'[p] = o <=> server'[o] = "accepting" /\ port'[o] = p
    BY <2>1, <2>2
  <2>5. SetupTypeOK'
    BY <2>1, <2>2, <2>3, <2>4
  <2>6. PlacesInv'
    BY <2>1, <2>2
  <2> QED
    BY <2>3, <2>5, <2>6
<1>8. CASE ServerEnds(s)
  BY <1>8 DEF ServerEnds
<1> QED
  BY <1>1, <1>2, <1>3, <1>4, <1>5, <1>6, <1>7, <1>8 DEF Session

(* Every step keeps the invariant. *)
LEMMA SetupStep == SetupInv /\ TypeOK' /\ [SetupNext]_<<vars, setupVars>> => SetupInv'
<1> SUFFICES ASSUME SetupInv, TypeOK', [SetupNext]_<<vars, setupVars>> PROVE SetupInv'
  OBVIOUS
<1>1. ASSUME NEW s \in Sessions, Session(s) PROVE SetupInv'
  BY <1>1, SessionInvStep
<1>2. ASSUME NEW p \in Ports, OtherBinds(p) PROVE SetupInv'
  <2> USE DEF OtherBinds
  <2>1. PortsInv' /\ OwnServer' /\ taken' \in [Sessions -> BOOLEAN]
    BY <1>2, BindKeeps
  <2>2. SetupTypeOK' /\ PlacesInv'
    BY <1>2, <2>1, NamesAssumption DEF Bind, SetupInv, SetupTypeOK, PlacesInv
  <2> QED
    BY <2>1, <2>2 DEF SetupInv
<1>3. ASSUME NEW p \in Ports, OtherCloses(p) PROVE SetupInv'
  BY <1>3, NamesAssumption
     DEF OtherCloses, SetupInv, SetupTypeOK, PlacesInv, PortsInv, OwnServer
<1>6. ASSUME NEW v \in Versions, RunCommand(v) PROVE SetupInv'
  BY <1>6 DEF RunCommand, setupVars, SetupInv, SetupTypeOK, PlacesInv, PortsInv, OwnServer
<1>4. CASE ProxyRestarts
  BY <1>4, NamesAssumption
     DEF ProxyRestarts, SetupInv, SetupTypeOK, PlacesInv, PortsInv, OwnServer
<1>5. CASE UNCHANGED <<vars, setupVars>>
  BY <1>5 DEF setupVars, SetupInv, SetupTypeOK, PlacesInv, PortsInv, OwnServer
<1> QED
  BY <1>1, <1>2, <1>3, <1>4, <1>5, <1>6 DEF SetupNext

(* The inductive invariant holds in every behaviour of the composition. *)
THEOREM SetupInvariant == SetupSpec => []SetupInv
<1>1. LeafInv => TypeOK
  BY DEF LeafInv
<1> QED
  BY <1>1, SessionsUseCache, LeafInvariant, InitSetup, SetupStep, PTL DEF SetupSpec

(* Type correctness of the cache, the sessions, their processes and the ports. *)
THEOREM SetupTypeCorrect == SetupSpec => []SetupTypeOK
<1>1. SetupInv => SetupTypeOK
  BY DEF SetupInv
<1> QED
  BY <1>1, SetupInvariant, PTL

(* A session is connected to its own s_server, unless another has bound the
   port since allocate_local_port let go of it. *)
THEOREM OwnServerHolds == SetupSpec => []OwnServer
<1>1. SetupInv => OwnServer
  BY DEF SetupInv
<1> QED
  BY <1>1, SetupInvariant, PTL

=============================================================================
