-------------------------- MODULE LeafCertificates --------------------------
(***************************************************************************)
(* CertificateManager::generate_leaf_certificate, called by every          *)
(* man-in-the-middle session for the host it connects to, and the cache of *)
(* certificates on disk that the sessions share without a lock.  One host: *)
(* the files of two hosts do not meet.  A file holds what tells its        *)
(* versions apart: which call's openssl made the key it is, or is for.     *)
(*                                                                         *)
(* The openssl commands are processes of their own, one at a time for a    *)
(* call: they may fail or be killed at any point, and they may outlive the *)
(* proxy that started them.  A command truncates its output when it opens  *)
(* it and fills it later.                                                  *)
(***************************************************************************)
EXTENDS Naturals

CONSTANTS
  Sessions,  \* the threads that need a certificate
  MaxCalls,  \* bound: calls of one session
  NoFile,    \* a file that is not there
  Torn       \* a file that is there, empty or cut short

Versions == Sessions \X (1..MaxCalls)
Contents == Versions \cup {NoFile, Torn}

ASSUME CallsAssumption == MaxCalls \in Nat
ASSUME FilesAssumption ==
  /\ NoFile \notin Versions
  /\ Torn \notin Versions
  /\ NoFile # Torn

VARIABLES
  pc,      \* where each session is in generate_leaf_certificate
  calls,   \* how many calls each has made
  cmd,     \* where the openssl command of a call is
  input,   \* the request that a command signs
  key,     \* <host>.key
  csr,     \* <host>.csr: the key it asks a certificate for
  crt,     \* <host>.crt: the key it certifies
  ext,     \* <host>.ext is there
  alone,   \* history: no two calls have generated at the same time, a call
           \* whose command has outlived it included
  broken   \* history: a command has ended with the certificate half written

files == <<key, csr, crt, ext>>
vars == <<pc, calls, cmd, input, files, alone, broken>>

Generating == {"ext", "req", "sign", "remove", "verify"}
Version(s) == <<s, calls[s]>>

Init ==
  /\ pc = [s \in Sessions |-> "idle"]
  /\ calls = [s \in Sessions |-> 0]
  /\ cmd = [v \in Versions |-> "none"]
  /\ input = [v \in Versions |-> NoFile]
  /\ key = NoFile
  /\ csr = NoFile
  /\ crt = NoFile
  /\ ext = FALSE
  /\ alone = TRUE
  /\ broken = FALSE

-----------------------------------------------------------------------------
(* generate_leaf_certificate *)

Goto(s, where) == pc' = [pc EXCEPT ![s] = where]

Run(v, step) == cmd' = [cmd EXCEPT ![v] = step]

Cached == crt # NoFile /\ key # NoFile

(* Nobody is generating, and no command is left from one who was. *)
Quiet ==
  /\ \A s \in Sessions : pc[s] \notin Generating
  /\ \A v \in Versions : cmd[v] = "none"

(* Mutant of Call: the key alone is taken for the pair. *)
CallTestsKey(s) ==
  /\ pc[s] \in {"idle", "ok", "failed"}
  /\ calls[s] < MaxCalls
  /\ calls' = [calls EXCEPT ![s] = @ + 1]
  /\ Goto(s, IF key # NoFile THEN "ok" ELSE "ext")
  /\ alone' = (alone /\ (key # NoFile \/ Quiet))
  /\ UNCHANGED <<cmd, input, files, broken>>

(* Mutant of Call: the pair is made anew. *)
CallAlwaysGenerates(s) ==
  /\ pc[s] \in {"idle", "ok", "failed"}
  /\ calls[s] < MaxCalls
  /\ calls' = [calls EXCEPT ![s] = @ + 1]
  /\ Goto(s, "ext")
  /\ alone' = (alone /\ Quiet)
  /\ UNCHANGED <<cmd, input, files, broken>>

(* The pair is looked for in the cache: what exists() finds is taken, whole or
   torn. *)
Call(s) ==
  /\ pc[s] \in {"idle", "ok", "failed"}
  /\ calls[s] < MaxCalls
  /\ calls' = [calls EXCEPT ![s] = @ + 1]
  /\ Goto(s, IF Cached THEN "ok" ELSE "ext")
  /\ alone' = (alone /\ (Cached \/ Quiet))
  /\ UNCHANGED <<cmd, input, files, broken>>

(* The CA files or the cache directory are not there: return false, whether
   the pair is in the cache or not. *)
CallRefused(s) ==
  /\ pc[s] \in {"idle", "ok", "failed"}
  /\ calls[s] < MaxCalls
  /\ calls' = [calls EXCEPT ![s] = @ + 1]
  /\ Goto(s, "failed")
  /\ UNCHANGED <<cmd, input, files, alone, broken>>

(* The ext file, the same for every call, is written, and openssl req started. *)
WriteExt(s) ==
  /\ pc[s] = "ext"
  /\ ext' = TRUE
  /\ Run(Version(s), "key")
  /\ Goto(s, "req")
  /\ UNCHANGED <<calls, input, key, csr, crt, alone, broken>>

(* It cannot be created: return false. *)
FailExt(s) ==
  /\ pc[s] = "ext"
  /\ Goto(s, "failed")
  /\ UNCHANGED <<calls, cmd, input, files, alone, broken>>

(* Failures to remove are ignored. *)
Remove(s) ==
  /\ pc[s] = "remove"
  /\ csr' \in {csr, NoFile}
  /\ ext' \in {ext, FALSE}
  /\ Goto(s, "verify")
  /\ UNCHANGED <<calls, cmd, input, key, crt, alone, broken>>

Verify(s) ==
  /\ pc[s] = "verify"
  /\ Goto(s, IF Cached THEN "ok" ELSE "failed")
  /\ UNCHANGED <<calls, cmd, input, files, alone, broken>>

-----------------------------------------------------------------------------
(* The openssl commands, and the end of std::system for who waits for one. *)

(* Session s waits for the command of call v. *)
Waits(s, v) == pc[s] \in {"req", "sign"} /\ Version(s) = v

(* The session that waits for it, if there still is one, is there now. *)
Resume(v, where) == pc' = [s \in Sessions |-> IF Waits(s, v) THEN where ELSE pc[s]]

(* openssl req opens the key file ... *)
OpenKey(v) ==
  /\ cmd[v] = "key"
  /\ key' = Torn
  /\ Run(v, "keywrite")
  /\ UNCHANGED <<pc, calls, input, csr, crt, ext, alone, broken>>

(* ... writes a new key to it ... *)
WriteKey(v) ==
  /\ cmd[v] = "keywrite"
  /\ key' = v
  /\ Run(v, "csr")
  /\ UNCHANGED <<pc, calls, input, csr, crt, ext, alone, broken>>

(* ... and then, from its memory, the request for it, and ends.  The session
   that waited starts openssl x509. *)
WriteCsr(v) ==
  /\ cmd[v] = "csr"
  /\ csr' = v
  /\ Run(v, IF \E s \in Sessions : Waits(s, v) THEN "sign" ELSE "none")
  /\ Resume(v, "sign")
  /\ UNCHANGED <<calls, input, key, crt, ext, alone, broken>>

(* openssl x509 -req reads the request that is in the file, and opens the
   certificate file ... *)
OpenCrt(v) ==
  /\ cmd[v] = "sign"
  /\ csr # NoFile
  /\ ext
  /\ input' = [input EXCEPT ![v] = csr]
  /\ crt' = Torn
  /\ Run(v, "crtwrite")
  /\ UNCHANGED <<pc, calls, key, csr, ext, alone, broken>>

(* ... writes what it has signed, and ends. *)
WriteCrt(v) ==
  /\ cmd[v] = "crtwrite"
  /\ crt' = input[v]
  /\ input' = [input EXCEPT ![v] = NoFile]
  /\ Run(v, "none")
  /\ Resume(v, "remove")
  /\ UNCHANGED <<calls, key, csr, ext, alone, broken>>

(* A command fails or is killed: the file it had opened stays torn, a torn
   request being as good as none, and the session that waited returns false. *)
CommandFails(v) ==
  /\ cmd[v] # "none"
  /\ csr' \in IF cmd[v] = "csr" THEN {csr, NoFile} ELSE {csr}
  /\ broken' = (broken \/ cmd[v] = "crtwrite")
  /\ input' = [input EXCEPT ![v] = NoFile]
  /\ Run(v, "none")
  /\ Resume(v, "failed")
  /\ UNCHANGED <<calls, key, crt, ext, alone>>

(* The proxy ends, at any moment, and is started again: the files stay, and the
   commands go on until they end by themselves or are killed. *)
Restart ==
  /\ \E s \in Sessions : pc[s] # "idle"
  /\ pc' = [s \in Sessions |-> "idle"]
  /\ UNCHANGED <<calls, cmd, input, files, alone, broken>>

Step(s) ==
  Call(s) \/ CallRefused(s) \/ WriteExt(s) \/ FailExt(s) \/ Remove(s) \/ Verify(s)

Command(v) ==
  OpenKey(v) \/ WriteKey(v) \/ WriteCsr(v) \/ OpenCrt(v) \/ WriteCrt(v) \/ CommandFails(v)

Next == (\E s \in Sessions : Step(s)) \/ (\E v \in Versions : Command(v)) \/ Restart

Spec == Init /\ [][Next]_vars

-----------------------------------------------------------------------------
(* Properties *)

(* Type invariant of the certificate cache. *)
TypeOK ==
  /\ pc \in [Sessions -> Generating \cup {"idle", "ok", "failed"}]
  /\ calls \in [Sessions -> 0..MaxCalls]
  /\ cmd \in [Versions -> {"none", "key", "keywrite", "csr", "sign", "crtwrite"}]
  /\ input \in [Versions -> Contents]
  /\ key \in Contents
  /\ csr \in Versions \cup {NoFile}
  /\ crt \in Contents
  /\ ext \in BOOLEAN
  /\ alone \in BOOLEAN
  /\ broken \in BOOLEAN

(* The certificate is torn, by a command that is still to fill it or by one that
   has ended before it did. *)
HalfWritten == crt = Torn /\ (broken \/ \E v \in Versions : cmd[v] = "crtwrite")

(* A call that returned true leaves its session a whole key and a certificate
   for it, unless two calls have generated at the same time.  What failures, kills
   and restarts at any point leave behind does no harm, but for a command that is
   stopped, or looked at, between the opening of the certificate and its writing:
   exists() takes the torn file for a certificate. *)
OkMeansPair ==
  \A s \in Sessions :
    pc[s] = "ok" => Cached /\ (alone => key \in Versions /\ (crt = key \/ HalfWritten))

(* A pair that is there when nobody is generating is never touched again: the
   s_server processes of other sessions, and later calls, rely on it. *)
Settled == Cached /\ Quiet

CacheStays == [][ Settled => Settled' /\ UNCHANGED <<key, crt>> ]_vars

=============================================================================
