------------------------- MODULE RedirectionProofs -------------------------
(*****************************************************************************)
(* Proofs about FlowTable, for any number of threads and keys, any TTL,      *)
(* capacity and skew, and about WinDivertCapture around it, for any packets, *)
(* ports and listening family: the capture thread and the threads of the     *)
(* proxy use the flow table as FlowTable says, so what is proved about the   *)
(* table holds here; and the proxy finds the target of every redirected      *)
(* packet.                                                                   *)
(*****************************************************************************)
EXTENDS WinDivertCapture, TLAPS

(*****************************************************************************)
(* The flow table                                                            *)
(*****************************************************************************)

(* The inductive invariant. *)
TableInv == TypeOK /\ TouchedTracksUse /\ FreshKept /\ OpsRecent /\ EntriesUsed

(* The call a thread is in, by its name. *)
LEMMA CallTypes ==
  ASSUME TypeOK, NEW t \in Threads
  PROVE  /\ op[t].call = "remember" => /\ op[t] # Idle /\ op[t].key \in Keys
                                       /\ op[t].dest \in Dests /\ op[t].now \in Nat
         /\ op[t].call = "lookup" => op[t] # Idle /\ op[t].key \in Keys /\ op[t].now \in Nat
         /\ op[t] # Idle => op[t].now \in Nat
<1>1. op[t] \in Calls \cup {Idle}
  BY DEF TypeOK
<1>2. CASE op[t] = Idle
  BY <1>2 DEF Idle
<1>3. CASE op[t] \in [call : {"remember"}, key : Keys, dest : Dests, now : Nat]
  BY <1>3 DEF Idle
<1>4. CASE op[t] \in [call : {"lookup"}, key : Keys, now : Nat]
  BY <1>4 DEF Idle
<1> QED
  BY <1>1, <1>2, <1>3, <1>4 DEF Calls

(* The empty table. *)
LEMMA InitTable == Init => TableInv
<1> SUFFICES ASSUME Init PROVE TableInv
  OBVIOUS
<1>1. (CHOOSE d \in Dests : TRUE) \in Dests
  BY ParametersAssumption
<1>2. TypeOK
  BY <1>1 DEF Init, TypeOK, Never
<1> QED
  BY <1>2 DEF Init, TableInv, TouchedTracksUse, FreshKept, OpsRecent, EntriesUsed, Never

(* The clock only moves while every pending call stays within MaxSkew. *)
LEMMA TickTable == TableInv /\ Tick => TableInv'
<1> SUFFICES ASSUME TableInv, Tick PROVE TableInv'
  OBVIOUS
<1>0. TypeOK /\ TouchedTracksUse /\ FreshKept /\ OpsRecent /\ EntriesUsed
  BY DEF TableInv
<1>1. clock \in Nat /\ clock' = clock + 1 /\ UNCHANGED <<tableVars, op, lastUse, latest>>
  BY <1>0 DEF Tick, TypeOK, tableVars
<1>2. \A k \in Keys : lastUse[k] \in Int /\ touched[k] \in Int
  BY <1>0 DEF TypeOK, Never
<1>3. TypeOK'
  BY <1>0, <1>1 DEF TypeOK, tableVars
<1>4. TouchedTracksUse'
  BY <1>0, <1>1 DEF TouchedTracksUse, tableVars
<1>5. FreshKept'
  BY <1>0, <1>1, <1>2, ParametersAssumption DEF FreshKept, tableVars
<1>6. OpsRecent'
  <2> SUFFICES ASSUME NEW t \in Threads, op'[t] # Idle
               PROVE  op'[t].now <= clock' /\ clock' - op'[t].now <= MaxSkew
    BY DEF OpsRecent
  <2>1. op' = op /\ clock' = clock + 1
    BY <1>1
  <2>2. op[t].now \in Nat /\ op[t].now <= clock
    BY <1>0, <2>1, CallTypes DEF OpsRecent
  <2>3. clock + 1 - op[t].now <= MaxSkew
    BY <2>1 DEF Tick
  <2> QED
    BY <1>1, <2>1, <2>2, <2>3
<1>7. EntriesUsed'
  BY <1>0, <1>1, <1>2 DEF EntriesUsed, tableVars
<1> QED
  BY <1>3, <1>4, <1>5, <1>6, <1>7 DEF TableInv

(* A call samples the clock. *)
LEMMA CallTable ==
  ASSUME TableInv, NEW t \in Threads,
         \/ \E k \in Keys, d \in Dests : CallRemember(t, k, d)
         \/ \E k \in Keys : CallLookup(t, k)
  PROVE  TableInv'
<1>0. TypeOK /\ TouchedTracksUse /\ FreshKept /\ OpsRecent /\ EntriesUsed
  BY DEF TableInv
<1>1. PICK c \in Calls : op' = [op EXCEPT ![t] = c] /\ c.now = clock /\ c # Idle
  <2>1. CASE \E k \in Keys, d \in Dests : CallRemember(t, k, d)
    <3>1. PICK k \in Keys, d \in Dests : CallRemember(t, k, d)
      BY <2>1
    <3> DEFINE c == [call |-> "remember", key |-> k, dest |-> d, now |-> clock]
    <3>2. c \in Calls /\ c.now = clock /\ c # Idle
      BY <1>0 DEF Calls, TypeOK, Idle
    <3> QED
      BY <3>1, <3>2 DEF CallRemember
  <2>2. CASE \E k \in Keys : CallLookup(t, k)
    <3>1. PICK k \in Keys : CallLookup(t, k)
      BY <2>2
    <3> DEFINE c == [call |-> "lookup", key |-> k, now |-> clock]
    <3>2. c \in Calls /\ c.now = clock /\ c # Idle
      BY <1>0 DEF Calls, TypeOK, Idle
    <3> QED
      BY <3>1, <3>2 DEF CallLookup
  <2> QED
    BY <2>1, <2>2
<1>2. UNCHANGED <<clock, tableVars, lastUse, latest>>
  BY DEF CallRemember, CallLookup, tableVars
<1>3. TypeOK'
  BY <1>0, <1>1, <1>2 DEF TypeOK, tableVars
<1>4. OpsRecent'
  <2> SUFFICES ASSUME NEW u \in Threads, op'[u] # Idle
               PROVE  op'[u].now <= clock /\ clock - op'[u].now <= MaxSkew
    BY <1>2 DEF OpsRecent
  <2>1. CASE u = t
    BY <1>0, <1>1, <2>1, ParametersAssumption DEF TypeOK
  <2>2. CASE u # t
    BY <1>0, <1>1, <2>2 DEF TypeOK, OpsRecent
  <2> QED
    BY <2>1, <2>2
<1> QED
  BY <1>0, <1>2, <1>3, <1>4
  DEF TableInv, TouchedTracksUse, FreshKept, EntriesUsed, tableVars

(* remember_mapping uses its entry now; what it prunes has not been used for
   more than TTL - MaxSkew. *)
LEMMA RememberTable ==
  ASSUME TableInv, NEW t \in Threads, Remember(t)
  PROVE  TableInv'
<1>0. TypeOK /\ TouchedTracksUse /\ FreshKept /\ OpsRecent /\ EntriesUsed
  BY DEF TableInv
<1>1. PICK k \in Keys, now \in Nat, d \in Dests :
        /\ now <= clock /\ clock - now <= MaxSkew
        /\ touched' = [touched EXCEPT ![k] = now]
        /\ dest' = [dest EXCEPT ![k] = d]
        /\ present' = IF Cardinality(present \cup {k}) > Capacity
                        THEN PruneExpired(present \cup {k}, touched', now)
                        ELSE present \cup {k}
        /\ lastUse' = [lastUse EXCEPT ![k] = clock]
        /\ latest' = [latest EXCEPT ![k] = d]
        /\ op' = [op EXCEPT ![t] = Idle]
        /\ clock' = clock
  <2>1. /\ op[t].key \in Keys /\ op[t].now \in Nat /\ op[t].dest \in Dests /\ op[t] # Idle
    BY <1>0, CallTypes DEF Remember
  <2>2. op[t].now <= clock /\ clock - op[t].now <= MaxSkew
    BY <1>0, <2>1 DEF OpsRecent
  <2> QED
    BY <2>1, <2>2 DEF Remember
<1>2. /\ clock \in Nat /\ MaxSkew \in Nat /\ TTL \in Nat
      /\ \A j \in Keys : touched[j] \in Nat /\ lastUse[j] \in Int
  BY <1>0, ParametersAssumption DEF TypeOK, Never
<1>3. present' \subseteq present \cup {k}
  BY <1>1 DEF PruneExpired
<1>4. /\ \A j \in Keys : touched'[j] = IF j = k THEN now ELSE touched[j]
      /\ \A j \in Keys : lastUse'[j] = IF j = k THEN clock ELSE lastUse[j]
  BY <1>0, <1>1 DEF TypeOK
<1>5. \A j \in present \cup {k} : j \notin present' => now - touched'[j] > TTL
  BY <1>1 DEF PruneExpired, Expired
<1>6. TypeOK'
  BY <1>0, <1>1, <1>3 DEF TypeOK
<1>7. TouchedTracksUse'
  <2> SUFFICES ASSUME NEW j \in present'
               PROVE  lastUse'[j] - MaxSkew <= touched'[j] /\ touched'[j] <= lastUse'[j]
    BY DEF TouchedTracksUse
  <2>1. j \in Keys /\ (j = k \/ j \in present)
    BY <1>0, <1>3 DEF TypeOK
  <2> QED
    BY <1>0, <1>1, <1>2, <1>4, <2>1 DEF TouchedTracksUse
<1>8. FreshKept'
  <2> SUFFICES ASSUME NEW j \in Keys, lastUse'[j] # Never, j \notin present'
               PROVE  clock - lastUse'[j] > TTL - MaxSkew
    BY <1>1 DEF FreshKept
  <2>1. CASE j = k
    <3>1. touched'[k] = now /\ now - touched'[k] > TTL
      BY <1>4, <1>5, <2>1
    <3> QED
      BY <1>2, <3>1
  <2>2. CASE j # k /\ j \in present
    <3>1. now - touched[j] > TTL
      BY <1>4, <1>5, <2>2
    <3>2. lastUse[j] - MaxSkew <= touched[j]
      BY <1>0, <2>2 DEF TouchedTracksUse
    <3> QED
      BY <1>1, <1>2, <1>4, <2>2, <3>1, <3>2
  <2>3. CASE j # k /\ j \notin present
    BY <1>0, <1>4, <2>3 DEF FreshKept
  <2> QED
    BY <2>1, <2>2, <2>3
<1>9. OpsRecent'
  BY <1>0, <1>1 DEF OpsRecent, TypeOK
<1>10. EntriesUsed'
  <2>1. \A j \in present' : lastUse'[j] # Never
    BY <1>0, <1>2, <1>3, <1>4 DEF EntriesUsed, TypeOK, Never
  <2>2. \A j \in Keys : lastUse'[j] <= clock'
    BY <1>0, <1>1, <1>2, <1>4 DEF EntriesUsed
  <2>3. dest' = latest'
    BY <1>0, <1>1 DEF EntriesUsed
  <2> QED
    BY <2>1, <2>2, <2>3 DEF EntriesUsed
<1> QED
  BY <1>6, <1>7, <1>8, <1>9, <1>10 DEF TableInv

(* A lookup erases only what has not been used for more than TTL - MaxSkew. *)
LEMMA MissTable ==
  ASSUME TableInv, NEW t \in Threads, LookupMiss(t)
  PROVE  TableInv'
<1>0. TypeOK /\ TouchedTracksUse /\ FreshKept /\ OpsRecent /\ EntriesUsed
  BY DEF TableInv
<1>1. PICK k \in Keys, now \in Nat :
        /\ now <= clock /\ clock - now <= MaxSkew
        /\ k \notin present \/ now - touched[k] > TTL
        /\ present' = present \ {k}
        /\ op' = [op EXCEPT ![t] = Idle]
  <2>1. op[t].key \in Keys /\ op[t].now \in Nat /\ op[t] # Idle
    BY <1>0, CallTypes DEF LookupMiss
  <2>2. op[t].now <= clock /\ clock - op[t].now <= MaxSkew
    BY <1>0, <2>1 DEF OpsRecent
  <2> QED
    BY <2>1, <2>2 DEF LookupMiss, Expired
<1>2. UNCHANGED <<clock, dest, touched, lastUse, latest>>
  BY DEF LookupMiss
<1>3. /\ clock \in Nat /\ MaxSkew \in Nat /\ TTL \in Nat
      /\ \A j \in Keys : touched[j] \in Nat /\ lastUse[j] \in Int
  BY <1>0, ParametersAssumption DEF TypeOK, Never
<1>4. TypeOK'
  BY <1>0, <1>1, <1>2 DEF TypeOK
<1>5. FreshKept'
  <2> SUFFICES ASSUME NEW j \in Keys, lastUse[j] # Never, j \notin present \ {k}
               PROVE  clock - lastUse[j] > TTL - MaxSkew
    BY <1>1, <1>2 DEF FreshKept
  <2>1. CASE j \notin present
    BY <1>0, <2>1 DEF FreshKept
  <2>2. CASE j \in present
    <3>1. j = k /\ now - touched[k] > TTL
      BY <1>1, <2>2
    <3>2. lastUse[k] - MaxSkew <= touched[k]
      BY <1>0, <2>2, <3>1 DEF TouchedTracksUse
    <3> QED
      BY <1>1, <1>3, <3>1, <3>2
  <2> QED
    BY <2>1, <2>2
<1>6. OpsRecent'
  BY <1>0, <1>1, <1>2 DEF OpsRecent, TypeOK
<1>7. TouchedTracksUse' /\ EntriesUsed'
  BY <1>0, <1>1, <1>2 DEF TouchedTracksUse, EntriesUsed
<1> QED
  BY <1>4, <1>5, <1>6, <1>7 DEF TableInv

(* A hit uses the entry now. *)
LEMMA HitTable ==
  ASSUME TableInv, NEW t \in Threads, LookupHit(t)
  PROVE  TableInv'
<1>0. TypeOK /\ TouchedTracksUse /\ FreshKept /\ OpsRecent /\ EntriesUsed
  BY DEF TableInv
<1>1. PICK k \in Keys, now \in Nat :
        /\ now <= clock /\ clock - now <= MaxSkew
        /\ k \in present
        /\ touched' = [touched EXCEPT ![k] = now]
        /\ lastUse' = [lastUse EXCEPT ![k] = clock]
        /\ op' = [op EXCEPT ![t] = Idle]
  <2>1. op[t].key \in Keys /\ op[t].now \in Nat /\ op[t] # Idle
    BY <1>0, CallTypes DEF LookupHit
  <2>2. op[t].now <= clock /\ clock - op[t].now <= MaxSkew
    BY <1>0, <2>1 DEF OpsRecent
  <2> QED
    BY <2>1, <2>2 DEF LookupHit
<1>2. UNCHANGED <<clock, present, dest, latest>>
  BY DEF LookupHit
<1>3. clock \in Nat /\ MaxSkew \in Nat
  BY <1>0, ParametersAssumption DEF TypeOK
<1>4. /\ \A j \in Keys : touched'[j] = IF j = k THEN now ELSE touched[j]
      /\ \A j \in Keys : lastUse'[j] = IF j = k THEN clock ELSE lastUse[j]
  BY <1>0, <1>1 DEF TypeOK
<1>5. TypeOK'
  BY <1>0, <1>1, <1>2 DEF TypeOK
<1>6. TouchedTracksUse'
  BY <1>0, <1>1, <1>2, <1>3, <1>4 DEF TouchedTracksUse, TypeOK
<1>7. FreshKept'
  BY <1>0, <1>1, <1>2, <1>4 DEF FreshKept
<1>8. OpsRecent'
  BY <1>0, <1>1, <1>2 DEF OpsRecent, TypeOK
<1>9. EntriesUsed'
  BY <1>0, <1>2, <1>3, <1>4 DEF EntriesUsed, TypeOK, Never
<1> QED
  BY <1>5, <1>6, <1>7, <1>8, <1>9 DEF TableInv

(* TableInv is inductive. *)
LEMMA TableStep == TableInv /\ [Next]_vars => TableInv'
<1> SUFFICES ASSUME TableInv, [Next]_vars PROVE TableInv'
  OBVIOUS
<1>1. CASE UNCHANGED vars
  BY <1>1 DEF TableInv, TypeOK, TouchedTracksUse, FreshKept, OpsRecent, EntriesUsed, vars
<1>2. CASE Next
  BY <1>2, TickTable, CallTable, RememberTable, MissTable, HitTable DEF Next
<1> QED
  BY <1>1, <1>2

(* TableInv holds in every state. *)
THEOREM TableInvariant == Spec => []TableInv
  BY InitTable, TableStep, PTL DEF Spec

(* The table and the calls on it keep their types. *)
THEOREM TypeCorrect == Spec => []TypeOK
<1>1. TableInv => TypeOK
  BY DEF TableInv
<1> QED
  BY <1>1, TableInvariant, PTL

(* A mapping in use is never lost to a prune or to a lookup. *)
THEOREM KeepsFresh == Spec => []FreshKept
<1>1. TableInv => FreshKept
  BY DEF TableInv
<1> QED
  BY <1>1, TableInvariant, PTL

(* touched_millis follows the last use within MaxSkew. *)
THEOREM TracksUse == Spec => []TouchedTracksUse
<1>1. TableInv => TouchedTracksUse
  BY DEF TableInv
<1> QED
  BY <1>1, TableInvariant, PTL

(* A lookup ends by a step of its own thread that answers it. *)
LEMMA LookupStep ==
  ASSUME TypeOK, [Next]_vars, NEW t \in Threads, op[t].call = "lookup", op'[t] = Idle
  PROVE  LookupMiss(t) \/ LookupHit(t)
<1>1. op[t] # Idle
  BY CallTypes
<1>2. op \in [Threads -> Calls \cup {Idle}]
  BY DEF TypeOK
<1>3. op'[t] # op[t]
  BY <1>1
<1>4. ~ UNCHANGED vars /\ ~ Tick
  BY <1>3 DEF vars, Tick
<1>5. PICK u \in Threads :
        \/ \E k \in Keys, d \in Dests : CallRemember(u, k, d)
        \/ \E k \in Keys : CallLookup(u, k)
        \/ Remember(u) \/ LookupMiss(u) \/ LookupHit(u)
  BY <1>4 DEF Next
<1>6. u = t
  BY <1>2, <1>3, <1>5 DEF CallRemember, CallLookup, Remember, LookupMiss, LookupHit
<1>7. ~ Remember(t)
  BY DEF Remember
<1>8. ASSUME NEW k \in Keys PROVE ~ CallLookup(t, k) /\ \A d \in Dests : ~ CallRemember(t, k, d)
  BY <1>1 DEF CallLookup, CallRemember
<1> QED
  BY <1>5, <1>6, <1>7, <1>8

(* What a lookup that ends has answered. *)
LEMMA AnswerInWindow ==
  ASSUME TableInv, [Next]_vars, NEW t \in Threads, op[t].call = "lookup", op'[t] = Idle
  PROVE  LookupAnswer(t)
<1>0. TypeOK /\ TouchedTracksUse /\ FreshKept /\ OpsRecent /\ EntriesUsed
  BY DEF TableInv
<1>1. op[t].key \in Keys /\ op[t].now \in Nat /\ op[t] # Idle
  BY <1>0, CallTypes
<1>2. op[t].now <= clock /\ clock - op[t].now <= MaxSkew
  BY <1>0, <1>1 DEF OpsRecent
<1>3. PICK k \in Keys, now \in Nat : k = op[t].key /\ now = op[t].now
  BY <1>1
<1>4. /\ clock \in Nat /\ MaxSkew \in Nat /\ TTL \in Nat
      /\ touched[k] \in Nat /\ lastUse[k] \in Int
  BY <1>0, ParametersAssumption DEF TypeOK, Never
<1>5. CASE LookupHit(t)
  <2>1. k \in present /\ k \in present' /\ ~(now - touched[k] > TTL)
    BY <1>3, <1>5 DEF LookupHit, Expired
  <2>2. touched[k] <= lastUse[k] /\ lastUse[k] # Never /\ dest[k] = latest[k]
    BY <1>0, <2>1 DEF TouchedTracksUse, EntriesUsed
  <2>3. clock - lastUse[k] <= TTL + MaxSkew
    BY <1>2, <1>3, <1>4, <2>1, <2>2
  <2> QED
    BY <1>3, <2>1, <2>2, <2>3 DEF LookupAnswer
<1>6. CASE LookupMiss(t)
  <2>1. k \notin present' /\ (k \notin present \/ now - touched[k] > TTL)
    BY <1>3, <1>6 DEF LookupMiss, Expired
  <2>2. lastUse[k] = Never \/ clock - lastUse[k] > TTL - MaxSkew
    <3>1. CASE k \notin present
      BY <1>0, <3>1 DEF FreshKept
    <3>2. CASE k \in present
      <4>1. lastUse[k] - MaxSkew <= touched[k]
        BY <1>0, <3>2 DEF TouchedTracksUse
      <4> QED
        BY <1>2, <1>3, <1>4, <2>1, <3>2, <4>1
    <3> QED
      BY <3>1, <3>2
  <2> QED
    BY <1>3, <2>1, <2>2 DEF LookupAnswer
<1> QED
  BY <1>0, <1>5, <1>6, LookupStep

(* try_get_upstream answers with the latest target of a mapping used within
   TTL + MaxSkew, and denies none used within TTL - MaxSkew, for any threads
   racing for the mutex. *)
THEOREM LookupInWindow == Spec => LookupWindow
<1>1. TableInv /\ [Next]_vars
        => [\A t \in Threads : op[t].call = "lookup" /\ op'[t] = Idle => LookupAnswer(t)]_vars
  <2> SUFFICES ASSUME TableInv, [Next]_vars,
                      NEW t \in Threads, op[t].call = "lookup", op'[t] = Idle
               PROVE  LookupAnswer(t)
    OBVIOUS
  <2> QED
    BY AnswerInWindow
<1> QED
  BY <1>1, TableInvariant, PTL DEF Spec, LookupWindow

(* A remember_mapping ends by a step of its own thread. *)
LEMMA RememberStep ==
  ASSUME TypeOK, [Next]_vars, NEW t \in Threads, op[t].call = "remember", op'[t] = Idle
  PROVE  Remember(t)
<1>1. op[t] # Idle
  BY CallTypes
<1>2. op \in [Threads -> Calls \cup {Idle}]
  BY DEF TypeOK
<1>3. op'[t] # op[t]
  BY <1>1
<1>4. ~ UNCHANGED vars /\ ~ Tick
  BY <1>3 DEF vars, Tick
<1>5. PICK u \in Threads :
        \/ \E k \in Keys, d \in Dests : CallRemember(u, k, d)
        \/ \E k \in Keys : CallLookup(u, k)
        \/ Remember(u) \/ LookupMiss(u) \/ LookupHit(u)
  BY <1>4 DEF Next
<1>6. u = t
  BY <1>2, <1>3, <1>5 DEF CallRemember, CallLookup, Remember, LookupMiss, LookupHit
<1>7. ~ LookupMiss(t) /\ ~ LookupHit(t)
  BY DEF LookupMiss, LookupHit
<1>8. ASSUME NEW k \in Keys PROVE ~ CallLookup(t, k) /\ \A d \in Dests : ~ CallRemember(t, k, d)
  BY <1>1 DEF CallLookup, CallRemember
<1> QED
  BY <1>5, <1>6, <1>7, <1>8

(* The prune that follows an insertion past the capacity leaves only what was
   touched within TTL + MaxSkew: the table exceeds its capacity by mappings in
   use alone, for any capacity. *)
THEOREM OverflowFresh == Spec => OverflowIsFresh
<1>1. ASSUME TableInv, [Next]_vars, NEW t \in Threads,
             op[t].call = "remember", op'[t] = Idle, Cardinality(present') > Capacity,
             NEW k \in present'
      PROVE  clock - touched'[k] <= TTL + MaxSkew
  <2>1. TypeOK /\ OpsRecent /\ Remember(t)
    BY <1>1, RememberStep DEF TableInv
  <2>2. PICK now \in Nat : now = op[t].now /\ now <= clock /\ clock - now <= MaxSkew
    BY <1>1, <2>1, CallTypes DEF OpsRecent
  <2>3. op[t].key \in Keys
    BY <1>1, <2>1, CallTypes
  <2>4. touched' \in [Keys -> Nat]
    BY <2>1, <2>2, <2>3 DEF Remember, TypeOK
  <2>5. present' = PruneExpired(present \cup {op[t].key}, touched', now)
    BY <1>1, <2>1, <2>2 DEF Remember
  <2>6. k \in Keys /\ ~(now - touched'[k] > TTL)
    BY <1>1, <2>1, <2>3, <2>5 DEF PruneExpired, Expired, TypeOK
  <2> QED
    BY <2>1, <2>2, <2>4, <2>6, ParametersAssumption DEF TypeOK
<1>2. TableInv /\ [Next]_vars
        => [\A t \in Threads :
              op[t].call = "remember" /\ op'[t] = Idle /\ Cardinality(present') > Capacity
                => \A k \in present' : clock - touched'[k] <= TTL + MaxSkew]_vars
  BY <1>1
<1> QED
  BY <1>2, TableInvariant, PTL DEF Spec, OverflowIsFresh

(*****************************************************************************)
(* The capture and the threads of the proxy                                  *)
(*****************************************************************************)

(* What is in the listening sockets can be looked up: it was redirected, or it
   was addressed to the proxy. *)
InboxInv == \A p \in inbox : p \in Packets /\ (Redirects(p) \/ Delivered(p))

(* The call a thread is in is the one its packet asks for. *)
CallsInv ==
  /\ op[Capture] # Idle => /\ pc = "rewrite"
                           /\ Redirects(original)
                           /\ op[Capture].call = "remember"
                           /\ op[Capture].key = Key(original)
                           /\ op[Capture].dest = Target(original)
  /\ \A w \in Workers : op[w] # Idle => /\ op[w].call = "lookup"
                                        /\ op[w].key = SenderKey(held[w])

(* The sender of p has been redirected, to the target of p the last time or
   p has been overtaken. *)
Known(p) ==
  /\ lastUse[Key(p)] # Never
  /\ latest[Key(p)] = Target(p) \/ p \in overtaken

(* So it is of every redirected packet the proxy holds; and of the one that is
   sent the mapping is the latest. *)
TargetsInv ==
  /\ \A p \in inbox : ~Direct(p) => Known(p)
  /\ \A w \in Workers : op[w] # Idle /\ ~Direct(held[w]) => Known(held[w])
  /\ pc = "send" /\ Redirects(original) =>
       lastUse[Key(original)] # Never /\ latest[Key(original)] = Target(original)

(* The inductive invariant, beside TableInv. *)
CaptureInv ==
  /\ CaptureTypeOK
  /\ InboxInv
  /\ CallsInv
  /\ TargetsInv

(* There is a packet to stand for none. *)
LEMMA SomePacket == AnyPacket \in Packets
  BY CaptureAssumption DEF AnyPacket

(* A step of the capture or of a server is a step of the table, or none. *)
LEMMA TableStepped ==
  ASSUME CaptureInv, [CaptureNext]_<<vars, captureVars>>
  PROVE  [Next]_vars
<1>0. CaptureTypeOK /\ InboxInv
  BY DEF CaptureInv
<1>1. ASSUME NEW p \in Packets, Receive(p) PROVE [Next]_vars
  <2>1. CASE Redirects(p)
    <3>1. Key(p) \in Keys /\ Target(p) \in Dests /\ Capture \in Threads
      BY <2>1, KeysAssumption, CaptureAssumption
    <3> QED
      BY <1>1, <2>1, <3>1 DEF Receive, Next
  <2>2. CASE ~Redirects(p)
    BY <1>1, <2>2 DEF Receive
  <2> QED
    BY <2>1, <2>2
<1>2. CASE Rewrite
  BY <1>2, CaptureAssumption DEF Rewrite, Next
<1>3. ASSUME NEW w \in Workers, NEW p \in inbox, Lookup(w, p) PROVE [Next]_vars
  <2>1. SenderKey(p) \in Keys /\ w \in Threads
    BY <1>0, KeysAssumption DEF InboxInv, Workers
  <2> QED
    BY <1>3, <2>1 DEF Lookup, Next
<1>4. ASSUME NEW w \in Workers, Answer(w) PROVE [Next]_vars
  <2>1. w \in Threads
    BY DEF Workers
  <2> QED
    BY <1>4, <2>1 DEF Answer, Next
<1>5. CASE Time
  BY <1>5 DEF Time, Next
<1>6. CASE Send \/ SendFail \/ Finish \/ RequestStop \/ Waits \/ UNCHANGED <<vars, captureVars>>
  BY <1>6 DEF Send, SendFail, Finish, RequestStop, Waits
<1> QED
  BY <1>1, <1>2, <1>3, <1>4, <1>5, <1>6 DEF CaptureNext

(* Before the first packet. *)
LEMMA InitCapture == CaptureInit => Init /\ CaptureInv
<1> SUFFICES ASSUME CaptureInit PROVE Init /\ CaptureInv
  OBVIOUS
<1>1. Init
  BY DEF CaptureInit
<1>2. \A t \in Threads : op[t] = Idle
  BY <1>1 DEF Init
<1>3. CaptureTypeOK
  <2>1. op[Capture].call # "remember"
    BY <1>2, CaptureAssumption DEF Idle
  <2>2. /\ stop = FALSE /\ pc = "top" /\ original \in Packets /\ inbox = {} /\ overtaken = {}
        /\ held = [w \in Workers |-> original]
    BY SomePacket DEF CaptureInit
  <2>3. held \in [Workers -> Packets]
    BY <2>2
  <2> QED
    BY <2>1, <2>2, <2>3 DEF CaptureTypeOK
<1>4. InboxInv /\ CallsInv /\ TargetsInv
  BY <1>2, CaptureAssumption DEF CaptureInit, InboxInv, CallsInv, TargetsInv, Workers
<1> QED
  BY <1>1, <1>3, <1>4 DEF CaptureInv

(* A packet is taken, and remember_mapping called for it. *)
LEMMA ReceiveCapture ==
  ASSUME TableInv, CaptureInv, NEW p \in Packets, Receive(p)
  PROVE  CaptureInv'
<1>0. CaptureTypeOK /\ InboxInv /\ CallsInv /\ TargetsInv /\ TypeOK
  BY DEF CaptureInv, TableInv
<1>1. /\ pc = "top" /\ original' = p
      /\ UNCHANGED <<stop, inbox, held, overtaken, clock, present, dest, lastUse, latest>>
  BY DEF Receive, CallRemember, vars
<1>2. \A w \in Workers : op'[w] = op[w]
  BY <1>0 DEF Receive, CallRemember, vars, Workers, TypeOK
<1>3. /\ Redirects(p) => /\ pc' = "rewrite"
                         /\ op'[Capture] = [call |-> "remember", key |-> Key(p),
                                            dest |-> Target(p), now |-> clock]
      /\ ~Redirects(p) => pc' = "send" /\ op'[Capture] = op[Capture]
  BY <1>0, CaptureAssumption DEF Receive, CallRemember, vars, TypeOK
<1>4. op[Capture] = Idle
  BY <1>0, <1>1 DEF CallsInv
<1>5. CaptureTypeOK'
  BY <1>0, <1>1, <1>3, <1>4 DEF CaptureTypeOK, Idle
<1>6. InboxInv'
  BY <1>0, <1>1 DEF InboxInv
<1>7. CallsInv'
  BY <1>0, <1>1, <1>2, <1>3, <1>4 DEF CallsInv
<1>8. TargetsInv'
  BY <1>0, <1>1, <1>2, <1>3 DEF TargetsInv, Known
<1> QED
  BY <1>5, <1>6, <1>7, <1>8 DEF CaptureInv

(* The mapping enters the table. *)
LEMMA RewriteCapture ==
  ASSUME TableInv, CaptureInv, Rewrite
  PROVE  CaptureInv'
<1>0. CaptureTypeOK /\ InboxInv /\ CallsInv /\ TargetsInv /\ TypeOK
  BY DEF CaptureInv, TableInv
<1>1. /\ op[Capture] # Idle /\ Redirects(original) /\ original \in Packets
      /\ op[Capture].key = Key(original) /\ op[Capture].dest = Target(original)
  BY <1>0, CaptureAssumption, CallTypes DEF Rewrite, Remember, CallsInv, CaptureTypeOK
<1>2. PICK k \in Keys, d \in Dests : k = Key(original) /\ d = Target(original)
  BY <1>1, KeysAssumption
<1>3. /\ dest' = [dest EXCEPT ![k] = d]
      /\ lastUse' = [lastUse EXCEPT ![k] = clock]
      /\ latest' = [latest EXCEPT ![k] = d]
      /\ op' = [op EXCEPT ![Capture] = Idle]
      /\ present' \subseteq present \cup {k}
      /\ pc' = "send"
      /\ UNCHANGED <<stop, original, inbox, held>>
  BY <1>1, <1>2 DEF Rewrite, Remember, PruneExpired
<1>4. overtaken' = {p \in InProxy : IF Key(p) = k THEN Target(p) # d ELSE p \in overtaken}
  BY <1>2 DEF Rewrite
<1>5. \A w \in Workers : op'[w] = op[w]
  BY <1>0, <1>3 DEF Workers, TypeOK
<1>6. op'[Capture] = Idle
  BY <1>0, <1>3, CaptureAssumption DEF TypeOK
<1>7. CaptureTypeOK'
  <2>1. InProxy \subseteq Packets
    BY <1>0 DEF InProxy, CaptureTypeOK
  <2> QED
    BY <1>0, <1>3, <1>4, <1>6, <2>1 DEF CaptureTypeOK, Idle
<1>8. InboxInv'
  BY <1>0, <1>3 DEF InboxInv
<1>9. CallsInv'
  BY <1>0, <1>3, <1>5, <1>6 DEF CallsInv
<1>10. ASSUME NEW p \in InProxy, Key(p) \in Keys, Known(p) PROVE Known(p)'
  <2>1. clock # Never
    BY <1>0 DEF TypeOK, Never
  <2> QED
    BY <1>0, <1>3, <1>4, <1>10, <2>1 DEF Known, TypeOK
<1>11. TargetsInv'
  <2>1. ASSUME NEW p \in inbox, ~Direct(p) PROVE Known(p)'
    <3>1. Key(p) \in Keys /\ p \in InProxy /\ Known(p)
      BY <1>0, <2>1, KeysAssumption DEF InProxy, InboxInv, Direct, TargetsInv
    <3> QED
      BY <1>10, <3>1
  <2>2. ASSUME NEW w \in Workers, op[w] # Idle, ~Direct(held[w]) PROVE Known(held[w])'
    <3>1. Key(held[w]) \in Keys /\ held[w] \in InProxy /\ Known(held[w])
      BY <1>0, <2>2, KeysAssumption DEF InProxy, CaptureTypeOK, Direct, TargetsInv
    <3>2. held' = held
      BY <1>3
    <3> QED
      BY <1>10, <3>1, <3>2
  <2>3. lastUse'[Key(original)] # Never /\ latest'[Key(original)] = Target(original)
    BY <1>0, <1>2, <1>3 DEF TypeOK, Never
  <2> QED
    BY <1>3, <1>5, <2>1, <2>2, <2>3 DEF TargetsInv
<1> QED
  BY <1>7, <1>8, <1>9, <1>11 DEF CaptureInv

(* A packet is sent, to the proxy perhaps; or it is lost. *)
LEMMA SendCapture ==
  ASSUME CaptureInv, Send \/ SendFail
  PROVE  CaptureInv'
<1>0. CaptureTypeOK /\ InboxInv /\ CallsInv /\ TargetsInv
  BY DEF CaptureInv
<1>1. /\ pc = "send" /\ pc' = "top" /\ original' = AnyPacket
      /\ UNCHANGED <<stop, held, overtaken, op, present, dest, lastUse, latest>>
  BY DEF Send, SendFail, vars
<1>2. inbox' = inbox \/ (inbox' = inbox \cup {original} /\ Delivered(Packet))
  BY DEF Send, SendFail
<1>3. Delivered(Packet) => Redirects(original) \/ Delivered(original)
  BY DEF Packet
<1>4. op[Capture] = Idle
  BY <1>0, <1>1 DEF CallsInv
<1>5. CaptureTypeOK'
  BY <1>0, <1>1, <1>2, <1>4, SomePacket DEF CaptureTypeOK, Idle
<1>6. InboxInv'
  BY <1>0, <1>2, <1>3 DEF InboxInv, CaptureTypeOK
<1>7. CallsInv'
  BY <1>0, <1>1, <1>4 DEF CallsInv
<1>8. TargetsInv'
  <2>1. ASSUME NEW p \in inbox', ~Direct(p) PROVE Known(p)
    <3>1. CASE p \in inbox
      BY <1>0, <2>1, <3>1 DEF TargetsInv
    <3>2. CASE p = original
      BY <1>0, <1>1, <2>1, <3>2 DEF TargetsInv, Direct, Known
    <3> QED
      BY <1>2, <3>1, <3>2
  <2>2. \A p : Known(p)' = Known(p)
    BY <1>1 DEF Known
  <2> QED
    BY <1>0, <1>1, <2>1, <2>2 DEF TargetsInv
<1> QED
  BY <1>5, <1>6, <1>7, <1>8 DEF CaptureInv

(* The capture thread stops, waits, or time passes. *)
LEMMA QuietCapture ==
  ASSUME CaptureInv,
         Finish \/ RequestStop \/ Time \/ Waits \/ UNCHANGED <<vars, captureVars>>
  PROVE  CaptureInv'
<1>0. CaptureTypeOK /\ InboxInv /\ CallsInv /\ TargetsInv
  BY DEF CaptureInv
<1>1. /\ UNCHANGED <<original, inbox, held, overtaken, op, present, dest, lastUse, latest>>
      /\ stop' \in BOOLEAN
      /\ pc' = pc \/ (pc = "top" /\ pc' = "done")
  BY <1>0 DEF Finish, RequestStop, Time, Tick, Waits, vars, captureVars, CaptureTypeOK
<1>2. CaptureTypeOK' /\ InboxInv'
  BY <1>0, <1>1 DEF CaptureTypeOK, InboxInv
<1>3. CallsInv'
  BY <1>0, <1>1 DEF CallsInv
<1>4. TargetsInv'
  BY <1>0, <1>1 DEF TargetsInv, Known
<1> QED
  BY <1>2, <1>3, <1>4 DEF CaptureInv

(* A thread of the proxy takes a packet and looks its sender up. *)
LEMMA LookupCapture ==
  ASSUME TableInv, CaptureInv, NEW w \in Workers, NEW p \in inbox, Lookup(w, p)
  PROVE  CaptureInv'
<1>0. CaptureTypeOK /\ InboxInv /\ CallsInv /\ TargetsInv /\ TypeOK
  BY DEF CaptureInv, TableInv
<1>1. /\ inbox' = inbox \ {p}
      /\ held' = [held EXCEPT ![w] = p]
      /\ UNCHANGED <<stop, pc, original, overtaken, present, dest, lastUse, latest>>
  BY DEF Lookup, CallLookup
<1>2. \A t \in Threads :
        op'[t] = IF t = w
                   THEN [call |-> "lookup", key |-> SenderKey(p), now |-> clock]
                   ELSE op[t]
  BY <1>0 DEF Lookup, CallLookup, TypeOK
<1>3. \A v \in Workers : held'[v] = IF v = w THEN p ELSE held[v]
  BY <1>0, <1>1 DEF CaptureTypeOK
<1>4. op'[Capture] = op[Capture]
  BY <1>2, CaptureAssumption DEF Workers
<1>5. CaptureTypeOK'
  BY <1>0, <1>1, <1>4 DEF CaptureTypeOK
<1>6. InboxInv'
  BY <1>0, <1>1 DEF InboxInv
<1>7. CallsInv'
  <2>1. ASSUME NEW v \in Workers, op'[v] # Idle
        PROVE  op'[v].call = "lookup" /\ op'[v].key = SenderKey(held'[v])
    BY <1>0, <1>2, <1>3, <2>1 DEF CallsInv, Workers
  <2> QED
    BY <1>0, <1>1, <1>4, <2>1 DEF CallsInv
<1>8. TargetsInv'
  <2>1. \A q : Known(q)' = Known(q)
    BY <1>1 DEF Known
  <2>2. ASSUME NEW v \in Workers, op'[v] # Idle, ~Direct(held'[v]) PROVE Known(held'[v])
    BY <1>0, <1>2, <1>3, <2>2 DEF TargetsInv, Workers
  <2> QED
    BY <1>0, <1>1, <2>1, <2>2 DEF TargetsInv
<1> QED
  BY <1>5, <1>6, <1>7, <1>8 DEF CaptureInv

(* The lookup returns. *)
LEMMA AnswerCapture ==
  ASSUME TableInv, CaptureInv, NEW w \in Workers, Answer(w)
  PROVE  CaptureInv'
<1>0. CaptureTypeOK /\ InboxInv /\ CallsInv /\ TargetsInv /\ TypeOK
  BY DEF CaptureInv, TableInv
<1>1. /\ held' = [held EXCEPT ![w] = AnyPacket]
      /\ overtaken' = overtaken \cap InProxy'
      /\ op' = [op EXCEPT ![w] = Idle]
      /\ present' \subseteq present
      /\ UNCHANGED <<stop, pc, original, inbox, dest, latest>>
  BY DEF Answer, LookupHit, LookupMiss
<1>2. \A k \in Keys : lastUse[k] # Never => lastUse'[k] # Never
  <2>1. clock # Never
    BY <1>0 DEF TypeOK, Never
  <2> QED
    BY <1>0, <2>1 DEF Answer, LookupHit, LookupMiss, TypeOK
<1>3. \A t \in Threads : op'[t] = IF t = w THEN Idle ELSE op[t]
  BY <1>0, <1>1 DEF TypeOK
<1>4. \A v \in Workers : v # w => held'[v] = held[v]
  BY <1>0, <1>1 DEF CaptureTypeOK
<1>5. op'[Capture] = op[Capture]
  BY <1>3, CaptureAssumption DEF Workers
<1>6. CaptureTypeOK'
  BY <1>0, <1>1, <1>5, SomePacket DEF CaptureTypeOK
<1>7. InboxInv'
  BY <1>0, <1>1 DEF InboxInv
<1>8. CallsInv'
  <2>1. ASSUME NEW v \in Workers, op'[v] # Idle
        PROVE  op'[v].call = "lookup" /\ op'[v].key = SenderKey(held'[v])
    BY <1>0, <1>3, <1>4, <2>1 DEF CallsInv, Workers
  <2> QED
    BY <1>0, <1>1, <1>5, <2>1 DEF CallsInv
<1>9. ASSUME NEW p \in InProxy', Key(p) \in Keys, Known(p) PROVE Known(p)'
  BY <1>1, <1>2, <1>9 DEF Known
<1>10. TargetsInv'
  <2>1. ASSUME NEW p \in inbox, ~Direct(p) PROVE Known(p)'
    <3>1. Key(p) \in Keys /\ p \in InProxy' /\ Known(p)
      BY <1>0, <1>1, <2>1, KeysAssumption DEF InProxy, InboxInv, Direct, TargetsInv
    <3> QED
      BY <1>9, <3>1
  <2>2. ASSUME NEW v \in Workers, NEW q, q = held'[v], op'[v] # Idle, ~Direct(q)
        PROVE  Known(q)'
    <3>1. v # w /\ op[v] # Idle /\ q = held[v] /\ q \in Packets
      BY <1>0, <1>3, <1>4, <2>2 DEF Workers, CaptureTypeOK
    <3>2. Key(q) \in Keys /\ q \in InProxy' /\ Known(q)
      BY <1>0, <2>2, <3>1, KeysAssumption DEF InProxy, Direct, TargetsInv
    <3> QED
      BY <1>9, <3>2
  <2>3. ASSUME pc = "send", Redirects(original)
        PROVE  lastUse'[Key(original)] # Never /\ latest'[Key(original)] = Target(original)
    BY <1>0, <1>1, <1>2, <2>3, KeysAssumption DEF TargetsInv, CaptureTypeOK
  <2> QED
    BY <1>1, <2>1, <2>2, <2>3 DEF TargetsInv
<1> QED
  BY <1>6, <1>7, <1>8, <1>10 DEF CaptureInv

(* The two invariants are preserved together. *)
LEMMA CaptureStep ==
  ASSUME TableInv, CaptureInv, [CaptureNext]_<<vars, captureVars>>
  PROVE  TableInv' /\ CaptureInv'
<1>1. TableInv'
  BY TableStepped, TableStep
<1>2. CASE \E p \in Packets : Receive(p)
  BY <1>1, <1>2, ReceiveCapture
<1>3. CASE Rewrite
  BY <1>1, <1>3, RewriteCapture
<1>4. CASE Send \/ SendFail
  BY <1>1, <1>4, SendCapture
<1>5. CASE Finish \/ RequestStop \/ Time \/ Waits \/ UNCHANGED <<vars, captureVars>>
  BY <1>1, <1>5, QuietCapture
<1>6. CASE \E w \in Workers : Answer(w) \/ \E p \in inbox : Lookup(w, p)
  BY <1>1, <1>6, AnswerCapture, LookupCapture
<1> QED
  BY <1>1, <1>2, <1>3, <1>4, <1>5, <1>6 DEF CaptureNext

(* Both hold in every state. *)
THEOREM CaptureInvariant == CaptureSpec => [](TableInv /\ CaptureInv)
<1>1. CaptureInit => TableInv /\ CaptureInv
  BY InitCapture, InitTable
<1>2. TableInv /\ CaptureInv /\ [CaptureNext]_<<vars, captureVars>>
        => (TableInv /\ CaptureInv)'
  BY CaptureStep
<1> QED
  BY <1>1, <1>2, PTL DEF CaptureSpec

(* The capture thread and the threads of the proxy use the table as FlowTable
   says, so whatever is proved of Spec, a lookup's answer for one, holds of the
   redirection. *)
THEOREM CaptureUsesTable == CaptureSpec => Spec
<1>1. CaptureInit => Init
  BY DEF CaptureInit
<1>2. CaptureInv /\ [CaptureNext]_<<vars, captureVars>> => [Next]_vars
  BY TableStepped
<1> QED
  BY <1>1, <1>2, CaptureInvariant, PTL DEF CaptureSpec, Spec

(* The table, the capture thread and the packets under way keep their types, and
   a packet is sent only when its mapping is in the table. *)
THEOREM RedirectionTypeCorrect == CaptureSpec => []RedirectionTypeOK
<1>1. TableInv /\ CaptureInv => RedirectionTypeOK
  BY DEF TableInv, CaptureInv, RedirectionTypeOK
<1> QED
  BY <1>1, CaptureInvariant, PTL

(* A lookup that ends has the right answer. *)
LEMMA AnswerRight ==
  ASSUME TableInv, CaptureInv, [Next]_vars,
         NEW w \in Workers, op[w] # Idle, op'[w] = Idle
  PROVE  RightAnswer(w)
<1>0. CaptureTypeOK /\ CallsInv /\ TargetsInv /\ TypeOK /\ EntriesUsed
  BY DEF CaptureInv, TableInv
<1>1. w \in Threads /\ op[w].call = "lookup"
  BY <1>0 DEF CallsInv, Workers
<1>2. PICK p, k : p = held[w] /\ k = SenderKey(p)
  OBVIOUS
<1>3. op[w].key = k
  BY <1>0, <1>2 DEF CallsInv
<1>4. IF k \in present'
        THEN lastUse[k] # Never /\ clock - lastUse[k] <= TTL + MaxSkew /\ dest[k] = latest[k]
        ELSE lastUse[k] = Never \/ clock - lastUse[k] > TTL - MaxSkew
  BY <1>1, <1>3, AnswerInWindow DEF LookupAnswer
<1>5. ~Direct(p) => k = Key(p) /\ Known(p)
  BY <1>0, <1>2 DEF Direct, TargetsInv
<1> QED
  BY <1>2, <1>4, <1>5 DEF RightAnswer, Known

(* The proxy finds where a redirected packet was going, for any interleaving of
   the capture thread, the clients' threads and the clock. *)
THEOREM FindsTarget == CaptureSpec => TransparentTarget
<1>1. TableInv /\ CaptureInv /\ [CaptureNext]_<<vars, captureVars>>
        => [\A w \in Workers : op[w] # Idle /\ op'[w] = Idle => RightAnswer(w)]_vars
  <2> SUFFICES ASSUME TableInv, CaptureInv, [Next]_vars,
                      NEW w \in Workers, op[w] # Idle, op'[w] = Idle
               PROVE  RightAnswer(w)
    BY TableStepped
  <2> QED
    BY AnswerRight
<1> QED
  BY <1>1, CaptureInvariant, PTL DEF CaptureSpec, TransparentTarget

=============================================================================
