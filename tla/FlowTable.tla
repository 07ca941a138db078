----------------------------- MODULE FlowTable -----------------------------
(***************************************************************************)
(* FlowTable: the map from a client's (protocol, ip, port) to the target   *)
(* its packets had before WinDivert rewrote them.  The capture thread      *)
(* calls remember_mapping; the UDP thread and one thread per TCP client    *)
(* call try_get_upstream.                                                  *)
(*                                                                         *)
(* Both operations read the clock first and take the mutex second, so an   *)
(* operation may work with a time other operations have already passed.    *)
(* MaxSkew bounds that delay: how long a thread may be kept between        *)
(* now_millis() and the mutex.                                             *)
(***************************************************************************)
EXTENDS Integers, FiniteSets

CONSTANTS
  Threads,      \* the threads that use the table
  Keys,         \* FlowKey
  Dests,        \* destination_host and destination_port
  TTL,          \* k_entry_ttl_millis, 120000
  Capacity,     \* 4096, the size past which remember_mapping prunes
  MaxSkew,      \* bound on the delay between the clock and the mutex
  MaxClock      \* bound on the clock, for TLC

ASSUME ParametersAssumption ==
  /\ TTL \in Nat
  /\ Capacity \in Nat
  /\ MaxSkew \in Nat
  /\ MaxClock \in Nat
  /\ Dests # {}

VARIABLES
  clock,        \* steady_clock, in milliseconds
  present,      \* the keys of table_
  dest,         \* destination_host, destination_port of an entry
  touched,      \* touched_millis of an entry
  op,           \* the call a thread is in, with the time it has sampled
  lastUse,      \* history: when a key was last remembered or found
  latest        \* history: the target last remembered for a key

tableVars == <<present, dest, touched>>
vars == <<clock, present, dest, touched, op, lastUse, latest>>

Idle == [call |-> "idle"]
Calls == [call : {"remember"}, key : Keys, dest : Dests, now : Nat]
         \cup [call : {"lookup"}, key : Keys, now : Nat]

(* A key that was never remembered. *)
Never == -1

Init ==
  /\ clock = 0
  /\ present = {}
  /\ dest = [k \in Keys |-> CHOOSE d \in Dests : TRUE]
  /\ touched = [k \in Keys |-> 0]
  /\ op = [t \in Threads |-> Idle]
  /\ lastUse = [k \in Keys |-> Never]
  /\ latest = dest

-----------------------------------------------------------------------------

(* Time passes.  No pending call is kept from the mutex longer than MaxSkew. *)
Tick ==
  /\ clock < MaxClock
  /\ \A t \in Threads : op[t] # Idle => clock + 1 - op[t].now <= MaxSkew
  /\ clock' = clock + 1
  /\ UNCHANGED <<present, dest, touched, op, lastUse, latest>>

(* now = now_millis(), before the mutex. *)
CallRemember(t, k, d) ==
  /\ op[t] = Idle
  /\ op' = [op EXCEPT ![t] = [call |-> "remember", key |-> k, dest |-> d, now |-> clock]]
  /\ UNCHANGED <<clock, present, dest, touched, lastUse, latest>>

CallLookup(t, k) ==
  /\ op[t] = Idle
  /\ op' = [op EXCEPT ![t] = [call |-> "lookup", key |-> k, now |-> clock]]
  /\ UNCHANGED <<clock, present, dest, touched, lastUse, latest>>

(* Mutant of Expired: off by one. *)
ExpiredEarly(now, touch) == now - touch >= TTL

(* (now - touched_millis) > k_entry_ttl_millis *)
Expired(now, touch) == now - touch > TTL

(* prune_expired_locked: the keys that survive it. *)
PruneExpired(keys, touch, now) == {k \in keys : ~Expired(now, touch[k])}

(* Mutant of Remember: the size is tested before the insertion. *)
RememberTestsFirst(t) ==
  LET k == op[t].key
      now == op[t].now
      grown == present \cup {k}
  IN
  /\ op[t].call = "remember"
  /\ touched' = [touched EXCEPT ![k] = now]
  /\ dest' = [dest EXCEPT ![k] = op[t].dest]
  /\ present' = IF Cardinality(present) > Capacity
                  THEN PruneExpired(grown, touched', now)
                  ELSE grown
  /\ lastUse' = [lastUse EXCEPT ![k] = clock]
  /\ latest' = [latest EXCEPT ![k] = op[t].dest]
  /\ op' = [op EXCEPT ![t] = Idle]
  /\ UNCHANGED clock

(* remember_mapping, under the mutex: overwrite the entry, then prune when the
   table has grown past its capacity. *)
Remember(t) ==
  LET k == op[t].key
      now == op[t].now
      grown == present \cup {k}
  IN
  /\ op[t].call = "remember"
  /\ touched' = [touched EXCEPT ![k] = now]
  /\ dest' = [dest EXCEPT ![k] = op[t].dest]
  /\ present' = IF Cardinality(grown) > Capacity
                  THEN PruneExpired(grown, touched', now)
                  ELSE grown
  /\ lastUse' = [lastUse EXCEPT ![k] = clock]
  /\ latest' = [latest EXCEPT ![k] = op[t].dest]
  /\ op' = [op EXCEPT ![t] = Idle]
  /\ UNCHANGED clock

(* try_get_upstream, under the mutex: there is no entry, or it has expired and
   is erased. *)
LookupMiss(t) ==
  LET k == op[t].key IN
  /\ op[t].call = "lookup"
  /\ k \notin present \/ Expired(op[t].now, touched[k])
  /\ present' = present \ {k}
  /\ op' = [op EXCEPT ![t] = Idle]
  /\ UNCHANGED <<clock, dest, touched, lastUse, latest>>

(* Mutant of LookupHit: the age of the entry is not tested. *)
LookupHitStale(t) ==
  LET k == op[t].key IN
  /\ op[t].call = "lookup"
  /\ k \in present
  /\ touched' = [touched EXCEPT ![k] = op[t].now]
  /\ lastUse' = [lastUse EXCEPT ![k] = clock]
  /\ op' = [op EXCEPT ![t] = Idle]
  /\ UNCHANGED <<clock, present, dest, latest>>

(* The entry is there: it is touched, and its target dest[k] returned. *)
LookupHit(t) ==
  LET k == op[t].key IN
  /\ op[t].call = "lookup"
  /\ k \in present
  /\ ~Expired(op[t].now, touched[k])
  /\ touched' = [touched EXCEPT ![k] = op[t].now]
  /\ lastUse' = [lastUse EXCEPT ![k] = clock]
  /\ op' = [op EXCEPT ![t] = Idle]
  /\ UNCHANGED <<clock, present, dest, latest>>

Next ==
  \/ Tick
  \/ \E t \in Threads :
       \/ \E k \in Keys, d \in Dests : CallRemember(t, k, d)
       \/ \E k \in Keys : CallLookup(t, k)
       \/ Remember(t)
       \/ LookupMiss(t)
       \/ LookupHit(t)

Spec == Init /\ [][Next]_vars

-----------------------------------------------------------------------------
(* Properties *)

(* Type invariant of the table and of the calls on it. *)
TypeOK ==
  /\ clock \in Nat
  /\ present \subseteq Keys
  /\ dest \in [Keys -> Dests]
  /\ touched \in [Keys -> Nat]
  /\ op \in [Threads -> Calls \cup {Idle}]
  /\ lastUse \in [Keys -> Nat \cup {Never}]
  /\ latest \in [Keys -> Dests]

(* touched_millis is the time of the last use, late by at most MaxSkew, though
   a call that sampled the clock early may set it back. *)
TouchedTracksUse ==
  \A k \in present : lastUse[k] - MaxSkew <= touched[k] /\ touched[k] <= lastUse[k]

(* A pending call sampled the clock at most MaxSkew ago; an entry has been
   used, and holds the target remembered last. *)
OpsRecent ==
  \A t \in Threads : op[t] # Idle => op[t].now <= clock /\ clock - op[t].now <= MaxSkew

EntriesUsed ==
  /\ \A k \in present : lastUse[k] # Never
  /\ \A k \in Keys : lastUse[k] <= clock
  /\ dest = latest

(* A mapping that was used less than TTL - MaxSkew ago is still in the table:
   neither a prune nor a lookup of another thread, with whatever time it has
   sampled, removes it. *)
FreshKept ==
  \A k \in Keys :
    lastUse[k] # Never /\ k \notin present => clock - lastUse[k] > TTL - MaxSkew

(* What try_get_upstream answers: a target only if the mapping was used at
   most TTL + MaxSkew ago, and then the one remembered last; nothing only if
   it was never remembered, or not used for more than TTL - MaxSkew. *)
LookupAnswer(t) ==
  LET k == op[t].key IN
  IF k \in present'     \* the lookup hit and returned dest[k]
    THEN /\ lastUse[k] # Never
         /\ clock - lastUse[k] <= TTL + MaxSkew
         /\ dest[k] = latest[k]
    ELSE lastUse[k] = Never \/ clock - lastUse[k] > TTL - MaxSkew

LookupWindow ==
  [][ \A t \in Threads : op[t].call = "lookup" /\ op'[t] = Idle => LookupAnswer(t) ]_vars

(* When remember_mapping leaves more entries than Capacity behind, each of
   them was touched at most TTL + MaxSkew ago: what does not fit is fresh. *)
OverflowIsFresh ==
  [][ \A t \in Threads :
        op[t].call = "remember" /\ op'[t] = Idle /\ Cardinality(present') > Capacity
          => \A k \in present' : clock - touched'[k] <= TTL + MaxSkew ]_vars

=============================================================================
