---------------------------- MODULE PatchedPipes ----------------------------
(***************************************************************************)
(* What a client session promises to its two peers, with no socket, buffer *)
(* or thread in sight: in each direction a pipe from the one to the other. *)
(* What is written into it is taken out in order, piece by piece, each     *)
(* piece is patched once, and the result is delivered in order, whole or,  *)
(* if the session breaks off, up to some byte.  One thing comes first: a   *)
(* session that begins with a CONNECT request swallows it and greets the   *)
(* client.                                                                 *)
(***************************************************************************)
EXTENDS Naturals, Sequences

CONSTANTS
  Directions,         \* outbound and inbound
  Stream,             \* what would be written, by direction
  Kinds,              \* what a piece may be taken for
  Patch(_, _, _, _),  \* as in TcpSession
  Greeting            \* the answer to a CONNECT request

VARIABLES
  unwritten,  \* the rest of each stream
  todo,       \* written, and in no piece yet
  due,        \* the rest of the patched piece that is being delivered
  given,      \* delivered
  opening     \* new, connect, pipe

vars == <<unwritten, todo, due, given, opening>>

Init ==
  /\ unwritten = Stream
  /\ todo = [d \in Directions |-> <<>>]
  /\ due = [d \in Directions |-> <<>>]
  /\ given = [d \in Directions |-> <<>>]
  /\ opening = "new"

(* A peer writes. *)
Write(d) ==
  /\ unwritten[d] # <<>>
  /\ todo' = [todo EXCEPT ![d] = Append(@, Head(unwritten[d]))]
  /\ unwritten' = [unwritten EXCEPT ![d] = Tail(@)]
  /\ UNCHANGED <<due, given, opening>>

(* The session begins; what has been written may be swallowed up to some byte,
   and is then greeted. *)
Pass ==
  /\ opening = "new"
  /\ opening' = "pipe"
  /\ UNCHANGED <<unwritten, todo, due, given>>

Swallow ==
  /\ opening = "new"
  /\ opening' = "connect"
  /\ \E n \in 1..Len(todo["outbound"]) :
       todo' = [todo EXCEPT !["outbound"] = SubSeq(@, n + 1, Len(@))]
  /\ UNCHANGED <<unwritten, due, given>>

Greet ==
  /\ opening = "connect"
  /\ opening' = "pipe"
  /\ given' = [given EXCEPT !["inbound"] = @ \o Greeting]
  /\ UNCHANGED <<unwritten, todo, due>>

(* The next piece is taken and patched; it may be an empty one. *)
Take(d) ==
  /\ opening = "pipe"
  /\ due[d] = <<>>
  /\ \E n \in 0..Len(todo[d]), plaintext \in BOOLEAN, k \in Kinds :
       /\ due' = [due EXCEPT ![d] = Patch(plaintext, d, k, SubSeq(todo[d], 1, n))]
       /\ todo' = [todo EXCEPT ![d] = SubSeq(@, n + 1, Len(@))]
  /\ UNCHANGED <<unwritten, given, opening>>

(* A part of it is delivered. *)
Deliver(d) ==
  /\ opening = "pipe"
  /\ \E n \in 1..Len(due[d]) :
       /\ given' = [given EXCEPT ![d] = @ \o SubSeq(due[d], 1, n)]
       /\ due' = [due EXCEPT ![d] = SubSeq(@, n + 1, Len(@))]
  /\ UNCHANGED <<unwritten, todo, opening>>

Next ==
  \/ Pass \/ Swallow \/ Greet
  \/ \E d \in Directions : Write(d) \/ Take(d) \/ Deliver(d)

Spec == Init /\ [][Next]_vars

=============================================================================
