-------------------------- MODULE MCTlsTerminators --------------------------
(***************************************************************************)
(* TlsTerminators for TLC: sessions are alike, and so are ports.           *)
(***************************************************************************)
EXTENDS TlsTerminators, TLC

Symmetry == Permutations(Sessions) \cup Permutations(Ports)

=============================================================================
