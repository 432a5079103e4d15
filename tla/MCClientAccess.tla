---------------------------- MODULE MCClientAccess ----------------------------
(* Instances of ClientAccess for TLC. *)
EXTENDS ClientAccess, TLC

\* Clients and addresses are interchangeable in the safety runs.
Symmetry == Permutations(Clients) \cup Permutations(Addrs)

=============================================================================
