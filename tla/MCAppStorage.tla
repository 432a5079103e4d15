----------------------------- MODULE MCAppStorage -----------------------------
(* Instances of AppStorage for TLC. *)
EXTENDS AppStorage, TLC

\* Networks and request ids are interchangeable; versions are not.
Symmetry == Permutations(Creds) \cup Permutations(Requests)

=============================================================================
