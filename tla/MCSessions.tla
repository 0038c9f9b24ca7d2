----------------------------- MODULE MCSessions -----------------------------
(* An instance of Sessions for TLC. *)
EXTENDS Sessions, TLC

\* Requests and tokens are interchangeable.
Symmetry == Permutations(Requests) \cup Permutations(Tokens)

=============================================================================
