----------------------------- MODULE MCContent -----------------------------
(* An instance of Content for TLC. *)
EXTENDS Content, TLC

\* Platforms, requests, designs and jobs are interchangeable.
Symmetry == Permutations(Platforms) \cup Permutations(Requests)
            \cup Permutations(Assets) \cup Permutations(Jobs)

=============================================================================
