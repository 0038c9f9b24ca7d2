---------------------------- MODULE MCPublishing ----------------------------
(* Instances of Publishing for TLC.                                        *)
EXTENDS Publishing, TLC

\* Entries, ticks and requests are interchangeable: nothing names one.
Symmetry == Permutations(Entries) \cup Permutations(Ticks) \cup Permutations(Requests)

=============================================================================
