--------------------------- MODULE MCGeneration ----------------------------
(* An instance of Generation for TLC. *)
EXTENDS Generation, TLC

\* A plan of one generation and one of two in a window of two ticks.
PlanQuota == [t \in {"free", "starter"} |-> IF t = "free" THEN 1 ELSE 2]

Symmetry == Permutations(Requests)

=============================================================================
