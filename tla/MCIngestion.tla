---------------------------- MODULE MCIngestion -----------------------------
(* Instances of Ingestion for TLC.                                         *)
EXTENDS Ingestion, TLC

CONSTANTS j1, j2

\* Every platform, and two posts on one of them.
MCAssignments == {j1 :> "instagram" @@ j2 :> "facebook", j1 :> "threads" @@ j2 :> "x",
                  j1 :> "linkedin" @@ j2 :> "linkedin"}

Symmetry == Permutations(Runs)

=============================================================================
