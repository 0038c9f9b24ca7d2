---------------------------- MODULE MCConnections ----------------------------
(* An instance of Connections for TLC: a page on Facebook that two people   *)
(* administer, a profile on Instagram and one on X.                         *)
EXTENDS Connections, TLC

CONSTANTS page, gram, profile, u1, u2, o1, f1, f2, f3, f4, d1

MCPlatformOf == page :> "facebook" @@ gram :> "instagram" @@ profile :> "x"
MCAdmins == page :> {u1, u2} @@ gram :> {u1} @@ profile :> {u1}

MCFlowFor ==
    f1 :> [org |-> o1, account |-> page, user |-> u1] @@
    f2 :> [org |-> o1, account |-> gram, user |-> u1] @@
    f3 :> [org |-> o1, account |-> profile, user |-> u1] @@
    f4 :> [org |-> o1, account |-> page, user |-> u2]
MCWithdraws == d1 :> [user |-> u1, platform |-> "facebook"]

\* Callbacks are interchangeable: nothing names one.
Symmetry == Permutations(Callbacks)

=============================================================================
