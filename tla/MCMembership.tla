---------------------------- MODULE MCMembership ----------------------------
(* Instances of Membership for TLC.                                         *)
EXTENDS Membership, TLC

\* Requests, invitations and all people but the founder are interchangeable:
\* nothing names one.
Symmetry ==
    Permutations(Requests) \cup Permutations(Invites) \cup Permutations(People \ {Founder})

=============================================================================
