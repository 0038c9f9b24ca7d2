---------------------------- MODULE PlatformCall ----------------------------
(***************************************************************************)
(* What the contract of adapter.interface.ts promises of publish and       *)
(* publishCarousel, and all that Publishing!CallPlatform builds on: seen   *)
(* from its caller a call is one indivisible step.  It shows the post that *)
(* was asked for and names it, or it throws having shown nothing, or it    *)
(* throws although the post is there.                                      *)
(***************************************************************************)
EXTENDS Sequences

CONSTANTS
    Callers,   \* calls of one request: the attempts of a publish_job
    Asked      \* the requests a call may be for

VARIABLES
    asked,     \* the images to show, in order
    outcome,   \* [Callers -> {"pending", "returned", "threw"}]
    shown      \* [Callers -> Seq]: what each call made visible

Init ==
    /\ asked \in Asked
    /\ outcome = [c \in Callers |-> "pending"]
    /\ shown = [c \in Callers |-> <<>>]

End(c, how, posts) ==
    /\ outcome[c] = "pending"
    /\ outcome' = [outcome EXCEPT ![c] = how]
    /\ shown' = [shown EXCEPT ![c] = posts]
    /\ UNCHANGED asked

Publish(c) == End(c, "returned", <<asked>>)

Refuse(c) == End(c, "threw", <<>>)

\* The ambiguous failure: "a timeout after the post may already have been
\* created".
Lose(c) == End(c, "threw", <<asked>>)

Next == \E c \in Callers : Publish(c) \/ Refuse(c) \/ Lose(c)

vars == <<asked, outcome, shown>>

Spec == Init /\ [][Next]_vars

=============================================================================
