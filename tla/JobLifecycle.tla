---------------------------- MODULE JobLifecycle ----------------------------
(***************************************************************************)
(* What the publish pipeline promises about one job, seen by a user who    *)
(* looks only at the row's status and at the platform: a job goes forward  *)
(* through its statuses and never back, it is posted at most once and only *)
(* while it is being processed, and the status it ends in is the truth     *)
(* about the platform.  Queues, dispatcher, workers and retries are not    *)
(* mentioned.  Publishing implements it when nothing fails but the         *)
(* platform's own answers.                                                 *)
(***************************************************************************)
EXTENDS Naturals

CONSTANT Jobs

VARIABLES status, posts

vars == <<status, posts>>

Init ==
    /\ status = [j \in Jobs |-> "absent"]
    /\ posts = [j \in Jobs |-> 0]

Move(j, from, to) ==
    /\ status[j] \in from
    /\ status' = [status EXCEPT ![j] = to]
    /\ UNCHANGED posts

Ask(j) == Move(j, {"absent"}, "queued") \/ Move(j, {"absent"}, "scheduled")

Dispatch(j) == Move(j, {"scheduled"}, "queued")

Cancel(j) == Move(j, {"scheduled"}, "cancelled")

Start(j) == Move(j, {"queued"}, "processing")

\* The design may be deleted while its worker is about to call the platform.
Deliver(j) ==
    /\ status[j] \in {"processing", "deleted"}
    /\ posts[j] = 0
    /\ posts' = [posts EXCEPT ![j] = 1]
    /\ UNCHANGED status

Publish(j) == posts[j] = 1 /\ Move(j, {"processing"}, "published")

Fail(j) == posts[j] = 0 /\ Move(j, {"processing"}, "failed")

Delete(j) ==
    Move(j, {"scheduled", "queued", "processing", "published", "failed", "cancelled"},
         "deleted")

Next ==
    \E j \in Jobs : \/ Ask(j) \/ Dispatch(j) \/ Cancel(j) \/ Start(j)
                    \/ Deliver(j) \/ Publish(j) \/ Fail(j) \/ Delete(j)

Spec == Init /\ [][Next]_vars

=============================================================================
