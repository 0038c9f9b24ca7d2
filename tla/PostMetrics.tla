---------------------------- MODULE PostMetrics -----------------------------
(***************************************************************************)
(* The numbers that are kept of published posts, and what is promised of   *)
(* them.  Ingestion has the steps of the runs that fetch them, Overview    *)
(* what is made of them.                                                   *)
(***************************************************************************)
EXTENDS Integers, Sequences, FiniteSets

CONSTANTS
    Jobs,           \* publish_job rows, each with an account of its own
    NoJob,          \* what a run works on between two posts
    Assignments,    \* the platforms of their accounts: functions from Jobs
    Runs,           \* ingestion_run rows
    MaxReactions,   \* bound: how often readers react to posts
    MaxChanges,     \* bound: disconnections, reconnections and requeues
    Slots,          \* bound: the hours of the week that posts are sent in
    TopN            \* how many posts, and hours, are listed

ASSUME PostMetricsAssumption ==
    /\ IsFiniteSet(Jobs) /\ NoJob \notin Jobs
    /\ Assignments \subseteq [Jobs -> {"instagram", "facebook", "threads", "x", "linkedin"}]
    /\ MaxReactions \in Nat /\ MaxChanges \in Nat /\ TopN \in Nat
    /\ Slots \subseteq 0 .. 7 * 24 - 1

VARIABLES
    job,        \* publish_job, and its account: [Jobs -> Job]
    metric,     \* post_metric: [Jobs -> Metric]
    run,        \* ingestion_run, and how far it is: [Runs -> Run]
    reactions,  \* external: [Jobs -> Seq([Kind -> Nat])], ever, to each post it made
    asked,      \* external: [Jobs -> Nat], how often a platform told of one of them
    bounds      \* how many of the bounded steps were taken

-----------------------------------------------------------------------------

\* METRIC_KEYS, the columns of post_metric.
Fields == {"impressions", "reach", "likes", "comments", "shares", "clicks"}

EngagementOf(m) == m.likes + m.comments + m.shares + m.clicks

AtMost(m, n) == \A k \in Fields : m[k] <= n[k]

\* The row of a post with the reactions n: what the readers of each platform
\* have done, as far as it tells.
Told(platform, n) ==
    [impressions |-> IF platform = "linkedin" THEN 0 ELSE n["view"],
     reach |-> IF platform \in {"instagram", "facebook"} THEN n["view"] ELSE 0,
     likes |-> n["like"],
     comments |-> n["comment"],
     shares |-> IF platform = "linkedin" THEN 0
                ELSE IF platform \in {"threads", "x"} THEN n["repost"] + n["quote"]
                ELSE n["repost"],
     clicks |-> IF platform = "facebook" THEN n["click"] ELSE 0]

\* A row tells of a post that was made, of no more than its readers ever did, and of
\* all that the platform's answer did.
RowTrue(x, platform, tally) ==
    x.row =>
        /\ x.post \in 1 .. Len(tally)
        /\ AtMost(x.counts, Told(platform, tally[x.post]))
        /\ EngagementOf(x.counts) = x.seen

-----------------------------------------------------------------------------
(* Properties. *)

\* At any time a row of the overview tells of a post its job has made, of no
\* more than readers ever did to that very post, and counts once each reaction that the
\* platform's answer told of, by whatever name and with whichever names
\* left out: normalizeMetrics and the upsert of a run that others overtake.
RowsTrue == \A j \in Jobs : RowTrue(metric[j], job[j].platform, reactions[j])

\* A row goes back, to a post that its job has replaced or to what the platform
\* said before what the row tells of, only when another run was under way while
\* the one that wrote it was: with each run's upserts awaited before it is over, one
\* that has the posts to itself leaves every row as new as it finds it, whatever is
\* requeued, published again, deleted, or dies before it.
GoesBackOnlyByOverlap ==
    [][\A r \in Runs, j \in Jobs :
          (/\ run[r].at = "upsert" /\ run'[r].at = "loop" /\ run[r].job = j
           /\ metric[j].row
           /\ metric'[j].post < metric[j].post \/ metric'[j].asked < metric[j].asked)
          => ~run[r].alone]_<<metric, run>>

=============================================================================
