----------------------------- MODULE Ingestion ------------------------------
(***************************************************************************)
(* What becomes of a post once it is out: backend/src/analytics.           *)
(*                                                                         *)
(* Every hour a run asks the platforms for the numbers of every published  *)
(* post and keeps them, one row for each publish_job, in the words of one  *)
(* schema; Overview adds the rows up.  A run may take longer than an       *)
(* hour, and every instance of the server has a timer of its own: nothing  *)
(* keeps runs apart, nor do posts hold still while one is under way.       *)
(***************************************************************************)
EXTENDS Overview

vars == <<job, metric, run, reactions, asked, bounds>>

-----------------------------------------------------------------------------
(* The platforms' words. *)

Kind == {"view", "like", "comment", "repost", "quote", "click"}

\* The reaction that a name stands for on each platform.
Means ==
    [instagram |-> [impressions |-> "view", reach |-> "view", likes |-> "like",
                    comments |-> "comment", shares |-> "repost"],
     facebook  |-> [post_impressions |-> "view", post_impressions_unique |-> "view",
                    post_clicks |-> "click", likes |-> "like", comments |-> "comment",
                    shares |-> "repost"],
     threads   |-> [views |-> "view", likes |-> "like", replies |-> "comment",
                    reposts |-> "repost", quotes |-> "quote"],
     x         |-> [impression_count |-> "view", like_count |-> "like",
                    reply_count |-> "comment", retweet_count |-> "repost",
                    quote_count |-> "quote"],
     linkedin  |-> [totalLikes |-> "like", aggregatedTotalComments |-> "comment",
                    count |-> "comment"]]

\* What fetchRaw asks for.
Asked ==
    [instagram |-> {"impressions", "reach", "likes", "comments", "shares"},
     facebook  |-> {"post_impressions", "post_impressions_unique", "post_clicks",
                    "likes", "comments", "shares"},
     threads   |-> {"views", "likes", "replies", "reposts", "quotes"},
     x         |-> {"impression_count", "like_count", "reply_count", "retweet_count",
                    "quote_count"},
     linkedin  |-> {"totalLikes", "aggregatedTotalComments", "count"}]

\* num: what an answer leaves out, or has in a form that is no count, is 0.
Num(raw, name) == IF name \in DOMAIN raw THEN raw[name] ELSE 0

CanonicalMetrics(impressions, reach, likes, comments, shares, clicks) ==
    [impressions |-> impressions, reach |-> reach, likes |-> likes,
     comments |-> comments, shares |-> shares, clicks |-> clicks]

NormalizeInstagram(raw) ==
    CanonicalMetrics(Num(raw, "impressions"), Num(raw, "reach"), Num(raw, "likes"),
                     Num(raw, "comments"), Num(raw, "shares"), 0)

NormalizeFacebook(raw) ==
    CanonicalMetrics(Num(raw, "post_impressions"), Num(raw, "post_impressions_unique"),
                     Num(raw, "likes"), Num(raw, "comments"), Num(raw, "shares"),
                     Num(raw, "post_clicks"))

NormalizeThreads(raw) ==
    CanonicalMetrics(Num(raw, "views"), 0, Num(raw, "likes"), Num(raw, "replies"),
                     Num(raw, "reposts") + Num(raw, "quotes"), 0)

\* An answer without public_metrics is all zeros.
NormalizeX(raw) ==
    IF DOMAIN raw = {} THEN CanonicalMetrics(0, 0, 0, 0, 0, 0)
    ELSE CanonicalMetrics(Num(raw, "impression_count"), 0, Num(raw, "like_count"),
                          Num(raw, "reply_count"),
                          Num(raw, "retweet_count") + Num(raw, "quote_count"), 0)

\* Mutant: both names of one number are added.
LinkedInTwice(raw) ==
    CanonicalMetrics(0, 0, Num(raw, "totalLikes"),
                     Num(raw, "aggregatedTotalComments") + Num(raw, "count"), 0, 0)

\* aggregatedTotalComments ?? count.
NormalizeLinkedIn(raw) ==
    CanonicalMetrics(0, 0, Num(raw, "totalLikes"),
                     IF "aggregatedTotalComments" \in DOMAIN raw
                     THEN raw.aggregatedTotalComments ELSE Num(raw, "count"), 0, 0)

NormalizeMetrics(platform, raw) ==
    CASE platform = "instagram" -> NormalizeInstagram(raw)
      [] platform = "facebook" -> NormalizeFacebook(raw)
      [] platform = "threads" -> NormalizeThreads(raw)
      [] platform = "x" -> NormalizeX(raw)
      [] platform = "linkedin" -> NormalizeLinkedIn(raw)

-----------------------------------------------------------------------------
(* State. *)

\* post: which post the externalPostId names, of those the job has made.
Job == [status : {"published", "queued", "gone"}, connected : BOOLEAN,
        platform : Networks, post : Nat]

\* row: whether there is one; post, seen, asked: of which post it tells, the
\* engagement in the platform's answer, and which of the platform's answers about
\* the job that was (observed only by properties).
Metric == [row : BOOLEAN, counts : [Fields -> Nat], post : Nat, seen : Nat, asked : Nat]

\* todo: the jobs found and not yet asked about, with the post each named; raw:
\* the answer for job; alone: no other run was under way at the same time.
Run == [status : {"none", "running", "success", "failed"},
        at : {"idle", "find", "loop", "upsert"},
        todo : SUBSET [job : Jobs, post : Nat],
        job : Jobs \cup {NoJob}, post : Nat, counts : Metric, alone : BOOLEAN]

NoMetric == [row |-> FALSE, counts |-> CanonicalMetrics(0, 0, 0, 0, 0, 0),
             post |-> 0, seen |-> 0, asked |-> 0]

NewRun == [status |-> "none", at |-> "idle", todo |-> {}, job |-> NoJob, post |-> 0,
           counts |-> NoMetric, alone |-> TRUE]

NoReactions == [k \in Kind |-> 0]

Init ==
    /\ \E a \in Assignments :
          job = [j \in Jobs |-> [status |-> "published", connected |-> TRUE,
                                platform |-> a[j], post |-> 1]]
    /\ metric = [j \in Jobs |-> NoMetric]
    /\ run = [r \in Runs |-> NewRun]
    /\ reactions = [j \in Jobs |-> <<NoReactions>>]
    /\ asked = [j \in Jobs |-> 0]
    /\ bounds = [reactions |-> 0, changes |-> 0]

-----------------------------------------------------------------------------
(* Readers, members and admins. *)

React(j, k) ==
    /\ job[j].status # "gone"
    /\ \E name \in DOMAIN Means[job[j].platform] : Means[job[j].platform][name] = k
    /\ bounds.reactions < MaxReactions
    /\ bounds' = [bounds EXCEPT !.reactions = @ + 1]
    /\ reactions' = [reactions EXCEPT ![j][job[j].post][k] = @ + 1]
    /\ UNCHANGED <<job, metric, run, asked>>

Changing == bounds.changes < MaxChanges /\ bounds' = [bounds EXCEPT !.changes = @ + 1]

\* The account is disconnected, or connected again.
Reconnect(j) ==
    /\ Changing
    /\ job[j].status # "gone"
    /\ job' = [job EXCEPT ![j].connected = ~@]
    /\ UNCHANGED <<metric, run, reactions, asked>>

\* An admin's requeue that read the row before it was published; its metrics
\* stay.
Requeue(j) ==
    /\ Changing
    /\ job[j].status = "published"
    /\ job' = [job EXCEPT ![j].status = "queued"]
    /\ UNCHANGED <<metric, run, reactions, asked>>

\* Published again: another post, which nobody has seen yet.
Republish(j) ==
    /\ job[j].status = "queued"
    /\ job' = [job EXCEPT ![j].status = "published", ![j].post = @ + 1]
    /\ reactions' = [reactions EXCEPT ![j] = Append(@, NoReactions)]
    /\ UNCHANGED <<metric, run, asked, bounds>>

\* The design is deleted; both foreign keys cascade.
Delete(j) ==
    /\ Changing
    /\ job[j].status # "gone"
    /\ job' = [job EXCEPT ![j].status = "gone"]
    /\ metric' = [metric EXCEPT ![j] = NoMetric]
    /\ UNCHANGED <<run, reactions, asked>>

-----------------------------------------------------------------------------
(* runIngestion. *)

\* The other runs that are under way: not over, nor dead with their process.
Others(r) == {q \in Runs \ {r} : run[q].status = "running" /\ run[q].at # "idle"}

\* The timer of some instance: the row says running.
Begin(r) ==
    /\ run[r].status = "none"
    /\ run' = [q \in Runs |->
                  IF q = r THEN [NewRun EXCEPT !.status = "running", !.at = "find",
                                               !.alone = Others(r) = {}]
                  ELSE IF q \in Others(r) THEN [run[q] EXCEPT !.alone = FALSE]
                  ELSE run[q]]
    /\ UNCHANGED <<job, metric, reactions, asked, bounds>>

End(r, status) == run' = [run EXCEPT ![r] = [NewRun EXCEPT !.status = status]]

\* findMany; when it throws the run failed.
Find(r) ==
    LET found == {j \in Jobs : job[j].status = "published" /\ job[j].connected} IN
    /\ run[r].at = "find"
    /\ \/ run' = [run EXCEPT ![r].at = "loop",
                             ![r].todo = {[job |-> j, post |-> job[j].post] : j \in found}]
       \/ End(r, "failed")
    /\ UNCHANGED <<job, metric, reactions, asked, bounds>>

\* What readers have not taken back: of all they ever did, any part.
Left(t) ==
    {n \in [Kind -> 0 .. MaxReactions] :
        \A k \in Kind : n[k] <= reactions[t.job][t.post][k]}

\* What an answer may leave out: anything asked for, or all of it.
Optional(t) == SUBSET Asked[job[t.job].platform]

\* The platform's answer about a post with the reactions n.
Answer(t, n, missing) ==
    LET means == Means[job[t.job].platform] IN
    [name \in (Asked[job[t.job].platform] \cap DOMAIN means) \ missing |-> n[means[name]]]

Answers(t) == {Answer(t, n, missing) : missing \in Optional(t), n \in Left(t)}

\* The engagement an answer tells of: each sort of reaction once, views apart.
EngagementIn(t, raw) ==
    LET means == Means[job[t.job].platform]
        Names(k) == {name \in DOMAIN raw : means[name] = k}
        Of(k) == IF Names(k) = {} THEN 0 ELSE raw[CHOOSE name \in Names(k) : TRUE]
    IN Of("like") + Of("comment") + Of("repost") + Of("quote") + Of("click")

\* What is kept of an answer.
Entry(t, raw) ==
    [row |-> TRUE, counts |-> NormalizeMetrics(job[t.job].platform, raw),
     post |-> t.post, seen |-> EngagementIn(t, raw), asked |-> asked[t.job] + 1]

\* The next post: its token is decrypted, the platform asked, and the answer
\* put into the words of the schema.  Whatever fails is counted and passed over.
FetchRaw(r) ==
    /\ run[r].at = "loop"
    /\ \E t \in run[r].todo :
        \/ /\ \E entry \in {Entry(t, raw) : raw \in Answers(t)} :
                run' = [run EXCEPT ![r].at = "upsert", ![r].todo = @ \ {t},
                                   ![r].job = t.job, ![r].post = t.post,
                                   ![r].counts = entry]
           /\ asked' = [asked EXCEPT ![t.job] = @ + 1]
        \/ run' = [run EXCEPT ![r].todo = @ \ {t}] /\ asked' = asked
    /\ UNCHANGED <<job, metric, reactions, bounds>>

\* postMetric.upsert; a job that is gone has none (foreign key).
Upsert(r) ==
    /\ run[r].at = "upsert"
    /\ metric' = IF job[run[r].job].status = "gone" THEN metric
                 ELSE [metric EXCEPT ![run[r].job] = run[r].counts]
    /\ run' = [run EXCEPT ![r].at = "loop", ![r].job = NoJob, ![r].post = 0,
                          ![r].counts = NoMetric]
    /\ UNCHANGED <<job, reactions, asked, bounds>>

\* Mutant: the upserts are not awaited, and the last is still on its way when the
\* run is recorded as over.
FinishUnawaited(r) ==
    /\ run[r].at \in {"loop", "upsert"}
    /\ run[r].todo = {}
    /\ \/ run[r].at = "upsert" /\ run' = [run EXCEPT ![r].status = "success"]
       \/ run[r].at = "loop" /\ End(r, "success")
       \/ End(r, "failed")
    /\ UNCHANGED <<job, metric, reactions, asked, bounds>>

\* The update of the run; when it throws, the one of the catch block follows.
Finish(r) ==
    /\ run[r].at = "loop"
    /\ run[r].todo = {}
    /\ End(r, "success") \/ End(r, "failed")
    /\ UNCHANGED <<job, metric, reactions, asked, bounds>>

\* The process dies, or the update of the catch block throws as well: the row
\* goes on saying running.
Die(r) ==
    /\ run[r].at # "idle"
    /\ End(r, "running")
    /\ UNCHANGED <<job, metric, reactions, asked, bounds>>

-----------------------------------------------------------------------------

Next ==
    \/ \E j \in Jobs : \/ \E k \in Kind : React(j, k)
                       \/ Reconnect(j) \/ Requeue(j) \/ Republish(j) \/ Delete(j)
    \/ \E r \in Runs : \/ Begin(r) \/ Find(r) \/ FetchRaw(r) \/ Upsert(r)
                       \/ Finish(r) \/ Die(r)

Spec == Init /\ [][Next]_vars

-----------------------------------------------------------------------------
(* Properties. *)

TypeOK ==
    /\ job \in [Jobs -> Job]
    /\ metric \in [Jobs -> Metric]
    /\ run \in [Runs -> Run]
    /\ reactions \in [Jobs -> Seq([Kind -> Nat])]
    /\ asked \in [Jobs -> Nat]
    /\ bounds \in [reactions : 0 .. MaxReactions, changes : 0 .. MaxChanges]

=============================================================================
