----------------------------- MODULE Publishing -----------------------------
(***************************************************************************)
(* The publish pipeline of backend/src/publishing: the publish_job rows,   *)
(* the BullMQ entries that drive them, the 30-second dispatcher that       *)
(* claims due rows, the HTTP requests of members and platform admins, and  *)
(* the platform on which posts finally appear.                             *)
(*                                                                         *)
(* One step is one await of the source: what runs between two awaits is    *)
(* atomic, and anything of any other actor may run at an await.  An entry  *)
(* that a worker is processing carries that worker's program counter; any  *)
(* number of entries may be processed at once, as when several instances   *)
(* of the API are up.                                                      *)
(***************************************************************************)
EXTENDS Naturals, FiniteSets

CONSTANTS
    Jobs,         \* ids of publish_job rows
    Carousels,    \* the jobs created by the carousel endpoints
    Entries,      \* ids of BullMQ jobs
    Ticks,        \* dispatcher ticks that may overlap (or run on two instances)
    Requests,     \* HTTP requests in flight
    NoJob,        \* a request or an entry that holds no job
    MaxAttempts,  \* PUBLISH_JOB_OPTIONS.attempts
    MaxStalls,    \* how often BullMQ takes an entry back from a dead worker
    MaxRequeues,  \* bound: admin retries in one behaviour
    Ops,          \* the endpoints in use, a subset of AllOps
    Faults        \* what may go wrong, a subset of AllFaults

AllOps == {"now", "schedule", "cancelScheduled", "requeue", "cancelJob", "delete"}

\* "ambiguous": the platform accepts a post and the call still throws.
\* "db": a database call made by a worker throws.
\* "token": ensureFreshAccessToken throws something else than
\*   TokenReconnectRequiredError (a token that cannot be decrypted, say).
\* "enqueue": queue.add throws, or the process dies, after the row was written.
\* "crash": a worker process dies and BullMQ takes its entry back.
AllFaults == {"ambiguous", "db", "token", "enqueue", "crash"}

ASSUME ConstantsAssumption ==
    /\ Carousels \subseteq Jobs
    /\ NoJob \notin Jobs
    /\ MaxAttempts \in Nat \ {0}
    /\ MaxStalls \in Nat
    /\ MaxRequeues \in Nat
    /\ Ops \subseteq AllOps
    /\ Faults \subseteq AllFaults

VARIABLES
    job,      \* publish_job: [Jobs -> JobRow]
    entry,    \* the publish-<platform> queues: [Entries -> Entry]
    tick,     \* dispatchDueScheduledJobs in progress: [Ticks -> Tick]
    req,      \* requests in progress: [Requests -> Request]
    posts,    \* external: how many posts the platform shows for a job
    history   \* observed only by properties: see History

vars == <<job, entry, tick, req, posts, history>>

-----------------------------------------------------------------------------
(* State. *)

Status == {"absent", "scheduled", "queued", "processing", "published",
           "failed", "cancelled", "deleted"}

JobRow == [status : Status, due : BOOLEAN, attemptCount : 0 .. MaxAttempts]

\* Where executePublish stands for an entry.  "load" .. "notifyFailed" are the
\* awaits of the handler; "return" and "throw" are its two ways to end, still
\* to be acknowledged by BullMQ.
Running == {"load", "deps", "mark", "token", "reconnect", "notifyReconnect",
            "publish", "record", "notify", "catch", "notifyFailed",
            "return", "throw"}

At == {"free", "waiting", "completed", "exhausted"} \cup Running

Origin == {"publishNow", "dispatch", "requeue"}

Entry == [job : Jobs \cup {NoJob}, origin : Origin, at : At,
          attemptsMade : 0 .. MaxAttempts, stalls : 0 .. MaxStalls,
          calls : Nat]

\* due: rows of the initial findMany still to be visited; claimed: the row
\* claimed but not yet enqueued, if any.
Tick == [due : SUBSET Jobs, claimed : SUBSET Jobs]

RequestOp == {"idle", "nowEnqueue", "cancelUpdate", "requeueUpdate",
              "requeueEnqueue", "cancelJobUpdate"}

Request == [op : RequestOp, job : Jobs \cup {NoJob}]

\* userCancelled: jobs that cancelScheduled cancelled; requeues: admin
\* retries so far; notified: the outcomes the author was told.
History == [userCancelled : SUBSET Jobs, requeues : 0 .. MaxRequeues,
            notified : [Jobs -> SUBSET {"publish_succeeded", "publish_failed"}]]

FreeEntry == [job |-> NoJob, origin |-> "publishNow", at |-> "free",
              attemptsMade |-> 0, stalls |-> 0, calls |-> 0]

Idle == [op |-> "idle", job |-> NoJob]

Init ==
    /\ job = [j \in Jobs |-> [status |-> "absent", due |-> FALSE, attemptCount |-> 0]]
    /\ entry = [e \in Entries |-> FreeEntry]
    /\ tick = [t \in Ticks |-> [due |-> {}, claimed |-> {}]]
    /\ req = [r \in Requests |-> Idle]
    /\ posts = [j \in Jobs |-> 0]
    /\ history = [userCancelled |-> {}, requeues |-> 0,
                  notified |-> [j \in Jobs |-> {}]]

-----------------------------------------------------------------------------
(* Shared by the actions below. *)

\* A publishJob row the database still holds.
Exists(j) == job[j].status \notin {"absent", "deleted"}

\* prisma.publishJob.update: throws (is not enabled) when the row is gone.
Update(j, s) ==
    /\ Exists(j)
    /\ job' = [job EXCEPT ![j].status = s]

\* queue.add('publish', ..., PUBLISH_JOB_OPTIONS).
Add(j, o) ==
    \E e \in Entries :
        /\ entry[e].at = "free"
        /\ entry' = [entry EXCEPT ![e] =
                        [FreeEntry EXCEPT !.job = j, !.origin = o, !.at = "waiting"]]

Goto(e, to) == entry' = [entry EXCEPT ![e].at = to]

\* notifyOwner finds its author through the asset, and is quiet without it.
Notify(j, n) ==
    IF Exists(j)
    THEN history' = [history EXCEPT !.notified[j] = @ \cup {n}]
    ELSE UNCHANGED history

-----------------------------------------------------------------------------
(* Requests of members. *)

\* publishNow and publishCarouselNow: loadAndValidate has passed; the row is
\* created as queued, and enqueued in a second step.
PublishNow(r, j) ==
    /\ "now" \in Ops
    /\ req[r] = Idle
    /\ job[j].status = "absent"
    /\ job' = [job EXCEPT ![j].status = "queued"]
    /\ req' = [req EXCEPT ![r] = [op |-> "nowEnqueue", job |-> j]]
    /\ UNCHANGED <<entry, tick, posts, history>>

PublishNowEnqueue(r) ==
    /\ req[r].op = "nowEnqueue"
    /\ Add(req[r].job, "publishNow")
    /\ req' = [req EXCEPT ![r] = Idle]
    /\ UNCHANGED <<job, tick, posts, history>>

\* schedule and scheduleCarousel: the row is the whole schedule.
Schedule(j) ==
    /\ "schedule" \in Ops
    /\ job[j].status = "absent"
    /\ job' = [job EXCEPT ![j].status = "scheduled"]
    /\ UNCHANGED <<entry, tick, req, posts, history>>

\* Mutant: an update that trusts the earlier read.
CancelScheduledUnguarded(r) ==
    /\ req[r].op = "cancelUpdate"
    /\ Update(req[r].job, "cancelled")
    /\ history' = [history EXCEPT !.userCancelled = @ \cup {req[r].job}]
    /\ req' = [req EXCEPT ![r] = Idle]
    /\ UNCHANGED <<entry, tick, posts>>

\* cancelScheduled reads the row, then updates it if it is still scheduled.
CancelScheduledRead(r, j) ==
    /\ "cancelScheduled" \in Ops
    /\ req[r] = Idle
    /\ job[j].status = "scheduled"
    /\ req' = [req EXCEPT ![r] = [op |-> "cancelUpdate", job |-> j]]
    /\ UNCHANGED <<job, entry, tick, posts, history>>

CancelScheduledUpdate(r) ==
    LET j == req[r].job IN
    /\ req[r].op = "cancelUpdate"
    /\ IF job[j].status = "scheduled"
       THEN /\ job' = [job EXCEPT ![j].status = "cancelled"]
            /\ history' = [history EXCEPT !.userCancelled = @ \cup {j}]
       ELSE UNCHANGED <<job, history>>
    /\ req' = [req EXCEPT ![r] = Idle]
    /\ UNCHANGED <<entry, tick, posts>>

\* ContentService.delete: the row of a design's job goes with it (onDelete:
\* Cascade along asset, variant, job).  Carousels have no such endpoint.
DeleteAsset(j) ==
    /\ "delete" \in Ops
    /\ j \notin Carousels
    /\ Exists(j)
    /\ job' = [job EXCEPT ![j].status = "deleted"]
    /\ UNCHANGED <<entry, tick, req, posts, history>>

-----------------------------------------------------------------------------
(* Requests of platform admins. *)

RequeueRead(r, j) ==
    /\ "requeue" \in Ops
    /\ req[r] = Idle
    /\ history.requeues < MaxRequeues
    /\ Exists(j)
    /\ job[j].status # "published"
    /\ req' = [req EXCEPT ![r] = [op |-> "requeueUpdate", job |-> j]]
    /\ history' = [history EXCEPT !.requeues = @ + 1]
    /\ UNCHANGED <<job, entry, tick, posts>>

RequeueUpdate(r) ==
    /\ req[r].op = "requeueUpdate"
    /\ \/ /\ Update(req[r].job, "queued")
          /\ req' = [req EXCEPT ![r].op = "requeueEnqueue"]
       \/ /\ ~Exists(req[r].job)
          /\ req' = [req EXCEPT ![r] = Idle]
          /\ UNCHANGED job
    /\ UNCHANGED <<entry, tick, posts, history>>

RequeueEnqueue(r) ==
    /\ req[r].op = "requeueEnqueue"
    /\ Add(req[r].job, "requeue")
    /\ req' = [req EXCEPT ![r] = Idle]
    /\ UNCHANGED <<job, tick, posts, history>>

CancelJobRead(r, j) ==
    /\ "cancelJob" \in Ops
    /\ req[r] = Idle
    /\ Exists(j)
    /\ job[j].status # "published"
    /\ req' = [req EXCEPT ![r] = [op |-> "cancelJobUpdate", job |-> j]]
    /\ UNCHANGED <<job, entry, tick, posts, history>>

CancelJobUpdate(r) ==
    /\ req[r].op = "cancelJobUpdate"
    /\ \/ Update(req[r].job, "cancelled")
       \/ ~Exists(req[r].job) /\ UNCHANGED job
    /\ req' = [req EXCEPT ![r] = Idle]
    /\ UNCHANGED <<entry, tick, posts, history>>

\* queue.add throws, or the process dies, between the row and the entry: the
\* client gets a 500 and the row stays as it was written.
RequestEnqueueFails(r) ==
    /\ "enqueue" \in Faults
    /\ req[r].op \in {"nowEnqueue", "requeueEnqueue"}
    /\ req' = [req EXCEPT ![r] = Idle]
    /\ UNCHANGED <<job, entry, tick, posts, history>>

-----------------------------------------------------------------------------
(* The dispatcher: dispatchDueScheduledJobs, every 30 seconds. *)

\* scheduledAt passes.
ComeDue(j) ==
    /\ job[j].status = "scheduled"
    /\ ~job[j].due
    /\ job' = [job EXCEPT ![j].due = TRUE]
    /\ UNCHANGED <<entry, tick, req, posts, history>>

\* The findMany.  A tick that finds nothing ends at once.
TickFind(t) ==
    /\ tick[t] = [due |-> {}, claimed |-> {}]
    /\ tick' = [tick EXCEPT ![t].due =
                    {j \in Jobs : job[j].status = "scheduled" /\ job[j].due}]
    /\ UNCHANGED <<job, entry, req, posts, history>>

\* Mutant: update instead of updateMany, without the status in its where.
TickClaimUnguarded(t) ==
    /\ tick[t].claimed = {}
    /\ \E j \in tick[t].due :
        /\ Update(j, "queued")
        /\ tick' = [tick EXCEPT ![t] = [due |-> @.due \ {j}, claimed |-> {j}]]
    /\ UNCHANGED <<entry, req, posts, history>>

\* The updateMany that claims one row, skipping it when the count is 0.
TickClaim(t) ==
    /\ tick[t].claimed = {}
    /\ \E j \in tick[t].due :
        IF job[j].status = "scheduled"
        THEN /\ job' = [job EXCEPT ![j].status = "queued"]
             /\ tick' = [tick EXCEPT ![t] = [due |-> @.due \ {j}, claimed |-> {j}]]
        ELSE /\ tick' = [tick EXCEPT ![t].due = @ \ {j}]
             /\ UNCHANGED job
    /\ UNCHANGED <<entry, req, posts, history>>

TickEnqueue(t) ==
    /\ \E j \in tick[t].claimed : Add(j, "dispatch")
    /\ tick' = [tick EXCEPT ![t].claimed = {}]
    /\ UNCHANGED <<job, req, posts, history>>

\* queue.add throws: dispatchDue logs it and the rest of the tick is lost.
TickEnqueueFails(t) ==
    /\ "enqueue" \in Faults
    /\ tick[t].claimed # {}
    /\ tick' = [tick EXCEPT ![t] = [due |-> {}, claimed |-> {}]]
    /\ UNCHANGED <<job, entry, req, posts, history>>

-----------------------------------------------------------------------------
(* The workers: executePublish and executeCarouselPublish, one action per  *)
(* await.  An await whose row is gone, or whose database call fails, ends  *)
(* in the handler's catch block or leaves the handler.                     *)

DbFails == "db" \in Faults

\* BullMQ hands a waiting entry to a worker.
Take(e) ==
    /\ entry[e].at = "waiting"
    /\ Goto(e, "load")
    /\ UNCHANGED <<job, tick, req, posts, history>>

\* publishJob.findUnique: a missing row ends the handler quietly.
Load(e) ==
    /\ entry[e].at = "load"
    /\ \/ Exists(entry[e].job) /\ Goto(e, "deps")
       \/ ~Exists(entry[e].job) /\ Goto(e, "return")
       \/ DbFails /\ Goto(e, "throw")
    /\ UNCHANGED <<job, tick, req, posts, history>>

\* variant (or carousel) and account are read.  A variant can only be missing
\* because its asset, and with it the row, was deleted since Load, so the
\* update to failed that follows finds no row and throws.
Deps(e) ==
    /\ entry[e].at = "deps"
    /\ \/ Exists(entry[e].job) /\ Goto(e, "mark")
       \/ (DbFails \/ ~Exists(entry[e].job)) /\ Goto(e, "throw")
    /\ UNCHANGED <<job, tick, req, posts, history>>

\* Mutant: updateMany, which is content to match no row.
MarkProcessingIfThere(e) ==
    LET j == entry[e].job IN
    /\ entry[e].at = "mark"
    /\ Goto(e, "token")
    /\ IF Exists(j)
       THEN job' = [job EXCEPT ![j].status = "processing",
                               ![j].attemptCount = entry[e].attemptsMade + 1]
       ELSE UNCHANGED job
    /\ UNCHANGED <<tick, req, posts, history>>

\* status := processing, attemptCount := attemptsMade + 1.
MarkProcessing(e) ==
    LET j == entry[e].job IN
    /\ entry[e].at = "mark"
    /\ \/ /\ Exists(j)
          /\ Goto(e, "token")
          /\ job' = [job EXCEPT ![j].status = "processing",
                                ![j].attemptCount = entry[e].attemptsMade + 1]
       \/ /\ DbFails \/ ~Exists(j)
          /\ Goto(e, "throw")
          /\ UNCHANGED job
    /\ UNCHANGED <<tick, req, posts, history>>

\* ensureFreshAccessToken: a token, TokenReconnectRequiredError, or a throw.
EnsureToken(e) ==
    /\ entry[e].at = "token"
    /\ \/ Goto(e, "publish")
       \/ Goto(e, "reconnect")
       \/ "token" \in Faults /\ Goto(e, "throw")
    /\ UNCHANGED <<job, tick, req, posts, history>>

\* A needed reconnect fails the job for good, then tells the author.
Reconnect(e) ==
    LET j == entry[e].job IN
    /\ entry[e].at = "reconnect"
    /\ \/ Goto(e, "notifyReconnect") /\ Update(j, "failed")
       \/ /\ DbFails \/ ~Exists(j)
          /\ Goto(e, "throw")
          /\ UNCHANGED job
    /\ UNCHANGED <<tick, req, posts, history>>

NotifyReconnect(e) ==
    /\ entry[e].at = "notifyReconnect"
    /\ \/ /\ Goto(e, "return")
          /\ Notify(entry[e].job, "publish_failed")
       \/ /\ DbFails /\ entry[e].job \notin Carousels
          /\ Goto(e, "throw")
          /\ UNCHANGED history
    /\ UNCHANGED <<job, tick, req, posts>>

\* Mutant: an adapter that swallows the platform's refusal.
CallPlatformSwallows(e) ==
    LET j == entry[e].job IN
    /\ entry[e].at = "publish"
    /\ entry' = [entry EXCEPT ![e].at = "record", ![e].calls = @ + 1]
    /\ \E posted \in {0, 1} : posts' = [posts EXCEPT ![j] = @ + posted]
    /\ UNCHANGED <<job, tick, req, history>>

\* adapter.publish / publishCarousel: the platform posts and answers, refuses,
\* or posts and the answer is lost.
CallPlatform(e) ==
    LET j == entry[e].job
        Outcome(to, posted) ==
            /\ entry' = [entry EXCEPT ![e].at = to, ![e].calls = @ + 1]
            /\ posts' = [posts EXCEPT ![j] = @ + posted]
    IN
    /\ entry[e].at = "publish"
    /\ \/ Outcome("record", 1)
       \/ Outcome("catch", 0)
       \/ "ambiguous" \in Faults /\ Outcome("catch", 1)
    /\ UNCHANGED <<job, tick, req, history>>

\* status := published.
Record(e) ==
    LET j == entry[e].job IN
    /\ entry[e].at = "record"
    /\ \/ Goto(e, "notify") /\ Update(j, "published")
       \/ /\ DbFails \/ ~Exists(j)
          /\ Goto(e, "catch")
          /\ UNCHANGED job
    /\ UNCHANGED <<tick, req, posts, history>>

\* notifyOwner reads the asset inside the try block: when that read throws,
\* the published post falls into the catch block.  A carousel's author needs
\* no read, and notifySafe never throws.
NotifyPublished(e) ==
    /\ entry[e].at = "notify"
    /\ \/ /\ Goto(e, "return")
          /\ Notify(entry[e].job, "publish_succeeded")
       \/ /\ DbFails /\ entry[e].job \notin Carousels
          /\ Goto(e, "catch")
          /\ UNCHANGED history
    /\ UNCHANGED <<job, tick, req, posts>>

\* Mutant: compares before counting the attempt in progress.
IsFinalAttemptLate(e) == entry[e].attemptsMade >= MaxAttempts

IsFinalAttempt(e) == entry[e].attemptsMade + 1 >= MaxAttempts

\* Mutants of the catch block: failed at the first refusal; a notification
\* for every refusal; none at all.
CatchFailsEarly(e) ==
    /\ entry[e].at = "catch"
    /\ Goto(e, IF IsFinalAttempt(e) THEN "notifyFailed" ELSE "throw")
    /\ Update(entry[e].job, "failed")
    /\ UNCHANGED <<tick, req, posts, history>>

CatchAlwaysNotifies(e) ==
    /\ entry[e].at = "catch"
    /\ Goto(e, "notifyFailed")
    /\ Update(entry[e].job, IF IsFinalAttempt(e) THEN "failed" ELSE "processing")
    /\ UNCHANGED <<tick, req, posts, history>>

CatchNeverNotifies(e) ==
    /\ entry[e].at = "catch"
    /\ Goto(e, "throw")
    /\ Update(entry[e].job, IF IsFinalAttempt(e) THEN "failed" ELSE "processing")
    /\ UNCHANGED <<tick, req, posts, history>>

\* The catch block: failed on the final attempt, processing before it.
Catch(e) ==
    LET j == entry[e].job IN
    /\ entry[e].at = "catch"
    /\ \/ /\ IsFinalAttempt(e)
          /\ Goto(e, "notifyFailed")
          /\ Update(j, "failed")
       \/ /\ ~IsFinalAttempt(e)
          /\ Goto(e, "throw")
          /\ Update(j, "processing")
       \/ /\ DbFails \/ ~Exists(j)
          /\ Goto(e, "throw")
          /\ UNCHANGED job
    /\ UNCHANGED <<tick, req, posts, history>>

NotifyFailed(e) ==
    /\ entry[e].at = "notifyFailed"
    /\ Goto(e, "throw")
    /\ \/ Notify(entry[e].job, "publish_failed")
       \/ DbFails /\ entry[e].job \notin Carousels /\ UNCHANGED history
    /\ UNCHANGED <<job, tick, req, posts>>

\* The handler returned: BullMQ completes the entry.
Complete(e) ==
    /\ entry[e].at = "return"
    /\ Goto(e, "completed")
    /\ UNCHANGED <<job, tick, req, posts, history>>

\* Mutants: an attempt that is not counted; a queue configured with one
\* attempt less than the handler believes in.
RetryUncounted(e) ==
    /\ entry[e].at = "throw"
    /\ Goto(e, "waiting")
    /\ UNCHANGED <<job, tick, req, posts, history>>

RetryGivesUpEarly(e) ==
    /\ entry[e].at = "throw"
    /\ entry' = [entry EXCEPT
                    ![e].at = IF entry[e].attemptsMade + 2 >= MaxAttempts THEN "exhausted" ELSE "waiting",
                    ![e].attemptsMade = @ + 1]
    /\ UNCHANGED <<job, tick, req, posts, history>>

\* The handler threw: BullMQ tries again after a backoff, or gives up.
Retry(e) ==
    /\ entry[e].at = "throw"
    /\ entry' = [entry EXCEPT
                    ![e].at = IF IsFinalAttempt(e) THEN "exhausted" ELSE "waiting",
                    ![e].attemptsMade = @ + 1]
    /\ UNCHANGED <<job, tick, req, posts, history>>

\* The worker's process dies: BullMQ finds the entry stalled and puts it back,
\* without counting an attempt, at most MaxStalls times.
Stall(e) ==
    /\ "crash" \in Faults
    /\ entry[e].at \in Running
    /\ IF entry[e].stalls < MaxStalls
       THEN entry' = [entry EXCEPT ![e].at = "waiting", ![e].stalls = @ + 1]
       ELSE entry' = [entry EXCEPT ![e].at = "exhausted"]
    /\ UNCHANGED <<job, tick, req, posts, history>>

-----------------------------------------------------------------------------

RequestStart(r) ==
    \E j \in Jobs : \/ PublishNow(r, j)
                    \/ CancelScheduledRead(r, j)
                    \/ RequeueRead(r, j)
                    \/ CancelJobRead(r, j)

RequestFinish(r) ==
    \/ PublishNowEnqueue(r)
    \/ CancelScheduledUpdate(r)
    \/ RequeueUpdate(r)
    \/ RequeueEnqueue(r)
    \/ CancelJobUpdate(r)

TickStep(t) == TickFind(t) \/ TickClaim(t) \/ TickEnqueue(t)

WorkerStep(e) ==
    \/ Take(e) \/ Load(e) \/ Deps(e) \/ MarkProcessing(e) \/ EnsureToken(e)
    \/ Reconnect(e) \/ NotifyReconnect(e) \/ CallPlatform(e) \/ Record(e)
    \/ NotifyPublished(e) \/ Catch(e) \/ NotifyFailed(e)
    \/ Complete(e) \/ Retry(e)

Next ==
    \/ \E r \in Requests : RequestStart(r) \/ RequestFinish(r) \/ RequestEnqueueFails(r)
    \/ \E j \in Jobs : Schedule(j) \/ DeleteAsset(j) \/ ComeDue(j)
    \/ \E t \in Ticks : TickStep(t) \/ TickEnqueueFails(t)
    \/ \E e \in Entries : WorkerStep(e) \/ Stall(e)

Spec == Init /\ [][Next]_vars

\* Users need not act; the clock, the dispatcher, a request already accepted
\* and the workers go on.
Fairness ==
    /\ \A j \in Jobs : WF_vars(ComeDue(j))
    /\ \A r \in Requests : WF_vars(RequestFinish(r))
    /\ \A t \in Ticks : WF_vars(TickStep(t))
    /\ \A e \in Entries : WF_vars(WorkerStep(e))

FairSpec == Spec /\ Fairness

-----------------------------------------------------------------------------
(* Properties that hold whatever fails and whoever acts. *)

TypeOK ==
    /\ job \in [Jobs -> JobRow]
    /\ entry \in [Entries -> Entry]
    /\ tick \in [Ticks -> Tick]
    /\ req \in [Requests -> Request]
    /\ posts \in [Jobs -> Nat]
    /\ history \in History

\* The entries a job got other than by an admin's retry.
FirstEntries(j) == {e \in Entries : entry[e].job = j /\ entry[e].origin # "requeue"}

\* Overlapping dispatcher ticks, and the endpoint that publishes at once, put
\* a job on its queue at most once between them (the claim of
\* dispatchDueScheduledJobs).
SingleDispatch == \A j \in Jobs : \A e, f \in FirstEntries(j) : e = f

\* A scheduled post whose cancellation was confirmed is never enqueued by the
\* dispatcher, even when it was claimed between cancelScheduled's read and
\* its update; only an admin's retry can revive it.
CancelWins == \A j \in history.userCancelled : FirstEntries(j) = {}

\* A row reads published only when the platform shows a post for it.
PublishedMeansPosted == \A j \in Jobs : job[j].status = "published" => posts[j] > 0

\* The ceiling of PUBLISH_JOB_OPTIONS: however attempts, crashes and stalls
\* interleave, one entry calls the platform at most once per attempt, and
\* once more for each time it was taken back from a dead worker.
CallsBounded == \A e \in Entries : entry[e].calls <= MaxAttempts + MaxStalls

\* No worker goes on to publish a design that was deleted before the row was
\* marked processing, however long its entry had been waiting or running.
DeletedNotStarted ==
    [][\A e \in Entries :
        entry[e].at \notin {"token", "publish"} /\ entry'[e].at \in {"token", "publish"}
            => Exists(entry[e].job)]_vars

-----------------------------------------------------------------------------
(* Properties of a pipeline in which nothing fails but the platform's own  *)
(* answers and admins keep out: Faults = {}, no requeue, no cancelJob.     *)

Live(e) == entry[e].at \in {"waiting"} \cup Running

LiveEntry(j) == \E e \in Entries : entry[e].job = j /\ Live(e)

\* However often an attempt is retried, a job is posted at most once, and the
\* row that says failed is right that nothing was posted.
AtMostOncePosted ==
    \A j \in Jobs : /\ posts[j] <= 1
                    /\ job[j].status = "failed" => posts[j] = 0

\* The status never lies about whether more will be tried: processing has an
\* entry that goes on, failed has none that would be tried again, and queued
\* has an entry or a request or tick that is about to add one.
StatusNeverLies ==
    \A j \in Jobs :
        /\ job[j].status = "processing" => LiveEntry(j)
        /\ job[j].status = "queued" =>
              \/ LiveEntry(j)
              \/ \E t \in Ticks : j \in tick[t].claimed
              \/ \E r \in Requests : req[r] = [op |-> "nowEnqueue", job |-> j]
        /\ job[j].status = "failed" =>
              \A e \in Entries : entry[e].job = j =>
                  \/ ~Live(e)
                  \/ entry[e].at \in {"notifyReconnect", "notifyFailed", "return"}
                  \/ entry[e].at = "throw" /\ IsFinalAttempt(e)

\* An author is told at most one outcome, and the one the row records: a
\* transient refusal that a retry gets over alarms nobody.
OneOutcomeTold ==
    \A j \in Jobs :
        /\ Cardinality(history.notified[j]) <= 1
        /\ job[j].status = "published" => "publish_failed" \notin history.notified[j]
        /\ job[j].status # "deleted" /\ history.notified[j] # {} =>
              job[j].status \in {"published", "failed"}

Lifecycle == INSTANCE JobLifecycle WITH status <- [j \in Jobs |-> job[j].status]

\* The pipeline implements the lifecycle a user sees: statuses only go
\* forward, a cancelled post is never delivered, and a post is delivered at
\* most once and before the row says published.
ImplementsLifecycle == Lifecycle!Spec

Settled(j) == job[j].status \in {"published", "failed", "cancelled", "deleted"}

\* Every post that was asked for, now or for later, is in the end published,
\* failed, cancelled or deleted.
EventuallySettled ==
    \A j \in Jobs : job[j].status \in {"scheduled", "queued", "processing"} ~> Settled(j)

\* The author of a post that went out, or that was given up, is told so.
EventuallyTold ==
    \A j \in Jobs : job[j].status \in {"published", "failed"} ~>
        (history.notified[j] # {} \/ job[j].status = "deleted")

=============================================================================
