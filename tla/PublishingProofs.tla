-------------------------- MODULE PublishingProofs --------------------------
(***************************************************************************)
(* Proofs about Publishing, for any number of jobs, entries, dispatcher    *)
(* ticks and requests, any retry policy, any endpoints in use and any      *)
(* faults.                                                                 *)
(***************************************************************************)
EXTENDS Publishing, FiniteSetTheorems, TLAPS

-----------------------------------------------------------------------------
(* Types.  TypeOK alone is not inductive: an attempt that is being worked  *)
(* on must be one of the attempts allowed, for the next one to be counted. *)

EntriesWellFormed ==
    \A e \in Entries :
        /\ entry[e].at = "free" <=> entry[e].job = NoJob
        /\ Live(e) => entry[e].attemptsMade < MaxAttempts

RequestsWellFormed ==
    \A r \in Requests : req[r].op = "idle" <=> req[r].job = NoJob

TypeInv == TypeOK /\ EntriesWellFormed /\ RequestsWellFormed

LEMMA TypeInvInit == Init => TypeInv
<1> SUFFICES ASSUME Init PROVE TypeInv
  OBVIOUS
<1> USE ConstantsAssumption DEF Init
<1>1. TypeOK
  BY DEF TypeOK, JobRow, Status, Entry, FreeEntry, Origin, At, Running, Tick,
         Request, RequestOp, Idle, History
<1>2. EntriesWellFormed /\ RequestsWellFormed
  BY DEF EntriesWellFormed, RequestsWellFormed, FreeEntry, Idle, Live, Running
<1> QED
  BY <1>1, <1>2 DEF TypeInv

\* Adding an entry keeps the entries well formed.
LEMMA AddTyped ==
  ASSUME TypeInv, NEW j \in Jobs, NEW o \in Origin, Add(j, o)
  PROVE  entry' \in [Entries -> Entry] /\ EntriesWellFormed'
<1>1. PICK e \in Entries :
        /\ entry[e].at = "free"
        /\ entry' = [entry EXCEPT ![e] =
                        [FreeEntry EXCEPT !.job = j, !.origin = o, !.at = "waiting"]]
  BY DEF Add
<1>2. entry'[e] = [job |-> j, origin |-> o, at |-> "waiting", attemptsMade |-> 0,
                   stalls |-> 0, calls |-> 0]
  BY <1>1 DEF TypeInv, TypeOK, FreeEntry
<1>3. entry'[e] \in Entry
  BY <1>2, ConstantsAssumption DEF Entry, At
<1>4. entry' \in [Entries -> Entry]
  BY <1>1, <1>2, <1>3 DEF TypeInv, TypeOK
<1>5. \A f \in Entries : f # e => entry'[f] = entry[f]
  BY <1>1 DEF TypeInv, TypeOK
<1>6. EntriesWellFormed'
  BY <1>2, <1>5, ConstantsAssumption DEF TypeInv, EntriesWellFormed, Live
<1> QED
  BY <1>4, <1>6

\* A worker's step inside its handler keeps the entries well formed.
LEMMA GotoTyped ==
  ASSUME TypeInv, NEW e \in Entries, NEW to \in At \ {"free"}, Live(e), Goto(e, to)
  PROVE  entry' \in [Entries -> Entry] /\ EntriesWellFormed'
<1>1. entry'[e] = [entry[e] EXCEPT !.at = to]
  BY DEF Goto, TypeInv, TypeOK
<1>2. entry[e] \in Entry /\ entry[e].at # "free"
  BY DEF TypeInv, TypeOK, Live, Running
<1>3. entry'[e] \in Entry
  BY <1>1, <1>2 DEF Entry
<1>4. entry' \in [Entries -> Entry]
  BY <1>3 DEF Goto, TypeInv, TypeOK
<1>5. \A f \in Entries : f # e => entry'[f] = entry[f]
  BY DEF Goto, TypeInv, TypeOK
<1>6. /\ entry'[e].at = to
      /\ entry'[e].job = entry[e].job
      /\ entry'[e].attemptsMade = entry[e].attemptsMade
  BY <1>1, <1>2 DEF Entry
<1>7. EntriesWellFormed'
  BY <1>2, <1>5, <1>6 DEF TypeInv, EntriesWellFormed, Live
<1> QED
  BY <1>4, <1>7

\* Writing a status keeps the rows typed.
LEMMA UpdateTyped ==
  ASSUME TypeInv, NEW j \in Jobs, NEW s \in Status,
         job' = [job EXCEPT ![j].status = s]
  PROVE  job' \in [Jobs -> JobRow]
BY DEF TypeInv, TypeOK, JobRow


\* Requests are answered: the slot that held one becomes idle again.
LEMMA IdleTyped ==
  ASSUME TypeInv, NEW r \in Requests, req' = [req EXCEPT ![r] = Idle]
  PROVE  req' \in [Requests -> Request] /\ RequestsWellFormed'
BY DEF TypeInv, TypeOK, Request, RequestOp, Idle, RequestsWellFormed

\* A request has read the row of a job and holds its id.
LEMMA HeldTyped ==
  ASSUME TypeInv, NEW r \in Requests, NEW j \in Jobs, NEW op \in RequestOp \ {"idle"},
         req' = [req EXCEPT ![r] = [op |-> op, job |-> j]]
  PROVE  req' \in [Requests -> Request] /\ RequestsWellFormed'
BY ConstantsAssumption DEF TypeInv, TypeOK, Request, RequestsWellFormed

LEMMA TypeInvRequest ==
  ASSUME TypeInv, NEW r \in Requests,
         RequestStart(r) \/ RequestFinish(r) \/ RequestEnqueueFails(r)
  PROVE  TypeInv'
<1>1. CASE RequestStart(r)
  <2>1. PICK j \in Jobs : \/ PublishNow(r, j) \/ CancelScheduledRead(r, j)
                          \/ RequeueRead(r, j) \/ CancelJobRead(r, j)
    BY <1>1 DEF RequestStart
  <2>2. req' \in [Requests -> Request] /\ RequestsWellFormed'
    BY <2>1, HeldTyped
       DEF PublishNow, CancelScheduledRead, RequeueRead, CancelJobRead, RequestOp
  <2>3. job' \in [Jobs -> JobRow]
    BY <2>1, UpdateTyped DEF TypeInv, TypeOK, Status,
       PublishNow, CancelScheduledRead, RequeueRead, CancelJobRead
  <2>4. history' \in History
    BY <2>1, ConstantsAssumption DEF TypeInv, TypeOK, History,
       PublishNow, CancelScheduledRead, RequeueRead, CancelJobRead
  <2> QED
    BY <2>1, <2>2, <2>3, <2>4 DEF TypeInv, TypeOK, EntriesWellFormed, Live,
       PublishNow, CancelScheduledRead, RequeueRead, CancelJobRead
<1>2. CASE PublishNowEnqueue(r) \/ RequeueEnqueue(r)
  <2>1. req[r].job \in Jobs
    BY <1>2 DEF PublishNowEnqueue, RequeueEnqueue, TypeInv, TypeOK, Request,
                RequestsWellFormed
  <2>2. entry' \in [Entries -> Entry] /\ EntriesWellFormed'
    BY <1>2, <2>1, AddTyped DEF PublishNowEnqueue, RequeueEnqueue, Origin
  <2> QED
    BY <1>2, <2>2, IdleTyped DEF PublishNowEnqueue, RequeueEnqueue, TypeInv, TypeOK
<1>3. CASE CancelScheduledUpdate(r) \/ CancelJobUpdate(r) \/ RequestEnqueueFails(r)
  <2>1. req' \in [Requests -> Request] /\ RequestsWellFormed'
    BY <1>3, IdleTyped DEF CancelScheduledUpdate, CancelJobUpdate, RequestEnqueueFails
  <2>2. CASE RequestEnqueueFails(r)
    BY <2>1, <2>2 DEF RequestEnqueueFails, TypeInv, TypeOK, EntriesWellFormed, Live
  <2>3. CASE CancelScheduledUpdate(r) \/ CancelJobUpdate(r)
    <3>1. req[r].job \in Jobs
      BY <2>3 DEF CancelScheduledUpdate, CancelJobUpdate, TypeInv, TypeOK, Request,
                  RequestsWellFormed
    <3>2. job' \in [Jobs -> JobRow]
      BY <2>3, <3>1, UpdateTyped DEF CancelScheduledUpdate, CancelJobUpdate, Update,
         TypeInv, TypeOK, Status
    <3>3. history' \in History
      BY <2>3, <3>1 DEF CancelScheduledUpdate, CancelJobUpdate, TypeInv, TypeOK, History
    <3> QED
      BY <2>1, <2>3, <3>2, <3>3 DEF CancelScheduledUpdate, CancelJobUpdate,
         TypeInv, TypeOK, EntriesWellFormed, Live
  <2> QED
    BY <1>3, <2>2, <2>3
<1>4. CASE RequeueUpdate(r)
  <2>1. req[r].job \in Jobs
    BY <1>4 DEF RequeueUpdate, TypeInv, TypeOK, Request, RequestsWellFormed
  <2>2. job' \in [Jobs -> JobRow]
    <3>1. CASE Update(req[r].job, "queued")
      BY <2>1, <3>1, UpdateTyped DEF Update, Status
    <3>2. CASE UNCHANGED job
      BY <3>2 DEF TypeInv, TypeOK
    <3> QED
      BY <1>4, <3>1, <3>2 DEF RequeueUpdate
  <2>3. req' \in [Requests -> Request] /\ RequestsWellFormed'
    <3>1. CASE req' = [req EXCEPT ![r] = Idle]
      BY <3>1, IdleTyped
    <3>2. CASE req' = [req EXCEPT ![r].op = "requeueEnqueue"]
      <4>1. req[r] \in Request /\ req[r].job # NoJob /\ req \in [Requests -> Request]
        BY <2>1, ConstantsAssumption DEF TypeInv, TypeOK
      <4>2. [req[r] EXCEPT !.op = "requeueEnqueue"] \in Request
        BY <4>1 DEF Request, RequestOp
      <4> QED
        BY <3>2, <4>1, <4>2 DEF TypeInv, RequestsWellFormed, Request
    <3> QED
      BY <1>4, <3>1, <3>2 DEF RequeueUpdate
  <2> QED
    BY <1>4, <2>2, <2>3 DEF RequeueUpdate, TypeInv, TypeOK, EntriesWellFormed, Live
<1> QED
  BY <1>1, <1>2, <1>3, <1>4 DEF RequestFinish

LEMMA TypeInvTick ==
  ASSUME TypeInv, NEW t \in Ticks, TickStep(t) \/ TickEnqueueFails(t)
  PROVE  TypeInv'
<1>1. CASE TickEnqueue(t)
  <2>1. PICK j \in tick[t].claimed : Add(j, "dispatch")
    BY <1>1 DEF TickEnqueue
  <2>2. j \in Jobs
    BY DEF TypeInv, TypeOK, Tick
  <2>3. entry' \in [Entries -> Entry] /\ EntriesWellFormed'
    BY <2>1, <2>2, AddTyped DEF Origin
  <2> QED
    BY <1>1, <2>3 DEF TickEnqueue, TypeInv, TypeOK, Tick, RequestsWellFormed
<1>2. CASE TickClaim(t)
  <2>1. PICK j \in tick[t].due :
          IF job[j].status = "scheduled"
          THEN /\ job' = [job EXCEPT ![j].status = "queued"]
               /\ tick' = [tick EXCEPT ![t] = [due |-> @.due \ {j}, claimed |-> {j}]]
          ELSE /\ tick' = [tick EXCEPT ![t].due = @ \ {j}]
               /\ UNCHANGED job
    BY <1>2 DEF TickClaim
  <2>2. j \in Jobs
    BY DEF TypeInv, TypeOK, Tick
  <2>3. job' \in [Jobs -> JobRow]
    BY <2>1, <2>2, UpdateTyped DEF TypeInv, TypeOK, Status
  <2>4. tick' \in [Ticks -> Tick]
    BY <2>1, <2>2 DEF TypeInv, TypeOK, Tick
  <2> QED
    BY <1>2, <2>3, <2>4 DEF TickClaim, TypeInv, TypeOK, EntriesWellFormed, Live,
       RequestsWellFormed
<1>3. CASE TickFind(t) \/ TickEnqueueFails(t)
  BY <1>3 DEF TickFind, TickEnqueueFails, TypeInv, TypeOK, Tick, EntriesWellFormed,
     Live, RequestsWellFormed
<1> QED
  BY <1>1, <1>2, <1>3 DEF TickStep

LEMMA TypeInvJob ==
  ASSUME TypeInv, NEW j \in Jobs, Schedule(j) \/ DeleteAsset(j) \/ ComeDue(j)
  PROVE  TypeInv'
<1>1. ASSUME Schedule(j) PROVE job' \in [Jobs -> JobRow]
  BY <1>1, UpdateTyped DEF Schedule, Status
<1>2. ASSUME DeleteAsset(j) PROVE job' \in [Jobs -> JobRow]
  BY <1>2, UpdateTyped DEF DeleteAsset, Status
<1>3. ASSUME ComeDue(j) PROVE job' \in [Jobs -> JobRow]
  BY <1>3 DEF ComeDue, TypeInv, TypeOK, JobRow
<1> QED
  BY <1>1, <1>2, <1>3 DEF Schedule, DeleteAsset, ComeDue, TypeInv, TypeOK, EntriesWellFormed,
     Live, RequestsWellFormed


\* Told or not, the history stays typed.
LEMMA NotifyTyped ==
  ASSUME TypeInv, NEW j \in Jobs, NEW n \in {"publish_succeeded", "publish_failed"},
         Notify(j, n) \/ UNCHANGED history
  PROVE  history' \in History
BY DEF Notify, TypeInv, TypeOK, History

\* The steps of a handler that only move its entry on, write a status or
\* notify.
LEMMA TypeInvHandler ==
  ASSUME TypeInv, NEW e \in Entries, Live(e), NEW to \in At \ {"free"}, Goto(e, to),
         NEW s \in Status, Update(entry[e].job, s) \/ UNCHANGED job,
         NEW n \in {"publish_succeeded", "publish_failed"},
         Notify(entry[e].job, n) \/ UNCHANGED history,
         UNCHANGED <<tick, req, posts>>
  PROVE  TypeInv'
<1>1. entry[e].job \in Jobs
  BY DEF TypeInv, TypeOK, Entry, EntriesWellFormed, Live, Running
<1>2. entry' \in [Entries -> Entry] /\ EntriesWellFormed'
  BY GotoTyped
<1>3. job' \in [Jobs -> JobRow]
  BY <1>1, UpdateTyped DEF Update, TypeInv, TypeOK
<1>4. history' \in History
  BY <1>1, NotifyTyped
<1> QED
  BY <1>2, <1>3, <1>4 DEF TypeInv, TypeOK, RequestsWellFormed

LEMMA TypeInvWorker ==
  ASSUME TypeInv, NEW e \in Entries, WorkerStep(e) \/ Stall(e)
  PROVE  TypeInv'
<1>1. entry[e] \in Entry
  BY DEF TypeInv, TypeOK
<1>2. CASE Take(e) \/ Load(e) \/ Deps(e) \/ EnsureToken(e) \/ Complete(e)
  <2>1. Live(e)
    BY <1>2 DEF Take, Load, Deps, EnsureToken, Complete, Live, Running
  <2>2. PICK to \in At \ {"free"} : Goto(e, to)
    BY <1>2 DEF Take, Load, Deps, EnsureToken, Complete, At, Running
  <2>3. UNCHANGED <<job, tick, req, posts, history>>
    BY <1>2 DEF Take, Load, Deps, EnsureToken, Complete
  <2> QED
    BY <2>1, <2>2, <2>3, TypeInvHandler DEF Status
<1>3. CASE Reconnect(e) \/ Record(e) \/ Catch(e)
  <2>1. Live(e)
    BY <1>3 DEF Reconnect, Record, Catch, Live, Running
  <2>2. PICK to \in At \ {"free"} : Goto(e, to)
    BY <1>3 DEF Reconnect, Record, Catch, At, Running
  <2>3. \E s \in Status : Update(entry[e].job, s) \/ UNCHANGED job
    BY <1>3 DEF Reconnect, Record, Catch, Status
  <2>4. UNCHANGED <<tick, req, posts, history>>
    BY <1>3 DEF Reconnect, Record, Catch
  <2> QED
    BY <2>1, <2>2, <2>3, <2>4, TypeInvHandler
<1>4. CASE NotifyReconnect(e) \/ NotifyPublished(e) \/ NotifyFailed(e)
  <2>1. Live(e)
    BY <1>4 DEF NotifyReconnect, NotifyPublished, NotifyFailed, Live, Running
  <2>2. PICK to \in At \ {"free"} : Goto(e, to)
    BY <1>4 DEF NotifyReconnect, NotifyPublished, NotifyFailed, At, Running
  <2>3. \E n \in {"publish_succeeded", "publish_failed"} :
           Notify(entry[e].job, n) \/ UNCHANGED history
    BY <1>4 DEF NotifyReconnect, NotifyPublished, NotifyFailed
  <2>4. UNCHANGED <<job, tick, req, posts>>
    BY <1>4 DEF NotifyReconnect, NotifyPublished, NotifyFailed
  <2> QED
    BY <2>1, <2>2, <2>3, <2>4, TypeInvHandler DEF Status
<1>5. CASE MarkProcessing(e)
  <2>1. Live(e) /\ entry[e].job \in Jobs /\ entry[e].attemptsMade + 1 \in 0 .. MaxAttempts
    BY <1>1, <1>5, ConstantsAssumption
       DEF MarkProcessing, Live, Running, TypeInv, EntriesWellFormed, Entry
  <2>2. entry' \in [Entries -> Entry] /\ EntriesWellFormed'
    BY <1>5, <2>1, GotoTyped DEF MarkProcessing, At, Running
  <2>3. job' \in [Jobs -> JobRow]
    BY <1>5, <2>1 DEF MarkProcessing, TypeInv, TypeOK, JobRow, Status
  <2> QED
    BY <1>5, <2>2, <2>3 DEF MarkProcessing, TypeInv, TypeOK, RequestsWellFormed
<1>6. CASE CallPlatform(e)
  <2>1. Live(e) /\ entry[e].job \in Jobs
    BY <1>1, <1>6 DEF CallPlatform, Live, Running, TypeInv, EntriesWellFormed, Entry
  <2>2. PICK to \in {"record", "catch"}, posted \in {0, 1} :
          /\ entry' = [entry EXCEPT ![e].at = to, ![e].calls = @ + 1]
          /\ posts' = [posts EXCEPT ![entry[e].job] = @ + posted]
    BY <1>6 DEF CallPlatform
  <2>3. entry'[e] = [entry[e] EXCEPT !.at = to, !.calls = @ + 1]
    BY <2>2 DEF TypeInv, TypeOK
  <2> DEFINE c == entry[e].calls + 1
  <2>calls. c \in Nat
    BY <1>1 DEF Entry
  <2>after. entry'[e] = [entry[e] EXCEPT !.at = to, !.calls = c]
    BY <2>3
  <2> HIDE DEF c
  <2>4. /\ entry'[e] \in Entry
        /\ entry'[e].at = to
        /\ entry'[e].job = entry[e].job
        /\ entry'[e].attemptsMade = entry[e].attemptsMade
    BY <1>1, <2>calls, <2>after DEF Entry, At, Running
  <2>5. entry' \in [Entries -> Entry]
    BY <2>2, <2>4 DEF TypeInv, TypeOK
  <2>6. \A f \in Entries : f # e => entry'[f] = entry[f]
    BY <2>2 DEF TypeInv, TypeOK
  <2>7. EntriesWellFormed'
    BY <1>6, <2>1, <2>4, <2>6 DEF CallPlatform, TypeInv, EntriesWellFormed, Live, Running
  <2>8. posts' \in [Jobs -> Nat]
    BY <2>1, <2>2 DEF TypeInv, TypeOK
  <2> QED
    BY <1>6, <2>5, <2>7, <2>8 DEF CallPlatform, TypeInv, TypeOK, RequestsWellFormed
<1>7. CASE Retry(e)
  <2>1. Live(e)
    BY <1>7 DEF Retry, Live, Running
  <2>2. entry[e].attemptsMade + 1 \in 0 .. MaxAttempts
    BY <1>1, <2>1, ConstantsAssumption DEF TypeInv, EntriesWellFormed, Entry
  <2>3. entry'[e] = [entry[e] EXCEPT
                       !.at = IF IsFinalAttempt(e) THEN "exhausted" ELSE "waiting",
                       !.attemptsMade = @ + 1]
    BY <1>7 DEF Retry, TypeInv, TypeOK
  <2>4. /\ entry'[e] \in Entry
        /\ entry'[e].at = IF IsFinalAttempt(e) THEN "exhausted" ELSE "waiting"
        /\ entry'[e].job = entry[e].job
        /\ entry'[e].attemptsMade = entry[e].attemptsMade + 1
    BY <1>1, <2>2, <2>3 DEF Entry, At
  <2>5. entry' \in [Entries -> Entry]
    BY <1>7, <2>4 DEF Retry, TypeInv, TypeOK
  <2>6. \A f \in Entries : f # e => entry'[f] = entry[f]
    BY <1>7 DEF Retry, TypeInv, TypeOK
  <2>7. EntriesWellFormed'
    <3>1. entry[e].job # NoJob
      BY <1>7 DEF Retry, TypeInv, EntriesWellFormed
    <3>2. Live(e)' => entry'[e].attemptsMade < MaxAttempts
      BY <1>1, <2>2, <2>4, ConstantsAssumption DEF Live, Running, IsFinalAttempt, Entry
    <3> QED
      BY <2>4, <2>6, <3>1, <3>2 DEF TypeInv, EntriesWellFormed, Live
  <2> QED
    BY <1>7, <2>5, <2>7 DEF Retry, TypeInv, TypeOK, RequestsWellFormed
<1>8. CASE Stall(e)
  <2>1. Live(e) /\ entry[e].at # "free"
    BY <1>8 DEF Stall, Live, Running
  <2>2. PICK at \in {"waiting", "exhausted"}, stalls \in 0 .. MaxStalls :
          entry' = [entry EXCEPT ![e].at = at, ![e].stalls = stalls]
    <3>1. CASE entry[e].stalls < MaxStalls
      BY <1>1, <1>8, <3>1, ConstantsAssumption DEF Stall, Entry, TypeInv, TypeOK
    <3>2. CASE ~(entry[e].stalls < MaxStalls)
      <4>1. entry' = [entry EXCEPT ![e].at = "exhausted", ![e].stalls = entry[e].stalls]
        BY <1>1, <1>8, <3>2 DEF Stall, Entry, TypeInv, TypeOK
      <4> QED
        BY <1>1, <4>1 DEF Entry
    <3> QED
      BY <3>1, <3>2
  <2>3. /\ entry'[e] \in Entry
        /\ entry'[e].at = at
        /\ entry'[e].job = entry[e].job
        /\ entry'[e].attemptsMade = entry[e].attemptsMade
    BY <1>1, <2>2 DEF TypeInv, TypeOK, Entry, At
  <2>4. entry' \in [Entries -> Entry]
    BY <2>2, <2>3 DEF TypeInv, TypeOK
  <2>5. \A f \in Entries : f # e => entry'[f] = entry[f]
    BY <2>2 DEF TypeInv, TypeOK
  <2>6. EntriesWellFormed'
    BY <2>1, <2>3, <2>5 DEF TypeInv, EntriesWellFormed, Live
  <2> QED
    BY <1>8, <2>4, <2>6 DEF Stall, TypeInv, TypeOK, RequestsWellFormed
<1> QED
  BY <1>2, <1>3, <1>4, <1>5, <1>6, <1>7, <1>8 DEF WorkerStep

LEMMA TypeInvStep == TypeInv /\ [Next]_vars => TypeInv'
<1> SUFFICES ASSUME TypeInv, [Next]_vars PROVE TypeInv'
  OBVIOUS
<1>1. CASE Next
  BY <1>1, TypeInvRequest, TypeInvJob, TypeInvTick, TypeInvWorker DEF Next
<1>2. CASE UNCHANGED vars
  BY <1>2 DEF vars, TypeInv, TypeOK, EntriesWellFormed, Live, RequestsWellFormed
<1> QED
  BY <1>1, <1>2

LEMMA TypeInvAlways == Spec => []TypeInv
BY TypeInvInit, TypeInvStep, PTL DEF Spec

\* Every behaviour of the pipeline keeps its rows, entries, ticks, requests
\* and history within their types; in particular attemptCount, the attempt
\* the row shows, never exceeds PUBLISH_JOB_OPTIONS.attempts.
THEOREM TypeCorrect == Spec => []TypeOK
BY TypeInvAlways, PTL DEF TypeInv


-----------------------------------------------------------------------------
(* One dispatch.  A job's only way onto its queue, an admin's retry aside, *)
(* passes from hand to hand: its row says scheduled; or a tick has claimed *)
(* it, or the request that created it is about to enqueue it; or an entry  *)
(* holds it.  Never two of these at once, and none once it was cancelled.  *)

Unspent(j) == job[j].status \in {"absent", "scheduled"}

Barred(j) == j \in history.userCancelled

First(e, j) == entry[e].job = j /\ entry[e].origin # "requeue"

Claims(t, j) == j \in tick[t].claimed

Asks(r, j) == req[r].op = "nowEnqueue" /\ req[r].job = j

NoneBefore ==
    \A j \in Jobs : Unspent(j) \/ Barred(j) =>
        /\ \A e \in Entries : ~First(e, j)
        /\ \A t \in Ticks : ~Claims(t, j)
        /\ \A r \in Requests : ~Asks(r, j)

OneHand ==
    \A j \in Jobs :
        /\ \A e, f \in Entries : First(e, j) /\ First(f, j) => e = f
        /\ \A t, u \in Ticks : Claims(t, j) /\ Claims(u, j) => t = u
        /\ \A r, q \in Requests : Asks(r, j) /\ Asks(q, j) => r = q
        /\ \A e \in Entries, t \in Ticks : ~(First(e, j) /\ Claims(t, j))
        /\ \A e \in Entries, r \in Requests : ~(First(e, j) /\ Asks(r, j))
        /\ \A t \in Ticks, r \in Requests : ~(Claims(t, j) /\ Asks(r, j))

CancelSpends == \A j \in Jobs : ~(Unspent(j) /\ Barred(j))

DispatchInv == NoneBefore /\ OneHand /\ CancelSpends

LEMMA DispatchInvInit == Init => DispatchInv
BY ConstantsAssumption DEF Init, DispatchInv, NoneBefore, OneHand, CancelSpends,
   Unspent, Barred, First, Claims, Asks, FreeEntry, Idle

\* A step that hands nothing on keeps the invariant.
LEMMA NothingHandedOn ==
  ASSUME DispatchInv,
         \A j \in Jobs : Unspent(j)' => Unspent(j),
         \A j \in Jobs : Barred(j)' => Barred(j),
         \A j \in Jobs, e \in Entries : First(e, j)' => First(e, j),
         \A j \in Jobs, t \in Ticks : Claims(t, j)' => Claims(t, j),
         \A j \in Jobs, r \in Requests : Asks(r, j)' => Asks(r, j)
  PROVE  DispatchInv'
BY DEF DispatchInv, NoneBefore, OneHand, CancelSpends

\* A new entry is the only change of Add.
LEMMA AddHolds ==
  ASSUME TypeInv, NEW i \in Jobs, NEW o \in Origin, Add(i, o)
  PROVE  \E e \in Entries :
            /\ \A j \in Jobs : ~First(e, j)
            /\ \A j \in Jobs : First(e, j)' <=> j = i /\ o # "requeue"
            /\ \A j \in Jobs, f \in Entries : f # e => (First(f, j)' <=> First(f, j))
<1>1. PICK e \in Entries :
        /\ entry[e].at = "free"
        /\ entry' = [entry EXCEPT ![e] =
                        [FreeEntry EXCEPT !.job = i, !.origin = o, !.at = "waiting"]]
  BY DEF Add
<1>2. entry'[e].job = i /\ entry'[e].origin = o
  BY <1>1 DEF TypeInv, TypeOK, FreeEntry
<1>3. \A f \in Entries : f # e => entry'[f] = entry[f]
  BY <1>1 DEF TypeInv, TypeOK
<1>4. entry[e].job = NoJob
  BY <1>1 DEF TypeInv, EntriesWellFormed
<1> QED
  BY <1>2, <1>3, <1>4, ConstantsAssumption DEF First

LEMMA DispatchInvRequest ==
  ASSUME TypeInv, DispatchInv, NEW r \in Requests,
         RequestStart(r) \/ RequestFinish(r) \/ RequestEnqueueFails(r)
  PROVE  DispatchInv'
<1>1. CASE \E i \in Jobs : PublishNow(r, i)
  <2>1. PICK i \in Jobs : PublishNow(r, i)
    BY <1>1
  <2>2. Unspent(i)
    BY <2>1 DEF PublishNow, Unspent
  <2>3. \A j \in Jobs : Unspent(j)' <=> Unspent(j) /\ j # i
    BY <2>1 DEF PublishNow, Unspent, TypeInv, TypeOK, JobRow
  <2>4. \A j \in Jobs, q \in Requests : Asks(q, j)' <=> (Asks(q, j) \/ (q = r /\ j = i))
    BY <2>1 DEF PublishNow, Asks, TypeInv, TypeOK, Idle
  <2>5. /\ \A j \in Jobs, t \in Ticks : Claims(t, j)' <=> Claims(t, j)
        /\ \A j \in Jobs, e \in Entries : First(e, j)' <=> First(e, j)
        /\ \A j \in Jobs : Barred(j)' <=> Barred(j)
    BY <2>1 DEF PublishNow, Claims, First, Barred
  <2> QED
    BY <2>2, <2>3, <2>4, <2>5 DEF DispatchInv, NoneBefore, OneHand, CancelSpends
<1>2. CASE PublishNowEnqueue(r)
  <2> DEFINE i == req[r].job
  <2>1. i \in Jobs /\ Asks(r, i) /\ Add(i, "publishNow")
    BY <1>2 DEF PublishNowEnqueue, TypeInv, TypeOK, Request, RequestsWellFormed, Asks
  <2>2. PICK e \in Entries :
            /\ \A j \in Jobs : ~First(e, j)
            /\ \A j \in Jobs : First(e, j)' <=> j = i
            /\ \A j \in Jobs, f \in Entries : f # e => (First(f, j)' <=> First(f, j))
    BY <2>1, AddHolds DEF Origin
  <2>3. \A j \in Jobs, q \in Requests : Asks(q, j)' <=> Asks(q, j) /\ q # r
    BY <1>2 DEF PublishNowEnqueue, Asks, TypeInv, TypeOK, Idle
  <2>4. /\ \A j \in Jobs, t \in Ticks : Claims(t, j)' <=> Claims(t, j)
        /\ \A j \in Jobs : Unspent(j)' <=> Unspent(j)
        /\ \A j \in Jobs : Barred(j)' <=> Barred(j)
    BY <1>2 DEF PublishNowEnqueue, Claims, Unspent, Barred
  <2> HIDE DEF i
  <2> QED
    BY <2>1, <2>2, <2>3, <2>4 DEF DispatchInv, NoneBefore, OneHand, CancelSpends
<1>3. CASE CancelScheduledUpdate(r)
  <2> DEFINE i == req[r].job
  <2>1. /\ \A j \in Jobs, q \in Requests : Asks(q, j)' => Asks(q, j)
        /\ \A j \in Jobs, t \in Ticks : Claims(t, j)' <=> Claims(t, j)
        /\ \A j \in Jobs, e \in Entries : First(e, j)' <=> First(e, j)
    BY <1>3 DEF CancelScheduledUpdate, Asks, Claims, First, TypeInv, TypeOK, Idle
  <2>2. CASE job[i].status = "scheduled"
    <3>1. i \in Jobs /\ Unspent(i)
      BY <1>3, <2>2 DEF CancelScheduledUpdate, Unspent, TypeInv, TypeOK, Request,
         RequestsWellFormed
    <3>2. /\ \A j \in Jobs : Unspent(j)' <=> Unspent(j) /\ j # i
          /\ \A j \in Jobs : Barred(j)' <=> Barred(j) \/ j = i
      BY <1>3, <2>2, <3>1 DEF CancelScheduledUpdate, Unspent, Barred, TypeInv, TypeOK,
         JobRow, History
    <3> QED
      BY <2>1, <3>1, <3>2 DEF DispatchInv, NoneBefore, OneHand, CancelSpends
  <2>3. CASE job[i].status # "scheduled"
    BY <1>3, <2>1, <2>3, NothingHandedOn DEF CancelScheduledUpdate, Unspent, Barred
  <2> QED
    BY <2>2, <2>3
<1>4. CASE RequeueEnqueue(r)
  <2> DEFINE i == req[r].job
  <2>1. i \in Jobs /\ Add(i, "requeue")
    BY <1>4 DEF RequeueEnqueue, TypeInv, TypeOK, Request, RequestsWellFormed
  <2>2. \A j \in Jobs, e \in Entries : First(e, j)' => First(e, j)
    BY <2>1, AddHolds DEF Origin
  <2>3. /\ \A j \in Jobs, q \in Requests : Asks(q, j)' => Asks(q, j)
        /\ \A j \in Jobs, t \in Ticks : Claims(t, j)' => Claims(t, j)
        /\ \A j \in Jobs : Unspent(j)' => Unspent(j)
        /\ \A j \in Jobs : Barred(j)' => Barred(j)
    BY <1>4 DEF RequeueEnqueue, Claims, Unspent, Barred, Asks, TypeInv, TypeOK, Idle
  <2> QED
    BY <2>2, <2>3, NothingHandedOn
<1>5. ASSUME NEW i \in Jobs, CancelScheduledRead(r, i) \/ RequeueRead(r, i) \/ CancelJobRead(r, i)
      PROVE  DispatchInv'
  <2>1. \A j \in Jobs, q \in Requests : Asks(q, j)' => Asks(q, j)
    BY <1>5 DEF CancelScheduledRead, RequeueRead, CancelJobRead, Asks, TypeInv, TypeOK
  <2>2. /\ \A j \in Jobs, t \in Ticks : Claims(t, j)' => Claims(t, j)
        /\ \A j \in Jobs, e \in Entries : First(e, j)' => First(e, j)
        /\ \A j \in Jobs : Unspent(j)' => Unspent(j)
        /\ \A j \in Jobs : Barred(j)' => Barred(j)
    BY <1>5 DEF CancelScheduledRead, RequeueRead, CancelJobRead, Claims, First, Unspent,
       Barred, TypeInv, TypeOK, History
  <2> QED
    BY <2>1, <2>2, NothingHandedOn
<1>6. CASE RequeueUpdate(r) \/ CancelJobUpdate(r) \/ RequestEnqueueFails(r)
  <2>1. \A j \in Jobs, q \in Requests : Asks(q, j)' => Asks(q, j)
    BY <1>6 DEF RequeueUpdate, CancelJobUpdate, RequestEnqueueFails, Asks, TypeInv,
       TypeOK, Idle, Request
  <2>2. \A j \in Jobs : Unspent(j)' => Unspent(j)
    BY <1>6 DEF RequeueUpdate, CancelJobUpdate, RequestEnqueueFails, Unspent, Update,
       TypeInv, TypeOK, JobRow
  <2>3. /\ \A j \in Jobs, t \in Ticks : Claims(t, j)' => Claims(t, j)
        /\ \A j \in Jobs, e \in Entries : First(e, j)' => First(e, j)
        /\ \A j \in Jobs : Barred(j)' => Barred(j)
    BY <1>6 DEF RequeueUpdate, CancelJobUpdate, RequestEnqueueFails, Claims, First, Barred
  <2> QED
    BY <2>1, <2>2, <2>3, NothingHandedOn
<1> QED
  BY <1>1, <1>2, <1>3, <1>4, <1>5, <1>6 DEF RequestStart, RequestFinish

LEMMA DispatchInvTick ==
  ASSUME TypeInv, DispatchInv, NEW t \in Ticks, TickStep(t) \/ TickEnqueueFails(t)
  PROVE  DispatchInv'
<1>1. CASE TickClaim(t)
  <2>1. PICK i \in tick[t].due :
          IF job[i].status = "scheduled"
          THEN /\ job' = [job EXCEPT ![i].status = "queued"]
               /\ tick' = [tick EXCEPT ![t] = [due |-> @.due \ {i}, claimed |-> {i}]]
          ELSE /\ tick' = [tick EXCEPT ![t].due = @ \ {i}]
               /\ UNCHANGED job
    BY <1>1 DEF TickClaim
  <2>2. i \in Jobs
    BY DEF TypeInv, TypeOK, Tick
  <2>3. /\ \A j \in Jobs, e \in Entries : First(e, j)' <=> First(e, j)
        /\ \A j \in Jobs, r \in Requests : Asks(r, j)' <=> Asks(r, j)
        /\ \A j \in Jobs : Barred(j)' <=> Barred(j)
    BY <1>1 DEF TickClaim, First, Asks, Barred
  <2>4. CASE job[i].status = "scheduled"
    <3>1. Unspent(i) /\ \A j \in Jobs : Unspent(j)' <=> Unspent(j) /\ j # i
      BY <2>1, <2>2, <2>4 DEF Unspent, TypeInv, TypeOK, JobRow
    <3>2. \A j \in Jobs, u \in Ticks :
            Claims(u, j)' <=> (Claims(u, j) \/ (u = t /\ j = i))
      BY <1>1, <2>1, <2>4 DEF TickClaim, Claims, TypeInv, TypeOK, Tick
    <3> QED
      BY <2>2, <2>3, <3>1, <3>2 DEF DispatchInv, NoneBefore, OneHand, CancelSpends
  <2>5. CASE job[i].status # "scheduled"
    <3>1. \A j \in Jobs, u \in Ticks : Claims(u, j)' => Claims(u, j)
      BY <2>1, <2>5 DEF Claims, TypeInv, TypeOK, Tick
    <3>2. \A j \in Jobs : Unspent(j)' => Unspent(j)
      BY <2>1, <2>5 DEF Unspent
    <3> QED
      BY <2>3, <3>1, <3>2, NothingHandedOn
  <2> QED
    BY <2>4, <2>5
<1>2. CASE TickEnqueue(t)
  <2>1. PICK i \in tick[t].claimed : Add(i, "dispatch")
    BY <1>2 DEF TickEnqueue
  <2>2. i \in Jobs /\ Claims(t, i)
    BY DEF TypeInv, TypeOK, Tick, Claims
  <2>3. PICK e \in Entries :
            /\ \A j \in Jobs : ~First(e, j)
            /\ \A j \in Jobs : First(e, j)' <=> j = i
            /\ \A j \in Jobs, f \in Entries : f # e => (First(f, j)' <=> First(f, j))
    BY <2>1, <2>2, AddHolds DEF Origin
  <2>4. \A j \in Jobs, u \in Ticks : Claims(u, j)' <=> Claims(u, j) /\ u # t
    BY <1>2 DEF TickEnqueue, Claims, TypeInv, TypeOK, Tick
  <2>5. /\ \A j \in Jobs, r \in Requests : Asks(r, j)' <=> Asks(r, j)
        /\ \A j \in Jobs : Unspent(j)' <=> Unspent(j)
        /\ \A j \in Jobs : Barred(j)' <=> Barred(j)
    BY <1>2 DEF TickEnqueue, Asks, Unspent, Barred
  <2> QED
    BY <2>2, <2>3, <2>4, <2>5 DEF DispatchInv, NoneBefore, OneHand, CancelSpends
<1>3. CASE TickFind(t) \/ TickEnqueueFails(t)
  <2>1. \A j \in Jobs, u \in Ticks : Claims(u, j)' => Claims(u, j)
    BY <1>3 DEF TickFind, TickEnqueueFails, Claims, TypeInv, TypeOK, Tick
  <2> QED
    BY <1>3, <2>1, NothingHandedOn
       DEF TickFind, TickEnqueueFails, First, Asks, Unspent, Barred
<1> QED
  BY <1>1, <1>2, <1>3 DEF TickStep

LEMMA DispatchInvJob ==
  ASSUME TypeInv, DispatchInv, NEW i \in Jobs, Schedule(i) \/ DeleteAsset(i) \/ ComeDue(i)
  PROVE  DispatchInv'
<1>1. \A j \in Jobs : Unspent(j)' => Unspent(j)
  BY DEF Schedule, DeleteAsset, ComeDue, Unspent, TypeInv, TypeOK, JobRow
<1> QED
  BY <1>1, NothingHandedOn DEF Schedule, DeleteAsset, ComeDue, First, Claims, Asks, Barred

\* No step of a worker changes what an entry is for, and none takes a row
\* back to the time before it was dispatched.
LEMMA WorkerKeeps ==
  ASSUME TypeInv, NEW e \in Entries, WorkerStep(e) \/ Stall(e)
  PROVE  /\ \A f \in Entries : entry'[f].job = entry[f].job
                              /\ entry'[f].origin = entry[f].origin
         /\ \A j \in Jobs : Unspent(j)' => Unspent(j)
         /\ history'.userCancelled = history.userCancelled
         /\ UNCHANGED <<tick, req>>
<1>1. entry[e] \in Entry
  BY DEF TypeInv, TypeOK
<1>2. \A f \in Entries : entry'[f].job = entry[f].job /\ entry'[f].origin = entry[f].origin
  BY <1>1 DEF WorkerStep, Stall, TypeInv, TypeOK, Goto, Take, Load, Deps, MarkProcessing,
     EnsureToken, Reconnect, NotifyReconnect, CallPlatform, Record, NotifyPublished,
     Catch, NotifyFailed, Complete, Retry, Entry
<1>3. \A j \in Jobs : Unspent(j)' => Unspent(j)
  BY DEF WorkerStep, Stall, TypeInv, TypeOK, Unspent, Update, Take, Load, Deps,
     MarkProcessing, EnsureToken, Reconnect, NotifyReconnect, CallPlatform, Record,
     NotifyPublished, Catch, NotifyFailed, Complete, Retry, JobRow
<1>4. history'.userCancelled = history.userCancelled
  BY DEF WorkerStep, Stall, Notify, Take, Load, Deps, MarkProcessing, EnsureToken,
     Reconnect, NotifyReconnect, CallPlatform, Record, NotifyPublished, Catch,
     NotifyFailed, Complete, Retry, TypeInv, TypeOK, History
<1>5. UNCHANGED <<tick, req>>
  BY DEF WorkerStep, Stall, Take, Load, Deps, MarkProcessing, EnsureToken, Reconnect,
     NotifyReconnect, CallPlatform, Record, NotifyPublished, Catch, NotifyFailed,
     Complete, Retry
<1> QED
  BY <1>2, <1>3, <1>4, <1>5

LEMMA DispatchInvStep == TypeInv /\ DispatchInv /\ [Next]_vars => DispatchInv'
<1> SUFFICES ASSUME TypeInv, DispatchInv, [Next]_vars PROVE DispatchInv'
  OBVIOUS
<1>1. ASSUME NEW e \in Entries, WorkerStep(e) \/ Stall(e) PROVE DispatchInv'
  BY <1>1, WorkerKeeps, NothingHandedOn DEF First, Claims, Asks, Barred
<1>2. CASE Next
  BY <1>1, <1>2, DispatchInvRequest, DispatchInvJob, DispatchInvTick DEF Next
<1>3. CASE UNCHANGED vars
  BY <1>3, NothingHandedOn DEF vars, First, Claims, Asks, Barred, Unspent
<1> QED
  BY <1>2, <1>3

LEMMA DispatchInvAlways == Spec => []DispatchInv
BY TypeInvAlways, DispatchInvInit, DispatchInvStep, PTL DEF Spec

\* Whatever ticks overlap and whatever fails, a job is put on its queue at
\* most once other than by an admin's retry.
THEOREM DispatchedOnce == Spec => []SingleDispatch
<1>1. DispatchInv => SingleDispatch
  BY DEF DispatchInv, OneHand, First, SingleDispatch, FirstEntries
<1> QED
  BY <1>1, DispatchInvAlways, PTL

\* A confirmed cancellation of a scheduled post keeps it off the queue for
\* good, whichever tick was about to claim it.
THEOREM CancelledNeverDispatched == Spec => []CancelWins
<1>1. TypeInv /\ DispatchInv => CancelWins
  BY DEF TypeInv, TypeOK, History, DispatchInv, NoneBefore, Barred, First, CancelWins,
     FirstEntries
<1> QED
  BY <1>1, TypeInvAlways, DispatchInvAlways, PTL


-----------------------------------------------------------------------------
(* A published row is backed by a post: the worker that is about to write  *)
(* published has seen the platform accept one, and posts do not go away.   *)

PostedInv ==
    /\ PublishedMeansPosted
    /\ \A e \in Entries : entry[e].at = "record" => posts[entry[e].job] > 0

\* An entry that was added starts from nothing.
AddedTo(e) ==
    /\ entry[e].at = "free" /\ entry'[e].at = "waiting"
    /\ entry'[e].attemptsMade = 0 /\ entry'[e].stalls = 0 /\ entry'[e].calls = 0

\* What the steps outside the workers leave to the two invariants below.
LEMMA OthersKeep ==
  ASSUME TypeInv, Next, ~ \E e \in Entries : WorkerStep(e) \/ Stall(e)
  PROVE  /\ UNCHANGED posts
         /\ \A j \in Jobs : job'[j].status = "published" => job[j].status = "published"
         /\ \A e \in Entries : entry'[e] = entry[e] \/ AddedTo(e)
<1>1. ASSUME NEW j, NEW o, Add(j, o)
      PROVE  \A e \in Entries : entry'[e] = entry[e] \/ AddedTo(e)
  <2>1. PICK e \in Entries :
          /\ entry[e].at = "free"
          /\ entry' = [entry EXCEPT ![e] =
                          [FreeEntry EXCEPT !.job = j, !.origin = o, !.at = "waiting"]]
    BY <1>1 DEF Add
  <2>2. AddedTo(e)
    BY <2>1 DEF TypeInv, TypeOK, FreeEntry, AddedTo
  <2> QED
    BY <2>1, <2>2 DEF TypeInv, TypeOK
<1>2. ASSUME NEW r \in Requests, RequestStart(r) \/ RequestFinish(r) \/ RequestEnqueueFails(r)
      PROVE  /\ UNCHANGED posts
             /\ \A j \in Jobs : job'[j].status = "published" => job[j].status = "published"
             /\ UNCHANGED entry \/ \E j, o : Add(j, o)
  <2>1. \A j \in Jobs : job'[j].status = "published" => job[j].status = "published"
    BY <1>2 DEF RequestStart, RequestFinish, RequestEnqueueFails, PublishNow,
       CancelScheduledRead, RequeueRead, CancelJobRead, PublishNowEnqueue,
       CancelScheduledUpdate, RequeueUpdate, RequeueEnqueue, CancelJobUpdate, Update,
       TypeInv, TypeOK, JobRow
  <2>2. UNCHANGED posts /\ (UNCHANGED entry \/ \E j, o : Add(j, o))
    BY <1>2 DEF RequestStart, RequestFinish, RequestEnqueueFails, PublishNow,
       CancelScheduledRead, RequeueRead, CancelJobRead, PublishNowEnqueue,
       CancelScheduledUpdate, RequeueUpdate, RequeueEnqueue, CancelJobUpdate
  <2> QED
    BY <2>1, <2>2
<1>3. ASSUME NEW i \in Jobs, Schedule(i) \/ DeleteAsset(i) \/ ComeDue(i)
      PROVE  /\ UNCHANGED <<posts, entry>>
             /\ \A j \in Jobs : job'[j].status = "published" => job[j].status = "published"
  BY <1>3 DEF Schedule, DeleteAsset, ComeDue, TypeInv, TypeOK, JobRow
<1>4. ASSUME NEW t \in Ticks, TickStep(t) \/ TickEnqueueFails(t)
      PROVE  /\ UNCHANGED posts
             /\ \A j \in Jobs : job'[j].status = "published" => job[j].status = "published"
             /\ UNCHANGED entry \/ \E j, o : Add(j, o)
  <2>1. \A j \in Jobs : job'[j].status = "published" => job[j].status = "published"
    BY <1>4 DEF TickStep, TickEnqueueFails, TickFind, TickClaim, TickEnqueue, TypeInv,
       TypeOK, JobRow
  <2>2. UNCHANGED posts /\ (UNCHANGED entry \/ \E j, o : Add(j, o))
    BY <1>4 DEF TickStep, TickEnqueueFails, TickFind, TickClaim, TickEnqueue
  <2> QED
    BY <2>1, <2>2
<1> QED
  BY <1>1, <1>2, <1>3, <1>4 DEF Next

LEMMA PostedInvStep == TypeInv /\ PostedInv /\ [Next]_vars => PostedInv'
<1> SUFFICES ASSUME TypeInv, PostedInv, [Next]_vars PROVE PostedInv'
  OBVIOUS
<1>1. ASSUME NEW e \in Entries, WorkerStep(e) \/ Stall(e) PROVE PostedInv'
  <2>1. entry[e] \in Entry /\ (entry[e].at # "free" => entry[e].job \in Jobs)
    BY DEF TypeInv, TypeOK, Entry, EntriesWellFormed
  <2>2. \A f \in Entries : entry'[f].job = entry[f].job /\ (f # e => entry'[f] = entry[f])
    BY <1>1, <2>1, WorkerKeeps DEF WorkerStep, Stall, TypeInv, TypeOK, Goto, Take, Load,
       Deps, MarkProcessing, EnsureToken, Reconnect, NotifyReconnect, CallPlatform,
       Record, NotifyPublished, Catch, NotifyFailed, Complete, Retry
  <2>3. CASE CallPlatform(e)
    <3>1. PICK to \in {"record", "catch"}, posted \in {0, 1} :
            /\ entry'[e].at = to
            /\ to = "record" => posted = 1
            /\ posts' = [posts EXCEPT ![entry[e].job] = @ + posted]
      BY <2>1, <2>3 DEF CallPlatform, TypeInv, TypeOK, Entry
    <3>2. /\ \A j \in Jobs : posts[j] > 0 => posts'[j] > 0
          /\ to = "record" => posts'[entry[e].job] > 0
      BY <2>1, <2>3, <3>1 DEF CallPlatform, TypeInv, TypeOK
    <3>3. \A f \in Entries : entry[f].at = "record" => entry[f].job \in Jobs
      BY DEF TypeInv, TypeOK, Entry, EntriesWellFormed
    <3> QED
      BY <2>2, <2>3, <3>1, <3>2, <3>3 DEF CallPlatform, PostedInv, PublishedMeansPosted
  <2>4. CASE Record(e)
    <3>1. entry'[e].at # "record" /\ posts' = posts
      BY <2>1, <2>4 DEF Record, Goto, TypeInv, TypeOK, Entry
    <3>2. \A j \in Jobs : job'[j].status = "published" => posts[j] > 0
      BY <2>4 DEF Record, Update, PostedInv, PublishedMeansPosted, TypeInv, TypeOK, JobRow
    <3> QED
      BY <2>2, <3>1, <3>2 DEF PostedInv, PublishedMeansPosted
  <2>5. CASE ~CallPlatform(e) /\ ~Record(e)
    <3>1. entry'[e].at # "record" /\ posts' = posts
      BY <1>1, <2>1, <2>5 DEF WorkerStep, Stall, TypeInv, TypeOK, Goto, Take, Load, Deps,
         MarkProcessing, EnsureToken, Reconnect, NotifyReconnect, NotifyPublished, Catch,
         NotifyFailed, Complete, Retry, Entry
    <3>2. \A j \in Jobs : job'[j].status = "published" => job[j].status = "published"
      BY <1>1, <2>5 DEF WorkerStep, Stall, TypeInv, TypeOK, Update, Take, Load, Deps,
         MarkProcessing, EnsureToken, Reconnect, NotifyReconnect, NotifyPublished, Catch,
         NotifyFailed, Complete, Retry, JobRow
    <3> QED
      BY <2>2, <3>1, <3>2 DEF PostedInv, PublishedMeansPosted
  <2> QED
    BY <2>3, <2>4, <2>5
<1>2. CASE Next /\ ~ \E e \in Entries : WorkerStep(e) \/ Stall(e)
  BY <1>2, OthersKeep DEF PostedInv, PublishedMeansPosted, AddedTo
<1>3. CASE UNCHANGED vars
  BY <1>3 DEF vars, PostedInv, PublishedMeansPosted
<1> QED
  BY <1>1, <1>2, <1>3

\* A row reads published only when the platform shows a post for it, even
\* after crashes, lost answers, admin retries and failed writes.
THEOREM PublishedIsPosted == Spec => []PublishedMeansPosted
<1>1. Init => PostedInv
  BY DEF Init, PostedInv, PublishedMeansPosted, FreeEntry
<1> QED
  BY <1>1, PostedInvStep, TypeInvAlways, PTL DEF Spec, PostedInv

-----------------------------------------------------------------------------
(* The ceiling on platform calls.  A call of the attempt in progress is    *)
(* one more than the attempts and stalls already counted, until the        *)
(* attempt itself is counted.                                              *)

Called == {"record", "notify", "catch", "notifyFailed", "return", "throw"}

CallsInv ==
    \A e \in Entries :
        LET spent == entry[e].attemptsMade + entry[e].stalls IN
        /\ entry[e].calls <= MaxAttempts + MaxStalls
        /\ Live(e) /\ entry[e].at \in Called => entry[e].calls <= spent + 1
        /\ Live(e) /\ entry[e].at \notin Called => entry[e].calls <= spent

LEMMA CallsInvStep == TypeInv /\ CallsInv /\ [Next]_vars => CallsInv'
<1> SUFFICES ASSUME TypeInv, CallsInv, [Next]_vars PROVE CallsInv'
  OBVIOUS
<1> USE ConstantsAssumption
<1>1. ASSUME NEW e \in Entries, WorkerStep(e) \/ Stall(e) PROVE CallsInv'
  <2>1. entry[e] \in Entry /\ (Live(e) => entry[e].attemptsMade < MaxAttempts)
    BY DEF TypeInv, TypeOK, EntriesWellFormed
  <2>2. Live(e)
    BY <1>1 DEF WorkerStep, Stall, Take, Load, Deps, MarkProcessing, EnsureToken,
       Reconnect, NotifyReconnect, CallPlatform, Record, NotifyPublished, Catch,
       NotifyFailed, Complete, Retry, Live, Running
  <2>3. \A f \in Entries : f # e => entry'[f] = entry[f]
    BY <1>1 DEF WorkerStep, Stall, TypeInv, TypeOK, Goto, Take, Load, Deps,
       MarkProcessing, EnsureToken, Reconnect, NotifyReconnect, CallPlatform, Record,
       NotifyPublished, Catch, NotifyFailed, Complete, Retry
  <2>4. SUFFICES LET spent == entry'[e].attemptsMade + entry'[e].stalls IN
          /\ entry'[e].calls <= MaxAttempts + MaxStalls
          /\ Live(e)' /\ entry'[e].at \in Called => entry'[e].calls <= spent + 1
          /\ Live(e)' /\ entry'[e].at \notin Called => entry'[e].calls <= spent
    BY <2>3 DEF CallsInv, Live
  <2>5. CASE CallPlatform(e)
    <3>1. /\ entry'[e].at \in Called
          /\ entry'[e].calls = entry[e].calls + 1
          /\ entry'[e].attemptsMade = entry[e].attemptsMade
          /\ entry'[e].stalls = entry[e].stalls
      BY <2>1, <2>5 DEF CallPlatform, TypeInv, TypeOK, Entry, Called
    <3>2. entry[e].calls <= entry[e].attemptsMade + entry[e].stalls
      BY <2>2, <2>5 DEF CallPlatform, CallsInv, Called
    <3> QED
      BY <2>1, <2>2, <3>1, <3>2 DEF Entry
  <2>6. CASE Retry(e)
    <3>1. /\ entry'[e].at \in {"waiting", "exhausted"}
          /\ entry'[e].calls = entry[e].calls
          /\ entry'[e].attemptsMade = entry[e].attemptsMade + 1
          /\ entry'[e].stalls = entry[e].stalls
      BY <2>1, <2>6 DEF Retry, TypeInv, TypeOK, Entry
    <3>2. entry[e].calls <= entry[e].attemptsMade + entry[e].stalls + 1
      BY <2>2, <2>6 DEF Retry, CallsInv, Called
    <3> QED
      BY <2>1, <2>2, <3>1, <3>2 DEF Entry, Called, CallsInv
  <2>7. CASE Stall(e)
    <3>1. /\ entry'[e].at \in {"waiting", "exhausted"}
          /\ entry'[e].calls = entry[e].calls
          /\ entry'[e].attemptsMade = entry[e].attemptsMade
          /\ entry'[e].at = "waiting" => entry'[e].stalls = entry[e].stalls + 1
      BY <2>1, <2>7 DEF Stall, TypeInv, TypeOK, Entry
    <3>2. entry[e].calls <= entry[e].attemptsMade + entry[e].stalls + 1
      BY <2>1, <2>2 DEF CallsInv, Entry
    <3>3. entry[e].calls <= MaxAttempts + MaxStalls
      BY DEF CallsInv
    <3>4. entry'[e].at # "waiting" => ~Live(e)'
      BY <3>1 DEF Live, Running
    <3>5. entry'[e].at = "waiting" => "waiting" \notin Called
      BY DEF Called
    <3> QED
      BY <2>1, <3>1, <3>2, <3>3, <3>4, <3>5 DEF Entry
  <2>8. CASE ~CallPlatform(e) /\ ~Retry(e) /\ ~Stall(e)
    <3>1. /\ entry'[e].calls = entry[e].calls
          /\ entry'[e].attemptsMade = entry[e].attemptsMade
          /\ entry'[e].stalls = entry[e].stalls
          /\ entry[e].at \in Called /\ Live(e)' => entry'[e].at \in Called
      BY <1>1, <2>1, <2>8 DEF WorkerStep, TypeInv, TypeOK, Goto, Take, Load, Deps,
         MarkProcessing, EnsureToken, Reconnect, NotifyReconnect, Record,
         NotifyPublished, Catch, NotifyFailed, Complete, Entry, Called, Live, Running
    <3> QED
      BY <2>1, <2>2, <3>1 DEF CallsInv, Entry
  <2> QED
    BY <2>5, <2>6, <2>7, <2>8
<1>2. CASE Next /\ ~ \E e \in Entries : WorkerStep(e) \/ Stall(e)
  BY <1>2, OthersKeep DEF CallsInv, Live, Called, Running, AddedTo
<1>3. CASE UNCHANGED vars
  BY <1>3 DEF vars, CallsInv, Live
<1> QED
  BY <1>1, <1>2, <1>3

\* However attempts, crashes and stalls interleave, an entry calls the
\* platform at most PUBLISH_JOB_OPTIONS.attempts times, and once more for
\* each time it was taken back from a dead worker.
THEOREM CallsAreBounded == Spec => []CallsBounded
<1>1. Init => CallsInv
  BY ConstantsAssumption DEF Init, CallsInv, FreeEntry, Live, Running
<1>2. CallsInv => CallsBounded
  BY DEF CallsInv, CallsBounded
<1> QED
  BY <1>1, <1>2, CallsInvStep, TypeInvAlways, PTL DEF Spec

-----------------------------------------------------------------------------
(* A worker passes the point of no return only by writing to the row.      *)

\* No worker goes on to publish a design deleted before that write.
THEOREM DeletedNeverStarted == Spec => DeletedNotStarted
<1> DEFINE Starts(e) == /\ entry[e].at \notin {"token", "publish"}
                        /\ entry'[e].at \in {"token", "publish"}
<1>1. ASSUME TypeInv, [Next]_vars, NEW e \in Entries, Starts(e)
      PROVE  Exists(entry[e].job)
  <2>1. PICK f \in Entries : WorkerStep(f) \/ Stall(f)
    BY <1>1, OthersKeep DEF vars, AddedTo
  <2>2. entry[f] \in Entry /\ entry[e] \in Entry
    BY <1>1 DEF TypeInv, TypeOK
  <2>3. MarkProcessing(e) /\ entry'[e].at = "token"
    BY <1>1, <2>1, <2>2 DEF WorkerStep, Stall, TypeInv, TypeOK, Goto, Take, Load, Deps,
       MarkProcessing, EnsureToken, Reconnect, NotifyReconnect, CallPlatform, Record,
       NotifyPublished, Catch, NotifyFailed, Complete, Retry, Entry
  <2> QED
    BY <1>1, <2>2, <2>3 DEF MarkProcessing, Goto, TypeInv, TypeOK, Entry
<1>2. TypeInv /\ [Next]_vars =>
        [\A e \in Entries :
            entry[e].at \notin {"token", "publish"} /\ entry'[e].at \in {"token", "publish"}
                => Exists(entry[e].job)]_vars
  BY <1>1
<1> QED
  BY <1>2, TypeInvAlways, PTL DEF Spec, DeletedNotStarted

-----------------------------------------------------------------------------
(* A pipeline in which nothing fails but the platform's own answers, and     *)
(* admins keep out: what members are promised of their posts, and that       *)
(* Publishing implements JobLifecycle.                                       *)

Quiet == Faults = {} /\ Ops \cap {"requeue", "cancelJob"} = {}

\* No admin's request is in flight and no entry stems from one, so a job has
\* one entry at most; a tick enqueues what it claimed before it claims more.
Orderly ==
    /\ \A e \in Entries : entry[e].origin # "requeue"
    /\ \A r \in Requests : req[r].op \in {"idle", "nowEnqueue", "cancelUpdate"}
    /\ \A t \in Ticks : \A i, j \in tick[t].claimed : i = j

\* What an author was told, the posts and the status, seen together.
Shows(j, s, p, n) ==
    job[j].status = s /\ posts[j] = p /\ history.notified[j] = n

\* Where the worker of an entry stands says what is seen of its job, as long
\* as the row is there; once it was deleted, only that no post has been made
\* yet when the platform is about to be called.
Agrees(e) ==
    LET j  == entry[e].job
        at == entry[e].at
    IN
    IF job[j].status = "deleted"
    THEN at \in {"token", "publish"} => posts[j] = 0
    ELSE
    \/ /\ at \in {"waiting", "load", "deps", "mark"}
       /\ Shows(j, "queued", 0, {}) \/ Shows(j, "processing", 0, {})
    \/ /\ at \in {"token", "reconnect", "publish", "catch"}
       /\ Shows(j, "processing", 0, {})
    \/ at = "record" /\ Shows(j, "processing", 1, {})
    \/ at = "notify" /\ Shows(j, "published", 1, {})
    \/ at = "notifyReconnect" /\ Shows(j, "failed", 0, {})
    \/ at = "notifyFailed" /\ IsFinalAttempt(e) /\ Shows(j, "failed", 0, {})
    \/ at = "throw" /\ IsFinalAttempt(e) /\ Shows(j, "failed", 0, {"publish_failed"})
    \/ at = "throw" /\ ~IsFinalAttempt(e) /\ Shows(j, "processing", 0, {})
    \/ at \in {"return", "completed"} /\ Shows(j, "published", 1, {"publish_succeeded"})
    \/ at \in {"return", "completed", "exhausted"} /\ Shows(j, "failed", 0, {"publish_failed"})

Pending(j) == (\E t \in Ticks : Claims(t, j)) \/ (\E r \in Requests : Asks(r, j))

HasEntry(j) == \E e \in Entries : entry[e].job = j

\* A job that is under way has its entry, or one is about to be added, and
\* until then nothing was posted or told.
Awaits(j) ==
    /\ Pending(j) => job[j].status \in {"queued", "deleted"}
    /\ job[j].status \in {"queued", "processing", "published", "failed"} =>
          HasEntry(j) \/ Pending(j)
    /\ ~HasEntry(j) => posts[j] = 0 /\ history.notified[j] = {}
    /\ posts[j] \in {0, 1}
    /\ history.notified[j] \in {{}, {"publish_succeeded"}, {"publish_failed"}}

LifecycleInv ==
    /\ Orderly
    /\ \A e \in Entries : entry[e].job # NoJob => Agrees(e)
    /\ \A j \in Jobs : Awaits(j)

LEMMA LifecycleInvInit == Quiet /\ Init => LifecycleInv
BY ConstantsAssumption DEF Init, LifecycleInv, Orderly, Awaits, Pending, HasEntry, Claims, Asks,
   FreeEntry, Idle

-----------------------------------------------------------------------------
(* What the shared helpers of the actions do, field by field.              *)

Others(e) == \A f \in Entries \ {e} : entry'[f] = entry[f]

LEMMA EntryTyped ==
  ASSUME TypeInv, NEW e \in Entries, Live(e)
  PROVE  entry[e] \in Entry /\ entry[e].job \in Jobs
BY DEF TypeInv, TypeOK, Entry, EntriesWellFormed, Live, Running

LEMMA GotoMoves ==
  ASSUME TypeInv, NEW e \in Entries, NEW to, Goto(e, to)
  PROVE  /\ entry'[e].at = to
         /\ IsFinalAttempt(e)' <=> IsFinalAttempt(e)
         /\ Others(e)
<1>1. entry[e] \in Entry
  BY DEF TypeInv, TypeOK
<1>2. entry'[e].at = to /\ entry'[e].attemptsMade = entry[e].attemptsMade
  BY <1>1 DEF Goto, TypeInv, TypeOK, Entry
<1> QED
  BY <1>2 DEF Goto, TypeInv, TypeOK, IsFinalAttempt, Others

\* The rows of the other jobs, as a user sees them, are as they were.
Aside(j) ==
    \A i \in Jobs \ {j} : /\ job'[i].status = job[i].status
                          /\ posts'[i] = posts[i]
                          /\ history'.notified[i] = history.notified[i]

Statuses == [j \in Jobs |-> job[j].status]

LEMMA UpdateWrites ==
  ASSUME TypeInv, NEW j \in Jobs, NEW s, Update(j, s)
  PROVE  /\ job[j].status \notin {"absent", "deleted"}
         /\ job'[j].status = s
         /\ \A i \in Jobs \ {j} : job'[i].status = job[i].status
         /\ Statuses' = [Statuses EXCEPT ![j] = s]
<1>1. job[j].status \notin {"absent", "deleted"} /\ job'[j].status = s
  BY DEF Update, Exists, TypeInv, TypeOK, JobRow
<1>2. \A i \in Jobs \ {j} : job'[i].status = job[i].status
  BY DEF Update, TypeInv, TypeOK
<1> QED
  BY <1>1, <1>2 DEF Statuses

LEMMA NotifyTells ==
  ASSUME TypeInv, NEW j \in Jobs, NEW n, Notify(j, n)
  PROVE  /\ Exists(j) => history'.notified[j] = history.notified[j] \cup {n}
         /\ ~Exists(j) => history'.notified[j] = history.notified[j]
         /\ \A i \in Jobs \ {j} : history'.notified[i] = history.notified[i]
BY DEF Notify, TypeInv, TypeOK, History

\* A job has one entry, and none before the request or the tick that is
\* about to add it is done.
LEMMA OneEntry ==
  ASSUME DispatchInv, Orderly
  PROVE  /\ \A e, f \in Entries :
               entry[e].job \in Jobs /\ entry[e].job = entry[f].job => e = f
         /\ \A j \in Jobs : Pending(j) => ~HasEntry(j)
BY DEF DispatchInv, OneHand, First, Orderly, Pending, HasEntry

\* A step that moves one entry on and leaves the other jobs aside keeps the
\* invariant, if the entry agrees with what is then seen of its job.
LEMMA EntryMoves ==
  ASSUME TypeInv, DispatchInv, LifecycleInv, NEW e \in Entries, NEW j \in Jobs,
         entry[e].job = j,
         Others(e),
         \A f \in Entries : /\ entry'[f].job = entry[f].job
                            /\ entry'[f].origin = entry[f].origin,
         UNCHANGED <<tick, req>>,
         Aside(j),
         Agrees(e)',
         posts'[j] \in {0, 1},
         history'.notified[j] \in {{}, {"publish_succeeded"}, {"publish_failed"}}
  PROVE  LifecycleInv'
<1>1. Orderly'
  BY DEF LifecycleInv, Orderly
<1>2. \A f \in Entries : entry'[f].job # NoJob => Agrees(f)'
  <2> SUFFICES ASSUME NEW f \in Entries, entry[f].job # NoJob, f # e PROVE Agrees(f)'
    OBVIOUS
  <2>1. entry'[f] = entry[f] /\ Agrees(f)
    BY DEF Others, LifecycleInv
  <2>2. entry[f].job \in Jobs \ {j}
    BY OneEntry DEF LifecycleInv, TypeInv, TypeOK, Entry
  <2>3. /\ job'[entry[f].job].status = job[entry[f].job].status
        /\ posts'[entry[f].job] = posts[entry[f].job]
        /\ history'.notified[entry[f].job] = history.notified[entry[f].job]
    BY <2>2 DEF Aside
  <2> QED
    BY <2>1, <2>3 DEF Agrees, Shows, IsFinalAttempt
<1>3. ASSUME NEW i \in Jobs PROVE Awaits(i)'
  <2>1. (Pending(i)' <=> Pending(i)) /\ (HasEntry(i)' <=> HasEntry(i))
    BY DEF Pending, HasEntry, Claims, Asks
  <2>2. CASE i = j
    <3>1. HasEntry(j) /\ ~Pending(j)
      BY OneEntry DEF LifecycleInv, HasEntry
    <3> QED
      BY <2>1, <2>2, <3>1 DEF Awaits
  <2>3. CASE i # j
    BY <2>1, <2>3 DEF Aside, Awaits, LifecycleInv
  <2> QED
    BY <2>2, <2>3
<1> QED
  BY <1>1, <1>2, <1>3 DEF LifecycleInv

-----------------------------------------------------------------------------
(* The workers.                                                            *)

SeenAs(e, at, s, p, n) ==
    entry'[e].at = at /\ Shows(entry[e].job, s, p, n)'

\* What a step of a worker does to what is seen of its job.
Advances(e) ==
    LET j == entry[e].job IN
    /\ Others(e)
    /\ Aside(j)
    /\ Agrees(e)'
    /\ posts'[j] \in {0, 1}
    /\ history'.notified[j] \in {{}, {"publish_succeeded"}, {"publish_failed"}}

\* Steps that only move the entry on.
LEMMA MovesAdvance ==
  ASSUME Quiet, TypeInv, LifecycleInv, NEW e \in Entries,
         Take(e) \/ Load(e) \/ Deps(e) \/ EnsureToken(e) \/ Complete(e) \/ Retry(e)
  PROVE  Advances(e)
<1> DEFINE j == entry[e].job
<1>1. Live(e) /\ entry[e] \in Entry /\ j \in Jobs
  BY EntryTyped DEF Take, Load, Deps, EnsureToken, Complete, Retry, Live, Running
<1>2. Agrees(e) /\ Awaits(j)
  BY <1>1, ConstantsAssumption DEF LifecycleInv
<1>3. UNCHANGED <<job, posts, history>>
  BY DEF Take, Load, Deps, EnsureToken, Complete, Retry
<1>4. entry'[e].job = j
  BY <1>1 DEF Take, Load, Deps, EnsureToken, Complete, Retry, Goto, TypeInv, TypeOK, Entry
<1>5. Aside(j) /\ posts'[j] \in {0, 1}
      /\ history'.notified[j] \in {{}, {"publish_succeeded"}, {"publish_failed"}}
  BY <1>2, <1>3 DEF Aside, Awaits
<1>6. CASE Retry(e)
  <2>1. /\ Others(e)
        /\ entry'[e].at = IF IsFinalAttempt(e) THEN "exhausted" ELSE "waiting"
    BY <1>1, <1>6 DEF Retry, Others, TypeInv, TypeOK, Entry
  <2>2. entry[e].at = "throw"
    BY <1>6 DEF Retry
  <2>3. Agrees(e)'
    BY <1>2, <1>3, <1>4, <2>1, <2>2 DEF Agrees, Shows
  <2> QED
    BY <1>5, <2>1, <2>3 DEF Advances
<1>7. ASSUME NEW from, NEW to, entry[e].at = from, Goto(e, to),
             \/ from = "waiting" /\ to = "load"
             \/ from = "load" /\ Exists(j) /\ to = "deps"
             \/ from = "load" /\ ~Exists(j) /\ to = "return"
             \/ from = "deps" /\ Exists(j) /\ to = "mark"
             \/ from = "deps" /\ ~Exists(j) /\ to = "throw"
             \/ from = "token" /\ to \in {"publish", "reconnect"}
             \/ from = "return" /\ to = "completed"
      PROVE  Advances(e)
  <2>1. entry'[e].at = to /\ Others(e)
    BY <1>7, GotoMoves
  <2>2. Agrees(e)'
    BY <1>2, <1>3, <1>4, <1>7, <2>1 DEF Agrees, Shows, Exists
  <2> QED
    BY <1>5, <2>1, <2>2 DEF Advances
<1> HIDE DEF j
<1> QED
  <2>1. CASE Take(e) \/ Complete(e)
    BY <1>7, <2>1 DEF Take, Complete
  <2>2. CASE Load(e) \/ Deps(e)
    BY <1>7, <2>2 DEF Load, Deps, DbFails, Quiet, j
  <2>3. CASE EnsureToken(e)
    BY <1>7, <2>3 DEF EnsureToken, Quiet
  <2> QED
    BY <1>6, <2>1, <2>2, <2>3

\* Steps that write the row, tell the author or call the platform.  Each
\* case names what is seen of the job afterwards.
LEMMA WritesAdvance ==
  ASSUME Quiet, TypeInv, LifecycleInv, NEW e \in Entries,
         \/ MarkProcessing(e) \/ Reconnect(e) \/ NotifyReconnect(e) \/ CallPlatform(e)
         \/ Record(e) \/ NotifyPublished(e) \/ Catch(e) \/ NotifyFailed(e)
  PROVE  Advances(e)
<1> DEFINE j == entry[e].job
           p == posts[j]
           n == history.notified[j]
<1>1. Live(e) /\ entry[e] \in Entry /\ j \in Jobs
  BY EntryTyped DEF MarkProcessing, Reconnect, NotifyReconnect, CallPlatform, Record,
     NotifyPublished, Catch, NotifyFailed, Live, Running
<1>2. Agrees(e) /\ Awaits(j)
  BY <1>1, ConstantsAssumption DEF LifecycleInv
<1>3. entry'[e].job = j
  BY <1>1 DEF MarkProcessing, Reconnect, NotifyReconnect, CallPlatform, Record,
     NotifyPublished, Catch, NotifyFailed, Goto, TypeInv, TypeOK, Entry
<1>4. ~DbFails
  BY DEF DbFails, Quiet
\* The row was deleted: the update of it throws, and there is nobody to tell.
<1>5. ASSUME NEW to, Goto(e, to), UNCHANGED <<job, posts, history>>, ~Exists(j),
             to \notin {"token", "publish"}
      PROVE  Advances(e)
  <2>1. entry'[e].at = to /\ Others(e)
    BY <1>5, GotoMoves
  <2>2. job[j].status = "deleted"
    BY <1>2, <1>5 DEF Agrees, Shows, Exists
  <2> QED
    BY <1>2, <1>3, <1>5, <2>1, <2>2 DEF Advances, Agrees, Aside, Awaits
<1>6. CASE MarkProcessing(e)
  <2>1. ASSUME Exists(j), Goto(e, "token"), UNCHANGED <<posts, history>>,
               job' = [job EXCEPT ![j].status = "processing",
                                  ![j].attemptCount = entry[e].attemptsMade + 1]
        PROVE  Advances(e)
    <3>1. entry'[e].at = "token" /\ Others(e)
      BY <2>1, GotoMoves
    <3>2. job'[j].status = "processing" /\ \A i \in Jobs \ {j} : job'[i].status = job[i].status
      BY <1>1, <2>1 DEF TypeInv, TypeOK, JobRow
    <3>3. p = 0 /\ n = {}
      BY <1>2, <1>6, <2>1 DEF MarkProcessing, Agrees, Shows, Exists
    <3>4. posts'[j] = 0 /\ history'.notified[j] = {}
      BY <2>1, <3>3
    <3> HIDE DEF j
    <3>5. Agrees(e)'
      BY <1>3, <3>1, <3>2, <3>4 DEF Agrees, Shows, j
    <3> QED
      BY <2>1, <3>1, <3>2, <3>4, <3>5 DEF Advances, Aside, j
  <2> QED
    BY <1>4, <1>5, <1>6, <2>1 DEF MarkProcessing
<1>7. CASE Reconnect(e) \/ Record(e) \/ Catch(e)
  <2>1. ASSUME NEW to, NEW s, Goto(e, to), Update(j, s), UNCHANGED <<posts, history>>,
               \/ entry[e].at = "reconnect" /\ to = "notifyReconnect" /\ s = "failed"
               \/ entry[e].at = "record" /\ to = "notify" /\ s = "published"
               \/ /\ entry[e].at = "catch" /\ IsFinalAttempt(e)
                  /\ to = "notifyFailed" /\ s = "failed"
               \/ /\ entry[e].at = "catch" /\ ~IsFinalAttempt(e)
                  /\ to = "throw" /\ s = "processing"
        PROVE  Advances(e)
    <3>1. entry'[e].at = to /\ Others(e) /\ (IsFinalAttempt(e)' <=> IsFinalAttempt(e))
      BY <2>1, GotoMoves
    <3>2. /\ job'[j].status = s
          /\ \A i \in Jobs \ {j} : job'[i].status = job[i].status
          /\ job[j].status # "deleted"
      BY <1>1, <2>1, UpdateWrites
    <3> HIDE DEF j
    <3>3. Agrees(e)'
      BY <1>2, <1>3, <2>1, <3>1, <3>2 DEF Agrees, Shows, j
    <3> QED
      BY <1>2, <2>1, <3>1, <3>2, <3>3 DEF Advances, Aside, Awaits, j
  <2> QED
    BY <1>4, <1>5, <1>7, <2>1 DEF Reconnect, Record, Catch
<1>8. CASE NotifyReconnect(e) \/ NotifyPublished(e) \/ NotifyFailed(e)
  <2>1. ASSUME NEW to, NEW t, Goto(e, to), Notify(j, t), UNCHANGED <<job, posts>>,
               \/ entry[e].at = "notifyReconnect" /\ to = "return" /\ t = "publish_failed"
               \/ entry[e].at = "notify" /\ to = "return" /\ t = "publish_succeeded"
               \/ entry[e].at = "notifyFailed" /\ to = "throw" /\ t = "publish_failed"
        PROVE  Advances(e)
    <3>1. entry'[e].at = to /\ Others(e) /\ (IsFinalAttempt(e)' <=> IsFinalAttempt(e))
      BY <2>1, GotoMoves
    <3>2. /\ Exists(j) => history'.notified[j] = n \cup {t}
          /\ ~Exists(j) => history'.notified[j] = n
          /\ \A i \in Jobs \ {j} : history'.notified[i] = history.notified[i]
      BY <1>1, <2>1, NotifyTells
    <3>3. Exists(j) <=> job[j].status # "deleted"
      BY <1>2 DEF Agrees, Shows, Exists
    <3>4. Exists(j) => n = {}
      BY <1>2, <2>1, <3>3 DEF Agrees, Shows
    <3>5. Agrees(e)'
      BY <1>2, <1>3, <2>1, <3>1, <3>2, <3>3, <3>4 DEF Agrees, Shows
    <3>6. history'.notified[j] \in {{}, {"publish_succeeded"}, {"publish_failed"}}
      BY <1>2, <2>1, <3>2, <3>4 DEF Awaits
    <3> QED
      BY <1>2, <2>1, <3>1, <3>2, <3>5, <3>6 DEF Advances, Aside, Awaits
  <2> QED
    BY <1>4, <1>8, <2>1 DEF NotifyReconnect, NotifyPublished, NotifyFailed
<1>9. CASE CallPlatform(e)
  <2>1. PICK to \in {"record", "catch"}, posted \in {0, 1} :
          /\ posted = 1 <=> to = "record"
          /\ entry' = [entry EXCEPT ![e].at = to, ![e].calls = @ + 1]
          /\ posts' = [posts EXCEPT ![j] = @ + posted]
    BY <1>9 DEF CallPlatform, Quiet
  <2>2. entry'[e].at = to /\ Others(e)
    BY <1>1, <2>1 DEF TypeInv, TypeOK, Entry, Others
  <2>3. p = 0
    BY <1>2, <1>9 DEF CallPlatform, Agrees, Shows
  <2>4. posts'[j] = posted /\ \A i \in Jobs \ {j} : posts'[i] = posts[i]
    BY <1>1, <2>1, <2>3 DEF TypeInv, TypeOK
  <2>5. UNCHANGED <<job, history>>
    BY <1>9 DEF CallPlatform
  <2>6. Agrees(e)'
    BY <1>2, <1>3, <1>9, <2>1, <2>2, <2>4, <2>5 DEF CallPlatform, Agrees, Shows
  <2> QED
    BY <1>2, <2>2, <2>4, <2>5, <2>6 DEF Advances, Aside, Awaits
<1> QED
  BY <1>6, <1>7, <1>8, <1>9

LEMMA LifecycleInvWorker ==
  ASSUME Quiet, TypeInv, DispatchInv, LifecycleInv, NEW e \in Entries,
         WorkerStep(e) \/ Stall(e)
  PROVE  LifecycleInv'
<1>1. Advances(e) /\ Live(e)
  BY MovesAdvance, WritesAdvance
     DEF WorkerStep, Stall, Quiet, Take, Load, Deps, MarkProcessing, EnsureToken, Reconnect,
         NotifyReconnect, CallPlatform, Record, NotifyPublished, Catch, NotifyFailed,
         Complete, Retry, Live, Running
<1> QED
  BY <1>1, EntryTyped, WorkerKeeps, EntryMoves DEF Advances

-----------------------------------------------------------------------------
(* Requests, ticks and rows.                                               *)

\* A step after which every job is seen as before, its entries too.
LEMMA NothingSeen ==
  ASSUME LifecycleInv, Orderly',
         UNCHANGED <<entry, posts>>, history'.notified = history.notified,
         \A j \in Jobs : job'[j].status = job[j].status,
         \A j \in Jobs : Pending(j)' <=> Pending(j),
         TypeInv
  PROVE  LifecycleInv'
<1>1. ASSUME NEW e \in Entries, entry[e].job # NoJob PROVE Agrees(e)'
  <2>1. entry[e].job \in Jobs /\ Agrees(e)
    BY <1>1 DEF TypeInv, TypeOK, Entry, LifecycleInv
  <2> QED
    BY <2>1 DEF Agrees, Shows, IsFinalAttempt
<1>2. \A j \in Jobs : Awaits(j)'
  BY DEF LifecycleInv, Awaits, HasEntry
<1> QED
  BY <1>1, <1>2 DEF LifecycleInv

\* A step that changes the row of a job without an entry, or deletes a row.
LEMMA RowChanges ==
  ASSUME TypeInv, LifecycleInv, Orderly', NEW j \in Jobs,
         UNCHANGED <<entry, posts>>, history'.notified = history.notified,
         \A i \in Jobs \ {j} : /\ job'[i].status = job[i].status
                               /\ Pending(i)' <=> Pending(i),
         \/ job'[j].status = "deleted"
         \/ job'[j].status = "queued" /\ ~HasEntry(j) /\ Pending(j)'
         \/ job'[j].status \in {"scheduled", "cancelled"} /\ ~HasEntry(j) /\ ~Pending(j)'
  PROVE  LifecycleInv'
<1>1. ASSUME NEW e \in Entries, entry[e].job # NoJob PROVE Agrees(e)'
  <2>1. entry[e].job \in Jobs /\ Agrees(e)
    BY <1>1 DEF TypeInv, TypeOK, Entry, LifecycleInv
  <2>2. CASE entry[e].job = j
    <3>1. job'[j].status = "deleted"
      BY <2>2 DEF HasEntry
    <3>2. entry[e].at \in {"token", "publish"} => posts[j] = 0
      BY <2>1, <2>2 DEF Agrees, Shows
    <3> QED
      BY <2>2, <3>1, <3>2 DEF Agrees
  <2>3. CASE entry[e].job # j
    BY <2>1, <2>3 DEF Agrees, Shows, IsFinalAttempt
  <2> QED
    BY <2>2, <2>3
<1>2. \A i \in Jobs : Awaits(i)'
  BY DEF LifecycleInv, Awaits, HasEntry
<1> QED
  BY <1>1, <1>2 DEF LifecycleInv

\* A pending job gets its entry.
LEMMA HandsOver ==
  ASSUME TypeInv, DispatchInv, LifecycleInv, NEW i \in Jobs, Pending(i),
         NEW o \in {"publishNow", "dispatch"}, Add(i, o),
         UNCHANGED <<job, posts, history>>,
         \A r \in Requests : req'[r].op \in {"idle", "nowEnqueue", "cancelUpdate"},
         \A t \in Ticks : tick'[t].claimed \subseteq tick[t].claimed,
         \A j \in Jobs \ {i} : Pending(j)' <=> Pending(j)
  PROVE  LifecycleInv'
<1>1. PICK e \in Entries :
        /\ entry[e].at = "free"
        /\ entry' = [entry EXCEPT ![e] =
                        [FreeEntry EXCEPT !.job = i, !.origin = o, !.at = "waiting"]]
  BY DEF Add
<1>2. /\ entry'[e].job = i /\ entry'[e].origin = o /\ entry'[e].at = "waiting"
      /\ Others(e)
      /\ entry[e].job = NoJob
  BY <1>1 DEF TypeInv, TypeOK, EntriesWellFormed, FreeEntry, Others
<1>3. job[i].status \in {"queued", "deleted"} /\ posts[i] = 0 /\ history.notified[i] = {}
  BY OneEntry DEF LifecycleInv, Awaits
<1>4. Orderly'
  BY <1>2 DEF LifecycleInv, Orderly, Others
<1>5. ASSUME NEW f \in Entries, entry'[f].job # NoJob PROVE Agrees(f)'
  <2>1. CASE f = e
    BY <1>2, <1>3, <2>1 DEF Agrees, Shows
  <2>2. CASE f # e
    <3>1. entry'[f] = entry[f] /\ Agrees(f)
      BY <1>2, <1>5, <2>2 DEF Others, LifecycleInv
    <3> QED
      BY <3>1 DEF Agrees, Shows, IsFinalAttempt
  <2> QED
    BY <2>1, <2>2
<1>6. \A j \in Jobs : HasEntry(j)' <=> HasEntry(j) \/ j = i
  BY <1>2, ConstantsAssumption DEF HasEntry, Others
<1>7. \A j \in Jobs : Awaits(j)'
  BY <1>3, <1>6 DEF LifecycleInv, Awaits
<1> QED
  BY <1>4, <1>5, <1>7 DEF LifecycleInv

\* A row that was never dispatched has no entry, and none is due to it.
LEMMA NotYetDispatched ==
  ASSUME TypeInv, LifecycleInv, NEW j \in Jobs, Unspent(j)
  PROVE  ~HasEntry(j) /\ ~Pending(j)
BY ConstantsAssumption DEF LifecycleInv, Unspent, HasEntry, Awaits, Agrees, Shows

LEMMA StatusWritten ==
  ASSUME TypeInv, NEW j \in Jobs, NEW s, job' = [job EXCEPT ![j].status = s]
  PROVE  /\ job'[j].status = s
         /\ \A i \in Jobs \ {j} : job'[i].status = job[i].status
         /\ Statuses' = [Statuses EXCEPT ![j] = s]
<1>1. job'[j].status = s /\ \A i \in Jobs \ {j} : job'[i].status = job[i].status
  BY DEF TypeInv, TypeOK, JobRow
<1> QED
  BY <1>1 DEF Statuses

LEMMA LifecycleInvRequest ==
  ASSUME Quiet, TypeInv, DispatchInv, LifecycleInv, NEW r \in Requests,
         RequestStart(r) \/ RequestFinish(r) \/ RequestEnqueueFails(r)
  PROVE  LifecycleInv'
<1>1. ASSUME NEW i \in Jobs, PublishNow(r, i) PROVE LifecycleInv'
  <2>1. ~HasEntry(i)
    BY <1>1, NotYetDispatched DEF PublishNow, Unspent
  <2>2. \A j \in Jobs, q \in Requests : Asks(q, j)' <=> (Asks(q, j) \/ (q = r /\ j = i))
    BY <1>1 DEF PublishNow, Asks, TypeInv, TypeOK, Idle
  <2>3. Pending(i)' /\ \A j \in Jobs \ {i} : Pending(j)' <=> Pending(j)
    BY <1>1, <2>2 DEF PublishNow, Pending, Claims
  <2>4. Orderly'
    BY <1>1 DEF PublishNow, Orderly, LifecycleInv, TypeInv, TypeOK
  <2>5. job'[i].status = "queued" /\ \A j \in Jobs \ {i} : job'[j].status = job[j].status
    BY <1>1, StatusWritten DEF PublishNow
  <2> QED
    BY <1>1, <2>1, <2>3, <2>4, <2>5, RowChanges DEF PublishNow
<1>2. ASSUME NEW i \in Jobs, CancelScheduledRead(r, i) PROVE LifecycleInv'
  <2>1. \A j \in Jobs, q \in Requests : Asks(q, j)' <=> Asks(q, j)
    BY <1>2 DEF CancelScheduledRead, Asks, TypeInv, TypeOK, Idle
  <2>2. Orderly'
    BY <1>2 DEF CancelScheduledRead, Orderly, LifecycleInv, TypeInv, TypeOK
  <2>3. \A j \in Jobs : Pending(j)' <=> Pending(j)
    BY <1>2, <2>1 DEF CancelScheduledRead, Pending, Claims
  <2> QED
    BY <1>2, <2>2, <2>3, NothingSeen DEF CancelScheduledRead
<1>3. CASE PublishNowEnqueue(r)
  <2> DEFINE i == req[r].job
  <2>1. i \in Jobs /\ Asks(r, i)
    BY <1>3 DEF PublishNowEnqueue, TypeInv, TypeOK, Request, RequestsWellFormed, Asks
  <2>2. \A j \in Jobs, q \in Requests : Asks(q, j)' <=> Asks(q, j) /\ q # r
    BY <1>3 DEF PublishNowEnqueue, Asks, TypeInv, TypeOK, Idle
  <2>3. \A j \in Jobs \ {i} : Pending(j)' <=> Pending(j)
    BY <1>3, <2>2 DEF PublishNowEnqueue, Pending, Claims, Asks
  <2>4. /\ \A q \in Requests : req'[q].op \in {"idle", "nowEnqueue", "cancelUpdate"}
        /\ UNCHANGED tick
    BY <1>3 DEF PublishNowEnqueue, Orderly, LifecycleInv, TypeInv, TypeOK, Idle
  <2>5. Pending(i)
    BY <2>1 DEF Pending
  <2>6. Add(i, "publishNow") /\ UNCHANGED <<job, posts, history>>
    BY <1>3 DEF PublishNowEnqueue
  <2> HIDE DEF i
  <2> QED
    BY <2>1, <2>3, <2>4, <2>5, <2>6, HandsOver
<1>4. CASE CancelScheduledUpdate(r)
  <2> DEFINE i == req[r].job
  <2>1. i \in Jobs
    BY <1>4 DEF CancelScheduledUpdate, TypeInv, TypeOK, Request, RequestsWellFormed
  <2>2. \A j \in Jobs, q \in Requests : Asks(q, j)' <=> Asks(q, j)
    BY <1>4 DEF CancelScheduledUpdate, Asks, TypeInv, TypeOK, Idle
  <2>3. \A j \in Jobs : Pending(j)' <=> Pending(j)
    BY <1>4, <2>2 DEF CancelScheduledUpdate, Pending, Claims
  <2>4. Orderly'
    BY <1>4 DEF CancelScheduledUpdate, Orderly, LifecycleInv, TypeInv, TypeOK, Idle
  <2>5. UNCHANGED <<entry, posts>> /\ history'.notified = history.notified
    BY <1>4 DEF CancelScheduledUpdate, TypeInv, TypeOK, History
  <2>6. CASE job[i].status = "scheduled"
    <3>1. job' = [job EXCEPT ![i].status = "cancelled"]
      BY <1>4, <2>6 DEF CancelScheduledUpdate
    <3>2. ~HasEntry(i) /\ ~Pending(i)
      BY <2>1, <2>6, NotYetDispatched DEF Unspent
    <3>3. job'[i].status = "cancelled" /\ \A j \in Jobs \ {i} : job'[j].status = job[j].status
      BY <2>1, <3>1, StatusWritten
    <3> HIDE DEF i
    <3> QED
      BY <2>1, <2>3, <2>4, <2>5, <3>2, <3>3, RowChanges
  <2>7. CASE job[i].status # "scheduled"
    BY <1>4, <2>3, <2>4, <2>5, <2>7, NothingSeen DEF CancelScheduledUpdate
  <2> QED
    BY <2>6, <2>7
<1> QED
  BY <1>1, <1>2, <1>3, <1>4 DEF RequestStart, RequestFinish, RequestEnqueueFails, Quiet,
     RequeueRead, CancelJobRead, RequeueUpdate, RequeueEnqueue, CancelJobUpdate,
     LifecycleInv, Orderly

LEMMA LifecycleInvTick ==
  ASSUME Quiet, TypeInv, DispatchInv, LifecycleInv, NEW t \in Ticks,
         TickStep(t) \/ TickEnqueueFails(t)
  PROVE  LifecycleInv'
<1>2. CASE TickFind(t)
  <2>1. \A j \in Jobs : Pending(j)' <=> Pending(j)
    BY <1>2 DEF TickFind, Pending, Claims, Asks, TypeInv, TypeOK, Tick
  <2>2. Orderly'
    BY <1>2 DEF TickFind, Orderly, LifecycleInv, TypeInv, TypeOK, Tick
  <2> QED
    BY <1>2, <2>1, <2>2, NothingSeen DEF TickFind
<1>3. CASE TickClaim(t)
  <2>1. PICK i \in tick[t].due :
          IF job[i].status = "scheduled"
          THEN /\ job' = [job EXCEPT ![i].status = "queued"]
               /\ tick' = [tick EXCEPT ![t] = [due |-> @.due \ {i}, claimed |-> {i}]]
          ELSE /\ tick' = [tick EXCEPT ![t].due = @ \ {i}]
               /\ UNCHANGED job
    BY <1>3 DEF TickClaim
  <2>2. i \in Jobs
    BY DEF TypeInv, TypeOK, Tick
  <2>3. UNCHANGED <<entry, req, posts, history>> /\ tick[t].claimed = {}
    BY <1>3 DEF TickClaim
  <2>4. CASE job[i].status = "scheduled"
    <3>1. ~HasEntry(i)
      BY <2>2, <2>4, NotYetDispatched DEF Unspent
    <3>2. job'[i].status = "queued" /\ \A j \in Jobs \ {i} : job'[j].status = job[j].status
      BY <2>1, <2>2, <2>4, StatusWritten
    <3>3. \A j \in Jobs, u \in Ticks : Claims(u, j)' <=> (Claims(u, j) \/ (u = t /\ j = i))
      BY <2>1, <2>3, <2>4 DEF Claims, TypeInv, TypeOK, Tick
    <3>4. Pending(i)' /\ \A j \in Jobs \ {i} : Pending(j)' <=> Pending(j)
      BY <2>2, <2>3, <3>3 DEF Pending, Asks
    <3>5. Orderly'
      BY <2>1, <2>3, <2>4 DEF Orderly, LifecycleInv, TypeInv, TypeOK, Tick
    <3> QED
      BY <2>2, <2>3, <3>1, <3>2, <3>4, <3>5, RowChanges
  <2>5. CASE job[i].status # "scheduled"
    <3>1. \A j \in Jobs : Pending(j)' <=> Pending(j)
      BY <2>1, <2>3, <2>5 DEF Pending, Claims, Asks, TypeInv, TypeOK, Tick
    <3>2. Orderly'
      BY <2>1, <2>3, <2>5 DEF Orderly, LifecycleInv, TypeInv, TypeOK, Tick
    <3> QED
      BY <2>1, <2>3, <2>5, <3>1, <3>2, NothingSeen
  <2> QED
    BY <2>4, <2>5
<1>4. CASE TickEnqueue(t)
  <2>1. PICK i \in tick[t].claimed : Add(i, "dispatch")
    BY <1>4 DEF TickEnqueue
  <2>2. i \in Jobs /\ Pending(i)
    BY <2>1 DEF TypeInv, TypeOK, Tick, Pending, Claims
  <2>3. UNCHANGED <<job, req, posts, history>>
    BY <1>4 DEF TickEnqueue
  <2>4. tick[t].claimed = {i}
    BY <2>1 DEF LifecycleInv, Orderly
  <2>5. \A j \in Jobs \ {i} : Pending(j)' <=> Pending(j)
    BY <1>4, <2>3, <2>4 DEF TickEnqueue, Pending, Claims, Asks, TypeInv, TypeOK, Tick
  <2>6. /\ \A r \in Requests : req'[r].op \in {"idle", "nowEnqueue", "cancelUpdate"}
        /\ \A u \in Ticks : tick'[u].claimed \subseteq tick[u].claimed
    BY <1>4, <2>3 DEF TickEnqueue, LifecycleInv, Orderly, TypeInv, TypeOK, Tick
  <2> QED
    BY <2>1, <2>2, <2>3, <2>5, <2>6, HandsOver
<1> QED
  BY <1>2, <1>3, <1>4 DEF TickStep, TickEnqueueFails, Quiet

LEMMA LifecycleInvJob ==
  ASSUME TypeInv, LifecycleInv, NEW j \in Jobs, Schedule(j) \/ DeleteAsset(j) \/ ComeDue(j)
  PROVE  LifecycleInv'
<1>1. Orderly' /\ \A i \in Jobs : Pending(i)' <=> Pending(i)
  BY DEF Schedule, DeleteAsset, ComeDue, LifecycleInv, Orderly, Pending, Claims, Asks
<1>2. UNCHANGED <<entry, posts, history>>
  BY DEF Schedule, DeleteAsset, ComeDue
<1>3. CASE Schedule(j)
  <2>1. ~HasEntry(j) /\ ~Pending(j)
    BY <1>3, NotYetDispatched DEF Schedule, Unspent
  <2>2. job'[j].status = "scheduled" /\ \A i \in Jobs \ {j} : job'[i].status = job[i].status
    BY <1>3, StatusWritten DEF Schedule
  <2> QED
    BY <1>1, <1>2, <2>1, <2>2, RowChanges
<1>4. CASE DeleteAsset(j)
  <2>1. job'[j].status = "deleted" /\ \A i \in Jobs \ {j} : job'[i].status = job[i].status
    BY <1>4, StatusWritten DEF DeleteAsset
  <2> QED
    BY <1>1, <1>2, <2>1, RowChanges
<1>5. CASE ComeDue(j)
  <2>1. \A i \in Jobs : job'[i].status = job[i].status
    BY <1>5 DEF ComeDue, TypeInv, TypeOK, JobRow
  <2> QED
    BY <1>1, <1>2, <2>1, NothingSeen
<1> QED
  BY <1>3, <1>4, <1>5

LEMMA LifecycleInvStep ==
  ASSUME Quiet PROVE TypeInv /\ DispatchInv /\ LifecycleInv /\ [Next]_vars => LifecycleInv'
<1> SUFFICES ASSUME TypeInv, DispatchInv, LifecycleInv, [Next]_vars PROVE LifecycleInv'
  OBVIOUS
<1>1. CASE Next
  BY <1>1, LifecycleInvRequest, LifecycleInvJob, LifecycleInvTick, LifecycleInvWorker DEF Next
<1>2. CASE UNCHANGED vars
  <2>1. Orderly' /\ \A i \in Jobs : Pending(i)' <=> Pending(i)
    BY <1>2 DEF vars, LifecycleInv, Orderly, Pending, Claims, Asks
  <2> QED
    BY <1>2, <2>1, NothingSeen DEF vars
<1> QED
  BY <1>1, <1>2

LEMMA LifecycleInvAlways == ASSUME Quiet PROVE Spec => []LifecycleInv
<1>1. Init => LifecycleInv
  BY LifecycleInvInit
<1>2. TypeInv /\ DispatchInv /\ LifecycleInv /\ [Next]_vars => LifecycleInv'
  BY LifecycleInvStep
<1> QED
  BY <1>1, <1>2, TypeInvAlways, DispatchInvAlways, PTL DEF Spec

-----------------------------------------------------------------------------
(* What members are promised.                                              *)

\* An entry of a job that is seen in a status agrees with it.
LEMMA EntryOfJob ==
  ASSUME LifecycleInv, NEW j \in Jobs, NEW e \in Entries, entry[e].job = j
  PROVE  Agrees(e)
BY ConstantsAssumption DEF LifecycleInv

\* However often attempts are retried and however many dispatcher ticks
\* overlap, a job is posted at most once, and a row that says failed is right
\* that nothing was posted.
THEOREM PostedOnce == ASSUME Quiet PROVE Spec => []AtMostOncePosted
<1>1. LifecycleInv => AtMostOncePosted
  <2> SUFFICES ASSUME LifecycleInv, NEW j \in Jobs
               PROVE  posts[j] <= 1 /\ (job[j].status = "failed" => posts[j] = 0)
    BY DEF AtMostOncePosted
  <2>1. Awaits(j)
    BY DEF LifecycleInv
  <2>2. ASSUME job[j].status = "failed" PROVE posts[j] = 0
    <3>1. PICK e \in Entries : entry[e].job = j
      BY <2>1, <2>2 DEF Awaits, HasEntry
    <3> QED
      BY <2>2, <3>1, EntryOfJob DEF Agrees, Shows
  <2> QED
    BY <2>1, <2>2 DEF Awaits
<1> QED
  BY <1>1, LifecycleInvAlways, PTL

\* The status never lies about whether more will be tried: processing has an
\* entry that goes on, queued has one or is about to get one, failed has none
\* that would be tried again.
THEOREM StatusIsTrue == ASSUME Quiet PROVE Spec => []StatusNeverLies
<1>1. TypeInv /\ LifecycleInv => StatusNeverLies
  <2> SUFFICES ASSUME TypeInv, LifecycleInv, NEW j \in Jobs
               PROVE  /\ job[j].status = "processing" => LiveEntry(j)
                      /\ job[j].status = "queued" =>
                            \/ LiveEntry(j)
                            \/ \E t \in Ticks : j \in tick[t].claimed
                            \/ \E r \in Requests : req[r] = [op |-> "nowEnqueue", job |-> j]
                      /\ job[j].status = "failed" =>
                            \A e \in Entries : entry[e].job = j =>
                                \/ ~Live(e)
                                \/ entry[e].at \in {"notifyReconnect", "notifyFailed", "return"}
                                \/ entry[e].at = "throw" /\ IsFinalAttempt(e)
    BY DEF StatusNeverLies
  <2>1. Awaits(j)
    BY DEF LifecycleInv
  <2>2. ASSUME HasEntry(j), job[j].status \in {"queued", "processing"} PROVE LiveEntry(j)
    <3>1. PICK e \in Entries : entry[e].job = j
      BY <2>2 DEF HasEntry
    <3>2. Live(e)
      BY <2>2, <3>1, EntryOfJob DEF Agrees, Shows, Live, Running
    <3> QED
      BY <3>1, <3>2 DEF LiveEntry
  <2>3. ASSUME Pending(j)
        PROVE  \/ \E t \in Ticks : j \in tick[t].claimed
               \/ \E r \in Requests : req[r] = [op |-> "nowEnqueue", job |-> j]
    BY <2>3 DEF Pending, Claims, Asks, TypeInv, TypeOK, Request
  <2>4. ASSUME job[j].status = "failed", NEW e \in Entries, entry[e].job = j
        PROVE  \/ ~Live(e)
               \/ entry[e].at \in {"notifyReconnect", "notifyFailed", "return"}
               \/ entry[e].at = "throw" /\ IsFinalAttempt(e)
    BY <2>4, EntryOfJob DEF Agrees, Shows, Live, Running
  <2> QED
    BY <2>1, <2>2, <2>3, <2>4 DEF Awaits
<1> QED
  BY <1>1, TypeInvAlways, LifecycleInvAlways, PTL

\* An author is told at most one outcome, and the one the row records.
THEOREM ToldOnce == ASSUME Quiet PROVE Spec => []OneOutcomeTold
<1>1. LifecycleInv => OneOutcomeTold
  <2> SUFFICES ASSUME LifecycleInv, NEW j \in Jobs
               PROVE  LET n == history.notified[j] IN
                      /\ Cardinality(n) <= 1
                      /\ job[j].status = "published" => "publish_failed" \notin n
                      /\ job[j].status # "deleted" /\ n # {} =>
                            job[j].status \in {"published", "failed"}
    BY DEF OneOutcomeTold
  <2>1. Awaits(j)
    BY DEF LifecycleInv
  <2>2. Cardinality(history.notified[j]) <= 1
    <3>1. CASE history.notified[j] = {}
      BY <3>1, FS_EmptySet
    <3>2. ASSUME NEW t, history.notified[j] = {t}
          PROVE  Cardinality(history.notified[j]) <= 1
      BY <3>2, FS_Singleton
    <3> QED
      BY <2>1, <3>1, <3>2 DEF Awaits
  <2>3. ASSUME job[j].status # "deleted", history.notified[j] # {}
        PROVE  \/ job[j].status = "published" /\ "publish_failed" \notin history.notified[j]
               \/ job[j].status = "failed"
    <3>1. PICK e \in Entries : entry[e].job = j
      BY <2>1, <2>3 DEF Awaits, HasEntry
    <3>2. Agrees(e)
      BY <3>1, EntryOfJob
    <3> DEFINE n == history.notified[j]
    <3>3. \/ n = {}
          \/ job[j].status = "published" /\ n = {"publish_succeeded"}
          \/ job[j].status = "failed"
      BY <2>3, <3>1, <3>2 DEF Agrees, Shows
    <3> QED
      BY <2>3, <3>3
  <2> QED
    BY <2>2, <2>3
<1> QED
  BY <1>1, LifecycleInvAlways, PTL

-----------------------------------------------------------------------------
(* Publishing implements JobLifecycle.                                     *)

LifecycleStep == [Lifecycle!Next]_(Lifecycle!vars)

\* A status that goes forward as JobLifecycle allows.
LEMMA MoveImplements ==
  ASSUME TypeInv, NEW j \in Jobs, NEW s,
         Statuses' = [Statuses EXCEPT ![j] = s], UNCHANGED posts,
         LET from == job[j].status IN
         \/ s = from
         \/ from = "absent" /\ s \in {"queued", "scheduled"}
         \/ from = "scheduled" /\ s \in {"queued", "cancelled"}
         \/ from = "queued" /\ s = "processing"
         \/ from = "processing" /\ s = "published" /\ posts[j] = 1
         \/ from = "processing" /\ s = "failed" /\ posts[j] = 0
         \/ from \notin {"absent", "deleted"} /\ s = "deleted"
  PROVE  LifecycleStep
<1> DEFINE from == job[j].status
<1>1. Statuses \in [Jobs -> Status] /\ Statuses[j] = from
  BY DEF TypeInv, TypeOK, JobRow, Statuses
<1>2. CASE s = from
  BY <1>1, <1>2 DEF LifecycleStep, Lifecycle!vars, Statuses
<1>3. ASSUME NEW f, from \in f, Lifecycle!Move(j, f, s) => Lifecycle!Next
      PROVE  LifecycleStep
  BY <1>1, <1>3 DEF LifecycleStep, Lifecycle!Move, Statuses
<1>4. CASE from = "absent" /\ s \in {"queued", "scheduled"}
  BY <1>4, <1>3 DEF Lifecycle!Next, Lifecycle!Ask
<1>5. CASE from = "scheduled" /\ s \in {"queued", "cancelled"}
  BY <1>5, <1>3 DEF Lifecycle!Next, Lifecycle!Dispatch, Lifecycle!Cancel
<1>6. CASE from = "queued" /\ s = "processing"
  BY <1>6, <1>3 DEF Lifecycle!Next, Lifecycle!Start
<1>7. CASE from = "processing" /\ s = "published" /\ posts[j] = 1
  BY <1>7, <1>3 DEF Lifecycle!Next, Lifecycle!Publish
<1>8. CASE from = "processing" /\ s = "failed" /\ posts[j] = 0
  BY <1>8, <1>3 DEF Lifecycle!Next, Lifecycle!Fail
<1>9. CASE from \notin {"absent", "deleted"} /\ s = "deleted"
  <2>1. from \in {"scheduled", "queued", "processing", "published", "failed", "cancelled"}
    BY <1>1, <1>9 DEF Status
  <2> QED
    BY <1>3, <1>9, <2>1 DEF Lifecycle!Next, Lifecycle!Delete
<1> QED
  BY <1>2, <1>4, <1>5, <1>6, <1>7, <1>8, <1>9

\* No status and no post changes.
LEMMA StutterImplements ==
  ASSUME UNCHANGED posts, \A j \in Jobs : job'[j].status = job[j].status
  PROVE  LifecycleStep
BY DEF LifecycleStep, Lifecycle!vars

LEMMA WorkerImplements ==
  ASSUME Quiet, TypeInv, LifecycleInv, NEW e \in Entries, WorkerStep(e) \/ Stall(e)
  PROVE  LifecycleStep
<1> DEFINE j == entry[e].job
<1>1. Live(e) /\ entry[e] \in Entry /\ j \in Jobs
  BY EntryTyped
     DEF WorkerStep, Stall, Quiet, Take, Load, Deps, MarkProcessing, EnsureToken, Reconnect,
         NotifyReconnect, CallPlatform, Record, NotifyPublished, Catch, NotifyFailed,
         Complete, Retry, Live, Running
<1>2. Agrees(e)
  BY <1>1, EntryOfJob
<1>3. CASE MarkProcessing(e) /\ ~UNCHANGED job
  <2>1. /\ job' = [job EXCEPT ![j].status = "processing",
                              ![j].attemptCount = entry[e].attemptsMade + 1]
        /\ Exists(j) /\ UNCHANGED posts /\ entry[e].at = "mark"
    BY <1>3 DEF MarkProcessing
  <2>2. Statuses' = [Statuses EXCEPT ![j] = "processing"]
    BY <1>1, <2>1 DEF Statuses, TypeInv, TypeOK, JobRow
  <2>3. job[j].status \in {"queued", "processing"}
    BY <1>2, <2>1 DEF Agrees, Shows, Exists
  <2> QED
    BY <1>1, <2>1, <2>2, <2>3, MoveImplements
<1>4. CASE (Reconnect(e) \/ Record(e) \/ Catch(e)) /\ ~UNCHANGED job
  <2>1. PICK s :
          /\ Update(j, s)
          /\ \/ entry[e].at = "reconnect" /\ s = "failed"
             \/ entry[e].at = "record" /\ s = "published"
             \/ entry[e].at = "catch" /\ s \in {"failed", "processing"}
    BY <1>4 DEF Reconnect, Record, Catch
  <2>2. job[j].status # "deleted" /\ Statuses' = [Statuses EXCEPT ![j] = s]
    BY <1>1, <2>1, UpdateWrites
  <2>3. /\ job[j].status = "processing"
        /\ posts[j] = IF s = "published" THEN 1 ELSE 0
    BY <1>2, <2>1, <2>2 DEF Agrees, Shows
  <2>4. UNCHANGED posts
    BY <1>4 DEF Reconnect, Record, Catch
  <2> QED
    BY <1>1, <2>1, <2>2, <2>3, <2>4, MoveImplements
<1>5. CASE CallPlatform(e)
  <2>1. PICK posted \in {0, 1} : posts' = [posts EXCEPT ![j] = @ + posted]
    BY <1>5 DEF CallPlatform
  <2>2. entry[e].at = "publish" /\ UNCHANGED job
    BY <1>5 DEF CallPlatform
  <2>3. job[j].status \in {"processing", "deleted"} /\ posts[j] = 0
    BY <1>2, <2>2 DEF Agrees, Shows
  <2>4. CASE posted = 0
    BY <1>1, <2>1, <2>2, <2>4, StutterImplements DEF TypeInv, TypeOK
  <2>5. CASE posted = 1
    <3>1. posts' = [posts EXCEPT ![j] = 1]
      BY <1>1, <2>1, <2>3, <2>5 DEF TypeInv, TypeOK
    <3>2. Lifecycle!Deliver(j)
      BY <1>1, <2>2, <2>3, <3>1 DEF Lifecycle!Deliver
    <3> QED
      BY <1>1, <3>2 DEF LifecycleStep, Lifecycle!Next
  <2> QED
    BY <2>4, <2>5
<1>6. CASE UNCHANGED job /\ ~CallPlatform(e)
  <2>1. UNCHANGED posts
    BY <1>6 DEF WorkerStep, Stall, Take, Load, Deps, MarkProcessing, EnsureToken, Reconnect,
       NotifyReconnect, Record, NotifyPublished, Catch, NotifyFailed, Complete, Retry
  <2> QED
    BY <1>6, <2>1, StutterImplements
<1> QED
  BY <1>3, <1>4, <1>5, <1>6
     DEF WorkerStep, Stall, Take, Load, Deps, EnsureToken, NotifyReconnect,
         NotifyPublished, NotifyFailed, Complete, Retry

LEMMA StepImplements ==
  ASSUME Quiet, TypeInv, LifecycleInv, [Next]_vars PROVE LifecycleStep
<1>1. ASSUME NEW j \in Jobs, NEW s, job' = [job EXCEPT ![j].status = s], UNCHANGED posts,
             \/ job[j].status = "absent" /\ s \in {"queued", "scheduled"}
             \/ job[j].status = "scheduled" /\ s \in {"queued", "cancelled"}
             \/ Exists(j) /\ s = "deleted"
      PROVE  LifecycleStep
  <2>1. Statuses' = [Statuses EXCEPT ![j] = s]
    BY <1>1, StatusWritten
  <2> QED
    BY <1>1, <2>1, MoveImplements DEF Exists
<1>2. ASSUME NEW r \in Requests,
             RequestStart(r) \/ RequestFinish(r) \/ RequestEnqueueFails(r)
      PROVE  LifecycleStep
  <2>1. CASE \E j \in Jobs : PublishNow(r, j)
    BY <1>1, <2>1 DEF PublishNow
  <2>2. CASE CancelScheduledUpdate(r)
    <3>1. req[r].job \in Jobs
      BY <2>2 DEF CancelScheduledUpdate, TypeInv, TypeOK, Request, RequestsWellFormed
    <3> QED
      BY <1>1, <2>2, <3>1, StutterImplements DEF CancelScheduledUpdate
  <2>3. CASE UNCHANGED <<job, posts>>
    BY <2>3, StutterImplements
  <2> QED
    BY <1>2, <2>1, <2>2, <2>3 DEF RequestStart, RequestFinish, RequestEnqueueFails, Quiet,
       CancelScheduledRead, PublishNowEnqueue, RequeueRead, CancelJobRead, RequeueUpdate,
       RequeueEnqueue, CancelJobUpdate, LifecycleInv, Orderly
<1>3. ASSUME NEW j \in Jobs, Schedule(j) \/ DeleteAsset(j) \/ ComeDue(j)
      PROVE  LifecycleStep
  <2>1. CASE Schedule(j) \/ DeleteAsset(j)
    BY <1>1, <2>1 DEF Schedule, DeleteAsset
  <2>2. CASE ComeDue(j)
    <3>1. \A i \in Jobs : job'[i].status = job[i].status
      BY <2>2 DEF ComeDue, TypeInv, TypeOK, JobRow
    <3> QED
      BY <2>2, <3>1, StutterImplements DEF ComeDue
  <2> QED
    BY <1>3, <2>1, <2>2
<1>4. ASSUME NEW t \in Ticks, TickStep(t) \/ TickEnqueueFails(t)
      PROVE  LifecycleStep
  <2>1. UNCHANGED <<job, posts>> \/ \E j \in tick[t].due :
          /\ job[j].status = "scheduled"
          /\ job' = [job EXCEPT ![j].status = "queued"]
          /\ UNCHANGED posts
    BY <1>4 DEF TickStep, TickFind, TickClaim, TickEnqueue, TickEnqueueFails
  <2>2. tick[t].due \subseteq Jobs
    BY DEF TypeInv, TypeOK, Tick
  <2> QED
    BY <1>1, <2>1, <2>2, StutterImplements
<1>5. CASE UNCHANGED vars
  BY <1>5, StutterImplements DEF vars
<1> QED
  BY <1>2, <1>3, <1>4, <1>5, WorkerImplements DEF Next

\* The pipeline, with its queues, overlapping ticks, stale requests and
\* retries, implements the lifecycle a user sees: statuses only go forward, a
\* cancelled post is never delivered, and a post is delivered at most once
\* and before the row says published.
THEOREM PipelineImplementsLifecycle == ASSUME Quiet PROVE Spec => ImplementsLifecycle
<1>1. Init => Lifecycle!Init
  BY DEF Init, Lifecycle!Init
<1>2. TypeInv /\ LifecycleInv /\ [Next]_vars => [Lifecycle!Next]_(Lifecycle!vars)
  BY StepImplements DEF LifecycleStep
<1> QED
  BY <1>1, <1>2, TypeInvAlways, LifecycleInvAlways, PTL
     DEF Spec, ImplementsLifecycle, Lifecycle!Spec

=============================================================================
