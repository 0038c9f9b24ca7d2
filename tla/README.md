# SocialHub: a TLA+ model of the back end

TLA+ modules that model the SocialHub back end (`backend/src`: NestJS over Postgres,
Redis and BullMQ), the TLC configurations that check them on small instances, and the
proofs that TLAPS checks for all. Every definition is translated from the source;
`PROJECT.json` names the lines of each under "map".

Run from this directory, for example:

    tlc -workers 2 -config pipeline.cfg MCPublishing.tla
    tlc -workers 2 -config sessions.cfg MCSessions.tla
    tlapm PublishingProofs.tla

The module each configuration belongs to is in the table of section 4. In the comments
of the modules a quotation is from the source.

## 1. The system

### Components

| component | state | operations | hard behaviour | what makes it correct |
|---|---|---|---|---|
| **Publishing** `publishing/` | `publish_job` rows, five BullMQ queues | publish now, schedule, cancel, dispatch due rows, execute an attempt, admin requeue and cancel | overlapping dispatcher ticks, check-then-act admin requests, retries of a call that is not idempotent, rows deleted under a worker, dying workers | a post goes out once; a cancelled one never; the row tells the truth; every post settles |
| **Social accounts and tokens** `social-accounts/` | `social_account` rows (status, tokens, expiry), `data_deletion_request` | connect, reconnect, disconnect, refresh on use, refresh sweep, Meta's callbacks | refreshes that race for a rotating token; a late write after a disconnect; a plan limit counted before the upsert | a healthy account stays usable; a purged one stays away; the cap holds but for overlap |
| **Platform adapters** `social-accounts/adapters/` | none; media at the platform | publish, publishCarousel, connect, refresh, authorize | many calls make one post, and any may fail, or its answer be lost, or media not be ready | what shows is what was asked for, once per call |
| **Sessions** `auth/` | `refresh_token`, `user_token`, recovery codes, Redis counters | login, refresh, logout, reset, second factor, tickets, SSO | everything is read before it is used up; bcrypt in between | single use; a reset ends sessions; the throttle throttles |
| **Organizations, members, invites** `organizations/`, `users/account-data.service.ts` | users, invitations, the plan's seats | register, invite, supersede, revoke, accept, change role, leave, dissolve | two counts at two moments; writes by id after stale checks; foreign keys that refuse a deletion | one owner; an invitation makes one user; seats hold but for overlap |
| **Billing** `billing/` | mirror of Stripe's subscriptions and invoices, the plan | checkout, portal, webhook | events repeated, reordered, failing half-way; two customers for one organization; organizations deleted meanwhile | the mirror ends at what Stripe holds, if events are in order; nobody gets another's plan |
| **Content and approval** `content/` | designs, renditions, review status | edit, review, render, publish, delete | read-then-update of the review status; policy and design change after the gate | nothing is orphaned; the gate lets only approved designs by |
| **AI gateway and quota** `ai/` | `ai_usage_log` | generate, under a rolling window | counted before the call, recorded after it | bounded overshoot; an honest `resetAt` |
| **Analytics** `analytics/`, `ai/best-time*` | runs, one metric row per post | hourly ingestion, overview, best times | runs of several instances overlap, fail or die; posts change under them; answers leave numbers out | each reaction told of is counted once; a row goes back only where runs overlap |
| **Admin, notifications, templates, brand kits, media, webhooks, dashboard, audit, crypto, config** | single rows | CRUD, reports | little | - |
| **Frontend** `frontend/lib` | Flutter controllers | editor, scheduler | - | - |

### Interactions

Members and admins call the API over HTTP; a controller calls one service.
`PublishingService` asks `ApprovalService` whether a design may be published, writes a
`publish_job` row and adds a BullMQ entry that carries its id. One of five workers takes
the entry and calls `executePublish`, which asks `SocialTokenService` for a token, calls a
platform adapter, writes the outcome to the row and a notification for the author. A timer in
every instance calls `dispatchDueScheduledJobs` every 30 seconds; another starts an
ingestion run every hour; a repeatable BullMQ job runs the token sweep, so one instance
does it. `PlanLimitsService` reads the plan that `BillingService` writes and is asked before an
account is connected or a member invited. Stripe and Meta call webhooks.
Rows in Postgres are the only state that two requests share: there is no lock, and the
transactions are few (a reset, an accepted invitation, a new user, a deletion). Hence the
grain of the models: **one step is one `await`**, a transaction is one step, and what falls
between two steps of a request is what the properties are about.

## 2. Plan, and what is left of it

1. `Publishing`, `JobLifecycle`, `PublishingProofs`: done.
2. `SocialTokens`, `SocialTokensProofs`, `Connections`, `ConnectionsProofs`: done.
3. `Adapters` and the contract `PlatformCall` by which `Publishing` sees them, `AdaptersProofs`: done.
4. `Sessions`, `SessionsProofs`: done.
5. `Membership`, `MembershipProofs`: done.
6. `Billing`, `BillingProofs`: done.
7. `Content`, `ContentProofs`: done.
8. `Metering` and `Generation`, `PostMetrics`, `Overview` and `Ingestion`: done; proved in `BillingProofs`
   and `AdaptersProofs`, beside the components that decide the plan and make the posts.

Every safety property and every action property of the passing runs is proved; liveness stays with TLC
(section 6).
The rate limit of organizations, the canvas history of the frontend and the SAML answer are not
modelled.

## 3. Modules

Every module gives its state in a table at its head, one VARIABLE to one table of the
database or one kind of thing in progress, and has an action for each statement of a handler.
A request in progress is a record whose `at` names the statement that comes next; the other
fields are what the handler has read and will still use. *History* variables are read by
properties only. `external` is what is not in the repository, modelled from how the code uses
it.

Operators under a comment that starts with *Mutant* are alternatives to the operator that
follows them, each with one plausible bug; replacing the operator by its mutant must
break the property that `PROJECT.json` names with it, which is how we know the property
can fail.

### Publishing

| variable | code |
|---|---|
| `job` | `publish_job` rows: status (with `absent` before and `deleted` after its life), whether `scheduledAt` has passed, `attemptCount` |
| `entry` | BullMQ jobs: the row they are for, who added them, `attemptsMade`, how often they stalled, how often the platform was called, and `at`, the program counter of the worker that has them |
| `tick` | runs of `dispatchDueScheduledJobs` in progress: the rows still to visit and the one claimed but not yet enqueued |
| `req` | HTTP requests between two awaits |
| `posts` | what the platform shows: external |
| `history` | confirmed cancellations, number of admin retries, outcomes an author was told |

Requests: `PublishNow` then `PublishNowEnqueue` (publishNow and publishCarouselNow),
`Schedule`, `CancelScheduledRead` then `CancelScheduledUpdate`, `DeleteAsset`, `RequeueRead`,
`RequeueUpdate`, `RequeueEnqueue`, `CancelJobRead`, `CancelJobUpdate`. The dispatcher:
`TickFind`, `TickClaim` for each row, `TickEnqueue`. A worker: `Take`, `Load`, `Deps`,
`MarkProcessing`, `EnsureToken`, then `Reconnect` and `NotifyReconnect`, or `CallPlatform`,
`Record`, `NotifyPublished`, or `Catch` and `NotifyFailed`; BullMQ's `Complete`, `Retry` and
`Stall` end the attempt. `executePublish` and `executeCarouselPublish` are the same sequence
of awaits and differ where `Carousels` is mentioned.

What may go wrong is chosen by the constant `Faults`: `ambiguous` (the platform posts and the
answer is lost), `db` (a worker's database call throws), `token` (`ensureFreshAccessToken`
throws something unforeseen), `enqueue` (`queue.add` throws or the process dies before it),
`crash` (a worker dies and BullMQ takes its entry back). Prisma's `update` throws when the row
is gone: that needs no fault, only a deletion.

Left out: the branch of the dispatcher for a platform without a queue (all five have
one); a job with neither variant nor carousel (no endpoint creates one); a worker that is
thought dead and is not.

**JobLifecycle** is what a user is promised, over the status and the number of posts
alone: rows move forward, a post is delivered at most once, while its row reads processing (or
was deleted under the worker), published implies delivered and failed implies not.
`Publishing` implements it when `Faults = {}` and no admin acts.

### SocialTokens

| variable | code |
|---|---|
| `account` | `social_account` rows: `status`, `id`, the token that `refreshAccount` would decrypt, and whether `expiresAt` is far, within 24 hours or past |
| `worker` | calls of `refreshAccount` in progress: a publish, an admin's request, the sweep; with the copy of the row each was called with and the token it got |
| `connecting` | OAuth callbacks between `adapter.connect` and `upsertAccount` |
| `platform` | external: the tokens each platform accepts, and the last it issued |

A rotating account (X, LinkedIn) holds a refresh token which the platform spends when it
is used; in the others it is the access token, which dies of age. A new token expires far away (`NewExpiry`),
but for the accounts in `Hourly`: an X access token lives for two hours, and is stored already
within the 24 of the threshold. Rows are updated by id; an account that was deleted
and connected again has a new one, so that a late write misses it and throws. `Faults`:
`transient`, `lost` (rotated, but the answer never came), `no_expiry` (an answer without
`expires_in`, which only Facebook's adapter expects: the expiry that was read stays), `undecryptable`,
`database` (an update of the row throws: on success that is taken for a failed refresh, in the
catch block it leaves the row as it was), `crash`. `abandoned`, in `history`, records that a refresh ended
without its last update, by one of the last two.

### Connections

`row` is the table `social_account` by organization and external account, with the person who
granted it; `code` what the platform gave the browser of each OAuth flow; `callback` the requests to
`:platform/callback`, and `deletion` those to Meta's two endpoints. A callback (`Arrive`)
makes the calls of the platform's `connect` one by one (`Call`), looks for the row (`Find`), and for
a new one reads the limit and counts (`ReadLimit`, `Count`) before it writes (`Upsert`). A data
deletion deletes the person's rows in one statement (`DeletionPurge`) and then records itself as
completed (`DeletionRecord`). `Post` gives a row a publish job, whose foreign key keeps the row.
What becomes of the tokens is in `SocialTokens`.

### Adapters, PlatformCall

Each adapter is a straight line of HTTP calls, some for every image and some to close. So
`Publish`, `Carousel` and `Tokens` give the kinds of its calls in order (create, wait, album, register,
fetch, put, upload, photo, post; short, extend, pair, page, profile), and one action for each kind
carries it out for all adapters: it succeeds or is refused, and the answer of one that succeeded may
be lost. The platform keeps the media of each call and processes what it has to fetch in its own
time, or finds it broken (`Process`). `posts` is what became visible. Two callers are two attempts
of one publish job, which a retry or a stall makes overlap; they share the authorization
code or refresh token where there is one (`spent`).

**PlatformCall** is the contract on which `Publishing!CallPlatform` builds: seen from its caller a
call is one indivisible step, which shows the post and returns, or throws with nothing shown, or
throws although the post is there (the fault `ambiguous`). `Adapters` implements it on all five
platforms; that is what lets `Publishing` treat a dozen HTTP calls as one step.

### Sessions

One person's account, and what others share with it, the counter by address. `token` is
`refresh_token`; `link` the reset links and hand-off tickets of `user_token`; `codes` the recovery
codes by the enabling they were made at; `fails` the two counters in Redis; `req` the requests
between two awaits. A login peeks at the counters, finds the user, compares the password, checks the
organization, clears the counter and issues a session, or bumps both counters, or hands out a challenge
for the second factor. A refresh finds the token and rotates it, or finds it revoked and revokes them
all. A reset finds its link, consumes it, hashes, and in one transaction changes the password and
revokes every token. `resets` numbers the passwords; `since`, in a request or a token, is the one
that was in force when the person was authenticated; `late` says that a reset fell within the
request's life, or after the challenge that it answers.

A request that is dropped stays where it is, so that a failure needs no action; links, tokens and
challenges may be used at any time, as expiry only takes away what may happen.

### Membership

`user` maps e-mail addresses to a role here, an account elsewhere or none; `invite`, `limit`
and `alive` are the rows of one organization; `peak` is the widest seat cap there was. The
two counts of `assertCanAddTeamMember` come from `Promise.all`, in either order
(`CountMembers`, `CountPending`). `Dissolve` is the transaction of `deleteOrganization`;
`DissolveRefused` the one that a carousel's publish job makes fail.

### Billing

`alive` says which organizations there are; `planTier`, `mirror` and `invoice` are the tables; `checkout` the requests to `startCheckout`, with
the customer each creates or finds; `stripe`, `billed` and `queue` are Stripe (external):
subscriptions, invoices, and the events that it has yet to deliver. `Deliver` hands an event to a
handler, in any order and perhaps again though it was answered, unless the organization is in
`Orderly`; a handler that throws puts it back (`Throw`), by a fault (`HandlerFails`) or by itself.
`syncSubscription` goes by the metadata and writes mirror and
plan in one transaction; invoices find their organization by customer and then by subscription,
each lookup a step of its own. `DeleteOrganization` takes the rows of an organization and leaves at Stripe
what it holds: `SyncSubscription` then throws for want of the organization, at every delivery, while
an invoice finds nobody and is dropped, unless it was looked up before (`RecordInvoice`).

### Content

`asset`, `variant` and `job` are the tables, with what of them the review is about; `policy` is
`requiresApproval`. Every handler reads the design (`FindToEdit`, `FindToRemove`, `CheckTransition`,
`FindToRender`, `Validate`) and writes by id later (`Edit`, `Remove`, `Transition`, `Render` for each
platform, `Record`), or is `Refused` because the row is gone. `Remove` takes with it what the schema
cascades to. `overtaken` says that another transition of the design came between a transition's read
and its write, `cleared` that an admin approved the design at some time, `under` in a job that the
policy was in force when the gate let it by.

### Metering, Generation

`Metering` has the state and what is promised of it, `Generation` the steps.
`log` is `ai_usage_log`, the time of each row. The guard reads the plan (`ReadPlan`), counts the window
(`Count`), and a refusal works out `resetAt` from a third query (`Refuse`); what passes asks the
provider (`Answer`, `Fail`) and records its usage, which may fail silently (`RecordUsage`).

### PostMetrics, Overview, Ingestion

`PostMetrics` has the state, what a row may say of a post (`RowTrue`) and what is promised of rows;
`Ingestion` the steps, `Overview` what is made of the rows.
`metric` is `post_metric`, `run` is `ingestion_run` with the posts it has yet to visit. A run finds
the published posts of connected accounts, asks for each (`FetchRaw`) and writes the row (`Upsert`); the next
post is not affected by one that fails. `Asked` and the `Normalize` operators are what each platform
is asked for and how its answer is read. An answer (external) tells of any part of the reactions a post ever
had, as readers take theirs back (`Left`), and may leave out any name it was asked for, or all of them (`Optional`):
the code reads what is missing as zero. `Entry` is the row made of it; with the counts it keeps, for properties
only, the engagement the answer told of (`seen`) and which answer about the job it was (`asked`). `AggregateOverview` adds the rows up one by one (`AddRow`) and lists
the first `TopN` by engagement, `RankBestTimes` the slots of the week by average; `OverviewTrue`
compares both with what the answers told. `sort` is stable and the order of the rows that it
is given is not modelled, so `Sorted` is the set of what it may come to when several rank alike. Averages are
compared by their products, not as quotients of floating point. `Slots` bounds the hours of the week; which of
them a post was sent in is quantified over. Posts are reacted to, disconnected, requeued, published again and
deleted meanwhile, and runs die.

### MC modules

The symmetry sets and constant functions for TLC. Symmetry is used in safety runs only,
and only over sets that no definition names a member of.

## 4. Runs

| run | module | instance | what it shows |
|---|---|---|---|
| `pipeline` | `MCPublishing` | 2 jobs (a design, a carousel), 2 entries, 2 ticks, 1 request, 2 attempts, no fault, no admin | a post goes out once (`AtMostOncePosted`), is dispatched once (`SingleDispatch`), a confirmed cancellation holds (`CancelWins`), the row tells what happened (`StatusNeverLies`), its author hears of one outcome (`OneOutcomeTold`); refinement of `JobLifecycle`; every post settles and its author is told (`EventuallySettled`, `EventuallyTold`) |
| `faults` | `MCPublishing` | 1 job, 2 entries, 1 tick, 1 request, 1 admin retry, 2 attempts, 1 stall, all faults | a published row has a post (`PublishedMeansPosted`), calls of the platform are bounded by attempts and stalls (`CallsBounded`), no worker starts a design that was deleted (`DeletedNotStarted`) |
| `tokens` | `SocialTokens` | an account on X that was posted from and one whose platform rotates nothing, the sweep and a worker, 1 aging, 2 connects, 1 start, 2 sweeps, 1 fault of any of the six kinds | no late write leaves a spent token in a connected row (`ConnectedTokenUsable`), a purged row stays away (`PurgedIsGone`), the next sweep renews or marks every account near its expiry, or the one after a fault (`EventuallyFresh`) |
| `connections` | `MCConnections` | a page that two people administer, a profile on Instagram, one on X; 4 flows, 2 callbacks, limits 1 and 2, 1 deletion | the cap is exceeded by less than the callbacks that overlap (`OvershootBounded`); a deletion reported as completed was one (`CompletedMeansPurged`) |
| `adapters` | `Adapters` | every platform, 2 callers, 1 to 3 images of 2, 2 polls | what shows is the request (`PostsShowRequest`), only ready media are named (`OnlyReadyMedia`), a token that comes back can post (`TokenPosts`), every call ends (`EventuallyAnswered`); refinement of `PlatformCall` |
| `sessions` | `MCSessions` | 2 requests, 2 tokens, 1 link, 1 ticket, limits of 1 failure, 1 reset, 1 enabling | `SingleUse`, `OverlapBounded`, `FailuresBounded`, `OnlyLateSurvive` |
| `membership` | `MCMembership` | 3 people, 3 invitations, 2 requests, limits 1 and 2 | `OneOwner`, `PendingBounded`, `OneUserPerInvite`, `RevokedStaysOut` |
| `owner_cannot_leave` | `MCMembership` | 2 people, 1 request | a violation, see below |
| `billing` | `MCBilling` | an orderly organization whose two checkouts may race and another; 3 checkouts, 2 handlers, 1 fault, the orderly one may be deleted | plan and mirror agree (`PlanIsMirrored`), nobody gets what another paid for (`OwnPaymentsOnly`), an orderly organization ends at what Stripe holds (`EventuallyInSync`) and every event is answered (`EventuallyAnswered`), unless the organization is deleted; then its events come again for ever, and keep no other waiting |
| `content` | `MCContent` | 2 designs, 2 platforms, 2 jobs, 2 requests | `NothingOrphaned`, `JobsCleared`, `IllegalOnlyByOverlap` |
| `generation` | `MCGeneration` | 3 requests, quotas 1 and 2, a window of 2 ticks, 4 ticks | `OvershootBounded`, `ResetKept` |
| `ingestion` | `MCIngestion` | 2 posts on every platform, 2 runs, 1 reaction, 1 change, 2 slots, lists of 1, answers that leave out anything | the overview counts what the answers told of, once (`OverviewTrue`); a row goes back, to a former post or an earlier answer, only where runs overlap (`GoesBackOnlyByOverlap`) |

Every component's module defines `TypeOK`. It is not an invariant of the runs but is proved: as `TypeCorrect` for
`Publishing`, `SocialTokens`, `Connections`, `Adapters` and `Billing`, as `QuotaTypeCorrect` and
`AnalyticsTypeCorrect` for `Generation` and `Ingestion`; in `Content`, `Sessions` and `Membership` it is
a part of the invariant that is proved.

### A finding

`owner_cannot_leave`: account-data.service.ts deletes an organization's rows children first, so that
no foreign key stands in the way. Publish jobs go with the designs they are of; the job of
a carousel is of no design, stays, and refers to a social account with `Restrict`. The transaction
fails and an owner who ever published a carousel cannot delete the account.

### Other departures from what comments promise

They are in the models as the code has them; where a property would be false of them it is stated
for what remains.

Publishing:
- a job an admin cancelled while its entry was on the queue is published all the same: the worker
  looks only for a missing row (publishing.service.ts 398-400);
- `requeueJob` and `cancelJob` write by id after a read, and overwrite a row published since (680, 703);
- a failing notification takes a published row back to processing, and the post is repeated (498, 535);
- a row claimed when `queue.add` fails stays queued for ever (611-612, 645);
- a post whose answer was lost is retried (publish-queue.constants.ts 38 says "never");
- a token error other than `TokenReconnectRequiredError` is thrown outside the try block: the
  row reads processing when retries are exhausted (474).

Accounts:
- of two workers with the same rotating token, the one that is refused may mark revoked what the other has
  just refreshed; a refresh under way reconnects an account its owner disconnected
  (social-token.service.ts 132-140); one refresh without an answer marks a healthy account;
- a LinkedIn account without a refresh token is refreshed with its access token, refused, and marked
  revoked up to 24 hours before it expires (114-119);
- an X token lives for two hours (x.adapter.ts 39), so an X account is always within the 24 hours of the
  threshold: every publish and every sweep spends its refresh token, and each is a chance to lose the successor;
- a deletion that Meta asks for is refused once the account has a publish job; a callback in flight
  creates the purged row again;
- threads.adapter.ts 58-65 says it does not wait for a container, and 236-267 do; a carousel on
  Instagram may poll up to 232 times where the limit is 200 calls an hour.

Sessions:
- a refresh or login in flight survives a reset (account.service.ts 81-84 "must log other devices out"), and so
  does a challenge; a ticket exchanged twice at once gives two sessions (google-auth.service.ts 132-136);
- two requests for a link leave two open links (68); enabling the second factor across a second
  set-up or a removal leaves it on over a secret nobody verified, or none (mfa.service.ts 111);
- refresh, SSO and Google do not look whether the organization is suspended;
- the throttle fails open without Redis, and sets its expiry in a second call (auth-throttle.service.ts 141-142).

Organizations:
- two invitations that cross leave two live ones for a person (invites.service.ts 69-71); inviting
  again is refused at the cap because the former invitation counts; a revocation overwrites an acceptance;
- a changed role is in force when the access token is renewed.

Billing:
- the mirror is in sync only while events come in order (billing.service.ts 20-22): an `updated` after
  `deleted`, or a `completed` of a subscription canceled since, brings the paid plan back; a `deleted` of
  one subscription frees an organization that holds another; `markPastDue` follows a cancellation;
- the deletion of an organization cancels nothing at Stripe (account-data.service.ts 146-160): whoever deletes the
  account keeps paying, and each later event of the subscription makes `syncSubscription` throw, for want of
  the organization its metadata names (billing.service.ts 183-209), however often it is delivered, where
  billing.controller.ts 69 has "Always 200 for a valid event so Stripe doesn't retry endlessly".
  `EventuallyAnswered` and `EventuallyInSync` are claimed of organizations that are not deleted;
- a webhook with a bad signature is answered 200.

Content:
- two reviews that overlap take a step the table does not allow (approval.service.ts 75); an edited
  design keeps its approval; approval is not looked at again when the post is dispatched; carousels pass
  no gate; renditions made after the approval are published.

AI and analytics:
- the top posts are sorted by engagement alone (analytics-aggregation.ts 56-59, 94-96), where the comment on
  `engagementScore` (26) says "impressions + engagement, the single number posts are ranked by": a post with
  many views that nobody acted on comes after one with a single like. The comment on `aggregateOverview`
  (61-66) says "by engagement"; `OverviewTrue` holds of that, the ranking of line 26 does not;
- quota.guard.ts 35 says a quota is overshot by one: by the number of requests that overlap; at `resetAt`
  itself the row still counts (84); `aiCreditsPerMonth` of `PLAN_LIMITS`, the "single source of truth"
  (plan-config.ts 3-5), is neither the number nor the window that the guard goes by, and
  `maxScheduledPosts` is never enforced;
- an answer with status 200 but without metrics is read as zeros (metric-normalization.ts 30-33, 152), which
  overwrite the numbers that were known, under a newer `capturedAt`; the code means a missing metric to be 0, and
  elsewhere (164-168) throws rather than return zeros "which would look like a real 'no engagement' result";
- an ingestion run that dies reads running for ever (ingestion.service.ts 36); of overlapping runs the
  later write may hold the earlier numbers, under a newer `capturedAt`; the metrics of a post that
  was published again are those of the former until the next run; best times go by `createdAt` of the
  row, not by when it was sent.

### Bounds

Two of everything that overlaps is the least that can race, and what the properties compare is
always two: two requests, two ticks, two callbacks, two attempts, two runs. Where a property bounds an
overshoot by the number of requests, the theorems of section 6 show it for any number; `generation`
is run with three. Jobs do not interact but through the list of a tick, accounts not but
through the list of the sweep, posts not but in the overview: two of each, of different kinds. In
`membership` three invitations are one that is superseded or revoked, one accepted and one pending at the cap. In `connections` four
flows are two people who grant one page, and two rows more to fill the cap. In `adapters` three images
are first, middle and last. In `generation` a window of two ticks within four has rows that are fresh,
old and gone. In `ingestion` one reaction distinguishes every name a platform might count twice or leave
out, and one change is a disconnection, a requeue (and with it another post) or a deletion; more of them, in any
order, are left to the proofs. Reactions taken back need no bound of their own.
In `tokens` two sweeps are one that a fault spoils and the next. In `billing` the organization that may be deleted is
the orderly one, whose checkouts race and of which liveness is claimed; that safety survives the deletion of the
other is proved.

Every counter is bounded by a constant: `MaxAttempts`, `MaxStalls` and `MaxPolls` are the code's own
(at two what is final and what is not differ; the code's larger numbers add nothing); `MaxRequeues`,
`MaxAges`, `MaxConnects`, `MaxStarts`, `MaxSweeps`, `MaxFaults`, `MaxResets`, `MaxEnables`, `MaxTime`,
`MaxReactions`, `MaxChanges`, `Leaving` and `Slots` bound the environment, not the code, as do finite sets of flows, links, tokens,
invitations and checkouts. Deadlock is not checked, since behaviours end when these are used up.

## 5. Fairness

`FairSpec` of a module assumes weak fairness of what runs by itself once begun, and of nothing that
a person, a platform or a fault does.

- `Publishing`: of the clock (`ComeDue`), of each dispatcher tick (a timer of 30 seconds that catches its errors), of a
  request already accepted (Node runs its continuations) and of each worker (BullMQ workers poll for ever).
- `SocialTokens`: of the sweep (a repeatable job, every six hours, whose loop catches what an account
  throws), of refreshes under way and of a callback about to store. `EventuallyFresh` is claimed of what the
  next sweep finds, and of one sweep later for each fault: an account that can never be decrypted stays
  due for ever. What it says is that the platform gives a new token for the row, or the account is marked or
  gone, not that it is then far from its expiry: an X account is due again with the next token.
- `Adapters`: of each call, as `fetch` settles by its default timeouts. Nothing is assumed of
  how long a platform processes media: `EventuallyAnswered` rests on the bound of the polling.
- `Billing`: of a handler that is running, and of Stripe's delivering to each organization, which it keeps up for
  days. Nothing is claimed of organizations that are deleted.

The other modules claim no liveness: nothing in them is retried or scheduled but the hourly run, which
may fail every time.

## 6. Proofs

TLAPS checks these for every value of the constants that the assumption of the module allows: any
number of jobs, requests, workers, people, designs, any limits.

**PublishingProofs**, for every set of endpoints in use and of faults:

- `TypeCorrect`. `TypeOK` is not inductive alone: for `attemptCount` to stay within its range an
  attempt in progress must be one of those allowed, and for an update to stay within the rows an entry
  or request in use must hold a job. `TypeInv` adds both.
- `DispatchedOnce` and `CancelledNeverDispatched`. `DispatchInv` says that a job's right to be
  enqueued passes from hand to hand: from the row, while it reads absent or scheduled, to the tick
  that claimed it or the request that created it, to the entry; never two hands at once, and none
  after a confirmed cancellation. The conditional update is what moves it.
- `PublishedIsPosted`: with the worker that is about to record having seen a post.
- `CallsAreBounded`: the calls of a live entry are bounded by the attempts and stalls already
  counted, plus one from the call until the attempt is counted.
- `DeletedNeverStarted`, an action property, from `TypeInv`.

Of the pipeline while nothing is lost, in the same module: no faults, and an admin who neither
requeues nor cancels (`Quiet`, which the constants of the run `pipeline` satisfy and those of `faults`
do not: with faults these are false, which is why they are no part of the above).

- `PostedOnce`, `StatusIsTrue`, `ToldOnce`: `AtMostOncePosted`, `StatusNeverLies`, `OneOutcomeTold`.
  By `DispatchInv` a job has one entry at most. `Orderly` says so again with who holds it, and
  `Agrees` says what row, platform and notifications are at each point of a worker's way through
  `executePublish`: before the call nothing was posted, between the call and the record the post is
  there and the row does not say so yet. `Awaits` covers a job whose entry is about to be added.
- `PipelineImplementsLifecycle`: each step of a worker maps to a step of `JobLifecycle` or changes
  nothing it shows. This is the refinement that the run `pipeline` checks, for any number of jobs,
  ticks and attempts.

**SocialTokensProofs**:

- `TypeCorrect`, from an inductive `TypeOK`.
- `TokenUsable`, until a refresh was abandoned: its process died, or the database refused its last update. `TokenInv` says that a token on its way into a row is
  accepted by the platform and held by no row, no copy and no other worker: no one else can spend it first, and the write
  that brings it is never harmful. A copy with the row's token is a copy of that very row: the worker
  that spent it can still store its successor, or mark the row.
- `PurgeHolds`: no worker brings a row into being.

**AdaptersProofs**, for any callers, renditions, number of images and of polls, on every platform:

- `TypeCorrect`, `PostsWhatWasAsked`, `NamesReadyMedia`, `ReturnsTokenThatPosts`: `TypeOK`,
  `PostsShowRequest`, `OnlyReadyMedia`, `TokenPosts`. The inductive `CallOK` says where a call stands in its
  plan: the ids it holds are strictly increasing places among its own media, those made so far show the
  first images in their order and are ready, the one in hand is as far as the plan's step
  (`ItemStage`), an album has them all (`CloseStage`), and a token has grown exactly as far as its
  exchanges (`TokenStage`). Two overlapping attempts share nothing but the request and what is `spent`. The
  plans enter as facts of their shape (`PostPlan`, `TokenPlan`): what precedes what, on which platform.
- `PlansImplementContract`: each step of a call maps to a step of `PlatformCall` or a stutter.
  A plan shows its post in its last request, so a call that fails before it has shown nothing.

Of `Ingestion`, in the same module (`Analytics == INSTANCE Ingestion` over the variables of `PostMetrics`):

- `AnalyticsTypeCorrect`.
- `RowsAreTrue`. At any time a row tells of a post its job has made, of no more than readers ever did to
  that very post, and of all that the answer told (`RowsTrue`, which no run checks by itself). For each platform the names it is asked for and the normalizer give, between
  them, every reaction it tells of once, with any of the names left out of the answer (`InstagramTold` and the lemmas
  after it). The tally of reactions ever made only grows, so a row that was true stays so; one on its way to an upsert is
  true of the post the run found (`RunTrue`), even if the job has made another since.
- `DeletedIsInNone`: a post that is deleted has no row, then or later (`NoGhosts`).
- `OverviewIsTrue`: `OverviewTrue`, from those two. `FiniteInduction` is what the proof needs of induction: a
  set of subsets that holds a set whenever it holds all its proper subsets holds every subset of a finite set,
  as inclusion is well-founded there. By it `FoldDefined` shows that the function by which a fold is defined
  exists, `SumRule` that a sum may take any element first, and `SortedExists` that what can be ranked can be
  sorted. The overview then counts each row once (`CountsOnce`, one row more in `OneMore`); a list of the
  first has no better one left out, whichever way ties fall (`FirstOfSorted`); and the comparison of two
  averages by products ranks the slots (`LeadsOn`: it is transitive because no slot is empty).
- `GoingBackNeedsOverlap`: `GoesBackOnlyByOverlap`, an action property. While a run is alone no other is
  under way (`AloneIsAlone`), and it visits each job once (`RunTrue`), so the posts it has found and the answer it
  has in hand are not older than the row (`Newer`): answers are numbered as they come (`Stamped`), and no
  row or run knows of a post the job has not made (`PostsKnown`).

**ConnectionsProofs**: `CapHolds` and `DeletionsAreReal`. The rows an organization has do not obey a
bound that is inductive: a deletion makes room that a callback which counted before has already been
promised. `HeadingBounded` therefore bounds the accounts it has *or is about to have*: only a
callback that finds room adds one, and at that moment the rows are within the cap and the others
about to write are fewer than the callbacks. `Caps` says that no limit read is wider than the widest
the organization has had. `Purged` numbers the purges of a person: a row knows of every purge that
did not take it.

**BillingProofs**: `PlanMirrored`, `OwnPayments`, through deletions of organizations at any moment. An event is good if it tells of a subscription that
was paid and a plan it has or was bought with; good events stay so, which `Queued` and `InHandIsGood` say of
those at Stripe and in handlers, whatever their order. `Customers` says that the customers and subscriptions
by which `resolveOrgId` looks rows up belong to the organization of the row.

Of `Generation`, in the same module, as the plan that Billing writes decides the quota
(`AI == INSTANCE Generation` over the variables of `Metering`):

- `QuotaTypeCorrect`.
- `OvershootIsBounded`. `QuotaInv` holds that each quota a request measures by is one the
  organization has had. What the window holds grows only as a request that was let through is recorded; and
  the request that `Count` lets through found less than the quota, at a moment when the others under
  way were fewer than all.
- `ResetIsKept`. Rows are in the order of the clock (`LogSorted`), so a window is the end of the log
  (`RecentIsEnd`) and the row by which `resetAt` is worked out can be named by its place
  (`RowByPlace`). `GuardRead` remembers that the rows the refusal speaks of were counted in *some* earlier
  window. Whatever was recorded or grew old since, `used - limit` rows or more of those have left once
  `resetAt` is past (`RefusalKept`).

**ContentProofs**: `NothingIsOrphaned`, `JobsAreCleared`, `OnlyOverlapIsIllegal`. The inductive
`IInv` adds that requests are about designs that were made (`Known`), that a design that reads
approved was cleared, that only an admin's transition approves, and that what the gate let by
was cleared, if it is still there (`Reviewed`), and that a transition nobody overtook leads where the table
allows from the status the design has now (`Overtakes`).

**SessionsProofs**: `UsedOnce`, `RedeemedWithinOverlap`, `ThrottleHolds`, `ResetEndsSessions`. The
bounds count who may still act: uses of a token and the requests that have read it, or failures and the
requests that passed the counter, are together bounded by the number of requests. For the reset,
whoever has read the user before it and is on the way to a session is `late`.

**MembershipProofs**: `FounderOwns`, `OneUseOnly`, `SeatsHold`, `RevokedIsOut`. One owner rests on
`OwnersRow`: no role change in flight is about the owner's row, and a departure in flight knows whether
it is the owner's. The seats rest on `Adding`: open invitations and the requests that have counted them and
may yet add one, together, exceed the cap by less than the number of requests. A request joins `Adding` only
as it counts the invitations there are, at a moment when they and the owner fit; from then on an
invitation added is a request that leaves it.

All rest on the named assumption of their module only, and the last two items of
`PublishingProofs` on `Quiet`.

Checked by TLC and not proved: liveness (`EventuallySettled`, `EventuallyTold`, `EventuallyFresh`,
`EventuallyInSync` and both `EventuallyAnswered`), which is out of the prover's reach.

## 7. Not modelled

"components" in `PROJECT.json` gives the reason for each part. In short: single-row CRUD and reports
(admin, notifications, templates, brand kits, media, webhooks, dashboard, audit log), where no step of
another actor matters; cryptography and the validation of SAML and Google's answers; the verification of
e-mail addresses, which is the reset's code with another type; the rate limit of organizations, which
counts before it acts and fails open; prompts and the parsing of generated text; the front end, whose
state no other component shares.
