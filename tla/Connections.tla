---------------------------- MODULE Connections ----------------------------
(***************************************************************************)
(* How accounts of social platforms come to an organization and leave it:  *)
(* the OAuth round trip of social-accounts.controller.ts and               *)
(* social-accounts.service.ts, connect of the five adapters, the plan's    *)
(* cap on accounts (plan-limits.service.ts), disconnection, and the        *)
(* callbacks by which Meta withdraws a person's data.                      *)
(*                                                                         *)
(* Each await is a step of its own, so that two callbacks, or a callback   *)
(* and a deletion, interleave at the points where the code lets go.        *)
(***************************************************************************)
EXTENDS Integers, FiniteSets, Sequences

CONSTANTS
    Orgs,
    Accounts,    \* external accounts: profiles, pages
    PlatformOf,  \* [Accounts -> PlatformName]
    Users,       \* people as the platforms know them
    Admins,      \* [Accounts -> SUBSET Users]: who can grant an account
    Flows,       \* bound: OAuth flows, one state and one code each
    FlowFor,     \* [Flows -> [org, account, user]]: who asks for what
    Callbacks,   \* callback requests that overlap; each serves many flows
    Deletions,   \* bound: compliance callbacks from Meta
    Withdraws,   \* [Deletions -> [user, platform]]: whose data and where
    Limits,      \* maxSocialAccounts of the plans, -1 for unlimited
    NoUser, NoFlow

PlatformName == {"instagram", "facebook", "threads", "x", "linkedin"}

\* metaAppSecret: whose signature on a compliance callback can be verified.
MetaPlatforms == {"facebook", "instagram", "threads"}

ASSUME ConnectionsAssumption ==
    /\ IsFiniteSet(Orgs) /\ IsFiniteSet(Accounts) /\ IsFiniteSet(Callbacks)
    /\ Callbacks # {}
    /\ PlatformOf \in [Accounts -> PlatformName]
    /\ Admins \in [Accounts -> SUBSET Users]
    /\ \A a \in Accounts : PlatformOf[a] \in {"instagram", "threads"} => Cardinality(Admins[a]) = 1
    /\ FlowFor \in [Flows -> [org : Orgs, account : Accounts, user : Users]]
    /\ \A f \in Flows : FlowFor[f].user \in Admins[FlowFor[f].account]
    /\ Withdraws \in [Deletions -> [user : Users, platform : MetaPlatforms]]
    /\ Limits \subseteq Int
    /\ NoUser \notin Users /\ NoFlow \notin Flows

VARIABLES
    row,       \* [Orgs \X Accounts -> Row], the table social_account
    limit,     \* [Orgs -> Limits], by the organization's planTier
    peak,      \* history: the widest limit each organization has had
    code,      \* [Flows -> Code], what the platform gave the browser
    callback,  \* [Callbacks -> Callback]
    deletion,  \* [Deletions -> Deletion], and data_deletion_request
    purges     \* history: [Users -> Nat], purges that went through

vars == <<row, limit, peak, code, callback, deletion, purges>>

-----------------------------------------------------------------------------
(* connect of the adapters: the calls it makes in order, and whom the      *)
(* result names as externalUserId: the account itself, the person who      *)
(* granted it, or nobody.                                                  *)

InstagramCalls == <<"exchange", "extend", "profile">>
ThreadsCalls   == <<"exchange", "extend", "profile">>
FacebookCalls  == <<"exchange", "extend", "pages">>
XCalls         == <<"exchange", "profile">>
LinkedInCalls  == <<"exchange", "profile">>

InstagramConnect == [calls |-> InstagramCalls, names |-> "account"]
ThreadsConnect   == [calls |-> ThreadsCalls, names |-> "account"]
FacebookConnect  == [calls |-> FacebookCalls, names |-> "person"]
XConnect         == [calls |-> XCalls, names |-> "nobody"]
LinkedInConnect  == [calls |-> LinkedInCalls, names |-> "nobody"]

Connect ==
    [instagram |-> InstagramConnect, threads |-> ThreadsConnect,
     facebook |-> FacebookConnect, x |-> XConnect, linkedin |-> LinkedInConnect]
-----------------------------------------------------------------------------
(* State. *)

Slots == Orgs \X Accounts

\* posted: a publish_job refers to the row, onDelete: Restrict.
\* purges: how often its user had been purged when it was last written.
Row == [here : BOOLEAN, user : Users \cup {NoUser},
        posted : BOOLEAN, purges : Nat]

NoRow == [here |-> FALSE, user |-> NoUser, posted |-> FALSE, purges |-> 0]

Code == {"none", "issued", "spent"}

Callback == [at : {"idle", "connect", "find", "limits", "count", "upsert"},
             flow : Flows \cup {NoFlow}, step : Nat, limit : Int]

IdleCallback == [at |-> "idle", flow |-> NoFlow, step |-> 1, limit |-> 0]

\* purge: which of its user's purges it made.
Deletion == [at : {"new", "record", "completed", "failed", "deauthorized"}, purge : Nat]

Init ==
    /\ row = [s \in Slots |-> NoRow]
    /\ limit \in [Orgs -> Limits]
    /\ peak = limit
    /\ code = [f \in Flows |-> "none"]
    /\ callback = [c \in Callbacks |-> IdleCallback]
    /\ deletion = [d \in Deletions |-> [at |-> "new", purge |-> 0]]
    /\ purges = [u \in Users |-> 0]

Here(o) == {a \in Accounts : row[<<o, a>>].here}

-----------------------------------------------------------------------------
(* The browser and the platform. *)

\* An admin asks for a redirect, which leaves nothing on the server: the state
\* names the organization.  Somebody consents, and the platform sends the
\* browser back with a code.  A denial changes nothing.
Consent(f) ==
    /\ code[f] = "none"
    /\ code' = [code EXCEPT ![f] = "issued"]
    /\ UNCHANGED <<row, limit, peak, callback, deletion, purges>>

-----------------------------------------------------------------------------
(* GET <platform>/callback. *)

\* The flow that c serves and the row it is about.
FlowOf(c) == FlowFor[callback[c].flow]
PlatformIn(c) == PlatformOf[FlowOf(c).account]
SlotOf(c) == <<FlowOf(c).org, FlowOf(c).account>>

GoTo(c, at) == callback' = [callback EXCEPT ![c].at = at, ![c].step = 1]

\* respondToCallback, with "connected" or with the error.
Respond(c) == callback' = [callback EXCEPT ![c] = IdleCallback]

\* decodeState: the state is genuine and not ten minutes old; else nothing
\* changes, as if nobody came.  A browser may come back twice, and a code that
\* was spent still reaches the adapter.
Arrive(c) ==
    /\ callback[c].at = "idle"
    /\ \E f \in Flows :
        /\ code[f] # "none"
        /\ callback' = [callback EXCEPT ![c] = [IdleCallback EXCEPT !.at = "connect", !.flow = f]]
    /\ UNCHANGED <<row, limit, peak, code, deletion, purges>>

\* One call of connect.  A code works once.
Call(c) ==
    LET calls == Connect[PlatformIn(c)].calls IN
    /\ callback[c].at = "connect"
    /\ calls[callback[c].step] = "exchange" => code[callback[c].flow] = "issued"
    /\ code' = [code EXCEPT ![callback[c].flow] = "spent"]
    /\ IF callback[c].step = Len(calls) THEN GoTo(c, "find")
       ELSE callback' = [callback EXCEPT ![c].step = @ + 1]
    /\ UNCHANGED <<row, limit, peak, deletion, purges>>

\* An adapter throws, as the platform refuses or sends no token, page or id; or
\* the database does.
Fails(c) ==
    /\ callback[c].at # "idle"
    /\ Respond(c)
    /\ UNCHANGED <<row, limit, peak, code, deletion, purges>>

\* upsertAccount: a reconnection is always allowed.
Find(c) ==
    /\ callback[c].at = "find"
    /\ GoTo(c, IF row[SlotOf(c)].here THEN "upsert" ELSE "limits")
    /\ UNCHANGED <<row, limit, peak, code, deletion, purges>>

\* limitsFor.
ReadLimit(c) ==
    /\ callback[c].at = "limits"
    /\ callback' = [callback EXCEPT ![c].at = "count", ![c].limit = limit[FlowOf(c).org]]
    /\ UNCHANGED <<row, limit, peak, code, deletion, purges>>

\* isWithinLimit of plan-config.ts.
Within(count, max) == max < 0 \/ count < max

\* Mutant: off by one.
CountLoosely(c) ==
    /\ callback[c].at = "count"
    /\ IF Within(Cardinality(Here(FlowOf(c).org)) - 1, callback[c].limit)
       THEN GoTo(c, "upsert") ELSE Respond(c)
    /\ UNCHANGED <<row, limit, peak, code, deletion, purges>>

\* assertCanConnectSocialAccount: disconnected rows count too.
Count(c) ==
    /\ callback[c].at = "count"
    /\ IF Within(Cardinality(Here(FlowOf(c).org)), callback[c].limit)
       THEN GoTo(c, "upsert") ELSE Respond(c)
    /\ UNCHANGED <<row, limit, peak, code, deletion, purges>>

\* The row is created or overwritten, whatever was found before.
Upsert(c) ==
    LET user == IF Connect[PlatformIn(c)].names = "nobody" THEN NoUser ELSE FlowOf(c).user IN
    /\ callback[c].at = "upsert"
    /\ row' = [row EXCEPT ![SlotOf(c)] =
                [here |-> TRUE, user |-> user, posted |-> @.posted,
                 purges |-> IF user = NoUser THEN 0 ELSE purges[user]]]
    /\ Respond(c)
    /\ UNCHANGED <<limit, peak, code, deletion, purges>>

-----------------------------------------------------------------------------
(* Members. *)

\* A publish_job is created for an account.  (Disconnecting keeps the row and
\* concerns its tokens: SocialTokens.)
Post(s) ==
    /\ row[s].here
    /\ row' = [row EXCEPT ![s].posted = TRUE]
    /\ UNCHANGED <<limit, peak, code, callback, deletion, purges>>

Wider(l, m) == IF l < 0 \/ m < 0 THEN -1 ELSE IF l < m THEN m ELSE l

\* billing.service.ts writes planTier, up or down.
ChangePlan(o) ==
    /\ \E l \in Limits :
        /\ limit' = [limit EXCEPT ![o] = l]
        /\ peak' = [peak EXCEPT ![o] = Wider(@, l)]
    /\ UNCHANGED <<row, code, callback, deletion, purges>>

-----------------------------------------------------------------------------
(* Meta. *)

\* The rows that purgePlatformUser deletes, in every organization: those of the
\* person by externalUserId, or by externalAccountId where that is the person.
RowsOf(user, platform) ==
    {s \in Slots :
        /\ row[s].here
        /\ PlatformOf[s[2]] = platform
        /\ \/ row[s].user = user
           \/ Connect[platform].names = "account" /\ user \in Admins[s[2]]}

\* deleteMany is one statement: a row that has posts refuses it as a whole.
Purge(d, at) ==
    LET user == Withdraws[d].user
        rows == RowsOf(user, Withdraws[d].platform)
    IN
    /\ deletion[d].at = "new"
    /\ ~ \E s \in rows : row[s].posted
    /\ row' = [s \in Slots |-> IF s \in rows THEN NoRow ELSE row[s]]
    /\ purges' = [purges EXCEPT ![user] = @ + 1]
    /\ deletion' = [deletion EXCEPT ![d] = [at |-> at, purge |-> purges[user] + 1]]
    /\ UNCHANGED <<limit, peak, code, callback>>

\* POST :platform/deauthorize.
Deauthorize(d) == Purge(d, "deauthorized")

\* Mutant: the foreign key's refusal is swallowed.
DeletionPurgeSwallows(d) ==
    \/ Purge(d, "record")
    \/ /\ deletion[d].at = "new"
       /\ \E s \in Slots : row[s].posted
       /\ deletion' = [deletion EXCEPT ![d] = [at |-> "record",
                                               purge |-> purges[Withdraws[d].user] + 1]]
       /\ UNCHANGED <<row, limit, peak, code, callback, purges>>

\* POST :platform/data-deletion, up to its first await.
DeletionPurge(d) == Purge(d, "record")

\* The foreign key refuses, or the database fails: a 500, and nothing recorded.
DeletionFails(d) ==
    /\ deletion[d].at \in {"new", "record"}
    /\ deletion' = [deletion EXCEPT ![d].at = "failed"]
    /\ UNCHANGED <<row, limit, peak, code, callback, purges>>

\* dataDeletionRequest.create, status "completed".
DeletionRecord(d) ==
    /\ deletion[d].at = "record"
    /\ deletion' = [deletion EXCEPT ![d].at = "completed"]
    /\ UNCHANGED <<row, limit, peak, code, callback, purges>>

-----------------------------------------------------------------------------

CallbackStep(c) ==
    \/ Call(c) \/ Fails(c) \/ Find(c) \/ ReadLimit(c) \/ Count(c) \/ Upsert(c)

DeletionStep(d) ==
    \/ Deauthorize(d) \/ DeletionPurge(d) \/ DeletionFails(d) \/ DeletionRecord(d)

Next ==
    \/ \E f \in Flows : Consent(f)
    \/ \E c \in Callbacks : Arrive(c) \/ CallbackStep(c)
    \/ \E s \in Slots : Post(s)
    \/ \E o \in Orgs : ChangePlan(o)
    \/ \E d \in Deletions : DeletionStep(d)

Spec == Init /\ [][Next]_vars

-----------------------------------------------------------------------------
(* Properties. *)

TypeOK ==
    /\ row \in [Slots -> Row]
    /\ limit \in [Orgs -> Limits]
    /\ peak \in [Orgs -> Int]
    /\ code \in [Flows -> Code]
    /\ callback \in [Callbacks -> Callback]
    /\ deletion \in [Deletions -> Deletion]
    /\ purges \in [Users -> Nat]

\* The cap is counted before the row is written, so callbacks that overlap can
\* exceed it; but by one less than there are of them, however many flows they
\* serve and however reconnections, purges and plan changes fall between.
OvershootBounded ==
    \A o \in Orgs : peak[o] >= 0 =>
        Cardinality(Here(o)) <= peak[o] + Cardinality(Callbacks) - 1

\* A deletion that is reported as completed went through in every organization:
\* a row that still names the person was written after it.
CompletedMeansPurged ==
    \A d \in Deletions, s \in Slots :
        (/\ deletion[d].at = "completed"
         /\ row[s].here
         /\ row[s].user = Withdraws[d].user
         /\ PlatformOf[s[2]] = Withdraws[d].platform)
        => row[s].purges >= deletion[d].purge

=============================================================================
