---------------------------- MODULE SocialTokens ----------------------------
(***************************************************************************)
(* The tokens of connected social accounts: backend/src/social-accounts.   *)
(*                                                                         *)
(* A social_account row holds what adapter.refresh will be called with: a  *)
(* refresh token that the platform rotates on every use (X, LinkedIn), or  *)
(* the access token itself (Instagram, Threads, Facebook).  Publishing     *)
(* workers, the sweep and platform admins refresh it; members connect and  *)
(* disconnect; Meta's callbacks and admins delete.  They share the row and *)
(* nothing else, and each works on the copy of the row it read.            *)
(***************************************************************************)
EXTENDS Naturals, FiniteSets

CONSTANTS
    Accounts,     \* accounts: (organization, platform, external account id)
    NoAccount,    \* what an idle worker works on
    Rotating,     \* the accounts whose platform rotates refresh tokens
    Hourly,       \* those of them whose access token lives for hours: X
    Posted,       \* the accounts with publish_job rows (onDelete: Restrict)
    Workers,      \* whoever may be refreshing: publish workers, admins, the sweep
    Sweeper,      \* the one worker that runs the sweep
    MaxAges,      \* bound: how often tokens near their expiry
    MaxConnects,  \* bound: completed OAuth exchanges
    MaxStarts,    \* bound: refreshes by publishes and admins
    MaxSweeps,    \* bound: runs of the sweep
    MaxFaults,    \* bound: how often something goes wrong
    Faults        \* what may go wrong, a subset of AllFaults

\* "transient": the platform does not answer, or answers 5xx.
\* "lost": the platform refreshes and the answer is lost.
\* "no_expiry": the answer has no expires_in (Facebook).
\* "undecryptable": the stored token cannot be decrypted.
\* "database": an update of the row throws.
\* "crash": a worker's process dies.
AllFaults == {"transient", "lost", "no_expiry", "undecryptable", "database", "crash"}

ASSUME ConstantsAssumption ==
    /\ NoAccount \notin Accounts
    /\ Rotating \subseteq Accounts
    /\ Hourly \subseteq Rotating
    /\ Posted \subseteq Accounts
    /\ Sweeper \in Workers
    /\ MaxAges \in Nat /\ MaxConnects \in Nat /\ MaxStarts \in Nat
    /\ MaxSweeps \in Nat /\ MaxFaults \in Nat
    /\ Faults \subseteq AllFaults

VARIABLES
    account,     \* social_account: [Accounts -> Row]
    worker,      \* refreshAccount in progress: [Workers -> Worker]
    sweep,       \* the rows the sweep has read and not yet visited
    connecting,  \* the token of an OAuth callback about to be stored, or NoToken
    platform,    \* external: the tokens the platform accepts, and has issued
    history      \* observed only by properties, and the bounds

vars == <<account, worker, sweep, connecting, platform, history>>

-----------------------------------------------------------------------------
(* State. *)

\* Tokens are numbered in the order the platform issues them.
NoToken == 0

Status == {"absent", "connected", "expired", "revoked", "error"}

\* expiresAt: further away than TOKEN_REFRESH_THRESHOLD_MS, within it, past.
Expiry == {"far", "due", "past"}

\* id: the token the row was created with stands for its uuid.
Row == [status : Status, id : Nat, token : Nat, expiry : Expiry]

\* What refreshAccount uses of the row it was called with.
Copy == [id : Nat, token : Nat, expiry : Expiry]

\* refresh: adapter.refresh comes next; store: it returned got; invalid,
\* transient: it threw an error of that sort.
At == {"refresh", "store", "invalid", "transient"}

NoCopy == [id |-> NoToken, token |-> NoToken, expiry |-> "far"]

Idle == [at |-> "idle", account |-> NoAccount, seen |-> NoCopy, got |-> NoToken]

Worker == {Idle} \cup [at : At, account : Accounts, seen : Copy, got : Nat]

Platform == [valid : SUBSET Nat, issued : Nat]

\* purged: the accounts purged since they were connected last; abandoned: a
\* refresh ended without its last update, as its process died or the database
\* refused it.
History == [purged : SUBSET Accounts, abandoned : BOOLEAN,
            ages : 0 .. MaxAges, connects : 0 .. MaxConnects, starts : 0 .. MaxStarts,
            sweeps : 0 .. MaxSweeps, faults : 0 .. MaxFaults]

NoRow == [status |-> "absent", id |-> NoToken, token |-> NoToken, expiry |-> "far"]

Init ==
    /\ account = [a \in Accounts |-> NoRow]
    /\ worker = [w \in Workers |-> Idle]
    /\ sweep = {}
    /\ connecting = [a \in Accounts |-> NoToken]
    /\ platform = [a \in Accounts |-> [valid |-> {}, issued |-> NoToken]]
    /\ history = [purged |-> {}, abandoned |-> FALSE, ages |-> 0, connects |-> 0,
                   starts |-> 0, sweeps |-> 0, faults |-> 0]

Exists(a) == account[a].status # "absent"

CopyOf(a) == [id |-> account[a].id, token |-> account[a].token,
              expiry |-> account[a].expiry]

\* The expiresAt of a token just issued: that of X, two hours away, is already
\* within the threshold.
NewExpiry(a) == IF a \in Hourly THEN "due" ELSE "far"

\* connected, and isDueForRefresh.
Due(a) == account[a].status = "connected" /\ account[a].expiry # "far"

Fault(f) == /\ f \in Faults
            /\ history.faults < MaxFaults
            /\ history' = [history EXCEPT !.faults = @ + 1]

-----------------------------------------------------------------------------
(* Members, Meta on their behalf, and admins. *)

\* adapter.connect in an OAuth callback: the platform issues a grant of its own.
ConnectExchange(a) ==
    LET new == platform[a].issued + 1 IN
    /\ connecting[a] = NoToken
    /\ history.connects < MaxConnects
    /\ connecting' = [connecting EXCEPT ![a] = new]
    /\ platform' = [platform EXCEPT ![a] = [valid |-> @.valid \cup {new}, issued |-> new]]
    /\ history' = [history EXCEPT !.connects = @ + 1]
    /\ UNCHANGED <<account, worker, sweep>>

\* upsertAccount: every field is set anew, but for the id of a row that exists.
UpsertAccount(a) ==
    /\ connecting[a] # NoToken
    /\ account' = [account EXCEPT ![a] =
                      [status |-> "connected",
                       id |-> IF Exists(a) THEN account[a].id ELSE connecting[a],
                       token |-> connecting[a], expiry |-> NewExpiry(a)]]
    /\ connecting' = [connecting EXCEPT ![a] = NoToken]
    /\ history' = [history EXCEPT !.purged = @ \ {a}]
    /\ UNCHANGED <<worker, sweep, platform>>

\* A soft disconnect drops the refresh token; the access token stays.
Disconnect(a) ==
    /\ Exists(a)
    /\ account' = [account EXCEPT ![a].status = "revoked",
                                  ![a].token = IF a \in Rotating THEN NoToken ELSE @]
    /\ UNCHANGED <<worker, sweep, connecting, platform, history>>

\* A deauthorize or data-deletion callback of Meta.  The deleteMany fails as a
\* whole when a publish_job refers to a row.
PurgePlatformUser(a) ==
    /\ a \notin Rotating
    /\ a \notin history.purged
    /\ account' = IF a \in Posted THEN account ELSE [account EXCEPT ![a] = NoRow]
    /\ history' = [history EXCEPT !.purged = @ \cup {a}]
    /\ UNCHANGED <<worker, sweep, connecting, platform>>

\* AdminSocialAccountsService.disconnect: a hard delete.
AdminDisconnect(a) ==
    /\ Exists(a)
    /\ a \notin Posted
    /\ account' = [account EXCEPT ![a] = NoRow]
    /\ UNCHANGED <<worker, sweep, connecting, platform, history>>

-----------------------------------------------------------------------------
(* Time. *)

TokenAges(a) ==
    /\ Exists(a)
    /\ account[a].expiry = "far"
    /\ history.ages < MaxAges
    /\ account' = [account EXCEPT ![a].expiry = "due"]
    /\ history' = [history EXCEPT !.ages = @ + 1]
    /\ UNCHANGED <<worker, sweep, connecting, platform>>

\* An access token that is its own refresh token is refused once it expired.
TokenExpires(a) ==
    /\ Exists(a)
    /\ account[a].expiry = "due"
    /\ account' = [account EXCEPT ![a].expiry = "past"]
    /\ platform' = IF a \in Rotating THEN platform
                   ELSE [platform EXCEPT ![a].valid = @ \ {account[a].token}]
    /\ UNCHANGED <<worker, sweep, connecting, history>>

-----------------------------------------------------------------------------
(* Who refreshes. *)

Begin(w, a, seen) ==
    /\ worker[w].at = "idle"
    /\ worker' = [worker EXCEPT ![w] =
                     [at |-> "refresh", account |-> a, seen |-> seen, got |-> NoToken]]

End(w) == worker' = [worker EXCEPT ![w] = Idle]

\* executePublish reads the account; ensureFreshAccessToken decides by that
\* copy.  A publish that needs no refresh takes no part here.
EnsureFreshAccessToken(w, a) ==
    /\ w # Sweeper
    /\ Due(a)
    /\ history.starts < MaxStarts
    /\ Begin(w, a, CopyOf(a))
    /\ history' = [history EXCEPT !.starts = @ + 1]
    /\ UNCHANGED <<account, sweep, connecting, platform>>

\* AdminSocialAccountsService.refresh asks for no particular status.
AdminRefresh(w, a) ==
    /\ w # Sweeper
    /\ Exists(a)
    /\ history.starts < MaxStarts
    /\ Begin(w, a, CopyOf(a))
    /\ history' = [history EXCEPT !.starts = @ + 1]
    /\ UNCHANGED <<account, sweep, connecting, platform>>

\* Mutant: only what has expired is swept.
SweepFindExpired ==
    /\ worker[Sweeper].at = "idle"
    /\ sweep = {}
    /\ sweep' = {[account |-> a, seen |-> CopyOf(a)] :
                    a \in {b \in Accounts : Due(b) /\ account[b].expiry = "past"}}
    /\ history.sweeps < MaxSweeps
    /\ history' = [history EXCEPT !.sweeps = @ + 1]
    /\ UNCHANGED <<account, worker, connecting, platform>>

\* refreshDueAccounts: one findMany, and then one account after the other.
SweepFind ==
    /\ worker[Sweeper].at = "idle"
    /\ sweep = {}
    /\ history.sweeps < MaxSweeps
    /\ sweep' = {[account |-> a, seen |-> CopyOf(a)] : a \in {b \in Accounts : Due(b)}}
    /\ history' = [history EXCEPT !.sweeps = @ + 1]
    /\ UNCHANGED <<account, worker, connecting, platform>>

SweepNext ==
    /\ \E s \in sweep : /\ Begin(Sweeper, s.account, s.seen)
                        /\ sweep' = sweep \ {s}
    /\ UNCHANGED <<account, connecting, platform, history>>

-----------------------------------------------------------------------------
(* refreshAccount. *)

\* The token is decrypted before the try block.
DecryptFails(w) ==
    /\ worker[w].at = "refresh"
    /\ Fault("undecryptable")
    /\ End(w)
    /\ UNCHANGED <<account, sweep, connecting, platform>>

\* The platform honours a token it accepts, and issues the next one; the old
\* one of a rotating platform is spent by that.
Issue(a, old) ==
    LET new == platform[a].issued + 1
        kept == IF a \in Rotating THEN platform[a].valid \ {old} ELSE platform[a].valid
    IN platform' = [platform EXCEPT ![a] = [valid |-> kept \cup {new}, issued |-> new]]

\* adapter.refresh.
CallRefresh(w) ==
    LET a == worker[w].account
        token == worker[w].seen.token
        Throws(error) == worker' = [worker EXCEPT ![w].at = error]
    IN
    /\ worker[w].at = "refresh"
    /\ \/ /\ token \in platform[a].valid
          /\ Issue(a, token)
          /\ worker' = [worker EXCEPT ![w].at = "store", ![w].got = platform[a].issued + 1]
          /\ UNCHANGED history
       \/ token \notin platform[a].valid /\ Throws("invalid") /\ UNCHANGED <<platform, history>>
       \/ Fault("transient") /\ Throws("transient") /\ UNCHANGED platform
       \/ /\ token \in platform[a].valid
          /\ Fault("lost")
          /\ Issue(a, token)
          /\ Throws("transient")
    /\ UNCHANGED <<account, sweep, connecting>>

\* where: { id: account.id }, the row the worker read.
RowIsThere(w) == LET a == worker[w].account IN Exists(a) /\ account[a].id = worker[w].seen.id

\* Mutants: the refresh token the row had is kept; an upsert for an update.
StoreKeepsToken(w) ==
    /\ worker[w].at = "store"
    /\ RowIsThere(w)
    /\ account' = [account EXCEPT ![worker[w].account].status = "connected",
                                  ![worker[w].account].expiry =
                                      NewExpiry(worker[w].account)]
    /\ End(w)
    /\ UNCHANGED <<sweep, connecting, platform, history>>

StoreUpserts(w) ==
    /\ worker[w].at = "store"
    /\ account' = [account EXCEPT ![worker[w].account] =
                      [status |-> "connected", id |-> worker[w].seen.id,
                       token |-> worker[w].got, expiry |-> NewExpiry(worker[w].account)]]
    /\ End(w)
    /\ UNCHANGED <<sweep, connecting, platform, history>>

\* The update on success; an answer without an expiry, which Facebook's adapter
\* alone expects, leaves the one that was read.  A row that is gone makes the
\* update throw inside the try block, as a failing database does, and the catch
\* block takes that for a failed refresh.
Store(w) ==
    LET Write(expiry) ==
            /\ RowIsThere(w)
            /\ account' = [account EXCEPT ![worker[w].account] =
                              [status |-> "connected", id |-> @.id,
                               token |-> worker[w].got, expiry |-> expiry]]
            /\ End(w)
    IN
    /\ worker[w].at = "store"
    /\ \/ Write(NewExpiry(worker[w].account)) /\ UNCHANGED history
       \/ /\ worker[w].account \notin Rotating
          /\ Fault("no_expiry")
          /\ Write(worker[w].seen.expiry)
       \/ /\ \/ ~RowIsThere(w) /\ UNCHANGED history
             \/ Fault("database")
          /\ worker' = [worker EXCEPT ![w].at = "transient"]
          /\ UNCHANGED account
    /\ UNCHANGED <<sweep, connecting, platform>>

\* statusForFailure; the expiry read may have passed by the time it is asked.
StatusForFailure(w) ==
    IF worker[w].at = "invalid" THEN {"revoked"}
    ELSE [far |-> {"error"}, due |-> {"error", "expired"}, past |-> {"expired"}]
            [worker[w].seen.expiry]

\* The refresh ends before its last update, by fault f.
Abandon(f) ==
    /\ f \in Faults
    /\ history.faults < MaxFaults
    /\ history' = [history EXCEPT !.faults = @ + 1, !.abandoned = TRUE]

\* The catch block; its update throws too when the row is gone, or the
\* database fails.
Mark(w) ==
    /\ worker[w].at \in {"invalid", "transient"}
    /\ \/ /\ RowIsThere(w)
          /\ \E status \in StatusForFailure(w) :
                account' = [account EXCEPT ![worker[w].account].status = status]
          /\ UNCHANGED history
       \/ ~RowIsThere(w) /\ UNCHANGED <<account, history>>
       \/ Abandon("database") /\ UNCHANGED account
    /\ End(w)
    /\ UNCHANGED <<sweep, connecting, platform>>

\* The process dies: a sweep loses the rest of its list, and the next one
\* starts over.
WorkerDies(w) ==
    /\ worker[w].at # "idle"
    /\ Abandon("crash")
    /\ End(w)
    /\ sweep' = IF w = Sweeper THEN {} ELSE sweep
    /\ UNCHANGED <<account, connecting, platform>>

-----------------------------------------------------------------------------

RefreshAccount(w) == CallRefresh(w) \/ Store(w) \/ Mark(w)

Next ==
    \/ \E a \in Accounts :
        \/ ConnectExchange(a) \/ UpsertAccount(a) \/ Disconnect(a)
        \/ PurgePlatformUser(a) \/ AdminDisconnect(a)
        \/ TokenAges(a) \/ TokenExpires(a)
        \/ \E w \in Workers : EnsureFreshAccessToken(w, a) \/ AdminRefresh(w, a)
    \/ SweepFind \/ SweepNext
    \/ \E w \in Workers : RefreshAccount(w) \/ DecryptFails(w) \/ WorkerDies(w)

Spec == Init /\ [][Next]_vars

\* The sweep runs every six hours; callbacks and refreshes that began go on.
Fairness ==
    /\ WF_vars(SweepFind) /\ WF_vars(SweepNext)
    /\ \A a \in Accounts : WF_vars(UpsertAccount(a))
    /\ \A w \in Workers : WF_vars(RefreshAccount(w))

FairSpec == Spec /\ Fairness

-----------------------------------------------------------------------------
(* Properties. *)

TypeOK ==
    /\ account \in [Accounts -> Row]
    /\ worker \in [Workers -> Worker]
    /\ sweep \subseteq [account : Accounts, seen : Copy]
    /\ connecting \in [Accounts -> Nat]
    /\ platform \in [Accounts -> Platform]
    /\ history \in History

\* The row of a connected account holds a token the platform accepts, unless
\* it is one that expired, or the worker that spent it is about to store its
\* successor or to mark the row.  However many workers refresh the same account
\* while its owner disconnects, reconnects and deletes it, no late write leaves
\* behind a token that is spent.  A refresh that is abandoned does, as its
\* process dies or the database refuses to mark the row: the successor is lost.
TokensUsable ==
    \A a \in Accounts : account[a].status = "connected" =>
        \/ account[a].token \in platform[a].valid
        \/ a \notin Rotating /\ account[a].expiry = "past"
        \/ \E w \in Workers : /\ worker[w].at \in {"store", "transient"}
                              /\ worker[w].account = a
                              /\ worker[w].seen.token = account[a].token

ConnectedTokenUsable == history.abandoned \/ TokensUsable

\* An account purged at Meta's request stays away until it is connected again,
\* if the database let it go: no refresh that was under way writes it back.
PurgedIsGone == \A a \in history.purged \ Posted : ~Exists(a)

\* A new token has come for the row and is about to be stored.
Renewing(a) ==
    \E w \in Workers : /\ worker[w].at = "store" /\ worker[w].account = a
                      /\ worker[w].seen.id = account[a].id

\* The next sweep sees to every connected account that is within 24 hours of its
\* expiry: the platform gives a new token for it, or it is marked or gone.  A
\* fault costs one sweep more, as the list is lost with a process.  An X account
\* stays within 24 hours whatever is stored: of it only the renewal is claimed.
EventuallyFresh ==
    \A a \in Accounts :
        (Due(a) /\ history.sweeps + (MaxFaults - history.faults) < MaxSweeps)
            ~> (~Due(a) \/ Renewing(a))

=============================================================================
