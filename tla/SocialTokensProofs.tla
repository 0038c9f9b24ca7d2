------------------------- MODULE SocialTokensProofs -------------------------
(***************************************************************************)
(* For any number of accounts, refreshing workers, refreshes and reconnects: *)
(* the types of SocialTokens, and that concurrent refreshes of a rotating  *)
(* token leave a usable one behind as long as none is abandoned.           *)
(***************************************************************************)
EXTENDS SocialTokens, TLAPS

-----------------------------------------------------------------------------
(* Types. *)

\* What a worker may be set to, and what CopyOf and StatusForFailure return.
LEMMA HelperTypes ==
    ASSUME TypeOK
    PROVE  /\ NoRow \in Row /\ Idle \in Worker
           /\ \A a \in Accounts : CopyOf(a) \in Copy
           /\ \A w \in Workers : StatusForFailure(w) \subseteq Status
<1>1. NoRow \in Row /\ Idle \in Worker
  BY DEF NoRow, Row, Status, Expiry, Idle, NoCopy, Copy, Worker, At, NoToken
<1>2. ASSUME NEW a \in Accounts PROVE CopyOf(a) \in Copy
  BY <1>2 DEF TypeOK, Row, Copy, CopyOf
<1>3. ASSUME NEW w \in Workers PROVE StatusForFailure(w) \subseteq Status
  <2>1. worker[w].seen.expiry \in {"far", "due", "past"}
    BY DEF TypeOK, Worker, Idle, NoCopy, Copy, Expiry
  <2>. QED  BY <2>1 DEF StatusForFailure, Status
<1>. QED  BY <1>1, <1>2, <1>3

LEMMA EndType ==
    ASSUME TypeOK, NEW w \in Workers, End(w)
    PROVE  worker' \in [Workers -> Worker]
  BY HelperTypes DEF TypeOK, End

LEMMA BeginType ==
    ASSUME TypeOK, NEW w \in Workers, NEW a \in Accounts, NEW seen \in Copy, Begin(w, a, seen)
    PROVE  worker' \in [Workers -> Worker]
  BY DEF TypeOK, Begin, Worker, At, NoToken

LEMMA FaultType ==
    ASSUME TypeOK, NEW f, Fault(f)
    PROVE  history' \in History
  BY ConstantsAssumption DEF TypeOK, Fault, History

LEMMA AbandonType ==
    ASSUME TypeOK, NEW f, Abandon(f)
    PROVE  history' \in History /\ history'.abandoned
<1>1. history.faults + 1 \in 0 .. MaxFaults
  BY ConstantsAssumption DEF TypeOK, Abandon, History
<1>. QED  BY <1>1 DEF TypeOK, Abandon, History

LEMMA NewExpiryType == \A a \in Accounts : NewExpiry(a) \in Expiry
  BY DEF NewExpiry, Expiry

LEMMA IssueType ==
    ASSUME TypeOK, NEW a \in Accounts, NEW old, Issue(a, old)
    PROVE  platform' \in [Accounts -> Platform]
  BY DEF TypeOK, Issue, Platform

\* Each action keeps the types.
LEMMA MemberTypes ==
    ASSUME TypeOK, NEW a \in Accounts,
           \/ ConnectExchange(a) \/ UpsertAccount(a) \/ Disconnect(a)
           \/ PurgePlatformUser(a) \/ AdminDisconnect(a)
           \/ TokenAges(a) \/ TokenExpires(a)
    PROVE  TypeOK'
<1>. USE ConstantsAssumption, HelperTypes DEF TypeOK
<1>1. CASE ConnectExchange(a)
  BY <1>1 DEF ConnectExchange, History, Platform
<1>2. CASE UpsertAccount(a)
  <2>1. account' \in [Accounts -> Row]
    BY <1>2, NewExpiryType DEF UpsertAccount, Row, Status
  <2>. QED  BY <1>2, <2>1 DEF UpsertAccount, History, NoToken
<1>3. CASE Disconnect(a)
  <2>1. account' \in [Accounts -> Row]
    BY <1>3 DEF Disconnect, Row, Status, NoToken
  <2>. QED  BY <1>3, <2>1 DEF Disconnect, History
<1>4. CASE PurgePlatformUser(a)
  BY <1>4 DEF PurgePlatformUser, History
<1>5. CASE AdminDisconnect(a)
  BY <1>5 DEF AdminDisconnect
<1>6. CASE TokenAges(a)
  <2>1. account' \in [Accounts -> Row]
    BY <1>6 DEF TokenAges, Row, Expiry
  <2>. QED  BY <1>6, <2>1 DEF TokenAges, History
<1>7. CASE TokenExpires(a)
  <2>1. account' \in [Accounts -> Row]
    BY <1>7 DEF TokenExpires, Row, Expiry
  <2>2. platform' \in [Accounts -> Platform]
    BY <1>7 DEF TokenExpires, Platform
  <2>. QED  BY <1>7, <2>1, <2>2 DEF TokenExpires
<1>. QED  BY <1>1, <1>2, <1>3, <1>4, <1>5, <1>6, <1>7

LEMMA StartTypes ==
    ASSUME TypeOK,
           \/ \E w \in Workers, a \in Accounts :
                 EnsureFreshAccessToken(w, a) \/ AdminRefresh(w, a)
           \/ SweepFind
           \/ SweepNext
    PROVE  TypeOK'
<1>. USE ConstantsAssumption, HelperTypes DEF TypeOK
<1>1. ASSUME NEW w \in Workers, NEW a \in Accounts,
             EnsureFreshAccessToken(w, a) \/ AdminRefresh(w, a)
      PROVE  TypeOK'
  <2>1. worker' \in [Workers -> Worker]
    BY <1>1, BeginType DEF EnsureFreshAccessToken, AdminRefresh
  <2>2. history' \in History
    BY <1>1 DEF EnsureFreshAccessToken, AdminRefresh, History
  <2>. QED  BY <1>1, <2>1, <2>2 DEF EnsureFreshAccessToken, AdminRefresh
<1>2. CASE SweepFind
  <2>1. history' \in History
    BY <1>2 DEF SweepFind, History
  <2>. QED  BY <1>2, <2>1 DEF SweepFind
<1>3. CASE SweepNext
  <2>1. worker' \in [Workers -> Worker]
    BY <1>3, BeginType DEF SweepNext
  <2>. QED  BY <1>3, <2>1 DEF SweepNext
<1>. QED  BY <1>1, <1>2, <1>3

\* A worker that is not idle works on an account.
LEMMA BusyWorker ==
    ASSUME TypeOK, NEW w \in Workers, worker[w].at # "idle"
    PROVE  /\ worker[w] \in [at : At, account : Accounts, seen : Copy, got : Nat]
           /\ worker[w].account \in Accounts
  BY DEF TypeOK, Worker, Idle

LEMMA RefreshTypes ==
    ASSUME TypeOK, NEW w \in Workers,
           CallRefresh(w) \/ Store(w) \/ Mark(w) \/ DecryptFails(w) \/ WorkerDies(w)
    PROVE  TypeOK'
<1>. DEFINE a == worker[w].account
<1>0. worker[w].at # "idle" /\ a \in Accounts /\ worker[w].got \in Nat
  BY BusyWorker DEF CallRefresh, Store, Mark, DecryptFails, WorkerDies
<1>t. ASSUME NEW error \in {"invalid", "transient"}, worker' = [worker EXCEPT ![w].at = error]
      PROVE  worker' \in [Workers -> Worker]
  BY <1>0, <1>t, BusyWorker DEF TypeOK, Worker, At
<1>1. CASE CallRefresh(w)
  <2>1. ASSUME worker' = [worker EXCEPT ![w].at = "store", ![w].got = platform[a].issued + 1]
        PROVE  worker' \in [Workers -> Worker]
    <3>1. platform[a].issued + 1 \in Nat
      BY <1>0 DEF TypeOK, Platform
    <3>. QED  BY <1>0, <2>1, <3>1, BusyWorker DEF TypeOK, Worker, At
  <2>2. worker' \in [Workers -> Worker]
    BY <1>1, <1>t, <2>1 DEF CallRefresh
  <2>3. platform' \in [Accounts -> Platform]
    BY <1>0, <1>1, IssueType DEF CallRefresh, TypeOK
  <2>4. history' \in History
    BY <1>1, FaultType DEF CallRefresh, TypeOK
  <2>. QED  BY <1>1, <2>2, <2>3, <2>4 DEF CallRefresh, TypeOK
<1>2. CASE Store(w)
  <2>1. worker' \in [Workers -> Worker]
    BY <1>2, <1>t, EndType DEF Store
  <2>2. history' \in History
    BY <1>2, FaultType DEF Store, TypeOK
  <2>3. account' \in [Accounts -> Row]
    <3>1. worker[w].seen.expiry \in Expiry
      BY <1>0, BusyWorker DEF Copy
    <3>2. account[a].id \in Nat
      BY <1>0 DEF TypeOK, Row
    <3>3. \A e \in Expiry : [status |-> "connected", id |-> account[a].id,
                             token |-> worker[w].got, expiry |-> e] \in Row
      BY <1>0, <3>2 DEF Row, Status
    <3>4. NewExpiry(a) \in Expiry
      BY <1>0, NewExpiryType
    <3>. QED  BY <1>0, <1>2, <3>1, <3>3, <3>4 DEF Store, TypeOK
  <2>. QED  BY <1>2, <2>1, <2>2, <2>3 DEF Store, TypeOK
<1>3. CASE Mark(w)
  <2>1. account' \in [Accounts -> Row]
    <3>1. ASSUME NEW status \in Status, account' = [account EXCEPT ![a].status = status]
          PROVE  account' \in [Accounts -> Row]
      BY <1>0, <3>1 DEF TypeOK, Row
    <3>. QED  BY <1>3, <3>1, HelperTypes DEF Mark, TypeOK
  <2>2. history' \in History
    BY <1>3, AbandonType DEF Mark, TypeOK
  <2>. QED  BY <1>3, <2>1, <2>2, EndType DEF Mark, TypeOK
<1>4. CASE DecryptFails(w)
  BY <1>4, EndType, FaultType DEF DecryptFails, TypeOK
<1>5. CASE WorkerDies(w)
  <2>1. history' \in History
    BY <1>5, AbandonType DEF WorkerDies, TypeOK
  <2>. QED  BY <1>5, <2>1, EndType DEF WorkerDies, TypeOK
<1>. QED  BY <1>1, <1>2, <1>3, <1>4, <1>5

LEMMA InitTypes == Init => TypeOK
  BY HelperTypes, ConstantsAssumption
  DEF Init, TypeOK, NoRow, Row, Status, Expiry, Worker, Platform, History, NoToken

LEMMA NextTypes == TypeOK /\ [Next]_vars => TypeOK'
<1>. SUFFICES ASSUME TypeOK, [Next]_vars PROVE TypeOK'
  OBVIOUS
<1>1. CASE Next
  BY <1>1, MemberTypes, StartTypes, RefreshTypes DEF Next, RefreshAccount
<1>2. CASE UNCHANGED vars
  BY <1>2 DEF vars, TypeOK
<1>. QED  BY <1>1, <1>2

\* The rows, the copies of them and the tokens are always of their types: in
\* particular a row's status is one the schema's enum has.
THEOREM TypeCorrect == Spec => []TypeOK
<1>. QED  BY InitTypes, NextTypes, PTL DEF Spec

-----------------------------------------------------------------------------
(* TokensUsable, strengthened until every step preserves it. *)

\* The platform accepts t, and no row or copy of a row holds it.
Fresh(a, t) ==
    /\ t \in platform[a].valid
    /\ t # account[a].token
    /\ \A w \in Workers : worker[w].account = a => worker[w].seen.token # t
    /\ \A s \in sweep : s.account = a => s.seen.token # t

\* Only tokens that were issued are anywhere, and so the next one is new.
Issued ==
    \A a \in Accounts :
        /\ platform[a].valid \subseteq 1 .. platform[a].issued
        /\ account[a].token <= platform[a].issued
        /\ \A w \in Workers : worker[w].account = a => worker[w].seen.token <= platform[a].issued
        /\ \A s \in sweep : s.account = a => s.seen.token <= platform[a].issued

\* A token on its way into a row is nowhere else.
ConnectingFresh ==
    \A a \in Accounts : connecting[a] # NoToken => Fresh(a, connecting[a])

GotFresh ==
    \A w \in Workers : worker[w].at = "store" =>
        /\ Fresh(worker[w].account, worker[w].got)
        /\ worker[w].got # connecting[worker[w].account]
        /\ \A v \in Workers \ {w} :
              worker[v].at = "store" /\ worker[v].account = worker[w].account
                  => worker[v].got # worker[w].got

\* A copy that has the row's token is a copy of that row.
CopyOfSameRow ==
    \A a \in Accounts : account[a].token # NoToken =>
        /\ \A w \in Workers :
              worker[w].account = a /\ worker[w].seen.token = account[a].token
                  => worker[w].seen.id = account[a].id
        /\ \A s \in sweep :
              s.account = a /\ s.seen.token = account[a].token => s.seen.id = account[a].id

ConnectedHasToken ==
    \A a \in Accounts : account[a].status = "connected" => account[a].token # NoToken

TokenInv ==
    /\ TypeOK
    /\ Issued
    /\ ConnectingFresh
    /\ GotFresh
    /\ CopyOfSameRow
    /\ ConnectedHasToken
    /\ TokensUsable

\* Tokens are numbers wherever a copy of a row is kept.
LEMMA CopiedTokens ==
    ASSUME TypeOK
    PROVE  /\ \A w \in Workers : worker[w].seen \in Copy /\ worker[w].seen.token \in Nat
           /\ \A s \in sweep : s.account \in Accounts /\ s.seen.token \in Nat
  BY DEF TypeOK, Worker, Idle, NoCopy, NoToken, Copy, Expiry

\* Members, Meta and time: no worker is involved.
LEMMA MemberTokens ==
    ASSUME TokenInv, NEW a \in Accounts,
           \/ ConnectExchange(a) \/ UpsertAccount(a) \/ Disconnect(a)
           \/ PurgePlatformUser(a) \/ AdminDisconnect(a)
           \/ TokenAges(a) \/ TokenExpires(a)
    PROVE  TokenInv'
<1>0. \A w \in Workers : worker[w].at = "store" => worker[w].account \in Accounts
  BY BusyWorker DEF TokenInv
<1>1. CASE ConnectExchange(a)
  <2>0. /\ \A b \in Accounts : /\ platform[b].valid \subseteq platform'[b].valid
                               /\ platform[b].issued <= platform'[b].issued
                               /\ connecting[b] # connecting'[b] => b = a
        /\ platform'[a].valid = platform[a].valid \cup {platform[a].issued + 1}
        /\ platform'[a].issued = platform[a].issued + 1
        /\ connecting'[a] = platform[a].issued + 1
        /\ \A b \in Accounts \ {a} : platform'[b] = platform[b]
    BY <1>1 DEF TokenInv, TypeOK, Platform, ConnectExchange
  <2>1. Issued'
    BY <1>1, <2>0, CopiedTokens DEF TokenInv, TypeOK, ConnectExchange, Row,
       Issued, Platform
  <2>2. ConnectingFresh'
    BY <1>1, <2>0 DEF TokenInv, TypeOK, ConnectExchange, Row, ConnectingFresh,
       Fresh, NoToken, Issued, Platform
  <2>3. GotFresh'
    BY <1>1, <2>0, <1>0 DEF TokenInv, TypeOK, ConnectExchange, Row, GotFresh,
       Fresh, NoToken, Issued, Platform, Worker
  <2>4. CopyOfSameRow'
    BY <1>1, <2>0 DEF TokenInv, TypeOK, ConnectExchange, Row, CopyOfSameRow,
       NoToken
  <2>5. ConnectedHasToken'
    BY <1>1, <2>0 DEF TokenInv, TypeOK, ConnectExchange, Row, ConnectedHasToken
  <2>6. TokensUsable'
    BY <1>1, <2>0 DEF TokenInv, TypeOK, ConnectExchange, Row,
       TokensUsable, Platform
  <2>. QED  BY <1>1, <2>1, <2>2, <2>3, <2>4, <2>5, <2>6, MemberTypes DEF TokenInv
<1>2. CASE UpsertAccount(a)
  <2>1. Issued'
    BY <1>2 DEF TokenInv, TypeOK, UpsertAccount, Row, Issued, Platform,
       ConnectingFresh, Fresh, NoToken
  <2>2. ConnectingFresh'
    BY <1>2 DEF TokenInv, TypeOK, UpsertAccount, Row, ConnectingFresh, Fresh,
       NoToken
  <2>3. GotFresh'
    BY <1>2, <1>0 DEF TokenInv, TypeOK, UpsertAccount, Row, GotFresh, Fresh,
       NoToken, Issued, Platform
  <2>4. CopyOfSameRow'
    BY <1>2 DEF TokenInv, TypeOK, UpsertAccount, Row, CopyOfSameRow, NoToken,
       ConnectingFresh, Fresh
  <2>5. ConnectedHasToken'
    BY <1>2 DEF TokenInv, TypeOK, UpsertAccount, Row, ConnectedHasToken
  <2>6. TokensUsable'
    BY <1>2 DEF TokenInv, TypeOK, UpsertAccount, Row, TokensUsable,
       ConnectingFresh, Fresh, NoToken
  <2>. QED  BY <1>2, <2>1, <2>2, <2>3, <2>4, <2>5, <2>6, MemberTypes DEF TokenInv
<1>3. CASE Disconnect(a)
  <2>0. \A b \in Accounts : account'[b].token \in {account[b].token, NoToken}
    BY <1>3 DEF TokenInv, TypeOK, Row, Disconnect
  <2>1. Issued'
    BY <1>3, <2>0 DEF TokenInv, TypeOK, Disconnect, Row, NoToken, Issued,
       Platform
  <2>2. ConnectingFresh'
    BY <1>3, <2>0 DEF TokenInv, TypeOK, Disconnect, Row, NoToken, Issued,
       Platform, ConnectingFresh, Fresh
  <2>3. GotFresh'
    BY <1>3, <2>0, <1>0 DEF TokenInv, TypeOK, Disconnect, Row, NoToken, Issued,
       Platform, GotFresh, Fresh
  <2>4. CopyOfSameRow'
    BY <1>3, <2>0 DEF TokenInv, TypeOK, Disconnect, Row, NoToken, Issued,
       Platform, CopyOfSameRow
  <2>5. ConnectedHasToken'
    BY <1>3, <2>0 DEF TokenInv, TypeOK, Disconnect, Row, NoToken, Issued,
       Platform, ConnectedHasToken
  <2>6. TokensUsable'
    BY <1>3, <2>0 DEF TokenInv, TypeOK, Disconnect, Row, NoToken, Issued,
       Platform, TokensUsable
  <2>. QED  BY <1>3, <2>1, <2>2, <2>3, <2>4, <2>5, <2>6, MemberTypes DEF TokenInv
<1>4. CASE PurgePlatformUser(a)
  <2>1. Issued'
    BY <1>4 DEF TokenInv, TypeOK, PurgePlatformUser, Row, NoRow, NoToken,
       Issued, Platform
  <2>2. ConnectingFresh'
    BY <1>4 DEF TokenInv, TypeOK, PurgePlatformUser, Row, NoRow, NoToken,
       Issued, Platform, ConnectingFresh, Fresh
  <2>3. GotFresh'
    BY <1>4, <1>0 DEF TokenInv, TypeOK, PurgePlatformUser, Row, NoRow, NoToken,
       Issued, Platform, GotFresh, Fresh
  <2>4. CopyOfSameRow'
    BY <1>4 DEF TokenInv, TypeOK, PurgePlatformUser, Row, NoRow, NoToken,
       Issued, Platform, CopyOfSameRow
  <2>5. ConnectedHasToken'
    BY <1>4 DEF TokenInv, TypeOK, PurgePlatformUser, Row, NoRow, NoToken,
       Issued, Platform, ConnectedHasToken
  <2>6. TokensUsable'
    BY <1>4 DEF TokenInv, TypeOK, PurgePlatformUser, Row, NoRow, NoToken,
       Issued, Platform, TokensUsable
  <2>. QED  BY <1>4, <2>1, <2>2, <2>3, <2>4, <2>5, <2>6, MemberTypes DEF TokenInv
<1>5. CASE AdminDisconnect(a)
  <2>1. Issued'
    BY <1>5 DEF TokenInv, TypeOK, AdminDisconnect, Row, NoRow, NoToken, Issued,
       Platform
  <2>2. ConnectingFresh'
    BY <1>5 DEF TokenInv, TypeOK, AdminDisconnect, Row, NoRow, NoToken, Issued,
       Platform, ConnectingFresh, Fresh
  <2>3. GotFresh'
    BY <1>5, <1>0 DEF TokenInv, TypeOK, AdminDisconnect, Row, NoRow, NoToken,
       Issued, Platform, GotFresh, Fresh
  <2>4. CopyOfSameRow'
    BY <1>5 DEF TokenInv, TypeOK, AdminDisconnect, Row, NoRow, NoToken, Issued,
       Platform, CopyOfSameRow
  <2>5. ConnectedHasToken'
    BY <1>5 DEF TokenInv, TypeOK, AdminDisconnect, Row, NoRow, NoToken, Issued,
       Platform, ConnectedHasToken
  <2>6. TokensUsable'
    BY <1>5 DEF TokenInv, TypeOK, AdminDisconnect, Row, NoRow, NoToken, Issued,
       Platform, TokensUsable
  <2>. QED  BY <1>5, <2>1, <2>2, <2>3, <2>4, <2>5, <2>6, MemberTypes DEF TokenInv
<1>6. CASE TokenAges(a)
  <2>1. Issued'
    BY <1>6 DEF TokenInv, TypeOK, TokenAges, Row, Issued, Platform
  <2>2. ConnectingFresh'
    BY <1>6 DEF TokenInv, TypeOK, TokenAges, Row, ConnectingFresh, Fresh,
       NoToken
  <2>3. GotFresh'
    BY <1>6, <1>0 DEF TokenInv, TypeOK, TokenAges, Row, GotFresh, Fresh, NoToken
  <2>4. CopyOfSameRow'
    BY <1>6 DEF TokenInv, TypeOK, TokenAges, Row, CopyOfSameRow, NoToken
  <2>5. ConnectedHasToken'
    BY <1>6 DEF TokenInv, TypeOK, TokenAges, Row, ConnectedHasToken
  <2>6. TokensUsable'
    BY <1>6 DEF TokenInv, TypeOK, TokenAges, Row, TokensUsable
  <2>. QED  BY <1>6, <2>1, <2>2, <2>3, <2>4, <2>5, <2>6, MemberTypes DEF TokenInv
<1>7. CASE TokenExpires(a)
  <2>1. Issued'
    BY <1>7 DEF TokenInv, TypeOK, TokenExpires, Row, NoToken, Issued, Platform
  <2>2. ConnectingFresh'
    BY <1>7 DEF TokenInv, TypeOK, TokenExpires, Row, NoToken, Issued, Platform,
       ConnectingFresh, Fresh
  <2>3. GotFresh'
    BY <1>7, <1>0 DEF TokenInv, TypeOK, TokenExpires, Row, NoToken, Issued,
       Platform, GotFresh, Fresh
  <2>4. CopyOfSameRow'
    BY <1>7 DEF TokenInv, TypeOK, TokenExpires, Row, NoToken, Issued, Platform,
       CopyOfSameRow
  <2>5. ConnectedHasToken'
    BY <1>7 DEF TokenInv, TypeOK, TokenExpires, Row, NoToken, Issued, Platform,
       ConnectedHasToken
  <2>6. TokensUsable'
    BY <1>7 DEF TokenInv, TypeOK, TokenExpires, Row, NoToken, Issued, Platform,
       TokensUsable
  <2>. QED  BY <1>7, <2>1, <2>2, <2>3, <2>4, <2>5, <2>6, MemberTypes DEF TokenInv
<1>. QED  BY <1>1, <1>2, <1>3, <1>4, <1>5, <1>6, <1>7

\* A worker begins with a copy of a row whose token no other worker is about
\* to store.
LEMMA BeginTokens ==
    ASSUME TokenInv, TypeOK', NEW w \in Workers, NEW a \in Accounts, NEW seen \in Copy,
           Begin(w, a, seen),
           seen.token <= platform[a].issued,
           connecting[a] # NoToken => seen.token # connecting[a],
           \A v \in Workers : worker[v].at = "store" /\ worker[v].account = a
                                  => seen.token # worker[v].got,
           account[a].token # NoToken /\ seen.token = account[a].token
                                  => seen.id = account[a].id,
           sweep' \subseteq sweep,
           UNCHANGED <<account, connecting, platform>>
    PROVE  TokenInv'
<1>1. /\ \A v \in Workers : worker'[v].at = "store" => v # w /\ worker'[v] = worker[v]
      /\ \A v \in Workers : v # w => worker'[v] = worker[v]
      /\ worker'[w].account = a /\ worker'[w].seen = seen
      /\ worker[w].at = "idle"
  BY DEF TokenInv, TypeOK, Begin
<1>2. Issued'
  BY <1>1 DEF TokenInv, Issued
<1>3. ConnectingFresh'
  BY <1>1 DEF TokenInv, ConnectingFresh, Fresh
<1>4. GotFresh'
  BY <1>1 DEF TokenInv, GotFresh, Fresh
<1>5. CopyOfSameRow'
  BY <1>1 DEF TokenInv, CopyOfSameRow
<1>6. ConnectedHasToken'
  BY DEF TokenInv, ConnectedHasToken
<1>7. TokensUsable'
  BY <1>1 DEF TokenInv, TokensUsable
<1>. QED  BY <1>2, <1>3, <1>4, <1>5, <1>6, <1>7 DEF TokenInv

LEMMA StartTokens ==
    ASSUME TokenInv,
           \/ \E w \in Workers, a \in Accounts :
                 EnsureFreshAccessToken(w, a) \/ AdminRefresh(w, a)
           \/ SweepFind
           \/ SweepNext
    PROVE  TokenInv'
<1>0. TypeOK'
  BY StartTypes DEF TokenInv
<1>1. ASSUME NEW w \in Workers, NEW a \in Accounts,
             EnsureFreshAccessToken(w, a) \/ AdminRefresh(w, a)
      PROVE  TokenInv'
  <2>1. /\ Begin(w, a, CopyOf(a))
        /\ UNCHANGED <<account, connecting, platform, sweep>>
    BY <1>1 DEF EnsureFreshAccessToken, AdminRefresh
  <2>2. CopyOf(a) \in Copy /\ CopyOf(a).token = account[a].token /\ CopyOf(a).id = account[a].id
    BY HelperTypes DEF TokenInv, CopyOf
  <2>3. account[a].token <= platform[a].issued
    BY DEF TokenInv, Issued
  <2>4. connecting[a] # NoToken => account[a].token # connecting[a]
    BY DEF TokenInv, ConnectingFresh, Fresh
  <2>5. \A v \in Workers : worker[v].at = "store" /\ worker[v].account = a
                              => account[a].token # worker[v].got
    BY DEF TokenInv, GotFresh, Fresh
  <2>. QED  BY <1>0, <2>1, <2>2, <2>3, <2>4, <2>5, BeginTokens
<1>2. CASE SweepFind
  <2>1. \A s \in sweep' : s.account \in Accounts /\ s.seen = CopyOf(s.account)
    BY <1>2 DEF SweepFind
  <2>2. \A s \in sweep' : /\ s.seen.token = account[s.account].token
                          /\ s.seen.id = account[s.account].id
    <3>1. \A a \in Accounts : CopyOf(a).token = account[a].token /\ CopyOf(a).id = account[a].id
      BY DEF CopyOf
    <3>. QED  BY <2>1, <3>1
  <2>3. UNCHANGED <<account, worker, connecting, platform>>
    BY <1>2 DEF SweepFind
  <2>4. Issued'
    BY <2>1, <2>2, <2>3 DEF TokenInv, Issued
  <2>5. ConnectingFresh'
    BY <2>1, <2>2, <2>3 DEF TokenInv, ConnectingFresh, Fresh
  <2>6. GotFresh'
    BY <2>1, <2>2, <2>3 DEF TokenInv, GotFresh, Fresh
  <2>7. CopyOfSameRow'
    BY <2>1, <2>2, <2>3 DEF TokenInv, CopyOfSameRow
  <2>8. ConnectedHasToken' /\ TokensUsable'
    BY <2>3 DEF TokenInv, ConnectedHasToken, TokensUsable
  <2>. QED  BY <1>0, <2>4, <2>5, <2>6, <2>7, <2>8 DEF TokenInv
<1>3. CASE SweepNext
  <2>1. PICK s \in sweep : Begin(Sweeper, s.account, s.seen) /\ sweep' = sweep \ {s}
    BY <1>3 DEF SweepNext
  <2>2. UNCHANGED <<account, connecting, platform>>
    BY <1>3 DEF SweepNext
  <2>3. s.account \in Accounts /\ s.seen \in Copy /\ Sweeper \in Workers
    BY ConstantsAssumption DEF TokenInv, TypeOK
  <2>4. s.seen.token <= platform[s.account].issued
    BY <2>3 DEF TokenInv, Issued
  <2>5. connecting[s.account] # NoToken => s.seen.token # connecting[s.account]
    BY <2>3 DEF TokenInv, ConnectingFresh, Fresh
  <2>6. \A v \in Workers : worker[v].at = "store" /\ worker[v].account = s.account
                              => s.seen.token # worker[v].got
    BY <2>3 DEF TokenInv, GotFresh, Fresh
  <2>7. account[s.account].token # NoToken /\ s.seen.token = account[s.account].token
            => s.seen.id = account[s.account].id
    BY <2>3 DEF TokenInv, CopyOfSameRow
  <2>. QED  BY <1>0, <2>1, <2>2, <2>3, <2>4, <2>5, <2>6, <2>7, BeginTokens
<1>. QED  BY <1>1, <1>2, <1>3

\* A worker ends without having touched the platform or a row's token.
LEMMA EndTokens ==
    ASSUME TokenInv, TypeOK', NEW w \in Workers, End(w),
           worker[w].at \in {"store", "transient"} =>
               \A a \in Accounts : worker[w].account = a /\ account'[a].status = "connected"
                                       => worker[w].seen.token # account[a].token,
           \A a \in Accounts : /\ account'[a].token = account[a].token
                               /\ account'[a].id = account[a].id
                               /\ account'[a].expiry = account[a].expiry
                               /\ account'[a].status = "connected"
                                    => account[a].status = "connected",
           UNCHANGED <<sweep, connecting, platform>>
    PROVE  TokenInv'
<1>1. /\ worker'[w] = Idle
      /\ \A v \in Workers : v # w => worker'[v] = worker[v]
      /\ \A v \in Workers : worker[v].at = "store" => worker[v].account \in Accounts
      /\ Idle.account \notin Accounts /\ Idle.at = "idle"
  BY BusyWorker, ConstantsAssumption DEF TokenInv, TypeOK, End, Idle
<1>2. Issued'
  BY <1>1 DEF TokenInv, Issued
<1>3. ConnectingFresh'
  BY <1>1 DEF TokenInv, ConnectingFresh, Fresh
<1>4. GotFresh'
  BY <1>1 DEF TokenInv, GotFresh, Fresh
<1>5. CopyOfSameRow'
  BY <1>1 DEF TokenInv, CopyOfSameRow
<1>6. ConnectedHasToken'
  BY DEF TokenInv, ConnectedHasToken
<1>7. TokensUsable'
  BY <1>1 DEF TokenInv, TokensUsable
<1>. QED  BY <1>2, <1>3, <1>4, <1>5, <1>6, <1>7 DEF TokenInv

\* A worker goes on to mark.
LEMMA ThrowTokens ==
    ASSUME TokenInv, TypeOK', NEW w \in Workers, NEW error \in {"invalid", "transient"},
           worker' = [worker EXCEPT ![w].at = error],
           worker[w].at = "refresh" \/ error = "transient",
           UNCHANGED <<account, sweep, connecting, platform>>
    PROVE  TokenInv'
<1>1. /\ worker'[w].at = error /\ worker'[w].account = worker[w].account
      /\ worker'[w].seen = worker[w].seen
      /\ \A v \in Workers : v # w => worker'[v] = worker[v]
  BY DEF TokenInv, TypeOK, Worker, Idle
<1>2. Issued'
  BY <1>1 DEF TokenInv, Issued
<1>3. ConnectingFresh'
  BY <1>1 DEF TokenInv, ConnectingFresh, Fresh
<1>4. GotFresh'
  BY <1>1 DEF TokenInv, GotFresh, Fresh
<1>5. CopyOfSameRow'
  BY <1>1 DEF TokenInv, CopyOfSameRow
<1>6. ConnectedHasToken'
  BY DEF TokenInv, ConnectedHasToken
<1>7. TokensUsable'
  BY <1>1 DEF TokenInv, TokensUsable
<1>. QED  BY <1>2, <1>3, <1>4, <1>5, <1>6, <1>7 DEF TokenInv

\* The platform spends the token of the copy and answers with a new one; the
\* answer may be lost.
LEMMA IssueTokens ==
    ASSUME TokenInv, TypeOK', NEW w \in Workers, worker[w].at = "refresh",
           NEW a \in Accounts, a = worker[w].account,
           NEW old \in Nat, old = worker[w].seen.token,
           NEW new \in Nat, new = platform[a].issued + 1,
           Issue(a, old),
           worker'[w].at \in {"store", "transient"},
           worker'[w].at = "store" => worker'[w].got = new,
           \A v \in Workers : /\ worker'[v].account = worker[v].account
                              /\ worker'[v].seen = worker[v].seen
                              /\ v # w => worker'[v] = worker[v],
           UNCHANGED <<account, sweep, connecting>>
    PROVE  TokenInv'
<1>1. \A v \in Workers : worker[v].at = "store" => worker[v].account \in Accounts
  BY BusyWorker DEF TokenInv
<1>2. /\ \A b \in Accounts : b # a => platform'[b] = platform[b]
      /\ platform'[a].issued = new
      /\ platform'[a].valid \subseteq platform[a].valid \cup {new}
      /\ platform[a].valid \ {old} \subseteq platform'[a].valid
      /\ new \in platform'[a].valid
  BY <1>1 DEF TokenInv, TypeOK, Platform, Issue
<1>3. /\ \A b \in Accounts : platform[b].issued \in Nat /\ platform[b].valid \subseteq Nat
      /\ \A b \in Accounts : account[b].token \in Nat /\ connecting[b] \in Nat
      /\ old \in Nat
  BY <1>1, CopiedTokens DEF TokenInv, TypeOK, Platform, Row
<1>4. Issued'
  BY <1>1, <1>2, <1>3, CopiedTokens DEF TokenInv, Issued
<1>5. new # connecting[a] /\ new # NoToken
  <2>1. connecting[a] # NoToken => connecting[a] \in 1 .. platform[a].issued
    BY <1>1 DEF TokenInv, Issued, ConnectingFresh, Fresh
  <2>. QED  BY <1>1, <1>3, <2>1 DEF NoToken
<1>6. ConnectingFresh'
  <2>1. connecting[a] # NoToken => connecting[a] # old
    BY <1>1 DEF TokenInv, ConnectingFresh, Fresh
  <2>. QED  BY <1>1, <1>2, <2>1 DEF TokenInv, ConnectingFresh, Fresh
<1>7. Fresh(a, new)'
  BY <1>1, <1>2, <1>3, CopiedTokens DEF TokenInv, Issued, Fresh
<1>8. GotFresh'
  <2>1. \A v \in Workers : worker[v].at = "store" /\ worker[v].account = a
            => worker[v].got \in 1 .. platform[a].issued /\ worker[v].got # old
    BY <1>1 DEF TokenInv, Issued, GotFresh, Fresh
  <2>2. \A v \in Workers : worker[v].at = "store" /\ worker[v].account = a
            => worker[v].got # new
    BY <1>1, <1>3, <2>1
  <2>3. ASSUME NEW v \in Workers, v # w, worker[v].at = "store"
        PROVE  Fresh(worker[v].account, worker[v].got)'
    BY <1>1, <1>2, <2>1, <2>3 DEF TokenInv, GotFresh, Fresh
  <2>. QED  BY <1>1, <1>5, <1>7, <2>2, <2>3 DEF TokenInv, GotFresh
<1>9. CopyOfSameRow'
  BY <1>1 DEF TokenInv, CopyOfSameRow
<1>10. ConnectedHasToken'
  BY DEF TokenInv, ConnectedHasToken
<1>11. TokensUsable'
  BY <1>1, <1>2 DEF TokenInv, TokensUsable
<1>. QED  BY <1>4, <1>6, <1>8, <1>9, <1>10, <1>11 DEF TokenInv

\* The successor of the spent token reaches the row.
LEMMA StoreTokens ==
    ASSUME TokenInv, TypeOK', NEW w \in Workers, worker[w].at = "store", RowIsThere(w),
           NEW expiry \in Expiry,
           account' = [account EXCEPT ![worker[w].account] =
                          [status |-> "connected", id |-> @.id,
                           token |-> worker[w].got, expiry |-> expiry]],
           End(w),
           UNCHANGED <<sweep, connecting, platform>>
    PROVE  TokenInv'
<1>. DEFINE a == worker[w].account
            new == worker[w].got
<1>1. /\ worker'[w] = Idle
      /\ \A v \in Workers : v # w => worker'[v] = worker[v]
      /\ \A v \in Workers : worker[v].at = "store" => worker[v].account \in Accounts
      /\ Idle.account \notin Accounts /\ Idle.at # "store"
      /\ a \in Accounts
  BY BusyWorker, ConstantsAssumption DEF TokenInv, TypeOK, End, Idle
<1>2. /\ account'[a].token = new /\ account'[a].id = account[a].id
      /\ \A b \in Accounts : b # a => account'[b] = account[b]
  BY <1>1 DEF TokenInv, TypeOK
<1>3. Fresh(a, new) /\ new # connecting[a]
  BY DEF TokenInv, GotFresh
<1>4. new \in 1 .. platform[a].issued /\ new # NoToken
  BY <1>1, <1>3 DEF TokenInv, Issued, Fresh, NoToken
<1>5. Issued'
  <2>1. new <= platform[a].issued
    BY <1>1, <1>4 DEF TokenInv, TypeOK, Platform
  <2>. QED  BY <1>1, <1>2, <2>1 DEF TokenInv, Issued
<1>6. ConnectingFresh'
  BY <1>1, <1>2, <1>3 DEF TokenInv, ConnectingFresh, Fresh
<1>7. GotFresh'
  BY <1>1, <1>2, <1>3 DEF TokenInv, GotFresh, Fresh
<1>8. CopyOfSameRow'
  BY <1>1, <1>2, <1>3 DEF TokenInv, CopyOfSameRow, Fresh
<1>9. ConnectedHasToken'
  BY <1>2, <1>4 DEF TokenInv, ConnectedHasToken
<1>10. TokensUsable'
  BY <1>1, <1>2, <1>3 DEF TokenInv, TokensUsable, Fresh
<1>. QED  BY <1>5, <1>6, <1>7, <1>8, <1>9, <1>10 DEF TokenInv

LEMMA RefreshTokens ==
    ASSUME TokenInv, ~history'.abandoned, NEW w \in Workers,
           RefreshAccount(w) \/ DecryptFails(w) \/ WorkerDies(w)
    PROVE  TokenInv'
<1>0. TypeOK'
  BY RefreshTypes DEF TokenInv, RefreshAccount
<1>1. CASE CallRefresh(w)
  <2>1. worker[w].account \in Accounts /\ worker[w].seen.token \in Nat
    BY <1>1, BusyWorker, CopiedTokens DEF TokenInv, CallRefresh
  <2>2. platform[worker[w].account].issued + 1 \in Nat
    BY <2>1 DEF TokenInv, TypeOK, Platform
  <2>3. ASSUME NEW new, \/ worker' = [worker EXCEPT ![w].at = "store", ![w].got = new]
                       \/ worker' = [worker EXCEPT ![w].at = "transient"]
        PROVE  /\ worker'[w].at \in {"store", "transient"}
               /\ worker'[w].at = "store" => worker'[w].got = new
               /\ \A v \in Workers : /\ worker'[v].account = worker[v].account
                                     /\ worker'[v].seen = worker[v].seen
                                     /\ v # w => worker'[v] = worker[v]
    BY <2>3 DEF TokenInv, TypeOK, Worker, Idle
  <2>4. ASSUME Issue(worker[w].account, worker[w].seen.token),
               \/ worker' = [worker EXCEPT ![w].at = "store",
                                           ![w].got = platform[worker[w].account].issued + 1]
               \/ worker' = [worker EXCEPT ![w].at = "transient"]
        PROVE  TokenInv'
    <3>1. PICK a \in Accounts, old \in Nat, new \in Nat :
               /\ a = worker[w].account /\ old = worker[w].seen.token
               /\ new = platform[worker[w].account].issued + 1
      BY <2>1, <2>2
    <3>2. /\ worker'[w].at \in {"store", "transient"}
          /\ worker'[w].at = "store" => worker'[w].got = new
          /\ \A v \in Workers : /\ worker'[v].account = worker[v].account
                                /\ worker'[v].seen = worker[v].seen
                                /\ v # w => worker'[v] = worker[v]
      BY <2>3, <2>4, <3>1
    <3>3. Issue(a, old) /\ new = platform[a].issued + 1
      BY <2>4, <3>1
    <3>4. worker[w].at = "refresh" /\ UNCHANGED <<account, sweep, connecting>>
      BY <1>1 DEF CallRefresh
    <3>. QED  BY <1>0, <3>1, <3>2, <3>3, <3>4, IssueTokens
  <2>5. worker[w].at = "refresh" /\ UNCHANGED <<account, sweep, connecting>>
    BY <1>1 DEF CallRefresh
  <2>6. \/ /\ Issue(worker[w].account, worker[w].seen.token)
           /\ \/ worker' = [worker EXCEPT ![w].at = "store",
                                          ![w].got = platform[worker[w].account].issued + 1]
              \/ worker' = [worker EXCEPT ![w].at = "transient"]
        \/ /\ \E error \in {"invalid", "transient"} : worker' = [worker EXCEPT ![w].at = error]
           /\ UNCHANGED platform
    BY <1>1 DEF CallRefresh
  <2>. QED  BY <1>0, <2>4, <2>5, <2>6, ThrowTokens
<1>2. CASE Store(w)
  <2>1. worker[w].seen.expiry \in Expiry /\ NewExpiry(worker[w].account) \in Expiry
    BY <1>2, BusyWorker, CopiedTokens, NewExpiryType DEF TokenInv, Copy, Store
  <2>. QED  BY <1>0, <1>2, <2>1, StoreTokens, ThrowTokens DEF Store
<1>3. CASE Mark(w)
  <2>1. \A status \in StatusForFailure(w) : status # "connected"
    <3>1. worker[w].seen.expiry \in {"far", "due", "past"}
      BY CopiedTokens DEF TokenInv, Copy, Expiry
    <3>. QED  BY <3>1 DEF StatusForFailure
  <2>2. worker[w].account \in Accounts
    BY <1>3, BusyWorker DEF TokenInv, Mark
  <2>3. \A b \in Accounts : /\ account'[b].token = account[b].token
                            /\ account'[b].id = account[b].id
                            /\ account'[b].expiry = account[b].expiry
                            /\ account'[b].status = "connected"
                                 => account[b].status = "connected"
    <3>1. ASSUME NEW status, status # "connected",
                 account' = [account EXCEPT ![worker[w].account].status = status],
                 NEW b \in Accounts
          PROVE  /\ account'[b].token = account[b].token
                 /\ account'[b].id = account[b].id
                 /\ account'[b].expiry = account[b].expiry
                 /\ account'[b].status = "connected" => account[b].status = "connected"
      BY <2>2, <3>1 DEF TokenInv, TypeOK, Row
    <3>. QED  BY <1>3, <2>1, <3>1 DEF Mark
  <2>4. ASSUME NEW b \in Accounts, worker[w].account = b, account'[b].status = "connected"
        PROVE  worker[w].seen.token # account[b].token
    <3>1. ~Abandon("database")
      BY AbandonType DEF TokenInv
    <3>2. ~RowIsThere(w) /\ account' = account
      BY <1>3, <2>1, <2>4, <3>1 DEF Mark, TokenInv, TypeOK, Row
    <3>. QED  BY <2>4, <3>2 DEF RowIsThere, Exists, TokenInv, ConnectedHasToken, CopyOfSameRow
  <2>. QED  BY <1>0, <1>3, <2>3, <2>4, EndTokens DEF Mark
<1>4. CASE DecryptFails(w)
  BY <1>0, <1>4, EndTokens DEF DecryptFails
<1>5. CASE WorkerDies(w)
  BY <1>5, AbandonType DEF WorkerDies, TokenInv
<1>. QED  BY <1>1, <1>2, <1>3, <1>4, <1>5 DEF RefreshAccount

LEMMA InitTokens == Init => TokenInv
<1>. SUFFICES ASSUME Init PROVE TokenInv
  OBVIOUS
<1>1. TypeOK
  BY InitTypes
<1>2. \A w \in Workers : worker[w].account \notin Accounts /\ worker[w].at # "store"
  BY ConstantsAssumption DEF Init, Idle
<1>3. Issued
  BY <1>2 DEF Init, Issued, NoRow, NoToken
<1>4. ConnectingFresh
  BY DEF Init, ConnectingFresh
<1>5. GotFresh
  BY <1>2 DEF GotFresh
<1>6. CopyOfSameRow /\ ConnectedHasToken /\ TokensUsable
  BY DEF Init, CopyOfSameRow, ConnectedHasToken, TokensUsable, NoRow
<1>. QED  BY <1>1, <1>3, <1>4, <1>5, <1>6 DEF TokenInv

\* As long as no refresh was abandoned before its last update, by its process or
\* by the database, a connected account never keeps a spent token, whatever else
\* goes wrong and however many workers refresh it at once.
THEOREM TokenUsable == Spec => []ConnectedTokenUsable
<1>1. TypeOK /\ (history.abandoned \/ TokenInv) /\ [Next]_vars => (history.abandoned \/ TokenInv)'
  <2>. SUFFICES ASSUME TypeOK, history.abandoned \/ TokenInv, [Next]_vars, ~history'.abandoned
                PROVE  TokenInv'
    OBVIOUS
  <2>1. ~history.abandoned
    BY DEF TypeOK, History, Next, vars, Fault, ConnectExchange, UpsertAccount, Disconnect,
       PurgePlatformUser, AdminDisconnect, TokenAges, TokenExpires, EnsureFreshAccessToken,
       AdminRefresh, SweepFind, SweepNext, RefreshAccount, CallRefresh, Store, Mark,
       DecryptFails, WorkerDies, Abandon
  <2>2. TokenInv
    BY <2>1
  <2>3. CASE Next
    BY <2>2, <2>3, MemberTokens, StartTokens, RefreshTokens DEF Next
  <2>4. CASE UNCHANGED vars
    <3>1. TypeOK' /\ Issued' /\ CopyOfSameRow' /\ ConnectedHasToken' /\ TokensUsable'
      BY <2>2, <2>4 DEF vars, TokenInv, TypeOK, Issued, CopyOfSameRow, ConnectedHasToken,
         TokensUsable
    <3>2. ConnectingFresh' /\ GotFresh'
      BY <2>2, <2>4 DEF vars, TokenInv, ConnectingFresh, GotFresh, Fresh
    <3>. QED  BY <3>1, <3>2 DEF TokenInv
  <2>. QED  BY <2>3, <2>4
<1>2. TokenInv => TokensUsable
  BY DEF TokenInv
<1>. QED  BY <1>1, <1>2, InitTokens, TypeCorrect, PTL DEF Spec, ConnectedTokenUsable

-----------------------------------------------------------------------------
(* Deletion at Meta's request. *)

\* No worker brings a row into being: the update it ends with needs one.
LEMMA WorkersCreateNothing ==
    ASSUME TypeOK, NEW w \in Workers,
           CallRefresh(w) \/ Store(w) \/ Mark(w) \/ DecryptFails(w) \/ WorkerDies(w),
           NEW a \in Accounts, ~Exists(a)
    PROVE  ~Exists(a)' /\ history'.purged = history.purged
<1>1. history'.purged = history.purged
  BY DEF TypeOK, History, Fault, Abandon, CallRefresh, Store, Mark, DecryptFails, WorkerDies
<1>2. CASE CallRefresh(w) \/ DecryptFails(w) \/ WorkerDies(w)
  BY <1>1, <1>2 DEF CallRefresh, DecryptFails, WorkerDies, Exists
<1>3. CASE Store(w)
  BY <1>1, <1>3 DEF TypeOK, Store, RowIsThere, Exists
<1>4. CASE Mark(w)
  BY <1>1, <1>4 DEF TypeOK, Mark, RowIsThere, Exists
<1>. QED  BY <1>2, <1>3, <1>4

\* An account from which nothing was posted and that was purged at Meta's
\* request stays away until it is connected again, under every fault.
THEOREM PurgeHolds == Spec => []PurgedIsGone
<1>1. Init => PurgedIsGone
  BY DEF Init, PurgedIsGone
<1>2. TypeOK /\ PurgedIsGone /\ [Next]_vars => PurgedIsGone'
  <2>. SUFFICES ASSUME TypeOK, PurgedIsGone, [Next]_vars PROVE PurgedIsGone'
    OBVIOUS
  <2>0. history.purged \subseteq Accounts
    BY DEF TypeOK, History
  <2>1. ASSUME NEW a \in Accounts,
               \/ ConnectExchange(a) \/ UpsertAccount(a) \/ Disconnect(a)
               \/ PurgePlatformUser(a) \/ AdminDisconnect(a)
               \/ TokenAges(a) \/ TokenExpires(a)
        PROVE  PurgedIsGone'
    <3>. USE <2>0 DEF PurgedIsGone, TypeOK, History, Exists
    <3>1. CASE ConnectExchange(a)
      BY <3>1 DEF ConnectExchange
    <3>2. CASE UpsertAccount(a)
      BY <3>2 DEF UpsertAccount
    <3>3. CASE Disconnect(a)
      BY <3>3 DEF Disconnect
    <3>4. CASE PurgePlatformUser(a)
      BY <3>4 DEF PurgePlatformUser, NoRow
    <3>5. CASE AdminDisconnect(a)
      BY <3>5 DEF AdminDisconnect, NoRow
    <3>6. CASE TokenAges(a)
      BY <3>6 DEF TokenAges
    <3>7. CASE TokenExpires(a)
      BY <3>7 DEF TokenExpires
    <3>. QED  BY <2>1, <3>1, <3>2, <3>3, <3>4, <3>5, <3>6, <3>7
  <2>2. CASE \E w \in Workers, a \in Accounts : EnsureFreshAccessToken(w, a) \/ AdminRefresh(w, a)
    BY <2>2 DEF EnsureFreshAccessToken, AdminRefresh, PurgedIsGone, TypeOK, History, Exists
  <2>3. CASE SweepFind \/ SweepNext
    BY <2>3 DEF SweepFind, SweepNext, PurgedIsGone, Exists, TypeOK, History
  <2>4. CASE \E w \in Workers : RefreshAccount(w) \/ DecryptFails(w) \/ WorkerDies(w)
    <3>1. history'.purged = history.purged
      BY <2>4 DEF RefreshAccount, TypeOK, History, Fault, Abandon, CallRefresh, Store, Mark,
         DecryptFails, WorkerDies
    <3>. QED  BY <2>0, <2>4, <3>1, WorkersCreateNothing DEF RefreshAccount, PurgedIsGone
  <2>5. CASE UNCHANGED vars
    BY <2>5 DEF vars, PurgedIsGone, Exists
  <2>. QED  BY <2>1, <2>2, <2>3, <2>4, <2>5 DEF Next
<1>. QED  BY <1>1, <1>2, TypeCorrect, PTL DEF Spec

=============================================================================
