-------------------------- MODULE ConnectionsProofs --------------------------
(***************************************************************************)
(* Proofs about Connections, for any number of organizations, accounts,    *)
(* flows, callbacks and deletions, and any plans.                          *)
(***************************************************************************)
EXTENDS Connections, FiniteSetTheorems, TLAPS

-----------------------------------------------------------------------------
(* The inductive invariant. *)

Serving == \A c \in Callbacks : callback[c].at # "idle" => callback[c].flow \in Flows

\* A limit is never wider than the peak, nor is one that a callback has read.
Caps ==
    /\ \A o \in Orgs : peak[o] >= 0 => 0 <= limit[o] /\ limit[o] <= peak[o]
    /\ \A c \in Callbacks : callback[c].at = "count" /\ peak[FlowOf(c).org] >= 0 =>
            0 <= callback[c].limit /\ callback[c].limit <= peak[FlowOf(c).org]

Upserting(o) == {c \in Callbacks : callback[c].at = "upsert" /\ FlowOf(c).org = o}

Coming(o) == {FlowOf(c).account : c \in Upserting(o)}

\* The accounts an organization has or is about to have.  Two callbacks may
\* bring the same one, and a deletion may take away one that is coming back.
Heading(o) == Here(o) \cup Coming(o)

HeadingBounded ==
    \A o \in Orgs : peak[o] >= 0 =>
        Cardinality(Heading(o)) <= peak[o] + Cardinality(Callbacks) - 1

\* A row knows of every purge that did not take it.
Purged ==
    /\ \A d \in Deletions : deletion[d].purge <= purges[Withdraws[d].user]
    /\ \A d \in Deletions, s \in Slots :
        (/\ row[s].here
         /\ row[s].user = Withdraws[d].user
         /\ PlatformOf[s[2]] = Withdraws[d].platform)
        => row[s].purges >= deletion[d].purge

IInv == TypeOK /\ Serving /\ Caps /\ HeadingBounded /\ Purged

-----------------------------------------------------------------------------
(* What a step does to callbacks and rows. *)

LEMMA IdleType == IdleCallback \in Callback /\ IdleCallback.at = "idle"
BY DEF IdleCallback, Callback

LEMMA FlowTypes ==
  ASSUME NEW f \in Flows
  PROVE  /\ FlowFor[f].org \in Orgs
         /\ FlowFor[f].account \in Accounts
         /\ FlowFor[f].user \in Users
BY ConnectionsAssumption

LEMMA ServedTypes ==
  ASSUME Serving, NEW c \in Callbacks, callback[c].at # "idle"
  PROVE  /\ callback[c].flow \in Flows
         /\ FlowOf(c).org \in Orgs /\ FlowOf(c).account \in Accounts
         /\ FlowOf(c).user \in Users
         /\ SlotOf(c) \in Slots
BY FlowTypes DEF Serving, FlowOf, SlotOf, Slots

\* A callback begins, goes on with the flow it serves, or ends.
Begins(c) == callback[c].at = "idle" /\ callback'[c].at = "connect" /\ callback'[c].flow \in Flows

GoesOn(c) ==
    /\ callback[c].at # "idle" /\ callback'[c].at # "idle"
    /\ callback'[c].flow = callback[c].flow
    /\ callback'[c].at = "count" =>
          callback[c].at = "limits" /\ callback'[c].limit = limit[FlowOf(c).org]
    /\ callback'[c].at = "upsert" =>
          \/ Find(c) /\ row[SlotOf(c)].here
          \/ Count(c) /\ Within(Cardinality(Here(FlowOf(c).org)), callback[c].limit)

Ends(c) == callback'[c].at = "idle"

LEMMA CallbackOf ==
  ASSUME TypeOK, Serving, NEW c \in Callbacks, Arrive(c) \/ CallbackStep(c)
  PROVE  /\ callback' \in [Callbacks -> Callback]
         /\ \A b \in Callbacks \ {c} : callback'[b] = callback[b]
         /\ Begins(c) \/ GoesOn(c) \/ Ends(c)
<1>0. callback[c] \in Callback /\ callback \in [Callbacks -> Callback]
  BY DEF TypeOK
<1>1. ASSUME NEW x \in Callback, callback' = [callback EXCEPT ![c] = x]
      PROVE  /\ callback' \in [Callbacks -> Callback] /\ callback'[c] = x
             /\ \A b \in Callbacks \ {c} : callback'[b] = callback[b]
  BY <1>0, <1>1
<1>2. CASE Arrive(c)
  <2>1. PICK f \in Flows :
          callback' = [callback EXCEPT ![c] = [IdleCallback EXCEPT !.at = "connect", !.flow = f]]
    BY <1>2 DEF Arrive
  <2> DEFINE x == [IdleCallback EXCEPT !.at = "connect", !.flow = f]
  <2>2. x \in Callback /\ x.at = "connect" /\ x.flow = f
    BY IdleType DEF Callback
  <2>3. callback' = [callback EXCEPT ![c] = x]
    BY <2>1
  <2> HIDE DEF x
  <2>4. callback'[c] = x
    BY <1>1, <2>2, <2>3
  <2> QED
    BY <1>1, <1>2, <2>2, <2>3, <2>4 DEF Arrive, Begins
<1>3. ASSUME Respond(c)
      PROVE  /\ callback' \in [Callbacks -> Callback]
             /\ \A b \in Callbacks \ {c} : callback'[b] = callback[b]
             /\ Ends(c)
  BY <1>1, <1>3, IdleType DEF Respond, Ends
<1>4. ASSUME NEW at \in {"find", "limits", "upsert"}, GoTo(c, at)
      PROVE  /\ callback' \in [Callbacks -> Callback]
             /\ \A b \in Callbacks \ {c} : callback'[b] = callback[b]
             /\ callback'[c].at = at /\ callback'[c].flow = callback[c].flow
  <2> DEFINE x == [callback[c] EXCEPT !.at = at, !.step = 1]
  <2>1. callback' = [callback EXCEPT ![c] = x]
    BY <1>0, <1>4 DEF GoTo
  <2>2. x \in Callback /\ x.at = at /\ x.flow = callback[c].flow
    BY <1>0 DEF Callback
  <2> HIDE DEF x
  <2> QED
    BY <1>1, <2>1, <2>2
<1>5. CASE Call(c)
  <2>1. callback[c].at = "connect" /\ (GoTo(c, "find") \/ callback' = [callback EXCEPT ![c].step = @ + 1])
    BY <1>5 DEF Call
  <2>2. CASE GoTo(c, "find")
    BY <1>4, <2>1, <2>2 DEF GoesOn
  <2>3. CASE callback' = [callback EXCEPT ![c].step = @ + 1]
    <3> DEFINE n == callback[c].step + 1
               x == [callback[c] EXCEPT !.step = n]
    <3>1. n \in Nat
      BY <1>0 DEF Callback
    <3>2. callback' = [callback EXCEPT ![c] = x]
      BY <1>0, <2>3
    <3> HIDE DEF n
    <3>3. x \in Callback /\ x.at = callback[c].at /\ x.flow = callback[c].flow
      BY <1>0, <3>1 DEF Callback
    <3> HIDE DEF x
    <3>4. callback'[c] = x
      BY <1>1, <3>2, <3>3
    <3> QED
      BY <1>1, <2>1, <3>2, <3>3, <3>4 DEF GoesOn
  <2> QED
    BY <2>1, <2>2, <2>3
<1>6. CASE Fails(c)
  BY <1>3, <1>6 DEF Fails
<1>7. CASE Find(c)
  <2>1. callback[c].at = "find"
    BY <1>7 DEF Find
  <2>2. CASE row[SlotOf(c)].here
    BY <1>4, <1>7, <2>1, <2>2 DEF Find, GoesOn
  <2>3. CASE ~row[SlotOf(c)].here
    BY <1>4, <1>7, <2>1, <2>3 DEF Find, GoesOn
  <2> QED
    BY <2>2, <2>3
<1>8. CASE ReadLimit(c)
  <2> DEFINE l == limit[FlowOf(c).org]
             x == [callback[c] EXCEPT !.at = "count", !.limit = l]
  <2>1. callback[c].at = "limits" /\ callback' = [callback EXCEPT ![c] = x]
    BY <1>0, <1>8 DEF ReadLimit
  <2>2. l \in Int
    BY <2>1, ServedTypes, ConnectionsAssumption DEF TypeOK
  <2>l. l = limit[FlowOf(c).org]
    OBVIOUS
  <2> HIDE DEF l
  <2>3. /\ x \in Callback /\ x.at = "count" /\ x.flow = callback[c].flow /\ x.limit = l
    BY <1>0, <2>2 DEF Callback
  <2> HIDE DEF x
  <2>4. callback'[c] = x
    BY <1>1, <2>1, <2>3
  <2> QED
    BY <1>1, <2>1, <2>l, <2>3, <2>4 DEF GoesOn
<1>9. CASE Count(c)
  <2>1. callback[c].at = "count"
    BY <1>9 DEF Count
  <2>2. CASE Within(Cardinality(Here(FlowOf(c).org)), callback[c].limit)
    BY <1>4, <1>9, <2>1, <2>2 DEF Count, GoesOn
  <2>3. CASE ~Within(Cardinality(Here(FlowOf(c).org)), callback[c].limit)
    BY <1>3, <1>9, <2>3 DEF Count
  <2> QED
    BY <2>2, <2>3
<1>10. CASE Upsert(c)
  BY <1>3, <1>10 DEF Upsert
<1> QED
  BY <1>2, <1>5, <1>6, <1>7, <1>8, <1>9, <1>10 DEF CallbackStep

\* A row stays, goes, is posted with, or is written by a callback.
Written(s) ==
    \E c \in Callbacks :
        /\ Upsert(c) /\ SlotOf(c) = s
        /\ row'[s].user \in Users => row'[s].purges = purges[row'[s].user]

RowStep(s) ==
    \/ ~row'[s].here
    \/ /\ row[s].here
       /\ row'[s].user = row[s].user /\ row'[s].purges = row[s].purges
    \/ Written(s)

LEMMA RowsAfter ==
  ASSUME TypeOK, Serving, Next
  PROVE  row' \in [Slots -> Row] /\ \A s \in Slots : RowStep(s)
<1>0. row \in [Slots -> Row] /\ purges \in [Users -> Nat]
  BY DEF TypeOK
<1>1. CASE UNCHANGED row
  BY <1>0, <1>1 DEF RowStep
<1>2. ASSUME NEW s \in Slots, Post(s)
      PROVE  row' \in [Slots -> Row] /\ \A t \in Slots : RowStep(t)
  <2> DEFINE x == [row[s] EXCEPT !.posted = TRUE]
  <2>1. row' = [row EXCEPT ![s] = x] /\ row[s].here
    BY <1>0, <1>2 DEF Post
  <2>2. x \in Row /\ x.here = row[s].here /\ x.user = row[s].user /\ x.purges = row[s].purges
    BY <1>0 DEF Row
  <2> HIDE DEF x
  <2>3. row' \in [Slots -> Row] /\ row'[s] = x /\ \A t \in Slots \ {s} : row'[t] = row[t]
    BY <1>0, <2>1, <2>2
  <2> QED
    BY <2>1, <2>2, <2>3 DEF RowStep
<1>3. ASSUME NEW d \in Deletions, Deauthorize(d) \/ DeletionPurge(d)
      PROVE  row' \in [Slots -> Row] /\ \A t \in Slots : RowStep(t)
  <2>1. \A t \in Slots : row'[t] = NoRow \/ row'[t] = row[t]
    BY <1>3 DEF Deauthorize, DeletionPurge, Purge
  <2>2. NoRow \in Row /\ ~NoRow.here
    BY DEF NoRow, Row
  <2>3. \E rows : row' = [t \in Slots |-> IF t \in rows THEN NoRow ELSE row[t]]
    BY <1>3 DEF Deauthorize, DeletionPurge, Purge
  <2> QED
    BY <1>0, <2>1, <2>2, <2>3 DEF RowStep
<1>4. ASSUME NEW c \in Callbacks, Upsert(c)
      PROVE  row' \in [Slots -> Row] /\ \A t \in Slots : RowStep(t)
  <2> DEFINE s == SlotOf(c)
             user == IF Connect[PlatformIn(c)].names = "nobody" THEN NoUser ELSE FlowOf(c).user
             p == IF user = NoUser THEN 0 ELSE purges[user]
             x == [here |-> TRUE, user |-> user, posted |-> row[s].posted, purges |-> p]
  <2>1. s \in Slots /\ user \in Users \cup {NoUser}
    BY <1>4, ServedTypes DEF Upsert
  <2>2. p \in Nat /\ (user \in Users => p = purges[user])
    BY <1>0, <2>1, ConnectionsAssumption
  <2>3. row' = [row EXCEPT ![s] = x]
    BY <1>4 DEF Upsert
  <2>s. s = SlotOf(c)
    OBVIOUS
  <2> HIDE DEF s, user, p
  <2>4. x \in Row /\ x.user = user /\ x.purges = p
    BY <1>0, <2>1, <2>2 DEF Row
  <2> HIDE DEF x
  <2>5. row' \in [Slots -> Row] /\ row'[s] = x /\ \A t \in Slots \ {s} : row'[t] = row[t]
    BY <1>0, <2>1, <2>3, <2>4
  <2>6. Written(s)
    BY <1>4, <2>s, <2>2, <2>4, <2>5 DEF Written
  <2>7. \A t \in Slots \ {s} : RowStep(t)
    BY <2>5 DEF RowStep
  <2> QED
    BY <2>5, <2>6, <2>7 DEF RowStep
<1> QED
  <2>1. CASE \E f \in Flows : Consent(f)
    BY <1>1, <2>1 DEF Consent
  <2>2. CASE \E c \in Callbacks : Arrive(c) \/ CallbackStep(c)
    BY <1>1, <1>4, <2>2 DEF Arrive, CallbackStep, Call, Fails, Find, ReadLimit, Count
  <2>3. CASE \E o \in Orgs : ChangePlan(o)
    BY <1>1, <2>3 DEF ChangePlan
  <2>4. CASE \E d \in Deletions : DeletionStep(d)
    BY <1>1, <1>3, <2>4 DEF DeletionStep, DeletionFails, DeletionRecord
  <2> QED
    BY <1>2, <2>1, <2>2, <2>3, <2>4 DEF Next

\* Only callbacks' own steps touch callbacks, and only ChangePlan the limits.
LEMMA CallbacksAfter ==
  ASSUME TypeOK, Serving, Next
  PROVE  /\ callback' \in [Callbacks -> Callback]
         /\ \A c \in Callbacks : callback'[c] = callback[c] \/ Begins(c) \/ GoesOn(c) \/ Ends(c)
<1>1. CASE UNCHANGED callback
  BY <1>1 DEF TypeOK
<1>2. CASE \E c \in Callbacks : Arrive(c) \/ CallbackStep(c)
  BY <1>2, CallbackOf
<1> QED
  BY <1>1, <1>2 DEF Next, Consent, Post, ChangePlan, DeletionStep, Deauthorize,
     DeletionPurge, Purge, DeletionFails, DeletionRecord

LEMMA LimitsAfter ==
  ASSUME TypeOK, Next
  PROVE  /\ limit' \in [Orgs -> Limits] /\ peak' \in [Orgs -> Int]
         /\ \A o \in Orgs : \/ limit'[o] = limit[o] /\ peak'[o] = peak[o]
                            \/ limit'[o] \in Limits /\ peak'[o] = Wider(peak[o], limit'[o])
<1>0. limit \in [Orgs -> Limits] /\ peak \in [Orgs -> Int] /\ Limits \subseteq Int
  BY ConnectionsAssumption DEF TypeOK
<1>1. CASE UNCHANGED <<limit, peak>>
  BY <1>0, <1>1
<1>2. ASSUME NEW o \in Orgs, ChangePlan(o)
      PROVE  /\ limit' \in [Orgs -> Limits] /\ peak' \in [Orgs -> Int]
             /\ \A p \in Orgs : \/ limit'[p] = limit[p] /\ peak'[p] = peak[p]
                                \/ limit'[p] \in Limits /\ peak'[p] = Wider(peak[p], limit'[p])
  <2>1. PICK l \in Limits :
          /\ limit' = [limit EXCEPT ![o] = l]
          /\ peak' = [peak EXCEPT ![o] = Wider(@, l)]
    BY <1>2 DEF ChangePlan
  <2>2. Wider(peak[o], l) \in Int
    BY <1>0 DEF Wider
  <2>3. /\ limit'[o] = l /\ peak'[o] = Wider(peak[o], l)
        /\ \A p \in Orgs \ {o} : limit'[p] = limit[p] /\ peak'[p] = peak[p]
    BY <1>0, <2>1
  <2>4. limit' \in [Orgs -> Limits] /\ peak' \in [Orgs -> Int]
    BY <1>0, <2>1, <2>2
  <2> QED
    BY <2>3, <2>4
<1> QED
  BY <1>1, <1>2 DEF Next, Consent, Arrive, CallbackStep, Call, Fails, Find, ReadLimit, Count,
     Upsert, Post, DeletionStep, Deauthorize, DeletionPurge, Purge, DeletionFails,
     DeletionRecord

\* A purge is counted for its user, and the deletion keeps its number.
LEMMA PurgesAfter ==
  ASSUME TypeOK, Next
  PROVE  /\ purges' \in [Users -> Nat] /\ deletion' \in [Deletions -> Deletion]
         /\ \A u \in Users : purges'[u] >= purges[u]
         /\ \A d \in Deletions :
              \/ deletion'[d].purge = deletion[d].purge
              \/ /\ Deauthorize(d) \/ DeletionPurge(d)
                 /\ deletion'[d].purge = purges[Withdraws[d].user] + 1
                 /\ purges'[Withdraws[d].user] = purges[Withdraws[d].user] + 1
<1>0. /\ purges \in [Users -> Nat] /\ deletion \in [Deletions -> Deletion]
      /\ \A d \in Deletions : Withdraws[d].user \in Users
  BY ConnectionsAssumption DEF TypeOK
<1>1. CASE UNCHANGED <<purges, deletion>>
  BY <1>0, <1>1
<1>2. ASSUME NEW d \in Deletions, UNCHANGED purges,
             NEW at \in {"failed", "completed"}, deletion' = [deletion EXCEPT ![d].at = at]
      PROVE  /\ deletion' \in [Deletions -> Deletion]
             /\ \A e \in Deletions : deletion'[e].purge = deletion[e].purge
  BY <1>0, <1>2 DEF Deletion
<1>3. ASSUME NEW d \in Deletions, NEW at \in {"record", "deauthorized"}, Purge(d, at)
      PROVE  /\ purges' \in [Users -> Nat] /\ deletion' \in [Deletions -> Deletion]
             /\ \A u \in Users : purges'[u] >= purges[u]
             /\ purges'[Withdraws[d].user] = purges[Withdraws[d].user] + 1
             /\ deletion'[d].purge = purges[Withdraws[d].user] + 1
             /\ \A e \in Deletions \ {d} : deletion'[e] = deletion[e]
  <2> DEFINE user == Withdraws[d].user
             n == purges[user] + 1
             x == [at |-> at, purge |-> n]
  <2>1. /\ purges' = [purges EXCEPT ![user] = n]
        /\ deletion' = [deletion EXCEPT ![d] = x]
    BY <1>0, <1>3 DEF Purge
  <2>2. user \in Users /\ n \in Nat /\ n = purges[user] + 1 /\ user = Withdraws[d].user
    BY <1>0
  <2> HIDE DEF n, user
  <2>3. x \in Deletion /\ x.purge = n
    BY <2>2 DEF Deletion
  <2> HIDE DEF x
  <2>4. purges' \in [Users -> Nat] /\ purges'[user] = n /\ \A u \in Users : purges'[u] >= purges[u]
    BY <1>0, <2>1, <2>2
  <2>5. /\ deletion' \in [Deletions -> Deletion] /\ deletion'[d] = x
        /\ \A e \in Deletions \ {d} : deletion'[e] = deletion[e]
    BY <1>0, <2>1, <2>3
  <2> QED
    BY <2>2, <2>3, <2>4, <2>5
<1>4. CASE \E d \in Deletions : DeletionFails(d) \/ DeletionRecord(d)
  <2>1. PICK d \in Deletions, at \in {"failed", "completed"} :
          UNCHANGED purges /\ deletion' = [deletion EXCEPT ![d].at = at]
    BY <1>4 DEF DeletionFails, DeletionRecord
  <2>2. /\ deletion' \in [Deletions -> Deletion]
        /\ \A e \in Deletions : deletion'[e].purge = deletion[e].purge
    BY <1>2, <2>1
  <2>3. purges' = purges /\ \A u \in Users : purges[u] >= purges[u]
    BY <1>0, <2>1
  <2> QED
    BY <1>0, <2>2, <2>3
<1>5. CASE \E d \in Deletions : Deauthorize(d) \/ DeletionPurge(d)
  <2>1. PICK d \in Deletions : Deauthorize(d) \/ DeletionPurge(d)
    BY <1>5
  <2>2. \E at \in {"record", "deauthorized"} : Purge(d, at)
    BY <2>1 DEF Deauthorize, DeletionPurge
  <2> QED
    BY <1>3, <2>1, <2>2
<1> QED
  BY <1>1, <1>4, <1>5 DEF Next, Consent, Arrive, CallbackStep, Call, Fails, Find, ReadLimit,
     Count, Upsert, Post, ChangePlan, DeletionStep


-----------------------------------------------------------------------------
(* The parts of the invariant, step by step. *)

LEMMA TypesKept == ASSUME TypeOK, Serving, Next PROVE TypeOK' /\ Serving'
<1>1. code' \in [Flows -> Code]
  <2>0. code \in [Flows -> Code]
    BY DEF TypeOK
  <2>1. UNCHANGED code \/ \E f, v : v \in Code /\ code' = [code EXCEPT ![f] = v]
    BY DEF Next, Consent, Arrive, CallbackStep, Call, Fails, Find, ReadLimit, Count, Upsert,
       Post, ChangePlan, DeletionStep, Deauthorize, DeletionPurge, Purge, DeletionFails,
       DeletionRecord, Code
  <2> QED
    BY <2>0, <2>1
<1>2. TypeOK'
  BY <1>1, RowsAfter, CallbacksAfter, LimitsAfter, PurgesAfter DEF TypeOK
<1>3. Serving'
  BY CallbacksAfter DEF Serving, Begins, GoesOn, Ends
<1> QED
  BY <1>2, <1>3

LEMMA CapsKept == ASSUME TypeOK, Serving, Caps, Next PROVE Caps'
<1>0. /\ limit \in [Orgs -> Limits] /\ peak \in [Orgs -> Int] /\ Limits \subseteq Int
      /\ callback \in [Callbacks -> Callback]
  BY ConnectionsAssumption DEF TypeOK
<1>1. ASSUME NEW o \in Orgs, peak'[o] >= 0
      PROVE  /\ peak[o] >= 0 /\ peak[o] <= peak'[o]
             /\ 0 <= limit'[o] /\ limit'[o] <= peak'[o]
  <2>1. /\ peak[o] \in Int /\ peak'[o] \in Int /\ limit'[o] \in Int
        /\ peak[o] >= 0 => 0 <= limit[o] /\ limit[o] <= peak[o]
    BY <1>0, LimitsAfter DEF Caps
  <2>2. CASE limit'[o] = limit[o] /\ peak'[o] = peak[o]
    BY <1>1, <2>1, <2>2
  <2>3. CASE peak'[o] = Wider(peak[o], limit'[o])
    <3>1. \A p, l \in Int : Wider(p, l) >= 0 => p >= 0 /\ l >= 0 /\ p <= Wider(p, l) /\ l <= Wider(p, l)
      BY DEF Wider
    <3> QED
      BY <1>1, <2>1, <2>3, <3>1
  <2> QED
    BY <2>2, <2>3, LimitsAfter
<1>2. ASSUME NEW c \in Callbacks, callback'[c].at = "count", peak'[FlowOf(c)'.org] >= 0
      PROVE  0 <= callback'[c].limit /\ callback'[c].limit <= peak'[FlowOf(c)'.org]
  <2> DEFINE o == FlowOf(c).org
  <2>1. /\ callback[c].at # "idle" /\ FlowOf(c)' = FlowOf(c)
        /\ \/ callback[c].at = "count" /\ callback'[c].limit = callback[c].limit
           \/ callback'[c].limit = limit[o]
    BY <1>2, CallbacksAfter DEF Begins, GoesOn, Ends, FlowOf
  <2>2. o \in Orgs /\ callback[c].limit \in Int
    BY <1>0, <2>1, ServedTypes DEF Callback
  <2>3. peak[o] >= 0 /\ peak[o] <= peak'[o] /\ peak[o] \in Int /\ peak'[o] \in Int
    BY <1>0, <1>1, <1>2, <2>1, <2>2, LimitsAfter
  <2>4. 0 <= limit[o] /\ limit[o] <= peak[o] /\ limit[o] \in Int
    BY <1>0, <2>2, <2>3 DEF Caps
  <2>5. callback[c].at = "count" => 0 <= callback[c].limit /\ callback[c].limit <= peak[o]
    BY <2>3 DEF Caps
  <2> HIDE DEF o
  <2>6. 0 <= callback'[c].limit /\ callback'[c].limit <= peak'[o]
    BY <2>1, <2>2, <2>3, <2>4, <2>5
  <2> QED
    BY <2>1, <2>6 DEF o
<1> QED
  BY <1>1, <1>2 DEF Caps

\* Cardinalities of what an organization has, is to get, and of callbacks.
LEMMA Sizes ==
  ASSUME NEW S, S \subseteq Accounts
  PROVE  /\ IsFiniteSet(S) /\ Cardinality(S) \in Nat
         /\ \A T : T \subseteq S => Cardinality(T) <= Cardinality(S)
<1>1. IsFiniteSet(Accounts)
  BY ConnectionsAssumption
<1>2. IsFiniteSet(S)
  BY <1>1, FS_Subset
<1> QED
  BY <1>2, FS_CardinalityType, FS_Subset

LEMMA CallbackCount == Cardinality(Callbacks) \in Nat /\ Cardinality(Callbacks) >= 1
<1>1. IsFiniteSet(Callbacks) /\ Callbacks # {}
  BY ConnectionsAssumption
<1>2. Cardinality(Callbacks) \in Nat /\ Cardinality(Callbacks) # 0
  BY <1>1, FS_CardinalityType, FS_EmptySet
<1> QED
  BY <1>2

\* What the callbacks bring is no more than there are callbacks.
LEMMA BroughtBounded ==
  ASSUME NEW S, S \subseteq Callbacks, NEW f, f \in [S -> Accounts],
         NEW T, T = {f[c] : c \in S}
  PROVE  T \subseteq Accounts /\ Cardinality(T) <= Cardinality(Callbacks)
<1>1. T \subseteq Accounts
  OBVIOUS
<1>2. IsFiniteSet(Callbacks)
  BY ConnectionsAssumption
<1>3. IsFiniteSet(S) /\ Cardinality(S) <= Cardinality(Callbacks)
  BY <1>2, FS_Subset
<1>4. f \in Surjection(S, T)
  BY DEF Surjection
<1>5. Cardinality(T) <= Cardinality(S)
  BY <1>3, <1>4, FS_Surjection
<1>6. /\ Cardinality(T) \in Nat /\ Cardinality(S) \in Nat /\ Cardinality(Callbacks) \in Nat
  BY <1>1, <1>2, <1>3, Sizes, FS_CardinalityType
<1> QED
  BY <1>1, <1>3, <1>5, <1>6

LEMMA ComingBounded ==
  ASSUME Serving, Serving', NEW o \in Orgs
  PROVE  /\ Coming(o) \subseteq Accounts /\ Cardinality(Coming(o)) <= Cardinality(Callbacks)
         /\ Coming(o)' \subseteq Accounts /\ Cardinality(Coming(o)') <= Cardinality(Callbacks)
<1>1. ASSUME NEW g, \A c \in Callbacks : g[c].at # "idle" => g[c].flow \in Flows,
             NEW S, S = {c \in Callbacks : g[c].at = "upsert" /\ FlowFor[g[c].flow].org = o},
             NEW T, T = {FlowFor[g[c].flow].account : c \in S}
      PROVE  T \subseteq Accounts /\ Cardinality(T) <= Cardinality(Callbacks)
  <2> DEFINE f == [c \in S |-> FlowFor[g[c].flow].account]
  <2>1. f \in [S -> Accounts]
    BY <1>1, FlowTypes
  <2>2. T = {f[c] : c \in S} /\ S \subseteq Callbacks
    BY <1>1
  <2> HIDE DEF f
  <2> QED
    BY <2>1, <2>2, BroughtBounded
<1>2. Coming(o) \subseteq Accounts /\ Cardinality(Coming(o)) <= Cardinality(Callbacks)
  <2>1. /\ \A c \in Callbacks : callback[c].at # "idle" => callback[c].flow \in Flows
        /\ Upserting(o) = {c \in Callbacks : callback[c].at = "upsert"
                                             /\ FlowFor[callback[c].flow].org = o}
        /\ Coming(o) = {FlowFor[callback[c].flow].account : c \in Upserting(o)}
    BY DEF Serving, Upserting, Coming, FlowOf
  <2> QED
    BY <1>1, <2>1
<1>3. Coming(o)' \subseteq Accounts /\ Cardinality(Coming(o)') <= Cardinality(Callbacks)
  <2>1. /\ \A c \in Callbacks : callback'[c].at # "idle" => callback'[c].flow \in Flows
        /\ Upserting(o)' = {c \in Callbacks : callback'[c].at = "upsert"
                                             /\ FlowFor[callback'[c].flow].org = o}
        /\ Coming(o)' = {FlowFor[callback'[c].flow].account : c \in Upserting(o)'}
    BY DEF Serving, Upserting, Coming, FlowOf
  <2> QED
    BY <1>1, <2>1
<1> QED
  BY <1>2, <1>3

\* A callback that found room has counted what there is.
FoundRoom(o) ==
    \E c \in Callbacks :
        /\ Count(c) /\ FlowOf(c).org = o
        /\ Within(Cardinality(Here(o)), callback[c].limit)

LEMMA HeadingAfter ==
  ASSUME TypeOK, Serving, Next, NEW o \in Orgs, ~FoundRoom(o)
  PROVE  Heading(o)' \subseteq Heading(o)
<1>1. ASSUME NEW c \in Callbacks, c \in Upserting(o)'
      PROVE  /\ callback[c].at # "idle" /\ FlowOf(c)' = FlowOf(c) /\ FlowOf(c).org = o
             /\ c \in Upserting(o) \/ row[SlotOf(c)].here
  <2>1. /\ callback'[c].at = "upsert" /\ FlowOf(c)'.org = o
        /\ callback'[c] = callback[c] \/ GoesOn(c)
    BY <1>1, CallbacksAfter DEF Upserting, Begins, Ends
  <2>2. callback[c].at # "idle" /\ FlowOf(c)' = FlowOf(c) /\ FlowOf(c).org = o
    BY <2>1 DEF GoesOn, FlowOf
  <2> QED
    BY <2>1, <2>2 DEF GoesOn, Upserting, FoundRoom
<1>2. Coming(o)' \subseteq Heading(o)
  <2> SUFFICES ASSUME NEW c \in Callbacks, c \in Upserting(o)'
               PROVE  FlowOf(c)'.account \in Heading(o)
    BY DEF Coming, Upserting
  <2>1. /\ callback[c].at # "idle" /\ FlowOf(c)' = FlowOf(c) /\ FlowOf(c).org = o
        /\ c \in Upserting(o) \/ row[SlotOf(c)].here
    BY <1>1
  <2>2. FlowOf(c).account \in Accounts /\ SlotOf(c) = <<o, FlowOf(c).account>>
    BY <2>1, ServedTypes DEF SlotOf
  <2> QED
    BY <2>1, <2>2 DEF Heading, Coming, Here
<1>3. Here(o)' \subseteq Heading(o)
  <2> SUFFICES ASSUME NEW a \in Accounts, row'[<<o, a>>].here PROVE a \in Heading(o)
    BY DEF Here
  <2>1. <<o, a>> \in Slots
    BY DEF Slots
  <2>2. row[<<o, a>>].here \/ Written(<<o, a>>)
    BY <2>1, RowsAfter DEF RowStep
  <2>3. CASE Written(<<o, a>>)
    <3>1. PICK c \in Callbacks : Upsert(c) /\ SlotOf(c) = <<o, a>>
      BY <2>3 DEF Written
    <3>2. c \in Upserting(o) /\ FlowOf(c).account = a
      BY <3>1 DEF Upsert, SlotOf, Upserting
    <3> QED
      BY <3>2 DEF Heading, Coming
  <2> QED
    BY <2>2, <2>3 DEF Heading, Here
<1> QED
  BY <1>2, <1>3 DEF Heading

LEMMA HeadingKept ==
  ASSUME TypeOK, Serving, Caps, HeadingBounded, Next PROVE HeadingBounded'
<1> SUFFICES ASSUME NEW o \in Orgs, peak'[o] >= 0
             PROVE  Cardinality(Heading(o)') <= peak'[o] + Cardinality(Callbacks) - 1
  BY DEF HeadingBounded
<1>0. TypeOK' /\ Serving'
  BY TypesKept
<1>1. /\ peak[o] \in Int /\ peak'[o] \in Int /\ peak[o] >= 0 /\ peak[o] <= peak'[o]
  BY LimitsAfter, ConnectionsAssumption DEF TypeOK, Wider
<1>2. /\ Heading(o) \subseteq Accounts /\ Heading(o)' \subseteq Accounts
      /\ Here(o) \subseteq Accounts
  BY <1>0, ComingBounded DEF Heading, Here
<1>3. /\ Cardinality(Heading(o)) \in Nat /\ Cardinality(Heading(o)') \in Nat
      /\ Cardinality(Here(o)) \in Nat /\ Cardinality(Callbacks) \in Nat
  BY <1>2, Sizes, CallbackCount
<1>4. CASE ~FoundRoom(o)
  <2>1. Cardinality(Heading(o)') <= Cardinality(Heading(o))
    BY <1>2, <1>4, HeadingAfter, Sizes
  <2>2. Cardinality(Heading(o)) <= peak[o] + Cardinality(Callbacks) - 1
    BY <1>1 DEF HeadingBounded
  <2> QED
    BY <1>1, <1>3, <2>1, <2>2
<1>5. CASE FoundRoom(o)
  <2>1. PICK c \in Callbacks :
          /\ Count(c) /\ FlowOf(c).org = o
          /\ Within(Cardinality(Here(o)), callback[c].limit)
    BY <1>5 DEF FoundRoom
  <2>2. /\ 0 <= callback[c].limit /\ callback[c].limit <= peak[o]
        /\ callback[c].limit \in Int
    BY <1>1, <2>1 DEF Count, Caps, TypeOK, Callback
  <2>3. Cardinality(Here(o)) + 1 <= peak[o]
    BY <1>1, <1>3, <2>1, <2>2 DEF Within
  <2>4. Here(o)' = Here(o) /\ peak'[o] = peak[o]
    BY <2>1 DEF Count, Here
  <2>5. Coming(o)' \subseteq Accounts /\ Cardinality(Coming(o)') <= Cardinality(Callbacks)
    BY <1>0, ComingBounded
  <2>6. Cardinality(Heading(o)') <= Cardinality(Here(o)) + Cardinality(Coming(o)')
    <3>1. IsFiniteSet(Here(o)) /\ IsFiniteSet(Coming(o)')
      BY <1>2, <2>5, Sizes
    <3>2. Cardinality(Here(o) \cup Coming(o)') =
            Cardinality(Here(o)) + Cardinality(Coming(o)') - Cardinality(Here(o) \cap Coming(o)')
      BY <3>1, FS_Union
    <3>3. /\ Cardinality(Here(o) \cap Coming(o)') \in Nat /\ Cardinality(Coming(o)') \in Nat
          /\ Cardinality(Here(o)) \in Nat
      <4>1. Here(o) \cap Coming(o)' \subseteq Accounts
        BY <1>2
      <4> QED
        BY <4>1, <1>3, <2>5, Sizes
    <3>4. Heading(o)' = Here(o) \cup Coming(o)'
      BY <2>4 DEF Heading
    <3> QED
      BY <3>2, <3>3, <3>4
  <2>7. Cardinality(Coming(o)') \in Nat
    BY <2>5, Sizes
  <2> QED
    BY <1>1, <1>3, <2>3, <2>4, <2>5, <2>6, <2>7
<1> QED
  BY <1>4, <1>5

\* Every row that still names the person was written after the purge.
LEMMA PurgedKept == ASSUME TypeOK, Serving, Purged, Next PROVE Purged'
<1>0. /\ purges \in [Users -> Nat] /\ purges' \in [Users -> Nat]
      /\ deletion \in [Deletions -> Deletion] /\ deletion' \in [Deletions -> Deletion]
      /\ row \in [Slots -> Row] /\ row' \in [Slots -> Row]
      /\ \A d \in Deletions : Withdraws[d].user \in Users
  BY PurgesAfter, RowsAfter, ConnectionsAssumption DEF TypeOK
<1>1. ASSUME NEW d \in Deletions
      PROVE  deletion'[d].purge <= purges'[Withdraws[d].user]
  <2>1. /\ deletion[d].purge \in Nat /\ deletion'[d].purge \in Nat
        /\ purges[Withdraws[d].user] \in Nat /\ purges'[Withdraws[d].user] \in Nat
    BY <1>0 DEF Deletion
  <2>2. deletion[d].purge <= purges[Withdraws[d].user]
    BY DEF Purged
  <2>3. purges'[Withdraws[d].user] >= purges[Withdraws[d].user]
    BY <1>0, PurgesAfter
  <2>4. \/ deletion'[d].purge = deletion[d].purge
        \/ /\ deletion'[d].purge = purges[Withdraws[d].user] + 1
           /\ purges'[Withdraws[d].user] = purges[Withdraws[d].user] + 1
    BY PurgesAfter
  <2> QED
    BY <2>1, <2>2, <2>3, <2>4
<1>2. ASSUME NEW d \in Deletions, NEW s \in Slots,
             row'[s].here, row'[s].user = Withdraws[d].user,
             PlatformOf[s[2]] = Withdraws[d].platform
      PROVE  row'[s].purges >= deletion'[d].purge
  <2>u. Withdraws[d].user \in Users
    BY <1>0
  <2>1. CASE Written(s)
    <3>1. row'[s].purges = purges[row'[s].user] /\ \E c \in Callbacks : Upsert(c)
      BY <1>2, <2>1, <2>u DEF Written
    <3>2. deletion' = deletion
      BY <3>1 DEF Upsert
    <3>3. deletion[d].purge <= purges[Withdraws[d].user]
      BY DEF Purged
    <3> DEFINE n == deletion[d].purge
               p == purges[Withdraws[d].user]
    <3>4. n \in Nat /\ p \in Nat
      BY <1>0, <2>u DEF Deletion
    <3>5. row'[s].purges = p /\ deletion'[d].purge = n /\ n <= p
      BY <1>2, <3>1, <3>2, <3>3
    <3> HIDE DEF n, p
    <3> QED
      BY <3>4, <3>5
  <2>2. CASE /\ row[s].here /\ row'[s].user = row[s].user
             /\ row'[s].purges = row[s].purges
    <3>1. row[s].purges >= deletion[d].purge
      BY <1>2, <2>2 DEF Purged
    <3>2. CASE deletion'[d].purge = deletion[d].purge
      BY <2>2, <3>1, <3>2
    <3>3. CASE Deauthorize(d) \/ DeletionPurge(d)
      <4>1. row' = [t \in Slots |-> IF t \in RowsOf(Withdraws[d].user, Withdraws[d].platform)
                                    THEN NoRow ELSE row[t]]
        BY <3>3 DEF Deauthorize, DeletionPurge, Purge
      <4>2. s \in RowsOf(Withdraws[d].user, Withdraws[d].platform)
        BY <1>2, <2>2 DEF RowsOf
      <4>3. row'[s] = NoRow
        BY <4>1, <4>2
      <4> QED
        BY <1>2, <4>3 DEF NoRow
    <3> QED
      BY <3>2, <3>3, PurgesAfter
  <2> QED
    BY <1>2, <2>1, <2>2, RowsAfter DEF RowStep
<1> QED
  BY <1>1, <1>2 DEF Purged

-----------------------------------------------------------------------------
(* The theorems. *)

LEMMA Initially == Init => IInv
<1> SUFFICES ASSUME Init PROVE IInv
  OBVIOUS
<1>1. TypeOK
  <2>1. NoRow \in Row
    BY DEF NoRow, Row
  <2>2. [at |-> "new", purge |-> 0] \in Deletion
    BY DEF Deletion
  <2>3. Limits \subseteq Int
    BY ConnectionsAssumption
  <2>4. peak \in [Orgs -> Int] /\ "none" \in Code
    BY <2>3 DEF Init, Code
  <2> QED
    BY <2>1, <2>2, <2>4, IdleType DEF Init, TypeOK
<1>2. \A c \in Callbacks : callback[c].at = "idle"
  BY IdleType DEF Init
<1>3. Serving /\ Caps
  <2>1. \A o \in Orgs : limit[o] \in Int /\ peak[o] = limit[o]
    BY ConnectionsAssumption DEF Init
  <2> QED
    BY <1>2, <2>1 DEF Serving, Caps
<1>4. \A s \in Slots : ~row[s].here
  BY DEF Init, NoRow
<1>5. HeadingBounded
  <2> SUFFICES ASSUME NEW o \in Orgs, peak[o] >= 0
               PROVE  Cardinality(Heading(o)) <= peak[o] + Cardinality(Callbacks) - 1
    BY DEF HeadingBounded
  <2>1. Here(o) = {} /\ Coming(o) = {}
    BY <1>2, <1>4 DEF Here, Coming, Upserting, Slots
  <2>2. Heading(o) = {}
    BY <2>1 DEF Heading
  <2>3. Cardinality(Heading(o)) = 0
    BY <2>2, FS_EmptySet
  <2>4. peak[o] \in Int
    BY <1>1 DEF TypeOK
  <2> QED
    BY <2>3, <2>4, CallbackCount
<1>6. Purged
  <2>1. \A d \in Deletions : deletion[d].purge = 0 /\ purges[Withdraws[d].user] = 0
    BY ConnectionsAssumption DEF Init
  <2> QED
    BY <1>4, <2>1 DEF Purged
<1> QED
  BY <1>1, <1>3, <1>5, <1>6 DEF IInv

LEMMA Invariance == IInv /\ [Next]_vars => IInv'
<1> SUFFICES ASSUME IInv, [Next]_vars PROVE IInv'
  OBVIOUS
<1>1. CASE Next
  BY <1>1, TypesKept, CapsKept, HeadingKept, PurgedKept DEF IInv
<1>2. CASE UNCHANGED vars
  BY <1>2 DEF vars, IInv, TypeOK, Serving, Caps, HeadingBounded, Heading, Here, Coming,
     Upserting, FlowOf, Purged
<1> QED
  BY <1>1, <1>2

\* Rows, limits, codes, callbacks and deletions keep their types.
THEOREM TypeCorrect == Spec => []TypeOK
<1>1. IInv => TypeOK
  BY DEF IInv
<1> QED
  BY Initially, Invariance, <1>1, PTL DEF Spec

\* assertCanConnectSocialAccount counts before upsertAccount writes: an
\* organization exceeds the widest limit it has had by less than the number of
\* callbacks that overlap, whatever reconnections, purges, plan changes and
\* failures fall between.
THEOREM CapHolds == Spec => []OvershootBounded
<1>1. IInv => OvershootBounded
  <2> SUFFICES ASSUME IInv, NEW o \in Orgs, peak[o] >= 0
               PROVE  Cardinality(Here(o)) <= peak[o] + Cardinality(Callbacks) - 1
    BY DEF OvershootBounded
  <2>1. Coming(o) \subseteq Accounts /\ Here(o) \subseteq Accounts
    BY ServedTypes DEF IInv, Coming, Upserting, Here
  <2>2. Heading(o) \subseteq Accounts /\ Here(o) \subseteq Heading(o)
    BY <2>1 DEF Heading
  <2>3. Cardinality(Here(o)) <= Cardinality(Heading(o))
    BY <2>2, Sizes
  <2>4. Cardinality(Here(o)) \in Nat /\ Cardinality(Heading(o)) \in Nat
    BY <2>1, <2>2, Sizes
  <2>5. Cardinality(Heading(o)) <= peak[o] + Cardinality(Callbacks) - 1
    BY DEF IInv, HeadingBounded
  <2>6. peak[o] \in Int
    BY DEF IInv, TypeOK
  <2> QED
    BY <2>3, <2>4, <2>5, <2>6, CallbackCount
<1> QED
  BY Initially, Invariance, <1>1, PTL DEF Spec

\* dataDeletion reports as completed only a purge that went through, in every
\* organization: a row that names the person was written by a later callback.
THEOREM DeletionsAreReal == Spec => []CompletedMeansPurged
<1>1. IInv => CompletedMeansPurged
  BY DEF IInv, Purged, CompletedMeansPurged
<1> QED
  BY Initially, Invariance, <1>1, PTL DEF Spec

=============================================================================
