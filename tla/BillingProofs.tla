---------------------------- MODULE BillingProofs ----------------------------
(***************************************************************************)
(* Proofs about Billing, for any number of organizations, checkouts and    *)
(* webhook requests, whatever order events come in and however often; and  *)
(* about Generation, whose quota is that of the plan Billing writes.       *)
(***************************************************************************)
EXTENDS Billing, Metering, FiniteSetTheorems, TLAPS

-----------------------------------------------------------------------------
(* The inductive invariant. *)

Paid(k) == stripe[k].status # "none"

\* An event tells of a subscription that was paid, and of a plan it has or
\* was bought with.
GoodEvents ==
    {e \in Event : Paid(e.of) /\ e.sub.tier \in {TierOf[e.of], stripe[e.of].tier}}

\* Plans only go up, and what is paid for was opened.
Offers ==
    \A k \in Checkouts :
        /\ stripe[k].tier = "starter" => TierOf[k] = "starter"
        /\ Paid(k) => checkout[k].at = "open"

\* The customers of a checkout, and those that a row names, are of the
\* organization; so are the subscriptions that a row names.
Customers ==
    /\ \A k \in Checkouts : checkout[k].at \in {"store", "session", "open"} =>
            checkout[k].customer \in Checkouts /\ OrgOf[checkout[k].customer] = OrgOf[k]
    /\ \A k \in Checkouts : checkout[k].at = "store" => checkout[k].customer = k
    /\ \A o \in Orgs : mirror[o].customer # NoCheckout => OrgOf[mirror[o].customer] = o
    /\ \A o \in Orgs : mirror[o].sub # NoCheckout => OrgOf[mirror[o].sub] = o

Queued == queue \in [Orgs -> Seq(GoodEvents)]

\* What a handler has in hand, and the organization it has found for it.
InHandIsGood ==
    \A h \in Handlers : handler[h].at # "idle" =>
        /\ handler[h].event \in GoodEvents
        /\ handler[h].at \in {"record", "dun"} => handler[h].org = OrgOf[handler[h].event.of]

IInv ==
    /\ TypeOK /\ Offers /\ Customers /\ Queued /\ InHandIsGood
    /\ PlanIsMirrored /\ OwnPaymentsOnly

-----------------------------------------------------------------------------
(* Stripe. *)

LEMMA StripeAfter ==
  ASSUME TypeOK, Next
  PROVE  /\ stripe' \in [Checkouts -> Subscription]
         /\ billed' \in [Invoices -> InvoiceStatus]
         /\ \A k \in Checkouts :
              /\ Paid(k) => Paid(k)'
              /\ Paid(k)' => Paid(k) \/ checkout[k].at = "open"
              /\ \/ stripe'[k].tier = stripe[k].tier
                 \/ stripe[k].tier = "starter" /\ stripe'[k].tier = "pro"
<1>0. stripe \in [Checkouts -> Subscription] /\ billed \in [Invoices -> InvoiceStatus]
  BY DEF TypeOK
<1>1. CASE UNCHANGED theirs
  BY <1>0, <1>1 DEF theirs, Paid
<1>2. ASSUME NEW k \in Checkouts, StripeStep(k)
      PROVE  /\ stripe' \in [Checkouts -> Subscription]
             /\ billed' \in [Invoices -> InvoiceStatus]
             /\ \A j \in Checkouts :
                  /\ Paid(j) => Paid(j)'
                  /\ Paid(j)' => Paid(j) \/ checkout[j].at = "open"
                  /\ \/ stripe'[j].tier = stripe[j].tier
                     \/ stripe[j].tier = "starter" /\ stripe'[j].tier = "pro"
  <2>1. /\ \/ UNCHANGED billed
           \/ \E n \in {1, 2}, s \in {"open", "paid"} : billed' = [billed EXCEPT ![<<k, n>>] = s]
    BY <1>2 DEF StripeStep, Pay, Upgrade, Lapse, Recover, Cancel
  <2>2. billed' \in [Invoices -> InvoiceStatus]
    BY <1>0, <2>1 DEF InvoiceStatus
  <2>3. CASE Upgrade(k)
    <3>1. stripe[k].tier = "starter" /\ stripe[k].status = "active"
          /\ stripe' = [stripe EXCEPT ![k].tier = "pro"]
      BY <2>3 DEF Upgrade
    <3> QED
      BY <1>0, <2>2, <3>1 DEF Subscription, Purchasable, Paid
  <2>4. ASSUME NEW s \in {"active", "past_due", "canceled"},
               stripe' = [stripe EXCEPT ![k].status = s],
               Paid(k) \/ checkout[k].at = "open"
        PROVE  /\ stripe' \in [Checkouts -> Subscription]
               /\ \A j \in Checkouts :
                    /\ Paid(j) => Paid(j)'
                    /\ Paid(j)' => Paid(j) \/ checkout[j].at = "open"
                    /\ stripe'[j].tier = stripe[j].tier
    BY <1>0, <2>4 DEF Subscription, Paid
  <2>5. CASE Pay(k) \/ Lapse(k) \/ Recover(k) \/ Cancel(k)
    <3>1. /\ \E s \in {"active", "past_due", "canceled"} : stripe' = [stripe EXCEPT ![k].status = s]
          /\ Paid(k) \/ checkout[k].at = "open"
      BY <2>5 DEF Pay, Lapse, Recover, Cancel, Paid
    <3> QED
      BY <2>2, <2>4, <3>1
  <2> QED
    BY <1>2, <2>3, <2>5 DEF StripeStep
<1>3. CASE \E k \in Checkouts : CheckoutStep(k)
  BY <1>1, <1>3 DEF CheckoutStep, StartCheckout, CreateCustomer, StoreCustomer, CreateSession,
     AsksNothing, theirs
<1>4. CASE \E h \in Handlers : HandlerFails(h) \/ Handle(h) \/ \E o \in Orgs : Deliver(h, o)
  BY <1>1, <1>4 DEF Deliver, HandlerFails, Handle, Fetch, SyncSubscription, ResolveByCustomer,
     ResolveBySub, RecordInvoice, MarkPastDue
<1>5. CASE \E o \in Orgs : DeleteOrganization(o)
  BY <1>1, <1>5 DEF DeleteOrganization
<1> QED
  BY <1>2, <1>3, <1>4, <1>5 DEF Next

\* What was good to say of a subscription stays so.
LEMMA GoodEventsGrow ==
  ASSUME TypeOK, Offers, Next
  PROVE  GoodEvents \subseteq GoodEvents'
<1> SUFFICES ASSUME NEW e \in Event, Paid(e.of), e.sub.tier \in {TierOf[e.of], stripe[e.of].tier}
             PROVE  Paid(e.of)' /\ e.sub.tier \in {TierOf[e.of], stripe'[e.of].tier}
  BY DEF GoodEvents, Paid
<1>1. e.of \in Checkouts
  BY DEF Event
<1> QED
  BY <1>1, StripeAfter DEF Offers

\* What Stripe sends is good.
LEMMA EventsAreGood ==
  ASSUME stripe' \in [Checkouts -> Subscription], billed' \in [Invoices -> InvoiceStatus],
         NEW k \in Checkouts, Paid(k)',
         NEW type \in {"completed", "updated", "deleted", "invoice", "payment_failed"},
         NEW n \in {1, 2}
  PROVE  About(type, k) \in GoodEvents' /\ Bill(type, k, n) \in GoodEvents'
<1> DEFINE e == About(type, k)
           b == Bill(type, k, n)
<1>1. stripe'[k] \in Subscription /\ billed'[<<k, n>>] \in InvoiceStatus
  BY DEF Invoices
<1>2. e \in Event /\ e.of = k /\ e.sub = stripe'[k]
  BY <1>1 DEF About, Event, InvoiceStatus
<1>3. b \in Event /\ b.of = k /\ b.sub = stripe'[k]
  BY <1>1, <1>2 DEF Bill, Event
<1> HIDE DEF e, b
<1> QED
  BY <1>2, <1>3 DEF GoodEvents, Paid, e, b

-----------------------------------------------------------------------------
(* Checkouts and rows. *)

LEMMA CheckoutAfter ==
  ASSUME TypeOK, Customers, NEW k \in Checkouts, CheckoutStep(k)
  PROVE  /\ checkout' \in [Checkouts -> Checkout]
         /\ \A j \in Checkouts \ {k} : checkout'[j] = checkout[j]
         /\ checkout[k].at # "open"
         /\ checkout'[k].at \in {"store", "session", "open"} =>
                checkout'[k].customer \in Checkouts /\ OrgOf[checkout'[k].customer] = OrgOf[k]
         /\ checkout'[k].at = "store" => checkout'[k].customer = k
<1>0. checkout \in [Checkouts -> Checkout] /\ mirror \in [Orgs -> Mirror] /\ OrgOf[k] \in Orgs
  BY BillingAssumption DEF TypeOK
<1>1. CASE StartCheckout(k)
  <2> DEFINE existing == mirror[OrgOf[k]].customer
  <2>1. existing \in Checkouts \cup {NoCheckout}
        /\ (existing # NoCheckout => OrgOf[existing] = OrgOf[k])
    BY <1>0 DEF Mirror, Customers
  <2> HIDE DEF existing
  <2>2. /\ checkout[k].at = "idle"
        /\ checkout' = [checkout EXCEPT ![k] =
              IF existing # NoCheckout THEN [at |-> "session", customer |-> existing]
              ELSE [at |-> "create", customer |-> NoCheckout]]
    BY <1>1 DEF StartCheckout, existing
  <2> QED
    BY <1>0, <2>1, <2>2 DEF Checkout
<1>2. CASE CreateCustomer(k)
  BY <1>0, <1>2 DEF CreateCustomer, Checkout
<1>3. CASE StoreCustomer(k)
  BY <1>0, <1>3 DEF StoreCustomer, Checkout, Customers
<1>4. CASE CreateSession(k)
  BY <1>0, <1>4 DEF CreateSession, Checkout, Customers
<1> QED
  BY <1>1, <1>2, <1>3, <1>4 DEF CheckoutStep

LEMMA CheckoutsAfter ==
  ASSUME TypeOK, Offers, Customers, Next
  PROVE  /\ checkout' \in [Checkouts -> Checkout]
         /\ \A k \in Checkouts : checkout[k].at = "open" => checkout'[k] = checkout[k]
         /\ \A k \in Checkouts :
              /\ checkout'[k].at \in {"store", "session", "open"} =>
                    checkout'[k].customer \in Checkouts /\ OrgOf[checkout'[k].customer] = OrgOf[k]
              /\ checkout'[k].at = "store" => checkout'[k].customer = k
<1>1. CASE UNCHANGED checkout
  BY <1>1 DEF TypeOK, Customers
<1>2. CASE \E k \in Checkouts : CheckoutStep(k)
  BY <1>2, CheckoutAfter DEF Customers
<1> QED
  BY <1>1, <1>2 DEF Next, StripeStep, Pay, Upgrade, Lapse, Recover, Cancel, DeleteOrganization,
     Deliver, HandlerFails, Handle, Fetch, SyncSubscription, ResolveByCustomer, ResolveBySub,
     RecordInvoice, MarkPastDue

LEMMA OffersKept == ASSUME TypeOK, Offers, Customers, Next PROVE Offers'
<1> SUFFICES ASSUME NEW k \in Checkouts
             PROVE  /\ stripe'[k].tier = "starter" => TierOf[k] = "starter"
                    /\ Paid(k)' => checkout'[k].at = "open"
  BY DEF Offers, Paid
<1> QED
  BY StripeAfter, CheckoutsAfter DEF Offers

\* A row is written by a checkout, by an event or by a failed payment, and goes
\* with its organization.
Stores(k, o) ==
    /\ checkout[k].at = "store" /\ o = OrgOf[k]
    /\ planTier' = planTier
    /\ mirror'[o] = [mirror[o] EXCEPT !.here = TRUE, !.customer = k]

Syncs(h, o) ==
    LET event == handler[h].event IN
    /\ handler[h].at = "sync" /\ o = OrgOf[event.of]
    /\ planTier'[o] = TierIn(event)
    /\ mirror'[o] = [here |-> TRUE, customer |-> checkout[event.of].customer, sub |-> event.of,
                     tier |-> TierIn(event), status |-> StatusIn(event)]

Duns(o) ==
    /\ planTier' = planTier
    /\ mirror'[o] \in {mirror[o], [mirror[o] EXCEPT !.status = "past_due"]}

Goes(o) == planTier'[o] = "free" /\ mirror'[o] = NoMirror

LEMMA RowsAfter ==
  ASSUME TypeOK, InHandIsGood, Next, NEW o \in Orgs
  PROVE  \/ mirror'[o] = mirror[o] /\ planTier'[o] = planTier[o]
         \/ \E k \in Checkouts : Stores(k, o)
         \/ \E h \in Handlers : Syncs(h, o)
         \/ Duns(o)
         \/ Goes(o)
<1>0. mirror \in [Orgs -> Mirror] /\ planTier \in [Orgs -> Tier]
  BY DEF TypeOK
<1>1. CASE UNCHANGED <<mirror, planTier>>
  BY <1>1
<1>2. ASSUME NEW k \in Checkouts, StoreCustomer(k)
      PROVE  (mirror'[o] = mirror[o] /\ planTier'[o] = planTier[o]) \/ Stores(k, o)
  BY <1>0, <1>2 DEF StoreCustomer, AsksNothing, Stores
<1>3. ASSUME NEW h \in Handlers, SyncSubscription(h)
      PROVE  (mirror'[o] = mirror[o] /\ planTier'[o] = planTier[o]) \/ Syncs(h, o)
  <2> DEFINE e == handler[h].event
             x == [here |-> TRUE, customer |-> checkout[e.of].customer, sub |-> e.of,
                   tier |-> TierIn(e), status |-> StatusIn(e)]
  <2>0. CASE UNCHANGED <<mirror, planTier>>
    BY <2>0
  <2>1. CASE /\ handler[h].at = "sync"
             /\ mirror' = [mirror EXCEPT ![OrgOf[e.of]] = x]
             /\ planTier' = [planTier EXCEPT ![OrgOf[e.of]] = TierIn(e)]
    <3> HIDE DEF x
    <3>1. CASE o = OrgOf[e.of]
      <4>1. mirror'[o] = x /\ planTier'[o] = TierIn(e)
        BY <1>0, <2>1, <3>1
      <4> QED
        BY <2>1, <3>1, <4>1 DEF Syncs, x
    <3>2. CASE o # OrgOf[e.of]
      BY <1>0, <2>1, <3>2
    <3> QED
      BY <3>1, <3>2
  <2> QED
    BY <1>3, <2>0, <2>1 DEF SyncSubscription
<1>4. ASSUME NEW h \in Handlers, MarkPastDue(h)
      PROVE  Duns(o)
  BY <1>0, <1>4 DEF MarkPastDue, Duns, Mirror
<1>5. ASSUME NEW p \in Orgs, DeleteOrganization(p)
      PROVE  (mirror'[o] = mirror[o] /\ planTier'[o] = planTier[o]) \/ Goes(o)
  BY <1>0, <1>5 DEF DeleteOrganization, Goes
<1> QED
  BY <1>1, <1>2, <1>3, <1>4, <1>5 DEF Next, CheckoutStep, StartCheckout, CreateCustomer,
     CreateSession, AsksNothing, StripeStep, Pay, Upgrade, Lapse, Recover, Cancel, ours, Deliver,
     HandlerFails, Handle, Fetch, ResolveByCustomer, ResolveBySub, RecordInvoice

\* Types of rows, and whom their customers and subscriptions belong to.
LEMMA RowsKept ==
  ASSUME TypeOK, Offers, Customers, InHandIsGood, PlanIsMirrored, Next
  PROVE  /\ mirror' \in [Orgs -> Mirror] /\ planTier' \in [Orgs -> Tier]
         /\ \A o \in Orgs :
              /\ mirror'[o].customer # NoCheckout => OrgOf[mirror'[o].customer] = o
              /\ mirror'[o].sub # NoCheckout => OrgOf[mirror'[o].sub] = o
              /\ planTier'[o] = mirror'[o].tier
<1>0. mirror \in [Orgs -> Mirror] /\ planTier \in [Orgs -> Tier]
      /\ checkout \in [Checkouts -> Checkout]
  BY DEF TypeOK
<1>1. ASSUME NEW o \in Orgs
      PROVE  /\ mirror'[o] \in Mirror
             /\ mirror'[o].customer # NoCheckout => OrgOf[mirror'[o].customer] = o
             /\ mirror'[o].sub # NoCheckout => OrgOf[mirror'[o].sub] = o
             /\ planTier'[o] = mirror'[o].tier
  <2>0. /\ mirror[o] \in Mirror /\ planTier[o] = mirror[o].tier
        /\ mirror[o].customer # NoCheckout => OrgOf[mirror[o].customer] = o
        /\ mirror[o].sub # NoCheckout => OrgOf[mirror[o].sub] = o
    BY <1>0 DEF Customers, PlanIsMirrored
  <2>1. CASE mirror'[o] = mirror[o] /\ planTier'[o] = planTier[o]
    BY <2>0, <2>1
  <2>2. ASSUME NEW k \in Checkouts, Stores(k, o)
        PROVE  /\ mirror'[o] \in Mirror /\ mirror'[o].customer = k /\ OrgOf[k] = o
               /\ mirror'[o].sub = mirror[o].sub /\ mirror'[o].tier = mirror[o].tier
               /\ planTier' = planTier
    BY <2>0, <2>2 DEF Stores, Mirror
  <2>3. ASSUME NEW h \in Handlers, Syncs(h, o)
        PROVE  /\ mirror'[o] \in Mirror
               /\ OrgOf[mirror'[o].customer] = o /\ OrgOf[mirror'[o].sub] = o
               /\ planTier'[o] = mirror'[o].tier
    <3> DEFINE e == handler[h].event
    <3>1. e \in GoodEvents
      BY <2>3 DEF Syncs, InHandIsGood
    <3>2. /\ e \in Event /\ e.of \in Checkouts /\ checkout[e.of].at = "open"
      BY <3>1 DEF GoodEvents, Event, Offers
    <3>3. /\ checkout[e.of].customer \in Checkouts /\ OrgOf[checkout[e.of].customer] = OrgOf[e.of]
      BY <3>2 DEF Customers
    <3>4. TierIn(e) \in Tier /\ StatusIn(e) \in {"none", "active", "past_due", "canceled"}
      BY <3>2 DEF TierIn, StatusIn, Tier, Event, Subscription
    <3>5. /\ o = OrgOf[e.of] /\ planTier'[o] = TierIn(e)
          /\ mirror'[o] = [here |-> TRUE, customer |-> checkout[e.of].customer, sub |-> e.of,
                           tier |-> TierIn(e), status |-> StatusIn(e)]
      BY <2>3 DEF Syncs
    <3> HIDE DEF e
    <3> QED
      BY <3>2, <3>3, <3>4, <3>5 DEF Mirror
  <2>4. CASE Duns(o)
    <3>1. planTier' = planTier
      BY <2>4 DEF Duns
    <3>2. /\ mirror'[o] \in Mirror /\ mirror'[o].customer = mirror[o].customer
          /\ mirror'[o].sub = mirror[o].sub /\ mirror'[o].tier = mirror[o].tier
      BY <2>0, <2>4 DEF Duns, Mirror
    <3> QED
      BY <2>0, <3>1, <3>2
  <2>5. CASE Goes(o)
    BY <2>5 DEF Goes, NoMirror, Mirror, Tier
  <2> QED
    BY <2>0, <2>1, <2>2, <2>3, <2>4, <2>5, RowsAfter
<1>2. mirror' = [o \in Orgs |-> mirror'[o]] /\ planTier' = [o \in Orgs |-> planTier'[o]]
  <2>1. ASSUME NEW f, NEW g, NEW o, NEW v, f = [p \in Orgs |-> f[p]], g = [f EXCEPT ![o] = v]
        PROVE  g = [p \in Orgs |-> g[p]]
    BY <2>1
  <2>2. mirror = [o \in Orgs |-> mirror[o]] /\ planTier = [o \in Orgs |-> planTier[o]]
    BY <1>0
  <2>3. /\ \/ UNCHANGED mirror
           \/ \E o, v : mirror' = [mirror EXCEPT ![o] = v]
        /\ \/ UNCHANGED planTier
           \/ \E o, v : planTier' = [planTier EXCEPT ![o] = v]
    <3>1. CASE \E k \in Checkouts : StoreCustomer(k)
      <4>1. PICK k \in Checkouts : StoreCustomer(k)
        BY <3>1
      <4>2. OrgOf[k] \in Orgs
        BY BillingAssumption
      <4>3. UNCHANGED planTier
            /\ mirror' = [mirror EXCEPT ![OrgOf[k]] = [@ EXCEPT !.here = TRUE, !.customer = k]]
        BY <1>0, <4>1, <4>2 DEF StoreCustomer, AsksNothing
      <4> QED
        BY <4>3
    <3>2. CASE \E h \in Handlers : SyncSubscription(h)
      BY <3>2 DEF SyncSubscription
    <3>3. CASE \E h \in Handlers : MarkPastDue(h)
      BY <3>3 DEF MarkPastDue
    <3>4. CASE \E o \in Orgs : DeleteOrganization(o)
      BY <3>4 DEF DeleteOrganization
    <3> QED
      BY <3>1, <3>2, <3>3, <3>4 DEF Next, CheckoutStep, StartCheckout, CreateCustomer,
         CreateSession, AsksNothing, StripeStep, Pay, Upgrade, Lapse, Recover, Cancel, ours,
         Deliver, HandlerFails, Handle, Fetch, ResolveByCustomer, ResolveBySub, RecordInvoice
  <2> QED
    BY <2>1, <2>2, <2>3
<1>3. Mirror = Mirror' /\ \A o \in Orgs : planTier'[o] \in Tier
  BY <1>1 DEF Mirror
<1> QED
  BY <1>1, <1>2, <1>3

\* A plan is one that was bought, or that a bought one became.
LEMMA PlansAreOwn ==
  ASSUME TypeOK, Offers, Customers, InHandIsGood, OwnPaymentsOnly, PlanIsMirrored, Next,
         NEW o \in Orgs, planTier'[o] # "free"
  PROVE  \E k \in Of(o) : Paid(k)' /\ planTier'[o] \in {TierOf[k], stripe'[k].tier}
<1>1. CASE planTier'[o] = planTier[o]
  <2>1. PICK k \in Of(o) : Paid(k) /\ planTier[o] \in {TierOf[k], stripe[k].tier}
    BY <1>1 DEF OwnPaymentsOnly, Paid
  <2>2. k \in Checkouts
    BY DEF Of
  <2>3. Paid(k)' /\ planTier[o] \in {TierOf[k], stripe'[k].tier}
    BY <2>1, <2>2, StripeAfter DEF Offers
  <2> QED
    BY <1>1, <2>1, <2>3
<1>2. CASE \E h \in Handlers : Syncs(h, o)
  <2>1. PICK h \in Handlers : Syncs(h, o)
    BY <1>2
  <2>e. PICK e : e = handler[h].event
    OBVIOUS
  <2>2. e \in GoodEvents
    BY <2>1, <2>e DEF Syncs, InHandIsGood
  <2>3. e \in GoodEvents' /\ e.of \in Checkouts
    BY <2>2, GoodEventsGrow DEF GoodEvents, Event
  <2>4. o = OrgOf[e.of] /\ planTier'[o] = TierIn(e)
    BY <2>1, <2>e DEF Syncs
  <2>5. planTier'[o] = e.sub.tier
    BY <2>4 DEF TierIn
  <2>6. e.of \in Of(o)
    BY <2>3, <2>4 DEF Of
  <2>7. Paid(e.of)' /\ e.sub.tier \in {TierOf[e.of], stripe'[e.of].tier}
    BY <2>3 DEF GoodEvents, Paid
  <2> QED
    BY <2>5, <2>6, <2>7
<1> QED
  BY <1>1, <1>2, RowsAfter DEF Stores, Duns, Goes

-----------------------------------------------------------------------------
(* The webhook. *)

LEMMA SequencesGrow ==
  ASSUME NEW S, NEW T, S \subseteq T, NEW s \in Seq(S)
  PROVE  s \in Seq(T)
OBVIOUS

LEMMA Removed ==
  ASSUME NEW S, NEW s \in Seq(S), NEW i \in DOMAIN s
  PROVE  s[i] \in S /\ RemoveAt(s, i) \in Seq(S)
<1>1. Len(s) \in Nat /\ DOMAIN s = 1..Len(s)
  OBVIOUS
<1>2. SubSeq(s, 1, i - 1) \in Seq(S)
  BY <1>1
<1>3. SubSeq(s, i + 1, Len(s)) \in Seq(S)
  BY <1>1
<1> QED
  BY <1>1, <1>2, <1>3 DEF RemoveAt

LEMMA QueueKept ==
  ASSUME TypeOK, Offers, Queued, InHandIsGood, Next
  PROVE  Queued' /\ queue' \in [Orgs -> Seq(Event)]
<1>0. queue \in [Orgs -> Seq(GoodEvents)]
  BY DEF Queued
<1>1. queue \in [Orgs -> Seq(GoodEvents')]
  BY <1>0, GoodEventsGrow, SequencesGrow
<1>2. ASSUME NEW o \in Orgs, NEW q \in Seq(GoodEvents'), queue' = [queue EXCEPT ![o] = q]
      PROVE  queue' \in [Orgs -> Seq(GoodEvents')]
  BY <1>1, <1>2
<1>3. ASSUME UNCHANGED queue
      PROVE  queue' \in [Orgs -> Seq(GoodEvents')]
  BY <1>1, <1>3
<1>4. ASSUME NEW k \in Checkouts, StripeStep(k)
      PROVE  queue' \in [Orgs -> Seq(GoodEvents')]
  <2>0. OrgOf[k] \in Orgs
    BY BillingAssumption
  <2>1. Paid(k)'
    <3>1. stripe \in [Checkouts -> Subscription]
      BY DEF TypeOK
    <3> QED
      BY <1>4, <3>1 DEF StripeStep, Pay, Upgrade, Lapse, Recover, Cancel, Paid, Subscription
  <2>2. /\ \A t \in {"completed", "updated", "deleted"} : About(t, k) \in GoodEvents'
        /\ \A t \in {"invoice", "payment_failed"}, n \in {1, 2} : Bill(t, k, n) \in GoodEvents'
    BY <1>4, <2>1, StripeAfter, EventsAreGood
  <2>3. PICK events \in Seq(GoodEvents') : Emit(k, events)
    <3>1. CASE Pay(k)
      <4>1. <<About("updated", k), Bill("invoice", k, 1), About("completed", k)>> \in Seq(GoodEvents')
        BY <2>2
      <4> QED
        BY <3>1, <4>1 DEF Pay
    <3>2. CASE Upgrade(k)
      <4>1. <<About("updated", k)>> \in Seq(GoodEvents')
        BY <2>2
      <4> QED
        BY <3>2, <4>1 DEF Upgrade
    <3>3. CASE Lapse(k)
      <4>1. <<Bill("payment_failed", k, 2), About("updated", k)>> \in Seq(GoodEvents')
        BY <2>2
      <4> QED
        BY <3>3, <4>1 DEF Lapse
    <3>4. CASE Recover(k)
      <4>1. <<Bill("invoice", k, 2), About("updated", k)>> \in Seq(GoodEvents')
        BY <2>2
      <4> QED
        BY <3>4, <4>1 DEF Recover
    <3>5. CASE Cancel(k)
      <4>1. <<About("deleted", k)>> \in Seq(GoodEvents')
        BY <2>2
      <4> QED
        BY <3>5, <4>1 DEF Cancel
    <3> QED
      BY <1>4, <3>1, <3>2, <3>3, <3>4, <3>5 DEF StripeStep
  <2>4. queue[OrgOf[k]] \o events \in Seq(GoodEvents')
    BY <1>1, <2>0, <2>3
  <2> QED
    BY <1>1, <1>2, <2>0, <2>3, <2>4 DEF Emit
<1>5. ASSUME NEW h \in Handlers, NEW p \in Orgs, Deliver(h, p)
      PROVE  queue' \in [Orgs -> Seq(GoodEvents')]
  <2>1. CASE UNCHANGED queue
    BY <1>3, <2>1
  <2>2. CASE \E o \in Orgs : \E i \in DOMAIN queue[o] :
               queue' = [queue EXCEPT ![o] = RemoveAt(queue[o], i)]
    <3>1. PICK o \in Orgs : \E i \in DOMAIN queue[o] :
            queue' = [queue EXCEPT ![o] = RemoveAt(queue[o], i)]
      BY <2>2
    <3>i. PICK i \in DOMAIN queue[o] : queue' = [queue EXCEPT ![o] = RemoveAt(queue[o], i)]
      BY <3>1
    <3>2. RemoveAt(queue[o], i) \in Seq(GoodEvents')
      BY <1>1, Removed
    <3> QED
      BY <1>2, <3>i, <3>2
  <2> QED
    BY <1>5, <2>1, <2>2 DEF Deliver
<1>6. ASSUME NEW h \in Handlers, handler[h].at # "idle", Throw(h)
      PROVE  queue' \in [Orgs -> Seq(GoodEvents')]
  <2> DEFINE e == handler[h].event
             o == OrgOf[e.of]
  <2>1. e \in GoodEvents
    BY <1>6 DEF InHandIsGood
  <2>2. e \in GoodEvents' /\ o \in Orgs
    BY <2>1, GoodEventsGrow, BillingAssumption DEF GoodEvents, Event
  <2>3. queue' = [queue EXCEPT ![o] = <<e>> \o queue[o]]
    BY <1>6 DEF Throw
  <2> HIDE DEF e, o
  <2>4. <<e>> \o queue[o] \in Seq(GoodEvents')
    BY <1>1, <2>2
  <2> QED
    BY <1>2, <2>2, <2>3, <2>4
<1>7. ASSUME NEW h \in Handlers, HandlerFails(h) \/ Handle(h)
      PROVE  UNCHANGED queue \/ (handler[h].at # "idle" /\ Throw(h))
  BY <1>7 DEF HandlerFails, Handle, Fetch, SyncSubscription, ResolveByCustomer, ResolveBySub,
     RecordInvoice, MarkPastDue
<1>8. ASSUME \/ \E k \in Checkouts : CheckoutStep(k)
             \/ \E o \in Orgs : DeleteOrganization(o)
      PROVE  UNCHANGED queue
  BY <1>8 DEF CheckoutStep, StartCheckout, CreateCustomer, StoreCustomer, CreateSession,
     AsksNothing, DeleteOrganization
<1>9. queue' \in [Orgs -> Seq(GoodEvents')]
  <2>1. CASE \E h \in Handlers : HandlerFails(h) \/ Handle(h)
    BY <1>3, <1>6, <1>7, <2>1
  <2> QED
    BY <1>3, <1>4, <1>5, <1>8, <2>1 DEF Next
<1>10. GoodEvents' \subseteq Event
  BY DEF GoodEvents
<1> QED
  BY <1>9, <1>10, SequencesGrow DEF Queued

\* A handler goes on with the event it has, rereads its subscription, takes a
\* new event, or ends.
LEMMA HandlerAfter ==
  ASSUME TypeOK, Offers, Customers, Queued, InHandIsGood,
         NEW h \in Handlers, HandlerFails(h) \/ Handle(h) \/ \E p \in Orgs : Deliver(h, p)
  PROVE  /\ handler' \in [Handlers -> Handler]
         /\ \A g \in Handlers \ {h} : handler'[g] = handler[g]
         /\ handler'[h].at # "idle" => handler'[h].event \in GoodEvents
         /\ handler'[h].at \in {"record", "dun"} => handler'[h].org = OrgOf[handler'[h].event.of]
<1> DEFINE Good(x) == /\ x.at # "idle" => x.event \in GoodEvents
                      /\ x.at \in {"record", "dun"} => x.org = OrgOf[x.event.of]
<1>0. /\ handler \in [Handlers -> Handler] /\ handler[h] \in Handler
      /\ mirror \in [Orgs -> Mirror] /\ stripe \in [Checkouts -> Subscription]
  BY DEF TypeOK
<1>g. handler[h].at # "idle" => handler[h].event \in GoodEvents
  BY DEF InHandIsGood
<1>1. ASSUME NEW x \in Handler, handler' = [handler EXCEPT ![h] = x], Good(x)
      PROVE  /\ handler' \in [Handlers -> Handler]
             /\ \A g \in Handlers \ {h} : handler'[g] = handler[g]
             /\ handler'[h].at # "idle" => handler'[h].event \in GoodEvents
             /\ handler'[h].at \in {"record", "dun"} => handler'[h].org = OrgOf[handler'[h].event.of]
  <2> HIDE DEF Good
  <2>1. handler'[h] = x
    BY <1>0, <1>1
  <2>2. Good(handler'[h])
    BY <1>1, <2>1
  <2> QED
    BY <1>0, <1>1, <2>2 DEF Good
<1>2. IdleHandler \in Handler /\ IdleHandler.at = "idle"
  BY DEF IdleHandler, Handler
<1>3. Answer(h) \/ Throw(h) =>
        \E x \in Handler : handler' = [handler EXCEPT ![h] = x] /\ Good(x)
  BY <1>2 DEF Answer, Throw
<1>4. ASSUME NEW at \in {"customer", "sub"}, NEW aim \in {"record", "dun"}, handler[h].at # "idle",
             NEW x, x = [handler[h] EXCEPT !.at = at, !.aim = aim]
      PROVE  x \in Handler /\ Good(x)
  BY <1>0, <1>g, <1>4 DEF Handler
<1>5. CASE \E p \in Orgs : Deliver(h, p)
  <2>1. PICK o \in Orgs : \E i \in DOMAIN queue[o] :
          handler' = [handler EXCEPT ![h] =
              [IdleHandler EXCEPT !.at = FirstStep(queue[o][i].type), !.event = queue[o][i]]]
    BY <1>5 DEF Deliver
  <2>2. PICK i \in DOMAIN queue[o] :
          handler' = [handler EXCEPT ![h] =
              [IdleHandler EXCEPT !.at = FirstStep(queue[o][i].type), !.event = queue[o][i]]]
    BY <2>1
  <2> DEFINE e == queue[o][i]
             x == [IdleHandler EXCEPT !.at = FirstStep(e.type), !.event = e]
  <2>3. e \in GoodEvents
    <3>1. queue[o] \in Seq(GoodEvents)
      BY DEF Queued
    <3> QED
      BY <3>1, Removed
  <2>4. e \in Event /\ FirstStep(e.type) \in {"fetch", "sync", "customer"}
    BY <2>3 DEF GoodEvents, Event, FirstStep
  <2>5. handler' = [handler EXCEPT ![h] = x]
    BY <2>2
  <2> HIDE DEF e
  <2>6. x \in Handler /\ x.event = e /\ x.at \in {"fetch", "sync", "customer"}
    BY <2>4, <1>2 DEF Handler
  <2> HIDE DEF x
  <2> QED
    BY <1>1, <2>3, <2>5, <2>6
<1>6. CASE HandlerFails(h)
  BY <1>1, <1>3, <1>6 DEF HandlerFails
<1>7. CASE Fetch(h)
  <2> DEFINE e == handler[h].event
             s == stripe[e.of]
             f == [e EXCEPT !.sub = s]
             x == [handler[h] EXCEPT !.at = "sync", !.event = f]
  <2>1. e \in Event /\ e.of \in Checkouts /\ s \in Subscription /\ Paid(e.of) /\ s = stripe[e.of]
    BY <1>0, <1>7, <1>g DEF Fetch, GoodEvents, Event
  <2>2. handler' = [handler EXCEPT ![h] = x]
    <3>1. handler' = [handler EXCEPT ![h].at = "sync", ![h].event.sub = s]
      BY <1>7 DEF Fetch
    <3> HIDE DEF s
    <3> QED
      BY <1>0, <3>1 DEF Handler
  <2> HIDE DEF e, s
  <2>3. f \in Event /\ f.of = e.of /\ f.sub = s
    BY <2>1 DEF Event
  <2> HIDE DEF f
  <2>4. f \in GoodEvents
    BY <2>1, <2>3 DEF GoodEvents, Paid
  <2>5. x \in Handler /\ x.at = "sync" /\ x.event = f
    BY <1>0, <2>3 DEF Handler
  <2> HIDE DEF x
  <2> QED
    BY <1>1, <2>2, <2>4, <2>5
<1>8. CASE SyncSubscription(h)
  BY <1>1, <1>3, <1>8 DEF SyncSubscription
<1>9. ASSUME NEW o \in Orgs, Found(h, o), handler[h].at # "idle", o = OrgOf[handler[h].event.of]
      PROVE  \E x \in Handler : handler' = [handler EXCEPT ![h] = x] /\ Good(x)
  <2> DEFINE x == [handler[h] EXCEPT !.at = handler[h].aim, !.org = o]
  <2>1. handler' = [handler EXCEPT ![h] = x]
    BY <1>0, <1>9 DEF Found
  <2>2. x \in Handler /\ Good(x)
    BY <1>0, <1>g, <1>9 DEF Handler
  <2> HIDE DEF x, Good
  <2> QED
    BY <2>1, <2>2
<1>10. CASE ResolveByCustomer(h)
  <2> DEFINE e == handler[h].event
  <2>1. /\ handler[h].at = "customer" /\ e.of \in Checkouts /\ checkout[e.of].at = "open"
    BY <1>10, <1>g DEF ResolveByCustomer, GoodEvents, Event, Offers
  <2>2. /\ checkout[e.of].customer \in Checkouts /\ OrgOf[checkout[e.of].customer] = OrgOf[e.of]
    BY <2>1 DEF Customers
  <2>3. CASE \E o \in Orgs : mirror[o].customer = checkout[e.of].customer /\ Found(h, o)
    <3>1. PICK o \in Orgs : mirror[o].customer = checkout[e.of].customer /\ Found(h, o)
      BY <2>3
    <3>2. o = OrgOf[e.of]
      BY <2>2, <3>1, BillingAssumption DEF Customers
    <3> HIDE DEF Good
    <3> QED
      BY <1>1, <1>9, <2>1, <3>1, <3>2
  <2>4. CASE handler' = [handler EXCEPT ![h].at = "sub"]
    <3> DEFINE x == [handler[h] EXCEPT !.at = "sub", !.aim = handler[h].aim]
    <3>1. x \in Handler /\ Good(x)
      BY <1>0, <1>4, <2>1 DEF Handler
    <3>2. handler' = [handler EXCEPT ![h] = x]
      BY <1>0, <2>4 DEF Handler
    <3> HIDE DEF x, Good
    <3> QED
      BY <1>1, <3>1, <3>2
  <2> QED
    BY <1>10, <2>3, <2>4 DEF ResolveByCustomer
<1>11. CASE ResolveBySub(h)
  <2> DEFINE e == handler[h].event
  <2>1. handler[h].at = "sub" /\ e.of \in Checkouts
    BY <1>11, <1>g DEF ResolveBySub, GoodEvents, Event
  <2>2. CASE \E o \in Orgs : mirror[o].sub = e.of /\ Found(h, o)
    <3>1. PICK o \in Orgs : mirror[o].sub = e.of /\ Found(h, o)
      BY <2>2
    <3>2. o = OrgOf[e.of]
      BY <2>1, <3>1, BillingAssumption DEF Customers
    <3> HIDE DEF Good
    <3> QED
      BY <1>1, <1>9, <2>1, <3>1, <3>2
  <2>3. CASE handler' = [handler EXCEPT ![h].at = "customer", ![h].aim = "dun"]
    <3> DEFINE x == [handler[h] EXCEPT !.at = "customer", !.aim = "dun"]
    <3>1. x \in Handler /\ Good(x)
      BY <1>4, <2>1
    <3>2. handler' = [handler EXCEPT ![h] = x]
      BY <1>0, <2>3 DEF Handler
    <3> HIDE DEF x, Good
    <3> QED
      BY <1>1, <3>1, <3>2
  <2>4. CASE Answer(h)
    BY <1>1, <1>3, <2>4
  <2> QED
    BY <1>11, <2>2, <2>3, <2>4 DEF ResolveBySub, NotFound
<1>12. CASE RecordInvoice(h)
  <2>1. CASE Answer(h) \/ Throw(h)
    BY <1>1, <1>3, <2>1
  <2>2. CASE handler' = [handler EXCEPT ![h].at = "customer", ![h].aim = "dun", ![h].org = NoOrg]
    <3> DEFINE x == [handler[h] EXCEPT !.at = "customer", !.aim = "dun", !.org = NoOrg]
    <3>1. handler[h].event \in GoodEvents
      BY <1>12, <1>g DEF RecordInvoice
    <3>2. x \in Handler /\ Good(x)
      BY <1>0, <3>1 DEF Handler
    <3>3. handler' = [handler EXCEPT ![h] = x]
      BY <1>0, <2>2 DEF Handler
    <3> HIDE DEF x, Good
    <3> QED
      BY <1>1, <3>2, <3>3
  <2> QED
    BY <1>12, <2>1, <2>2 DEF RecordInvoice
<1>13. CASE MarkPastDue(h)
  BY <1>1, <1>3, <1>13 DEF MarkPastDue
<1> QED
  BY <1>5, <1>6, <1>7, <1>8, <1>10, <1>11, <1>12, <1>13 DEF Handle

LEMMA HandlersKept ==
  ASSUME TypeOK, Offers, Customers, Queued, InHandIsGood, Next
  PROVE  handler' \in [Handlers -> Handler] /\ InHandIsGood'
<1>1. CASE UNCHANGED handler
  BY <1>1, GoodEventsGrow DEF TypeOK, InHandIsGood
<1>2. CASE \E h \in Handlers : HandlerFails(h) \/ Handle(h) \/ \E o \in Orgs : Deliver(h, o)
  BY <1>2, HandlerAfter, GoodEventsGrow DEF InHandIsGood
<1> QED
  BY <1>1, <1>2 DEF Next, CheckoutStep, StartCheckout, CreateCustomer, StoreCustomer,
     CreateSession, AsksNothing, StripeStep, Pay, Upgrade, Lapse, Recover, Cancel,
     DeleteOrganization

\* An invoice is recorded for the organization that was found.
LEMMA InvoicesKept ==
  ASSUME TypeOK, InHandIsGood, OwnPaymentsOnly, Next
  PROVE  /\ invoice' \in [Invoices -> [org : Orgs \cup {NoOrg}, status : InvoiceStatus]]
         /\ \A i \in Invoices : invoice'[i].org \in {OrgOf[i[1]], NoOrg}
<1>0. invoice \in [Invoices -> [org : Orgs \cup {NoOrg}, status : InvoiceStatus]]
  BY DEF TypeOK
<1>1. CASE UNCHANGED invoice
  BY <1>0, <1>1 DEF OwnPaymentsOnly
<1>2. ASSUME NEW h \in Handlers, RecordInvoice(h), ~ UNCHANGED invoice
      PROVE  /\ invoice' \in [Invoices -> [org : Orgs \cup {NoOrg}, status : InvoiceStatus]]
             /\ \A i \in Invoices : invoice'[i].org \in {OrgOf[i[1]], NoOrg}
  <2>e. PICK e : e = handler[h].event
    OBVIOUS
  <2>1. e \in Event /\ handler[h].org = OrgOf[e.of]
    BY <1>2, <2>e DEF RecordInvoice, InHandIsGood, GoodEvents
  <2>2. e.of \in Checkouts /\ e.n \in {1, 2} /\ e.status \in InvoiceStatus /\ OrgOf[e.of] \in Orgs
    BY <2>1, BillingAssumption DEF Event
  <2>3. invoice' = [invoice EXCEPT ![<<e.of, e.n>>] = [org |-> OrgOf[e.of], status |-> e.status]]
    BY <1>2, <2>e, <2>1 DEF RecordInvoice
  <2>4. <<e.of, e.n>> \in Invoices
    BY <2>2 DEF Invoices
  <2> QED
    BY <1>0, <2>2, <2>3, <2>4 DEF OwnPaymentsOnly
<1>3. CASE \E o \in Orgs : DeleteOrganization(o)
  BY <1>0, <1>3 DEF DeleteOrganization, OwnPaymentsOnly, NoInvoice, InvoiceStatus
<1> QED
  BY <1>1, <1>2, <1>3 DEF Next, CheckoutStep, StartCheckout, CreateCustomer, StoreCustomer,
     CreateSession, AsksNothing, StripeStep, Pay, Upgrade, Lapse, Recover, Cancel, ours, Deliver,
     HandlerFails, Handle, Fetch, SyncSubscription, ResolveByCustomer, ResolveBySub, MarkPastDue

LEMMA FaultsKept == ASSUME TypeOK, Next PROVE faults' \in 0..MaxFaults
<1>1. faults' = faults \/ (faults < MaxFaults /\ faults' = faults + 1)
  BY DEF Next, CheckoutStep, StartCheckout, CreateCustomer, StoreCustomer, CreateSession,
     AsksNothing, StripeStep, Pay, Upgrade, Lapse, Recover, Cancel, DeleteOrganization, Deliver,
     HandlerFails, Handle, Fetch, SyncSubscription, ResolveByCustomer, ResolveBySub, RecordInvoice, MarkPastDue
<1> QED
  BY <1>1, BillingAssumption DEF TypeOK

LEMMA AliveKept == ASSUME TypeOK, Next PROVE alive' \in [Orgs -> BOOLEAN]
<1>1. CASE UNCHANGED alive
  BY <1>1 DEF TypeOK
<1>2. CASE \E o \in Orgs : DeleteOrganization(o)
  BY <1>2 DEF DeleteOrganization, TypeOK
<1> QED
  BY <1>1, <1>2 DEF Next, CheckoutStep, StartCheckout, CreateCustomer, StoreCustomer,
     CreateSession, AsksNothing, StripeStep, Pay, Upgrade, Lapse, Recover, Cancel, ours, Deliver,
     HandlerFails, Handle, Fetch, SyncSubscription, ResolveByCustomer, ResolveBySub,
     RecordInvoice, MarkPastDue

-----------------------------------------------------------------------------
(* The theorems. *)

LEMMA Initially == Init => IInv
<1> SUFFICES ASSUME Init PROVE IInv
  OBVIOUS
<1>1. TypeOK
  <2>1. NoMirror \in Mirror /\ "free" \in Tier
    BY DEF NoMirror, Mirror, Tier
  <2>2. IdleHandler \in Handler
    BY DEF IdleHandler, Handler
  <2>3. \A k \in Checkouts : [status |-> "none", tier |-> TierOf[k]] \in Subscription
    BY BillingAssumption DEF Subscription
  <2>4. [at |-> "idle", customer |-> NoCheckout] \in Checkout
    BY DEF Checkout
  <2>5. "none" \in InvoiceStatus
    BY DEF InvoiceStatus
  <2>6. <<>> \in Seq(Event)
    OBVIOUS
  <2>7. /\ mirror \in [Orgs -> Mirror] /\ planTier \in [Orgs -> Tier]
        /\ queue \in [Orgs -> Seq(Event)] /\ handler \in [Handlers -> Handler]
    BY <2>1, <2>2, <2>6 DEF Init
  <2>8. /\ stripe \in [Checkouts -> Subscription] /\ checkout \in [Checkouts -> Checkout]
        /\ billed \in [Invoices -> InvoiceStatus]
    BY <2>3, <2>4, <2>5 DEF Init
  <2>9. invoice \in [Invoices -> [org : Orgs \cup {NoOrg}, status : InvoiceStatus]]
    BY <2>5 DEF Init, NoInvoice
  <2> QED
    BY <2>7, <2>8, <2>9, BillingAssumption DEF Init, TypeOK
<1>2. Offers /\ Customers
  BY BillingAssumption DEF Init, Offers, Customers, Paid, NoMirror
<1>3. Queued
  <2>1. <<>> \in Seq(GoodEvents)
    OBVIOUS
  <2> QED
    BY <2>1 DEF Init, Queued
<1>4. InHandIsGood
  BY DEF Init, InHandIsGood, IdleHandler
<1>5. PlanIsMirrored /\ OwnPaymentsOnly
  BY DEF Init, PlanIsMirrored, OwnPaymentsOnly, NoMirror, NoInvoice
<1> QED
  BY <1>1, <1>2, <1>3, <1>4, <1>5 DEF IInv

LEMMA Invariance == IInv /\ [Next]_vars => IInv'
<1> SUFFICES ASSUME IInv, [Next]_vars PROVE IInv'
  OBVIOUS
<1>1. CASE Next
  <2> USE <1>1 DEF IInv
  <2>1. TypeOK'
    BY StripeAfter, CheckoutsAfter, RowsKept, QueueKept, HandlersKept, InvoicesKept, FaultsKept,
       AliveKept DEF TypeOK
  <2>2. Customers'
    BY CheckoutsAfter, RowsKept DEF Customers
  <2>3. Offers' /\ Queued' /\ InHandIsGood'
    BY OffersKept, QueueKept, HandlersKept
  <2>4. PlanIsMirrored'
    BY RowsKept DEF PlanIsMirrored
  <2>5. OwnPaymentsOnly'
    BY PlansAreOwn, InvoicesKept DEF OwnPaymentsOnly, Paid, Of
  <2> QED
    BY <2>1, <2>2, <2>3, <2>4, <2>5
<1>2. CASE UNCHANGED vars
  BY <1>2 DEF vars, IInv, TypeOK, Offers, Customers, Queued, GoodEvents, Paid, InHandIsGood,
     PlanIsMirrored, OwnPaymentsOnly
<1> QED
  BY <1>1, <1>2

\* Rows, requests, events and what Stripe holds keep their types.
THEOREM TypeCorrect == Spec => []TypeOK
<1>1. IInv => TypeOK
  BY DEF IInv
<1> QED
  BY Initially, Invariance, <1>1, PTL DEF Spec

\* syncSubscription, ensureCustomer and markPastDue leave the plan that limits
\* are read from equal to the one of the row, in whatever order they come.
THEOREM PlanMirrored == Spec => []PlanIsMirrored
<1>1. IInv => PlanIsMirrored
  BY DEF IInv
<1> QED
  BY Initially, Invariance, <1>1, PTL DEF Spec

\* resolveOrgId and the metadata lead to the organization that paid, whatever
\* customers its checkouts create and whatever events say when they come late.
THEOREM OwnPayments == Spec => []OwnPaymentsOnly
<1>1. IInv => OwnPaymentsOnly
  BY DEF IInv
<1> QED
  BY Initially, Invariance, <1>1, PTL DEF Spec

-----------------------------------------------------------------------------
(* The AI quota, which the plan that Billing writes decides: Generation, for  *)
(* any number of overlapping requests, any quotas, window and clock.        *)

AI == INSTANCE Generation

\* The rows of a log s in the window that ends at t.
RecentOf(s, t) == {i \in DOMAIN s : s[i] >= t - Window}

\* Those that have been let through and not recorded yet.
Busy == {r \in Requests : req[r].at \in {"ask", "record"}}

\* Rows are written in the order of the clock.
LogSorted ==
    /\ \A i \in DOMAIN log : log[i] <= now
    /\ \A i, k \in DOMAIN log : i < k => log[i] <= log[k]

\* The guard measures by a quota the organization has had; and a request q that
\* works out when to come back counted the rows there were at some time.
GuardRead(q, s, time, most) ==
    /\ q.at \in {"count", "reset"} => q.limit \in 1 .. most
    /\ q.at = "reset" =>
          /\ q.limit <= q.used /\ q.rows <= Len(s)
          /\ \E t \in 0 .. time :
                Cardinality({i \in 1 .. q.rows : s[i] >= t - Window}) = q.used

\* OvershootBounded and ResetKept.
Overshoot ==
    Cardinality(RecentOf(log, now)) + Cardinality(Busy) <= peak + Cardinality(Requests) - 1

Kept(answer, s) ==
    answer.at > 0 =>
        Cardinality({i \in RecentOf(s, answer.at + 1) : i <= answer.rows}) < answer.limit

QuotaInv ==
    /\ AI!TypeOK /\ LogSorted
    /\ \A r \in Requests : GuardRead(req[r], log, now, peak)
    /\ Quota[plan] \in 1 .. peak
    /\ Overshoot
    /\ told.rows <= Len(log) /\ Kept(told, log)

-----------------------------------------------------------------------------
(* Windows of a sorted log. *)

LEMMA SameCardinality ==
    ASSUME NEW S
    PROVE  AI!Cardinality(S) = Cardinality(S)
  BY DEF AI!Cardinality, Cardinality

LEMMA IntervalFromOne ==
    ASSUME NEW n \in Nat
    PROVE  IsFiniteSet(1 .. n) /\ Cardinality(1 .. n) = n
<1>1. 1 \in Int /\ n \in Int
  OBVIOUS
<1>2. IsFiniteSet(1 .. n) /\ Cardinality(1 .. n) = IF 1 > n THEN 0 ELSE n - 1 + 1
  BY <1>1, FS_Interval
<1> QED  BY <1>2

LEMMA IntervalAtEnd ==
    ASSUME NEW n \in Nat, NEW c \in 0 .. n
    PROVE  IsFiniteSet((n - c + 1) .. n) /\ Cardinality((n - c + 1) .. n) = c
<1> DEFINE a == n - c + 1
<1>1. a \in Int /\ n \in Int
  OBVIOUS
<1>2. IsFiniteSet(a .. n) /\ Cardinality(a .. n) = IF a > n THEN 0 ELSE n - a + 1
  BY <1>1, FS_Interval
<1> QED  BY <1>2

LEMMA RecentFinite ==
    ASSUME NEW s \in Seq(Nat), NEW t
    PROVE  /\ IsFiniteSet(RecentOf(s, t)) /\ RecentOf(s, t) \subseteq 1 .. Len(s)
           /\ Cardinality(RecentOf(s, t)) \in 0 .. Len(s)
<1>1. RecentOf(s, t) \subseteq 1 .. Len(s) /\ Len(s) \in Nat
  BY DEF RecentOf
<1>2. IsFiniteSet(1 .. Len(s)) /\ Cardinality(1 .. Len(s)) = Len(s)
  BY <1>1, IntervalFromOne
<1>3. /\ IsFiniteSet(RecentOf(s, t))
      /\ Cardinality(RecentOf(s, t)) <= Len(s)
  BY <1>1, <1>2, FS_Subset
<1>4. Cardinality(RecentOf(s, t)) \in Nat
  BY <1>3, FS_CardinalityType
<1> QED  BY <1>1, <1>3, <1>4

\* The window of a sorted log is its end.
LEMMA RecentIsEnd ==
    ASSUME NEW s \in Seq(Nat), NEW t \in Int, Window \in Nat,
           \A i, k \in DOMAIN s : i < k => s[i] <= s[k]
    PROVE  RecentOf(s, t) = (Len(s) - Cardinality(RecentOf(s, t)) + 1) .. Len(s)
<1> DEFINE S == RecentOf(s, t)
           n == Len(s)
           c == Cardinality(S)
           T == (n - c + 1) .. n
<1>1. IsFiniteSet(S) /\ S \subseteq 1 .. n /\ c \in 0 .. n /\ n \in Nat
  BY RecentFinite
<1>2. ASSUME NEW i \in S
      PROVE  i >= n - c + 1
  <2>1. i \in 1 .. n /\ s[i] >= t - Window
    BY <1>1 DEF RecentOf
  <2>2. i .. n \subseteq S
    <3> SUFFICES ASSUME NEW k \in i .. n
                 PROVE  k \in S
      OBVIOUS
    <3>1. k \in 1 .. n /\ DOMAIN s = 1 .. n
      BY <2>1
    <3>2. s[i] \in Nat /\ s[k] \in Nat /\ s[i] <= s[k]
      <4>1. CASE i = k
        BY <2>1, <3>1, <4>1
      <4>2. CASE i # k
        BY <2>1, <3>1, <4>2
      <4> QED  BY <4>1, <4>2
    <3>3. s[k] >= t - Window
      BY <2>1, <3>2
    <3> QED  BY <3>1, <3>3 DEF RecentOf
  <2>3. Cardinality(i .. n) = n - i + 1
    BY <1>1, <2>1, FS_Interval
  <2>4. Cardinality(i .. n) <= c
    BY <1>1, <2>2, FS_Subset
  <2> QED  BY <1>1, <2>1, <2>3, <2>4
<1>3. S \subseteq T
  BY <1>1, <1>2
<1>4. IsFiniteSet(T) /\ Cardinality(T) = c
  BY <1>1, IntervalAtEnd
<1> HIDE DEF S, T
<1>5. S = T
  BY <1>3, <1>4, FS_Subset DEF c
<1> QED  BY <1>5 DEF S, T

\* Hence, when more than d rows are in the window, some row of it has exactly d
\* of them before it.
LEMMA RowByPlace ==
    ASSUME NEW s \in Seq(Nat), NEW t \in Int, Window \in Nat,
           \A i, k \in DOMAIN s : i < k => s[i] <= s[k],
           NEW d \in Nat, d < Cardinality(RecentOf(s, t))
    PROVE  \E i \in RecentOf(s, t) : Cardinality({k \in RecentOf(s, t) : k < i}) = d
<1> DEFINE S == RecentOf(s, t)
           n == Len(s)
           c == Cardinality(S)
           i == n - c + 1 + d
<1>1. c \in 0 .. n /\ n \in Nat /\ S = (n - c + 1) .. n
  BY RecentFinite, RecentIsEnd
<1> HIDE DEF S, c
<1>2. i \in S
  BY <1>1 DEF c, S
<1>3. i \in Int /\ i <= n
  BY <1>1, <1>2
<1>4. {k \in S : k < i} = (n - c + 1) .. (i - 1)
  <2> DEFINE a == n - c + 1
  <2>1. a \in Int /\ S = a .. n
    BY <1>1
  <2> HIDE DEF a, i
  <2>2. \A k : k \in a .. n /\ k < i <=> k \in a .. (i - 1)
    BY <1>1, <1>3, <2>1
  <2>3. {k \in S : k < i} = a .. (i - 1)
    BY <2>1, <2>2
  <2> QED  BY <2>3 DEF a, i
<1>5. Cardinality((n - c + 1) .. (i - 1)) = d
  <2>1. n - c + 1 \in Int /\ i - 1 \in Int /\ i - 1 = n - c + d
    BY <1>1, <1>3
  <2>2. Cardinality((n - c + 1) .. (i - 1))
           = IF n - c + 1 > i - 1 THEN 0 ELSE (i - 1) - (n - c + 1) + 1
    BY <2>1, FS_Interval
  <2> QED  BY <1>1, <2>1, <2>2
<1> QED  BY <1>2, <1>4, <1>5 DEF S

\* resolveResetAt: whatever was recorded or grew old since the rows were
\* counted, too few of those are left when the time it names is past.
LEMMA RefusalKept ==
    ASSUME AI!TypeOK, LogSorted,
           NEW rows \in Nat, rows <= Len(log), NEW t \in 0 .. now,
           NEW limit \in Nat \ {0}, NEW used \in Nat, limit <= used,
           Cardinality({i \in 1 .. rows : log[i] >= t - Window}) = used
    PROVE  /\ AI!ResetAt(used, limit) \in Nat
           /\ Cardinality({i \in RecentOf(log, AI!ResetAt(used, limit) + 1) : i <= rows}) < limit
<1> DEFINE at == AI!ResetAt(used, limit)
           S == AI!Recent(now)
           C == {i \in 1 .. rows : log[i] >= t - Window}
           D == {i \in RecentOf(log, at + 1) : i <= rows}
           d == used - limit
<1>1. /\ log \in Seq(Nat) /\ now \in Nat /\ Window \in Nat \ {0} /\ t \in Nat /\ t <= now
      /\ DOMAIN log = 1 .. Len(log) /\ Len(log) \in Nat
      /\ \A i \in 1 .. Len(log) : log[i] \in Nat /\ log[i] <= now
      /\ \A i, k \in 1 .. Len(log) : i < k => log[i] <= log[k]
  BY MeteringAssumption DEF AI!TypeOK, LogSorted
<1>2. S = RecentOf(log, now) /\ S \subseteq 1 .. Len(log)
  BY <1>1 DEF RecentOf, AI!Recent
<1>7. at = IF d >= AI!Cardinality(S) THEN now + Window
           ELSE log[CHOOSE i \in S : AI!Cardinality({k \in S : k < i}) = d] + Window
  BY DEF AI!ResetAt
<1> HIDE DEF at, S
<1>3. IsFiniteSet(S) /\ Cardinality(S) \in Nat /\ d \in Nat
  BY <1>1, <1>2, RecentFinite
<1>4. IsFiniteSet(C) /\ Cardinality(C) = used
  <2>1. IsFiniteSet(1 .. rows)
    BY IntervalFromOne
  <2>2. C \subseteq 1 .. rows
    OBVIOUS
  <2> QED  BY <2>1, <2>2, FS_Subset
<1>5. CASE d >= Cardinality(S)
  <2>1. at = now + Window
    BY <1>5, <1>7, SameCardinality
  <2>2. at \in Nat
    BY <1>1, <2>1
  <2>3. D = {}
    <3> SUFFICES ASSUME NEW i \in D
                 PROVE  FALSE
      OBVIOUS
    <3>1. i \in 1 .. Len(log) /\ log[i] >= at + 1 - Window
      BY <1>1, <2>2 DEF RecentOf
    <3>2. log[i] \in Nat /\ log[i] <= now
      BY <1>1, <3>1
    <3> QED  BY <1>1, <2>1, <3>1, <3>2
  <2>4. Cardinality(D) = 0
    BY <2>3, FS_EmptySet
  <2> QED  BY <2>2, <2>4 DEF at
<1>6. CASE ~(d >= Cardinality(S))
  <2> DEFINE IsTurn(i) == AI!Cardinality({k \in S : k < i}) = d
             e == CHOOSE i \in S : IsTurn(i)
             E == {k \in S : k < e}
  <2>1. \E i \in S : IsTurn(i)
    <3>1. d < Cardinality(S)
      BY <1>3, <1>6
    <3>2. \A i, k \in DOMAIN log : i < k => log[i] <= log[k]
      BY <1>1
    <3>3. now \in Int /\ Window \in Nat
      BY <1>1
    <3> HIDE DEF d, C, D
    <3>0. log \in Seq(Nat) /\ d \in Nat /\ d < Cardinality(RecentOf(log, now))
      BY <1>1, <1>2, <1>3, <3>1
    <3>4. \E i \in RecentOf(log, now) : Cardinality({k \in RecentOf(log, now) : k < i}) = d
      BY <3>0, <3>2, <3>3, RowByPlace
    <3> QED  BY <1>2, <3>4, SameCardinality
  <2>2. e \in S /\ Cardinality(E) = d
    BY <2>1, SameCardinality
  <2>3. at = log[e] + Window
    BY <1>6, <1>7, SameCardinality
  <2> HIDE DEF e
  <2>4. e \in 1 .. Len(log) /\ log[e] \in Nat /\ log[e] >= now - Window
    BY <1>1, <1>2, <2>2 DEF RecentOf
  <2>5. at \in Nat
    BY <1>1, <2>3, <2>4
  <2>6. ASSUME NEW i \in D
        PROVE  i \in 1 .. rows /\ i > e /\ i \in C
    <3>1. i \in 1 .. Len(log) /\ log[i] >= at + 1 - Window /\ i <= rows
      BY <1>1, <2>5 DEF RecentOf
    <3>2. log[i] \in Nat /\ log[i] > log[e]
      BY <1>1, <2>3, <2>4, <3>1
    <3>3. i # e /\ ~(i < e)
      <4>1. ~(i < e) \/ log[i] <= log[e]
        BY <1>1, <2>4, <3>1
      <4> QED  BY <2>4, <3>2, <4>1
    <3>4. i > e /\ i \in 1 .. rows
      BY <2>4, <3>1, <3>3
    <3>5. log[i] >= t - Window
      BY <1>1, <2>4, <3>2
    <3> QED  BY <3>4, <3>5
  <2>7. CASE e > rows
    <3>1. D = {}
      BY <2>4, <2>6, <2>7
    <3>2. Cardinality(D) = 0
      BY <3>1, FS_EmptySet
    <3> HIDE DEF D
    <3> QED  BY <2>5, <3>2 DEF at, D
  <2>8. CASE ~(e > rows)
    <3> DEFINE B == E \cup {e}
    <3>1. IsFiniteSet(E)
      BY <1>3, FS_Subset
    <3>2. IsFiniteSet(B) /\ Cardinality(B) = d + 1
      <4>1. e \notin E
        BY <1>2, <2>4
      <4> HIDE DEF E
      <4> QED  BY <2>2, <3>1, <4>1, FS_AddElement
    <3>3. B \subseteq C
      <4> SUFFICES ASSUME NEW i \in B
                   PROVE  i \in C
        OBVIOUS
      <4>1. i \in S /\ i <= e
        BY <2>2, <2>4
      <4>2. i \in 1 .. Len(log) /\ log[i] \in Nat /\ log[i] >= now - Window
        BY <1>1, <1>2, <4>1 DEF RecentOf
      <4> QED  BY <1>1, <2>4, <2>8, <4>1, <4>2
    <3>4. D \subseteq C /\ D \cap B = {}
      BY <2>4, <2>6
    <3> HIDE DEF B, C, D
    <3>5. D \subseteq C \ B
      BY <3>4
    <3>6. IsFiniteSet(C \ B) /\ Cardinality(C \ B) = used - (d + 1)
      <4>1. C \cap B = B
        BY <3>3
      <4>2. IsFiniteSet(C \ B) /\ Cardinality(C \ B) = Cardinality(C) - Cardinality(C \cap B)
        BY <1>4, FS_Difference
      <4> QED  BY <1>4, <3>2, <4>1, <4>2
    <3>7. IsFiniteSet(D) /\ Cardinality(D) <= used - (d + 1)
      BY <3>5, <3>6, FS_Subset
    <3>8. Cardinality(D) \in Nat
      BY <3>7, FS_CardinalityType
    <3>9. Cardinality(D) < limit
      BY <3>7, <3>8
    <3> QED  BY <2>5, <3>9 DEF at, D
  <2> QED  BY <2>7, <2>8
<1> QED  BY <1>5, <1>6

-----------------------------------------------------------------------------
(* The steps. *)

LEMMA QuotaFacts ==
    ASSUME QuotaInv
    PROVE  /\ log \in Seq(Nat) /\ now \in Nat /\ peak \in Nat /\ Window \in Nat \ {0}
           /\ \A i \in 1 .. Len(log) : log[i] \in Nat /\ log[i] <= now
           /\ Len(log) \in Nat /\ req \in [Requests -> AI!Request] /\ told \in AI!Refusal
           /\ IsFiniteSet(Busy) /\ Cardinality(Busy) \in Nat
           /\ Cardinality(Requests) \in Nat /\ Cardinality(Busy) <= Cardinality(Requests)
           /\ Cardinality(RecentOf(log, now)) \in Nat
<1>1. /\ log \in Seq(Nat) /\ now \in Nat /\ peak \in Nat /\ Window \in Nat \ {0}
      /\ DOMAIN log = 1 .. Len(log) /\ Len(log) \in Nat
      /\ req \in [Requests -> AI!Request] /\ told \in AI!Refusal
  BY MeteringAssumption DEF QuotaInv, AI!TypeOK
<1>2. \A i \in 1 .. Len(log) : log[i] \in Nat /\ log[i] <= now
  BY <1>1 DEF QuotaInv, LogSorted
<1>3. IsFiniteSet(Requests) /\ Cardinality(Requests) \in Nat
  BY FS_CardinalityType, MeteringAssumption
<1>4. Busy \subseteq Requests
  BY DEF Busy
<1>5. IsFiniteSet(Busy) /\ Cardinality(Busy) <= Cardinality(Requests)
  BY <1>3, <1>4, FS_Subset
<1>6. Cardinality(Busy) \in Nat
  BY <1>5, FS_CardinalityType
<1>7. Cardinality(RecentOf(log, now)) \in Nat
  BY <1>1, RecentFinite
<1> QED  BY <1>1, <1>2, <1>3, <1>5, <1>6, <1>7

\* A step of one request that writes no row.
LEMMA RequestStep ==
    ASSUME QuotaInv, NEW r \in Requests, NEW q \in AI!Request,
           req' = [req EXCEPT ![r] = q], UNCHANGED <<now, log, plan, peak>>,
           GuardRead(q, log, now, peak),
           q.at \in {"ask", "record"} =>
              r \in Busy \/ Cardinality(RecentOf(log, now)) < peak,
           told' \in AI!Refusal, told'.rows <= Len(log), Kept(told', log)
    PROVE  QuotaInv'
<1>0. /\ log' = log /\ now' = now /\ plan' = plan /\ peak' = peak
      /\ req \in [Requests -> AI!Request]
  BY QuotaFacts
<1>1. AI!TypeOK'
  BY <1>0 DEF QuotaInv, AI!TypeOK
<1>2. LogSorted'
  BY <1>0 DEF QuotaInv, LogSorted
<1>3. ASSUME NEW p \in Requests
      PROVE  GuardRead(req[p], log, now, peak)'
  <2>1. GuardRead(req'[p], log, now, peak)
    BY <1>0 DEF QuotaInv
  <2> QED  BY <1>0, <2>1 DEF GuardRead
<1>4. Overshoot'
  <2>1. RecentOf(log, now)' = RecentOf(log, now)
    BY <1>0 DEF RecentOf
  <2>2. CASE q.at \in {"ask", "record"} /\ r \notin Busy
    <3>1. Busy' = Busy \cup {r}
      BY <1>0, <2>2 DEF Busy
    <3>2. Cardinality(Busy') = Cardinality(Busy) + 1
      BY <2>2, <3>1, QuotaFacts, FS_AddElement
    <3>3. Busy \subseteq Requests \ {r}
      BY <2>2 DEF Busy
    <3>4. IsFiniteSet(Requests \ {r}) /\ Cardinality(Requests \ {r}) = Cardinality(Requests) - 1
      BY FS_RemoveElement, MeteringAssumption
    <3>5. Cardinality(Busy) <= Cardinality(Requests) - 1
      BY <3>3, <3>4, FS_Subset
    <3> QED  BY <1>0, <2>1, <2>2, <3>2, <3>5, QuotaFacts DEF Overshoot
  <2>3. CASE ~(q.at \in {"ask", "record"} /\ r \notin Busy)
    <3>1. Busy' \subseteq Busy
      BY <1>0, <2>3 DEF Busy
    <3>2. IsFiniteSet(Busy') /\ Cardinality(Busy') <= Cardinality(Busy)
      BY <3>1, QuotaFacts, FS_Subset
    <3>3. Cardinality(Busy') \in Nat
      BY <3>2, FS_CardinalityType
    <3> QED  BY <1>0, <2>1, <3>2, <3>3, QuotaFacts DEF Overshoot, QuotaInv
  <2> QED  BY <2>2, <2>3
<1>5. (told.rows <= Len(log) /\ Kept(told, log))'
  BY <1>0 DEF Kept, RecentOf
<1> QED  BY <1>0, <1>1, <1>2, <1>3, <1>4, <1>5 DEF QuotaInv

\* More time, another plan: windows only lose rows, and peaks only rise.
LEMMA AroundStep ==
    ASSUME QuotaInv, AI!Tick \/ AI!ChangePlan
    PROVE  QuotaInv'
<1>0. /\ log' = log /\ req' = req /\ told' = told /\ now \in Nat /\ peak \in Nat
      /\ now' \in Nat /\ now <= now' /\ peak' \in Nat /\ peak <= peak'
      /\ now' \in 0 .. MaxTime /\ plan' \in Tiers /\ Quota[plan'] \in 1 .. peak'
  <2>1. CASE AI!Tick
    BY <2>1, MeteringAssumption DEF AI!Tick, QuotaInv, AI!TypeOK
  <2>2. CASE AI!ChangePlan
    <3>1. PICK p \in Tiers : plan' = p /\ peak' = IF Quota[p] > peak THEN Quota[p] ELSE peak
      BY <2>2 DEF AI!ChangePlan
    <3>2. Quota[p] \in Nat \ {0} /\ peak \in Nat
      BY MeteringAssumption DEF QuotaInv, AI!TypeOK
    <3> QED  BY <2>2, <3>1, <3>2 DEF AI!ChangePlan, QuotaInv, AI!TypeOK
  <2> QED  BY <2>1, <2>2
<1>1. AI!TypeOK'
  BY <1>0 DEF QuotaInv, AI!TypeOK
<1>2. LogSorted'
  <2>1. \A i \in DOMAIN log : log[i] \in Nat /\ log[i] <= now
    BY QuotaFacts DEF QuotaInv, LogSorted
  <2>2. \A i \in DOMAIN log : log[i] <= now'
    BY <1>0, <2>1
  <2> QED  BY <1>0, <2>2 DEF QuotaInv, LogSorted
<1>3. ASSUME NEW p \in Requests
      PROVE  GuardRead(req[p], log, now, peak)'
  <2>1. GuardRead(req[p], log, now, peak)
    BY DEF QuotaInv
  <2>2. 0 .. now \subseteq 0 .. now' /\ 1 .. peak \subseteq 1 .. peak'
    BY <1>0
  <2>3. GuardRead(req[p], log, now', peak')
    BY <2>1, <2>2 DEF GuardRead
  <2> QED  BY <1>0, <2>3 DEF GuardRead
<1>4. Overshoot'
  <2>1. Busy' = Busy
    BY <1>0 DEF Busy
  <2>2. RecentOf(log, now') \subseteq RecentOf(log, now)
    <3>1. DOMAIN log = 1 .. Len(log)
      BY QuotaFacts
    <3> QED  BY <1>0, <3>1, QuotaFacts DEF RecentOf
  <2>3. /\ IsFiniteSet(RecentOf(log, now')) /\ Cardinality(RecentOf(log, now')) \in Nat
        /\ IsFiniteSet(RecentOf(log, now))
    BY <1>0, QuotaFacts, RecentFinite
  <2>4. Cardinality(RecentOf(log, now')) <= Cardinality(RecentOf(log, now))
    BY <2>2, <2>3, FS_Subset
  <2>5. RecentOf(log, now)' = RecentOf(log, now')
    BY <1>0 DEF RecentOf
  <2>6. Cardinality(RecentOf(log, now')) + Cardinality(Busy) <= peak' + Cardinality(Requests) - 1
    BY <1>0, <2>3, <2>4, QuotaFacts DEF QuotaInv, Overshoot
  <2> QED  BY <2>1, <2>5, <2>6 DEF Overshoot
<1>5. (told.rows <= Len(log) /\ Kept(told, log))'
  BY <1>0 DEF QuotaInv, Kept, RecentOf
<1> QED  BY <1>0, <1>1, <1>2, <1>3, <1>4, <1>5 DEF QuotaInv

LEMMA IdleRequest == AI!Idle \in AI!Request /\ AI!Idle.at = "idle"
  BY DEF AI!Idle, AI!Request

\* recordUsage: a row is written for one that was let through.
LEMMA RecordStep ==
    ASSUME QuotaInv, NEW r \in Requests, AI!RecordUsage(r)
    PROVE  QuotaInv'
<1>0. /\ req[r].at = "record" /\ req' = [req EXCEPT ![r] = AI!Idle]
      /\ log' \in {log, Append(log, now)}
      /\ now' = now /\ plan' = plan /\ peak' = peak /\ told' = told
  BY DEF AI!RecordUsage, AI!End
<1>1. CASE log' = log
  <2>1. GuardRead(AI!Idle, log, now, peak)
    BY IdleRequest DEF GuardRead
  <2>2. told' \in AI!Refusal /\ told'.rows <= Len(log) /\ Kept(told', log)
    BY <1>0, QuotaFacts DEF QuotaInv
  <2> QED  BY <1>0, <1>1, <2>1, <2>2, IdleRequest, RequestStep
<1>2. CASE log' = Append(log, now)
  <2> DEFINE s == Append(log, now)
             n == Len(log)
  <2>1. /\ log \in Seq(Nat) /\ now \in Nat /\ n \in Nat /\ now \in 0 .. MaxTime
        /\ log \in Seq(0 .. MaxTime)
    BY QuotaFacts DEF QuotaInv, AI!TypeOK
  <2>2. /\ s \in Seq(0 .. MaxTime) /\ s \in Seq(Nat) /\ Len(s) = n + 1 /\ s[n + 1] = now
        /\ \A i \in 1 .. n : s[i] = log[i]
        /\ DOMAIN s = 1 .. n + 1 /\ DOMAIN log = 1 .. n
    BY <2>1
  <2>3. log' = s
    BY <1>2
  <2> HIDE DEF s
  <2>4. AI!TypeOK'
    BY <1>0, <2>2, <2>3, IdleRequest DEF QuotaInv, AI!TypeOK
  <2>5. LogSorted'
    <3>1. \A i \in 1 .. n : log[i] \in Nat /\ log[i] <= now
      BY QuotaFacts
    <3>2. \A i, k \in 1 .. n : i < k => log[i] <= log[k]
      BY <2>2 DEF QuotaInv, LogSorted
    <3>3. \A i \in 1 .. n + 1 : s[i] <= now
      BY <2>1, <2>2, <3>1
    <3>4. ASSUME NEW i \in 1 .. n + 1, NEW k \in 1 .. n + 1, i < k
          PROVE  s[i] <= s[k]
      <4>1. i \in 1 .. n
        BY <2>1, <3>4
      <4>2. CASE k = n + 1
        BY <2>2, <3>1, <4>1, <4>2
      <4>3. CASE k # n + 1
        <5>1. k \in 1 .. n
          BY <2>1, <4>3
        <5> QED  BY <2>2, <3>2, <3>4, <4>1, <5>1
      <4> QED  BY <4>2, <4>3
    <3> QED  BY <1>0, <2>2, <2>3, <3>3, <3>4 DEF LogSorted
  <2>6. ASSUME NEW q \in AI!Request, GuardRead(q, log, now, peak)
        PROVE  GuardRead(q, s, now, peak)
    <3>1. q.at = "reset" => q.rows <= n /\ q.rows \in Nat
      BY <2>6 DEF GuardRead, AI!Request
    <3>2. ASSUME q.at = "reset", NEW t
          PROVE  {i \in 1 .. q.rows : s[i] >= t - Window} = {i \in 1 .. q.rows : log[i] >= t - Window}
      <4>1. 1 .. q.rows \subseteq 1 .. n
        BY <2>1, <3>1, <3>2
      <4> QED  BY <2>2, <4>1
    <3>3. CASE q.at = "reset"
      <4>1. PICK t \in 0 .. now : Cardinality({i \in 1 .. q.rows : log[i] >= t - Window}) = q.used
        BY <2>6, <3>3 DEF GuardRead
      <4>2. Cardinality({i \in 1 .. q.rows : s[i] >= t - Window}) = q.used
        BY <3>2, <3>3, <4>1
      <4>3. q.rows <= Len(s) /\ q.limit \in 1 .. peak /\ q.limit <= q.used
        BY <2>1, <2>2, <2>6, <3>1, <3>3 DEF GuardRead
      <4> QED  BY <4>1, <4>2, <4>3 DEF GuardRead
    <3>4. CASE q.at # "reset"
      BY <2>6, <3>4 DEF GuardRead
    <3> QED  BY <3>3, <3>4
  <2>7. ASSUME NEW p \in Requests
        PROVE  GuardRead(req[p], log, now, peak)'
    <3>1. GuardRead(req'[p], log, now, peak) /\ req'[p] \in AI!Request
      BY <1>0, QuotaFacts, IdleRequest DEF GuardRead, QuotaInv
    <3>2. GuardRead(req'[p], s, now, peak)
      BY <2>6, <3>1
    <3> QED  BY <1>0, <2>3, <3>2 DEF GuardRead
  <2>8. Overshoot'
    <3>1. RecentOf(s, now) = RecentOf(log, now) \cup {n + 1}
      <4>1. s[n + 1] >= now - Window
        BY <2>1, <2>2, QuotaFacts
      <4>2. \A i : i \in 1 .. n + 1 <=> i \in 1 .. n \/ i = n + 1
        BY <2>1
      <4> QED  BY <2>1, <2>2, <4>1, <4>2 DEF RecentOf
    <3>2. n + 1 \notin RecentOf(log, now) /\ IsFiniteSet(RecentOf(log, now))
      <4>1. IsFiniteSet(RecentOf(log, now)) /\ RecentOf(log, now) \subseteq 1 .. n
        BY <2>1, RecentFinite
      <4>2. n + 1 \notin 1 .. n
        BY <2>1
      <4> QED  BY <4>1, <4>2
    <3>3. Cardinality(RecentOf(s, now)) = Cardinality(RecentOf(log, now)) + 1
      BY <3>1, <3>2, FS_AddElement
    <3>4. Busy' = Busy \ {r}
      BY <1>0, QuotaFacts, IdleRequest DEF Busy
    <3>5. r \in Busy
      BY <1>0 DEF Busy
    <3>6. Cardinality(Busy') = Cardinality(Busy) - 1
      BY <3>4, <3>5, QuotaFacts, FS_RemoveElement
    <3>7. RecentOf(log, now)' = RecentOf(s, now)
      BY <1>0, <2>3 DEF RecentOf
    <3> QED  BY <1>0, <3>3, <3>6, <3>7, QuotaFacts DEF QuotaInv, Overshoot
  <2>9. told.rows <= n /\ told.rows \in Nat /\ Kept(told, log)
    BY QuotaFacts DEF QuotaInv, AI!Refusal
  <2>10. {i \in RecentOf(s, told.at + 1) : i <= told.rows}
            = {i \in RecentOf(log, told.at + 1) : i <= told.rows}
    <3>1. ASSUME NEW i
          PROVE  i \in RecentOf(s, told.at + 1) /\ i <= told.rows
                    <=> i \in RecentOf(log, told.at + 1) /\ i <= told.rows
      <4>1. CASE i \in 1 .. n
        <5>1. i \in 1 .. n + 1 /\ s[i] = log[i]
          BY <2>1, <2>2, <4>1
        <5> QED  BY <2>2, <4>1, <5>1 DEF RecentOf
      <4>2. CASE i \notin 1 .. n
        <5>1. i \in 1 .. n + 1 => i = n + 1
          BY <2>1, <4>2
        <5>2. i = n + 1 => ~(i <= told.rows)
          BY <2>1, <2>9
        <5> QED  BY <2>2, <4>2, <5>1, <5>2 DEF RecentOf
      <4> QED  BY <4>1, <4>2
    <3> DEFINE A == {i \in RecentOf(s, told.at + 1) : i <= told.rows}
               B == {i \in RecentOf(log, told.at + 1) : i <= told.rows}
    <3>2. \A i : i \in A <=> i \in B
      BY <3>1
    <3> HIDE DEF A, B
    <3>3. A = B
      BY <3>2
    <3> QED  BY <3>3 DEF A, B
  <2>11. Kept(told, s) /\ told.rows <= Len(s)
    <3>1. CASE told.at > 0
      <4>1. Cardinality({i \in RecentOf(log, told.at + 1) : i <= told.rows}) < told.limit
        BY <2>9, <3>1 DEF Kept
      <4>2. Cardinality({i \in RecentOf(s, told.at + 1) : i <= told.rows}) < told.limit
        BY <2>10, <4>1
      <4> QED  BY <2>1, <2>2, <2>9, <4>2 DEF Kept
    <3>2. CASE ~(told.at > 0)
      BY <2>1, <2>2, <2>9, <3>2 DEF Kept
    <3> QED  BY <3>1, <3>2
  <2>12. (told.rows <= Len(log) /\ Kept(told, log))'
    BY <1>0, <2>3, <2>11 DEF Kept, RecentOf
  <2> QED  BY <1>0, <2>4, <2>5, <2>7, <2>8, <2>12 DEF QuotaInv
<1> QED  BY <1>0, <1>1, <1>2


\* A request that has counted too many.
Counted(p, used, rows) == [p EXCEPT !.at = "reset", !.used = used, !.rows = rows]

LEMMA CountedRequest ==
    ASSUME NEW p \in AI!Request, NEW used \in Nat, NEW rows \in Nat
    PROVE  /\ Counted(p, used, rows) \in AI!Request
           /\ Counted(p, used, rows).at = "reset" /\ Counted(p, used, rows).used = used
           /\ Counted(p, used, rows).rows = rows /\ Counted(p, used, rows).limit = p.limit
  BY DEF AI!Request, Counted

\* The five other steps of a request.
LEMMA GuardSteps ==
    ASSUME QuotaInv, NEW r \in Requests,
           AI!ReadPlan(r) \/ AI!Count(r) \/ AI!Refuse(r) \/ AI!Fail(r) \/ AI!Answer(r)
    PROVE  QuotaInv'
<1> DEFINE p == req[r]
<1>0. /\ p \in AI!Request /\ GuardRead(p, log, now, peak) /\ req \in [Requests -> AI!Request]
      /\ told \in AI!Refusal /\ told.rows <= Len(log) /\ Kept(told, log)
      /\ now \in Nat /\ log \in Seq(Nat)
  BY QuotaFacts DEF QuotaInv
<1>1. CASE AI!ReadPlan(r)
  <2> DEFINE q == [AI!Idle EXCEPT !.at = "count", !.limit = Quota[plan]]
  <2>1. /\ req' = [req EXCEPT ![r] = q] /\ UNCHANGED <<now, log, plan, peak>> /\ told' = told
    BY <1>1 DEF AI!ReadPlan
  <2>2. Quota[plan] \in 1 .. peak /\ Quota[plan] \in Nat
    BY MeteringAssumption DEF QuotaInv, AI!TypeOK
  <2>3. q \in AI!Request /\ q.at = "count" /\ q.limit = Quota[plan]
    BY <2>2 DEF AI!Request, AI!Idle
  <2> HIDE DEF q
  <2>4. GuardRead(q, log, now, peak)
    BY <2>2, <2>3 DEF GuardRead
  <2> QED  BY <1>0, <2>1, <2>3, <2>4, RequestStep
<1>2. CASE AI!Count(r)
  <2> DEFINE used == AI!Cardinality(AI!Recent(now))
  <2>1. used = Cardinality(RecentOf(log, now)) /\ used \in Nat
    BY SameCardinality, QuotaFacts DEF AI!Recent, RecentOf
  <2>2. /\ UNCHANGED <<now, log, plan, peak>> /\ told' = told /\ p.at = "count"
        /\ p.limit \in 1 .. peak
    BY <1>0, <1>2 DEF AI!Count, GuardRead
  <2>3. CASE used < p.limit
    <3> DEFINE q == [AI!Idle EXCEPT !.at = "ask"]
    <3>1. req' = [req EXCEPT ![r] = q]
      BY <1>2, <2>3 DEF AI!Count, AI!HasRoom
    <3>2. q \in AI!Request /\ q.at = "ask"
      BY DEF AI!Request, AI!Idle
    <3> HIDE DEF q
    <3>3. GuardRead(q, log, now, peak)
      BY <3>2 DEF GuardRead
    <3>4. Cardinality(RecentOf(log, now)) < peak
      BY <2>1, <2>2, <2>3, QuotaFacts
    <3> QED  BY <1>0, <2>2, <3>1, <3>2, <3>3, <3>4, RequestStep
  <2>4. CASE ~(used < p.limit)
    <3> DEFINE q == Counted(p, used, Len(log))
    <3>1. req' = [req EXCEPT ![r] = q]
      BY <1>0, <1>2, <2>4 DEF AI!Count, AI!HasRoom, Counted
    <3> HIDE DEF used, p
    <3>2. /\ q \in AI!Request /\ q.at = "reset" /\ q.used = used
          /\ q.rows = Len(log) /\ q.limit = p.limit
      <4>1. Len(log) \in Nat
        BY <1>0
      <4>2. p \in AI!Request /\ used \in Nat
        BY <1>0, <2>1
      <4> DEFINE rows == Len(log)
      <4> HIDE DEF q, rows
      <4>3. /\ Counted(p, used, rows) \in AI!Request
            /\ Counted(p, used, rows).at = "reset" /\ Counted(p, used, rows).used = used
            /\ Counted(p, used, rows).rows = rows /\ Counted(p, used, rows).limit = p.limit
        <5>1. rows \in Nat
          BY <4>1 DEF rows
        <5> QED  BY <4>2, <5>1, CountedRequest
      <4> QED  BY <4>3 DEF q, rows
    <3> HIDE DEF q
    <3>3. {i \in 1 .. q.rows : log[i] >= now - Window} = RecentOf(log, now)
      BY <1>0, <3>2 DEF RecentOf
    <3>4. now \in 0 .. now /\ q.limit <= q.used
      <4>1. p.limit \in Nat /\ ~(used < p.limit)
        BY <1>0, <2>4 DEF AI!Request
      <4> QED  BY <1>0, <2>1, <3>2, <4>1
    <3>5. \E t \in 0 .. now : Cardinality({i \in 1 .. q.rows : log[i] >= t - Window}) = q.used
      <4>1. Cardinality({i \in 1 .. q.rows : log[i] >= now - Window}) = q.used
        BY <2>1, <3>2, <3>3
      <4> QED  BY <3>4, <4>1
    <3>6. q.limit \in 1 .. peak /\ q.rows <= Len(log)
      BY <1>0, <2>2, <3>2
    <3>7. GuardRead(q, log, now, peak)
      BY <3>4, <3>5, <3>6 DEF GuardRead
    <3> QED  BY <1>0, <2>2, <3>1, <3>2, <3>7, RequestStep
  <2> QED  BY <2>3, <2>4
<1>3. CASE AI!Refuse(r)
  <2> DEFINE at == AI!ResetAt(p.used, p.limit)
             answer == [at |-> at, limit |-> p.limit, rows |-> p.rows]
  <2>1. /\ p.at = "reset" /\ req' = [req EXCEPT ![r] = AI!Idle]
        /\ UNCHANGED <<now, log, plan, peak>> /\ told' = answer
    BY <1>3 DEF AI!Refuse, AI!End
  <2>2. /\ p.limit \in Nat \ {0} /\ p.used \in Nat /\ p.rows \in Nat
        /\ p.limit <= p.used /\ p.rows <= Len(log)
    BY <1>0, <2>1, QuotaFacts DEF GuardRead, AI!Request
  <2>3. PICK t \in 0 .. now :
          Cardinality({i \in 1 .. p.rows : log[i] >= t - Window}) = p.used
    BY <1>0, <2>1 DEF GuardRead
  <2>4. AI!TypeOK /\ LogSorted
    BY DEF QuotaInv
  <2> HIDE DEF p
  <2>5. /\ at \in Nat
        /\ Cardinality({i \in RecentOf(log, at + 1) : i <= p.rows}) < p.limit
    BY <2>2, <2>3, <2>4, RefusalKept
  <2> HIDE DEF at
  <2>6. answer \in AI!Refusal /\ answer.rows <= Len(log)
    BY <2>2, <2>5 DEF AI!Refusal
  <2>7. Kept(answer, log)
    BY <2>5 DEF Kept
  <2>8. GuardRead(AI!Idle, log, now, peak)
    BY IdleRequest DEF GuardRead
  <2> HIDE DEF answer
  <2> QED  BY <2>1, <2>6, <2>7, <2>8, IdleRequest, RequestStep
<1>4. CASE AI!Fail(r)
  <2>1. /\ req' = [req EXCEPT ![r] = AI!Idle] /\ UNCHANGED <<now, log, plan, peak>>
        /\ told' = told
    BY <1>4 DEF AI!Fail, AI!End
  <2>2. GuardRead(AI!Idle, log, now, peak)
    BY IdleRequest DEF GuardRead
  <2> QED  BY <1>0, <2>1, <2>2, IdleRequest, RequestStep
<1>5. CASE AI!Answer(r)
  <2> DEFINE q == [p EXCEPT !.at = "record"]
  <2>1. /\ req' = [req EXCEPT ![r] = q] /\ UNCHANGED <<now, log, plan, peak>>
        /\ told' = told /\ p.at = "ask"
    BY <1>0, <1>5 DEF AI!Answer, AI!Goto
  <2>2. q \in AI!Request /\ q.at = "record" /\ r \in Busy
    BY <1>0, <2>1 DEF AI!Request, Busy
  <2> HIDE DEF q
  <2>3. GuardRead(q, log, now, peak)
    BY <2>2 DEF GuardRead
  <2> QED  BY <1>0, <2>1, <2>2, <2>3, RequestStep
<1> QED  BY <1>1, <1>2, <1>3, <1>4, <1>5

-----------------------------------------------------------------------------
(* The theorems. *)

LEMMA QuotaStart ==
    ASSUME AI!Init
    PROVE  QuotaInv
<1>1. /\ now = 0 /\ log = <<>> /\ plan \in Tiers /\ peak = Quota[plan]
      /\ \A r \in Requests : req[r].at = "idle"
      /\ told.at = 0 /\ told.rows = 0
  BY DEF AI!Init, AI!Idle, AI!NoRefusal
<1>2. AI!TypeOK
  <2>1. <<>> \in Seq(0 .. MaxTime) /\ 0 \in 0 .. MaxTime /\ Quota[plan] \in Nat
    BY <1>1, MeteringAssumption
  <2>2. AI!Idle \in AI!Request /\ AI!NoRefusal \in AI!Refusal
    BY DEF AI!Idle, AI!Request, AI!NoRefusal, AI!Refusal
  <2>3. req \in [Requests -> AI!Request] /\ told \in AI!Refusal
    BY <2>2 DEF AI!Init
  <2> QED  BY <1>1, <2>1, <2>3 DEF AI!TypeOK
<1>3. LogSorted
  BY <1>1 DEF LogSorted
<1>4. \A r \in Requests : GuardRead(req[r], log, now, peak)
  BY <1>1 DEF GuardRead
<1>5. Quota[plan] \in 1 .. peak /\ peak \in Nat /\ peak >= 1
  BY <1>1, MeteringAssumption
<1>6. Overshoot
  <2>1. Busy = {} /\ RecentOf(log, now) = {}
    BY <1>1 DEF Busy, RecentOf
  <2>2. Cardinality(Busy) = 0 /\ Cardinality(RecentOf(log, now)) = 0
    BY <2>1, FS_EmptySet
  <2>3. Cardinality(Requests) \in Nat
    BY FS_CardinalityType, MeteringAssumption
  <2> QED  BY <1>5, <2>2, <2>3 DEF Overshoot
<1>7. told.rows <= Len(log) /\ Kept(told, log)
  BY <1>1 DEF Kept
<1> QED  BY <1>2, <1>3, <1>4, <1>5, <1>6, <1>7 DEF QuotaInv

LEMMA QuotaStep ==
    ASSUME QuotaInv, [AI!Next]_AI!vars
    PROVE  QuotaInv'
<1>1. CASE \E r \in Requests : AI!RecordUsage(r)
  BY <1>1, RecordStep
<1>2. CASE \E r \in Requests :
              AI!ReadPlan(r) \/ AI!Count(r) \/ AI!Refuse(r) \/ AI!Fail(r) \/ AI!Answer(r)
  BY <1>2, GuardSteps
<1>3. CASE AI!Tick \/ AI!ChangePlan
  BY <1>3, AroundStep
<1>4. CASE UNCHANGED AI!vars
  <2>1. /\ now' = now /\ log' = log /\ plan' = plan /\ peak' = peak /\ req' = req /\ told' = told
    BY <1>4 DEF AI!vars
  <2> QED  BY <2>1 DEF QuotaInv, AI!TypeOK, LogSorted, GuardRead, Overshoot, Busy, Kept, RecentOf
<1> QED  BY <1>1, <1>2, <1>3, <1>4 DEF AI!Next

LEMMA QuotaMet == AI!Spec => []QuotaInv
<1>1. AI!Init => QuotaInv
  BY QuotaStart
<1>2. QuotaInv /\ [AI!Next]_AI!vars => QuotaInv'
  BY QuotaStep
<1> QED  BY <1>1, <1>2, PTL DEF AI!Spec

\* The guard, the gateway and the clock keep every variable of Generation within
\* its type, whatever the organization's plan does (quota.guard.ts,
\* ai-gateway.service.ts).
THEOREM QuotaTypeCorrect == AI!Spec => []AI!TypeOK
<1>1. QuotaInv => AI!TypeOK
  BY DEF QuotaInv
<1> QED  BY <1>1, QuotaMet, PTL

\* canActivate counts rows that recordUsage writes only after the provider has
\* answered: whatever the requests interleave, what the window holds and what is
\* under way exceed the largest quota by at most the other requests.
THEOREM OvershootIsBounded == AI!Spec => []OvershootBounded
<1>1. QuotaInv => OvershootBounded
  <2>1. Recent(now) = RecentOf(log, now)
    BY DEF Recent, RecentOf
  <2>2. {r \in Requests : req[r].at \in {"ask", "record"}} = Busy
    BY DEF Busy
  <2> QED  BY <2>1, <2>2 DEF QuotaInv, Overshoot, OvershootBounded
<1> QED  BY <1>1, QuotaMet, PTL

\* resolveResetAt: the time a refusal names never comes too soon, although its
\* three queries see three states of the table and rows are written in between.
THEOREM ResetIsKept == AI!Spec => []ResetKept
<1>1. QuotaInv => ResetKept
  <2>1. Recent(told.at + 1) = RecentOf(log, told.at + 1)
    BY DEF Recent, RecentOf
  <2>2. QuotaInv => Kept(told, log)
    BY DEF QuotaInv
  <2>3. Kept(told, log) => ResetKept
    BY <2>1 DEF Kept, ResetKept
  <2> QED  BY <2>2, <2>3
<1> QED  BY <1>1, QuotaMet, PTL

=============================================================================
