------------------------------ MODULE Billing ------------------------------
(***************************************************************************)
(* Subscriptions: checkout and the webhook of billing.service.ts, the      *)
(* Stripe client it calls and Stripe itself (external), which sends an     *)
(* event for what it changes and sends it again until it is answered.      *)
(* The deletion of an organization takes the mirror with it and leaves     *)
(* what Stripe holds as it is.                                             *)
(*                                                                         *)
(* The handler keeps a mirror of Stripe: a row per organization, the       *)
(* organization's plan, and the invoices.  It writes what an event says,   *)
(* whatever it wrote before; what the mirror shows is then a matter of the *)
(* order in which events are handled.                                      *)
(***************************************************************************)
EXTENDS Integers, Sequences, SequencesExt

CONSTANTS
    Orgs,
    Orderly,      \* organizations whose events come in order, one at a time,
                  \* and who never hold two subscriptions
    Leaving,      \* bound: organizations whose owner may delete them
    Checkouts,    \* bound: startCheckout requests; each names the customer it
                  \* may create and the subscription that may come of it
    OrgOf,        \* [Checkouts -> Orgs]
    TierOf,       \* [Checkouts -> Purchasable]
    Changes,      \* [Checkouts -> SUBSET Change]: what may become of the
                  \* subscriptions, by portal, card and time
    Handlers,     \* webhook requests that overlap
    MaxFaults,    \* bound: deliveries that fail, or are made again though answered
    NoOrg, NoCheckout

\* PURCHASABLE_TIERS, without starter and enterprise told apart.
Purchasable == {"starter", "pro"}

Change == {"upgrade", "lapse", "cancel"}

ASSUME BillingAssumption ==
    /\ Orderly \subseteq Orgs /\ Leaving \subseteq Orgs
    /\ OrgOf \in [Checkouts -> Orgs] /\ TierOf \in [Checkouts -> Purchasable]
    /\ Changes \in [Checkouts -> SUBSET Change]
    /\ MaxFaults \in Nat
    /\ NoOrg \notin Orgs /\ NoCheckout \notin Checkouts

VARIABLES
    alive,      \* [Orgs -> BOOLEAN]: the table organization has a row
    planTier,   \* [Orgs -> Tier], of that row
    mirror,     \* [Orgs -> Mirror], the table subscription
    invoice,    \* [Invoices -> [org, status]], the table invoice
    checkout,   \* [Checkouts -> Checkout], requests and their sessions
    stripe,     \* [Checkouts -> Subscription], at Stripe
    billed,     \* [Invoices -> status], at Stripe
    queue,      \* [Orgs -> Seq(Event)], what Stripe has yet to deliver
    handler,    \* [Handlers -> Handler]
    faults      \* bounded by MaxFaults

vars == <<alive, planTier, mirror, invoice, checkout, stripe, billed, queue, handler, faults>>

ours == <<alive, planTier, mirror, invoice>>
theirs == <<stripe, billed>>

-----------------------------------------------------------------------------
(* State. *)

Tier == {"free"} \cup Purchasable

Mirror == [here : BOOLEAN,
           customer : Checkouts \cup {NoCheckout}, sub : Checkouts \cup {NoCheckout},
           tier : Tier, status : {"none", "active", "past_due", "canceled"}]

NoMirror == [here |-> FALSE, customer |-> NoCheckout, sub |-> NoCheckout,
             tier |-> "free", status |-> "none"]

\* A subscription's first invoice, and the one of a renewal.
Invoices == Checkouts \X {1, 2}
InvoiceStatus == {"none", "open", "paid"}

NoInvoice == [org |-> NoOrg, status |-> "none"]

Checkout == [at : {"idle", "create", "store", "session", "open"},
             customer : Checkouts \cup {NoCheckout}]

Subscription == [status : {"none", "active", "past_due", "canceled"}, tier : Purchasable]

\* What an event is about, and the object it carries.
Event == [type : {"completed", "updated", "deleted", "invoice", "payment_failed"},
          of : Checkouts, sub : Subscription, n : {1, 2}, status : InvoiceStatus]

NoEvent == [type |-> "none"]

\* aim: what the organization of an invoice is being looked up for.
Handler == [at : {"idle", "fetch", "sync", "customer", "sub", "record", "dun"},
            event : Event \cup {NoEvent}, aim : {"record", "dun"}, org : Orgs \cup {NoOrg}]

IdleHandler == [at |-> "idle", event |-> NoEvent, aim |-> "record", org |-> NoOrg]

Init ==
    /\ alive = [o \in Orgs |-> TRUE]
    /\ planTier = [o \in Orgs |-> "free"]
    /\ mirror = [o \in Orgs |-> NoMirror]
    /\ invoice = [i \in Invoices |-> NoInvoice]
    /\ checkout = [k \in Checkouts |-> [at |-> "idle", customer |-> NoCheckout]]
    /\ stripe = [k \in Checkouts |-> [status |-> "none", tier |-> TierOf[k]]]
    /\ billed = [i \in Invoices |-> "none"]
    /\ queue = [o \in Orgs |-> <<>>]
    /\ handler = [h \in Handlers |-> IdleHandler]
    /\ faults = 0

-----------------------------------------------------------------------------
(* startCheckout.  Where Stripe or the database throws, a request stops.  *)

AsksNothing == UNCHANGED <<alive, planTier, invoice, stripe, billed, queue, handler, faults>>

\* ensureCustomer, its read.
StartCheckout(k) ==
    LET existing == mirror[OrgOf[k]].customer IN
    /\ checkout[k].at = "idle"
    /\ checkout' = [checkout EXCEPT ![k] =
            IF existing # NoCheckout THEN [at |-> "session", customer |-> existing]
            ELSE [at |-> "create", customer |-> NoCheckout]]
    /\ UNCHANGED mirror /\ AsksNothing

\* createCustomer at Stripe.
CreateCustomer(k) ==
    /\ checkout[k].at = "create"
    /\ checkout' = [checkout EXCEPT ![k] = [at |-> "store", customer |-> k]]
    /\ UNCHANGED mirror /\ AsksNothing

\* ensureCustomer, its upsert: the new customer replaces whatever the row names.
\* It throws when the organization is gone.
StoreCustomer(k) ==
    /\ checkout[k].at = "store" /\ alive[OrgOf[k]]
    /\ mirror' = [mirror EXCEPT ![OrgOf[k]].here = TRUE, ![OrgOf[k]].customer = k]
    /\ checkout' = [checkout EXCEPT ![k].at = "session"]
    /\ AsksNothing

\* createCheckoutSession: a hosted page that somebody may pay on.
CreateSession(k) ==
    /\ checkout[k].at = "session"
    /\ checkout' = [checkout EXCEPT ![k].at = "open"]
    /\ UNCHANGED mirror /\ AsksNothing

-----------------------------------------------------------------------------
(* Stripe. *)

Of(o) == {k \in Checkouts : OrgOf[k] = o}

About(type, k) == [type |-> type, of |-> k, sub |-> stripe'[k], n |-> 1, status |-> "none"]
Bill(type, k, n) == [About(type, k) EXCEPT !.n = n, !.status = billed'[<<k, n>>]]

Emit(k, events) == queue' = [queue EXCEPT ![OrgOf[k]] = @ \o events]

\* The session is paid: the subscription carries the organization's id in its
\* metadata, its invoices do not.
Pay(k) ==
    /\ checkout[k].at = "open" /\ stripe[k].status = "none"
    /\ OrgOf[k] \in Orderly => \A j \in Of(OrgOf[k]) : stripe[j].status = "none"
    /\ stripe' = [stripe EXCEPT ![k].status = "active"]
    /\ billed' = [billed EXCEPT ![<<k, 1>>] = "paid"]
    /\ Emit(k, <<About("updated", k), Bill("invoice", k, 1), About("completed", k)>>)
    /\ UNCHANGED <<ours, checkout, handler, faults>>

\* In the portal, another plan is chosen.
Upgrade(k) ==
    /\ "upgrade" \in Changes[k]
    /\ stripe[k].status = "active" /\ stripe[k].tier = "starter"
    /\ stripe' = [stripe EXCEPT ![k].tier = "pro"]
    /\ Emit(k, <<About("updated", k)>>)
    /\ UNCHANGED <<ours, checkout, billed, handler, faults>>

\* A renewal is not paid.
Lapse(k) ==
    /\ "lapse" \in Changes[k]
    /\ stripe[k].status = "active" /\ billed[<<k, 2>>] = "none"
    /\ stripe' = [stripe EXCEPT ![k].status = "past_due"]
    /\ billed' = [billed EXCEPT ![<<k, 2>>] = "open"]
    /\ Emit(k, <<Bill("payment_failed", k, 2), About("updated", k)>>)
    /\ UNCHANGED <<ours, checkout, handler, faults>>

\* It is, after all.
Recover(k) ==
    /\ stripe[k].status = "past_due"
    /\ stripe' = [stripe EXCEPT ![k].status = "active"]
    /\ billed' = [billed EXCEPT ![<<k, 2>>] = "paid"]
    /\ Emit(k, <<Bill("invoice", k, 2), About("updated", k)>>)
    /\ UNCHANGED <<ours, checkout, handler, faults>>

\* The subscription ends.
Cancel(k) ==
    /\ "cancel" \in Changes[k]
    /\ stripe[k].status \in {"active", "past_due"}
    /\ stripe' = [stripe EXCEPT ![k].status = "canceled"]
    /\ Emit(k, <<About("deleted", k)>>)
    /\ UNCHANGED <<ours, checkout, billed, handler, faults>>

-----------------------------------------------------------------------------
(* The owner deletes the account, and with it the organization. *)

\* The schema's cascade takes subscription and invoices; nothing is canceled at
\* Stripe, and requests and events on their way are not stopped.
DeleteOrganization(o) ==
    /\ o \in Leaving /\ alive[o]
    /\ alive' = [alive EXCEPT ![o] = FALSE]
    /\ planTier' = [planTier EXCEPT ![o] = "free"]
    /\ mirror' = [mirror EXCEPT ![o] = NoMirror]
    /\ invoice' = [i \in Invoices |-> IF invoice[i].org = o THEN NoInvoice ELSE invoice[i]]
    /\ UNCHANGED <<checkout, theirs, queue, handler, faults>>

-----------------------------------------------------------------------------
(* POST billing/webhook. *)

InHand(o) == {h \in Handlers : handler[h].at # "idle" /\ OrgOf[handler[h].event.of] = o}

\* Where handleWebhook starts, by the event's type.
FirstStep(type) ==
    CASE type = "completed" -> "fetch"
      [] type \in {"updated", "deleted"} -> "sync"
      [] OTHER -> "customer"

\* An event comes: the next one of an orderly organization, else any.  An event
\* may come again though it was answered, as the answer is lost or late.
Deliver(h, o) ==
    /\ handler[h].at = "idle"
    /\ \E i \in DOMAIN queue[o] :
        /\ o \in Orderly => i = 1 /\ InHand(o) = {}
        /\ handler' = [handler EXCEPT ![h] =
                [IdleHandler EXCEPT !.at = FirstStep(queue[o][i].type), !.event = queue[o][i]]]
        /\ \/ /\ queue' = [queue EXCEPT ![o] = RemoveAt(@, i)]
              /\ UNCHANGED faults
           \/ /\ o \notin Orderly /\ faults < MaxFaults
              /\ faults' = faults + 1
              /\ UNCHANGED queue
    /\ UNCHANGED <<ours, checkout, theirs>>

Answer(h) == handler' = [handler EXCEPT ![h] = IdleHandler]

\* The handler throws and Stripe keeps the event.
Throw(h) ==
    /\ queue' = [queue EXCEPT ![OrgOf[handler[h].event.of]] = <<handler[h].event>> \o @]
    /\ handler' = [handler EXCEPT ![h] = IdleHandler]

\* Stripe or the database fails.
HandlerFails(h) ==
    /\ handler[h].at # "idle" /\ faults < MaxFaults
    /\ faults' = faults + 1
    /\ Throw(h)
    /\ UNCHANGED <<ours, checkout, theirs>>

\* Mutant: a subscription that is no longer live makes the handler throw.
FetchThrows(h) ==
    /\ handler[h].at = "fetch"
    /\ IF stripe[handler[h].event.of].status = "active"
       THEN /\ handler' = [handler EXCEPT ![h].at = "sync",
                                         ![h].event.sub = stripe[handler[h].event.of]]
            /\ UNCHANGED queue
       ELSE Throw(h)
    /\ UNCHANGED <<ours, checkout, theirs, faults>>

\* checkout.session.completed carries an id: getSubscription reads the rest.
Fetch(h) ==
    /\ handler[h].at = "fetch"
    /\ handler' = [handler EXCEPT ![h].at = "sync", ![h].event.sub = stripe[handler[h].event.of]]
    /\ UNCHANGED <<ours, checkout, theirs, queue, faults>>

\* tierFromSubscription: the plan whose price the first item has, whatever the
\* status is; a subscription that is deleted gives none.
TierIn(event) == IF event.type = "deleted" THEN "free" ELSE event.sub.tier

\* mapStatus.
StatusIn(event) == IF event.type = "deleted" THEN "canceled" ELSE event.sub.status

\* Mutant: the organization keeps its plan when the subscription is deleted.
SyncLeavesPlan(h) ==
    LET event == handler[h].event IN
    /\ handler[h].at = "sync"
    /\ mirror' = [mirror EXCEPT ![OrgOf[event.of]] =
            [here |-> TRUE, customer |-> checkout[event.of].customer, sub |-> event.of,
             tier |-> TierIn(event), status |-> StatusIn(event)]]
    /\ planTier' = [planTier EXCEPT ![OrgOf[event.of]] =
                        IF event.type = "deleted" THEN @ ELSE TierIn(event)]
    /\ Answer(h)
    /\ UNCHANGED <<alive, invoice, checkout, theirs, queue, faults>>

\* syncSubscription: one transaction, for the organization the metadata names,
\* which throws when that is gone: the upsert for want of the foreign key, the
\* update for want of the row.
SyncSubscription(h) ==
    LET event == handler[h].event
        o == OrgOf[event.of]
    IN
    /\ handler[h].at = "sync"
    /\ \/ /\ alive[o]
          /\ mirror' = [mirror EXCEPT ![o] =
                [here |-> TRUE, customer |-> checkout[event.of].customer, sub |-> event.of,
                 tier |-> TierIn(event), status |-> StatusIn(event)]]
          /\ planTier' = [planTier EXCEPT ![o] = TierIn(event)]
          /\ Answer(h)
          /\ UNCHANGED queue
       \/ ~alive[o] /\ Throw(h) /\ UNCHANGED <<planTier, mirror>>
    /\ UNCHANGED <<alive, invoice, checkout, theirs, faults>>

\* resolveOrgId of an invoice, its two lookups.  What finds nothing is dropped,
\* after markPastDue has looked again.
Found(h, o) == handler' = [handler EXCEPT ![h].at = handler[h].aim, ![h].org = o]

NotFound(h) ==
    IF handler[h].aim = "record" /\ handler[h].event.type = "payment_failed"
    THEN handler' = [handler EXCEPT ![h].at = "customer", ![h].aim = "dun"]
    ELSE Answer(h)

\* Mutant: any row will do.
ResolveByAnyCustomer(h) ==
    /\ handler[h].at = "customer"
    /\ \/ \E o \in Orgs : mirror[o].here /\ Found(h, o)
       \/ /\ ~ \E o \in Orgs : mirror[o].here
          /\ handler' = [handler EXCEPT ![h].at = "sub"]
    /\ UNCHANGED <<ours, checkout, theirs, queue, faults>>

ResolveByCustomer(h) ==
    LET rows == {o \in Orgs : mirror[o].customer = checkout[handler[h].event.of].customer} IN
    /\ handler[h].at = "customer"
    /\ \/ \E o \in rows : Found(h, o)
       \/ rows = {} /\ handler' = [handler EXCEPT ![h].at = "sub"]
    /\ UNCHANGED <<ours, checkout, theirs, queue, faults>>

\* Mutant: there is no second lookup.
ResolveBySubNot(h) ==
    /\ handler[h].at = "sub"
    /\ NotFound(h)
    /\ UNCHANGED <<ours, checkout, theirs, queue, faults>>

ResolveBySub(h) ==
    LET rows == {o \in Orgs : mirror[o].sub = handler[h].event.of} IN
    /\ handler[h].at = "sub"
    /\ (\E o \in rows : Found(h, o)) \/ (rows = {} /\ NotFound(h))
    /\ UNCHANGED <<ours, checkout, theirs, queue, faults>>

\* recordInvoice: the row becomes what the event carries, unless its
\* organization went since it was looked up.
RecordInvoice(h) ==
    LET event == handler[h].event IN
    /\ handler[h].at = "record"
    /\ \/ /\ alive[handler[h].org]
          /\ invoice' = [invoice EXCEPT ![<<event.of, event.n>>] =
                            [org |-> handler[h].org, status |-> event.status]]
          /\ IF event.type = "payment_failed"
             THEN handler' = [handler EXCEPT ![h].at = "customer", ![h].aim = "dun", ![h].org = NoOrg]
             ELSE Answer(h)
          /\ UNCHANGED queue
       \/ ~alive[handler[h].org] /\ Throw(h) /\ UNCHANGED invoice
    /\ UNCHANGED <<alive, planTier, mirror, checkout, theirs, faults>>

\* markPastDue: whichever subscription the row shows by now, and in whatever state.
MarkPastDue(h) ==
    /\ handler[h].at = "dun"
    /\ mirror' = [mirror EXCEPT ![handler[h].org].status = IF mirror[handler[h].org].here
                                                           THEN "past_due" ELSE @]
    /\ Answer(h)
    /\ UNCHANGED <<alive, planTier, invoice, checkout, theirs, queue, faults>>

-----------------------------------------------------------------------------

Handle(h) ==
    \/ Fetch(h) \/ SyncSubscription(h) \/ ResolveByCustomer(h) \/ ResolveBySub(h)
    \/ RecordInvoice(h) \/ MarkPastDue(h)

CheckoutStep(k) ==
    \/ StartCheckout(k) \/ CreateCustomer(k) \/ StoreCustomer(k) \/ CreateSession(k)

StripeStep(k) == Pay(k) \/ Upgrade(k) \/ Lapse(k) \/ Recover(k) \/ Cancel(k)

Next ==
    \/ \E k \in Checkouts : CheckoutStep(k) \/ StripeStep(k)
    \/ \E o \in Orgs : DeleteOrganization(o)
    \/ \E h \in Handlers :
        HandlerFails(h) \/ Handle(h) \/ \E o \in Orgs : Deliver(h, o)

Spec == Init /\ [][Next]_vars

\* Stripe goes on delivering to each organization, for days, and a handler that is
\* running ends.
Fairness ==
    /\ \A h \in Handlers : WF_vars(Handle(h))
    /\ \A o \in Orgs : WF_vars(\E h \in Handlers : Deliver(h, o))

FairSpec == Spec /\ Fairness

-----------------------------------------------------------------------------
(* Properties. *)

TypeOK ==
    /\ alive \in [Orgs -> BOOLEAN]
    /\ planTier \in [Orgs -> Tier]
    /\ mirror \in [Orgs -> Mirror]
    /\ invoice \in [Invoices -> [org : Orgs \cup {NoOrg}, status : InvoiceStatus]]
    /\ checkout \in [Checkouts -> Checkout]
    /\ stripe \in [Checkouts -> Subscription]
    /\ billed \in [Invoices -> InvoiceStatus]
    /\ queue \in [Orgs -> Seq(Event)]
    /\ handler \in [Handlers -> Handler]
    /\ faults \in 0..MaxFaults

\* The plan that limits are read from is the one the billing page shows,
\* however events, repeats, failures and checkouts fall between each other.
PlanIsMirrored == \A o \in Orgs : planTier[o] = mirror[o].tier

\* An organization's plan, and the invoices it is shown, come from its own
\* payments: a customer or a subscription never leads to another organization,
\* though rows are found by ids that checkouts and events rewrite.
OwnPaymentsOnly ==
    /\ \A o \in Orgs : planTier[o] # "free" =>
            \E k \in Of(o) : stripe[k].status # "none" /\ planTier[o] \in {TierOf[k], stripe[k].tier}
    /\ \A i \in Invoices : invoice[i].org \in {OrgOf[i[1]], NoOrg}

\* What Stripe holds for the organization is what the mirror shows.
InSync(o) ==
    LET live == {k \in Of(o) : stripe[k].status \in {"active", "past_due"}} IN
    /\ live = {} => planTier[o] = "free"
    /\ live # {} =>
        \E k \in live :
            /\ mirror[o].sub = k
            /\ mirror[o].status = stripe[k].status
            /\ planTier[o] = stripe[k].tier
    /\ \A k \in Of(o), n \in {1, 2} : invoice[<<k, n>>].status = billed[<<k, n>>]

\* With events in order and one subscription, the mirror of an organization that
\* is not deleted ends up showing what Stripe holds, however deliveries fail and
\* checkouts race for the customer.
EventuallyInSync == \A o \in Orderly : <>[](alive[o] => InSync(o))

Answered(o) == queue[o] = <<>> /\ InHand(o) = {}

\* Every event is answered in the end, unless its organization is deleted, and
\* those of one that is keep no other waiting.  Without alive[o] this would be what
\* billing.controller.ts says, "Always 200 for a valid event so Stripe doesn't retry
\* endlessly", and false: the events of a subscription that outlives its
\* organization make syncSubscription throw each time.
EventuallyAnswered == <>[](\A o \in Orgs : alive[o] => Answered(o))

=============================================================================
