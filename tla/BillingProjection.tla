------------------------- MODULE BillingProjection -------------------------
(***************************************************************************)
(* The subscription of one account, as Stripe has it and as the database   *)
(* shows it: the webhooks (StripeWebhookService, upsertSubscription,       *)
(* upsertInvoice, markCustomerDeleted) and the reconciliation              *)
(* (BillingReconciliationService.reconcileSubscription).                   *)
(*                                                                         *)
(* The history of the subscription at Stripe is a sequence; change n emits *)
(* webhooks, which arrive in any order, several times or never.  A webhook *)
(* is dated in whole seconds, a snapshot is not: a second has TicksPerSecond *)
(* ticks.  projection_version is compared with the value read before the   *)
(* network calls, so only whether it has changed is kept.                  *)
(***************************************************************************)
EXTENDS Integers, Sequences, FiniteSets

CONSTANTS
    Subs,           \* Stripe subscriptions, 1..n in the order they are made
    MaxTick,        \* bound on the clock
    MaxChanges,     \* bound on the changes at Stripe
    MaxInFlight,    \* bound on the deliveries of invoice events under way
    TicksPerSecond, \* resolution of the snapshots
    CustomerDeletion, \* whether the customer may be deleted at Stripe
    None            \* NULL

ASSUME ProjectionAssumption ==
    /\ TicksPerSecond \in Nat \ {0} /\ MaxTick \in Nat /\ MaxTick >= TicksPerSecond
    /\ MaxChanges \in Nat /\ MaxInFlight \in Nat /\ CustomerDeletion \in BOOLEAN
    /\ None \notin Subs

VARIABLES
    clock,      \* ticks
    hist,       \* the changes at Stripe: subscription, status, invoice, tick
    processed,  \* the table stripe_webhook_event
    fetched,    \* deliveries of invoice events that wait after retrieveSubscription
    local,      \* the row user_subscription
    invoice,    \* the rows billing_invoice, by subscription
    mapped,     \* billing_customer exists and is not marked deleted
    snapshot,   \* the reconciliation under way
    account     \* "live" or "deleted"

vars == <<clock, hist, processed, fetched, local, invoice, mapped, snapshot, account>>

Live == {"trialing", "active", "past_due"}
Terminal == {"canceled", "unpaid", "incomplete_expired"}
Settled == {"paid", "void", "uncollectible"}

Changes == 1..Len(hist)
Customer == "deleted"   \* the change that deletes the customer

\* Mutant: the date is rounded up.
CreatedAtCeiling(n) == (hist[n].tick \div TicksPerSecond + 1) * TicksPerSecond

\* event.created is in whole seconds.
CreatedAt(n) == (hist[n].tick \div TicksPerSecond) * TicksPerSecond

NoSubscription == [sub |-> None, status |-> "none", eventAt |-> 0, snapshotAt |-> 0, seen |-> 0]
NoInvoice == [status |-> "none", eventAt |-> 0]
NoSnapshot == [at |-> "idle", taken |-> 0, seen |-> 0, fresh |-> TRUE]

\* A change emits a subscription event, an invoice event when an invoice
\* changed, and the deletion of the customer.
EventsOf(n) ==
    {<<n, "subscription">>}
      \cup (IF hist[n].invoice = "none" THEN {} ELSE {<<n, "invoice">>})
      \cup (IF hist[n].customer = Customer THEN {<<n, "customer">>} ELSE {})

Events == UNION {EventsOf(n) : n \in Changes}

TypeOK ==
    /\ clock \in TicksPerSecond..MaxTick
    /\ hist \in Seq([sub: Subs, status: Live \cup Terminal, invoice: {"none", "open", "paid"},
                     customer: {"live", Customer}, tick: 1..MaxTick])
    /\ processed \subseteq Events
    /\ fetched \subseteq {<<e, n>> : e \in Events, n \in Changes}
    /\ local \in [sub: Subs \cup {None}, status: Live \cup Terminal \cup {"none"},
                  eventAt: 0..MaxTick, snapshotAt: 0..MaxTick, seen: 0..Len(hist)]
    /\ invoice \in [Subs -> [status: {"none", "open", "paid"}, eventAt: 0..MaxTick]]
    /\ mapped \in BOOLEAN
    /\ snapshot \in [at: {"idle", "reading", "applying"}, taken: 0..MaxTick, seen: 0..Len(hist), fresh: BOOLEAN]
    /\ account \in {"live", "deleted"}

Init ==
    /\ clock = TicksPerSecond /\ hist = <<>> /\ processed = {} /\ fetched = {}
    /\ local = NoSubscription /\ invoice = [s \in Subs |-> NoInvoice]
    /\ mapped = TRUE /\ snapshot = NoSnapshot /\ account = "live"

-----------------------------------------------------------------------------
(* Stripe.                                                                 *)

Last == hist[Len(hist)]
Gone == hist # <<>> /\ Last.customer = Customer

Change(sub, status, paid, customer) ==
    /\ Len(hist) < MaxChanges
    /\ hist' = Append(hist, [sub |-> sub, status |-> status, invoice |-> paid,
                             customer |-> customer, tick |-> clock])
    /\ UNCHANGED <<clock, processed, fetched, local, invoice, mapped, snapshot, account>>

\* The subscription begins, its payment fails and succeeds, it ends, or the
\* customer is deleted with it.
StripeChanges ==
    /\ ~Gone
    /\ \/ \E s \in Subs :
            /\ s = Cardinality({hist[n].sub : n \in Changes}) + 1
            /\ hist # <<>> => Last.status \in Terminal
            /\ Change(s, "active", "none", "live")
       \/ /\ hist # <<>> /\ Last.status = "active" /\ Change(Last.sub, "past_due", "open", "live")
       \/ /\ hist # <<>> /\ Last.status = "past_due" /\ Change(Last.sub, "active", "paid", "live")
       \/ /\ hist # <<>> /\ Last.status \in Live
          /\ \E c \in {"live"} \cup (IF CustomerDeletion THEN {Customer} ELSE {}) : Change(Last.sub, "canceled", "none", c)

Tick ==
    /\ clock < MaxTick /\ clock' = clock + 1
    /\ UNCHANGED <<hist, processed, fetched, local, invoice, mapped, snapshot, account>>

-----------------------------------------------------------------------------
(* Webhooks.                                                               *)

\* The WHERE clause of upsertSubscription: change n, seen by an event dated at.
Newer(n, at) ==
    /\ local.sub \in {None, hist[n].sub} \/ local.status \notin Live
    /\ \/ local.eventAt = 0 \/ local.eventAt < at
       \/ local.eventAt = at /\ (local.status \notin Terminal \/ hist[n].status \in Terminal)
    /\ local.snapshotAt = 0 \/ local.snapshotAt <= at

\* No row was written, and the row there is of the same subscription and as
\* recent: the event is accepted without effect.
Outdated(n, at) == local.sub = hist[n].sub /\ local.eventAt # 0 /\ local.eventAt >= at

Projected(n, at) ==
    [sub |-> hist[n].sub, status |-> hist[n].status, eventAt |-> at, seen |-> n,
     snapshotAt |-> IF local.snapshotAt > at THEN local.snapshotAt ELSE at]

\* Any write changes projection_version.
Stale == snapshot' = [snapshot EXCEPT !.fresh = FALSE]

\* Mutant: the state of the account is not read.
UpsertUnchecked(e, n, at) ==
    /\ processed' = processed \cup {e}
    /\ IF Newer(n, at) THEN local' = Projected(n, at) /\ Stale ELSE UNCHANGED <<local, snapshot>>

\* processWebhook: the receipt and the effect in one transaction, and nothing
\* but the receipt for a closed account; a BillingMappingError undoes both.
Upsert(e, n, at) ==
    IF account = "deleted"
    THEN processed' = processed \cup {e} /\ UNCHANGED <<local, snapshot>>
    ELSE IF Newer(n, at)
    THEN processed' = processed \cup {e} /\ local' = Projected(n, at) /\ Stale
    ELSE IF Outdated(n, at)
    THEN processed' = processed \cup {e} /\ UNCHANGED <<local, snapshot>>
    ELSE UNCHANGED <<processed, local, snapshot>>

Accepted(n, at) == account = "live" /\ (Newer(n, at) \/ Outdated(n, at))

\* handle() of a subscription event that has not been processed.
SubscriptionEvent(n) ==
    /\ <<n, "subscription">> \in Events \ processed
    /\ Upsert(<<n, "subscription">>, n, CreatedAt(n))
    /\ UNCHANGED <<clock, hist, fetched, invoice, mapped, account>>

\* handle() of an invoice event: the subscription is read from Stripe first.
PrefetchSubscription(n) ==
    /\ <<n, "invoice">> \in Events \ processed /\ Cardinality(fetched) < MaxInFlight
    /\ \E m \in {k \in Changes : hist[k].sub = hist[n].sub} :
         /\ \A k \in Changes : hist[k].sub = hist[n].sub => k <= m
         /\ fetched' = fetched \cup {<<<<n, "invoice">>, m>>}
    /\ UNCHANGED <<clock, hist, processed, local, invoice, mapped, snapshot, account>>

\* Mutant: the last event delivered wins.
InvoiceAnyOrder(n) == TRUE

\* The WHERE clause of upsertInvoice.
InvoiceNewer(n) ==
    LET row == invoice[hist[n].sub] IN
    \/ row.eventAt = 0 \/ row.eventAt < CreatedAt(n)
    \/ row.eventAt = CreatedAt(n) /\ (row.status \notin Settled \/ hist[n].invoice \in Settled)

\* The transaction of an invoice event; a duplicate finds its receipt.
InvoiceEvent(n, m) ==
    LET e == <<n, "invoice">> IN
    /\ <<e, m>> \in fetched /\ fetched' = fetched \ {<<e, m>>}
    /\ IF e \in processed
       THEN UNCHANGED <<processed, local, invoice, snapshot>>
       ELSE /\ Upsert(e, m, CreatedAt(n))
            /\ invoice' = IF Accepted(m, CreatedAt(n)) /\ InvoiceNewer(n)
                          THEN [invoice EXCEPT ![hist[n].sub] =
                                  [status |-> hist[n].invoice, eventAt |-> CreatedAt(n)]]
                          ELSE invoice
    /\ UNCHANGED <<clock, hist, mapped, account>>

\* markCustomerDeleted.
CustomerDeletedEvent(n) ==
    LET at == CreatedAt(n) IN
    /\ <<n, "customer">> \in Events \ processed
    /\ processed' = processed \cup {<<n, "customer">>}
    /\ IF account = "deleted" THEN UNCHANGED <<local, mapped, snapshot>>
       ELSE /\ mapped' = FALSE
            /\ IF local.sub # None /\ local.snapshotAt <= at
               THEN local' = [local EXCEPT !.status = "canceled", !.seen = n,
                                !.eventAt = IF @ > at THEN @ ELSE at, !.snapshotAt = at] /\ Stale
               ELSE UNCHANGED <<local, snapshot>>
    /\ UNCHANGED <<clock, hist, fetched, invoice, account>>

-----------------------------------------------------------------------------
(* Reconciliation.                                                         *)

\* Mutant: only accounts with a subscription are reconciled.
BeginIfSubscribed ==
    /\ snapshot.at = "idle" /\ mapped /\ account = "live" /\ local.sub # None
    /\ snapshot' = [at |-> "reading", taken |-> clock, seen |-> 0, fresh |-> TRUE]
    /\ UNCHANGED <<clock, hist, processed, fetched, local, invoice, mapped, account>>

\* subscriptionContext, and the instant the reading starts.
BeginReconciliation ==
    /\ snapshot.at = "idle" /\ mapped /\ account = "live"
    /\ snapshot' = [at |-> "reading", taken |-> clock, seen |-> 0, fresh |-> TRUE]
    /\ UNCHANGED <<clock, hist, processed, fetched, local, invoice, mapped, account>>

\* Mutant: the snapshot is dated when Stripe has answered and not before.
ReadStripeThenDate ==
    /\ snapshot.at = "reading"
    /\ \E later \in clock..MaxTick :
         snapshot' = [snapshot EXCEPT !.at = "applying", !.seen = Len(hist), !.taken = later]
    /\ UNCHANGED <<clock, hist, processed, fetched, local, invoice, mapped, account>>

\* retrieveCustomer and listCustomerSubscriptions; the current subscription,
\* or the last one.
ReadStripe ==
    /\ snapshot.at = "reading"
    /\ snapshot' = [snapshot EXCEPT !.at = "applying", !.seen = Len(hist)]
    /\ UNCHANGED <<clock, hist, processed, fetched, local, invoice, mapped, account>>

\* The version has not changed, and nothing more recent is known.
Applicable == snapshot.fresh /\ local.snapshotAt <= snapshot.taken

\* applySubscription, or nothing when the mapping is gone or the snapshot lost.
ApplySubscription ==
    /\ snapshot.at = "applying" /\ snapshot' = NoSnapshot
    /\ IF mapped /\ account = "live" /\ Applicable
       THEN LET n == snapshot.seen
                deleted == n > 0 /\ hist[n].customer = Customer
            IN  /\ local' = IF n = 0 \/ (deleted /\ local.sub = None) THEN local
                            ELSE [local EXCEPT !.sub = IF deleted THEN @ ELSE hist[n].sub,
                                    !.status = hist[n].status, !.snapshotAt = snapshot.taken, !.seen = n]
                /\ mapped' = ~deleted
       ELSE UNCHANGED <<local, mapped>>
    /\ UNCHANGED <<clock, hist, processed, fetched, invoice, account>>

\* Stripe does not answer, or the worker dies before the transaction: the outbox
\* starts again.
ReconciliationFails ==
    /\ snapshot.at = "applying" /\ snapshot' = NoSnapshot
    /\ UNCHANGED <<clock, hist, processed, fetched, local, invoice, mapped, account>>

\* The erasure of the account is accepted.
Close ==
    /\ account = "live" /\ account' = "deleted"
    /\ UNCHANGED <<clock, hist, processed, fetched, local, invoice, mapped, snapshot>>

Reconcile == BeginReconciliation \/ ReadStripe \/ ApplySubscription

Next ==
    \/ StripeChanges \/ Tick \/ Reconcile \/ ReconciliationFails \/ Close
    \/ \E n \in Changes : SubscriptionEvent(n) \/ PrefetchSubscription(n) \/ CustomerDeletedEvent(n)
    \/ \E n, m \in Changes : InvoiceEvent(n, m)

Spec == Init /\ [][Next]_vars

-----------------------------------------------------------------------------
(* Properties.                                                             *)

\* What the database shows is never older than the date it is given: every
\* change made at Stripe before provider_snapshot_at is in it.
SnapshotHonest == \A n \in Changes : hist[n].tick < local.snapshotAt => n <= local.seen

\* A payment whose webhook was accepted stays recorded, whatever older event
\* of the invoice arrives later.
AcceptedPaymentKept ==
    \A n \in Changes :
      <<n, "invoice">> \in processed /\ hist[n].invoice = "paid" /\ account = "live" =>
        invoice[hist[n].sub].status = "paid" \/ invoice[hist[n].sub].eventAt > CreatedAt(n)

\* Nothing is written for an account whose erasure was accepted.
ClosedAccountUntouched == [][account = "deleted" => UNCHANGED <<local, invoice, mapped>>]_vars

\* Whatever webhooks are lost or late, the database ends up with the status
\* at Stripe and keeps it, unless the account is being erased or its customer
\* was deleted at Stripe.
InSync == hist # <<>> /\ account = "live" /\ ~Gone => local.status = Last.status
Converges == <>[]InSync

\* Webhooks in any order beside snapshots: the projection is as new as its date
\* says, and no payment it has accepted is lost.
ProjectionConsistent == TypeOK /\ SnapshotHonest /\ AcceptedPaymentKept

=============================================================================
