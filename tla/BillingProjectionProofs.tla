----------------------- MODULE BillingProjectionProofs -----------------------
(***************************************************************************)
(* Proofs about BillingProjection for any number of subscriptions, changes *)
(* at Stripe, deliveries and ticks, and about CheckoutCustomer, the other  *)
(* half of the billing code, for any number of attempts, requests and      *)
(* faults.                                                                 *)
(***************************************************************************)
EXTENDS Billing, FunctionTheorems, FiniteSetTheorems, SequenceTheorems, TLAPS

-----------------------------------------------------------------------------
(* The inductive invariant.                                                *)

\* The changes at Stripe are in the order of their dates, and none is later than now.
Timed ==
    /\ \A n \in Changes : hist[n].tick \in TicksPerSecond..clock
    /\ \A n, m \in Changes : n <= m => hist[n].tick <= hist[m].tick

\* What an invoice event fetched is not older than the event.
Prefetched == \A n, m \in Changes : <<<<n, "invoice">>, m>> \in fetched => n <= m

\* No date is in the future, and a snapshot has what was there when it began.
Dated ==
    /\ local.snapshotAt <= clock /\ snapshot.taken <= clock
    /\ snapshot.at = "applying" => \A n \in Changes : hist[n].tick < snapshot.taken => n <= snapshot.seen

\* The row of an invoice is as recent as any payment that was accepted, and paid
\* if it is of the same second.
Recorded ==
    \A n \in Changes :
      <<n, "invoice">> \in processed /\ hist[n].invoice = "paid" /\ account = "live" =>
        \/ invoice[hist[n].sub].eventAt > CreatedAt(n)
        \/ invoice[hist[n].sub].eventAt = CreatedAt(n) /\ invoice[hist[n].sub].status = "paid"

IInv == TypeOK /\ Timed /\ Prefetched /\ Dated /\ SnapshotHonest /\ Recorded

-----------------------------------------------------------------------------
(* Types and dates.                                                        *)

ChangeType == [sub: Subs, status: Live \cup Terminal, invoice: {"none", "open", "paid"},
               customer: {"live", Customer}, tick: 1..MaxTick]

LocalType(n) == [sub: Subs \cup {None}, status: Live \cup Terminal \cup {"none"},
                 eventAt: 0..MaxTick, snapshotAt: 0..MaxTick, seen: 0..n]

InvoiceType == [status: {"none", "open", "paid"}, eventAt: 0..MaxTick]

SnapshotType(n) == [at: {"idle", "reading", "applying"}, taken: 0..MaxTick, seen: 0..n, fresh: BOOLEAN]

\* TypeOK with names for its parts.
Typed ==
    /\ clock \in TicksPerSecond..MaxTick /\ hist \in Seq(ChangeType)
    /\ processed \subseteq Events /\ fetched \subseteq {<<e, n>> : e \in Events, n \in Changes}
    /\ local \in LocalType(Len(hist)) /\ invoice \in [Subs -> InvoiceType] /\ mapped \in BOOLEAN
    /\ snapshot \in SnapshotType(Len(hist)) /\ account \in {"live", "deleted"}

\* They are the same.
LEMMA TypeParts == TypeOK <=> Typed
BY DEF TypeOK, Typed, ChangeType, LocalType, InvoiceType, SnapshotType

\* The same after a step.
LEMMA TypePartsNext == TypeOK' <=> Typed'
BY DEF TypeOK, Typed, ChangeType, LocalType, InvoiceType, SnapshotType

\* A change of the history.
LEMMA Entries ==
    ASSUME Typed, NEW n \in Changes
    PROVE  /\ hist[n] \in ChangeType /\ hist[n].sub \in Subs /\ hist[n].status \in Live \cup Terminal
           /\ hist[n].invoice \in {"none", "open", "paid"} /\ hist[n].tick \in Nat /\ hist[n].tick <= MaxTick
           /\ n \in Nat /\ n >= 1 /\ n <= Len(hist) /\ Len(hist) \in Nat
<1>1. hist \in Seq(ChangeType)
  BY DEF Typed
<1>2. hist[n] \in ChangeType /\ n \in 1..Len(hist) /\ Len(hist) \in Nat
  BY <1>1 DEF Changes
<1>3. MaxTick \in Nat
  BY ProjectionAssumption
<1>4. QED BY <1>2, <1>3 DEF ChangeType

\* The beginning of the second of a date.
LEMMA Seconds ==
    ASSUME NEW t \in Nat, t >= TicksPerSecond
    PROVE  (t \div TicksPerSecond) * TicksPerSecond \in 1..t
<1>0. TicksPerSecond \in Nat \ {0}
  BY ProjectionAssumption
<1>1. /\ t \div TicksPerSecond \in Nat /\ t % TicksPerSecond \in 0..(TicksPerSecond - 1)
      /\ t = TicksPerSecond * (t \div TicksPerSecond) + (t % TicksPerSecond)
  BY <1>0
<1>2. t \div TicksPerSecond >= 1
  BY <1>0, <1>1, Z3
<1>3. QED BY <1>0, <1>1, <1>2

\* A webhook is not dated later than its change.
LEMMA Dates ==
    ASSUME Typed, Timed, NEW n \in Changes
    PROVE  /\ CreatedAt(n) \in Nat /\ CreatedAt(n) >= 1 /\ CreatedAt(n) <= hist[n].tick
           /\ CreatedAt(n) <= clock /\ CreatedAt(n) <= MaxTick /\ clock \in Nat /\ clock <= MaxTick
<1>0. TicksPerSecond \in Nat /\ MaxTick \in Nat
  BY ProjectionAssumption
<1>1. hist[n].tick \in Nat /\ hist[n].tick >= TicksPerSecond /\ hist[n].tick <= clock /\ hist[n].tick <= MaxTick
  BY <1>0, Entries DEF Timed, Typed
<1>2. CreatedAt(n) \in 1..hist[n].tick
  BY <1>1, Seconds DEF CreatedAt
<1>3. clock \in Nat /\ clock <= MaxTick
  BY <1>0 DEF Typed
<1> DEFINE c == CreatedAt(n)
           t == hist[n].tick
<1>4. c \in 1..t /\ t \in Nat /\ t <= clock /\ t <= MaxTick
  BY <1>1, <1>2
<1> HIDE DEF c, t
<1>5. c \in Nat /\ c >= 1 /\ c <= t /\ c <= clock /\ c <= MaxTick
  BY <1>0, <1>3, <1>4
<1>6. QED BY <1>3, <1>5 DEF c, t

\* What happened before the second of a change is an earlier change.
LEMMA Earlier ==
    ASSUME Typed, Timed, NEW n \in Changes, NEW k \in Changes, hist[k].tick < CreatedAt(n)
    PROVE  k < n
<1>1. hist[k].tick \in Nat /\ hist[n].tick \in Nat /\ k \in Nat /\ n \in Nat
  BY Entries
<1>2. CreatedAt(n) \in Nat /\ CreatedAt(n) <= hist[n].tick
  BY Dates
<1>3. n <= k => hist[n].tick <= hist[k].tick
  BY DEF Timed
<1>4. QED BY <1>1, <1>2, <1>3

\* The webhooks of a change.
LEMMA EventParts ==
    /\ \A e : e \in Events <=> \E n \in Changes : e \in EventsOf(n)
    /\ \A n, kind : <<n, kind>> \in Events => n \in Changes
<1>1. \A e : e \in Events <=> \E n \in Changes : e \in EventsOf(n)
  BY DEF Events
<1>2. ASSUME NEW n, NEW kind, NEW m \in Changes, <<n, kind>> \in EventsOf(m) PROVE n = m
  BY <1>2 DEF EventsOf
<1>3. \A n, kind : <<n, kind>> \in Events => n \in Changes
  BY <1>1, <1>2
<1>4. QED BY <1>1, <1>3

\* A delivery under way is of an event, and has fetched a change.
LEMMA FetchParts ==
    ASSUME Typed, NEW e, NEW m, <<e, m>> \in fetched
    PROVE  e \in Events /\ m \in Changes
BY DEF Typed

-----------------------------------------------------------------------------
(* The steps.                                                              *)

\* One change more at Stripe.
LEMMA Appended ==
    ASSUME Typed, StripeChanges
    PROVE  /\ UNCHANGED <<clock, processed, fetched, local, invoice, mapped, snapshot, account>>
           /\ hist' \in Seq(ChangeType) /\ Len(hist') = Len(hist) + 1 /\ Len(hist) \in Nat
           /\ \A n \in Changes : n \in Changes' /\ hist'[n] = hist[n]
           /\ \A n \in Changes' : n \in Changes \/ (n = Len(hist) + 1 /\ hist'[n].tick = clock)
<1>0. hist \in Seq(ChangeType) /\ clock \in 1..MaxTick
  BY ProjectionAssumption DEF Typed
<1>1. ASSUME NEW s \in Subs, NEW status \in Live \cup Terminal, NEW paid \in {"none", "open", "paid"},
             NEW c \in {"live", Customer}, Change(s, status, paid, c)
      PROVE  /\ UNCHANGED <<clock, processed, fetched, local, invoice, mapped, snapshot, account>>
             /\ \E x \in ChangeType : x.tick = clock /\ hist' = Append(hist, x)
  <2> DEFINE x == [sub |-> s, status |-> status, invoice |-> paid, customer |-> c, tick |-> clock]
  <2>1. x \in ChangeType /\ x.tick = clock
    BY <1>0, <1>1 DEF ChangeType
  <2>2. /\ hist' = Append(hist, x)
        /\ UNCHANGED <<clock, processed, fetched, local, invoice, mapped, snapshot, account>>
    BY <1>1 DEF Change
  <2> HIDE DEF x
  <2>3. QED BY <2>1, <2>2
<1>2. hist # <<>> => Last.sub \in Subs
  <2>1. hist # <<>> => hist[Len(hist)] \in ChangeType
    BY <1>0
  <2>2. QED BY <2>1 DEF Last, ChangeType
<1>3. \E s \in Subs, status \in Live \cup Terminal, paid \in {"none", "open", "paid"}, c \in {"live", Customer} :
          Change(s, status, paid, c)
  <2>1. {"active", "past_due", "canceled"} \subseteq Live \cup Terminal
    BY DEF Live, Terminal
  <2>2. QED BY <1>2, <2>1 DEF StripeChanges
<1>4. PICK x \in ChangeType : x.tick = clock /\ hist' = Append(hist, x)
  BY <1>1, <1>3
<1>5. /\ hist' \in Seq(ChangeType) /\ Len(hist') = Len(hist) + 1 /\ Len(hist) \in Nat
      /\ \A n \in 1..Len(hist) : hist'[n] = hist[n]
      /\ hist'[Len(hist) + 1] = x
  BY <1>0, <1>4
<1>6. /\ \A n \in Changes : n \in Changes' /\ hist'[n] = hist[n]
      /\ \A n \in Changes' : n \in Changes \/ (n = Len(hist) + 1 /\ hist'[n].tick = clock)
  BY <1>4, <1>5 DEF Changes
<1>7. QED BY <1>1, <1>3, <1>5, <1>6

\* The row after a step that writes it: it shows change n, and is dated "at".
Shows(n, at) ==
    /\ local' \in LocalType(Len(hist)) /\ local'.seen = n /\ local'.snapshotAt = at
    /\ account = "live"

\* What the transaction of a webhook does.
LEMMA Upserts ==
    ASSUME Typed, NEW n \in Changes, NEW at \in Nat, at >= 1, at <= MaxTick, NEW e, Upsert(e, n, at)
    PROVE  /\ processed' \in {processed, processed \cup {e}}
           /\ \/ UNCHANGED <<local, snapshot>>
              \/ Shows(n, at) /\ snapshot' = [snapshot EXCEPT !.fresh = FALSE]
           /\ account = "live" /\ e \in processed' => e \in processed \/ Accepted(n, at)
<1>1. ASSUME Newer(n, at), local' = Projected(n, at), account = "live" PROVE Shows(n, at)
  <2>1. local \in LocalType(Len(hist)) /\ local.snapshotAt \in Nat
    BY ProjectionAssumption DEF Typed, LocalType
  <2>2. (IF local.snapshotAt > at THEN local.snapshotAt ELSE at) = at
    BY <1>1, <2>1 DEF Newer
  <2>3. local' = [sub |-> hist[n].sub, status |-> hist[n].status, eventAt |-> at, seen |-> n, snapshotAt |-> at]
    BY <1>1, <2>2 DEF Projected
  <2>4. /\ hist[n].sub \in Subs /\ hist[n].status \in Live \cup Terminal
        /\ n \in 0..Len(hist) /\ at \in 0..MaxTick
    BY Entries, ProjectionAssumption
  <2>5. QED BY <1>1, <2>3, <2>4 DEF Shows, LocalType
<1>2. account \in {"live", "deleted"}
  BY DEF Typed
<1>3. QED BY <1>1, <1>2 DEF Upsert, Stale, Accepted

\* The deletion of the customer, as the webhook reports it.
LEMMA CustomerDeleted ==
    ASSUME Typed, Timed, NEW n \in Changes, CustomerDeletedEvent(n)
    PROVE  /\ UNCHANGED <<clock, hist, fetched, invoice, account>> /\ mapped' \in BOOLEAN
           /\ <<n, "customer">> \in Events /\ processed' = processed \cup {<<n, "customer">>}
           /\ \/ UNCHANGED <<local, snapshot>>
              \/ Shows(n, CreatedAt(n)) /\ snapshot' = [snapshot EXCEPT !.fresh = FALSE]
           /\ account = "deleted" => UNCHANGED <<local, mapped>>
<1> DEFINE at == CreatedAt(n)
<1>0. at \in 0..MaxTick /\ n \in 0..Len(hist)
  BY Dates, Entries, ProjectionAssumption
<1>1. CASE account # "deleted" /\ local.sub # None /\ local.snapshotAt <= at
  <2>1. /\ local' = [local EXCEPT !.status = "canceled", !.seen = n, !.eventAt = IF @ > at THEN @ ELSE at, !.snapshotAt = at]
        /\ snapshot' = [snapshot EXCEPT !.fresh = FALSE] /\ account = "live"
    BY <1>1 DEF CustomerDeletedEvent, Stale, Typed
  <2>2. local \in LocalType(Len(hist)) /\ "canceled" \in Live \cup Terminal \cup {"none"}
    BY DEF Typed, Terminal
  <2> HIDE DEF at
  <2>3. Shows(n, at)
    BY <1>0, <2>1, <2>2 DEF Shows, LocalType
  <2>4. QED BY <1>1, <2>1, <2>3 DEF CustomerDeletedEvent, at
<1>2. CASE ~(account # "deleted" /\ local.sub # None /\ local.snapshotAt <= at)
  <2>1. UNCHANGED <<local, snapshot>>
    BY <1>2 DEF CustomerDeletedEvent
  <2>2. mapped' \in BOOLEAN /\ (account = "deleted" => mapped' = mapped)
    <3>1. account = "deleted" => mapped' = mapped
      BY DEF CustomerDeletedEvent
    <3>2. account # "deleted" => mapped' = FALSE
      BY DEF CustomerDeletedEvent
    <3>3. mapped \in BOOLEAN
      BY DEF Typed
    <3>4. QED BY <3>1, <3>2, <3>3, Zenon
  <2>3. /\ UNCHANGED <<clock, hist, fetched, invoice, account>>
        /\ <<n, "customer">> \in Events /\ processed' = processed \cup {<<n, "customer">>}
    BY DEF CustomerDeletedEvent
  <2>4. QED BY <2>1, <2>2, <2>3
<1>3. QED BY <1>1, <1>2

\* The steps of a reconciliation, but for the one that writes.
SnapshotTaken ==
    /\ UNCHANGED <<clock, hist, processed, fetched, local, invoice, mapped, account>>
    /\ \/ snapshot' \in SnapshotType(Len(hist)) /\ snapshot'.at = "reading" /\ snapshot'.taken = clock
       \/ /\ snapshot' \in SnapshotType(Len(hist)) /\ snapshot'.at = "applying"
          /\ snapshot'.taken = snapshot.taken /\ snapshot'.seen = Len(hist)
       \/ snapshot' = NoSnapshot

\* They are.
LEMMA Reconciles ==
    ASSUME Typed, BeginReconciliation \/ ReadStripe \/ ReconciliationFails
    PROVE  SnapshotTaken
<1>0. /\ Len(hist) \in Nat /\ clock \in 0..MaxTick /\ 0 \in 0..Len(hist) /\ Len(hist) \in 0..Len(hist)
      /\ snapshot \in SnapshotType(Len(hist))
  BY ProjectionAssumption DEF Typed
<1>1. CASE BeginReconciliation
  BY <1>0, <1>1 DEF BeginReconciliation, SnapshotTaken, SnapshotType
<1>2. CASE ReadStripe
  BY <1>0, <1>2 DEF ReadStripe, SnapshotTaken, SnapshotType
<1>3. CASE ReconciliationFails
  BY <1>3 DEF ReconciliationFails, SnapshotTaken
<1>4. QED BY <1>1, <1>2, <1>3

\* A snapshot is written with the date of its beginning, or not at all.
LEMMA Applies ==
    ASSUME Typed, ApplySubscription
    PROVE  /\ UNCHANGED <<clock, hist, processed, fetched, invoice, account>> /\ mapped' \in BOOLEAN
           /\ snapshot' = NoSnapshot /\ snapshot.at = "applying"
           /\ local' = local \/ Shows(snapshot.seen, snapshot.taken)
           /\ account = "deleted" => UNCHANGED <<local, mapped>>
<1> DEFINE n == snapshot.seen
           deleted == n > 0 /\ hist[n].customer = Customer
           x == [local EXCEPT !.sub = IF deleted THEN @ ELSE hist[n].sub,
                              !.status = hist[n].status, !.snapshotAt = snapshot.taken, !.seen = n]
<1>0. local \in LocalType(Len(hist)) /\ n \in 0..Len(hist) /\ snapshot.taken \in 0..MaxTick
  BY DEF Typed, SnapshotType
<1>1. CASE ~(mapped /\ account = "live" /\ Applicable)
  BY <1>1 DEF ApplySubscription, Typed
<1>2. CASE (mapped /\ account = "live" /\ Applicable) /\ (n = 0 \/ (deleted /\ local.sub = None))
  BY <1>2 DEF ApplySubscription
<1>3. CASE (mapped /\ account = "live" /\ Applicable) /\ ~(n = 0 \/ (deleted /\ local.sub = None))
  <2>1. local' = x /\ mapped' = ~deleted /\ snapshot' = NoSnapshot /\ account = "live" /\ snapshot.at = "applying"
        /\ UNCHANGED <<clock, hist, processed, fetched, invoice, account>>
    BY <1>3 DEF ApplySubscription
  <2>2. n \in Changes
    <3>1. Len(hist) \in Nat /\ n # 0
      BY <1>3 DEF Typed
    <3>2. QED BY <1>0, <3>1 DEF Changes
  <2>3. hist[n].sub \in Subs /\ hist[n].status \in Live \cup Terminal
    BY <2>2, Entries
  <2>4. x \in LocalType(Len(hist)) /\ x.seen = n /\ x.snapshotAt = snapshot.taken
    <3> HIDE DEF n, deleted
    <3>1. QED BY <1>0, <2>3 DEF LocalType
  <2> HIDE DEF x
  <2>5. Shows(n, snapshot.taken)
    BY <2>1, <2>4 DEF Shows
  <2>6. QED BY <2>1, <2>5
<1>4. QED BY <1>1, <1>2, <1>3

\* The two webhooks that project a change.
LEMMA Delivered ==
    ASSUME Typed, Timed, NEW n \in Changes,
           NEW m \in Changes, (SubscriptionEvent(n) /\ m = n) \/ InvoiceEvent(n, m)
    PROVE  /\ UNCHANGED <<clock, hist, mapped, account>> /\ fetched' \subseteq fetched
           /\ \E e \in Events : processed' \in {processed, processed \cup {e}}
           /\ \/ UNCHANGED <<local, snapshot>>
              \/ Shows(m, CreatedAt(n)) /\ snapshot' = [snapshot EXCEPT !.fresh = FALSE]
           /\ invoice' \in [Subs -> InvoiceType]
           /\ account = "deleted" => invoice' = invoice
<1>0. CreatedAt(n) \in Nat /\ CreatedAt(n) >= 1 /\ CreatedAt(n) <= MaxTick /\ invoice \in [Subs -> InvoiceType]
  BY Dates DEF Typed
<1>1. CASE SubscriptionEvent(n) /\ m = n
  <2> DEFINE e == <<n, "subscription">>
  <2>1. Upsert(e, m, CreatedAt(n)) /\ e \in Events /\ UNCHANGED <<clock, hist, fetched, invoice, mapped, account>>
    BY <1>1 DEF SubscriptionEvent
  <2> HIDE DEF e
  <2>2. QED BY <1>0, <2>1, Upserts
<1>2. CASE InvoiceEvent(n, m)
  <2> DEFINE e == <<n, "invoice">>
             x == [status |-> hist[n].invoice, eventAt |-> CreatedAt(n)]
  <2>1. <<e, m>> \in fetched /\ fetched' \subseteq fetched /\ UNCHANGED <<clock, hist, mapped, account>>
    BY <1>2 DEF InvoiceEvent
  <2>2. e \in Events
    BY <2>1, FetchParts
  <2>3. \/ UNCHANGED <<processed, local, invoice, snapshot>>
        \/ /\ Upsert(e, m, CreatedAt(n))
           /\ invoice' = invoice \/ (account = "live" /\ invoice' = [invoice EXCEPT ![hist[n].sub] = x])
    BY <1>2 DEF InvoiceEvent, Accepted
  <2>4. x \in InvoiceType
    <3>1. hist[n].invoice \in {"none", "open", "paid"} /\ CreatedAt(n) \in 0..MaxTick
      BY <1>0, Entries, ProjectionAssumption
    <3>2. QED BY <3>1 DEF InvoiceType
  <2> HIDE DEF e, x
  <2>5. invoice' \in [Subs -> InvoiceType] /\ (account = "deleted" => invoice' = invoice)
    BY <1>0, <2>3, <2>4
  <2>6. CASE Upsert(e, m, CreatedAt(n))
    BY <1>0, <2>1, <2>2, <2>5, <2>6, Upserts
  <2>7. QED BY <2>1, <2>2, <2>3, <2>5, <2>6
<1>3. QED BY <1>1, <1>2

\* The steps, by what they have to do with the database.
LEMMA NextCases ==
    ASSUME [Next]_vars
    PROVE  \/ StripeChanges \/ Tick \/ BeginReconciliation \/ ReadStripe \/ ReconciliationFails
           \/ ApplySubscription \/ Close \/ UNCHANGED vars
           \/ \E n \in Changes : PrefetchSubscription(n) \/ CustomerDeletedEvent(n)
           \/ \E n, m \in Changes : (SubscriptionEvent(n) /\ m = n) \/ InvoiceEvent(n, m)
BY DEF Next, Reconcile

\* An event waits with the last change of its subscription.
LEMMA Prefetches ==
    ASSUME Typed, NEW n \in Changes, PrefetchSubscription(n)
    PROVE  /\ UNCHANGED <<clock, hist, processed, local, invoice, mapped, snapshot, account>>
           /\ <<n, "invoice">> \in Events
           /\ \E m \in Changes : n <= m /\ fetched' = fetched \cup {<<<<n, "invoice">>, m>>}
BY DEF PrefetchSubscription

-----------------------------------------------------------------------------
(* Each part of the invariant is kept.                                     *)

\* What a step makes of the row: nothing, or a change with a date that is not later
\* than any change it does not show.
LocalStep ==
    \/ local' = local
    \/ \E k, at \in Nat :
         /\ Shows(k, at) /\ at <= clock
         /\ \A j \in Changes : hist[j].tick < at => j <= k

\* What a step makes of the reconciliation that is under way.
SnapshotStep ==
    \/ snapshot' = snapshot \/ snapshot' = [snapshot EXCEPT !.fresh = FALSE] \/ snapshot' = NoSnapshot
    \/ SnapshotTaken

\* Every step is of this kind.
LEMMA RowSteps ==
    ASSUME Typed, Timed, Prefetched, Dated, [Next]_vars
    PROVE  LocalStep /\ SnapshotStep
<1>0. \A k \in Changes : k \in Nat
  BY DEF Changes
<1>1. ASSUME NEW n \in Changes, NEW m \in Changes, n <= m, Shows(m, CreatedAt(n)) PROVE LocalStep
  <2>1. CreatedAt(n) \in Nat /\ CreatedAt(n) <= clock /\ m \in Nat /\ n \in Nat
    BY <1>0, Dates
  <2>2. ASSUME NEW j \in Changes, hist[j].tick < CreatedAt(n) PROVE j <= m
    <3>1. j < n /\ j \in Nat
      BY <1>0, <2>2, Earlier
    <3>2. QED BY <1>1, <2>1, <3>1
  <2>3. QED BY <1>1, <2>1, <2>2 DEF LocalStep
<1>2. ASSUME NEW n \in Changes, NEW m \in Changes, SubscriptionEvent(n) /\ m = n PROVE LocalStep /\ SnapshotStep
  <2>1. n <= m
    BY <1>0, <1>2
  <2>2. QED BY <1>1, <1>2, <2>1, Delivered DEF LocalStep, SnapshotStep
<1>3. ASSUME NEW n \in Changes, NEW m \in Changes, InvoiceEvent(n, m) PROVE LocalStep /\ SnapshotStep
  <2>1. n <= m
    BY <1>3 DEF InvoiceEvent, Prefetched
  <2>2. QED BY <1>1, <1>3, <2>1, Delivered DEF LocalStep, SnapshotStep
<1>4. ASSUME NEW n \in Changes, CustomerDeletedEvent(n) PROVE LocalStep /\ SnapshotStep
  <2>1. n <= n
    BY <1>0
  <2>2. QED BY <1>1, <1>4, <2>1, CustomerDeleted DEF LocalStep, SnapshotStep
<1>5. ASSUME NEW n \in Changes, PrefetchSubscription(n) PROVE LocalStep /\ SnapshotStep
  BY <1>5, Prefetches DEF LocalStep, SnapshotStep
<1>6. CASE ApplySubscription
  <2>1. snapshot' = NoSnapshot /\ (local' = local \/ Shows(snapshot.seen, snapshot.taken)) /\ snapshot.at = "applying"
    BY <1>6, Applies
  <2>2. snapshot.seen \in Nat /\ snapshot.taken \in Nat
    BY DEF Typed, SnapshotType
  <2>3. snapshot.taken <= clock /\ \A j \in Changes : hist[j].tick < snapshot.taken => j <= snapshot.seen
    BY <2>1 DEF Dated
  <2>4. QED BY <2>1, <2>2, <2>3 DEF LocalStep, SnapshotStep
<1>7. CASE BeginReconciliation \/ ReadStripe \/ ReconciliationFails
  BY <1>7, Reconciles DEF LocalStep, SnapshotStep, SnapshotTaken
<1>8. CASE StripeChanges
  BY <1>8, Appended DEF LocalStep, SnapshotStep
<1>9. CASE Tick \/ Close \/ UNCHANGED vars
  BY <1>9 DEF Tick, Close, vars, LocalStep, SnapshotStep
<1>10. QED BY <1>2, <1>3, <1>4, <1>5, <1>6, <1>7, <1>8, <1>9, NextCases

\* The history only grows, and so does the clock.
LEMMA HistorySteps ==
    ASSUME Typed, Timed, [Next]_vars
    PROVE  /\ hist' \in Seq(ChangeType) /\ Len(hist) <= Len(hist') /\ Len(hist') \in Nat
           /\ \A n \in Changes : n \in Changes' /\ hist'[n] = hist[n]
           /\ \A n \in Changes' : n \in Changes \/ (n = Len(hist) + 1 /\ hist'[n].tick = clock)
           /\ Events \subseteq Events'
           /\ clock' \in TicksPerSecond..MaxTick /\ clock <= clock'
           /\ hist' = hist \/ StripeChanges
<1>0. clock \in TicksPerSecond..MaxTick /\ hist \in Seq(ChangeType) /\ Len(hist) \in Nat
  BY DEF Typed
<1>1. ASSUME hist' = hist
      PROVE  /\ hist' \in Seq(ChangeType) /\ Len(hist) <= Len(hist') /\ Len(hist') \in Nat
             /\ \A n \in Changes : n \in Changes' /\ hist'[n] = hist[n]
             /\ \A n \in Changes' : n \in Changes \/ (n = Len(hist) + 1 /\ hist'[n].tick = clock)
             /\ Events \subseteq Events'
  BY <1>0, <1>1 DEF Changes, Events, EventsOf
<1>2. CASE StripeChanges
  <2>1. /\ hist' \in Seq(ChangeType) /\ Len(hist') = Len(hist) + 1 /\ clock' = clock
        /\ \A n \in Changes : n \in Changes' /\ hist'[n] = hist[n]
        /\ \A n \in Changes' : n \in Changes \/ (n = Len(hist) + 1 /\ hist'[n].tick = clock)
    BY <1>2, Appended
  <2>2. \A n \in Changes : EventsOf(n)' = EventsOf(n)
    BY <2>1 DEF EventsOf
  <2>3. Events \subseteq Events'
    BY <2>1, <2>2 DEF Events
  <2>4. TicksPerSecond \in Nat /\ MaxTick \in Nat
    BY ProjectionAssumption
  <2>5. clock <= clock' /\ clock' \in TicksPerSecond..MaxTick
    BY <1>0, <2>1, <2>4
  <2>6. QED BY <1>0, <1>2, <2>1, <2>3, <2>5
<1>3. CASE Tick
  <2>1. clock' = clock + 1 /\ clock < MaxTick /\ hist' = hist
    BY <1>3 DEF Tick
  <2>2. TicksPerSecond \in Nat /\ MaxTick \in Nat
    BY ProjectionAssumption
  <2>3. clock <= clock' /\ clock' \in TicksPerSecond..MaxTick
    BY <1>0, <2>1, <2>2
  <2>4. QED BY <1>1, <2>1, <2>3
<1>4. ASSUME hist' = hist, clock' = clock
      PROVE  /\ hist' = hist
             /\ clock' \in TicksPerSecond..MaxTick /\ clock <= clock'
  BY <1>0, <1>4, ProjectionAssumption
<1>5. CASE ~(StripeChanges \/ Tick)
  <2>1. ASSUME NEW n \in Changes, PrefetchSubscription(n) \/ CustomerDeletedEvent(n) PROVE hist' = hist /\ clock' = clock
    BY <2>1 DEF PrefetchSubscription, CustomerDeletedEvent
  <2>2. ASSUME NEW n \in Changes, NEW m \in Changes, (SubscriptionEvent(n) /\ m = n) \/ InvoiceEvent(n, m)
        PROVE  hist' = hist /\ clock' = clock
    BY <2>2 DEF SubscriptionEvent, InvoiceEvent
  <2>3. ASSUME BeginReconciliation \/ ReadStripe \/ ReconciliationFails \/ ApplySubscription \/ Close \/ UNCHANGED vars
        PROVE  hist' = hist /\ clock' = clock
    BY <2>3 DEF BeginReconciliation, ReadStripe, ReconciliationFails, ApplySubscription, Close, vars
  <2>4. hist' = hist /\ clock' = clock
    BY <1>5, <2>1, <2>2, <2>3, NextCases
  <2>5. QED BY <1>1, <1>4, <2>4
<1>6. QED BY <1>2, <1>3, <1>5

\* Every step keeps the types.
LEMMA TypesKept == ASSUME Typed, Timed, Prefetched, Dated, [Next]_vars PROVE Typed'
<1>0. /\ hist' \in Seq(ChangeType) /\ Len(hist) <= Len(hist') /\ Len(hist') \in Nat /\ Len(hist) \in Nat
      /\ Events \subseteq Events' /\ Changes \subseteq Changes' /\ clock' \in TicksPerSecond..MaxTick
  <2>1. Len(hist) \in Nat
    BY DEF Typed
  <2>2. QED BY <2>1, HistorySteps
<1>1. local' \in LocalType(Len(hist'))
  <2>1. local' = local \/ local' \in LocalType(Len(hist))
    BY RowSteps DEF LocalStep, Shows
  <2>2. local' \in LocalType(Len(hist))
    BY <2>1 DEF Typed
  <2>3. QED BY <1>0, <2>2 DEF LocalType
<1>2. snapshot' \in SnapshotType(Len(hist'))
  <2>0. snapshot \in SnapshotType(Len(hist))
    BY DEF Typed
  <2>1. [snapshot EXCEPT !.fresh = FALSE] \in SnapshotType(Len(hist))
    BY <2>0 DEF SnapshotType
  <2>2. NoSnapshot \in SnapshotType(Len(hist)) /\ NoSnapshot \in SnapshotType(Len(hist'))
    BY <1>0, ProjectionAssumption DEF NoSnapshot, SnapshotType
  <2>3. snapshot' \in SnapshotType(Len(hist))
    BY <2>0, <2>1, <2>2, RowSteps DEF SnapshotStep, SnapshotTaken
  <2>4. QED BY <1>0, <2>3 DEF SnapshotType
<1> DEFINE Rest == /\ processed' \subseteq Events' /\ mapped' \in BOOLEAN /\ account' \in {"live", "deleted"}
                   /\ invoice' \in [Subs -> InvoiceType]
                   /\ fetched' \subseteq {<<e, n>> : e \in Events', n \in Changes'}
<1>3. ASSUME processed' = processed, fetched' = fetched, invoice' = invoice,
             mapped' \in BOOLEAN, account' \in {"live", "deleted"}
      PROVE  Rest
  BY <1>0, <1>3 DEF Typed
<1>4. ASSUME NEW n \in Changes, NEW m \in Changes, (SubscriptionEvent(n) /\ m = n) \/ InvoiceEvent(n, m) PROVE Rest
  <2>1. /\ UNCHANGED <<mapped, account>> /\ fetched' \subseteq fetched /\ invoice' \in [Subs -> InvoiceType]
        /\ \E e \in Events : processed' \in {processed, processed \cup {e}}
    BY <1>4, Delivered
  <2>2. QED BY <1>0, <2>1 DEF Typed
<1>5. ASSUME NEW n \in Changes, CustomerDeletedEvent(n) PROVE Rest
  <2>1. /\ UNCHANGED <<fetched, invoice, account>> /\ mapped' \in BOOLEAN
        /\ \E e \in Events : processed' = processed \cup {e}
    BY <1>5, CustomerDeleted
  <2>2. QED BY <1>0, <2>1 DEF Typed
<1>6. ASSUME NEW n \in Changes, PrefetchSubscription(n) PROVE Rest
  <2>1. /\ UNCHANGED <<processed, invoice, mapped, account>>
        /\ \E e \in Events, m \in Changes : fetched' = fetched \cup {<<e, m>>}
    BY <1>6, Prefetches
  <2>2. QED BY <1>0, <2>1 DEF Typed
<1> HIDE DEF Rest
<1>7. ASSUME StripeChanges PROVE Rest
  BY <1>3, <1>7, Appended DEF Typed
<1>8. ASSUME BeginReconciliation \/ ReadStripe \/ ReconciliationFails PROVE Rest
  BY <1>3, <1>8, Reconciles DEF Typed, SnapshotTaken
<1>9. ASSUME ApplySubscription PROVE Rest
  BY <1>3, <1>9, Applies DEF Typed
<1>10. ASSUME Tick \/ Close \/ UNCHANGED vars PROVE Rest
  BY <1>3, <1>10 DEF Typed, Tick, Close, vars
<1>11. Rest
  BY <1>4, <1>5, <1>6, <1>7, <1>8, <1>9, <1>10, NextCases
<1>12. QED BY <1>0, <1>1, <1>2, <1>11 DEF Typed, Rest

\* The history stays in order.
LEMMA TimedKept == ASSUME Typed, Timed, [Next]_vars PROVE Timed'
<1>0. /\ clock \in Nat /\ clock' \in Nat /\ clock <= clock' /\ TicksPerSecond \in Nat /\ TicksPerSecond <= clock
      /\ MaxTick \in Nat /\ Len(hist) \in Nat
  BY HistorySteps, ProjectionAssumption DEF Typed
<1>1. \A n \in Changes : hist[n].tick \in Nat /\ n <= Len(hist) /\ n \in Nat
  BY Entries
<1>2. /\ \A n \in Changes : hist'[n] = hist[n]
      /\ \A n \in Changes' : n \in Changes \/ (n = Len(hist) + 1 /\ hist'[n].tick = clock)
  BY HistorySteps
<1>3. ASSUME NEW n \in Changes' PROVE hist'[n].tick \in TicksPerSecond..clock'
  <2>1. CASE n \in Changes
    BY <1>0, <1>1, <1>2, <2>1 DEF Timed
  <2>2. CASE hist'[n].tick = clock
    BY <1>0, <2>2
  <2>3. QED BY <1>2, <2>1, <2>2
<1>4. ASSUME NEW n \in Changes', NEW m \in Changes', n <= m PROVE hist'[n].tick <= hist'[m].tick
  <2>1. CASE n \in Changes /\ m \in Changes
    BY <1>2, <1>4, <2>1 DEF Timed
  <2>2. CASE n \in Changes /\ m \notin Changes
    <3>1. hist[n].tick <= clock
      BY <1>0, <1>1, <2>2 DEF Timed
    <3>2. QED BY <1>2, <2>2, <3>1
  <2>3. CASE n \notin Changes
    <3>1. n = Len(hist) + 1 /\ hist'[n].tick = clock
      BY <1>2, <2>3
    <3>2. m = Len(hist) + 1 /\ hist'[m].tick = clock
      BY <1>0, <1>1, <1>2, <1>4, <3>1
    <3>3. QED BY <1>0, <3>1, <3>2
  <2>4. QED BY <2>1, <2>2, <2>3
<1>5. QED BY <1>3, <1>4 DEF Timed

\* What a delivery fetched stays as recent as its event.
LEMMA PrefetchedKept == ASSUME Typed, Timed, Prefetched, [Next]_vars PROVE Prefetched'
<1> SUFFICES ASSUME NEW n, NEW m, <<<<n, "invoice">>, m>> \in fetched' PROVE n <= m
  BY DEF Prefetched
<1>1. CASE <<<<n, "invoice">>, m>> \in fetched
  <2>1. <<n, "invoice">> \in Events /\ m \in Changes
    BY <1>1, FetchParts
  <2>2. n \in Changes
    BY <2>1, EventParts
  <2>3. QED BY <1>1, <2>1, <2>2 DEF Prefetched
<1>2. CASE <<<<n, "invoice">>, m>> \notin fetched
  <2>1. ASSUME NEW k \in Changes, PrefetchSubscription(k) PROVE n <= m
    <3>1. PICK l \in Changes : k <= l /\ fetched' = fetched \cup {<<<<k, "invoice">>, l>>}
      BY <2>1, Prefetches
    <3>2. <<<<n, "invoice">>, m>> = <<<<k, "invoice">>, l>>
      BY <1>2, <3>1
    <3>3. QED BY <3>1, <3>2
  <2>2. ASSUME NEW k \in Changes, NEW l \in Changes, (SubscriptionEvent(k) /\ l = k) \/ InvoiceEvent(k, l)
        PROVE  fetched' \subseteq fetched
    BY <2>2, Delivered
  <2>3. ASSUME NEW k \in Changes, CustomerDeletedEvent(k) PROVE fetched' = fetched
    BY <2>3, CustomerDeleted
  <2>4. ASSUME BeginReconciliation \/ ReadStripe \/ ReconciliationFails \/ ApplySubscription \/ Tick \/ Close \/ UNCHANGED vars
        PROVE  fetched' = fetched
    BY <2>4 DEF BeginReconciliation, ReadStripe, ReconciliationFails, ApplySubscription, Tick, Close, vars
  <2>5. ASSUME StripeChanges PROVE fetched' = fetched
    BY <2>5, Appended
  <2>6. QED BY <1>2, <2>1, <2>2, <2>3, <2>4, <2>5, NextCases
<1>3. QED BY <1>1, <1>2

\* The dates stay in the past, and a snapshot complete.
LEMMA DatedKept == ASSUME Typed, Timed, Prefetched, Dated, [Next]_vars PROVE Dated'
<1>0. /\ clock \in Nat /\ clock' \in Nat /\ clock <= clock' /\ Len(hist) \in Nat
      /\ local.snapshotAt \in Nat /\ snapshot.taken \in Nat /\ snapshot.seen \in Nat
      /\ local.snapshotAt <= clock /\ snapshot.taken <= clock
  BY HistorySteps, ProjectionAssumption DEF Typed, LocalType, SnapshotType, Dated
<1>1. local'.snapshotAt <= clock'
  <2>1. CASE local' = local
    BY <1>0, <2>1
  <2>2. ASSUME NEW k \in Nat, NEW at \in Nat, Shows(k, at), at <= clock PROVE local'.snapshotAt <= clock'
    BY <1>0, <2>2 DEF Shows
  <2>3. QED BY <2>1, <2>2, RowSteps DEF LocalStep
<1>2. snapshot'.taken <= clock' /\ (snapshot'.at = "applying" =>
          \A n \in Changes' : hist'[n].tick < snapshot'.taken => n <= snapshot'.seen)
  <2>1. ASSUME snapshot'.at = snapshot.at, snapshot'.taken = snapshot.taken, snapshot'.seen = snapshot.seen
        PROVE  /\ snapshot'.taken <= clock'
               /\ snapshot'.at = "applying" =>
                     \A n \in Changes' : hist'[n].tick < snapshot'.taken => n <= snapshot'.seen
    <3>1. ASSUME snapshot.at = "applying", NEW n \in Changes', hist'[n].tick < snapshot.taken PROVE n <= snapshot.seen
      <4>1. n \in Changes
        <5>1. hist'[n].tick = clock => FALSE
          BY <1>0, <3>1
        <5>2. QED BY <5>1, HistorySteps
      <4>2. QED BY <3>1, <4>1, HistorySteps DEF Dated
    <3>2. QED BY <1>0, <2>1, <3>1
  <2>2. CASE snapshot' = snapshot
    BY <2>1, <2>2
  <2>3. CASE snapshot' = [snapshot EXCEPT !.fresh = FALSE]
    <3>1. snapshot'.at = snapshot.at /\ snapshot'.taken = snapshot.taken /\ snapshot'.seen = snapshot.seen
      BY <2>3 DEF Typed, SnapshotType
    <3>2. QED BY <2>1, <3>1
  <2>4. CASE snapshot' = NoSnapshot
    BY <1>0, <2>4 DEF NoSnapshot
  <2>5. CASE SnapshotTaken
    <3>1. Changes' = Changes /\ clock' = clock /\ \A n \in Changes : n <= Len(hist)
      BY <1>0, <2>5 DEF SnapshotTaken, Changes
    <3>2. CASE snapshot'.at = "reading" /\ snapshot'.taken = clock
      BY <1>0, <3>2
    <3>3. CASE snapshot'.at = "applying" /\ snapshot'.taken = snapshot.taken /\ snapshot'.seen = Len(hist)
      BY <1>0, <3>1, <3>3
    <3>4. QED BY <2>4, <2>5, <3>2, <3>3 DEF SnapshotTaken
  <2>6. QED BY <2>2, <2>3, <2>4, <2>5, RowSteps DEF SnapshotStep
<1>3. QED BY <1>1, <1>2 DEF Dated

\* The row stays as new as its date says.
LEMMA HonestKept == ASSUME Typed, Timed, Prefetched, Dated, SnapshotHonest, [Next]_vars PROVE SnapshotHonest'
<1> SUFFICES ASSUME NEW n \in Changes', hist'[n].tick < local'.snapshotAt PROVE n <= local'.seen
  BY DEF SnapshotHonest
<1>0. clock \in Nat /\ local.snapshotAt \in Nat /\ local.snapshotAt <= clock
  BY ProjectionAssumption DEF Typed, LocalType, Dated
<1>1. CASE local' = local
  <2>1. n \in Changes
    <3>1. hist'[n].tick = clock => FALSE
      BY <1>0, <1>1
    <3>2. QED BY <3>1, HistorySteps
  <2>2. QED BY <1>1, <2>1, HistorySteps DEF SnapshotHonest
<1>2. ASSUME NEW k \in Nat, NEW at \in Nat, Shows(k, at), at <= clock,
             \A j \in Changes : hist[j].tick < at => j <= k
      PROVE  n <= local'.seen
  <2>1. local'.seen = k /\ local'.snapshotAt = at
    BY <1>2 DEF Shows
  <2>2. n \in Changes
    <3>1. hist'[n].tick = clock => FALSE
      BY <1>0, <1>2, <2>1
    <3>2. QED BY <3>1, HistorySteps
  <2>3. QED BY <1>2, <2>1, <2>2, HistorySteps
<1>3. QED BY <1>1, <1>2, RowSteps DEF LocalStep

\* A payment that was accepted for n and is in the row of its invoice, or an event
\* that is later.
Paid(n, x) == x.eventAt > CreatedAt(n) \/ (x.eventAt = CreatedAt(n) /\ x.status = "paid")

\* What an invoice event does to the rows of the invoices and to the receipts.
LEMMA InvoiceSteps ==
    ASSUME Typed, Timed, NEW n \in Changes, NEW m \in Changes, InvoiceEvent(n, m)
    PROVE  LET x == [status |-> hist[n].invoice, eventAt |-> CreatedAt(n)] IN
           /\ processed' \subseteq processed \cup {<<n, "invoice">>}
           /\ \/ invoice' = invoice
              \/ InvoiceNewer(n) /\ invoice' = [invoice EXCEPT ![hist[n].sub] = x]
           /\ account = "live" /\ <<n, "invoice">> \in processed' /\ <<n, "invoice">> \notin processed =>
                (IF InvoiceNewer(n) THEN invoice' = [invoice EXCEPT ![hist[n].sub] = x] ELSE invoice' = invoice)
<1> DEFINE e == <<n, "invoice">>
           x == [status |-> hist[n].invoice, eventAt |-> CreatedAt(n)]
<1>1. CASE e \in processed
  <2>1. processed' = processed /\ invoice' = invoice
    BY <1>1 DEF InvoiceEvent
  <2>2. QED BY <1>1, <2>1
<1>2. CASE e \notin processed
  <2>1. /\ Upsert(e, m, CreatedAt(n))
        /\ invoice' = IF Accepted(m, CreatedAt(n)) /\ InvoiceNewer(n) THEN [invoice EXCEPT ![hist[n].sub] = x] ELSE invoice
    BY <1>2 DEF InvoiceEvent
  <2>2. CreatedAt(n) \in Nat /\ CreatedAt(n) >= 1 /\ CreatedAt(n) <= MaxTick
    BY Dates
  <2> HIDE DEF e, x
  <2>3. /\ processed' \in {processed, processed \cup {e}}
        /\ account = "live" /\ e \in processed' => Accepted(m, CreatedAt(n))
    BY <1>2, <2>1, <2>2, Upserts
  <2>4. QED BY <1>2, <2>1, <2>3 DEF e, x
<1>3. QED BY <1>1, <1>2

\* A row that is replaced by a newer one keeps the payments it had.
LEMMA NewerPays ==
    ASSUME Typed, Timed, NEW n \in Changes, NEW k \in Changes, hist[k].sub = hist[n].sub,
           InvoiceNewer(n), Paid(k, invoice[hist[k].sub])
    PROVE  Paid(k, [status |-> hist[n].invoice, eventAt |-> CreatedAt(n)])
<1> DEFINE row == invoice[hist[n].sub]
           x == [status |-> hist[n].invoice, eventAt |-> CreatedAt(n)]
<1>1. CreatedAt(n) \in Nat /\ CreatedAt(k) \in Nat /\ CreatedAt(k) >= 1
  BY Dates
<1>2. row \in InvoiceType
  BY Entries DEF Typed
<1>3. row.eventAt \in Nat /\ hist[n].invoice \in {"none", "open", "paid"}
  BY <1>2, Entries DEF InvoiceType
<1>4. x.status = hist[n].invoice /\ x.eventAt = CreatedAt(n)
  OBVIOUS
<1>5. \/ row.eventAt = 0 \/ row.eventAt < CreatedAt(n)
      \/ row.eventAt = CreatedAt(n) /\ (row.status \notin Settled \/ hist[n].invoice \in Settled)
  BY DEF InvoiceNewer
<1>6. row.eventAt > CreatedAt(k) \/ (row.eventAt = CreatedAt(k) /\ row.status = "paid")
  BY DEF Paid
<1> HIDE DEF row, x
<1>7. x.eventAt > CreatedAt(k) \/ (x.eventAt = CreatedAt(k) /\ x.status = "paid")
  <2>1. CASE row.eventAt > CreatedAt(k) \/ row.eventAt < CreatedAt(n)
    BY <1>1, <1>3, <1>4, <1>5, <1>6, <2>1
  <2>2. CASE row.eventAt = CreatedAt(k) /\ row.status = "paid" /\ row.eventAt = CreatedAt(n)
    <3>1. hist[n].invoice \in Settled
      BY <1>1, <1>5, <2>2 DEF Settled
    <3>2. QED BY <1>3, <1>4, <2>2, <3>1 DEF Settled
  <2>3. QED BY <1>1, <1>3, <1>5, <1>6, <2>1, <2>2
<1>8. QED BY <1>7 DEF Paid, x

\* An accepted payment stays in its row.
LEMMA RecordedKept == ASSUME Typed, Timed, Prefetched, Recorded, [Next]_vars PROVE Recorded'
<1> SUFFICES ASSUME NEW k \in Changes', <<k, "invoice">> \in processed', hist'[k].invoice = "paid", account' = "live"
             PROVE  \/ invoice'[hist'[k].sub].eventAt > CreatedAt(k)'
                    \/ invoice'[hist'[k].sub].eventAt = CreatedAt(k)' /\ invoice'[hist'[k].sub].status = "paid"
  BY DEF Recorded
<1>0. account = "live"
  <2>1. account' \in {account, "deleted"}
    <3>1. ASSUME NEW n \in Changes, PrefetchSubscription(n) \/ CustomerDeletedEvent(n) PROVE account' = account
      BY <3>1 DEF PrefetchSubscription, CustomerDeletedEvent
    <3>2. ASSUME NEW n \in Changes, NEW m \in Changes, (SubscriptionEvent(n) /\ m = n) \/ InvoiceEvent(n, m)
          PROVE  account' = account
      BY <3>2, Delivered
    <3>3. ASSUME BeginReconciliation \/ ReadStripe \/ ReconciliationFails \/ ApplySubscription \/ Tick \/ UNCHANGED vars
          PROVE  account' = account
      BY <3>3 DEF BeginReconciliation, ReadStripe, ReconciliationFails, ApplySubscription, Tick, vars
    <3>4. ASSUME StripeChanges PROVE account' = account
      BY <3>4, Appended
    <3>5. QED BY <3>1, <3>2, <3>3, <3>4, NextCases DEF Close
  <2>2. QED BY <2>1
<1>1. SUFFICES ASSUME k \in Changes PROVE Paid(k, invoice'[hist[k].sub])
  <2>1. k \in Changes
    <3>1. CASE StripeChanges
      <4>1. <<k, "invoice">> \in Events
        BY <3>1, Appended DEF Typed
      <4>2. QED BY <4>1, EventParts
    <3>2. CASE hist' = hist
      BY <3>2 DEF Changes
    <3>3. QED BY <3>1, <3>2, HistorySteps
  <2>2. hist'[k] = hist[k]
    BY <2>1, HistorySteps
  <2>3. CreatedAt(k)' = CreatedAt(k)
    BY <2>2 DEF CreatedAt
  <2>4. QED BY <1>1, <2>1, <2>2, <2>3 DEF Paid
<1>2. hist[k].invoice = "paid" /\ hist[k].sub \in Subs /\ invoice \in [Subs -> InvoiceType]
  <2>1. hist'[k] = hist[k]
    BY <1>1, HistorySteps
  <2>2. QED BY <1>1, <2>1, Entries DEF Typed
<1>3. <<k, "invoice">> \in processed => Paid(k, invoice[hist[k].sub])
  BY <1>0, <1>1, <1>2 DEF Recorded, Paid
<1>4. ASSUME invoice' = invoice, <<k, "invoice">> \in processed PROVE Paid(k, invoice'[hist[k].sub])
  BY <1>3, <1>4
<1>5. ASSUME NEW n \in Changes, NEW m \in Changes, InvoiceEvent(n, m) PROVE Paid(k, invoice'[hist[k].sub])
  <2> DEFINE x == [status |-> hist[n].invoice, eventAt |-> CreatedAt(n)]
  <2>0. /\ processed' \subseteq processed \cup {<<n, "invoice">>}
        /\ invoice' = invoice \/ (InvoiceNewer(n) /\ invoice' = [invoice EXCEPT ![hist[n].sub] = x])
        /\ <<n, "invoice">> \in processed' /\ <<n, "invoice">> \notin processed =>
             (IF InvoiceNewer(n) THEN invoice' = [invoice EXCEPT ![hist[n].sub] = x] ELSE invoice' = invoice)
    BY <1>0, <1>5, InvoiceSteps
  <2>1. hist[n].sub \in Subs
    BY Entries
  <2>2. CASE k = n /\ <<k, "invoice">> \notin processed
    <3>1. CASE InvoiceNewer(n)
      <4>1. invoice'[hist[k].sub] = x
        BY <1>2, <2>0, <2>2, <3>1
      <4>2. QED BY <1>2, <2>2, <4>1 DEF Paid
    <3>2. CASE ~InvoiceNewer(n)
      <4>1. invoice' = invoice
        BY <2>0, <2>2, <3>2
      <4>2. invoice[hist[k].sub] \in InvoiceType /\ CreatedAt(k) \in Nat /\ hist[n].invoice \in Settled
        BY <1>1, <1>2, <2>2, Dates DEF Settled
      <4>3. invoice[hist[k].sub].eventAt > CreatedAt(k)
        BY <2>2, <3>2, <4>2 DEF InvoiceNewer, InvoiceType
      <4>4. QED BY <4>1, <4>3 DEF Paid
    <3>3. QED BY <3>1, <3>2
  <2>3. CASE <<k, "invoice">> \in processed
    <3>1. CASE invoice' = invoice
      BY <1>4, <2>3, <3>1
    <3>2. CASE InvoiceNewer(n) /\ invoice' = [invoice EXCEPT ![hist[n].sub] = x]
      <4>1. CASE hist[k].sub = hist[n].sub
        <5>1. invoice'[hist[k].sub] = x
          BY <1>2, <3>2, <4>1
        <5>2. Paid(k, x)
          BY <1>1, <1>3, <2>3, <3>2, <4>1, NewerPays
        <5>3. QED BY <5>1, <5>2
      <4>2. CASE hist[k].sub # hist[n].sub
        BY <1>2, <1>3, <2>1, <2>3, <3>2, <4>2
      <4>3. QED BY <4>1, <4>2
    <3>3. QED BY <2>0, <3>1, <3>2
  <2>4. QED BY <2>0, <2>2, <2>3
<1>6. ASSUME NEW n \in Changes, SubscriptionEvent(n) PROVE Paid(k, invoice'[hist[k].sub])
  <2>1. invoice' = invoice /\ processed' \subseteq processed \cup {<<n, "subscription">>}
    BY <1>6 DEF SubscriptionEvent, Upsert
  <2>2. QED BY <1>4, <2>1
<1>7. ASSUME NEW n \in Changes, CustomerDeletedEvent(n) PROVE Paid(k, invoice'[hist[k].sub])
  <2>1. invoice' = invoice /\ processed' = processed \cup {<<n, "customer">>}
    BY <1>7 DEF CustomerDeletedEvent
  <2>2. QED BY <1>4, <2>1
<1>8. ASSUME NEW n \in Changes, PrefetchSubscription(n) PROVE Paid(k, invoice'[hist[k].sub])
  BY <1>4, <1>8 DEF PrefetchSubscription
<1>9. ASSUME BeginReconciliation \/ ReadStripe \/ ReconciliationFails \/ ApplySubscription \/ Tick \/ Close \/ UNCHANGED vars
      PROVE  Paid(k, invoice'[hist[k].sub])
  <2>1. invoice' = invoice /\ processed' = processed
    BY <1>9 DEF BeginReconciliation, ReadStripe, ReconciliationFails, ApplySubscription, Tick, Close, vars
  <2>2. QED BY <1>4, <2>1
<1>10. ASSUME StripeChanges PROVE Paid(k, invoice'[hist[k].sub])
  BY <1>4, <1>10, Appended
<1>11. QED BY <1>5, <1>6, <1>7, <1>8, <1>9, <1>10, NextCases

-----------------------------------------------------------------------------
(* The theorems.                                                           *)

\* The inductive invariant holds in every reachable state.
LEMMA Invariance == Spec => []IInv
<1>1. ASSUME Init PROVE IInv
  <2> USE <1>1 DEF Init
  <2>0. Len(hist) = 0 /\ Changes = {} /\ Events = {}
    BY DEF Changes, Events
  <2>1. Typed
    <3>1. /\ 0 \in 0..MaxTick /\ TicksPerSecond \in TicksPerSecond..MaxTick /\ 0 \in 0..0
      BY ProjectionAssumption
    <3>2. NoSubscription \in LocalType(0) /\ NoInvoice \in InvoiceType /\ NoSnapshot \in SnapshotType(0)
      BY <3>1 DEF NoSubscription, LocalType, NoInvoice, InvoiceType, NoSnapshot, SnapshotType
    <3>3. QED BY <2>0, <3>1, <3>2 DEF Typed
  <2>2. Timed /\ Prefetched /\ SnapshotHonest /\ Recorded
    BY <2>0 DEF Timed, Prefetched, SnapshotHonest, Recorded
  <2>3. Dated
    BY ProjectionAssumption DEF Dated, NoSubscription, NoSnapshot
  <2>4. QED BY <2>1, <2>2, <2>3, TypeParts DEF IInv
<1>2. ASSUME IInv, [Next]_vars PROVE IInv'
  <2>1. Typed /\ Timed /\ Prefetched /\ Dated /\ SnapshotHonest /\ Recorded
    BY <1>2, TypeParts DEF IInv
  <2>2. TypeOK'
    BY <1>2, <2>1, TypesKept, TypePartsNext
  <2>3. Timed' /\ Prefetched' /\ Dated'
    BY <1>2, <2>1, TimedKept, PrefetchedKept, DatedKept
  <2>4. SnapshotHonest' /\ Recorded'
    BY <1>2, <2>1, HonestKept, RecordedKept
  <2>5. QED BY <2>2, <2>3, <2>4 DEF IInv
<1>3. QED BY <1>1, <1>2, PTL DEF Spec

\* Webhooks in any order, lost or repeated, beside snapshots: the subscription shown
\* is as new as its date says, and no payment that was accepted is overwritten by an
\* older event.
THEOREM ProjectionSound == Spec => []ProjectionConsistent
<1>1. IInv => ProjectionConsistent
  BY DEF IInv, ProjectionConsistent, Recorded, AcceptedPaymentKept
<1>2. QED BY <1>1, Invariance, PTL

\* No webhook and no reconciliation writes to an account whose erasure was accepted,
\* whatever was under way at that moment.
THEOREM ClosedUntouched == Spec => ClosedAccountUntouched
<1>1. ASSUME IInv, [Next]_vars, account = "deleted" PROVE UNCHANGED <<local, invoice, mapped>>
  <2>0. Typed /\ Timed
    BY <1>1, TypeParts DEF IInv
  <2>1. ASSUME NEW n \in Changes, NEW m \in Changes, (SubscriptionEvent(n) /\ m = n) \/ InvoiceEvent(n, m)
        PROVE  UNCHANGED <<local, invoice, mapped>>
    BY <1>1, <2>0, <2>1, Delivered DEF Shows
  <2>2. ASSUME NEW n \in Changes, PrefetchSubscription(n) \/ CustomerDeletedEvent(n)
        PROVE  UNCHANGED <<local, invoice, mapped>>
    BY <1>1, <2>0, <2>2, Prefetches, CustomerDeleted
  <2>3. ASSUME ApplySubscription PROVE UNCHANGED <<local, invoice, mapped>>
    BY <1>1, <2>0, <2>3, Applies
  <2>4. ASSUME StripeChanges PROVE UNCHANGED <<local, invoice, mapped>>
    BY <2>0, <2>4, Appended
  <2>5. ASSUME BeginReconciliation \/ ReadStripe \/ ReconciliationFails \/ Tick \/ Close \/ UNCHANGED vars
        PROVE  UNCHANGED <<local, invoice, mapped>>
    BY <2>5 DEF BeginReconciliation, ReadStripe, ReconciliationFails, Tick, Close, vars
  <2>6. QED BY <1>1, <2>1, <2>2, <2>3, <2>4, <2>5, NextCases
<1>2. QED BY <1>1, Invariance, PTL DEF Spec, ClosedAccountUntouched

-----------------------------------------------------------------------------
(* CheckoutCustomer.                                                       *)

\* The types of the rows, of the requests and of the two workers.
AttemptType == [status: {"none", "creating", "open", "completed", "expired", "failed"},
                lapsed: BOOLEAN, started: BOOLEAN, late: BOOLEAN,
                created: Customers!Customers \cup {None}, erased: BOOLEAN]

CheckoutType == [pc: {"idle", "begun", "post", "record", "save", "session", "open", "undo"},
                 key: Keys \cup {None}, customer: Customers!Customers \cup {None}, held: BOOLEAN]

WatchType == [pc: {"idle", "recover"}, key: Keys \cup {None}, customer: Customers!Customers \cup {None}]

StepType == [pc: {"idle", "next", "post", "delete", "mapped", "done"}, todo: SUBSET Keys,
             full: BOOLEAN, key: Keys \cup {None}, customer: Customers!Customers \cup {None},
             mapped: Customers!Customers \cup {None}]

MappingType == [customer: Customers!Customers \cup {None}, deleted: BOOLEAN]

\* Every variable has its type.
CustomersTyped ==
    /\ attempt \in [Keys -> AttemptType] /\ mapping \in MappingType
    /\ stripe \in [Customers!Customers -> {"none", "live", "deleted"}]
    /\ replay \in [Keys -> Customers!Customers \cup {None}]
    /\ event \in [Keys -> {"none", "pending", "completed", "dead"}]
    /\ req \in [Requests -> CheckoutType] /\ worker \in WatchType /\ erasure \in StepType
    /\ owner \in {"live", "deleted"} /\ faults \in 0..MaxFaults

\* The index of live attempts.
OnePending == \A j, k \in Keys : Customers!Pending(j) /\ Customers!Pending(k) => j = k

\* The customers an attempt may have.
Own(k) == {<<k, 1>>, <<k, 2>>}

\* What is known of the creation of one attempt: as long as Stripe may still be
\* asked, it knows the key or there is no customer; a customer it answers with or
\* that is recorded is the only one; an erased one is deleted; and a customer
\* there is has the intent that leads to it.
CreationSound(k) ==
    /\ replay[k] \in Own(k) \cup {None} /\ attempt[k].created \in Own(k) \cup {None}
    /\ replay[k] = None /\ ~attempt[k].late => Customers!Found(k) = {}
    /\ replay[k] # None => Customers!Found(k) \subseteq {replay[k]}
    /\ attempt[k].created # None => Customers!Found(k) \subseteq {attempt[k].created}
    /\ attempt[k].created # None /\ ~attempt[k].late => replay[k] = attempt[k].created
    /\ attempt[k].erased => attempt[k].created # None /\ stripe[attempt[k].created] = "deleted"
    /\ Customers!Found(k) # {} => attempt[k].started
    /\ \E c : Customers!Found(k) \subseteq {c}

\* A request asks Stripe only within the window, and what it holds is what its
\* attempt has.
RequestSound(r) ==
    /\ req[r].pc # "idle" => req[r].key \in Keys
    /\ req[r].pc = "post" => /\ req[r].customer = None /\ attempt[req[r].key].started /\ ~attempt[req[r].key].late
    /\ req[r].pc = "record" => req[r].customer # None /\ req[r].customer = replay[req[r].key]
    /\ req[r].pc = "save" => req[r].customer # None
    /\ req[r].pc \in {"save", "undo"} /\ req[r].customer # None => req[r].customer = attempt[req[r].key].created
    /\ req[r].pc \in {"begun", "open"} => req[r].customer = None

\* The watchdog has the customer of the attempt, or nobody can ask Stripe for one
\* any more and it has found what there is.
WorkerSound ==
    worker.pc = "recover" =>
      /\ worker.key \in Keys /\ worker.customer \in Own(worker.key) \cup {None}
      /\ \/ worker.customer # None /\ attempt[worker.key].created = worker.customer
         \/ attempt[worker.key].late /\ Customers!Found(worker.key) \subseteq {worker.customer}

\* A request may still create a customer for the attempt.
PostUnderWay(k) == \E r \in Requests : req[r].pc = "post" /\ req[r].key = k

\* The erasure runs alone but for requests that have lost their lock, and a pass
\* that sees all creations has those before it that have a customer or get one.
ErasureSound ==
    erasure.pc # "idle" =>
      /\ owner = "deleted" /\ \A r \in Requests : ~req[r].held
      /\ \A k \in erasure.todo : attempt[k].started
      /\ erasure.pc = "post" => erasure.key \in erasure.todo /\ attempt[erasure.key].started /\ ~attempt[erasure.key].late
      /\ erasure.pc = "delete" => /\ erasure.key \in erasure.todo /\ erasure.customer # None
                                  /\ erasure.customer = attempt[erasure.key].created
      /\ erasure.pc \in {"mapped", "done"} => erasure.todo = {} /\ ~erasure.full
      /\ ~erasure.full => \A k \in Keys : Customers!Found(k) # {} \/ PostUnderWay(k) =>
                                            k \in erasure.todo \/ attempt[k].erased

\* The inductive invariant of CheckoutCustomer.
CustomersInv ==
    /\ CustomersTyped /\ OnePending /\ (\A k \in Keys : CreationSound(k)) /\ (\A r \in Requests : RequestSound(r))
    /\ WorkerSound /\ ErasureSound

\* A request is about to record the customer of the attempt.
RecordUnderWay(k) == \E r \in Requests : req[r].pc = "record" /\ req[r].key = k

\* What a step does to an attempt: what is recorded or erased stays so, the
\* window closes once and while nobody asks, and a customer comes from a request
\* that asks for it.
Onward(k) ==
    /\ attempt[k].created # None => attempt'[k].created = attempt[k].created
    /\ attempt[k].erased => attempt'[k].erased
    /\ attempt[k].started => attempt'[k].started
    /\ attempt[k].late => attempt'[k].late /\ Customers!Found(k)' \subseteq Customers!Found(k)
    /\ ~attempt[k].late /\ attempt'[k].late => ~PostUnderWay(k) /\ ~(erasure.pc = "post" /\ erasure.key = k)
    /\ replay'[k] = replay[k] \/ replay[k] = None \/ ~RecordUnderWay(k)
    /\ Customers!Found(k)' # {} => Customers!Found(k) # {} \/ PostUnderWay(k)

\* The step leaves the attempt alone, but may delete customers.
Still(k) ==
    /\ attempt'[k].created = attempt[k].created /\ attempt'[k].erased = attempt[k].erased
    /\ attempt'[k].started = attempt[k].started /\ attempt'[k].late = attempt[k].late
    /\ replay'[k] = replay[k]
    /\ \A c \in Own(k) : stripe'[c] \in {stripe[c], "deleted"}

\* The step leaves the request alone.
Unmoved(r) == req'[r].pc = req[r].pc /\ req'[r].key = req[r].key /\ req'[r].customer = req[r].customer

\* The customers found are those of the attempt.
LEMMA FoundOwn ==
    ASSUME NEW k \in Keys
    PROVE  /\ Own(k) \subseteq Customers!Customers
           /\ \A c \in Own(k) : c[1] = k
           /\ \A c : c \in Customers!Found(k) <=> c \in Own(k) /\ stripe[c] = "live"
           /\ \A c : c \in Customers!Found(k)' <=> c \in Own(k) /\ stripe'[c] = "live"
BY DEF Customers!Found, Customers!Customers, Own

\* No customer is of two attempts.
LEMMA OwnDistinct == ASSUME NEW j, NEW k, j # k PROVE Own(j) \cap Own(k) = {}
BY DEF Own

\* An attempt the step leaves alone stays sound, also when customers are deleted.
LEMMA StillSound ==
    ASSUME NEW k \in Keys, CreationSound(k), Still(k)
    PROVE  CreationSound(k)' /\ Onward(k)
<1>1. Customers!Found(k)' \subseteq Customers!Found(k)
  BY FoundOwn DEF Still
<1>2. Onward(k)
  BY <1>1 DEF Still, Onward
<1>3. attempt'[k].erased => attempt'[k].created # None /\ stripe'[attempt'[k].created] = "deleted"
  BY DEF Still, CreationSound
<1>4. CreationSound(k)'
  BY <1>1, <1>3 DEF Still, CreationSound
<1>5. QED BY <1>2, <1>4

\* What a request holds stays true through the steps of others.
LEMMA RequestKept ==
    ASSUME NEW r \in Requests, RequestSound(r), Unmoved(r), \A k \in Keys : Onward(k)
    PROVE  RequestSound(r)'
<1>1. CASE req[r].pc = "idle"
  BY <1>1 DEF RequestSound, Unmoved
<1>2. CASE req[r].pc # "idle"
  <2>1. req[r].key \in Keys /\ Onward(req[r].key)
    BY <1>2 DEF RequestSound
  <2>2. req[r].pc = "post" => ~attempt'[req[r].key].late /\ attempt'[req[r].key].started
    BY <2>1 DEF RequestSound, Onward, PostUnderWay
  <2>3. req[r].pc = "record" => req[r].customer = replay'[req[r].key]
    BY <2>1 DEF RequestSound, Onward, RecordUnderWay
  <2>4. req[r].pc \in {"save", "undo"} /\ req[r].customer # None => req[r].customer = attempt'[req[r].key].created
    BY <2>1 DEF RequestSound, Onward
  <2>5. QED BY <1>2, <2>1, <2>2, <2>3, <2>4 DEF RequestSound, Unmoved
<1>3. QED BY <1>1, <1>2

\* So does what the watchdog holds.
LEMMA WorkerKept ==
    ASSUME WorkerSound, worker' = worker, \A k \in Keys : Onward(k)
    PROVE  WorkerSound'
<1>1. CASE worker.pc # "recover"
  BY <1>1 DEF WorkerSound
<1>2. CASE worker.pc = "recover"
  <2>1. worker.key \in Keys /\ Onward(worker.key)
    BY <1>2 DEF WorkerSound
  <2>2. QED BY <1>2, <2>1 DEF WorkerSound, Onward
<1>3. QED BY <1>1, <1>2

\* So does what the step of the erasure holds.
LEMMA ErasureKept ==
    ASSUME ErasureSound, CustomersTyped, erasure' = erasure, owner' = owner, \A k \in Keys : Onward(k),
           \A r \in Requests : req'[r].held => req[r].held,
           \A k \in Keys : PostUnderWay(k)' => PostUnderWay(k)
    PROVE  ErasureSound'
<1>1. CASE erasure.pc = "idle"
  BY <1>1 DEF ErasureSound
<1>2. CASE erasure.pc # "idle"
  <2>1. erasure.todo \subseteq Keys
    BY DEF CustomersTyped, StepType
  <2>2. owner' = "deleted" /\ \A r \in Requests : ~req'[r].held
    BY <1>2 DEF ErasureSound
  <2>3. \A k \in erasure.todo : attempt'[k].started
    BY <1>2, <2>1 DEF ErasureSound, Onward
  <2>4. erasure.pc = "post" => erasure.key \in erasure.todo /\ attempt'[erasure.key].started /\ ~attempt'[erasure.key].late
    BY <1>2, <2>1 DEF ErasureSound, Onward
  <2>5. erasure.pc = "delete" => /\ erasure.key \in erasure.todo /\ erasure.customer # None
                                 /\ erasure.customer = attempt'[erasure.key].created
    BY <1>2, <2>1 DEF ErasureSound, Onward
  <2>6. ~erasure.full => \A k \in Keys : Customers!Found(k)' # {} \/ PostUnderWay(k)' =>
                                           k \in erasure.todo \/ attempt'[k].erased
    BY <1>2, <2>1 DEF ErasureSound, Onward
  <2>7. QED BY <1>2, <2>2, <2>3, <2>4, <2>5, <2>6 DEF ErasureSound
<1>3. QED BY <1>1, <1>2

\* A step that leads onward keeps what is sound of whatever it does not touch.
LEMMA CustomersKept ==
    ASSUME CustomersInv, CustomersTyped', OnePending',
           \A k \in Keys : CreationSound(k)' /\ Onward(k),
           \A r \in Requests : Unmoved(r) \/ RequestSound(r)',
           worker' = worker \/ WorkerSound',
           \/ ErasureSound'
           \/ erasure' = erasure /\ erasure.pc = "idle"
           \/ /\ erasure' = erasure /\ owner' = owner
              /\ \A r \in Requests : req'[r].held => req[r].held
              /\ \A k \in Keys : PostUnderWay(k)' => PostUnderWay(k)
    PROVE  CustomersInv'
<1>1. \A r \in Requests : RequestSound(r)'
  BY RequestKept DEF CustomersInv
<1>2. WorkerSound'
  BY WorkerKept DEF CustomersInv
<1>3. ErasureSound'
  <2>1. CASE erasure' = erasure /\ erasure.pc = "idle"
    BY <2>1 DEF ErasureSound
  <2>2. QED BY <2>1, ErasureKept DEF CustomersInv
<1>4. QED BY <1>1, <1>2, <1>3 DEF CustomersInv

\* An attempt that is pending after a step was so before, but for one.
LEMMA PendingKept ==
    ASSUME OnePending, \A k \in Keys : Customers!Pending(k)' => Customers!Pending(k)
    PROVE  OnePending'
BY DEF OnePending

\* CreateCustomer within the window: the customer is the one Stripe knows by the
\* key, and the only one.
LEMMA PostSound ==
    ASSUME None \notin Customers!Customers, CustomersTyped, NEW k \in Keys, CreationSound(k),
           ~attempt[k].late, attempt[k].started, Customers!CreateCustomer(k),
           attempt'[k].created \in {attempt[k].created, Customers!Posted(k)},
           attempt'[k].erased = attempt[k].erased, attempt'[k].started, ~attempt'[k].late,
           \A j \in Keys \ {k} : attempt'[j] = attempt[j]
    PROVE  /\ CreationSound(k)' /\ \A j \in Keys \ {k} : Still(j)
           /\ Customers!Posted(k) \in Own(k) /\ replay'[k] = Customers!Posted(k)
           /\ attempt[k].created # None => attempt'[k].created = attempt[k].created
           /\ attempt[k].erased => Customers!Found(k)' = {}
           /\ replay[k] # None => replay'[k] = replay[k]
           /\ stripe' \in [Customers!Customers -> {"none", "live", "deleted"}]
           /\ replay' \in [Keys -> Customers!Customers \cup {None}]
<1> DEFINE c == Customers!Posted(k)
<1>1. /\ replay' = [replay EXCEPT ![k] = c]
      /\ stripe' = [stripe EXCEPT ![c] = IF @ = "none" THEN "live" ELSE @]
  BY DEF Customers!CreateCustomer
<1>2. c \in Own(k) /\ (replay[k] # None => c = replay[k]) /\ None \notin Own(k) /\ c \in Customers!Customers /\ c # None
  <2>1. replay[k] # None => c = replay[k] /\ c \in Own(k)
    BY DEF Customers!Posted, CreationSound
  <2>2. ASSUME NEW b, b \in {1, 2} PROVE <<k, b>> \in Own(k)
    BY <2>2 DEF Own
  <2>3. (IF stripe[<<k, 1>>] = "none" THEN 1 ELSE 2) \in {1, 2}
    OBVIOUS
  <2>4. replay[k] = None => c \in Own(k)
    BY <2>2, <2>3 DEF Customers!Posted
  <2>5. QED BY <2>1, <2>4, FoundOwn
<1> HIDE DEF c
<1>3. /\ stripe' \in [Customers!Customers -> {"none", "live", "deleted"}]
      /\ replay' \in [Keys -> Customers!Customers \cup {None}]
  BY <1>1, <1>2 DEF CustomersTyped
<1>4. replay'[k] = c /\ \A j \in Keys \ {k} : replay'[j] = replay[j]
  BY <1>1 DEF CustomersTyped
<1>5. \A d \in Customers!Customers : d # c => stripe'[d] = stripe[d]
  BY <1>1 DEF CustomersTyped
<1>6. \A j \in Keys \ {k} : Still(j)
  <2>1. ASSUME NEW j \in Keys \ {k}, NEW d \in Own(j) PROVE stripe'[d] = stripe[d]
    BY <1>2, <1>5, FoundOwn
  <2>2. QED BY <1>4, <2>1 DEF Still
<1>7. Customers!Found(k) \subseteq {c}
  BY <1>2 DEF CreationSound
<1>8. Customers!Found(k)' \subseteq {c}
  BY <1>5, <1>7, FoundOwn
<1>9. attempt[k].created # None => attempt[k].created = c
  BY <1>2 DEF CreationSound
<1>10. attempt'[k].created \in {None, c} /\ (attempt[k].created # None => attempt'[k].created = c)
  BY <1>9 DEF c
<1>11. attempt[k].erased => attempt'[k].created = c /\ stripe[c] = "deleted" /\ stripe'[c] = "deleted"
  BY <1>1, <1>2, <1>9, <1>10 DEF CreationSound, CustomersTyped
<1>12. attempt[k].erased => Customers!Found(k)' = {}
  BY <1>8, <1>11, FoundOwn
<1>13. CreationSound(k)'
  BY <1>2, <1>4, <1>8, <1>10, <1>11 DEF CreationSound
<1>14. QED
  BY <1>2, <1>3, <1>4, <1>6, <1>9, <1>10, <1>12, <1>13 DEF c

\* DeleteCustomer of the recorded customer.
LEMMA DeleteSound ==
    ASSUME CustomersTyped, NEW k \in Keys, CreationSound(k), attempt[k].created # None,
           Customers!DeleteCustomer(attempt[k].created), replay' = replay,
           attempt'[k].created = attempt[k].created, attempt'[k].started = attempt[k].started,
           attempt'[k].late = attempt[k].late,
           \A j \in Keys \ {k} : attempt'[j] = attempt[j]
    PROVE  /\ CreationSound(k)' /\ \A j \in Keys \ {k} : Still(j)
           /\ Customers!Found(k)' = {} /\ stripe' \in [Customers!Customers -> {"none", "live", "deleted"}]
<1> DEFINE c == attempt[k].created
<1>1. c \in Own(k) /\ c \in Customers!Customers /\ stripe' = [stripe EXCEPT ![c] = "deleted"]
  BY FoundOwn DEF CreationSound, Customers!DeleteCustomer
<1>2. /\ stripe'[c] = "deleted" /\ \A d \in Customers!Customers : stripe'[d] \in {stripe[d], "deleted"}
      /\ stripe' \in [Customers!Customers -> {"none", "live", "deleted"}]
  BY <1>1 DEF CustomersTyped
<1>3. \A j \in Keys \ {k} : Still(j)
  BY <1>2, FoundOwn DEF Still
<1>4. Customers!Found(k)' = {}
  BY <1>1, <1>2, FoundOwn DEF CreationSound
<1>5. CreationSound(k)'
  BY <1>1, <1>2, <1>4 DEF CreationSound
<1>6. QED BY <1>2, <1>3, <1>4, <1>5

\* The invariant holds before any checkout.
LEMMA CustomersStart ==
    ASSUME MaxFaults \in Nat, Customers!Init PROVE CustomersInv
<1>1. /\ Customers!NoAttempt \in AttemptType /\ Customers!NoMapping \in MappingType /\ Customers!Idle \in CheckoutType
      /\ Customers!Asleep \in WatchType /\ Customers!NotBegun \in StepType
  BY DEF Customers!NoAttempt, Customers!NoMapping, Customers!Idle, Customers!Asleep, Customers!NotBegun,
         AttemptType, MappingType, CheckoutType, WatchType, StepType
<1>2. CustomersTyped
  BY <1>1 DEF CustomersTyped, Customers!Init
<1>3. OnePending
  BY DEF OnePending, Customers!Init, Customers!Pending, Customers!NoAttempt
<1>4. ASSUME NEW k \in Keys PROVE CreationSound(k)
  <2>1. Customers!Found(k) = {}
    BY FoundOwn DEF Customers!Init
  <2>2. QED BY <2>1 DEF CreationSound, Customers!Init, Customers!NoAttempt
<1>5. ASSUME NEW r \in Requests PROVE RequestSound(r)
  BY DEF RequestSound, Customers!Init, Customers!Idle
<1>6. WorkerSound /\ ErasureSound
  BY DEF WorkerSound, ErasureSound, Customers!Init, Customers!Asleep, Customers!NotBegun
<1>7. QED BY <1>2, <1>3, <1>4, <1>5, <1>6 DEF CustomersInv

\* A step that leaves the attempts alone.
LEMMA StillStep ==
    ASSUME CustomersInv, CustomersTyped', OnePending', \A k \in Keys : Still(k),
           \A r \in Requests : Unmoved(r) \/ RequestSound(r)',
           worker' = worker \/ WorkerSound',
           \/ ErasureSound'
           \/ erasure' = erasure /\ erasure.pc = "idle"
           \/ /\ erasure' = erasure /\ owner' = owner
              /\ \A r \in Requests : req'[r].held => req[r].held
              /\ \A k \in Keys : PostUnderWay(k)' => PostUnderWay(k)
    PROVE  CustomersInv'
<1>1. \A k \in Keys : CreationSound(k)' /\ Onward(k)
  BY StillSound DEF CustomersInv
<1>2. QED BY <1>1, CustomersKept

\* Steps that touch an attempt in its status only, or none.
LEMMA StatusStep ==
    ASSUME CustomersInv, attempt' \in [Keys -> AttemptType], OnePending',
           \A k \in Keys : /\ attempt'[k].created = attempt[k].created /\ attempt'[k].erased = attempt[k].erased
                           /\ attempt'[k].started = attempt[k].started /\ attempt'[k].late = attempt[k].late,
           mapping' \in MappingType, event' \in [Keys -> {"none", "pending", "completed", "dead"}],
           faults' \in 0..MaxFaults,
           UNCHANGED <<stripe, replay, req, worker, erasure, owner>>
    PROVE  CustomersInv'
<1>1. CustomersTyped'
  BY DEF CustomersInv, CustomersTyped
<1>2. \A k \in Keys : Still(k)
  BY DEF Still
<1>3. \A r \in Requests : Unmoved(r)
  BY DEF Unmoved
<1>4. \A k \in Keys : PostUnderWay(k)' => PostUnderWay(k)
  BY DEF PostUnderWay
<1>5. QED BY <1>1, <1>2, <1>3, <1>4, StillStep

\* Faults stay within their bound.
LEMMA FaultTyped == ASSUME MaxFaults \in Nat, CustomersTyped, Customers!Fault PROVE faults' \in 0..MaxFaults
BY DEF CustomersTyped, Customers!Fault

\* Time, Stripe, operators and the closing of the account keep the invariant.
LEMMA SurroundingsKept ==
    ASSUME MaxFaults \in Nat, None \notin Customers!Customers, CustomersInv,
           \/ \E k \in Keys : \/ Customers!TurnsLate(k) \/ Customers!Forget(k) \/ Customers!Lapses(k)
                              \/ Customers!SessionEnds(k) \/ Customers!ScheduleDue(k) \/ Customers!RetryDeadLetter(k)
           \/ Customers!OperatorDeletes \/ Customers!MarkCustomerDeleted \/ Customers!Close
    PROVE  CustomersInv'
<1>0. /\ CustomersTyped /\ OnePending /\ attempt \in [Keys -> AttemptType]
      /\ \A k \in Keys : CreationSound(k)
  BY DEF CustomersInv, CustomersTyped
<1>1. ASSUME NEW k \in Keys, Customers!TurnsLate(k) PROVE CustomersInv'
  <2>1. /\ attempt' = [attempt EXCEPT ![k].late = TRUE] /\ ~PostUnderWay(k) /\ ~(erasure.pc = "post" /\ erasure.key = k)
        /\ UNCHANGED <<mapping, stripe, replay, event, req, worker, erasure, owner, faults>>
    BY <1>1 DEF Customers!TurnsLate, PostUnderWay
  <2>2. /\ attempt' \in [Keys -> AttemptType] /\ \A j \in Keys \ {k} : attempt'[j] = attempt[j]
        /\ attempt'[k] = [attempt[k] EXCEPT !.late = TRUE]
    BY <1>0, <2>1 DEF AttemptType
  <2>3. /\ attempt'[k].late /\ attempt'[k].created = attempt[k].created /\ attempt'[k].erased = attempt[k].erased
        /\ attempt'[k].started = attempt[k].started /\ attempt'[k].status = attempt[k].status
    BY <1>0, <2>2 DEF AttemptType
  <2>4. CustomersTyped' /\ OnePending'
    BY <1>0, <2>1, <2>2, <2>3 DEF CustomersTyped, OnePending, Customers!Pending
  <2>5. \A j \in Keys \ {k} : Still(j)
    BY <2>1, <2>2 DEF Still
  <2>6. \A j \in Keys \ {k} : CreationSound(j)' /\ Onward(j)
    BY <1>0, <2>5, StillSound
  <2>7. Customers!Found(k)' = Customers!Found(k)
    BY <2>1 DEF Customers!Found
  <2>8. CreationSound(k)' /\ Onward(k)
    BY <1>0, <2>1, <2>3, <2>7 DEF CreationSound, Onward
  <2>9. (\A r \in Requests : Unmoved(r)) /\ \A j \in Keys : PostUnderWay(j)' => PostUnderWay(j)
    BY <2>1 DEF Unmoved, PostUnderWay
  <2>10. QED BY <2>1, <2>4, <2>6, <2>8, <2>9, CustomersKept
<1>2. ASSUME NEW k \in Keys, Customers!Forget(k) PROVE CustomersInv'
  <2>1. /\ replay' = [replay EXCEPT ![k] = None] /\ ~RecordUnderWay(k) /\ attempt[k].late
        /\ UNCHANGED <<attempt, mapping, stripe, event, req, worker, erasure, owner, faults>>
    BY <1>2 DEF Customers!Forget, RecordUnderWay
  <2>2. /\ replay' \in [Keys -> Customers!Customers \cup {None}] /\ \A j \in Keys \ {k} : replay'[j] = replay[j]
        /\ replay'[k] = None
    BY <1>0, <2>1 DEF CustomersTyped
  <2>3. CustomersTyped' /\ OnePending'
    BY <1>0, <2>1, <2>2 DEF CustomersTyped, OnePending, Customers!Pending
  <2>4. \A j \in Keys \ {k} : Still(j)
    BY <2>1, <2>2 DEF Still
  <2>5. \A j \in Keys \ {k} : CreationSound(j)' /\ Onward(j)
    BY <1>0, <2>4, StillSound
  <2>6. Customers!Found(k)' = Customers!Found(k)
    BY <2>1 DEF Customers!Found
  <2>7. CreationSound(k)' /\ Onward(k)
    BY <1>0, <2>1, <2>2, <2>6 DEF CreationSound, Onward
  <2>8. (\A r \in Requests : Unmoved(r)) /\ \A j \in Keys : PostUnderWay(j)' => PostUnderWay(j)
    BY <2>1 DEF Unmoved, PostUnderWay
  <2>9. QED BY <2>1, <2>3, <2>5, <2>7, <2>8, CustomersKept
<1>3. ASSUME NEW k \in Keys, Customers!Lapses(k) \/ Customers!SessionEnds(k) PROVE CustomersInv'
  <2>1. PICK s \in {"creating", "open", "completed", "expired", "failed", "none"}, l \in BOOLEAN :
          /\ attempt' = [attempt EXCEPT ![k].status = s, ![k].lapsed = l] /\ Customers!Pending(k)
    <3>1. CASE Customers!Lapses(k)
      <4>1. attempt' = [attempt EXCEPT ![k].status = attempt[k].status, ![k].lapsed = TRUE]
        BY <1>0, <3>1 DEF Customers!Lapses, AttemptType
      <4>2. attempt[k].status \in {"creating", "open", "completed", "expired", "failed", "none"}
        BY <1>0 DEF AttemptType
      <4>3. QED BY <3>1, <4>1, <4>2 DEF Customers!Lapses
    <3>2. CASE Customers!SessionEnds(k)
      BY <1>0, <3>2 DEF Customers!SessionEnds, Customers!Pending
    <3>3. QED BY <1>3, <3>1, <3>2
  <2>2. /\ attempt' \in [Keys -> AttemptType] /\ \A j \in Keys \ {k} : attempt'[j] = attempt[j]
        /\ attempt'[k] = [attempt[k] EXCEPT !.status = s, !.lapsed = l]
    BY <1>0, <2>1 DEF AttemptType
  <2>3. \A j \in Keys : /\ attempt'[j].created = attempt[j].created /\ attempt'[j].erased = attempt[j].erased
                        /\ attempt'[j].started = attempt[j].started /\ attempt'[j].late = attempt[j].late
    <3>1. /\ attempt'[k].created = attempt[k].created /\ attempt'[k].erased = attempt[k].erased
          /\ attempt'[k].started = attempt[k].started /\ attempt'[k].late = attempt[k].late
      BY <1>0, <2>2 DEF AttemptType
    <3>2. QED BY <2>2, <3>1
  <2>4. \A j \in Keys : Customers!Pending(j)' => Customers!Pending(j)
    BY <2>1, <2>2 DEF Customers!Pending
  <2>5. UNCHANGED <<mapping, stripe, replay, event, req, worker, erasure, owner, faults>>
    BY <1>3 DEF Customers!Lapses, Customers!SessionEnds
  <2>6. OnePending' /\ mapping' \in MappingType /\ event' \in [Keys -> {"none", "pending", "completed", "dead"}] /\ faults' \in 0..MaxFaults
    BY <1>0, <2>4, <2>5, PendingKept DEF CustomersTyped
  <2>7. QED BY <2>2, <2>3, <2>5, <2>6, StatusStep
<1>4. ASSUME NEW k \in Keys, Customers!ScheduleDue(k) \/ Customers!RetryDeadLetter(k) PROVE CustomersInv'
  <2>1. /\ event' = [event EXCEPT ![k] = "pending"] /\ faults' \in 0..MaxFaults
        /\ UNCHANGED <<attempt, mapping, stripe, replay, req, worker, erasure, owner>>
    BY <1>0, <1>4, FaultTyped DEF Customers!ScheduleDue, Customers!RetryDeadLetter, CustomersTyped
  <2>2. /\ event' \in [Keys -> {"none", "pending", "completed", "dead"}] /\ mapping' \in MappingType
        /\ attempt' \in [Keys -> AttemptType] /\ OnePending'
    BY <1>0, <2>1 DEF CustomersTyped, OnePending, Customers!Pending
  <2>3. QED BY <2>1, <2>2, StatusStep
<1>5. ASSUME Customers!OperatorDeletes PROVE CustomersInv'
  <2>1. PICK c \in Customers!Customers : stripe' = [stripe EXCEPT ![c] = "deleted"]
    BY <1>5 DEF Customers!OperatorDeletes, Customers!DeleteCustomer
  <2>2. faults' \in 0..MaxFaults /\ UNCHANGED <<attempt, mapping, replay, event, req, worker, erasure, owner>>
    BY <1>0, <1>5, FaultTyped DEF Customers!OperatorDeletes
  <2>3. /\ stripe' \in [Customers!Customers -> {"none", "live", "deleted"}]
        /\ \A d \in Customers!Customers : stripe'[d] \in {stripe[d], "deleted"}
    BY <1>0, <2>1 DEF CustomersTyped
  <2>4. CustomersTyped' /\ OnePending'
    BY <1>0, <2>2, <2>3 DEF CustomersTyped, OnePending, Customers!Pending
  <2>5. \A k \in Keys : Still(k)
    BY <2>2, <2>3, FoundOwn DEF Still
  <2>6. (\A r \in Requests : Unmoved(r)) /\ \A j \in Keys : PostUnderWay(j)' => PostUnderWay(j)
    BY <2>2 DEF Unmoved, PostUnderWay
  <2>7. QED BY <2>2, <2>4, <2>5, <2>6, StillStep
<1>6. ASSUME Customers!MarkCustomerDeleted PROVE CustomersInv'
  <2>1. /\ mapping' = [mapping EXCEPT !.deleted = TRUE]
        /\ UNCHANGED <<stripe, replay, event, req, worker, erasure, owner, faults>>
    BY <1>6 DEF Customers!MarkCustomerDeleted
  <2>2. attempt' = [k \in Keys |-> IF Customers!Pending(k)
                                   THEN [attempt[k] EXCEPT !.status = "failed", !.lapsed = FALSE] ELSE attempt[k]]
    BY <1>6 DEF Customers!MarkCustomerDeleted
  <2>3. ASSUME NEW k \in Keys
        PROVE  /\ attempt'[k] \in AttemptType
               /\ attempt'[k].created = attempt[k].created /\ attempt'[k].erased = attempt[k].erased
               /\ attempt'[k].started = attempt[k].started /\ attempt'[k].late = attempt[k].late
               /\ ~Customers!Pending(k)'
    BY <1>0, <2>2 DEF AttemptType, Customers!Pending
  <2>4. attempt' \in [Keys -> AttemptType] /\ OnePending' /\ mapping' \in MappingType
    BY <1>0, <2>1, <2>2, <2>3 DEF OnePending, MappingType, CustomersTyped
  <2>5. event' \in [Keys -> {"none", "pending", "completed", "dead"}] /\ faults' \in 0..MaxFaults
    BY <1>0, <2>1 DEF CustomersTyped
  <2>6. QED BY <2>1, <2>3, <2>4, <2>5, StatusStep
<1>7. ASSUME Customers!Close PROVE CustomersInv'
  <2>1. owner = "live" /\ owner' = "deleted" /\ UNCHANGED <<attempt, mapping, stripe, replay, event, req, worker, erasure, faults>>
    BY <1>7 DEF Customers!Close
  <2>2. CustomersTyped' /\ OnePending' /\ (\A k \in Keys : Still(k)) /\ \A r \in Requests : Unmoved(r)
    BY <1>0, <2>1 DEF CustomersTyped, OnePending, Customers!Pending, Still, Unmoved
  <2>3. erasure.pc = "idle"
    BY <2>1 DEF CustomersInv, ErasureSound
  <2>4. QED BY <2>1, <2>2, <2>3, StillStep
<1>8. QED BY <1>1, <1>2, <1>3, <1>4, <1>5, <1>6, <1>7

\* One request moves and the others do not.
LEMMA Moves ==
    ASSUME NEW r \in Requests, NEW q \in CheckoutType, req \in [Requests -> CheckoutType],
           req' = [req EXCEPT ![r] = q]
    PROVE  /\ req' \in [Requests -> CheckoutType] /\ req'[r] = q
           /\ \A s \in Requests \ {r} : req'[s] = req[s] /\ Unmoved(s)
           /\ q.pc # "post" => \A k \in Keys : PostUnderWay(k)' => PostUnderWay(k)
           /\ (q.held => req[r].held) => \A s \in Requests : req'[s].held => req[s].held
BY DEF Unmoved, PostUnderWay

\* A change of some fields of an attempt that leaves the others as they are.
LEMMA RowChanged ==
    ASSUME NEW k \in Keys, NEW x \in AttemptType, attempt \in [Keys -> AttemptType],
           attempt' = [attempt EXCEPT ![k] = x]
    PROVE  /\ attempt' \in [Keys -> AttemptType] /\ attempt'[k] = x
           /\ \A j \in Keys \ {k} : attempt'[j] = attempt[j]
           /\ x.status \notin {"creating", "open"} \/ Customers!Pending(k) =>
                \A j \in Keys : Customers!Pending(j)' => Customers!Pending(j)
BY DEF Customers!Pending

\* Expiring the attempts whose time is over changes their status only.
LEMMA SweptRows ==
    ASSUME attempt \in [Keys -> AttemptType], NEW k \in Keys
    PROVE  /\ Customers!Swept[k] \in AttemptType
           /\ Customers!Swept[k].created = attempt[k].created /\ Customers!Swept[k].erased = attempt[k].erased
           /\ Customers!Swept[k].started = attempt[k].started /\ Customers!Swept[k].late = attempt[k].late
           /\ Customers!Swept[k].status \in {"creating", "open"} => Customers!Pending(k)
<1>1. attempt[k] \in AttemptType
  OBVIOUS
<1>2. CASE Customers!Pending(k) /\ attempt[k].lapsed
  <2> DEFINE s == IF attempt[k].status = "open" THEN "expired" ELSE "failed"
  <2>1. Customers!Swept[k] = [attempt[k] EXCEPT !.status = s, !.lapsed = FALSE] /\ s \in {"expired", "failed"}
    BY <1>1, <1>2 DEF Customers!Swept, AttemptType
  <2> HIDE DEF s
  <2>2. QED BY <1>1, <1>2, <2>1 DEF AttemptType
<1>3. CASE ~(Customers!Pending(k) /\ attempt[k].lapsed)
  BY <1>1, <1>3 DEF Customers!Swept, Customers!Pending
<1>4. QED BY <1>2, <1>3

\* beginCheckout inserts the only pending attempt.
LEMMA BeginCheckoutKept ==
    ASSUME MaxFaults \in Nat, None \notin Customers!Customers, CustomersInv,
           NEW r \in Requests, NEW k \in Keys, Customers!BeginCheckout(r, k)
    PROVE  CustomersInv'
<1>0. CustomersTyped /\ OnePending /\ attempt \in [Keys -> AttemptType] /\ req \in [Requests -> CheckoutType]
  BY DEF CustomersInv, CustomersTyped
<1>1. erasure.pc = "idle" /\ UNCHANGED <<mapping, stripe, replay, event, worker, erasure, owner, faults>>
  BY DEF Customers!BeginCheckout
<1>2. CASE attempt' = Customers!Swept /\ UNCHANGED req
  <2>1. attempt' \in [Keys -> AttemptType]
    BY <1>0, <1>2, SweptRows DEF Customers!Swept
  <2>2. /\ \A j \in Keys : Customers!Pending(j)' => Customers!Pending(j)
        /\ \A j \in Keys : /\ attempt'[j].created = attempt[j].created /\ attempt'[j].erased = attempt[j].erased
                           /\ attempt'[j].started = attempt[j].started /\ attempt'[j].late = attempt[j].late
    BY <1>0, <1>2, SweptRows DEF Customers!Pending
  <2>3. /\ OnePending' /\ mapping' \in MappingType /\ faults' \in 0..MaxFaults
        /\ event' \in [Keys -> {"none", "pending", "completed", "dead"}]
    BY <1>0, <1>1, <2>2, PendingKept DEF CustomersTyped
  <2>4. QED BY <1>1, <1>2, <2>1, <2>2, <2>3, StatusStep
<1> DEFINE q == [pc |-> IF Customers!Mapped = None THEN "begun" ELSE "session", key |-> k,
                 customer |-> Customers!Mapped, held |-> TRUE]
           x == [Customers!Swept[k] EXCEPT !.status = "creating"]
<1>3. CASE /\ attempt' = [Customers!Swept EXCEPT ![k].status = "creating"]
           /\ req' = [req EXCEPT ![r] = q] /\ ~Customers!OtherLive
  <2>1. /\ x \in AttemptType /\ x.created = attempt[k].created /\ x.erased = attempt[k].erased
        /\ x.started = attempt[k].started /\ x.late = attempt[k].late
    BY <1>0, SweptRows DEF AttemptType
  <2>2. attempt' = [Customers!Swept EXCEPT ![k] = x]
    BY <1>3
  <2> HIDE DEF x
  <2>3. /\ attempt'[k] = x /\ \A j \in Keys \ {k} : attempt'[j] = Customers!Swept[j]
        /\ attempt' \in [Keys -> AttemptType]
    BY <1>0, <2>1, <2>2, SweptRows DEF Customers!Swept
  <2>4. OnePending'
    BY <1>3, <2>3 DEF OnePending, Customers!OtherLive, Customers!Pending
  <2>5. \A j \in Keys : Still(j)
    <3>1. \A j \in Keys : /\ attempt'[j].created = attempt[j].created /\ attempt'[j].erased = attempt[j].erased
                          /\ attempt'[j].started = attempt[j].started /\ attempt'[j].late = attempt[j].late
      BY <1>0, <2>1, <2>3, SweptRows
    <3>2. QED BY <1>1, <3>1 DEF Still
  <2>6. Customers!Mapped \in Customers!Customers \cup {None}
    BY <1>0 DEF Customers!Mapped, CustomersTyped, MappingType
  <2>7. /\ q \in CheckoutType /\ q.pc \in {"begun", "session"} /\ q.key = k /\ (q.pc = "begun" => q.customer = None)
    BY <2>6 DEF CheckoutType
  <2> HIDE DEF q
  <2>8. /\ req' \in [Requests -> CheckoutType] /\ req'[r] = q /\ \A s \in Requests \ {r} : Unmoved(s)
    BY <1>0, <1>3, <2>7, Moves
  <2>9. RequestSound(r)'
    BY <2>7, <2>8 DEF RequestSound
  <2>10. CustomersTyped'
    BY <1>0, <1>1, <2>3, <2>8 DEF CustomersTyped
  <2>11. QED BY <1>1, <2>4, <2>5, <2>8, <2>9, <2>10, StillStep
<1>4. QED
  BY <1>2, <1>3 DEF Customers!BeginCheckout

\* A request that has lost its lock goes on with what it holds.
LEMMA LockLostKept ==
    ASSUME MaxFaults \in Nat, CustomersInv, NEW r \in Requests, Customers!LockLost(r)
    PROVE  CustomersInv'
<1> DEFINE q == [req[r] EXCEPT !.held = FALSE]
<1>0. CustomersTyped /\ OnePending /\ req \in [Requests -> CheckoutType] /\ req[r] \in CheckoutType
  BY DEF CustomersInv, CustomersTyped
<1>1. /\ req' = [req EXCEPT ![r] = q] /\ faults' \in 0..MaxFaults
      /\ UNCHANGED <<attempt, mapping, stripe, replay, event, worker, erasure, owner>>
  BY <1>0, FaultTyped DEF Customers!LockLost
<1>2. /\ q \in CheckoutType /\ ~q.held /\ q.pc = req[r].pc /\ q.key = req[r].key /\ q.customer = req[r].customer
  BY <1>0 DEF CheckoutType
<1> HIDE DEF q
<1>3. /\ req' \in [Requests -> CheckoutType] /\ req'[r] = q
      /\ \A s \in Requests \ {r} : req'[s] = req[s]
      /\ \A s \in Requests : req'[s].held => req[s].held
  BY <1>0, <1>1, <1>2, Moves
<1>4. (\A s \in Requests : Unmoved(s)) /\ \A k \in Keys : PostUnderWay(k)' => PostUnderWay(k)
  BY <1>2, <1>3 DEF Unmoved, PostUnderWay
<1>5. CustomersTyped' /\ OnePending' /\ \A k \in Keys : Still(k)
  BY <1>0, <1>1, <1>3 DEF CustomersTyped, OnePending, Customers!Pending, Still
<1>6. QED BY <1>1, <1>3, <1>4, <1>5, StillStep

\* The intent is written before Stripe is asked, and within the window.
LEMMA BeginCreationKept ==
    ASSUME None \notin Customers!Customers, CustomersInv, NEW r \in Requests, Customers!BeginCustomerCreation(r)
    PROVE  CustomersInv'
<1>a. PICK k \in Keys : k = req[r].key
  BY DEF Customers!BeginCustomerCreation, CustomersInv, RequestSound
<1> DEFINE x == [attempt[k] EXCEPT !.started = TRUE]
           pc == IF req[r].held THEN Customers!Resolving(attempt[k]) ELSE "undo"
           c == IF req[r].held THEN attempt[k].created ELSE None
           q == [req[r] EXCEPT !.pc = pc, !.customer = c]
<1>0. /\ CustomersTyped /\ OnePending /\ req \in [Requests -> CheckoutType] /\ req[r] \in CheckoutType
      /\ attempt \in [Keys -> AttemptType] /\ \A j \in Keys : CreationSound(j)
  BY DEF CustomersInv, CustomersTyped
<1>1. attempt[k] \in AttemptType
  BY <1>0
<1>2. /\ attempt' = [attempt EXCEPT ![k] = x] /\ req' = [req EXCEPT ![r] = q]
      /\ UNCHANGED <<mapping, stripe, replay, worker, erasure, owner, faults>>
      /\ event' = [event EXCEPT ![k] = IF @ = "dead" THEN @ ELSE "pending"]
  BY <1>a DEF Customers!BeginCustomerCreation
<1>3. /\ x \in AttemptType /\ x.created = attempt[k].created /\ x.erased = attempt[k].erased
      /\ x.started /\ x.late = attempt[k].late /\ x.status = attempt[k].status
  BY <1>1 DEF AttemptType
<1>4. /\ pc \in {"undo", "save", "post"} /\ c \in {None, attempt[k].created}
      /\ (pc = "save" => c # None) /\ (pc = "post" => c = None /\ ~attempt[k].late) /\ (pc # "undo" => req[r].held)
  BY DEF Customers!Resolving
<1>5. c \in Customers!Customers \cup {None}
  BY <1>1, <1>4 DEF AttemptType
<1> HIDE DEF x, pc, c
<1>6. /\ q \in CheckoutType /\ q.pc = pc /\ q.customer = c /\ q.key = k /\ q.held = req[r].held
  BY <1>0, <1>a, <1>4, <1>5 DEF CheckoutType
<1> HIDE DEF q
<1>7. /\ req' \in [Requests -> CheckoutType] /\ req'[r] = q
      /\ \A s \in Requests \ {r} : Unmoved(s)
      /\ pc # "post" => \A j \in Keys : PostUnderWay(j)' => PostUnderWay(j)
      /\ \A s \in Requests : req'[s].held => req[s].held
  BY <1>0, <1>2, <1>6, Moves
<1>8. /\ attempt' \in [Keys -> AttemptType] /\ attempt'[k] = x
      /\ \A j \in Keys \ {k} : attempt'[j] = attempt[j]
  BY <1>0, <1>1, <1>2, <1>3, RowChanged
<1>9. CustomersTyped'
  BY <1>0, <1>1, <1>2, <1>7, <1>8 DEF CustomersTyped
<1>10. OnePending'
  BY <1>0, <1>3, <1>8 DEF OnePending, Customers!Pending
<1>11. \A j \in Keys \ {k} : CreationSound(j)' /\ Onward(j)
  <2>1. \A j \in Keys \ {k} : Still(j)
    BY <1>2, <1>8 DEF Still
  <2>2. QED BY <1>0, <2>1, StillSound
<1>12. CreationSound(k)' /\ Onward(k)
  <2>1. Customers!Found(k)' = Customers!Found(k)
    BY <1>2 DEF Customers!Found
  <2>2. /\ attempt'[k].created = attempt[k].created /\ attempt'[k].erased = attempt[k].erased
        /\ attempt'[k].started /\ attempt'[k].late = attempt[k].late /\ replay' = replay /\ stripe' = stripe
    BY <1>2, <1>3, <1>8
  <2>3. Onward(k)
    BY <2>1, <2>2 DEF Onward
  <2>4. CreationSound(k)'
    BY <1>0, <2>1, <2>2 DEF CreationSound
  <2>5. QED BY <2>3, <2>4
<1>13. RequestSound(r)'
  BY <1>1, <1>3, <1>4, <1>6, <1>7, <1>8 DEF RequestSound
<1>14. erasure.pc # "idle" => pc # "post"
  BY <1>4 DEF CustomersInv, ErasureSound
<1>15. QED
  BY <1>2, <1>7, <1>9, <1>10, <1>11, <1>12, <1>13, <1>14, CustomersKept

\* POST /customers answers with the customer of the key, or creates it.
LEMMA PostKept ==
    ASSUME MaxFaults \in Nat, None \notin Customers!Customers, CustomersInv, NEW r \in Requests, Customers!Post(r)
    PROVE  CustomersInv'
<1>a. PICK k \in Keys : k = req[r].key
  BY DEF Customers!Post, CustomersInv, RequestSound
<1>0. /\ CustomersTyped /\ OnePending /\ req \in [Requests -> CheckoutType] /\ req[r] \in CheckoutType
      /\ attempt \in [Keys -> AttemptType] /\ \A j \in Keys : CreationSound(j)
  BY DEF CustomersInv, CustomersTyped
<1>1. /\ req[r].pc = "post" /\ req[r].customer = None /\ attempt[k].started /\ ~attempt[k].late
      /\ Customers!CreateCustomer(k)
      /\ UNCHANGED <<attempt, mapping, event, worker, erasure, owner>>
  BY <1>a DEF Customers!Post, CustomersInv, RequestSound
<1>2. /\ CreationSound(k)' /\ \A j \in Keys \ {k} : Still(j)
      /\ Customers!Posted(k) \in Own(k) /\ replay'[k] = Customers!Posted(k)
      /\ replay[k] # None => replay'[k] = replay[k]
      /\ stripe' \in [Customers!Customers -> {"none", "live", "deleted"}]
      /\ replay' \in [Keys -> Customers!Customers \cup {None}]
  BY <1>0, <1>1, PostSound
<1>3. Customers!Posted(k) \in Customers!Customers /\ Customers!Posted(k) # None
  BY <1>2, FoundOwn
<1>4. PICK q \in CheckoutType : /\ req' = [req EXCEPT ![r] = q] /\ q.key = k /\ q.held = req[r].held
                                /\ \/ q.pc = "record" /\ q.customer = Customers!Posted(k)
                                   \/ q.pc = "undo" /\ q.customer = None
  <2>1. CASE req' = [req EXCEPT ![r].pc = "record", ![r].customer = Customers!Posted(k)]
    <3> DEFINE q == [req[r] EXCEPT !.pc = "record", !.customer = Customers!Posted(k)]
    <3>1. q \in CheckoutType /\ q.key = k /\ q.held = req[r].held /\ q.pc = "record" /\ q.customer = Customers!Posted(k)
      BY <1>0, <1>a, <1>3 DEF CheckoutType
    <3>2. req' = [req EXCEPT ![r] = q]
      BY <2>1
    <3>3. QED BY <3>1, <3>2
  <2>2. CASE req' = [req EXCEPT ![r].pc = "undo"]
    <3> DEFINE q == [req[r] EXCEPT !.pc = "undo"]
    <3>1. q \in CheckoutType /\ q.key = k /\ q.held = req[r].held /\ q.pc = "undo" /\ q.customer = None
      BY <1>0, <1>a, <1>1 DEF CheckoutType
    <3>2. req' = [req EXCEPT ![r] = q]
      BY <2>2
    <3>3. QED BY <3>1, <3>2
  <2>3. QED BY <1>a, <2>1, <2>2 DEF Customers!Post, Customers!Goto
<1>5. /\ req' \in [Requests -> CheckoutType] /\ req'[r] = q
      /\ \A s \in Requests \ {r} : Unmoved(s)
      /\ \A j \in Keys : PostUnderWay(j)' => PostUnderWay(j)
      /\ \A s \in Requests : req'[s].held => req[s].held
  BY <1>0, <1>4, Moves
<1>6. faults' \in 0..MaxFaults
  BY <1>0, FaultTyped DEF Customers!Post, CustomersTyped
<1>7. CustomersTyped' /\ OnePending'
  BY <1>0, <1>1, <1>2, <1>5, <1>6 DEF CustomersTyped, OnePending, Customers!Pending
<1>8. Onward(k)
  <2>1. PostUnderWay(k)
    BY <1>a, <1>1 DEF PostUnderWay
  <2>2. QED BY <1>1, <1>2, <2>1 DEF Onward
<1>9. \A j \in Keys : CreationSound(j)' /\ Onward(j)
  BY <1>0, <1>2, <1>8, StillSound
<1>10. RequestSound(r)'
  BY <1>2, <1>3, <1>4, <1>5 DEF RequestSound
<1>11. QED BY <1>1, <1>5, <1>7, <1>9, <1>10, CustomersKept

\* The customer is recorded on its attempt.
LEMMA RecordKept ==
    ASSUME None \notin Customers!Customers, CustomersInv, NEW r \in Requests, Customers!RecordCreatedCustomer(r)
    PROVE  CustomersInv'
<1>a. PICK k \in Keys : k = req[r].key
  BY DEF Customers!RecordCreatedCustomer, CustomersInv, RequestSound
<1>b. PICK c : c = req[r].customer
  OBVIOUS
<1>0. /\ CustomersTyped /\ OnePending /\ req \in [Requests -> CheckoutType] /\ req[r] \in CheckoutType
      /\ attempt \in [Keys -> AttemptType] /\ attempt[k] \in AttemptType /\ \A j \in Keys : CreationSound(j)
  BY DEF CustomersInv, CustomersTyped
<1>1. /\ c # None /\ c = replay[k] /\ c \in Customers!Customers
      /\ UNCHANGED <<mapping, stripe, replay, event, worker, erasure, owner, faults>>
  BY <1>0, <1>a, <1>b DEF Customers!RecordCreatedCustomer, CustomersInv, RequestSound, CheckoutType
<1>2. CASE /\ attempt[k].created \in {None, c} /\ attempt' = [attempt EXCEPT ![k].created = c]
           /\ req' = [req EXCEPT ![r].pc = "save"]
  <2> DEFINE x == [attempt[k] EXCEPT !.created = c]
             q == [req[r] EXCEPT !.pc = "save"]
  <2>1. /\ x \in AttemptType /\ x.created = c /\ x.erased = attempt[k].erased
        /\ x.started = attempt[k].started /\ x.late = attempt[k].late /\ x.status = attempt[k].status
    BY <1>0, <1>1 DEF AttemptType
  <2>2. q \in CheckoutType /\ q.key = k /\ q.held = req[r].held /\ q.pc = "save" /\ q.customer = c
    BY <1>0, <1>a, <1>b DEF CheckoutType
  <2>3. attempt' = [attempt EXCEPT ![k] = x] /\ req' = [req EXCEPT ![r] = q]
    BY <1>2
  <2> HIDE DEF x, q
  <2>4. /\ req' \in [Requests -> CheckoutType] /\ req'[r] = q
        /\ \A s \in Requests \ {r} : Unmoved(s)
        /\ \A j \in Keys : PostUnderWay(j)' => PostUnderWay(j)
        /\ \A s \in Requests : req'[s].held => req[s].held
    BY <1>0, <2>2, <2>3, Moves
  <2>5. /\ attempt' \in [Keys -> AttemptType] /\ attempt'[k] = x
        /\ \A j \in Keys \ {k} : attempt'[j] = attempt[j]
    BY <1>0, <2>1, <2>3, RowChanged
  <2>6. CustomersTyped' /\ OnePending'
    BY <1>0, <1>1, <2>1, <2>4, <2>5 DEF CustomersTyped, OnePending, Customers!Pending
  <2>7. /\ attempt'[k].created = c /\ attempt'[k].erased = attempt[k].erased
        /\ attempt'[k].started = attempt[k].started /\ attempt'[k].late = attempt[k].late
        /\ replay' = replay /\ stripe' = stripe /\ Customers!Found(k)' = Customers!Found(k)
    BY <1>1, <2>1, <2>5 DEF Customers!Found
  <2>8. CreationSound(k)'
    <3>1. replay[k] \in Own(k)
      BY <1>0, <1>1 DEF CreationSound
    <3>2. attempt[k].erased => attempt[k].created = c
      BY <1>0, <1>2 DEF CreationSound
    <3>3. QED BY <1>0, <1>1, <2>7, <3>1, <3>2 DEF CreationSound
  <2>9. Onward(k)
    BY <1>2, <2>7 DEF Onward
  <2>10. \A j \in Keys \ {k} : Still(j)
    BY <1>1, <2>5 DEF Still
  <2>11. \A j \in Keys : CreationSound(j)' /\ Onward(j)
    BY <1>0, <2>8, <2>9, <2>10, StillSound
  <2>12. RequestSound(r)'
    BY <1>1, <2>2, <2>4, <2>7 DEF RequestSound
  <2>13. QED BY <1>1, <2>4, <2>6, <2>11, <2>12, CustomersKept
<1>3. CASE req' = [req EXCEPT ![r].pc = "undo", ![r].customer = None] /\ UNCHANGED attempt
  <2> DEFINE q == [req[r] EXCEPT !.pc = "undo", !.customer = None]
  <2>1. q \in CheckoutType /\ q.key = k /\ q.held = req[r].held /\ q.pc = "undo" /\ q.customer = None
    BY <1>0, <1>a DEF CheckoutType
  <2>2. req' = [req EXCEPT ![r] = q]
    BY <1>3
  <2> HIDE DEF q
  <2>3. /\ req' \in [Requests -> CheckoutType] /\ req'[r] = q
        /\ \A s \in Requests \ {r} : Unmoved(s)
        /\ \A j \in Keys : PostUnderWay(j)' => PostUnderWay(j)
        /\ \A s \in Requests : req'[s].held => req[s].held
    BY <1>0, <2>1, <2>2, Moves
  <2>4. CustomersTyped' /\ OnePending' /\ \A j \in Keys : Still(j)
    BY <1>0, <1>1, <1>3, <2>3 DEF CustomersTyped, OnePending, Customers!Pending, Still
  <2>5. RequestSound(r)'
    BY <2>1, <2>3 DEF RequestSound
  <2>6. QED BY <1>1, <2>3, <2>4, <2>5, StillStep
<1>4. QED
  BY <1>a, <1>b, <1>2, <1>3 DEF Customers!RecordCreatedCustomer, Customers!Goto

\* A request goes on or ends, and asks Stripe for nothing.
LEMMA RequestMoves ==
    ASSUME CustomersInv, NEW r \in Requests, NEW q \in CheckoutType, req' = [req EXCEPT ![r] = q],
           q.pc # "post", q.held => req[r].held, RequestSound(r)',
           attempt' \in [Keys -> AttemptType], OnePending', mapping' \in MappingType,
           stripe' \in [Customers!Customers -> {"none", "live", "deleted"}],
           event' \in [Keys -> {"none", "pending", "completed", "dead"}], faults' \in 0..MaxFaults,
           \A k \in Keys : CreationSound(k)' /\ Onward(k),
           UNCHANGED <<replay, worker, erasure, owner>>
    PROVE  CustomersInv'
<1>1. CustomersTyped /\ req \in [Requests -> CheckoutType]
  BY DEF CustomersInv, CustomersTyped
<1>2. /\ req' \in [Requests -> CheckoutType]
      /\ \A s \in Requests \ {r} : Unmoved(s)
      /\ \A j \in Keys : PostUnderWay(j)' => PostUnderWay(j)
      /\ \A s \in Requests : req'[s].held => req[s].held
  BY <1>1, Moves
<1>3. CustomersTyped'
  BY <1>1, <1>2 DEF CustomersTyped
<1>4. QED BY <1>2, <1>3, CustomersKept

\* The customer becomes that of the account.
LEMMA SaveKept ==
    ASSUME MaxFaults \in Nat, CustomersInv, NEW r \in Requests, Customers!SaveCustomer(r)
    PROVE  CustomersInv'
<1>0. /\ CustomersTyped /\ OnePending /\ req \in [Requests -> CheckoutType] /\ req[r] \in CheckoutType
      /\ attempt \in [Keys -> AttemptType] /\ \A j \in Keys : CreationSound(j)
  BY DEF CustomersInv, CustomersTyped
<1>1. /\ req[r].pc = "save" /\ req[r].key \in Keys /\ req[r].customer = attempt[req[r].key].created
      /\ UNCHANGED <<attempt, stripe, replay, worker, erasure, owner>>
  BY DEF Customers!SaveCustomer, CustomersInv, RequestSound
<1>2. mapping' \in MappingType
  <2>1. [customer |-> req[r].customer, deleted |-> FALSE] \in MappingType
    BY <1>0 DEF CheckoutType, MappingType
  <2>2. QED BY <1>0, <2>1 DEF Customers!SaveCustomer, CustomersTyped
<1>3. event' \in [Keys -> {"none", "pending", "completed", "dead"}]
  <2>1. [k \in Keys |-> IF attempt[k].created = req[r].customer /\ event[k] \in {"pending", "completed"}
                        THEN "none" ELSE event[k]] \in [Keys -> {"none", "pending", "completed", "dead"}]
    BY <1>0 DEF CustomersTyped
  <2>2. QED BY <1>0, <2>1 DEF Customers!SaveCustomer, CustomersTyped
<1>4. faults' \in 0..MaxFaults
  BY <1>0, FaultTyped DEF Customers!SaveCustomer, CustomersTyped
<1>5. PICK pc \in {"session", "undo"} : req' = [req EXCEPT ![r].pc = pc]
  BY DEF Customers!SaveCustomer, Customers!Goto
<1> DEFINE q == [req[r] EXCEPT !.pc = pc]
<1>6. q \in CheckoutType /\ q.key = req[r].key /\ q.held = req[r].held /\ q.pc = pc /\ q.customer = req[r].customer
  BY <1>0 DEF CheckoutType
<1>7. req' = [req EXCEPT ![r] = q] /\ req'[r] = q
  BY <1>0, <1>5
<1> HIDE DEF q
<1>8. RequestSound(r)'
  BY <1>1, <1>6, <1>7 DEF RequestSound
<1>9. \A j \in Keys : CreationSound(j)' /\ Onward(j)
  <2>1. \A j \in Keys : Still(j)
    BY <1>1 DEF Still
  <2>2. QED BY <1>0, <2>1, StillSound
<1>10. OnePending' /\ attempt' \in [Keys -> AttemptType] /\ stripe' \in [Customers!Customers -> {"none", "live", "deleted"}]
  BY <1>0, <1>1 DEF OnePending, Customers!Pending, CustomersTyped
<1>11. QED BY <1>1, <1>2, <1>3, <1>4, <1>6, <1>7, <1>8, <1>9, <1>10, RequestMoves

\* The checkout session is created.
LEMMA SessionKept ==
    ASSUME CustomersInv, NEW r \in Requests, Customers!CreateSession(r)
    PROVE  CustomersInv'
<1>0. /\ CustomersTyped /\ OnePending /\ req \in [Requests -> CheckoutType] /\ req[r] \in CheckoutType
      /\ \A j \in Keys : CreationSound(j)
  BY DEF CustomersInv, CustomersTyped
<1>1. req[r].key \in Keys /\ UNCHANGED <<attempt, mapping, stripe, replay, event, worker, erasure, owner, faults>>
  BY DEF Customers!CreateSession, CustomersInv, RequestSound
<1>2. PICK pc \in {"open", "undo"} : req' = [req EXCEPT ![r].pc = pc, ![r].customer = None]
  BY DEF Customers!CreateSession
<1> DEFINE q == [req[r] EXCEPT !.pc = pc, !.customer = None]
<1>3. q \in CheckoutType /\ q.key = req[r].key /\ q.held = req[r].held /\ q.pc = pc /\ q.customer = None
  BY <1>0 DEF CheckoutType
<1>4. req' = [req EXCEPT ![r] = q] /\ req'[r] = q
  BY <1>0, <1>2
<1> HIDE DEF q
<1>5. RequestSound(r)'
  BY <1>1, <1>3, <1>4 DEF RequestSound
<1>6. \A j \in Keys : CreationSound(j)' /\ Onward(j)
  <2>1. \A j \in Keys : Still(j)
    BY <1>1 DEF Still
  <2>2. QED BY <1>0, <2>1, StillSound
<1>7. /\ OnePending' /\ attempt' \in [Keys -> AttemptType] /\ stripe' \in [Customers!Customers -> {"none", "live", "deleted"}]
      /\ mapping' \in MappingType /\ event' \in [Keys -> {"none", "pending", "completed", "dead"}] /\ faults' \in 0..MaxFaults
  BY <1>0, <1>1 DEF OnePending, Customers!Pending, CustomersTyped
<1>8. QED BY <1>1, <1>3, <1>4, <1>5, <1>6, <1>7, RequestMoves

\* The attempt is opened.
LEMMA OpenKept ==
    ASSUME CustomersInv, NEW r \in Requests, Customers!MarkCheckoutOpen(r)
    PROVE  CustomersInv'
<1>a. PICK k \in Keys : k = req[r].key
  BY DEF Customers!MarkCheckoutOpen, CustomersInv, RequestSound
<1>0. /\ CustomersTyped /\ OnePending /\ req \in [Requests -> CheckoutType] /\ req[r] \in CheckoutType
      /\ attempt \in [Keys -> AttemptType] /\ attempt[k] \in AttemptType /\ \A j \in Keys : CreationSound(j)
  BY DEF CustomersInv, CustomersTyped
<1>1. req[r].customer = None /\ UNCHANGED <<mapping, stripe, replay, event, worker, erasure, owner, faults>>
  BY DEF Customers!MarkCheckoutOpen, CustomersInv, RequestSound
<1>2. /\ mapping' \in MappingType /\ event' \in [Keys -> {"none", "pending", "completed", "dead"}] /\ faults' \in 0..MaxFaults
      /\ stripe' \in [Customers!Customers -> {"none", "live", "deleted"}]
  BY <1>0, <1>1 DEF CustomersTyped
<1>3. CASE /\ attempt[k].status = "creating" /\ attempt' = [attempt EXCEPT ![k].status = "open", ![k].lapsed = FALSE]
           /\ req' = [req EXCEPT ![r] = Customers!Idle]
  <2> DEFINE x == [attempt[k] EXCEPT !.status = "open", !.lapsed = FALSE]
  <2>1. /\ x \in AttemptType /\ x.created = attempt[k].created /\ x.erased = attempt[k].erased
        /\ x.started = attempt[k].started /\ x.late = attempt[k].late
    BY <1>0 DEF AttemptType
  <2>2. attempt' = [attempt EXCEPT ![k] = x] /\ Customers!Pending(k)
    BY <1>3 DEF Customers!Pending
  <2> HIDE DEF x
  <2>3. /\ attempt' \in [Keys -> AttemptType] /\ attempt'[k] = x /\ (\A j \in Keys \ {k} : attempt'[j] = attempt[j])
        /\ \A j \in Keys : Customers!Pending(j)' => Customers!Pending(j)
    BY <1>0, <2>1, <2>2, RowChanged
  <2>4. OnePending'
    BY <1>0, <2>3, PendingKept
  <2>5. \A j \in Keys : Still(j)
    BY <1>1, <2>1, <2>3 DEF Still
  <2>6. \A j \in Keys : CreationSound(j)' /\ Onward(j)
    BY <1>0, <2>5, StillSound
  <2>7. Customers!Idle \in CheckoutType /\ Customers!Idle.pc = "idle" /\ ~Customers!Idle.held
    BY DEF Customers!Idle, CheckoutType
  <2>8. RequestSound(r)'
    BY <1>0, <1>3, <2>7 DEF RequestSound
  <2>9. QED BY <1>1, <1>2, <1>3, <2>3, <2>4, <2>6, <2>7, <2>8, RequestMoves
<1>4. CASE UNCHANGED attempt /\ req' = [req EXCEPT ![r].pc = "undo"]
  <2> DEFINE q == [req[r] EXCEPT !.pc = "undo"]
  <2>1. q \in CheckoutType /\ q.key = k /\ q.held = req[r].held /\ q.pc = "undo" /\ q.customer = None
    BY <1>0, <1>a, <1>1 DEF CheckoutType
  <2>2. req' = [req EXCEPT ![r] = q] /\ req'[r] = q
    BY <1>0, <1>4
  <2> HIDE DEF q
  <2>3. RequestSound(r)'
    BY <2>1, <2>2 DEF RequestSound
  <2>4. \A j \in Keys : Still(j)
    BY <1>1, <1>4 DEF Still
  <2>5. \A j \in Keys : CreationSound(j)' /\ Onward(j)
    BY <1>0, <2>4, StillSound
  <2>6. OnePending' /\ attempt' \in [Keys -> AttemptType]
    BY <1>0, <1>4 DEF OnePending, Customers!Pending
  <2>7. QED BY <1>1, <1>2, <2>1, <2>2, <2>3, <2>5, <2>6, RequestMoves
<1>5. QED BY <1>a, <1>3, <1>4 DEF Customers!MarkCheckoutOpen, Customers!Goto

\* The catch block fails the attempt and deletes a customer it could not attach.
LEMMA UndoKept ==
    ASSUME MaxFaults \in Nat, CustomersInv, NEW r \in Requests, Customers!Undo(r)
    PROVE  CustomersInv'
<1>a. PICK k \in Keys : k = req[r].key
  BY DEF Customers!Undo, CustomersInv, RequestSound
<1>0. /\ CustomersTyped /\ OnePending /\ req \in [Requests -> CheckoutType] /\ req[r] \in CheckoutType
      /\ attempt \in [Keys -> AttemptType] /\ attempt[k] \in AttemptType /\ \A j \in Keys : CreationSound(j)
  BY DEF CustomersInv, CustomersTyped
<1> DEFINE s == IF attempt[k].status = "creating" THEN "failed" ELSE attempt[k].status
           x == [attempt[k] EXCEPT !.status = s, !.lapsed = FALSE]
           y == [attempt[k] EXCEPT !.status = s, !.lapsed = FALSE, !.erased = TRUE]
<1>1. /\ req' = [req EXCEPT ![r] = Customers!Idle] /\ UNCHANGED <<mapping, replay, event, worker, erasure, owner>>
      /\ req[r].customer # None => req[r].customer = attempt[k].created
  BY <1>a DEF Customers!Undo, CustomersInv, RequestSound
<1>2. \/ attempt' = [attempt EXCEPT ![k] = x] /\ UNCHANGED stripe
      \/ /\ req[r].customer # None /\ Customers!DeleteCustomer(req[r].customer)
         /\ attempt' = [attempt EXCEPT ![k] = y]
  BY <1>0, <1>a DEF Customers!Undo
<1>3. faults' \in 0..MaxFaults
  BY <1>0, FaultTyped DEF Customers!Undo, CustomersTyped
<1>4. /\ mapping' \in MappingType /\ event' \in [Keys -> {"none", "pending", "completed", "dead"}]
  BY <1>0, <1>1 DEF CustomersTyped
<1>5. Customers!Idle \in CheckoutType /\ Customers!Idle.pc = "idle" /\ ~Customers!Idle.held
  BY DEF Customers!Idle, CheckoutType
<1>6. RequestSound(r)'
  BY <1>0, <1>1, <1>5 DEF RequestSound
<1>7. s \in {"none", "creating", "open", "completed", "expired", "failed"} /\ (s \in {"creating", "open"} => Customers!Pending(k))
  BY <1>0 DEF AttemptType, Customers!Pending
<1> HIDE DEF s
<1>8. /\ x \in AttemptType /\ x.status = s /\ x.created = attempt[k].created /\ x.erased = attempt[k].erased
      /\ x.started = attempt[k].started /\ x.late = attempt[k].late
      /\ y \in AttemptType /\ y.status = s /\ y.created = attempt[k].created /\ y.erased
      /\ y.started = attempt[k].started /\ y.late = attempt[k].late
  BY <1>0, <1>7 DEF AttemptType
<1> HIDE DEF x, y
<1>9. PICK z \in {x, y} : attempt' = [attempt EXCEPT ![k] = z]
  BY <1>2
<1>10. /\ attempt' \in [Keys -> AttemptType] /\ attempt'[k] = z /\ (\A j \in Keys \ {k} : attempt'[j] = attempt[j])
       /\ \A j \in Keys : Customers!Pending(j)' => Customers!Pending(j)
  BY <1>0, <1>7, <1>8, <1>9, RowChanged
<1>11. OnePending'
  BY <1>0, <1>10, PendingKept
<1>12. CASE attempt' = [attempt EXCEPT ![k] = x] /\ UNCHANGED stripe
  <2>1. attempt'[k] = x
    BY <1>0, <1>12
  <2>2. \A j \in Keys : Still(j)
    BY <1>1, <1>8, <1>10, <1>12, <2>1 DEF Still
  <2>3. \A j \in Keys : CreationSound(j)' /\ Onward(j)
    BY <1>0, <2>2, StillSound
  <2>4. stripe' \in [Customers!Customers -> {"none", "live", "deleted"}]
    BY <1>0, <1>12 DEF CustomersTyped
  <2>5. QED BY <1>1, <1>3, <1>4, <1>5, <1>6, <1>10, <1>11, <2>3, <2>4, RequestMoves
<1>13. CASE /\ req[r].customer # None /\ Customers!DeleteCustomer(req[r].customer)
            /\ attempt' = [attempt EXCEPT ![k] = y]
  <2>1. attempt'[k] = y
    BY <1>0, <1>13
  <2>2. attempt[k].created # None /\ Customers!DeleteCustomer(attempt[k].created)
    BY <1>1, <1>13
  <2>3. /\ CreationSound(k)' /\ (\A j \in Keys \ {k} : Still(j)) /\ Customers!Found(k)' = {}
        /\ stripe' \in [Customers!Customers -> {"none", "live", "deleted"}]
    BY <1>0, <1>1, <1>8, <1>10, <2>1, <2>2, DeleteSound
  <2>4. Onward(k)
    BY <1>1, <1>8, <2>1, <2>3 DEF Onward
  <2>5. \A j \in Keys : CreationSound(j)' /\ Onward(j)
    BY <1>0, <2>3, <2>4, StillSound
  <2>6. QED BY <1>1, <1>3, <1>4, <1>5, <1>6, <1>10, <1>11, <2>3, <2>5, RequestMoves
<1>14. QED BY <1>2, <1>12, <1>13

\* A request that ends half way leaves its rows.
LEMMA RequestCrashKept ==
    ASSUME MaxFaults \in Nat, CustomersInv, NEW r \in Requests, Customers!Crash(r)
    PROVE  CustomersInv'
<1>0. /\ CustomersTyped /\ OnePending /\ req \in [Requests -> CheckoutType] /\ \A j \in Keys : CreationSound(j)
  BY DEF CustomersInv, CustomersTyped
<1>1. /\ req' = [req EXCEPT ![r] = Customers!Idle] /\ faults' \in 0..MaxFaults
      /\ UNCHANGED <<attempt, mapping, stripe, replay, event, worker, erasure, owner>>
  BY <1>0, FaultTyped DEF Customers!Crash
<1>2. Customers!Idle \in CheckoutType /\ Customers!Idle.pc = "idle" /\ ~Customers!Idle.held
  BY DEF Customers!Idle, CheckoutType
<1>3. RequestSound(r)'
  BY <1>0, <1>1, <1>2 DEF RequestSound
<1>4. \A j \in Keys : CreationSound(j)' /\ Onward(j)
  <2>1. \A j \in Keys : Still(j)
    BY <1>1 DEF Still
  <2>2. QED BY <1>0, <2>1, StillSound
<1>5. /\ OnePending' /\ attempt' \in [Keys -> AttemptType] /\ stripe' \in [Customers!Customers -> {"none", "live", "deleted"}]
      /\ mapping' \in MappingType /\ event' \in [Keys -> {"none", "pending", "completed", "dead"}]
  BY <1>0, <1>1 DEF OnePending, Customers!Pending, CustomersTyped
<1>6. QED BY <1>1, <1>2, <1>3, <1>4, <1>5, RequestMoves

\* The watchdog reads the intent and asks Stripe.
LEMMA InvestigateKept ==
    ASSUME CustomersInv, NEW k \in Keys, Customers!Investigate(k)
    PROVE  CustomersInv'
<1>0. CustomersTyped /\ OnePending /\ CreationSound(k)
  BY DEF CustomersInv
<1>1. UNCHANGED <<attempt, mapping, stripe, replay, req, erasure, owner, faults>>
  BY DEF Customers!Investigate
<1>2. event' \in [Keys -> {"none", "pending", "completed", "dead"}]
  BY <1>0 DEF Customers!Investigate, CustomersTyped
<1>3. /\ \A j \in Keys : Still(j)
      /\ \A r \in Requests : Unmoved(r)
      /\ \A j \in Keys : PostUnderWay(j)' => PostUnderWay(j)
  BY <1>1 DEF Still, Unmoved, PostUnderWay
<1>4. worker' \in WatchType /\ (worker' = worker \/ WorkerSound')
  <2>1. CASE worker' = worker
    BY <1>0, <2>1 DEF CustomersTyped
  <2>2. CASE worker' # worker
    <3>1. attempt[k].created # None \/ attempt[k].late
      BY <2>2 DEF Customers!Investigate
    <3>2. PICK c \in IF attempt[k].created # None THEN {attempt[k].created}
                     ELSE IF Customers!Found(k) = {} THEN {None} ELSE Customers!Found(k) :
            worker' = [pc |-> "recover", key |-> k, customer |-> c]
      BY <2>2 DEF Customers!Investigate
    <3>3. c \in Own(k) \cup {None} /\ c \in Customers!Customers \cup {None}
      BY <1>0, <3>2, FoundOwn DEF CreationSound
    <3>4. worker' \in WatchType /\ worker'.key = k /\ worker'.customer = c
      BY <3>2, <3>3 DEF WatchType
    <3>5. \/ c # None /\ attempt[k].created = c
          \/ attempt[k].late /\ Customers!Found(k) \subseteq {c}
      BY <1>0, <3>1, <3>2 DEF CreationSound
    <3>6. Customers!Found(k)' = Customers!Found(k)
      BY <1>1 DEF Customers!Found
    <3>7. WorkerSound'
      BY <1>1, <3>3, <3>4, <3>5, <3>6 DEF WorkerSound
    <3>8. QED BY <3>4, <3>7
  <2>3. QED BY <2>1, <2>2
<1>5. CustomersTyped' /\ OnePending'
  BY <1>0, <1>1, <1>2, <1>4 DEF CustomersTyped, OnePending, Customers!Pending
<1>6. QED BY <1>1, <1>3, <1>4, <1>5, StillStep

\* The watchdog attaches the customer it has found, clears the intent, or asks for help.
LEMMA RecoverKept ==
    ASSUME None \notin Customers!Customers, CustomersInv, Customers!Recover
    PROVE  CustomersInv'
<1>a. PICK k \in Keys : k = worker.key
  BY DEF Customers!Recover, CustomersInv, WorkerSound
<1>b. PICK c : c = IF attempt[k].created # None THEN attempt[k].created ELSE worker.customer
  OBVIOUS
<1>0. /\ CustomersTyped /\ OnePending /\ attempt \in [Keys -> AttemptType] /\ attempt[k] \in AttemptType
      /\ (\A j \in Keys : CreationSound(j)) /\ \A r \in Requests : RequestSound(r)
  BY DEF CustomersInv, CustomersTyped
<1>1. /\ worker.pc = "recover" /\ worker' = Customers!Asleep
      /\ UNCHANGED <<stripe, replay, req, erasure, owner, faults>>
  BY DEF Customers!Recover
<1>2. /\ worker.customer \in Own(k) \cup {None}
      /\ \/ worker.customer # None /\ attempt[k].created = worker.customer
         \/ attempt[k].late /\ Customers!Found(k) \subseteq {worker.customer}
  BY <1>a, <1>1 DEF CustomersInv, WorkerSound
<1>3. worker' \in WatchType /\ WorkerSound'
  BY <1>1 DEF Customers!Asleep, WatchType, WorkerSound
<1>4. event' \in [Keys -> {"none", "pending", "completed", "dead"}]
  BY <1>0 DEF Customers!Recover, CustomersTyped
<1>5. /\ \A r \in Requests : Unmoved(r)
      /\ \A j \in Keys : PostUnderWay(j)' => PostUnderWay(j)
      /\ Customers!Found(k)' = Customers!Found(k)
  BY <1>1 DEF Unmoved, PostUnderWay, Customers!Found
<1>6. CASE UNCHANGED <<attempt, mapping>>
  <2>1. \A j \in Keys : Still(j)
    BY <1>1, <1>6 DEF Still
  <2>2. CustomersTyped' /\ OnePending'
    BY <1>0, <1>1, <1>3, <1>4, <1>6 DEF CustomersTyped, OnePending, Customers!Pending
  <2>3. QED BY <1>1, <1>3, <1>5, <2>1, <2>2, StillStep
<1>7. CASE c = None /\ owner # "deleted" /\ attempt' = [attempt EXCEPT ![k] = Customers!Cleared(attempt[k])] /\ UNCHANGED mapping
  <2> DEFINE x == Customers!Cleared(attempt[k])
  <2>1. /\ x \in AttemptType /\ x.created = attempt[k].created /\ x.erased = attempt[k].erased /\ ~x.late /\ x.status = "failed"
    BY <1>0 DEF Customers!Cleared, AttemptType
  <2> HIDE DEF x
  <2>2. attempt[k].created = None /\ worker.customer = None
    BY <1>b, <1>7
  <2>3. attempt[k].late /\ Customers!Found(k) = {}
    BY <1>2, <2>2, FoundOwn
  <2>4. /\ attempt' \in [Keys -> AttemptType] /\ attempt'[k] = x /\ (\A j \in Keys \ {k} : attempt'[j] = attempt[j])
        /\ \A j \in Keys : Customers!Pending(j)' => Customers!Pending(j)
    BY <1>0, <1>7, <2>1, RowChanged DEF x
  <2>5. CustomersTyped' /\ OnePending'
    BY <1>0, <1>1, <1>3, <1>4, <1>7, <2>4, PendingKept DEF CustomersTyped
  <2>6. \A j \in Keys \ {k} : CreationSound(j)'
    <3>1. \A j \in Keys \ {k} : Still(j)
      BY <1>1, <2>4 DEF Still
    <3>2. QED BY <1>0, <3>1, StillSound
  <2>7. CreationSound(k)'
    BY <1>0, <1>1, <1>5, <2>1, <2>2, <2>3, <2>4 DEF CreationSound
  <2>8. ASSUME NEW r \in Requests PROVE RequestSound(r)'
    <3>1. req' = req /\ replay' = replay /\ (req[r].pc = "post" => req[r].key # k)
      BY <1>0, <1>1, <2>3 DEF RequestSound
    <3>2. \A j \in Keys : attempt'[j].created = attempt[j].created
      BY <2>1, <2>4
    <3>3. req[r].pc = "post" => attempt'[req[r].key] = attempt[req[r].key]
      BY <1>0, <2>4, <3>1 DEF RequestSound
    <3>4. QED BY <1>0, <3>1, <3>2, <3>3 DEF RequestSound
  <2>9. ErasureSound'
    BY <1>1, <1>7 DEF CustomersInv, ErasureSound
  <2>10. QED BY <1>3, <2>5, <2>6, <2>7, <2>8, <2>9 DEF CustomersInv
<1>8. CASE /\ c # None /\ ~attempt[k].erased /\ mapping' = [customer |-> c, deleted |-> FALSE]
           /\ attempt' = [attempt EXCEPT ![k] = [attempt[k] EXCEPT !.created = c, !.status = "failed", !.lapsed = FALSE]]
  <2> DEFINE x == [attempt[k] EXCEPT !.created = c, !.status = "failed", !.lapsed = FALSE]
  <2>1. c \in Own(k) /\ c \in Customers!Customers
    BY <1>0, <1>b, <1>2, <1>8, FoundOwn DEF CreationSound
  <2>2. /\ x \in AttemptType /\ x.created = c /\ x.erased = attempt[k].erased /\ x.late = attempt[k].late
        /\ x.started = attempt[k].started /\ x.status = "failed"
    BY <1>0, <2>1 DEF AttemptType
  <2> HIDE DEF x
  <2>3. /\ attempt' \in [Keys -> AttemptType] /\ attempt'[k] = x /\ (\A j \in Keys \ {k} : attempt'[j] = attempt[j])
        /\ \A j \in Keys : Customers!Pending(j)' => Customers!Pending(j)
    BY <1>0, <1>8, <2>2, RowChanged DEF x
  <2>4. mapping' \in MappingType
    BY <1>8, <2>1 DEF MappingType
  <2>5. CustomersTyped' /\ OnePending'
    BY <1>0, <1>1, <1>3, <1>4, <2>3, <2>4, PendingKept DEF CustomersTyped
  <2>6. \A j \in Keys \ {k} : Still(j)
    BY <1>1, <2>3 DEF Still
  <2>7. /\ attempt'[k].created = c /\ attempt'[k].erased = attempt[k].erased
        /\ attempt'[k].started = attempt[k].started /\ attempt'[k].late = attempt[k].late
        /\ replay' = replay /\ stripe' = stripe
    BY <1>1, <2>2, <2>3
  <2>8. \/ attempt[k].created # None /\ c = attempt[k].created
        \/ attempt[k].created = None /\ attempt[k].late /\ Customers!Found(k) \subseteq {c}
    BY <1>b, <1>2
  <2>9. CreationSound(k)'
    <3>1. CASE attempt[k].created # None /\ c = attempt[k].created
      BY <1>0, <1>5, <1>8, <2>7, <3>1 DEF CreationSound
    <3>2. CASE attempt[k].created = None /\ attempt[k].late /\ Customers!Found(k) \subseteq {c}
      BY <1>0, <1>5, <1>8, <2>1, <2>7, <3>2 DEF CreationSound
    <3>3. QED BY <2>8, <3>1, <3>2
  <2>10. Onward(k)
    BY <1>5, <2>7, <2>8 DEF Onward
  <2>11. \A j \in Keys : CreationSound(j)' /\ Onward(j)
    BY <1>0, <2>6, <2>9, <2>10, StillSound
  <2>12. QED BY <1>1, <1>3, <1>5, <2>5, <2>11, CustomersKept
<1>9. QED
  BY <1>a, <1>b, <1>6, <1>7, <1>8 DEF Customers!Recover

\* The step of the erasure lists the attempts of the account.
LEMMA BeginErasureKept ==
    ASSUME CustomersInv, Customers!BeginErasure PROVE CustomersInv'
<1>0. CustomersTyped /\ OnePending /\ (\A k \in Keys : CreationSound(k)) /\ \A r \in Requests : RequestSound(r)
  BY DEF CustomersInv
<1>1. /\ owner = "deleted" /\ (\A r \in Requests : ~req[r].held)
      /\ UNCHANGED <<attempt, mapping, stripe, replay, event, req, worker, owner, faults>>
  BY DEF Customers!BeginErasure
<1>2. PICK todo \in SUBSET Customers!Creations :
        /\ Customers!Cardinality(todo) = BatchSize \/ (todo = Customers!Creations /\ Customers!Cardinality(todo) < BatchSize)
        /\ erasure' = [Customers!NotBegun EXCEPT !.pc = "next", !.todo = todo, !.mapped = Customers!Mapped,
                                                 !.full = (Customers!Cardinality(todo) = BatchSize)]
  BY DEF Customers!BeginErasure
<1> DEFINE full == Customers!Cardinality(todo) = BatchSize
<1>3. /\ full \in BOOLEAN /\ todo \in SUBSET Keys /\ Customers!Mapped \in Customers!Customers \cup {None}
      /\ (~full => todo = Customers!Creations)
  BY <1>0, <1>2 DEF Customers!Creations, Customers!Mapped, CustomersTyped, MappingType
<1> HIDE DEF full
<1>4. /\ erasure' \in StepType /\ erasure'.pc = "next" /\ erasure'.todo = todo /\ erasure'.full = full
  BY <1>2, <1>3 DEF Customers!NotBegun, StepType, full
<1>5. /\ (\A k \in Keys : Still(k)) /\ (\A r \in Requests : Unmoved(r))
      /\ \A k \in Keys : Customers!Found(k)' = Customers!Found(k) /\ (PostUnderWay(k)' <=> PostUnderWay(k))
  BY <1>1 DEF Still, Unmoved, Customers!Found, PostUnderWay
<1>6. ASSUME NEW k \in Keys, Customers!Found(k) # {} \/ PostUnderWay(k), ~full
      PROVE  k \in todo \/ attempt[k].erased
  <2>1. attempt[k].started
    BY <1>0, <1>6 DEF CreationSound, PostUnderWay, RequestSound
  <2>2. QED BY <1>3, <1>6, <2>1 DEF Customers!Creations
<1>7. ErasureSound'
  <2>1. \A k \in todo : attempt[k].started
    BY <1>2 DEF Customers!Creations
  <2>2. QED BY <1>1, <1>4, <1>5, <1>6, <2>1 DEF ErasureSound
<1>8. CustomersTyped' /\ OnePending'
  BY <1>0, <1>1, <1>4 DEF CustomersTyped, OnePending, Customers!Pending
<1>9. QED BY <1>1, <1>5, <1>7, <1>8, StillStep

\* The erasure stops, or goes on with what it has.
LEMMA NotBegunSound ==
    /\ Customers!NotBegun \in StepType /\ Customers!NotBegun.pc = "idle"
    /\ erasure' = Customers!NotBegun => ErasureSound'
BY DEF Customers!NotBegun, StepType, ErasureSound

\* It takes the next attempt, or is over with them.
LEMMA ErasureNextKept ==
    ASSUME CustomersInv, Customers!ErasureNext PROVE CustomersInv'
<1>0. CustomersTyped /\ OnePending /\ erasure \in StepType /\ ErasureSound /\ attempt \in [Keys -> AttemptType]
  BY DEF CustomersInv, CustomersTyped
<1>1. erasure.pc = "next" /\ UNCHANGED <<attempt, mapping, stripe, replay, event, req, worker, owner, faults>>
  BY DEF Customers!ErasureNext
<1>2. /\ (\A k \in Keys : Still(k)) /\ (\A r \in Requests : Unmoved(r))
      /\ \A k \in Keys : Customers!Found(k)' = Customers!Found(k) /\ (PostUnderWay(k)' <=> PostUnderWay(k))
  BY <1>1 DEF Still, Unmoved, Customers!Found, PostUnderWay
<1>3. erasure' \in StepType /\ ErasureSound'
  <2>1. CASE erasure' = Customers!NotBegun
    BY <2>1, NotBegunSound
  <2>2. CASE erasure.todo = {} /\ ~erasure.full /\ erasure' = [erasure EXCEPT !.pc = "mapped"]
    <3>1. /\ erasure' \in StepType /\ erasure'.pc = "mapped" /\ erasure'.todo = erasure.todo /\ erasure'.full = erasure.full
      BY <1>0, <2>2 DEF StepType
    <3>2. QED BY <1>0, <1>1, <1>2, <2>2, <3>1 DEF ErasureSound
  <2>3. ASSUME NEW k \in erasure.todo, NEW pc \in {"post", "delete"},
               erasure' = [erasure EXCEPT !.key = k, !.customer = attempt[k].created, !.pc = pc],
               pc = "post" => ~attempt[k].late, pc = "delete" => attempt[k].created # None
        PROVE  erasure' \in StepType /\ ErasureSound'
    <3>1. k \in Keys /\ attempt[k].created \in Customers!Customers \cup {None}
      BY <1>0 DEF StepType, AttemptType
    <3>2. /\ erasure' \in StepType /\ erasure'.pc = pc /\ erasure'.todo = erasure.todo /\ erasure'.full = erasure.full
          /\ erasure'.key = k /\ erasure'.customer = attempt[k].created
      BY <1>0, <2>3, <3>1 DEF StepType
    <3>3. QED BY <1>0, <1>1, <1>2, <2>3, <3>2 DEF ErasureSound
  <2>4. CASE \E k \in erasure.todo :
               LET to == Customers!Resolving(attempt[k]) IN
               erasure' = IF to = "undo" THEN Customers!NotBegun
                          ELSE [erasure EXCEPT !.key = k, !.customer = attempt[k].created,
                                               !.pc = IF to = "post" THEN "post" ELSE "delete"]
    <3>1. PICK k \in erasure.todo :
            erasure' = IF Customers!Resolving(attempt[k]) = "undo" THEN Customers!NotBegun
                       ELSE [erasure EXCEPT !.key = k, !.customer = attempt[k].created,
                                            !.pc = IF Customers!Resolving(attempt[k]) = "post" THEN "post" ELSE "delete"]
      BY <2>4
    <3>2. CASE Customers!Resolving(attempt[k]) = "undo"
      BY <2>1, <3>1, <3>2
    <3>3. CASE Customers!Resolving(attempt[k]) = "post"
      <4>1. ~attempt[k].late
        BY <3>3 DEF Customers!Resolving
      <4>2. erasure' = [erasure EXCEPT !.key = k, !.customer = attempt[k].created, !.pc = "post"]
        BY <3>1, <3>3
      <4>3. QED BY <2>3, <4>1, <4>2
    <3>4. CASE Customers!Resolving(attempt[k]) \notin {"undo", "post"}
      <4>1. attempt[k].created # None
        BY <3>4 DEF Customers!Resolving
      <4>2. erasure' = [erasure EXCEPT !.key = k, !.customer = attempt[k].created, !.pc = "delete"]
        BY <3>1, <3>4
      <4>3. QED BY <2>3, <4>1, <4>2
    <3>5. QED BY <3>2, <3>3, <3>4
  <2>5. QED BY <2>1, <2>2, <2>4 DEF Customers!ErasureNext
<1>4. CustomersTyped' /\ OnePending'
  BY <1>0, <1>1, <1>3 DEF CustomersTyped, OnePending, Customers!Pending
<1>5. QED BY <1>1, <1>2, <1>3, <1>4, StillStep

\* It asks Stripe for the customer of an attempt whose answer was lost.
LEMMA ErasurePostKept ==
    ASSUME MaxFaults \in Nat, None \notin Customers!Customers, CustomersInv, Customers!ErasurePost
    PROVE  CustomersInv'
<1>0. /\ CustomersTyped /\ OnePending /\ erasure \in StepType /\ ErasureSound /\ attempt \in [Keys -> AttemptType]
      /\ \A j \in Keys : CreationSound(j)
  BY DEF CustomersInv, CustomersTyped
<1>a. PICK k \in Keys : k = erasure.key
  BY <1>0 DEF Customers!ErasurePost, ErasureSound, StepType
<1>1. /\ erasure.pc = "post" /\ Customers!CreateCustomer(k) /\ UNCHANGED <<mapping, event, req, worker, owner>>
      /\ k \in erasure.todo /\ attempt[k].started /\ ~attempt[k].late
  BY <1>0, <1>a DEF Customers!ErasurePost, ErasureSound
<1>b. PICK c : c = Customers!Posted(k)
  OBVIOUS
<1>2. attempt[k] \in AttemptType /\ c \in Customers!Customers /\ c # None
  <2>1. c \in Own(k)
    <3>1. replay[k] # None => c \in Own(k)
      BY <1>0, <1>b DEF Customers!Posted, CreationSound
    <3>2. ASSUME NEW b, b \in {1, 2} PROVE <<k, b>> \in Own(k)
      BY <3>2 DEF Own
    <3>3. (IF stripe[<<k, 1>>] = "none" THEN 1 ELSE 2) \in {1, 2}
      OBVIOUS
    <3>4. replay[k] = None => c \in Own(k)
      BY <1>b, <3>2, <3>3 DEF Customers!Posted
    <3>5. QED BY <3>1, <3>4
  <2>2. QED BY <1>0, <2>1, FoundOwn
<1> DEFINE x == [attempt[k] EXCEPT !.created = c]
           e == [erasure EXCEPT !.pc = "delete", !.customer = c]
<1>3. \/ attempt' = [attempt EXCEPT ![k] = x] /\ erasure' = e
      \/ UNCHANGED attempt /\ erasure' = Customers!NotBegun
  BY <1>a, <1>b DEF Customers!ErasurePost
<1>4. faults' \in 0..MaxFaults
  BY <1>0, FaultTyped DEF Customers!ErasurePost, CustomersTyped
<1>5. /\ x \in AttemptType /\ x.created = c /\ x.erased = attempt[k].erased
      /\ x.started = attempt[k].started /\ x.late = attempt[k].late /\ x.status = attempt[k].status
  BY <1>2 DEF AttemptType
<1>6. /\ e \in StepType /\ e.pc = "delete" /\ e.customer = c /\ e.key = k /\ e.todo = erasure.todo /\ e.full = erasure.full
  BY <1>0, <1>a, <1>2 DEF StepType
<1> HIDE DEF x, e
<1>7. /\ attempt' \in [Keys -> AttemptType] /\ (\A j \in Keys \ {k} : attempt'[j] = attempt[j])
      /\ attempt'[k] \in {x, attempt[k]}
  BY <1>0, <1>3, <1>5, RowChanged
<1>8. /\ attempt'[k].created \in {attempt[k].created, c} /\ attempt'[k].erased = attempt[k].erased
      /\ attempt'[k].started /\ ~attempt'[k].late /\ attempt'[k].status = attempt[k].status
  BY <1>1, <1>5, <1>7
<1>9. /\ CreationSound(k)' /\ \A j \in Keys \ {k} : Still(j)
      /\ attempt[k].created # None => attempt'[k].created = attempt[k].created
      /\ attempt[k].erased => Customers!Found(k)' = {}
      /\ replay[k] # None => replay'[k] = replay[k]
      /\ stripe' \in [Customers!Customers -> {"none", "live", "deleted"}]
      /\ replay' \in [Keys -> Customers!Customers \cup {None}]
  BY <1>0, <1>b, <1>1, <1>7, <1>8, PostSound
<1>10. \A j \in Keys \ {k} : CreationSound(j)' /\ Onward(j)
  BY <1>0, <1>9, StillSound
<1>11. erasure' \in StepType
  BY <1>3, <1>6, NotBegunSound
<1>12. CustomersTyped' /\ OnePending'
  BY <1>0, <1>1, <1>4, <1>7, <1>8, <1>9, <1>11 DEF CustomersTyped, OnePending, Customers!Pending
<1>13. \A r \in Requests : Unmoved(r) /\ RequestSound(r)
  BY <1>1 DEF Unmoved, CustomersInv
<1>14. ASSUME NEW r \in Requests PROVE RequestSound(r)'
  <2>1. \A j \in Keys : /\ attempt[j].created # None => attempt'[j].created = attempt[j].created
                        /\ attempt[j].started => attempt'[j].started
                        /\ ~attempt[j].late => ~attempt'[j].late
                        /\ replay[j] # None => replay'[j] = replay[j]
    BY <1>8, <1>9 DEF Still
  <2>2. QED BY <1>13, <2>1 DEF RequestSound, Unmoved
<1>15. WorkerSound'
  <2>1. CASE worker.pc # "recover"
    BY <1>1, <2>1 DEF WorkerSound
  <2>2. CASE worker.pc = "recover"
    <3>1. worker.key \in Keys /\ WorkerSound
      BY <2>2 DEF CustomersInv, WorkerSound
    <3>2. worker.key # k => Onward(worker.key)
      BY <1>10, <3>1
    <3>3. CASE worker.key # k
      BY <1>1, <2>2, <3>1, <3>2, <3>3 DEF WorkerSound, Onward
    <3>4. CASE worker.key = k
      BY <1>1, <1>9, <2>2, <3>1, <3>4 DEF WorkerSound
    <3>5. QED BY <3>3, <3>4
  <2>3. QED BY <2>1, <2>2
<1>16. ErasureSound'
  <2>1. CASE erasure' = Customers!NotBegun
    BY <2>1, NotBegunSound
  <2>2. CASE attempt' = [attempt EXCEPT ![k] = x] /\ erasure' = e
    <3>1. attempt'[k] = x
      BY <1>0, <2>2
    <3>2. \A j \in erasure.todo : attempt'[j].started
      BY <1>0, <1>1, <1>7, <1>8 DEF ErasureSound, StepType
    <3>3. ~erasure.full => \A j \in Keys : Customers!Found(j)' # {} \/ PostUnderWay(j)' =>
                                             j \in erasure.todo \/ attempt'[j].erased
      <4>1. ASSUME NEW j \in Keys \ {k}, Customers!Found(j)' # {} \/ PostUnderWay(j)'
            PROVE  (Customers!Found(j) # {} \/ PostUnderWay(j)) /\ attempt'[j] = attempt[j]
        BY <1>1, <1>7, <1>10, <4>1 DEF PostUnderWay, Onward
      <4>2. QED BY <1>0, <1>1, <4>1 DEF ErasureSound
    <3>4. QED BY <1>0, <1>1, <1>2, <1>5, <1>6, <2>2, <3>1, <3>2, <3>3 DEF ErasureSound
  <2>3. QED BY <1>3, <2>1, <2>2
<1>17. QED BY <1>9, <1>10, <1>12, <1>14, <1>15, <1>16 DEF CustomersInv

\* It deletes the customer of the attempt.
LEMMA ErasureDeleteKept ==
    ASSUME MaxFaults \in Nat, CustomersInv, Customers!ErasureDelete
    PROVE  CustomersInv'
<1>0. /\ CustomersTyped /\ OnePending /\ erasure \in StepType /\ ErasureSound /\ attempt \in [Keys -> AttemptType]
      /\ \A j \in Keys : CreationSound(j)
  BY DEF CustomersInv, CustomersTyped
<1>a. PICK k \in Keys : k = erasure.key
  BY <1>0 DEF Customers!ErasureDelete, ErasureSound, StepType
<1>1. /\ erasure.pc = "delete" /\ attempt[k].created # None /\ Customers!DeleteCustomer(attempt[k].created)
      /\ k \in erasure.todo /\ UNCHANGED <<mapping, replay, event, req, worker, owner>>
  BY <1>0, <1>a DEF Customers!ErasureDelete, ErasureSound
<1> DEFINE x == [attempt[k] EXCEPT !.erased = TRUE]
           e == [erasure EXCEPT !.pc = "next", !.todo = @ \ {k}]
<1>2. \/ attempt' = [attempt EXCEPT ![k] = x] /\ erasure' = e
      \/ UNCHANGED attempt /\ erasure' = Customers!NotBegun
  BY <1>a DEF Customers!ErasureDelete
<1>3. faults' \in 0..MaxFaults
  BY <1>0, FaultTyped DEF Customers!ErasureDelete, CustomersTyped
<1>4. /\ x \in AttemptType /\ x.created = attempt[k].created /\ x.erased
      /\ x.started = attempt[k].started /\ x.late = attempt[k].late /\ x.status = attempt[k].status
  BY <1>0 DEF AttemptType
<1>5. /\ e \in StepType /\ e.pc = "next" /\ e.todo = erasure.todo \ {k} /\ e.full = erasure.full
  BY <1>0 DEF StepType
<1> HIDE DEF x, e
<1>6. /\ attempt' \in [Keys -> AttemptType] /\ (\A j \in Keys \ {k} : attempt'[j] = attempt[j])
      /\ attempt'[k] \in {x, attempt[k]}
  BY <1>0, <1>2, <1>4, RowChanged
<1>7. /\ attempt'[k].created = attempt[k].created /\ (attempt[k].erased => attempt'[k].erased)
      /\ attempt'[k].started = attempt[k].started /\ attempt'[k].late = attempt[k].late /\ attempt'[k].status = attempt[k].status
  BY <1>4, <1>6
<1>8. /\ CreationSound(k)' /\ (\A j \in Keys \ {k} : Still(j)) /\ Customers!Found(k)' = {}
      /\ stripe' \in [Customers!Customers -> {"none", "live", "deleted"}]
  BY <1>0, <1>1, <1>6, <1>7, DeleteSound
<1>9. Onward(k)
  BY <1>1, <1>7, <1>8 DEF Onward
<1>10. \A j \in Keys : CreationSound(j)' /\ Onward(j)
  BY <1>0, <1>8, <1>9, StillSound
<1>11. CustomersTyped' /\ OnePending'
  BY <1>0, <1>1, <1>2, <1>3, <1>5, <1>6, <1>7, <1>8, NotBegunSound DEF CustomersTyped, OnePending, Customers!Pending
<1>12. \A r \in Requests : Unmoved(r)
  BY <1>1 DEF Unmoved
<1>13. ErasureSound'
  <2>1. CASE erasure' = Customers!NotBegun
    BY <2>1, NotBegunSound
  <2>2. CASE attempt' = [attempt EXCEPT ![k] = x] /\ erasure' = e
    <3>1. attempt'[k] = x
      BY <1>0, <2>2
    <3>2. \A j \in erasure.todo : attempt'[j].started
      BY <1>0, <1>1, <1>6, <1>7 DEF ErasureSound, StepType
    <3>3. ~erasure.full => \A j \in Keys : Customers!Found(j)' # {} \/ PostUnderWay(j)' =>
                                             j \in erasure.todo \ {k} \/ attempt'[j].erased
      <4>1. ASSUME NEW j \in Keys \ {k}, Customers!Found(j)' # {} \/ PostUnderWay(j)'
            PROVE  (Customers!Found(j) # {} \/ PostUnderWay(j)) /\ attempt'[j] = attempt[j]
        BY <1>1, <1>6, <1>10, <4>1 DEF PostUnderWay, Onward
      <4>2. QED BY <1>0, <1>1, <1>4, <3>1, <4>1 DEF ErasureSound
    <3>4. QED BY <1>0, <1>1, <1>5, <2>2, <3>2, <3>3 DEF ErasureSound
  <2>3. QED BY <1>2, <2>1, <2>2
<1>14. QED BY <1>1, <1>10, <1>11, <1>12, <1>13, CustomersKept

\* It deletes the customer of the account.
LEMMA ErasureMappedKept ==
    ASSUME CustomersInv, Customers!ErasureMapped
    PROVE  CustomersInv'
<1>0. /\ CustomersTyped /\ OnePending /\ erasure \in StepType /\ ErasureSound /\ \A j \in Keys : CreationSound(j)
  BY DEF CustomersInv, CustomersTyped
<1>1. /\ erasure.pc = "mapped" /\ UNCHANGED <<attempt, mapping, replay, event, req, worker, owner, faults>>
      /\ erasure' = [Customers!NotBegun EXCEPT !.pc = "done"]
  BY DEF Customers!ErasureMapped
<1>2. /\ stripe' \in [Customers!Customers -> {"none", "live", "deleted"}]
      /\ \A d \in Customers!Customers : stripe'[d] \in {stripe[d], "deleted"}
  <2>1. erasure.mapped \in Customers!Customers \cup {None}
    BY <1>0 DEF StepType
  <2>2. QED BY <1>0, <2>1 DEF Customers!ErasureMapped, Customers!DeleteCustomer, CustomersTyped
<1>3. erasure' \in StepType /\ erasure'.pc = "done" /\ erasure'.todo = {} /\ ~erasure'.full
  BY <1>1 DEF Customers!NotBegun, StepType
<1>4. \A k \in Keys : Still(k)
  BY <1>1, <1>2, FoundOwn DEF Still
<1>5. \A k \in Keys : CreationSound(k)' /\ Onward(k)
  BY <1>0, <1>4, StillSound
<1>6. ErasureSound'
  <2>1. erasure.todo = {} /\ ~erasure.full /\ \A k \in Keys : Customers!Found(k) # {} \/ PostUnderWay(k) => attempt[k].erased
    BY <1>0, <1>1 DEF ErasureSound
  <2>2. ASSUME NEW k \in Keys, Customers!Found(k)' # {} \/ PostUnderWay(k)' PROVE attempt'[k].erased
    BY <1>1, <1>5, <2>1, <2>2 DEF Onward, PostUnderWay
  <2>3. QED BY <1>0, <1>1, <1>3, <2>2 DEF ErasureSound
<1>7. CustomersTyped' /\ OnePending' /\ \A r \in Requests : Unmoved(r)
  BY <1>0, <1>1, <1>2, <1>3 DEF CustomersTyped, OnePending, Customers!Pending, Unmoved
<1>8. QED BY <1>1, <1>5, <1>6, <1>7, CustomersKept

\* Every step keeps the invariant.
LEMMA CustomersStep ==
    ASSUME MaxFaults \in Nat, None \notin Customers!Customers, CustomersInv, [Customers!Next]_(Customers!vars)
    PROVE  CustomersInv'
<1>1. CASE UNCHANGED Customers!vars
  <2>1. UNCHANGED <<attempt, mapping, stripe, replay, event, req, worker, erasure, owner, faults>>
    BY <1>1 DEF Customers!vars
  <2>2. CustomersTyped' /\ OnePending' /\ (\A k \in Keys : Still(k)) /\ (\A r \in Requests : Unmoved(r))
    BY <2>1 DEF CustomersInv, CustomersTyped, OnePending, Customers!Pending, Still, Unmoved
  <2>3. \A k \in Keys : PostUnderWay(k)' => PostUnderWay(k)
    BY <2>1 DEF PostUnderWay
  <2>4. QED BY <2>1, <2>2, <2>3, StillStep
<1>2. ASSUME NEW r \in Requests,
             Customers!Proceed(r) \/ Customers!LockLost(r) \/ Customers!Crash(r) \/ \E k \in Keys : Customers!BeginCheckout(r, k)
      PROVE  CustomersInv'
  BY <1>2, BeginCheckoutKept, LockLostKept, RequestCrashKept, BeginCreationKept, PostKept, RecordKept, SaveKept,
     SessionKept, OpenKept, UndoKept DEF Customers!Proceed
<1>3. CASE Customers!Watchdog
  BY <1>3, InvestigateKept, RecoverKept DEF Customers!Watchdog
<1>4. CASE Customers!Erase
  BY <1>4, BeginErasureKept, ErasureNextKept, ErasurePostKept, ErasureDeleteKept, ErasureMappedKept DEF Customers!Erase
<1>5. CASE \/ \E k \in Keys : \/ Customers!TurnsLate(k) \/ Customers!Forget(k) \/ Customers!Lapses(k)
                              \/ Customers!SessionEnds(k) \/ Customers!ScheduleDue(k) \/ Customers!RetryDeadLetter(k)
           \/ Customers!OperatorDeletes \/ Customers!MarkCustomerDeleted \/ Customers!Close
  BY <1>5, SurroundingsKept
<1>6. QED BY <1>1, <1>2, <1>3, <1>4, <1>5 DEF Customers!Next

\* Cardinality as the module of the checkout has it.
LEMMA AtMostOne ==
    ASSUME NEW S, NEW c, S \subseteq {c}
    PROVE  Customers!Cardinality(S) <= 1
<1>1. Customers!Cardinality(S) = Cardinality(S)
  BY DEF Customers!Cardinality, Cardinality
<1>2. IsFiniteSet({c}) /\ Cardinality({c}) = 1 /\ IsFiniteSet({}) /\ Cardinality({}) = 0
  BY FS_Singleton, FS_EmptySet
<1>3. S = {} \/ S = {c}
  OBVIOUS
<1>4. Cardinality(S) \in {0, 1}
  BY <1>2, <1>3
<1>5. QED BY <1>1, <1>4

\* The invariant gives the property.
LEMMA CustomersHold ==
    ASSUME CustomersInv PROVE Customers!CustomersConsistent
<1>0. CustomersTyped /\ OnePending /\ (\A k \in Keys : CreationSound(k)) /\ ErasureSound
  BY DEF CustomersInv
<1>1. Customers!TypeOK
  <2> DEFINE live == {k \in Keys : Customers!Pending(k)}
  <2>1. \E c : live \subseteq {c}
    <3>1. CASE live = {}
      BY <3>1
    <3>2. CASE live # {}
      <4>1. PICK k \in live : TRUE
        BY <3>2
      <4>2. live \subseteq {k}
        BY <1>0, <4>1 DEF OnePending
      <4>3. QED BY <4>2
    <3>3. QED BY <3>1, <3>2
  <2>2. Customers!Cardinality(live) <= 1
    BY <2>1, AtMostOne
  <2>3. QED
    BY <1>0, <2>2 DEF Customers!TypeOK, CustomersTyped, AttemptType, CheckoutType, WatchType, StepType, MappingType
<1>2. Customers!OneCustomerPerAttempt
  <2>1. ASSUME NEW k \in Keys PROVE Customers!Cardinality(Customers!Found(k)) <= 1
    BY <1>0, AtMostOne DEF CreationSound
  <2>2. QED BY <2>1 DEF Customers!OneCustomerPerAttempt, Customers!Found
<1>3. ASSUME NEW c \in Customers!Customers, stripe[c] = "live"
      PROVE  c[1] \in Keys /\ c \in Customers!Found(c[1])
  BY <1>3 DEF Customers!Customers, Customers!Found
<1>4. ASSUME NEW k \in Keys, attempt[k].erased PROVE Customers!Found(k) = {}
  BY <1>0, <1>4, FoundOwn DEF CreationSound
<1>5. Customers!NoLostCustomer
  <2>1. ASSUME NEW c \in Customers!Customers, stripe[c] = "live"
        PROVE  attempt[c[1]].started /\ ~attempt[c[1]].erased
    BY <1>0, <1>3, <1>4, <2>1 DEF CreationSound
  <2>2. QED BY <2>1 DEF Customers!NoLostCustomer
<1>6. Customers!ErasedMeansGone
  <2>1. ASSUME erasure.pc = "done", NEW c \in Customers!Customers, stripe[c] = "live" PROVE FALSE
    <3>1. c[1] \in Keys /\ Customers!Found(c[1]) # {}
      BY <1>3, <2>1
    <3>2. attempt[c[1]].erased
      BY <1>0, <2>1, <3>1 DEF ErasureSound
    <3>3. QED BY <1>4, <3>1, <3>2
  <2>2. QED BY <2>1 DEF Customers!ErasedMeansGone
<1>7. QED BY <1>1, <1>2, <1>5, <1>6 DEF Customers!CustomersConsistent

\* createCheckout, the watchdog and the Stripe step of the erasure, for any number
\* of attempts, requests at once and failures: a repeated POST gives an attempt no
\* second customer, every customer at Stripe is that of the account or of an attempt
\* that is still looked at, and none is left when the step of the erasure is done.
THEOREM CustomersSound ==
    ASSUME MaxFaults \in Nat, None \notin Keys \X {1, 2}
    PROVE  Customers!Spec => []CustomersConsistent
<1>0. None \notin Customers!Customers
  BY DEF Customers!Customers
<1>1. Customers!Init => CustomersInv
  BY CustomersStart
<1>2. CustomersInv /\ [Customers!Next]_(Customers!vars) => CustomersInv'
  BY <1>0, CustomersStep
<1>3. CustomersInv => CustomersConsistent
  BY CustomersHold DEF CustomersConsistent
<1>4. QED
  BY <1>1, <1>2, <1>3, PTL DEF Customers!Spec

=============================================================================
