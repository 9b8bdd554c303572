-------------------------- MODULE CheckoutCustomer --------------------------
(***************************************************************************)
(* How one account gets its customer at Stripe, and loses it again: the    *)
(* checkout requests (BillingService.createCheckout), the watchdog of      *)
(* customer creations (BillingReconciliationService) and the Stripe step   *)
(* of the erasure (deleteCustomerForAccount).                              *)
(*                                                                         *)
(* An attempt is the row of one Idempotency-Key.  Its dates are kept as    *)
(* what is asked of them: lapsed (creating for a minute, or open past its  *)
(* expiry) and late (23 hours since the creation of the customer began).   *)
(* Stripe answers a repeated POST of one key with the first customer until *)
(* it forgets the key, which it does after 24 hours at the earliest.       *)
(***************************************************************************)
EXTENDS Integers, FiniteSets

CONSTANTS
    Keys,             \* Idempotency-Keys, hence attempts
    Requests,         \* checkout requests under way at once
    BatchSize,        \* creations handled by one pass of the erasure (50)
    MaxFaults,        \* bound on crashes, lost locks and failing calls
    CustomerDeletion, \* whether an operator may delete the customer at Stripe
    None              \* NULL

VARIABLES
    attempt,  \* billing_checkout_session
    mapping,  \* billing_customer
    stripe,   \* the customers at Stripe
    replay,   \* the customer Stripe answers a repeated POST with
    event,    \* the outbox events billing.customer.reconcile
    req,      \* the checkout requests
    worker,   \* the watchdog
    erasure,  \* the Stripe step of the erasure
    account,  \* "live" or "deleted"
    faults

vars == <<attempt, mapping, stripe, replay, event, req, worker, erasure, account, faults>>

\* A second customer of an attempt is what the idempotency key prevents.
Customers == Keys \X {1, 2}

NoAttempt == [status |-> "none", lapsed |-> FALSE, started |-> FALSE, late |-> FALSE,
              created |-> None, erased |-> FALSE]
NoMapping == [customer |-> None, deleted |-> FALSE]
Idle == [pc |-> "idle", key |-> None, customer |-> None, held |-> FALSE]
Asleep == [pc |-> "idle", key |-> None, customer |-> None]
NotBegun == [pc |-> "idle", todo |-> {}, full |-> FALSE, key |-> None, customer |-> None, mapped |-> None]

Pending(k) == attempt[k].status \in {"creating", "open"}
Mapped == IF mapping.deleted THEN None ELSE mapping.customer

\* The partial unique index idx_billing_checkout_one_live_per_user is part of the type.
TypeOK ==
    /\ attempt \in [Keys -> [status: {"none", "creating", "open", "completed", "expired", "failed"},
                             lapsed: BOOLEAN, started: BOOLEAN, late: BOOLEAN,
                             created: Customers \cup {None}, erased: BOOLEAN]]
    /\ Cardinality({k \in Keys : Pending(k)}) <= 1
    /\ mapping \in [customer: Customers \cup {None}, deleted: BOOLEAN]
    /\ stripe \in [Customers -> {"none", "live", "deleted"}]
    /\ replay \in [Keys -> Customers \cup {None}]
    /\ event \in [Keys -> {"none", "pending", "completed", "dead"}]
    /\ req \in [Requests -> [pc: {"idle", "begun", "post", "record", "save", "session", "open", "undo"},
                             key: Keys \cup {None}, customer: Customers \cup {None}, held: BOOLEAN]]
    /\ worker \in [pc: {"idle", "recover"}, key: Keys \cup {None}, customer: Customers \cup {None}]
    /\ erasure \in [pc: {"idle", "next", "post", "delete", "mapped", "done"}, todo: SUBSET Keys,
                    full: BOOLEAN, key: Keys \cup {None}, customer: Customers \cup {None}, mapped: Customers \cup {None}]
    /\ account \in {"live", "deleted"}
    /\ faults \in 0..MaxFaults

Init ==
    /\ attempt = [k \in Keys |-> NoAttempt] /\ mapping = NoMapping
    /\ stripe = [c \in Customers |-> "none"] /\ replay = [k \in Keys |-> None]
    /\ event = [k \in Keys |-> "none"] /\ req = [r \in Requests |-> Idle]
    /\ worker = Asleep /\ erasure = NotBegun /\ account = "live" /\ faults = 0

Fault == faults < MaxFaults /\ faults' = faults + 1

-----------------------------------------------------------------------------
(* Stripe.                                                                 *)

\* POST /v1/customers with the key of attempt k.
Posted(k) == IF replay[k] # None THEN replay[k]
             ELSE <<k, IF stripe[<<k, 1>>] = "none" THEN 1 ELSE 2>>

CreateCustomer(k) ==
    /\ replay' = [replay EXCEPT ![k] = Posted(k)]
    /\ stripe' = [stripe EXCEPT ![Posted(k)] = IF @ = "none" THEN "live" ELSE @]

\* DELETE, confirmed by its answer or by reading the customer.
DeleteCustomer(c) == stripe' = [stripe EXCEPT ![c] = "deleted"]

\* The requests that were in the window of 23 hours are over: the hour of margin.
Forget(k) ==
    /\ attempt[k].late /\ replay[k] # None
    /\ \A r \in Requests : ~(req[r].pc \in {"post", "record"} /\ req[r].key = k)
    /\ ~(erasure.pc = "post" /\ erasure.key = k)
    /\ replay' = [replay EXCEPT ![k] = None]
    /\ UNCHANGED <<attempt, mapping, stripe, event, req, worker, erasure, account, faults>>

\* 23 hours have passed since the creation began, and no POST is under way.
TurnsLate(k) ==
    /\ attempt[k].started /\ ~attempt[k].late
    /\ \A r \in Requests : ~(req[r].pc = "post" /\ req[r].key = k)
    /\ ~(erasure.pc = "post" /\ erasure.key = k)
    /\ attempt' = [attempt EXCEPT ![k].late = TRUE]
    /\ UNCHANGED <<mapping, stripe, replay, event, req, worker, erasure, account, faults>>

\* A minute in creating, or 30 minutes in open.
Lapses(k) ==
    /\ Pending(k) /\ ~attempt[k].lapsed
    /\ attempt' = [attempt EXCEPT ![k].lapsed = TRUE]
    /\ UNCHANGED <<mapping, stripe, replay, event, req, worker, erasure, account, faults>>

\* The session is paid or expires: markCheckoutFromWebhook.
SessionEnds(k) ==
    /\ attempt[k].status = "open"
    /\ \E s \in {"completed", "expired"} : attempt' = [attempt EXCEPT ![k].status = s, ![k].lapsed = FALSE]
    /\ UNCHANGED <<mapping, stripe, replay, event, req, worker, erasure, account, faults>>

\* An operator deletes the customer at Stripe.
OperatorDeletes ==
    /\ CustomerDeletion /\ Fault
    /\ \E c \in Customers : stripe[c] = "live" /\ DeleteCustomer(c)
    /\ UNCHANGED <<attempt, mapping, replay, event, req, worker, erasure, account>>

\* The webhook customer.deleted, or a reconciliation of the subscription.
MarkCustomerDeleted ==
    /\ Mapped # None /\ stripe[Mapped] = "deleted" /\ account = "live"
    /\ mapping' = [mapping EXCEPT !.deleted = TRUE]
    /\ attempt' = [k \in Keys |-> IF Pending(k) THEN [attempt[k] EXCEPT !.status = "failed", !.lapsed = FALSE]
                                  ELSE attempt[k]]
    /\ UNCHANGED <<stripe, replay, event, req, worker, erasure, account, faults>>

-----------------------------------------------------------------------------
(* A checkout request.                                                     *)

Goto(r, pc) == req' = [req EXCEPT ![r].pc = pc]

\* The open attempts past their expiry and the stale ones are closed first.
Swept == [k \in Keys |->
            IF Pending(k) /\ attempt[k].lapsed
            THEN [attempt[k] EXCEPT !.status = IF @ = "open" THEN "expired" ELSE "failed", !.lapsed = FALSE]
            ELSE attempt[k]]

\* The creation of another attempt has an unknown outcome.
Unresolved(k) == Mapped = None /\ \E other \in Keys \ {k} : attempt[other].started /\ ~attempt[other].erased

\* Mutant: another attempt under way is not looked for.
OtherLiveNever == FALSE

OtherLive == \E other \in Keys : Swept[other].status \in {"creating", "open"}

\* beginCheckout: the key has a session or a result to show and nothing is
\* written; or the expired attempts are closed, and then the request is
\* refused or has its attempt.  Refusals by the subscription or the period
\* of the key are always possible.
BeginCheckout(r, k) ==
    /\ req[r].pc = "idle" /\ account = "live" /\ erasure.pc = "idle"
    /\ ~(Pending(k) /\ ~attempt[k].lapsed) /\ attempt[k].status \notin {"completed", "expired"}
    /\ IF OtherLive \/ Unresolved(k)
       THEN attempt' = Swept /\ UNCHANGED req
       ELSE \/ attempt' = Swept /\ Swept # attempt /\ UNCHANGED req
            \/ /\ attempt' = [Swept EXCEPT ![k].status = "creating"]
               /\ req' = [req EXCEPT ![r] =
                    [pc |-> IF Mapped = None THEN "begun" ELSE "session", key |-> k, customer |-> Mapped, held |-> TRUE]]
    /\ UNCHANGED <<mapping, stripe, replay, event, worker, erasure, account, faults>>

\* The connection that holds the shared lock fails.
LockLost(r) ==
    /\ Fault /\ req[r].pc # "idle" /\ req[r].held /\ req' = [req EXCEPT ![r].held = FALSE]
    /\ UNCHANGED <<attempt, mapping, stripe, replay, event, worker, erasure, account>>

\* Mutant: the window of 23 hours is not asked for.
ResolvingAnyTime(row) == IF row.erased THEN "undo" ELSE IF row.created # None THEN "save" ELSE "post"

\* resolveCustomerCreation, up to its network call: the customer is known, may
\* be asked for, or neither.
Resolving(row) ==
    IF row.erased THEN "undo" ELSE IF row.created # None THEN "save"
    ELSE IF row.late THEN "undo" ELSE "post"

\* Mutant: the lock is not asserted before the POST.
BeginCustomerCreationUnlocked(r) ==
    LET k == req[r].key IN
    /\ req[r].pc = "begun"
    /\ attempt' = [attempt EXCEPT ![k].started = TRUE]
    /\ event' = [event EXCEPT ![k] = IF @ = "dead" THEN @ ELSE "pending"]
    /\ req' = [req EXCEPT ![r].pc = Resolving(attempt[k]), ![r].customer = attempt[k].created]
    /\ UNCHANGED <<mapping, stripe, replay, worker, erasure, account, faults>>

\* beginCustomerCreation, in one transaction with its watchdog.
BeginCustomerCreation(r) ==
    LET k == req[r].key IN
    /\ req[r].pc = "begun"
    /\ attempt' = [attempt EXCEPT ![k].started = TRUE]
    /\ event' = [event EXCEPT ![k] = IF @ = "dead" THEN @ ELSE "pending"]
    /\ req' = [req EXCEPT ![r].pc = IF req[r].held THEN Resolving(attempt[k]) ELSE "undo",
                          ![r].customer = IF req[r].held THEN attempt[k].created ELSE None]
    /\ UNCHANGED <<mapping, stripe, replay, worker, erasure, account, faults>>

\* The POST; its answer may be lost.
Post(r) ==
    LET k == req[r].key IN
    /\ req[r].pc = "post" /\ CreateCustomer(k)
    /\ \/ req' = [req EXCEPT ![r].pc = "record", ![r].customer = Posted(k)] /\ UNCHANGED faults
       \/ Fault /\ Goto(r, "undo")
    /\ UNCHANGED <<attempt, mapping, event, worker, erasure, account>>

\* recordCreatedCustomer; a failure here leaves nothing to delete.
RecordCreatedCustomer(r) ==
    LET k == req[r].key IN
    /\ req[r].pc = "record"
    /\ IF attempt[k].created \in {None, req[r].customer}
       THEN attempt' = [attempt EXCEPT ![k].created = req[r].customer] /\ Goto(r, "save")
       ELSE req' = [req EXCEPT ![r].pc = "undo", ![r].customer = None] /\ UNCHANGED attempt
    /\ UNCHANGED <<mapping, stripe, replay, event, worker, erasure, account, faults>>

Attachable(c) == account = "live" /\ (mapping.customer \in {None, c} \/ mapping.deleted)

\* saveCustomer removes the watchdogs that wait for this customer.  A failure
\* is reported although the transaction may have been committed.
SaveCustomer(r) ==
    LET c == req[r].customer
        attach == /\ mapping' = [customer |-> c, deleted |-> FALSE]
                  /\ event' = [k \in Keys |-> IF attempt[k].created = c /\ event[k] \in {"pending", "completed"}
                                              THEN "none" ELSE event[k]]
    IN
    /\ req[r].pc = "save"
    /\ \/ Attachable(c) /\ attach /\ Goto(r, "session") /\ UNCHANGED faults
       \/ ~Attachable(c) /\ UNCHANGED <<mapping, event, faults>> /\ Goto(r, "undo")
       \/ Attachable(c) /\ attach /\ Fault /\ Goto(r, "undo")
    /\ UNCHANGED <<attempt, stripe, replay, worker, erasure, account>>

\* createCheckoutSession, after the lock is asserted; it fails for a deleted
\* customer.  The customer is attached and no longer the request's to delete.
CreateSession(r) ==
    LET ok == req[r].held /\ stripe[req[r].customer] = "live" IN
    /\ req[r].pc = "session"
    /\ req' = [req EXCEPT ![r].pc = IF ok THEN "open" ELSE "undo", ![r].customer = None]
    /\ UNCHANGED <<attempt, mapping, stripe, replay, event, worker, erasure, account, faults>>

\* markCheckoutOpen, and the answer; another request may have closed the attempt.
MarkCheckoutOpen(r) ==
    LET k == req[r].key IN
    /\ req[r].pc = "open"
    /\ IF attempt[k].status = "creating"
       THEN attempt' = [attempt EXCEPT ![k].status = "open", ![k].lapsed = FALSE] /\ req' = [req EXCEPT ![r] = Idle]
       ELSE UNCHANGED attempt /\ Goto(r, "undo")
    /\ UNCHANGED <<mapping, stripe, replay, event, worker, erasure, account, faults>>

\* Mutant: the attempt is marked although the deletion failed.
UndoAlwaysMarks(r) ==
    LET k == req[r].key
        failed == IF attempt[k].status = "creating" THEN "failed" ELSE attempt[k].status
        closed == [attempt EXCEPT ![k].status = failed, ![k].lapsed = FALSE, ![k].erased = (req[r].customer # None)]
    IN
    /\ req[r].pc = "undo" /\ req' = [req EXCEPT ![r] = Idle] /\ attempt' = closed
    /\ \/ req[r].customer # None /\ DeleteCustomer(req[r].customer) /\ UNCHANGED faults
       \/ req[r].customer # None /\ Fault /\ UNCHANGED stripe
       \/ req[r].customer = None /\ UNCHANGED <<stripe, faults>>
    /\ UNCHANGED <<mapping, replay, event, worker, erasure, account>>

\* The catch block: markCheckoutFailed, then deleteCustomerBestEffort of a
\* customer that could not be attached.
Undo(r) ==
    LET k == req[r].key
        failed == IF attempt[k].status = "creating" THEN "failed" ELSE attempt[k].status
        closed == [attempt EXCEPT ![k].status = failed, ![k].lapsed = FALSE]
    IN
    /\ req[r].pc = "undo" /\ req' = [req EXCEPT ![r] = Idle]
    /\ \/ req[r].customer = None /\ attempt' = closed /\ UNCHANGED <<stripe, faults>>
       \/ /\ req[r].customer # None /\ DeleteCustomer(req[r].customer)
          /\ attempt' = [closed EXCEPT ![k].erased = TRUE] /\ UNCHANGED faults
       \/ req[r].customer # None /\ Fault /\ attempt' = closed /\ UNCHANGED stripe
    /\ UNCHANGED <<mapping, replay, event, worker, erasure, account>>

\* The process dies.
Crash(r) ==
    /\ req[r].pc # "idle" /\ Fault /\ req' = [req EXCEPT ![r] = Idle]
    /\ UNCHANGED <<attempt, mapping, stripe, replay, event, worker, erasure, account>>

-----------------------------------------------------------------------------
(* The watchdog.                                                           *)

Resolved(k) ==
    \/ ~attempt[k].started \/ attempt[k].erased
    \/ attempt[k].created # None /\ attempt[k].created = Mapped

\* scheduleDue: a late creation without an answer, or a customer not attached.
ScheduleDue(k) ==
    /\ account = "live" /\ ~Resolved(k) /\ event[k] \in {"none", "completed"}
    /\ attempt[k].created # None \/ attempt[k].late
    /\ event' = [event EXCEPT ![k] = "pending"]
    /\ UNCHANGED <<attempt, mapping, stripe, replay, req, worker, erasure, account, faults>>

\* findCreatedCustomer: the customers with the key of the attempt in their metadata.
Found(k) == {c \in Customers : c[1] = k /\ stripe[c] = "live"}

\* reconcileCustomerCreation up to the transaction.  A creation that is not
\* due stays pending; more than one customer is ambiguous.
Investigate(k) ==
    /\ worker.pc = "idle" /\ event[k] = "pending"
    /\ IF account = "deleted" \/ Resolved(k)
       THEN event' = [event EXCEPT ![k] = "completed"] /\ UNCHANGED worker
       ELSE /\ attempt[k].created # None \/ attempt[k].late
            /\ IF attempt[k].created = None /\ Cardinality(Found(k)) > 1
               THEN event' = [event EXCEPT ![k] = "dead"] /\ UNCHANGED worker
               ELSE /\ \E c \in IF attempt[k].created # None THEN {attempt[k].created}
                                ELSE IF Found(k) = {} THEN {None} ELSE Found(k) :
                         worker' = [pc |-> "recover", key |-> k, customer |-> c]
                    /\ UNCHANGED event
    /\ UNCHANGED <<attempt, mapping, stripe, replay, req, erasure, account, faults>>

\* Mutant: the intent is kept although no customer was found.
ClearedKeepsIntent(row) == [row EXCEPT !.status = "failed", !.lapsed = FALSE]

\* No customer was found: the attempt may start again.
Cleared(row) == [row EXCEPT !.started = FALSE, !.late = FALSE, !.status = "failed", !.lapsed = FALSE]

\* recoverCustomerCreation.
Recover ==
    LET k == worker.key
        row == attempt[k]
        c == IF row.created # None THEN row.created ELSE worker.customer
    IN
    /\ worker.pc = "recover" /\ worker' = Asleep
    /\ IF account = "deleted" \/ row.erased
       THEN event' = [event EXCEPT ![k] = "completed"] /\ UNCHANGED <<attempt, mapping>>
       ELSE IF c = None
       THEN /\ attempt' = [attempt EXCEPT ![k] = Cleared(row)]
            /\ event' = [event EXCEPT ![k] = "completed"] /\ UNCHANGED mapping
       ELSE IF (worker.customer # None /\ worker.customer # c) \/ ~Attachable(c)
       THEN event' = [event EXCEPT ![k] = "dead"] /\ UNCHANGED <<attempt, mapping>>
       ELSE /\ mapping' = [customer |-> c, deleted |-> FALSE]
            /\ attempt' = [attempt EXCEPT ![k] = [row EXCEPT !.created = c, !.status = "failed", !.lapsed = FALSE]]
            /\ event' = [event EXCEPT ![k] = "completed"]
    /\ UNCHANGED <<stripe, replay, req, erasure, account, faults>>

\* An operator has a dead letter tried again.
RetryDeadLetter(k) ==
    /\ event[k] = "dead" /\ Fault /\ event' = [event EXCEPT ![k] = "pending"]
    /\ UNCHANGED <<attempt, mapping, stripe, replay, req, worker, erasure, account>>

-----------------------------------------------------------------------------
(* The Stripe step of the erasure.                                         *)

\* The erasure is accepted.
Close ==
    /\ account = "live" /\ account' = "deleted"
    /\ UNCHANGED <<attempt, mapping, stripe, replay, event, req, worker, erasure, faults>>

Creations == {k \in Keys : attempt[k].started /\ ~attempt[k].erased}

\* customerCreationsForErasure and customerForUser, under the exclusive lock.
BeginErasure ==
    /\ account = "deleted" /\ erasure.pc = "idle" /\ \A r \in Requests : ~req[r].held
    /\ \E todo \in SUBSET Creations :
         /\ Cardinality(todo) = BatchSize \/ (todo = Creations /\ Cardinality(todo) < BatchSize)
         /\ erasure' = [NotBegun EXCEPT !.pc = "next", !.todo = todo, !.mapped = Mapped,
                                        !.full = (Cardinality(todo) = BatchSize)]
    /\ UNCHANGED <<attempt, mapping, stripe, replay, event, req, worker, account, faults>>

\* The next creation is resolved; when it cannot be, the pass fails.
ErasureNext ==
    /\ erasure.pc = "next"
    /\ \/ \E k \in erasure.todo :
            LET to == Resolving(attempt[k]) IN
            erasure' = IF to = "undo" THEN NotBegun
                       ELSE [erasure EXCEPT !.key = k, !.customer = attempt[k].created,
                                            !.pc = IF to = "post" THEN "post" ELSE "delete"]
       \/ /\ erasure.todo = {}
          /\ erasure' = IF erasure.full THEN NotBegun ELSE [erasure EXCEPT !.pc = "mapped"]
    /\ UNCHANGED <<attempt, mapping, stripe, replay, event, req, worker, account, faults>>

\* The POST is replayed and the customer recorded.
ErasurePost ==
    LET k == erasure.key IN
    /\ erasure.pc = "post" /\ CreateCustomer(k)
    /\ \/ /\ attempt' = [attempt EXCEPT ![k].created = Posted(k)]
          /\ erasure' = [erasure EXCEPT !.pc = "delete", !.customer = Posted(k)]
          /\ UNCHANGED faults
       \/ Fault /\ erasure' = NotBegun /\ UNCHANGED attempt
    /\ UNCHANGED <<mapping, event, req, worker, account>>

\* deleteCustomerConfirmed and markCreatedCustomerErased.
ErasureDelete ==
    LET k == erasure.key IN
    /\ erasure.pc = "delete" /\ DeleteCustomer(erasure.customer)
    /\ \/ /\ attempt' = [attempt EXCEPT ![k].erased = TRUE]
          /\ erasure' = [erasure EXCEPT !.pc = "next", !.todo = @ \ {k}] /\ UNCHANGED faults
       \/ Fault /\ erasure' = NotBegun /\ UNCHANGED attempt
    /\ UNCHANGED <<mapping, replay, event, req, worker, account>>

\* The customer of the mapping is deleted last, and the step is done.
ErasureMapped ==
    /\ erasure.pc = "mapped"
    /\ IF erasure.mapped = None THEN UNCHANGED stripe ELSE DeleteCustomer(erasure.mapped)
    /\ erasure' = [NotBegun EXCEPT !.pc = "done"]
    /\ UNCHANGED <<attempt, mapping, replay, event, req, worker, account, faults>>

Erase == BeginErasure \/ ErasureNext \/ ErasurePost \/ ErasureDelete \/ ErasureMapped

\* What a request does once it has its attempt.
Proceed(r) ==
    \/ BeginCustomerCreation(r) \/ Post(r) \/ RecordCreatedCustomer(r) \/ SaveCustomer(r)
    \/ CreateSession(r) \/ MarkCheckoutOpen(r) \/ Undo(r)

Watchdog == Recover \/ \E k \in Keys : Investigate(k)

Next ==
    \/ \E r \in Requests : Proceed(r) \/ LockLost(r) \/ Crash(r) \/ \E k \in Keys : BeginCheckout(r, k)
    \/ \E k \in Keys : TurnsLate(k) \/ Forget(k) \/ Lapses(k) \/ SessionEnds(k)
                         \/ ScheduleDue(k) \/ RetryDeadLetter(k)
    \/ OperatorDeletes \/ MarkCustomerDeleted \/ Watchdog \/ Close \/ Erase

Spec == Init /\ [][Next]_vars

-----------------------------------------------------------------------------
(* Properties.                                                             *)

\* A repeated POST never gives an attempt a second customer beside the first.
OneCustomerPerAttempt ==
    \A k \in Keys : Cardinality({c \in Customers : c[1] = k /\ stripe[c] = "live"}) <= 1

\* Every customer at Stripe is attached to the account or belongs to an
\* attempt that the watchdog and the erasure still look at.
NoLostCustomer ==
    \A c \in Customers : stripe[c] = "live" =>
      c = Mapped \/ (attempt[c[1]].started /\ ~attempt[c[1]].erased)

\* Once the step of the erasure is done no customer of the account exists at
\* Stripe, and none is created by a request that had lost its lock.
ErasedMeansGone == erasure.pc = "done" => \A c \in Customers : stripe[c] # "live"

\* A creation whose answer was lost is resolved in the end: its customer is
\* attached, deleted, found not to exist, or shown to an operator.
CreationResolved == \A k \in Keys : ~Resolved(k) ~> (Resolved(k) \/ event[k] = "dead" \/ account = "deleted")

\* Lost answers, crashes, the watchdog and the erasure together never leave a
\* customer at Stripe that is one too many or that nobody knows.
CustomersConsistent == TypeOK /\ OneCustomerPerAttempt /\ NoLostCustomer /\ ErasedMeansGone

=============================================================================
