------------------------------- MODULE Outbox -------------------------------
(***************************************************************************)
(* The transactional outbox: the table outbox_event, the statements of     *)
(* OutboxRepository that read and write it, and the worker processes       *)
(* (OutboxWorkerService) that claim batches and run the handlers.          *)
(*                                                                         *)
(* One SQL statement or transaction is one step.  What a worker does       *)
(* between two statements (waiting for Stripe, S3, FCM, or for another     *)
(* handler of its group) interleaves with every other process, and a       *)
(* worker may die between any two of its steps.                            *)
(*                                                                         *)
(* Time is abstract: instead of timestamps a row says whether available_at *)
(* has passed (due), whether its lease is older than the lock timeout      *)
(* (stale) and whether it is older than the retention (aged).  A row is    *)
(* named by its unique key (event_type, aggregate_id); a run remembers     *)
(* whether the row id it claimed still exists, because a row that was      *)
(* deleted and inserted again has another id.                              *)
(***************************************************************************)
EXTENDS Integers, FiniteSets

CONSTANTS
    Events,         \* unique keys (event_type, aggregate_id)
    EventType,      \* EventType[e]: which handler the dispatcher picks
    Workers,        \* live worker processes, each with its own random workerId
    Polls,          \* runOnce invocations of one process that may coexist
    MaxAttempts,    \* MAX_ATTEMPTS, 10 in the code
    AttemptsCheck,  \* upper bound of outbox_event_attempts_check, 100
    BatchSize,      \* BATCH_SIZE, 50
    HandlerConcurrency, \* HANDLER_CONCURRENCY, 5
    Faults,         \* which of "crash", "lapse", "write" may happen
    MaxFaults,      \* bound on how many faults happen
    MaxRequests,    \* bound on how many times work is requested
    Nobody, Gone    \* locked_by IS NULL; locked_by is the id of a dead process

Types == {"account.erase", "billing.reconcile", "notification.push", "photo.delete"}

ASSUME ConstantsAssumption ==
    /\ EventType \in [Events -> Types]
    /\ MaxAttempts \in Nat \ {0}
    /\ AttemptsCheck \in Nat \ {0}
    /\ BatchSize \in Nat \ {0}
    /\ HandlerConcurrency \in Nat \ {0}
    /\ Faults \subseteq {"crash", "lapse", "write"}
    /\ MaxFaults \in Nat
    /\ MaxRequests \in Nat
    /\ Nobody \notin Workers /\ Gone \notin Workers /\ Nobody # Gone

VARIABLES
    row,        \* the table: row[e], with status "absent" when there is none
    poll,       \* poll[w]: the runOnce that worker w awaits, {} when not polling
    run,        \* run[h]: where process(event) is, for handle h
    outcome,    \* history: how runs dispatched since the last request for e ended
    faults,     \* history: faults so far
    requests    \* history: requests so far

vars == <<row, poll, run, outcome, faults, requests>>

-----------------------------------------------------------------------------
(* Rows and runs.                                                          *)

Statuses == {"absent", "pending", "processing", "completed", "dead_letter", "discarded"}

Row == [status: Statuses, attempts: Nat, due: BOOLEAN,
        stale: BOOLEAN, owner: Workers \cup {Nobody, Gone}, aged: BOOLEAN]

Absent == [status |-> "absent", attempts |-> 0, due |-> FALSE,
           stale |-> FALSE, owner |-> Nobody, aged |-> FALSE]

\* A row waiting for a worker: due at once, or after a retry delay.
Pending(attempts, due) ==
    [Absent EXCEPT !.status = "pending", !.attempts = attempts, !.due = due]

\* process(event) of one claimed event, inside one runOnce of one worker.
Handle == [w: Workers, k: Polls, e: Events]

Phases == {"idle", "queued", "renewing", "running", "acking", "failed", "rejected"}

\* held: the row id this run claimed still exists.
\* fresh (history): dispatch began after the last request for the event.
Run == [phase: Phases, held: BOOLEAN, fresh: BOOLEAN]

Idle == [phase |-> "idle", held |-> FALSE, fresh |-> FALSE]

\* chk_outbox_event_lock: exactly the rows being processed have a lease.
LockCheck(r) ==
    /\ r.status = "processing" <=> r.owner # Nobody
    /\ r.stale => r.status = "processing"

\* Every column has its type and every statement respects the lock constraint
\* (a statement that broke it would fail and its caller would lose the write).
TypeOK ==
    /\ row \in [Events -> Row]
    /\ \A e \in Events : LockCheck(row[e])
    /\ poll \in [Workers -> SUBSET Polls]
    /\ run \in [Handle -> Run]
    /\ outcome \in [Events -> SUBSET {"ok", "failed"}]
    /\ faults \in Nat
    /\ requests \in Nat

Init ==
    /\ row = [e \in Events |-> Absent]
    /\ poll = [w \in Workers |-> {}]
    /\ run = [h \in Handle |-> Idle]
    /\ outcome = [e \in Events |-> {}]
    /\ faults = 0
    /\ requests = 0

-----------------------------------------------------------------------------
(* Producers: transactions of the API and of maintenance that ask for work *)

\* A request resets what is known of e: runs dispatched earlier do not answer it.
Requested(e) ==
    /\ requests < MaxRequests
    /\ requests' = requests + 1
    /\ outcome' = [outcome EXCEPT ![e] = {}]
    /\ run' = [h \in Handle |-> IF h.e = e THEN [run[h] EXCEPT !.fresh = FALSE] ELSE run[h]]
    /\ UNCHANGED <<poll, faults>>

\* OutboxRepository.enqueue, enqueueAccountErasure and enqueueNotification:
\* ON CONFLICT DO NOTHING, so only the insertion changes anything.
Enqueue(e) ==
    /\ row[e].status = "absent"
    /\ row' = [row EXCEPT ![e] = Pending(0, TRUE)]
    /\ Requested(e)

\* OutboxRepository.requeue: moderation and the administrator put a photo
\* deletion back in the queue, whatever its status, even under a lease.
Requeue(e) ==
    /\ EventType[e] = "photo.delete"
    /\ row' = [row EXCEPT ![e] = Pending(0, TRUE)]
    /\ Requested(e)

\* scheduleDue and beginCustomerCreation: insert, or reopen a finished row;
\* the watchdog of a customer creation is only due hours later.
Reopen(e) ==
    /\ EventType[e] = "billing.reconcile"
    /\ row[e].status \in {"absent", "completed", "discarded"}
    /\ \E due \in BOOLEAN : row' = [row EXCEPT ![e] = Pending(0, due)]
    /\ Requested(e)

\* Runs that hold the id of a deleted row never match a row again.
RowsDeleted(S) ==
    /\ row' = [e \in Events |-> IF e \in S THEN Absent ELSE row[e]]
    /\ run' = [h \in Handle |-> IF h.e \in S THEN [run[h] EXCEPT !.held = FALSE] ELSE run[h]]

\* saveCustomer drops the watchdog it makes useless unless a worker has it or
\* it is a dead letter; the last step of an erasure deletes it in any status.
CancelBilling(e) ==
    /\ EventType[e] = "billing.reconcile"
    /\ row[e].status # "absent"
    /\ RowsDeleted({e})
    /\ UNCHANGED <<poll, outcome, faults, requests>>

-----------------------------------------------------------------------------
(* The administrator resolves dead letters.                                *)

RetryDeadLetter(e) ==
    /\ row[e].status = "dead_letter"
    /\ row' = [row EXCEPT ![e] = Pending(0, TRUE)]
    /\ Requested(e)

\* Allowed for a push, for a photo whose row is gone, and for nothing else.
DiscardDeadLetter(e, photoStillExists) ==
    /\ row[e].status = "dead_letter"
    /\ \/ EventType[e] = "notification.push"
       \/ EventType[e] = "photo.delete" /\ ~photoStillExists
    /\ row' = [row EXCEPT ![e].status = "discarded"]
    /\ UNCHANGED <<poll, run, outcome, faults, requests>>

-----------------------------------------------------------------------------
(* Time.                                                                   *)

\* available_at passes, or recordCreatedCustomer brings it forward.
BecomesDue(e) ==
    /\ row[e].status = "pending" /\ ~row[e].due
    /\ row' = [row EXCEPT ![e].due = TRUE]
    /\ UNCHANGED <<poll, run, outcome, faults, requests>>

\* The lease of a dead process, or one that its process no longer works on
\* (its runOnce gave up), runs out: nobody renews it.
AbandonedLeaseLapses(e) ==
    /\ row[e].owner # Nobody /\ ~row[e].stale
    /\ \A h \in Handle : h.w = row[e].owner /\ h.e = e => run[h].phase = "idle"
    /\ row' = [row EXCEPT ![e].stale = TRUE]
    /\ UNCHANGED <<poll, run, outcome, faults, requests>>

\* A handler, or the wait behind a slow group, outlasts the lease of a live owner.
LiveLeaseLapses(e) ==
    /\ "lapse" \in Faults /\ faults < MaxFaults
    /\ ~row[e].stale
    /\ \E h \in Handle : h.w = row[e].owner /\ h.e = e /\ run[h].phase # "idle"
    /\ row' = [row EXCEPT ![e].stale = TRUE]
    /\ faults' = faults + 1
    /\ UNCHANGED <<poll, run, outcome, requests>>

RetentionElapses(e) ==
    /\ row[e].status \in {"completed", "discarded"} /\ ~row[e].aged
    /\ row' = [row EXCEPT ![e].aged = TRUE]
    /\ UNCHANGED <<poll, run, outcome, faults, requests>>

-----------------------------------------------------------------------------
(* A worker: poll, runOnce, process.                                       *)

\* Mutant: claimBatch forgets the leases that ran out.
ClaimableNoStale == {e \in Events : row[e].status = "pending" /\ row[e].due}

Claimable == {e \in Events :
    \/ row[e].status = "pending" /\ row[e].due
    \/ row[e].status = "processing" /\ row[e].stale}

\* LIMIT: the whole of the claimable rows, or BatchSize of them.
Batches == {S \in SUBSET Claimable :
    Cardinality(S) = IF Cardinality(Claimable) <= BatchSize
                     THEN Cardinality(Claimable) ELSE BatchSize}

Claimed(r, w) ==
    [status |-> "processing", attempts |-> r.attempts + 1, due |-> r.due,
     stale |-> FALSE, owner |-> w, aged |-> r.aged]

\* outbox_event_attempts_check: the UPDATE of the whole batch fails otherwise.
WithinCheck(S) == \A e \in S : row[e].attempts < AttemptsCheck

\* claimBatch, one UPDATE.  `polling` admits one awaited runOnce per process,
\* but a runOnce that threw may have left handlers behind in another slot.
ClaimBatch(w, k) ==
    /\ poll[w] = {}
    /\ \A h \in Handle : h.w = w /\ h.k = k => run[h].phase = "idle"
    /\ \E S \in Batches :
         /\ WithinCheck(S)
         /\ row' = [e \in Events |-> IF e \in S THEN Claimed(row[e], w) ELSE row[e]]
         /\ run' = [h \in Handle |-> IF h.w = w /\ h.k = k /\ h.e \in S
                                     THEN [Idle EXCEPT !.phase = "queued", !.held = TRUE]
                                     ELSE run[h]]
    /\ poll' = [poll EXCEPT ![w] = {k}]
    /\ UNCHANGED <<outcome, faults, requests>>

RunsOf(w, k, phases) == {h \in Handle : h.w = w /\ h.k = k /\ run[h].phase \in phases}

Active == Phases \ {"idle", "queued"}

\* The next group of at most HandlerConcurrency events, once the last one ended.
StartGroup(w, k) ==
    /\ k \in poll[w]
    /\ RunsOf(w, k, Active) = {}
    /\ LET queued == RunsOf(w, k, {"queued"})
       IN  \E G \in SUBSET queued :
             /\ G # {}
             /\ Cardinality(G) = IF Cardinality(queued) <= HandlerConcurrency
                                 THEN Cardinality(queued) ELSE HandlerConcurrency
             /\ run' = [h \in Handle |-> IF h \in G THEN [run[h] EXCEPT !.phase = "renewing"]
                                         ELSE run[h]]
    /\ UNCHANGED <<row, poll, outcome, faults, requests>>

\* Mutant: the fences forget locked_by.
OwnsAnyLease(h) == run[h].held /\ row[h.e].status = "processing"

\* WHERE id = $1 AND status = 'processing' AND locked_by = $2
Owns(h) == run[h].held /\ row[h.e].status = "processing" /\ row[h.e].owner = h.w

To(h, phase) == run' = [run EXCEPT ![h].phase = phase]

Ends(h) == run' = [run EXCEPT ![h] = Idle]

\* renewClaim, then the dispatch begins; a lost lease ends process() silently.
RenewClaim(h) ==
    /\ run[h].phase = "renewing"
    /\ \/ /\ Owns(h)
          /\ row' = [row EXCEPT ![h.e].stale = FALSE]
          /\ run' = [run EXCEPT ![h].phase = "running", ![h].fresh = TRUE]
       \/ /\ ~Owns(h)
          /\ Ends(h)
          /\ UNCHANGED row
    /\ UNCHANGED <<poll, outcome, faults, requests>>

\* A run dispatched since the last request adds its result to the history.
Ended(h, result) ==
    outcome' = IF run[h].fresh THEN [outcome EXCEPT ![h.e] = @ \cup {result}] ELSE outcome

\* dispatch returns 'completed'.
HandlerCompletes(h) ==
    /\ run[h].phase = "running"
    /\ To(h, "acking")
    /\ Ended(h, "ok")
    /\ UNCHANGED <<row, poll, faults, requests>>

\* dispatch throws; only the Stripe reconciliation has permanent errors.
HandlerThrows(h) ==
    /\ run[h].phase = "running"
    /\ \/ To(h, "failed")
       \/ EventType[h.e] = "billing.reconcile" /\ To(h, "rejected")
    /\ Ended(h, "failed")
    /\ UNCHANGED <<row, poll, faults, requests>>

GiveBack(attempts) == IF attempts > 0 THEN attempts - 1 ELSE 0

\* ErasureService.process returns false: a checkpoint (advance,
\* deleteSwipeBatch) resets the budget, a busy account gives the attempt back
\* (defer), and without the lease neither writes anything.
HandlerDefers(h) ==
    /\ run[h].phase = "running"
    /\ EventType[h.e] = "account.erase"
    /\ \/ /\ Owns(h)
          /\ \E left \in {0, GiveBack(row[h.e].attempts)} :
               row' = [row EXCEPT ![h.e] = Pending(left, FALSE)]
       \/ ~Owns(h) /\ UNCHANGED row
    /\ Ends(h)
    /\ UNCHANGED <<poll, outcome, faults, requests>>

\* The checkpoint of a swipe batch is committed, then assertHeld finds the
\* activity lock lost and throws.
CheckpointThenThrow(h) ==
    /\ run[h].phase = "running"
    /\ EventType[h.e] = "account.erase"
    /\ Owns(h)
    /\ row' = [row EXCEPT ![h.e] = Pending(0, FALSE)]
    /\ To(h, "failed")
    /\ Ended(h, "failed")
    /\ UNCHANGED <<poll, faults, requests>>

Acknowledged(r) == [Absent EXCEPT !.status = "completed", !.attempts = r.attempts]

Complete(h) ==
    /\ run[h].phase = "acking"
    /\ row' = IF Owns(h)
              THEN [row EXCEPT ![h.e] = Acknowledged(row[h.e])]
              ELSE row
    /\ Ends(h)
    /\ UNCHANGED <<poll, outcome, faults, requests>>

\* renewClaim or complete throws: the catch block reschedules.  The statement
\* may have been committed although its answer was lost.
StatementThrows(h) ==
    /\ run[h].phase \in {"renewing", "acking"}
    /\ \/ UNCHANGED row
       \/ /\ run[h].phase = "renewing" /\ Owns(h)
          /\ row' = [row EXCEPT ![h.e].stale = FALSE]
       \/ /\ run[h].phase = "acking" /\ Owns(h)
          /\ row' = [row EXCEPT ![h.e] = Acknowledged(row[h.e])]
    /\ run' = [run EXCEPT ![h].phase = "failed", ![h].fresh = @ \/ Owns(h)]
    /\ outcome' = IF run'[h].fresh THEN [outcome EXCEPT ![h.e] = @ \cup {"failed"}] ELSE outcome
    /\ UNCHANGED <<poll, faults, requests>>

\* Mutant: the budget is compared with > instead of >=.
RescheduledLate(r, budget) ==
    IF r.attempts > budget
    THEN [Absent EXCEPT !.status = "dead_letter", !.attempts = r.attempts]
    ELSE Pending(r.attempts, FALSE)

\* reschedule: attempts >= maxAttempts dead-letters; a permanent failure has 1.
Rescheduled(r, budget) ==
    IF r.attempts >= budget
    THEN [Absent EXCEPT !.status = "dead_letter", !.attempts = r.attempts]
    ELSE Pending(r.attempts, FALSE)

\* Mutant: the catch block only logs.
RescheduleForgotten(h) ==
    /\ run[h].phase \in {"failed", "rejected"}
    /\ Ends(h)
    /\ UNCHANGED <<row, poll, outcome, faults, requests>>

\* WHERE id = $1 AND status = 'processing' AND locked_by = $2
RescheduleRow(h) ==
    row' = IF Owns(h)
           THEN [row EXCEPT ![h.e] =
                  Rescheduled(row[h.e], IF run[h].phase = "rejected" THEN 1 ELSE MaxAttempts)]
           ELSE row

Reschedule(h) ==
    /\ run[h].phase \in {"failed", "rejected"}
    /\ RescheduleRow(h)
    /\ Ends(h)
    /\ UNCHANGED <<poll, outcome, faults, requests>>

\* reschedule itself throws: Promise.all rejects, runOnce and poll give up the
\* groups not yet started and clear `polling`, but handlers of the same group
\* that have not settled keep running.  The statement may have been committed.
RescheduleThrows(h) ==
    /\ "write" \in Faults /\ faults < MaxFaults
    /\ run[h].phase \in {"failed", "rejected"}
    /\ run' = [g \in Handle |->
                 IF g = h \/ (g.w = h.w /\ g.k = h.k /\ run[g].phase = "queued")
                 THEN Idle ELSE run[g]]
    /\ poll' = [poll EXCEPT ![h.w] = @ \ {h.k}]
    /\ faults' = faults + 1
    /\ UNCHANGED row \/ RescheduleRow(h)
    /\ UNCHANGED <<outcome, requests>>

\* The end of runOnce; hourly it purges resolved rows past the retention.
FinishPoll(w, k) ==
    /\ k \in poll[w]
    /\ RunsOf(w, k, Phases \ {"idle"}) = {}
    /\ poll' = [poll EXCEPT ![w] = {}]
    /\ \/ UNCHANGED <<row, run>>
       \/ \E S \in SUBSET {e \in Events : row[e].aged} : S # {} /\ RowsDeleted(S)
    /\ UNCHANGED <<outcome, faults, requests>>

\* The process dies with everything it was doing; its successor has a new
\* random workerId, so no live process owns the leases it leaves behind.
Crash(w) ==
    /\ "crash" \in Faults /\ faults < MaxFaults
    /\ poll[w] # {} \/ \E h \in Handle : h.w = w /\ run[h].phase # "idle"
    /\ row' = [e \in Events |-> IF row[e].owner = w THEN [row[e] EXCEPT !.owner = Gone] ELSE row[e]]
    /\ poll' = [poll EXCEPT ![w] = {}]
    /\ run' = [h \in Handle |-> IF h.w = w THEN Idle ELSE run[h]]
    /\ faults' = faults + 1
    /\ UNCHANGED <<outcome, requests>>

-----------------------------------------------------------------------------

Producer(e) == Enqueue(e) \/ Requeue(e) \/ Reopen(e) \/ CancelBilling(e)

Administrator(e) ==
    RetryDeadLetter(e) \/ \E exists \in BOOLEAN : DiscardDeadLetter(e, exists)

Time(e) == BecomesDue(e) \/ AbandonedLeaseLapses(e) \/ LiveLeaseLapses(e) \/ RetentionElapses(e)

Poller(w) == \E k \in Polls : ClaimBatch(w, k) \/ StartGroup(w, k) \/ FinishPoll(w, k)

Process(h) ==
    \/ RenewClaim(h) \/ HandlerCompletes(h) \/ HandlerThrows(h)
    \/ HandlerDefers(h) \/ CheckpointThenThrow(h)
    \/ Complete(h) \/ StatementThrows(h) \/ Reschedule(h) \/ RescheduleThrows(h)

Next ==
    \/ \E e \in Events : Producer(e) \/ Administrator(e) \/ Time(e)
    \/ \E w \in Workers : Poller(w) \/ Crash(w)
    \/ \E h \in Handle : Process(h)

Spec == Init /\ [][Next]_vars

\* The interval timer polls again and again, every statement answers or
\* throws, handlers have bounded network delays, and clocks advance.  Nothing
\* obliges a producer, an administrator, a purge or a fault.
Fairness ==
    /\ \A e \in Events : WF_vars(BecomesDue(e)) /\ WF_vars(AbandonedLeaseLapses(e))
    /\ \A w \in Workers : WF_vars(Poller(w))
    /\ \A h \in Handle : WF_vars(Process(h))

FairSpec == Spec /\ Fairness

-----------------------------------------------------------------------------
(* Properties.                                                             *)

\* A row is completed only by a handler that was dispatched after the last
\* request for it and succeeded: requeue() and the operator's retry are never
\* acknowledged by a run that had started before them, whatever leases lapse
\* and whichever workers die (the status and locked_by fences of complete()).
NoLostRequest == \A e \in Events : row[e].status = "completed" => "ok" \in outcome[e]

\* An event becomes a dead letter only through a failure that follows the last
\* request: a run that outlived a requeue cannot spend the new budget.
DeadLetterEarned ==
    \A e \in Events : row[e].status \in {"dead_letter", "discarded"} => "failed" \in outcome[e]

\* Outside of erasures (whose deferrals give attempts back) no event waits in
\* the queue with its budget spent: reschedule() dead-letters it instead.
PendingHasBudget ==
    \A e \in Events : row[e].status = "pending" /\ EventType[e] # "account.erase"
                      => row[e].attempts < MaxAttempts

\* A lease belongs to a live process only while that process still has a run
\* for the event that will renew, answer or reschedule it: no lease is leaked
\* by a path of process() that forgets the row.
NoLeakedLease ==
    \A e \in Events : row[e].owner \in Workers =>
        \E h \in Handle : h.w = row[e].owner /\ h.e = e /\ run[h].phase # "idle"

\* Every requested event other than an erasure is eventually acknowledged,
\* dead-lettered or withdrawn, in spite of a bounded number of crashes and
\* overlong handlers.
EventuallySettled ==
    \A e \in Events : EventType[e] # "account.erase" =>
        (row[e].status \in {"pending", "processing"}
            ~> row[e].status \notin {"pending", "processing"})

=============================================================================
