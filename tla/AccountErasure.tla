--------------------------- MODULE AccountErasure ---------------------------
(***************************************************************************)
(* The erasure of one account: the data subject requests that ask for it   *)
(* (PrivacyRepository, UsersRepository), the workflow row account_erasure  *)
(* with its step, the account.erase event of the outbox, the runs of       *)
(* ErasureService.process, and the activity locks that keep the runs and   *)
(* the operations of the owner apart (AccountActivityService).             *)
(*                                                                         *)
(* One statement or transaction is one step.  An item is something the     *)
(* account owns: a Stripe customer, a photo (both a row and an object      *)
(* outside the database) or a swipe (a row only).  What the dates of the   *)
(* outbox decide is a flag: an event is always due, and stale says that    *)
(* its lease has lapsed.                                                   *)
(***************************************************************************)
EXTENDS Integers, FiniteSets

CONSTANTS
    Requests,       \* ids of data_subject_request
    Type,           \* Type[r]: "erasure" or another type
    Runs,           \* runs of the account.erase handler
    Process,        \* Process[w]: the worker process, whose id is locked_by
    Items,          \* items whose creation is attempted
    BatchSize,      \* customers, photos or swipes removed by one run
    MaxAttempts,    \* MAX_ATTEMPTS of the outbox
    Faults,         \* which of "crash", "lapse", "lock", "provider" may happen
    MaxFaults,      \* bound on how many faults happen
    None            \* NULL

ASSUME ErasureAssumption ==
    /\ Type \in [Requests -> {"erasure", "access"}]
    /\ BatchSize \in Nat \ {0} /\ MaxAttempts \in Nat \ {0} /\ MaxFaults \in Nat
    /\ None \notin Requests \cup Runs
    /\ Runs \cap Items = {}      \* the sessions that hold the activity lock

VARIABLES
    account,    \* "live", "deleted" (deleted_at) or "anonymized"
    request,    \* request[r]: status of the data subject request
    erasure,    \* the row account_erasure: its request and its step
    event,      \* the account.erase event
    token,      \* the deletion token of the account
    item,       \* item[i]: its kind, and how far the operation that makes it is
    rows,       \* items that have a row
    objects,    \* items that exist at Stripe or in the object store
    run,        \* run[w]: where a run is, and the step it read
    locks,      \* who holds the activity lock: runs (exclusive), items (shared)
    audits,     \* history: rows system_anonymize of data_access_log
    faults      \* history: faults so far

vars == <<account, request, erasure, event, token, item, rows, objects,
          run, locks, audits, faults>>

Steps == <<"stripe", "photos", "swipes", "postgres", "completed">>
Rank(step) == CHOOSE n \in 1..5 : Steps[n] = step
Kinds == {"stripe", "photos", "swipes"}
Open == {"pending", "in_progress"}

NoErasure == [request |-> None, step |-> "stripe"]
NoEvent == [status |-> "none", attempts |-> 0, by |-> None, stale |-> FALSE]
Idle == [at |-> "idle", step |-> "stripe", next |-> "stripe"]

TypeOK ==
    /\ account \in {"live", "deleted", "anonymized"}
    /\ request \in [Requests -> {"none", "pending", "in_progress", "completed", "rejected", "purged"}]
    /\ erasure \in [request: Requests \cup {None}, step: {Steps[n] : n \in 1..5}]
    /\ event \in [status: {"none", "pending", "processing", "completed", "dead_letter"},
                  attempts: Nat, by: {Process[w] : w \in Runs} \cup {None}, stale: BOOLEAN]
    /\ token \in {"none", "valid", "expired"}
    /\ item \in [Items -> [at: {"new", "entered", "inserted", "over"}, kind: Kinds]]
    /\ rows \in SUBSET Items /\ objects \in SUBSET Items
    /\ run \in [Runs -> [at: {"idle", "claimed", "locking", "reading", "removing", "advancing", "acking"},
                         step: {Steps[n] : n \in 1..5}, next: {Steps[n] : n \in 1..5}]]
    /\ locks \in SUBSET (Runs \cup Items)
    /\ audits \in 0..2 /\ faults \in 0..MaxFaults
    \* idx_dsr_one_open_per_type
    /\ \A r, s \in Requests : request[r] \in Open /\ request[s] \in Open /\ Type[r] = Type[s] => r = s

Init ==
    /\ account = "live" /\ token = "none"
    /\ request = [r \in Requests |-> "none"]
    /\ erasure = NoErasure /\ event = NoEvent
    /\ item = [i \in Items |-> [at |-> "new", kind |-> "stripe"]]
    /\ rows = {} /\ objects = {} /\ locks = {}
    /\ run = [w \in Runs |-> Idle]
    /\ audits = 0 /\ faults = 0

Fault(kind) == kind \in Faults /\ faults < MaxFaults /\ faults' = faults + 1

-----------------------------------------------------------------------------
(* Asking for the erasure.                                                 *)

\* Mutant: the open requests are not looked up.
CreateSecondRequest(r) ==
    /\ account = "live" /\ request[r] = "none"
    /\ request' = [request EXCEPT ![r] = "pending"]
    /\ UNCHANGED <<account, token, audits, erasure, event, item, rows, objects, run, locks, faults>>

\* createRequest; the trigger on data_subject_request wants a live account.
CreateRequest(r) ==
    /\ account = "live" /\ request[r] = "none"
    /\ \A s \in Requests : Type[s] = Type[r] => request[s] \notin Open
    /\ request' = [request EXCEPT ![r] = "pending"]
    /\ UNCHANGED <<account, token, audits, erasure, event, item, rows, objects, run, locks, faults>>

\* replaceDeletionToken.
IssueToken ==
    /\ account = "live" /\ token' = "valid"
    /\ UNCHANGED <<account, request, audits, erasure, event, item, rows, objects, run, locks, faults>>

TokenExpires ==
    /\ token = "valid" /\ token' = "expired"
    /\ UNCHANGED <<account, request, audits, erasure, event, item, rows, objects, run, locks, faults>>

\* enqueueAccountErasure for request r, which the caller has moved to status;
\* another request that holds the workflow makes the transaction throw.
Enqueue(r, status) ==
    /\ erasure.request \in {None, r}
    /\ request' = [request EXCEPT ![r] = status]
    /\ token' = "none"
    /\ IF erasure.request = r THEN UNCHANGED <<account, erasure, event>>
       ELSE /\ erasure' = [request |-> r, step |-> "stripe"]
            /\ event' = [NoEvent EXCEPT !.status = "pending"]
            /\ account' = IF account = "live" THEN "deleted" ELSE account
    /\ UNCHANGED <<audits, item, rows, objects, run, locks, faults>>

\* acceptErasure: the token is consumed; the open request is taken over, or a
\* new one is inserted.
AcceptErasure(r) ==
    /\ account = "live" /\ token = "valid" /\ Type[r] = "erasure"
    /\ \/ request[r] \in Open
       \/ request[r] = "none" /\ \A s \in Requests : Type[s] = "erasure" => request[s] \notin Open
    /\ Enqueue(r, "in_progress")

\* Mutant: the workflow of the request is not looked up.
UpdateStartedRequest(r, status) ==
    /\ request[r] \in Open
    /\ status \in (IF request[r] = "pending" THEN {"in_progress", "rejected"} ELSE {"completed", "rejected"})
    /\ IF Type[r] = "erasure" /\ status = "completed"
       THEN Enqueue(r, "in_progress")
       ELSE /\ request' = [request EXCEPT ![r] = status]
            /\ UNCHANGED <<account, token, audits, erasure, event, item, rows, objects, run, locks, faults>>

\* updateRequest of an administrator.  An erasure is scheduled, not completed,
\* and a request whose workflow has begun cannot be moved.
UpdateRequest(r, status) ==
    /\ erasure.request # r
    /\ request[r] \in Open
    /\ status \in (IF request[r] = "pending" THEN {"in_progress", "rejected"} ELSE {"completed", "rejected"})
    /\ IF Type[r] = "erasure" /\ status = "completed"
       THEN Enqueue(r, "in_progress")
       ELSE /\ request' = [request EXCEPT ![r] = status]
            /\ UNCHANGED <<account, token, audits, erasure, event, item, rows, objects, run, locks, faults>>

\* The retention of closed requests, five years later: the workflow row goes
\* with its request, the event has long been purged.
PurgeRequest(r) ==
    /\ request[r] \in {"completed", "rejected"}
    /\ erasure.request = r => event.status = "completed"
    /\ request' = [request EXCEPT ![r] = "purged"]
    /\ erasure' = IF erasure.request = r THEN NoErasure ELSE erasure
    /\ event' = IF erasure.request = r THEN NoEvent ELSE event
    /\ UNCHANGED <<account, token, audits, item, rows, objects, run, locks, faults>>

-----------------------------------------------------------------------------
(* The owner's operations: a shared lock, a live account, then a row and,  *)
(* for a customer or a photo, an object outside the database.              *)

Exclusive == locks \cap Runs

\* runShared.
Enter(i, kind) ==
    /\ item[i].at = "new" /\ account = "live" /\ Exclusive = {}
    /\ item' = [item EXCEPT ![i] = [at |-> "entered", kind |-> kind]]
    /\ locks' = locks \cup {i}
    /\ UNCHANGED <<account, request, token, audits, erasure, event, rows, objects, run, faults>>

\* The row, which a trigger refuses to an account that is no longer live.
Insert(i) ==
    /\ item[i].at = "entered"
    /\ rows' = IF account = "live" THEN rows \cup {i} ELSE rows
    /\ IF account = "live" /\ item[i].kind # "swipes"
       THEN item' = [item EXCEPT ![i].at = "inserted"] /\ UNCHANGED locks
       ELSE item' = [item EXCEPT ![i].at = "over"] /\ locks' = locks \ {i}
    /\ UNCHANGED <<account, request, token, audits, erasure, event, objects, run, faults>>

\* The call to Stripe or to the object store, with or without success.
Create(i) ==
    /\ item[i].at = "inserted"
    /\ objects' \in {objects, objects \cup {i}}
    /\ item' = [item EXCEPT ![i].at = "over"]
    /\ locks' = locks \ {i}
    /\ UNCHANGED <<account, request, token, audits, erasure, event, rows, run, faults>>

-----------------------------------------------------------------------------
(* The outbox, as the runs see it.                                         *)

Claim(w) ==
    /\ run[w].at = "idle"
    /\ event.status = "pending" \/ (event.status = "processing" /\ event.stale)
    /\ event' = [status |-> "processing", attempts |-> event.attempts + 1, by |-> Process[w], stale |-> FALSE]
    /\ run' = [run EXCEPT ![w] = [Idle EXCEPT !.at = "claimed"]]
    /\ UNCHANGED <<account, request, token, audits, erasure, item, rows, objects, locks, faults>>

Owns(w) == event.status = "processing" /\ event.by = Process[w]

Running(p) == \E w \in Runs : Process[w] = p /\ run[w].at # "idle"

\* The lease lapses, under a live run or after a crash.
LeaseLapses ==
    /\ event.status = "processing" /\ ~event.stale
    /\ IF Running(event.by) THEN Fault("lapse") ELSE UNCHANGED faults
    /\ event' = [event EXCEPT !.stale = TRUE]
    /\ UNCHANGED <<account, request, token, audits, erasure, item, rows, objects, run, locks>>

\* reschedule: a dead letter once the attempts are used up.
Rescheduled(w) ==
    IF ~Owns(w) THEN event
    ELSE [NoEvent EXCEPT !.status = IF event.attempts >= MaxAttempts THEN "dead_letter" ELSE "pending",
                         !.attempts = event.attempts]

\* retryDeadLetter of an administrator.
Retry ==
    /\ event.status = "dead_letter"
    /\ event' = [NoEvent EXCEPT !.status = "pending"]
    /\ UNCHANGED <<account, request, token, audits, erasure, item, rows, objects, run, locks, faults>>

Leave(w) == run' = [run EXCEPT ![w] = Idle] /\ locks' = locks \ {w}

-----------------------------------------------------------------------------
(* ErasureService.process.                                                 *)

\* claimed(), before the lock.
FirstRead(w) ==
    /\ run[w].at = "claimed"
    /\ IF Owns(w) /\ erasure.request # None
       THEN run' = [run EXCEPT ![w].at = IF erasure.step = "completed" THEN "acking" ELSE "locking"]
            /\ UNCHANGED event
       ELSE run' = [run EXCEPT ![w] = Idle] /\ event' = Rescheduled(w)
    /\ UNCHANGED <<account, request, token, audits, erasure, item, rows, objects, locks, faults>>

\* Mutant: the lock is shared with the owner's operations.
TryExclusiveShared(w) ==
    /\ run[w].at = "locking"
    /\ run' = [run EXCEPT ![w].at = "reading"] /\ locks' = locks \cup {w}
    /\ UNCHANGED <<account, request, token, audits, erasure, event, item, rows, objects, faults>>

\* tryExclusive, or defer, which gives the attempt back.
TryExclusive(w) ==
    /\ run[w].at = "locking"
    /\ IF locks = {}
       THEN run' = [run EXCEPT ![w].at = "reading"] /\ locks' = locks \cup {w} /\ UNCHANGED event
       ELSE /\ run' = [run EXCEPT ![w] = Idle] /\ UNCHANGED locks
            /\ event' = IF Owns(w) THEN [NoEvent EXCEPT !.status = "pending", !.attempts = event.attempts - 1]
                                   ELSE event
    /\ UNCHANGED <<account, request, token, audits, erasure, item, rows, objects, faults>>

\* claimed() again, under the lock.
SecondRead(w) ==
    /\ run[w].at = "reading"
    /\ IF ~Owns(w) THEN Leave(w)
       ELSE IF erasure.step = "completed"
       THEN run' = [run EXCEPT ![w].at = "acking"] /\ locks' = locks \ {w}
       ELSE /\ run' = [run EXCEPT ![w] = [at |-> IF erasure.step = "postgres" THEN "advancing" ELSE "removing",
                                          step |-> erasure.step,
                                          next |-> IF erasure.step = "postgres" THEN "completed" ELSE erasure.step]]
            /\ UNCHANGED locks
    /\ UNCHANGED <<account, request, token, audits, erasure, event, item, rows, objects, faults>>

RowsOf(kind) == {i \in rows : item[i].kind = kind}

\* The whole batch, or the BatchSize first rows.
Batch(kind) == {B \in SUBSET RowsOf(kind) :
    IF Cardinality(RowsOf(kind)) <= BatchSize THEN B = RowsOf(kind) ELSE Cardinality(B) = BatchSize}

After(step) == Steps[Rank(step) + 1]

\* Mutant: a full batch counts as the last one.
FollowingAlways(step, B) == After(step)

\* The batch was full: the same step once more.
Following(step, B) == IF Cardinality(B) < BatchSize THEN After(step) ELSE step

\* deleteCustomerForAccount or deleteForAccount; assertHeld comes after it.
RemoveOutside(w) ==
    /\ run[w].at = "removing" /\ run[w].step \in {"stripe", "photos"}
    /\ \E B \in Batch(run[w].step) :
         /\ rows' = rows \ B /\ objects' = objects \ B
         /\ run' = [run EXCEPT ![w].at = "advancing", ![w].next = Following(run[w].step, B)]
    /\ UNCHANGED <<account, request, token, audits, erasure, event, item, locks, faults>>

Checkpointed == [NoEvent EXCEPT !.status = "pending"]

\* deleteSwipeBatch: rows, step and event in one transaction.
DeleteSwipeBatch(w) ==
    /\ run[w].at = "removing" /\ run[w].step = "swipes"
    /\ IF Owns(w) /\ erasure.step = "swipes"
       THEN \E B \in Batch("swipes") :
              /\ rows' = rows \ B
              /\ erasure' = [erasure EXCEPT !.step = Following("swipes", B)]
              /\ event' = Checkpointed
       ELSE UNCHANGED <<rows, erasure, event>>
    /\ Leave(w)
    /\ UNCHANGED <<account, request, token, audits, item, objects, faults>>

\* advance() locks the event and the workflow row and compares both.
Fenced(w) == Owns(w) /\ erasure.step = run[w].step

\* What the final transaction checks; otherwise it throws.
Erasable == request[erasure.request] = "in_progress" /\ \A i \in rows : item[i].kind = "stripe"

\* Mutant: the step the run has read is trusted, and the request not looked at.
AdvanceTrusting(w) ==
    /\ run[w].at = "advancing" /\ Owns(w)
    /\ erasure' = [erasure EXCEPT !.step = run[w].next]
    /\ IF run[w].next # "completed"
       THEN event' = Checkpointed /\ Leave(w) /\ UNCHANGED <<account, request, rows, audits>>
       ELSE /\ account' = "anonymized" /\ audits' = audits + 1 /\ rows' = {}
            /\ request' = [request EXCEPT ![erasure.request] = "completed"]
            /\ run' = [run EXCEPT ![w].at = "acking"] /\ locks' = locks \ {w}
            /\ UNCHANGED event
    /\ UNCHANGED <<token, item, objects, faults>>

\* advance: the next step and the event back to pending, or the anonymisation.
Advance(w) ==
    /\ run[w].at = "advancing"
    /\ IF ~Fenced(w)
       THEN Leave(w) /\ UNCHANGED <<account, request, erasure, event, rows, audits>>
       ELSE IF run[w].next # "completed"
       THEN /\ erasure' = [erasure EXCEPT !.step = run[w].next]
            /\ event' = Checkpointed
            /\ Leave(w) /\ UNCHANGED <<account, request, rows, audits>>
       ELSE IF Erasable
       THEN /\ account' = "anonymized" /\ audits' = audits + 1
            /\ rows' = {}                     \* fct_cleanup_billing_identity
            /\ request' = [request EXCEPT ![erasure.request] = "completed"]
            /\ erasure' = [erasure EXCEPT !.step = "completed"]
            /\ run' = [run EXCEPT ![w].at = "acking"] /\ locks' = locks \ {w}
            /\ UNCHANGED event
       ELSE /\ event' = Rescheduled(w)
            /\ Leave(w) /\ UNCHANGED <<account, request, erasure, rows, audits>>
    /\ UNCHANGED <<token, item, objects, faults>>

\* Stripe, the object store or the database fails, after part of the batch;
\* or assertHeld has noticed that the lock is gone.
RunFails(w) ==
    /\ run[w].at \in {"removing", "advancing"}
    /\ \/ Fault("provider")
       \/ w \notin locks /\ UNCHANGED faults
    /\ IF run[w].at = "removing" /\ run[w].step # "swipes"
       THEN \E B \in SUBSET RowsOf(run[w].step) : rows' = rows \ B /\ objects' = objects \ B
       ELSE UNCHANGED <<rows, objects>>
    /\ event' = Rescheduled(w)
    /\ Leave(w)
    /\ UNCHANGED <<account, request, token, audits, erasure, item>>

\* Mutant: a run that was deferred acknowledges its event.
DeferredAcknowledges(w) ==
    /\ run[w].at \in {"acking", "locking"}
    /\ event' = IF Owns(w) THEN [NoEvent EXCEPT !.status = "completed", !.attempts = event.attempts] ELSE event
    /\ run' = [run EXCEPT ![w] = Idle]
    /\ UNCHANGED <<account, request, token, audits, erasure, item, rows, objects, locks, faults>>

\* process() returned true: the worker acknowledges the event.
Complete(w) ==
    /\ run[w].at = "acking"
    /\ event' = IF Owns(w) THEN [NoEvent EXCEPT !.status = "completed", !.attempts = event.attempts] ELSE event
    /\ run' = [run EXCEPT ![w] = Idle]
    /\ UNCHANGED <<account, request, token, audits, erasure, item, rows, objects, locks, faults>>

\* The process of a run dies with all of its runs.
Crash(p) ==
    /\ Running(p) /\ Fault("crash")
    /\ run' = [w \in Runs |-> IF Process[w] = p THEN Idle ELSE run[w]]
    /\ locks' = {l \in locks : l \in Runs => Process[l] # p}
    /\ UNCHANGED <<account, request, token, audits, erasure, event, item, rows, objects>>

\* The connection that holds the exclusive lock is lost while the run goes on.
LockLost(w) ==
    /\ w \in locks /\ Fault("lock")
    /\ locks' = locks \ {w}
    /\ UNCHANGED <<account, request, token, audits, erasure, event, item, rows, objects, run>>

-----------------------------------------------------------------------------
Subject(r) == \/ CreateRequest(r) \/ AcceptErasure(r) \/ PurgeRequest(r)
              \/ \E status \in {"in_progress", "completed", "rejected"} : UpdateRequest(r, status)

Operation(i) == Insert(i) \/ Create(i)

Step(w) == \/ Claim(w) \/ FirstRead(w) \/ TryExclusive(w) \/ SecondRead(w) \/ RemoveOutside(w)
           \/ DeleteSwipeBatch(w) \/ Advance(w) \/ Complete(w)

Next ==
    \/ IssueToken \/ TokenExpires \/ LeaseLapses \/ Retry
    \/ \E r \in Requests : Subject(r)
    \/ \E i \in Items : Operation(i) \/ \E kind \in Kinds : Enter(i, kind)
    \/ \E w \in Runs : Step(w) \/ RunFails(w) \/ LockLost(w)
    \/ \E p \in {Process[w] : w \in Runs} : Crash(p)

Spec == Init /\ [][Next]_vars

-----------------------------------------------------------------------------
(* Properties.                                                             *)

\* An erasure that says completed is complete: nothing of the account is left
\* in the database, at Stripe or in the object store, its request is closed.
CompletedMeansErased ==
    erasure.step = "completed" =>
      /\ account = "anonymized" /\ request[erasure.request] \in {"completed", "purged"}
      /\ rows = {} /\ objects = {}

\* A repeated or concurrent run, or a lost acknowledgement, does not
\* anonymise the account and log it twice.
AnonymizedOnce == audits = (IF account = "anonymized" THEN 1 ELSE 0)

\* A frozen account is never forgotten: until its erasure is complete there is
\* an event that a worker or an administrator will take up.
NotForgotten ==
    account = "deleted" => erasure.request # None /\ event.status \in {"pending", "processing", "dead_letter"}

\* An erasure that has begun belongs to its request until the end: nobody can
\* reject it, restart it or move it back.
ForwardOnly ==
    [][erasure.request # None /\ erasure'.request # None =>
         /\ erasure'.request = erasure.request
         /\ Rank(erasure'.step) \in Rank(erasure.step)..(Rank(erasure.step) + 1)
         /\ request'[erasure.request] \in {"in_progress", "completed"}]_vars

\* An accepted erasure is completed, or becomes a dead letter that waits for an
\* administrator: no crash, lost lock or busy account strands it.
AcceptedIsErased ==
    account = "deleted" ~> account = "anonymized" \/ event.status = "dead_letter"

\* The workflow implements the contract: an item is pending while the
\* operation that makes it is under way, and owned while a trace of it exists.
Contract == INSTANCE ErasureContract WITH
    phase <- [live |-> "active", deleted |-> "frozen", anonymized |-> "erased"][account],
    owned <- {i \in Items : item[i].at = "over" /\ i \in rows \cup objects},
    pending <- {i \in Items : item[i].at \in {"entered", "inserted"}}

ImplementsContract == Contract!Spec

\* Two runs of process(), crashes and lost locks leave the tables consistent: an
\* erasure is complete when it says so, done once, and never without its event.
ErasureConsistent == TypeOK /\ CompletedMeansErased /\ AnonymizedOnce /\ NotForgotten

\* An accepted erasure only goes forward, and reaches its end.
ErasureProgress == ForwardOnly /\ AcceptedIsErased

=============================================================================
