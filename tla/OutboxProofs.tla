---------------------------- MODULE OutboxProofs ----------------------------
(***************************************************************************)
(* Proofs about Outbox for any number of events, workers, attempts and     *)
(* faults, and about NotificationPush, the other queue with leases, for    *)
(* any number of users, devices, notifications, attempts and faults.       *)
(***************************************************************************)
EXTENDS Outbox, Services, TLAPS

\* A handle names a worker, a runOnce and an event.
LEMMA HandleFields == \A h \in Handle : h.w \in Workers /\ h.k \in Polls /\ h.e \in Events
BY DEF Handle

-----------------------------------------------------------------------------
(* What the statements make of a row and of a run.                         *)

\* Rows that satisfy chk_outbox_event_lock.
GoodRow == {r \in Row : LockCheck(r)}

\* The rows that INSERT, requeue and dead-lettering write are well formed.
LEMMA FreshRows ==
    /\ Absent \in GoodRow
    /\ \A n \in Nat, b \in BOOLEAN : Pending(n, b) \in GoodRow
    /\ \A n \in Nat : [Absent EXCEPT !.status = "dead_letter", !.attempts = n] \in GoodRow
BY ConstantsAssumption DEF GoodRow, Row, Statuses, LockCheck, Absent, Pending

\* Claiming, time, discarding and a crash keep a row well formed.
LEMMA ChangedRows ==
    ASSUME NEW r \in GoodRow
    PROVE  /\ r.attempts \in Nat
           /\ \A w \in Workers : Claimed(r, w) \in GoodRow
           /\ r.owner # Nobody => [r EXCEPT !.stale = TRUE] \in GoodRow
           /\ [r EXCEPT !.stale = FALSE] \in GoodRow
           /\ [r EXCEPT !.due = TRUE] \in GoodRow
           /\ [r EXCEPT !.aged = TRUE] \in GoodRow
           /\ r.status = "dead_letter" => [r EXCEPT !.status = "discarded"] \in GoodRow
           /\ r.owner \in Workers => [r EXCEPT !.owner = Gone] \in GoodRow
<1> USE ConstantsAssumption DEF GoodRow, Row, Statuses, LockCheck
<1>1. r.attempts \in Nat
  OBVIOUS
<1>2. ASSUME NEW w \in Workers PROVE Claimed(r, w) \in GoodRow
  BY DEF Claimed
<1>3. ASSUME r.owner # Nobody PROVE [r EXCEPT !.stale = TRUE] \in GoodRow
  BY <1>3
<1>4. [r EXCEPT !.stale = FALSE] \in GoodRow
  OBVIOUS
<1>5. [r EXCEPT !.due = TRUE] \in GoodRow
  OBVIOUS
<1>6. [r EXCEPT !.aged = TRUE] \in GoodRow
  OBVIOUS
<1>7. ASSUME r.status = "dead_letter" PROVE [r EXCEPT !.status = "discarded"] \in GoodRow
  BY <1>7
<1>8. ASSUME r.owner \in Workers PROVE [r EXCEPT !.owner = Gone] \in GoodRow
  BY <1>8
<1>9. QED BY <1>1, <1>2, <1>3, <1>4, <1>5, <1>6, <1>7, <1>8

\* What reschedule() and complete() write is well formed.
LEMMA AnsweredRow ==
    ASSUME NEW r \in GoodRow, NEW budget \in Nat
    PROVE  Rescheduled(r, budget) \in GoodRow /\ Acknowledged(r) \in GoodRow
<1>1. r.attempts \in Nat
  BY ChangedRows
<1>2. Rescheduled(r, budget) \in GoodRow
  BY <1>1, FreshRows DEF Rescheduled
<1>3. Acknowledged(r) \in GoodRow
  BY <1>1, ConstantsAssumption DEF GoodRow, Row, Statuses, LockCheck, Absent, Acknowledged
<1>4. QED BY <1>2, <1>3

\* defer() never makes the attempts negative.
LEMMA GiveBackNat == \A n \in Nat : GiveBack(n) \in Nat
BY DEF GiveBack

\* The updates that the steps of process() make to a run.
LEMMA Runs ==
    /\ Idle \in Run
    /\ [Idle EXCEPT !.phase = "queued", !.held = TRUE] \in Run
    /\ \A r \in Run, b \in BOOLEAN :
         [r EXCEPT !.fresh = b] \in Run /\ [r EXCEPT !.held = b] \in Run
    /\ \A r \in Run, p \in Phases : [r EXCEPT !.phase = p] \in Run
    /\ \A r \in Run, p \in Phases, b \in BOOLEAN : [r EXCEPT !.phase = p, !.fresh = b] \in Run
    /\ \A r \in Run : r.fresh \in BOOLEAN /\ r.phase \in Phases
BY DEF Run, Idle, Phases

-----------------------------------------------------------------------------
(* Type correctness.                                                       *)

\* TypeOK with the rows and the lock constraint in one set.
Typed ==
    /\ row \in [Events -> GoodRow]
    /\ poll \in [Workers -> SUBSET Polls]
    /\ run \in [Handle -> Run]
    /\ outcome \in [Events -> SUBSET {"ok", "failed"}]
    /\ faults \in Nat
    /\ requests \in Nat

\* Typed restates TypeOK.
LEMMA TypedIsTypeOK == Typed <=> TypeOK
BY DEF Typed, TypeOK, GoodRow

\* A request keeps the types of what it resets.
LEMMA RequestedTyped ==
    ASSUME Typed, NEW e \in Events, Requested(e), row' \in [Events -> GoodRow]
    PROVE  Typed'
<1>1. run' \in [Handle -> Run]
  BY Runs DEF Requested, Typed
<1>2. outcome' \in [Events -> SUBSET {"ok", "failed"}]
  BY DEF Requested, Typed
<1>3. poll' \in [Workers -> SUBSET Polls] /\ faults' \in Nat /\ requests' \in Nat
  BY DEF Requested, Typed
<1>4. QED BY <1>1, <1>2, <1>3 DEF Typed

\* Deleting rows keeps rows and runs well formed.
LEMMA RowsDeletedTyped ==
    ASSUME Typed, NEW S \in SUBSET Events, RowsDeleted(S)
    PROVE  row' \in [Events -> GoodRow] /\ run' \in [Handle -> Run]
BY FreshRows, Runs DEF RowsDeleted, Typed

\* Init and every step keep rows, leases and runs well formed.
LEMMA TypedInit == Init => Typed
<1> SUFFICES ASSUME Init PROVE Typed
  OBVIOUS
<1>1. row \in [Events -> GoodRow]
  BY FreshRows DEF Init
<1>2. run \in [Handle -> Run]
  BY Runs DEF Init
<1>3. QED BY <1>1, <1>2 DEF Init, Typed

\* Every action keeps rows, leases and runs well formed.
LEMMA TypedNext ==
    ASSUME Typed, [Next]_vars
    PROVE  Typed'
<1>1. CASE UNCHANGED vars
  BY <1>1 DEF vars, Typed
<1>2. ASSUME NEW e \in Events, Enqueue(e) \/ Requeue(e) \/ Reopen(e) \/ RetryDeadLetter(e)
      PROVE  Typed'
  <2>1. row' \in [Events -> GoodRow]
    <3>1. PICK b \in BOOLEAN : row' = [row EXCEPT ![e] = Pending(0, b)]
      BY <1>2 DEF Enqueue, Requeue, Reopen, RetryDeadLetter
    <3>2. QED BY <3>1, FreshRows DEF Typed
  <2>2. QED BY <1>2, <2>1, RequestedTyped DEF Enqueue, Requeue, Reopen, RetryDeadLetter
<1>3. ASSUME NEW e \in Events, CancelBilling(e) PROVE Typed'
  BY <1>3, RowsDeletedTyped DEF CancelBilling, Typed
<1>4. ASSUME NEW e \in Events, NEW x \in BOOLEAN, DiscardDeadLetter(e, x) PROVE Typed'
  BY <1>4, ChangedRows DEF DiscardDeadLetter, Typed
<1>5. ASSUME NEW e \in Events, Time(e) PROVE Typed'
  <2>1. CASE BecomesDue(e)
    BY <2>1, ChangedRows DEF BecomesDue, Typed
  <2>2. CASE RetentionElapses(e)
    BY <2>2, ChangedRows DEF RetentionElapses, Typed
  <2>3. CASE AbandonedLeaseLapses(e)
    BY <2>3, ChangedRows DEF AbandonedLeaseLapses, Typed
  <2>4. CASE LiveLeaseLapses(e)
    <3>1. row[e].owner # Nobody
      BY <2>4, HandleFields, ConstantsAssumption DEF LiveLeaseLapses
    <3>2. row' \in [Events -> GoodRow]
      BY <2>4, <3>1, ChangedRows DEF LiveLeaseLapses, Typed
    <3>3. QED BY <2>4, <3>2 DEF LiveLeaseLapses, Typed
  <2>5. QED BY <1>5, <2>1, <2>2, <2>3, <2>4 DEF Time
<1>6. ASSUME NEW w \in Workers, NEW k \in Polls, ClaimBatch(w, k) PROVE Typed'
  <2>1. PICK S \in Batches :
          /\ row' = [e \in Events |-> IF e \in S THEN Claimed(row[e], w) ELSE row[e]]
          /\ run' = [h \in Handle |-> IF h.w = w /\ h.k = k /\ h.e \in S
                                      THEN [Idle EXCEPT !.phase = "queued", !.held = TRUE]
                                      ELSE run[h]]
    BY <1>6 DEF ClaimBatch
  <2>2. row' \in [Events -> GoodRow]
    BY <2>1, ChangedRows DEF Typed
  <2>3. run' \in [Handle -> Run]
    BY <2>1, Runs DEF Typed
  <2>4. QED BY <1>6, <2>2, <2>3 DEF ClaimBatch, Typed
<1>7. ASSUME NEW w \in Workers, NEW k \in Polls, StartGroup(w, k) PROVE Typed'
  <2>1. PICK G : run' = [h \in Handle |-> IF h \in G THEN [run[h] EXCEPT !.phase = "renewing"]
                                          ELSE run[h]]
    BY <1>7 DEF StartGroup
  <2>2. run' \in [Handle -> Run]
    BY <2>1, Runs DEF Typed, Phases
  <2>3. QED BY <1>7, <2>2 DEF StartGroup, Typed
<1>8. ASSUME NEW w \in Workers, NEW k \in Polls, FinishPoll(w, k) PROVE Typed'
  <2>1. row' \in [Events -> GoodRow] /\ run' \in [Handle -> Run]
    <3>1. CASE UNCHANGED <<row, run>>
      BY <3>1 DEF Typed
    <3>2. CASE \E S \in SUBSET {e \in Events : row[e].aged} : S # {} /\ RowsDeleted(S)
      BY <3>2, RowsDeletedTyped
    <3>3. QED BY <1>8, <3>1, <3>2 DEF FinishPoll
  <2>2. QED BY <1>8, <2>1 DEF FinishPoll, Typed
<1>9. ASSUME NEW w \in Workers, Crash(w) PROVE Typed'
  <2>1. row' \in [Events -> GoodRow]
    BY <1>9, ChangedRows DEF Crash, Typed
  <2>2. run' \in [Handle -> Run]
    BY <1>9, Runs DEF Crash, Typed
  <2>3. QED BY <1>9, <2>1, <2>2 DEF Crash, Typed
<1>10. ASSUME NEW h \in Handle, Process(h) PROVE Typed'
  <2> USE DEF Typed
  <2>0. h.e \in Events /\ h.w \in Workers /\ row[h.e] \in GoodRow /\ run[h] \in Run
    BY HandleFields
  <2>1. CASE RenewClaim(h)
    <3>1. row' \in [Events -> GoodRow]
      BY <2>0, <2>1, ChangedRows DEF RenewClaim
    <3>2. run' \in [Handle -> Run]
      BY <2>0, <2>1, Runs DEF RenewClaim, Ends, Phases
    <3>3. QED BY <2>1, <3>1, <3>2 DEF RenewClaim
  <2>2. CASE HandlerCompletes(h) \/ HandlerThrows(h)
    <3>1. run' \in [Handle -> Run]
      <4>1. PICK p \in Phases : run' = [run EXCEPT ![h].phase = p]
        BY <2>2 DEF HandlerCompletes, HandlerThrows, To, Phases
      <4>2. QED BY <2>0, <4>1, Runs
    <3>2. outcome' \in [Events -> SUBSET {"ok", "failed"}]
      BY <2>0, <2>2 DEF HandlerCompletes, HandlerThrows, Ended
    <3>3. QED BY <2>2, <3>1, <3>2 DEF HandlerCompletes, HandlerThrows
  <2>3. CASE HandlerDefers(h)
    <3>1. row' \in [Events -> GoodRow]
      <4>1. row[h.e].attempts \in Nat
        BY <2>0, ChangedRows
      <4>2. CASE UNCHANGED row
        BY <4>2
      <4>3. CASE \E left \in {0, GiveBack(row[h.e].attempts)} :
                   row' = [row EXCEPT ![h.e] = Pending(left, FALSE)]
        <5>1. PICK left \in Nat : row' = [row EXCEPT ![h.e] = Pending(left, FALSE)]
          BY <4>1, <4>3, GiveBackNat
        <5>2. QED BY <2>0, <5>1, FreshRows
      <4>4. QED BY <2>3, <4>2, <4>3 DEF HandlerDefers
    <3>2. QED BY <2>0, <2>3, <3>1, Runs DEF HandlerDefers, Ends
  <2>4. CASE CheckpointThenThrow(h)
    <3>1. row' \in [Events -> GoodRow]
      BY <2>0, <2>4, FreshRows DEF CheckpointThenThrow
    <3>2. run' \in [Handle -> Run]
      BY <2>0, <2>4, Runs DEF CheckpointThenThrow, To, Phases
    <3>3. QED BY <2>0, <2>4, <3>1, <3>2 DEF CheckpointThenThrow, Ended
  <2>5. CASE Complete(h)
    <3>1. row' \in [Events -> GoodRow]
      BY <2>0, <2>5, AnsweredRow DEF Complete
    <3>2. QED BY <2>0, <2>5, <3>1, Runs DEF Complete, Ends
  <2>6. CASE StatementThrows(h)
    <3>1. row' \in [Events -> GoodRow]
      <4>2. CASE UNCHANGED row
        BY <4>2
      <4>3. CASE row' = [row EXCEPT ![h.e] = Acknowledged(row[h.e])]
        BY <2>0, <4>3, AnsweredRow
      <4>4. CASE row' = [row EXCEPT ![h.e].stale = FALSE]
        BY <2>0, <4>4, ChangedRows
      <4>5. QED BY <2>6, <4>2, <4>3, <4>4 DEF StatementThrows
    <3>2. run' \in [Handle -> Run]
      BY <2>0, <2>6, Runs DEF StatementThrows, Phases, Owns
    <3>3. QED BY <2>0, <2>6, <3>1, <3>2 DEF StatementThrows
  <2>7. CASE Reschedule(h)
    <3>1. row' \in [Events -> GoodRow]
      BY <2>0, <2>7, AnsweredRow, ConstantsAssumption DEF Reschedule, RescheduleRow
    <3>2. QED BY <2>0, <2>7, <3>1, Runs DEF Reschedule, Ends
  <2>8. CASE RescheduleThrows(h)
    <3>1. run' \in [Handle -> Run]
      BY <2>8, Runs DEF RescheduleThrows
    <3>2. poll' \in [Workers -> SUBSET Polls]
      BY <2>0, <2>8 DEF RescheduleThrows
    <3>3. row' \in [Events -> GoodRow]
      <4>1. CASE row' = row
        BY <4>1
      <4>2. CASE RescheduleRow(h)
        BY <2>0, <4>2, AnsweredRow, ConstantsAssumption DEF RescheduleRow
      <4>3. QED BY <2>8, <4>1, <4>2 DEF RescheduleThrows
    <3>4. QED BY <2>8, <3>1, <3>2, <3>3 DEF RescheduleThrows
  <2>9. QED BY <1>10, <2>1, <2>2, <2>3, <2>4, <2>5, <2>6, <2>7, <2>8 DEF Process
<1>11. QED
  BY <1>1, <1>2, <1>3, <1>4, <1>5, <1>6, <1>7, <1>8, <1>9, <1>10
  DEF Next, Producer, Administrator, Poller

\* Every statement of the outbox leaves rows, leases and runs well formed.
THEOREM TypeCorrect == Spec => []TypeOK
BY TypedInit, TypedNext, TypedIsTypeOK, PTL DEF Spec

-----------------------------------------------------------------------------
(* No request is lost, as long as reschedule() itself does not fail.       *)
(*                                                                         *)
(* NoLostRequest is not inductive: what makes a completion trustworthy is  *)
(* that the run which acknowledges owns the lease, that a run owning its   *)
(* lease was dispatched after the last request (Fence), and that such a    *)
(* run has recorded its result (Answered).  Fence in turn needs that a     *)
(* process starts a new runOnce only when every run of the last one is     *)
(* over (OneRunOnce), since locked_by names the process, not the run.      *)

\* Every run belongs to the runOnce that its process awaits, and there is one.
OneRunOnce ==
    /\ \A h \in Handle : run[h].phase # "idle" => h.k \in poll[h.w]
    /\ \A w \in Workers : \A k1, k2 \in poll[w] : k1 = k2

\* A run that passes the status and locked_by fences has seen the last request.
Fence ==
    \A h \in Handle :
        run[h].phase \in {"running", "acking", "failed", "rejected"} /\ Owns(h) => run[h].fresh

\* What such a run is about to write is in the history.
Answered ==
    \A h \in Handle : run[h].fresh =>
        /\ run[h].phase = "acking" => "ok" \in outcome[h.e]
        /\ run[h].phase \in {"failed", "rejected"} => "failed" \in outcome[h.e]

\* The inductive invariant for processes whose reschedule never throws.
IInv == Typed /\ OneRunOnce /\ Fence /\ Answered /\ NoLostRequest /\ DeadLetterEarned

\* The statuses and owners that the statements write.
LEMMA RowFacts ==
    /\ Absent.status = "absent"
    /\ \A n, b : Pending(n, b).status = "pending"
    /\ \A r : Acknowledged(r).status = "completed"
    /\ \A r, b : Rescheduled(r, b).status \in {"pending", "dead_letter"}
    /\ \A r, w : Claimed(r, w).status = "processing"
    /\ Idle.phase = "idle" /\ ~Idle.fresh
BY DEF Absent, Pending, Acknowledged, Rescheduled, Claimed, Idle

\* A request withdraws the freshness of every earlier run and leaves the row pending.
LEMMA RequestKeeps ==
    ASSUME IInv, NEW e \in Events, NEW b \in BOOLEAN,
           row' = [row EXCEPT ![e] = Pending(0, b)], Requested(e)
    PROVE  OneRunOnce' /\ Fence' /\ Answered' /\ NoLostRequest' /\ DeadLetterEarned'
<1> USE DEF IInv, Typed, Requested
<1>1. \A h \in Handle : /\ run'[h].phase = run[h].phase
                        /\ run'[h].held = run[h].held
                        /\ run'[h].fresh => run'[h] = run[h] /\ h.e # e
                        /\ h.e # e => run'[h] = run[h]
  BY DEF Run
<1>2. row'[e].status = "pending" /\ \A x \in Events : x # e => row'[x] = row[x] /\ outcome'[x] = outcome[x]
  BY RowFacts
<1>3. OneRunOnce'
  BY <1>1 DEF OneRunOnce
<1>4. Fence'
  BY <1>1, <1>2, HandleFields DEF Fence, Owns
<1>5. Answered'
  BY <1>1, <1>2, HandleFields DEF Answered
<1>6. NoLostRequest' /\ DeadLetterEarned'
  BY <1>2 DEF NoLostRequest, DeadLetterEarned
<1>7. QED BY <1>3, <1>4, <1>5, <1>6

\* Deleted rows belong to nobody, and no run holds their id.
LEMMA DeleteKeeps ==
    ASSUME IInv, NEW S \in SUBSET Events, RowsDeleted(S), UNCHANGED outcome
    PROVE  /\ \A h \in Handle : run'[h].phase = run[h].phase
           /\ Fence' /\ Answered' /\ NoLostRequest' /\ DeadLetterEarned'
<1> USE DEF IInv, Typed, RowsDeleted
<1>1. \A h \in Handle : /\ run'[h].phase = run[h].phase
                        /\ run'[h].fresh = run[h].fresh
                        /\ h.e \notin S => run'[h] = run[h]
  BY DEF Run
<1>2. \A x \in Events : IF x \in S THEN row'[x].status = "absent" ELSE row'[x] = row[x]
  BY RowFacts
<1>3. Fence'
  BY <1>1, <1>2, HandleFields DEF Fence, Owns
<1>4. Answered'
  BY <1>1 DEF Answered
<1>5. NoLostRequest' /\ DeadLetterEarned'
  BY <1>2 DEF NoLostRequest, DeadLetterEarned
<1>6. QED BY <1>1, <1>3, <1>4, <1>5

\* The passage of time, and a renewed lease, change neither status nor owner.
LEMMA TimeKeeps ==
    ASSUME IInv, UNCHANGED <<poll, run, outcome>>,
           \A x \in Events : /\ row'[x].owner = row[x].owner
                             /\ \/ row'[x].status = row[x].status
                                \/ row[x].status = "dead_letter" /\ row'[x].status = "discarded"
    PROVE  OneRunOnce' /\ Fence' /\ Answered' /\ NoLostRequest' /\ DeadLetterEarned'
<1>1. Fence'
  BY HandleFields DEF IInv, Fence, Owns
<1>2. QED BY <1>1 DEF IInv, OneRunOnce, Answered, NoLostRequest, DeadLetterEarned

\* A worker claims only when all its runs are over, so that no run dispatched
\* earlier owns the new lease.
LEMMA ClaimKeeps ==
    ASSUME IInv, NEW w \in Workers, NEW k \in Polls, ClaimBatch(w, k)
    PROVE  OneRunOnce' /\ Fence' /\ Answered' /\ NoLostRequest' /\ DeadLetterEarned'
<1> USE DEF IInv, Typed
<1>1. PICK S \in Batches :
        /\ row' = [e \in Events |-> IF e \in S THEN Claimed(row[e], w) ELSE row[e]]
        /\ run' = [h \in Handle |-> IF h.w = w /\ h.k = k /\ h.e \in S
                                    THEN [Idle EXCEPT !.phase = "queued", !.held = TRUE]
                                    ELSE run[h]]
  BY DEF ClaimBatch
<1>2. \A h \in Handle : h.w = w => run[h].phase = "idle"
  BY DEF ClaimBatch, OneRunOnce
<1>3. \A h \in Handle : \/ run'[h] = run[h]
                        \/ h.w = w /\ h.k = k /\ run'[h].phase = "queued" /\ ~run'[h].fresh
  BY <1>1 DEF Idle
<1>4. \A x \in Events : \/ row'[x] = row[x]
                        \/ row'[x].status = "processing" /\ row'[x].owner = w
  BY <1>1 DEF Claimed
<1>5. OneRunOnce'
  <2>1. poll' = [poll EXCEPT ![w] = {k}]
    BY DEF ClaimBatch
  <2>2. ASSUME NEW h \in Handle, run'[h].phase # "idle" PROVE h.k \in poll'[h.w]
    BY <1>2, <1>3, <2>1, <2>2, HandleFields DEF OneRunOnce
  <2>3. QED BY <2>1, <2>2 DEF OneRunOnce
<1>6. Fence'
  BY <1>2, <1>3, <1>4, HandleFields DEF Fence, Owns
<1>7. Answered'
  BY <1>3 DEF Answered, ClaimBatch
<1>8. NoLostRequest' /\ DeadLetterEarned'
  BY <1>4 DEF NoLostRequest, DeadLetterEarned, ClaimBatch
<1>9. QED BY <1>5, <1>6, <1>7, <1>8

\* Starting a group dispatches nothing yet.
LEMMA StartKeeps ==
    ASSUME IInv, NEW w \in Workers, NEW k \in Polls, StartGroup(w, k)
    PROVE  OneRunOnce' /\ Fence' /\ Answered' /\ NoLostRequest' /\ DeadLetterEarned'
<1> USE DEF IInv, Typed
<1>1. PICK G \in SUBSET RunsOf(w, k, {"queued"}) :
         run' = [h \in Handle |-> IF h \in G THEN [run[h] EXCEPT !.phase = "renewing"] ELSE run[h]]
  BY DEF StartGroup
<1>2. \A h \in Handle : \/ run'[h] = run[h]
                        \/ run[h].phase = "queued" /\ run'[h].phase = "renewing"
  BY <1>1 DEF RunsOf, Run
<1>3. UNCHANGED <<row, poll, outcome>>
  BY DEF StartGroup
<1>4. Fence'
  BY <1>2, <1>3 DEF Fence, Owns
<1>5. QED BY <1>2, <1>3, <1>4 DEF OneRunOnce, Answered, NoLostRequest, DeadLetterEarned

\* A finished runOnce has no run left, so the process may claim again.
LEMMA FinishKeeps ==
    ASSUME IInv, NEW w \in Workers, NEW k \in Polls, FinishPoll(w, k)
    PROVE  OneRunOnce' /\ Fence' /\ Answered' /\ NoLostRequest' /\ DeadLetterEarned'
<1> USE DEF IInv, Typed
<1>1. /\ \A h \in Handle : run'[h].phase = run[h].phase
      /\ Fence' /\ Answered' /\ NoLostRequest' /\ DeadLetterEarned'
  <2>1. CASE UNCHANGED <<row, run>>
    BY <2>1 DEF FinishPoll, Fence, Owns, Answered, NoLostRequest, DeadLetterEarned
  <2>2. CASE \E S \in SUBSET {e \in Events : row[e].aged} : S # {} /\ RowsDeleted(S)
    BY <2>2, DeleteKeeps DEF FinishPoll
  <2>3. QED BY <2>1, <2>2 DEF FinishPoll
<1>2. \A h \in Handle : h.w = w => run[h].phase = "idle"
  <2>1. \A h \in Handle : h.w = w /\ h.k = k => run[h].phase \notin Phases \ {"idle"}
    BY DEF FinishPoll, RunsOf
  <2>2. \A h \in Handle : run[h].phase \in Phases
    BY Runs
  <2>3. QED BY <2>1, <2>2 DEF OneRunOnce, FinishPoll
<1>3. poll' = [poll EXCEPT ![w] = {}]
  BY DEF FinishPoll
<1>4. OneRunOnce'
  BY <1>1, <1>2, <1>3, HandleFields DEF OneRunOnce
<1>5. QED BY <1>1, <1>4

\* A crash ends every run of the process and orphans its leases.
LEMMA CrashKeeps ==
    ASSUME IInv, NEW w \in Workers, Crash(w)
    PROVE  OneRunOnce' /\ Fence' /\ Answered' /\ NoLostRequest' /\ DeadLetterEarned'
<1> USE DEF IInv, Typed
<1>1. \A h \in Handle : IF h.w = w THEN run'[h].phase = "idle" /\ ~run'[h].fresh
                                   ELSE run'[h] = run[h]
  BY RowFacts DEF Crash
<1>2. \A x \in Events : row'[x].status = row[x].status
                       /\ (row'[x].owner = row[x].owner \/ row'[x].owner = Gone)
  BY DEF Crash, GoodRow, Row
<1>3. OneRunOnce'
  BY <1>1, HandleFields DEF OneRunOnce, Crash
<1>4. Fence'
  BY <1>1, <1>2, HandleFields, ConstantsAssumption DEF Fence, Owns
<1>5. QED BY <1>1, <1>2, <1>3, <1>4 DEF Answered, NoLostRequest, DeadLetterEarned, Crash

\* What a step of process() for handle h has to establish: it touches no other
\* run and no other row, takes no lease, and forgets no result.
ProcessStep(h) ==
    /\ poll' = poll
    /\ run[h].phase # "idle"
    /\ \A g \in Handle : g # h => run'[g] = run[g]
    /\ \A x \in Events : x # h.e => row'[x] = row[x]
    /\ row'[h.e].status = "processing" =>
         row[h.e].status = "processing" /\ row'[h.e].owner = row[h.e].owner
    /\ \A x \in Events : outcome[x] \subseteq outcome'[x]

\* The invariant for the run and the row that the step is about.
OwnPart(h) ==
    /\ run'[h].phase \in {"running", "acking", "failed", "rejected"} /\ Owns(h)' => run'[h].fresh
    /\ run'[h].fresh /\ run'[h].phase = "acking" => "ok" \in outcome'[h.e]
    /\ run'[h].fresh /\ run'[h].phase \in {"failed", "rejected"} => "failed" \in outcome'[h.e]
    /\ row'[h.e].status = "completed" => "ok" \in outcome'[h.e]
    /\ row'[h.e].status \in {"dead_letter", "discarded"} => "failed" \in outcome'[h.e]

\* A step of process() that keeps its own part keeps the whole invariant.
LEMMA ProcessKeeps ==
    ASSUME IInv, NEW h \in Handle, ProcessStep(h), OwnPart(h)
    PROVE  OneRunOnce' /\ Fence' /\ Answered' /\ NoLostRequest' /\ DeadLetterEarned'
<1> USE HandleFields DEF IInv, ProcessStep, OwnPart
<1>1. OneRunOnce'
  BY DEF OneRunOnce
<1>2. Fence'
  <2> SUFFICES ASSUME NEW g \in Handle,
                      run'[g].phase \in {"running", "acking", "failed", "rejected"}, Owns(g)'
               PROVE  run'[g].fresh
    BY DEF Fence
  <2>1. CASE g = h
    BY <2>1
  <2>2. CASE g # h
    <3>1. Owns(g)
      BY <2>2 DEF Owns
    <3>2. QED BY <2>2, <3>1 DEF Fence
  <2>3. QED BY <2>1, <2>2
<1>3. Answered'
  <2> SUFFICES ASSUME NEW g \in Handle, run'[g].fresh
               PROVE  /\ run'[g].phase = "acking" => "ok" \in outcome'[g.e]
                      /\ run'[g].phase \in {"failed", "rejected"} => "failed" \in outcome'[g.e]
    BY DEF Answered
  <2>1. CASE g = h
    BY <2>1
  <2>2. CASE g # h
    BY <2>2 DEF Answered
  <2>3. QED BY <2>1, <2>2
<1>4. NoLostRequest' /\ DeadLetterEarned'
  BY DEF NoLostRequest, DeadLetterEarned
<1>5. QED BY <1>1, <1>2, <1>3, <1>4

\* Each step of process() keeps the invariant: completing and rescheduling are
\* fenced by the lease, and a fenced run is fresh.
LEMMA HandlerKeeps ==
    ASSUME IInv, NEW h \in Handle, Process(h), "write" \notin Faults
    PROVE  ProcessStep(h) /\ OwnPart(h)
<1> USE DEF IInv, Typed
<1>0. /\ h.e \in Events /\ h.w \in Workers /\ run[h] \in Run
      /\ run[h].phase \in {"running", "acking", "failed", "rejected"} /\ Owns(h) => run[h].fresh
      /\ run[h].fresh /\ run[h].phase = "acking" => "ok" \in outcome[h.e]
      /\ run[h].fresh /\ run[h].phase \in {"failed", "rejected"} => "failed" \in outcome[h.e]
      /\ row[h.e].status = "completed" => "ok" \in outcome[h.e]
      /\ row[h.e].status \in {"dead_letter", "discarded"} => "failed" \in outcome[h.e]
  BY HandleFields DEF Fence, Answered, NoLostRequest, DeadLetterEarned
<1>1. CASE RenewClaim(h)
  <2>1. CASE Owns(h)
    <3>1. /\ run'[h].phase = "running" /\ run'[h].fresh
          /\ \A g \in Handle : g # h => run'[g] = run[g]
      BY <1>0, <1>1, <2>1 DEF RenewClaim, Run
    <3>2. /\ row'[h.e].status = row[h.e].status /\ row'[h.e].owner = row[h.e].owner
          /\ \A x \in Events : x # h.e => row'[x] = row[x]
      BY <1>0, <1>1, <2>1 DEF RenewClaim, GoodRow, Row
    <3>3. run[h].phase # "idle" /\ poll' = poll /\ outcome' = outcome
      BY <1>1 DEF RenewClaim
    <3>4. QED BY <1>0, <3>1, <3>2, <3>3 DEF ProcessStep, OwnPart
  <2>2. CASE ~Owns(h)
    BY <1>0, <1>1, <2>2, RowFacts DEF RenewClaim, Ends, ProcessStep, OwnPart
  <2>3. QED BY <2>1, <2>2
<1>2. CASE HandlerCompletes(h)
  <2>1. /\ run'[h].phase = "acking" /\ run'[h].fresh = run[h].fresh /\ run'[h].held = run[h].held
        /\ \A g \in Handle : g # h => run'[g] = run[g]
    BY <1>0, <1>2 DEF HandlerCompletes, To, Run
  <2>2. /\ \A x \in Events : outcome[x] \subseteq outcome'[x]
        /\ run[h].fresh => "ok" \in outcome'[h.e]
    BY <1>0, <1>2 DEF HandlerCompletes, Ended
  <2>3. row' = row /\ poll' = poll /\ run[h].phase = "running"
    BY <1>2 DEF HandlerCompletes
  <2>4. QED BY <1>0, <2>1, <2>2, <2>3 DEF ProcessStep, OwnPart, Owns
<1>3. CASE HandlerThrows(h)
  <2>1. /\ run'[h].phase \in {"failed", "rejected"}
        /\ run'[h].fresh = run[h].fresh /\ run'[h].held = run[h].held
        /\ \A g \in Handle : g # h => run'[g] = run[g]
    BY <1>0, <1>3 DEF HandlerThrows, To, Run
  <2>2. /\ \A x \in Events : outcome[x] \subseteq outcome'[x]
        /\ run[h].fresh => "failed" \in outcome'[h.e]
    BY <1>0, <1>3 DEF HandlerThrows, Ended
  <2>3. row' = row /\ poll' = poll /\ run[h].phase = "running"
    BY <1>3 DEF HandlerThrows
  <2>4. QED BY <1>0, <2>1, <2>2, <2>3 DEF ProcessStep, OwnPart, Owns
<1>4. CASE HandlerDefers(h)
  <2>1. /\ run'[h].phase = "idle" /\ ~run'[h].fresh
        /\ \A g \in Handle : g # h => run'[g] = run[g]
    BY <1>0, <1>4, RowFacts DEF HandlerDefers, Ends
  <2>2. /\ row'[h.e] = row[h.e] \/ row'[h.e].status = "pending"
        /\ \A x \in Events : x # h.e => row'[x] = row[x]
    <3>1. CASE UNCHANGED row
      BY <3>1
    <3>2. CASE \E left \in {0, GiveBack(row[h.e].attempts)} :
                 row' = [row EXCEPT ![h.e] = Pending(left, FALSE)]
      <4>1. PICK left : row' = [row EXCEPT ![h.e] = Pending(left, FALSE)]
        BY <3>2
      <4>2. Pending(left, FALSE).status = "pending"
        BY RowFacts
      <4>3. QED BY <1>0, <4>1, <4>2
    <3>3. QED BY <1>4, <3>1, <3>2 DEF HandlerDefers
  <2>3. poll' = poll /\ outcome' = outcome /\ run[h].phase = "running"
    BY <1>4 DEF HandlerDefers
  <2>4. QED BY <1>0, <2>1, <2>2, <2>3 DEF ProcessStep, OwnPart
<1>5. CASE CheckpointThenThrow(h)
  <2>1. /\ run'[h].phase = "failed" /\ run'[h].fresh = run[h].fresh
        /\ \A g \in Handle : g # h => run'[g] = run[g]
    BY <1>0, <1>5 DEF CheckpointThenThrow, To, Run
  <2>2. /\ row'[h.e].status = "pending"
        /\ \A x \in Events : x # h.e => row'[x] = row[x]
    BY <1>0, <1>5, RowFacts DEF CheckpointThenThrow
  <2>3. /\ \A x \in Events : outcome[x] \subseteq outcome'[x]
        /\ run[h].fresh => "failed" \in outcome'[h.e]
    BY <1>0, <1>5 DEF CheckpointThenThrow, Ended
  <2>4. poll' = poll /\ run[h].phase = "running"
    BY <1>5 DEF CheckpointThenThrow
  <2>5. QED BY <1>0, <2>1, <2>2, <2>3, <2>4 DEF ProcessStep, OwnPart, Owns
<1>6. CASE Complete(h)
  <2>1. /\ run'[h].phase = "idle" /\ ~run'[h].fresh
        /\ \A g \in Handle : g # h => run'[g] = run[g]
    BY <1>0, <1>6, RowFacts DEF Complete, Ends
  <2>2. /\ row'[h.e] = row[h.e] \/ (Owns(h) /\ row'[h.e].status = "completed")
        /\ \A x \in Events : x # h.e => row'[x] = row[x]
    BY <1>0, <1>6, RowFacts DEF Complete
  <2>3. poll' = poll /\ outcome' = outcome /\ run[h].phase = "acking"
    BY <1>6 DEF Complete
  <2>4. QED BY <1>0, <2>1, <2>2, <2>3 DEF ProcessStep, OwnPart
<1>7. CASE StatementThrows(h)
  <2>1. /\ run'[h].phase = "failed"
        /\ run'[h].fresh = (run[h].fresh \/ Owns(h)) /\ run'[h].held = run[h].held
        /\ \A g \in Handle : g # h => run'[g] = run[g]
    <3>1. run' = [run EXCEPT ![h].phase = "failed", ![h].fresh = run[h].fresh \/ Owns(h)]
      BY <1>7 DEF StatementThrows
    <3>2. (run[h].fresh \/ Owns(h)) \in BOOLEAN
      OBVIOUS
    <3> HIDE DEF Owns
    <3>3. QED BY <1>0, <3>1, <3>2 DEF Run
  <2>2. /\ \/ row'[h.e].status = row[h.e].status /\ row'[h.e].owner = row[h.e].owner
           \/ Owns(h) /\ run[h].phase = "acking" /\ row'[h.e].status = "completed"
        /\ \A x \in Events : x # h.e => row'[x] = row[x]
    <3>1. CASE row' = row
      BY <3>1
    <3>2. CASE row' = [row EXCEPT ![h.e].stale = FALSE]
      BY <1>0, <3>2 DEF GoodRow, Row
    <3>3. CASE /\ Owns(h) /\ run[h].phase = "acking"
               /\ row' = [row EXCEPT ![h.e] = Acknowledged(row[h.e])]
      BY <1>0, <3>3, RowFacts
    <3>4. QED BY <1>7, <3>1, <3>2, <3>3 DEF StatementThrows
  <2>3. /\ \A x \in Events : outcome[x] \subseteq outcome'[x]
        /\ run'[h].fresh => "failed" \in outcome'[h.e]
    BY <1>0, <1>7 DEF StatementThrows
  <2>4. poll' = poll /\ run[h].phase \in {"renewing", "acking"}
    BY <1>7 DEF StatementThrows
  <2>5. QED BY <1>0, <2>1, <2>2, <2>3, <2>4 DEF ProcessStep, OwnPart, Owns
<1>8. CASE Reschedule(h)
  <2>1. /\ run'[h].phase = "idle" /\ ~run'[h].fresh
        /\ \A g \in Handle : g # h => run'[g] = run[g]
    BY <1>0, <1>8, RowFacts DEF Reschedule, Ends
  <2>2. /\ \/ row'[h.e] = row[h.e]
           \/ Owns(h) /\ row'[h.e].status \in {"pending", "dead_letter"}
        /\ \A x \in Events : x # h.e => row'[x] = row[x]
    BY <1>0, <1>8, RowFacts DEF Reschedule, RescheduleRow
  <2>3. poll' = poll /\ outcome' = outcome /\ run[h].phase \in {"failed", "rejected"}
    BY <1>8 DEF Reschedule
  <2>4. QED BY <1>0, <2>1, <2>2, <2>3 DEF ProcessStep, OwnPart
<1>9. QED BY <1>1, <1>2, <1>3, <1>4, <1>5, <1>6, <1>7, <1>8 DEF Process, RescheduleThrows

\* Every step keeps the invariant when reschedule() never throws.
LEMMA IInvNext ==
    ASSUME IInv, [Next]_vars, "write" \notin Faults
    PROVE  IInv'
<1>0. Typed'
  BY TypedNext DEF IInv
<1> DEFINE Rest == OneRunOnce /\ Fence /\ Answered /\ NoLostRequest /\ DeadLetterEarned
<1>1. CASE UNCHANGED vars
  BY <1>0, <1>1 DEF vars, IInv, OneRunOnce, Fence, Answered, Owns, NoLostRequest, DeadLetterEarned
<1>2. ASSUME NEW e \in Events, Enqueue(e) \/ Requeue(e) \/ Reopen(e) \/ RetryDeadLetter(e)
      PROVE  Rest'
  <2>1. PICK b \in BOOLEAN : row' = [row EXCEPT ![e] = Pending(0, b)]
    BY <1>2 DEF Enqueue, Requeue, Reopen, RetryDeadLetter
  <2>2. QED BY <1>2, <2>1, RequestKeeps DEF Enqueue, Requeue, Reopen, RetryDeadLetter
<1>3. ASSUME NEW e \in Events, CancelBilling(e) PROVE Rest'
  <2>1. UNCHANGED <<poll, outcome>> /\ RowsDeleted({e})
    BY <1>3 DEF CancelBilling
  <2>2. QED BY <2>1, DeleteKeeps DEF OneRunOnce, IInv
<1>4. ASSUME NEW e \in Events, NEW x \in BOOLEAN, DiscardDeadLetter(e, x) PROVE Rest'
  BY <1>4, TimeKeeps DEF DiscardDeadLetter, IInv, Typed, GoodRow, Row
<1>5. ASSUME NEW e \in Events, Time(e) PROVE Rest'
  <2>1. \A x \in Events : row'[x].owner = row[x].owner /\ row'[x].status = row[x].status
    BY <1>5 DEF Time, BecomesDue, AbandonedLeaseLapses, LiveLeaseLapses, RetentionElapses,
                IInv, Typed, GoodRow, Row
  <2>2. UNCHANGED <<poll, run, outcome>>
    BY <1>5 DEF Time, BecomesDue, AbandonedLeaseLapses, LiveLeaseLapses, RetentionElapses
  <2>3. QED BY <2>1, <2>2, TimeKeeps
<1>6. ASSUME NEW w \in Workers, Poller(w) \/ Crash(w) PROVE Rest'
  BY <1>6, ClaimKeeps, StartKeeps, FinishKeeps, CrashKeeps DEF Poller
<1>7. ASSUME NEW h \in Handle, Process(h) PROVE Rest'
  BY <1>7, HandlerKeeps, ProcessKeeps
<1>8. QED
  BY <1>0, <1>1, <1>2, <1>3, <1>4, <1>5, <1>6, <1>7 DEF Next, Producer, Administrator, IInv

\* The invariant holds throughout.
LEMMA Invariance ==
    ASSUME "write" \notin Faults
    PROVE  Spec => []IInv
<1>1. Init => IInv
  BY TypedInit, RowFacts
  DEF IInv, Init, OneRunOnce, Fence, Answered, NoLostRequest, DeadLetterEarned
<1>2. IInv /\ [Next]_vars => IInv'
  BY IInvNext
<1>3. QED BY <1>1, <1>2, PTL DEF Spec

\* For every number of events, workers, crashes and lapsed leases: if the
\* reschedule statement never fails, a completed event was handled after the
\* last request for it.
THEOREM RequestsAnswered ==
    ASSUME "write" \notin Faults
    PROVE  Spec => []NoLostRequest
<1>1. IInv => NoLostRequest
  BY DEF IInv
<1>2. QED BY <1>1, Invariance, PTL

\* Under the same condition a dead letter has failed after the last request:
\* no run that outlived a requeue spends the new budget.
THEOREM DeadLettersEarned ==
    ASSUME "write" \notin Faults
    PROVE  Spec => []DeadLetterEarned
<1>1. IInv => DeadLetterEarned
  BY DEF IInv
<1>2. QED BY <1>1, Invariance, PTL

-----------------------------------------------------------------------------
(* No lease is leaked, as long as reschedule() itself does not fail.       *)
(*                                                                         *)
(* The run that NoLeakedLease promises must also hold the id of the row:   *)
(* a run that renews, acknowledges or reschedules without holding it ends  *)
(* and leaves the row as it is.                                            *)

\* Every lease of a live process has a run that holds the claimed row.
LeaseHeld ==
    \A e \in Events : row[e].owner \in Workers =>
        \E h \in Handle : h.w = row[e].owner /\ h.e = e /\ run[h].phase # "idle" /\ run[h].held

\* A row without lease, or one that keeps it and the runs that hold it.
Covered(e) ==
    \/ row'[e].owner \notin Workers
    \/ /\ row'[e].owner = row[e].owner
       /\ \A h \in Handle : h.e = e /\ h.w = row[e].owner /\ run[h].phase # "idle" /\ run[h].held =>
            run'[h].phase # "idle" /\ run'[h].held

\* The owners that the statements write.
LEMMA Owners ==
    /\ Absent.owner = Nobody
    /\ \A n, b : Pending(n, b).owner = Nobody
    /\ \A r : Acknowledged(r).owner = Nobody
    /\ \A r, b : Rescheduled(r, b).owner = Nobody
    /\ \A r, w : Claimed(r, w).owner = w
BY DEF Absent, Pending, Acknowledged, Rescheduled, Claimed

\* A run gives up its row only when another process or nobody has the lease.
LEMMA ProcessCovers ==
    ASSUME Typed, NEW h \in Handle, Process(h), "write" \notin Faults, NEW e \in Events
    PROVE  Covered(e)
<1> USE HandleFields, ConstantsAssumption DEF Typed
<1>0. /\ h.e \in Events /\ run[h] \in Run /\ row[h.e] \in GoodRow
      /\ row[h.e].owner \in Workers => row[h.e].status = "processing"
  BY DEF GoodRow, LockCheck
<1> DEFINE Kept == /\ run'[h].phase # "idle" /\ run'[h].held = run[h].held
                   /\ \A g \in Handle : g # h => run'[g] = run[g]
<1> DEFINE Ending == \A g \in Handle : g # h => run'[g] = run[g]
<1> DEFINE Others == \A x \in Events : x # h.e => row'[x] = row[x]
<1>1. ASSUME Kept, Others, row'[h.e].owner = row[h.e].owner \/ row'[h.e].owner \notin Workers
      PROVE  Covered(e)
  BY <1>0, <1>1 DEF Covered
<1>2. ASSUME Ending, Others, IF Owns(h) THEN row'[h.e].owner \notin Workers
                             ELSE row'[h.e].owner = row[h.e].owner
      PROVE  Covered(e)
  BY <1>0, <1>2 DEF Covered, Owns
<1>3. CASE RenewClaim(h)
  <2>1. CASE Owns(h)
    <3>1. Kept
      BY <1>0, <1>3, <2>1 DEF RenewClaim, Run
    <3>2. Others /\ row'[h.e].owner = row[h.e].owner
      BY <1>0, <1>3, <2>1 DEF RenewClaim, GoodRow, Row
    <3>3. QED BY <1>1, <3>1, <3>2
  <2>2. CASE ~Owns(h)
    <3>1. Ending /\ row' = row
      BY <1>3, <2>2 DEF RenewClaim, Ends
    <3>2. QED BY <1>2, <2>2, <3>1
  <2>3. QED BY <2>1, <2>2
<1>4. CASE HandlerCompletes(h) \/ HandlerThrows(h)
  <2>1. Kept /\ row' = row
    BY <1>0, <1>4 DEF HandlerCompletes, HandlerThrows, To, Run
  <2>2. QED BY <1>1, <2>1
<1>5. CASE CheckpointThenThrow(h)
  <2>1. Kept
    BY <1>0, <1>5 DEF CheckpointThenThrow, To, Run
  <2>2. Others /\ row'[h.e].owner = Nobody
    BY <1>0, <1>5, Owners DEF CheckpointThenThrow
  <2>3. QED BY <1>1, <2>1, <2>2
<1>6. CASE HandlerDefers(h)
  <2>1. Ending
    BY <1>6 DEF HandlerDefers, Ends
  <2>2. Others /\ IF Owns(h) THEN row'[h.e].owner = Nobody ELSE row' = row
    <3>1. CASE Owns(h)
      <4>1. PICK left : row' = [row EXCEPT ![h.e] = Pending(left, FALSE)]
        BY <1>6, <3>1 DEF HandlerDefers
      <4>2. QED BY <1>0, <3>1, <4>1, Owners
    <3>2. QED BY <1>6, <3>1 DEF HandlerDefers
  <2>3. QED BY <1>2, <2>1, <2>2
<1>7. CASE Complete(h)
  <2>1. Ending
    BY <1>7 DEF Complete, Ends
  <2>2. Others /\ IF Owns(h) THEN row'[h.e].owner = Nobody ELSE row' = row
    BY <1>0, <1>7, Owners DEF Complete
  <2>3. QED BY <1>2, <2>1, <2>2
<1>8. CASE StatementThrows(h)
  <2>1. Kept
    <3>1. run' = [run EXCEPT ![h].phase = "failed", ![h].fresh = run[h].fresh \/ Owns(h)]
      BY <1>8 DEF StatementThrows
    <3> HIDE DEF Owns
    <3>2. QED BY <1>0, <3>1 DEF Run
  <2>2. Others /\ (row'[h.e].owner = row[h.e].owner \/ row'[h.e].owner = Nobody)
    <3>1. CASE row' = row
      BY <3>1
    <3>2. CASE row' = [row EXCEPT ![h.e].stale = FALSE]
      BY <1>0, <3>2 DEF GoodRow, Row
    <3>3. CASE row' = [row EXCEPT ![h.e] = Acknowledged(row[h.e])]
      BY <1>0, <3>3, Owners
    <3>4. QED BY <1>8, <3>1, <3>2, <3>3 DEF StatementThrows
  <2>3. QED BY <1>1, <2>1, <2>2
<1>9. CASE Reschedule(h)
  <2>1. Ending
    BY <1>9 DEF Reschedule, Ends
  <2>2. Others /\ IF Owns(h) THEN row'[h.e].owner = Nobody ELSE row' = row
    BY <1>0, <1>9, Owners DEF Reschedule, RescheduleRow
  <2>3. QED BY <1>2, <2>1, <2>2
<1>10. QED BY <1>3, <1>4, <1>5, <1>6, <1>7, <1>8, <1>9 DEF Process, RescheduleThrows

\* A claim makes the run that holds it.
LEMMA ClaimCovers ==
    ASSUME Typed, LeaseHeld, NEW w \in Workers, NEW k \in Polls, ClaimBatch(w, k)
    PROVE  LeaseHeld'
<1> USE HandleFields, ConstantsAssumption DEF Typed
<1>1. PICK S \in Batches :
        /\ row' = [e \in Events |-> IF e \in S THEN Claimed(row[e], w) ELSE row[e]]
        /\ run' = [h \in Handle |-> IF h.w = w /\ h.k = k /\ h.e \in S
                                    THEN [Idle EXCEPT !.phase = "queued", !.held = TRUE]
                                    ELSE run[h]]
  BY DEF ClaimBatch
<1>2. \A h \in Handle : run'[h] = run[h] \/ (run'[h].phase # "idle" /\ run'[h].held)
  BY <1>1 DEF Idle
<1> SUFFICES ASSUME NEW e \in Events, row'[e].owner \in Workers
             PROVE  \E h \in Handle : /\ h.w = row'[e].owner /\ h.e = e
                                      /\ run'[h].phase # "idle" /\ run'[h].held
  BY DEF LeaseHeld
<1>3. CASE e \in S
  <2> DEFINE h == [w |-> w, k |-> k, e |-> e]
  <2>1. h \in Handle /\ h.w = w /\ h.k = k /\ h.e = e
    BY DEF Handle
  <2>2. row'[e].owner = w
    BY <1>1, <1>3, Owners
  <2>3. run'[h] = [Idle EXCEPT !.phase = "queued", !.held = TRUE]
    BY <1>1, <1>3, <2>1
  <2>4. run'[h].phase # "idle" /\ run'[h].held
    BY <2>3 DEF Idle
  <2> HIDE DEF h
  <2>5. QED BY <2>1, <2>2, <2>4
<1>4. CASE e \notin S
  BY <1>1, <1>2, <1>4 DEF LeaseHeld
<1>5. QED BY <1>3, <1>4

\* Every step keeps a run for every lease of a live process.
LEMMA LeaseHeldNext ==
    ASSUME Typed, LeaseHeld, [Next]_vars, "write" \notin Faults
    PROVE  LeaseHeld'
<1> USE HandleFields, ConstantsAssumption DEF Typed
<1>0. ASSUME \A e \in Events : Covered(e) PROVE LeaseHeld'
  BY <1>0 DEF LeaseHeld, Covered
<1>1. CASE UNCHANGED vars
  BY <1>1 DEF LeaseHeld, vars
<1>2. ASSUME NEW S \in SUBSET Events, RowsDeleted(S), NEW e \in Events PROVE Covered(e)
  BY <1>2, Owners DEF RowsDeleted, Covered, Run
<1>3. ASSUME NEW x \in Events, Producer(x) \/ Administrator(x), NEW e \in Events PROVE Covered(e)
  <2>1. CASE \E b \in BOOLEAN : row' = [row EXCEPT ![x] = Pending(0, b)] /\ Requested(x)
    BY <2>1, Owners DEF Requested, Covered, Run
  <2>2. CASE CancelBilling(x)
    BY <1>2, <2>2 DEF CancelBilling
  <2>3. CASE \E b \in BOOLEAN : DiscardDeadLetter(x, b)
    BY <2>3 DEF DiscardDeadLetter, Covered, GoodRow, Row
  <2>4. QED BY <1>3, <2>1, <2>2, <2>3
            DEF Producer, Administrator, Enqueue, Requeue, Reopen, RetryDeadLetter
<1>4. ASSUME NEW x \in Events, Time(x), NEW e \in Events PROVE Covered(e)
  BY <1>4 DEF Time, BecomesDue, AbandonedLeaseLapses, LiveLeaseLapses, RetentionElapses,
              Covered, GoodRow, Row
<1>5. ASSUME NEW w \in Workers, Poller(w) PROVE LeaseHeld'
  <2>1. ASSUME NEW k \in Polls, StartGroup(w, k), NEW e \in Events PROVE Covered(e)
    <3>1. PICK G : run' = [h \in Handle |-> IF h \in G THEN [run[h] EXCEPT !.phase = "renewing"]
                                            ELSE run[h]]
      BY <2>1 DEF StartGroup
    <3>2. \A h \in Handle : run'[h] = run[h] \/ (run'[h].phase = "renewing" /\ run'[h].held = run[h].held)
      BY <3>1 DEF Run
    <3>3. QED BY <2>1, <3>2 DEF StartGroup, Covered
  <2>2. ASSUME NEW k \in Polls, FinishPoll(w, k), NEW e \in Events PROVE Covered(e)
    <3>1. CASE UNCHANGED <<row, run>>
      BY <3>1 DEF Covered
    <3>2. CASE \E S \in SUBSET {d \in Events : row[d].aged} : S # {} /\ RowsDeleted(S)
      BY <1>2, <3>2
    <3>3. QED BY <2>2, <3>1, <3>2 DEF FinishPoll
  <2>3. QED BY <1>0, <1>5, <2>1, <2>2, ClaimCovers DEF Poller
<1>6. ASSUME NEW w \in Workers, Crash(w), NEW e \in Events PROVE Covered(e)
  <2>1. \A h \in Handle : h.w # w => run'[h] = run[h]
    BY <1>6 DEF Crash
  <2>2. IF row[e].owner = w THEN row'[e].owner = Gone ELSE row'[e] = row[e]
    BY <1>6 DEF Crash, GoodRow, Row
  <2>3. QED BY <2>1, <2>2 DEF Covered
<1>7. QED BY <1>0, <1>1, <1>3, <1>4, <1>5, <1>6, ProcessCovers DEF Next

\* For every number of events and workers: unless the reschedule statement
\* itself fails, every path of process() answers the row it leased, so that no
\* live process keeps the lease of an event it no longer works on.
THEOREM LeasesAnswered ==
    ASSUME "write" \notin Faults
    PROVE  Spec => []NoLeakedLease
<1>1. Init => LeaseHeld
  BY Owners, ConstantsAssumption DEF Init, LeaseHeld
<1>2. LeaseHeld => NoLeakedLease
  BY DEF LeaseHeld, NoLeakedLease
<1>3. QED BY <1>1, <1>2, TypedInit, TypedNext, LeaseHeldNext, PTL DEF Spec

-----------------------------------------------------------------------------
(* The retry budget.                                                       *)

\* reschedule() puts an event back only while it has attempts left.
LEMMA RescheduledBudget ==
    ASSUME NEW r \in GoodRow, NEW m \in {1, MaxAttempts}, Rescheduled(r, m).status = "pending"
    PROVE  Rescheduled(r, m).attempts < MaxAttempts
<1>1. r.attempts \in Nat
  BY ChangedRows
<1>2. [Absent EXCEPT !.status = "dead_letter", !.attempts = r.attempts].status = "dead_letter"
  BY DEF Absent
<1>3. ~(r.attempts >= m)
  BY <1>2 DEF Rescheduled
<1>4. r.attempts < MaxAttempts
  BY <1>1, <1>3, ConstantsAssumption
<1>5. Rescheduled(r, m).attempts = r.attempts
  BY <1>3 DEF Rescheduled, Pending, Absent
<1>6. QED BY <1>4, <1>5

\* Whatever fails, no event other than an erasure waits with its budget spent.
THEOREM BudgetKept == Spec => []PendingHasBudget
<1> DEFINE B(r, e) == r.status = "pending" /\ EventType[e] # "account.erase" => r.attempts < MaxAttempts
<1>1. Init => PendingHasBudget
  BY RowFacts DEF Init, PendingHasBudget
<1>2. ASSUME Typed, PendingHasBudget, [Next]_vars PROVE PendingHasBudget'
  <2> SUFFICES ASSUME NEW x \in Events PROVE B(row'[x], x)
    BY DEF PendingHasBudget
  <2>1. B(row[x], x) /\ row[x] \in GoodRow /\ row[x].attempts \in Nat
    BY <1>2, ChangedRows DEF PendingHasBudget, Typed
  <2>2. Pending(0, TRUE).attempts = 0 /\ Pending(0, FALSE).attempts = 0 /\ 0 < MaxAttempts
    BY ConstantsAssumption DEF Pending, Absent
  <2> USE <1>2, <2>1, <2>2, RowFacts
  <2>3. CASE UNCHANGED vars
    BY <2>3 DEF vars
  <2>4. ASSUME NEW e \in Events, Producer(e) \/ Administrator(e) PROVE B(row'[x], x)
    <3>1. CASE \E b \in BOOLEAN : row' = [row EXCEPT ![e] = Pending(0, b)]
      BY <3>1 DEF Typed
    <3>2. CASE CancelBilling(e)
      BY <3>2 DEF CancelBilling, RowsDeleted
    <3>3. CASE \E b \in BOOLEAN : DiscardDeadLetter(e, b)
      BY <3>3 DEF DiscardDeadLetter, Typed, GoodRow, Row
    <3>4. QED BY <2>4, <3>1, <3>2, <3>3
              DEF Producer, Administrator, Enqueue, Requeue, Reopen, RetryDeadLetter
  <2>5. ASSUME NEW e \in Events, Time(e) PROVE B(row'[x], x)
    BY <2>5 DEF Time, BecomesDue, AbandonedLeaseLapses, LiveLeaseLapses, RetentionElapses,
                Typed, GoodRow, Row
  <2>6. ASSUME NEW w \in Workers, NEW k \in Polls,
               ClaimBatch(w, k) \/ StartGroup(w, k) \/ FinishPoll(w, k)
        PROVE  B(row'[x], x)
    BY <2>6 DEF ClaimBatch, StartGroup, FinishPoll, RowsDeleted, Typed
  <2>7. ASSUME NEW w \in Workers, Crash(w) PROVE B(row'[x], x)
    BY <2>7 DEF Crash, Typed, GoodRow, Row
  <2>8. ASSUME NEW h \in Handle, Process(h) PROVE B(row'[x], x)
    <3>0. h.e \in Events
      BY HandleFields
    <3>1. CASE RenewClaim(h)
      BY <3>0, <3>1 DEF RenewClaim, Typed, GoodRow, Row
    <3>2. CASE HandlerCompletes(h) \/ HandlerThrows(h)
      BY <3>2 DEF HandlerCompletes, HandlerThrows
    <3>3. CASE HandlerDefers(h) \/ CheckpointThenThrow(h)
      BY <3>0, <3>3 DEF HandlerDefers, CheckpointThenThrow, Typed
    <3>4. CASE Complete(h) \/ StatementThrows(h)
      <4>1. CASE row' = row
        BY <4>1
      <4>2. CASE row' = [row EXCEPT ![h.e].stale = FALSE]
        BY <3>0, <4>2 DEF Typed, GoodRow, Row
      <4>3. CASE row' = [row EXCEPT ![h.e] = Acknowledged(row[h.e])]
        BY <3>0, <4>3 DEF Typed
      <4>4. QED BY <3>4, <4>1, <4>2, <4>3 DEF Complete, StatementThrows
    <3>5. CASE Reschedule(h) \/ RescheduleThrows(h)
      <4>1. row' = row \/ RescheduleRow(h)
        BY <3>5 DEF Reschedule, RescheduleThrows
      <4>2. CASE row' = row \/ x # h.e \/ ~Owns(h)
        BY <3>0, <4>1, <4>2 DEF RescheduleRow, Typed
      <4>3. CASE RescheduleRow(h) /\ x = h.e /\ Owns(h)
        BY <3>0, <4>3, RescheduledBudget DEF RescheduleRow, Typed
      <4>4. QED BY <4>1, <4>2, <4>3
    <3>6. QED BY <2>8, <3>1, <3>2, <3>3, <3>4, <3>5 DEF Process
  <2>9. QED BY <1>2, <2>3, <2>4, <2>5, <2>6, <2>7, <2>8 DEF Next, Poller
<1>3. QED BY <1>1, <1>2, TypedInit, TypedNext, PTL DEF Spec

-----------------------------------------------------------------------------
(* NotificationPush, whose jobs the outbox delivers.                       *)

\* A job is tried at least once, and no session has the name that stands for none.
PushNames ==
    /\ MaxTries \in Nat \ {0} /\ MaxLosses \in Nat /\ MaxDeviceChanges \in Nat
    /\ Push!NoSession \notin Logins

\* The type of a job.
JobType == [pc: {"none", "pending", "sending", "acked", "dead"}, session: Logins \cup {Push!NoSession},
            linked: BOOLEAN, attempts: 0..MaxTries]

\* Every variable has its type.
PushTyped ==
    /\ recipient \in [Recipients -> {"live", "banned", "erased"}] /\ session \subseteq Logins
    /\ registered \in [Phones -> session \cup {Push!NoSession}] /\ note \in [Subjects -> {"none", "due", "moot"}]
    /\ job \in [Push!Jobs -> JobType] /\ sent \in [Push!Jobs -> Nat] /\ doubts \in [Push!Jobs -> Nat]
    /\ mootOnce \subseteq Push!Jobs /\ deviceChanges \in 0..MaxDeviceChanges /\ pushFaults \in 0..MaxLosses

\* A job has its notification, and its device as long as it names one.
JobRefers(j) ==
    /\ job[j].linked => registered[j[2]] # Push!NoSession /\ note[j[1]] # "none"
    /\ job[j].pc # "none" => note[j[1]] # "none"

\* A job the worker may take has attempts left.
JobBudget(j) == job[j].pc \in {"pending", "sending"} => job[j].attempts < MaxTries

\* Only the last attempt is not in doubt, and each doubt is a fault.
JobCount(j) ==
    /\ sent[j] <= 1 + doubts[j] /\ doubts[j] <= pushFaults
    /\ job[j].pc # "acked" => sent[j] <= doubts[j]

\* A job was not due at some time, or is due; an acknowledged one may have been sent.
JobDue(j) ==
    /\ job[j].pc # "none" => j \in mootOnce \/ Push!Deliverable(j)
    /\ job[j].pc = "acked" => sent[j] > 0 \/ j \in mootOnce

\* What is known of one job.
JobSound(j) == JobRefers(j) /\ JobBudget(j) /\ JobCount(j) /\ JobDue(j)

\* The inductive invariant of NotificationPush.
PushInv == PushTyped /\ \A j \in Push!Jobs : JobSound(j)

\* A job is of a source and a token.
LEMMA JobParts == \A j \in Push!Jobs : j[1] \in Subjects /\ j[2] \in Phones
BY DEF Push!Jobs

\* It holds before any notification.
LEMMA PushStarts == ASSUME PushNames, Push!Init PROVE PushInv
<1>1. /\ Push!NoJob \in JobType /\ Push!NoJob.pc = "none" /\ Push!NoJob.linked = FALSE
      /\ Push!NoJob.attempts = 0
  BY DEF PushNames, Push!NoJob, JobType
<1>2. /\ job = [j \in Push!Jobs |-> Push!NoJob] /\ sent = [j \in Push!Jobs |-> 0]
      /\ doubts = [j \in Push!Jobs |-> 0] /\ pushFaults = 0 /\ deviceChanges = 0 /\ session = Logins
      /\ recipient = [u \in Recipients |-> "live"] /\ note = [n \in Subjects |-> "none"] /\ mootOnce = {}
      /\ registered \in [Phones -> Logins \cup {Push!NoSession}]
  BY DEF Push!Init
<1>3. PushTyped
  BY <1>1, <1>2, PushNames DEF PushTyped, PushNames
<1>4. ASSUME NEW j \in Push!Jobs PROVE JobSound(j)
  <2>1. job[j].pc = "none" /\ ~job[j].linked /\ sent[j] = 0 /\ doubts[j] = 0
    BY <1>1, <1>2
  <2>2. QED BY <1>2, <2>1 DEF JobSound, JobRefers, JobBudget, JobCount, JobDue
<1>5. QED BY <1>3, <1>4 DEF PushInv

-----------------------------------------------------------------------------
\* What happens to devices, sessions, accounts and sources.
LEMMA ChangeKeeps ==
    ASSUME PushNames, PushInv, NEW phone, NEW active, NEW accounts, NEW notes, NEW deleted,
           Push!Changed, Push!After(phone, active, accounts, notes, deleted),
           active \subseteq Logins, phone \in [Phones -> active \cup {Push!NoSession}],
           accounts \in [Recipients -> {"live", "banned", "erased"}], notes \in [Subjects -> {"none", "due", "moot"}],
           \A n \in Subjects : note[n] # "none" => notes[n] # "none",
           \A t \in Phones : t \notin deleted /\ registered[t] # Push!NoSession => phone[t] # Push!NoSession
    PROVE  PushInv'
<1> DEFINE Cut(j) == j[2] \in deleted \/ (notes[j[1]] = "moot" /\ accounts[Addressee[j[1]]] = "erased")
<1> DEFINE Due(j) == Push!DeliverableTo(j, phone, active, accounts, notes)
<1>1. /\ registered' = phone /\ session' = active /\ recipient' = accounts /\ note' = notes
      /\ job' = [j \in Push!Jobs |-> IF Cut(j) THEN [job[j] EXCEPT !.linked = FALSE] ELSE job[j]]
      /\ mootOnce' = mootOnce \cup {j \in Push!Jobs : job[j].pc # "none" /\ (j[2] \in deleted \/ ~Due(j))}
      /\ sent' = sent /\ doubts' = doubts /\ pushFaults' = pushFaults
  BY DEF Push!After, Push!Changed
<1>2. deviceChanges' \in 0..MaxDeviceChanges
  BY DEF Push!Changed, PushInv, PushTyped, PushNames
<1>3. ASSUME NEW j \in Push!Jobs
      PROVE  /\ job'[j] \in JobType /\ job'[j].pc = job[j].pc /\ job'[j].session = job[j].session
             /\ job'[j].attempts = job[j].attempts
             /\ Cut(j) => ~job'[j].linked
             /\ ~Cut(j) => job'[j] = job[j]
  <2> HIDE DEF Cut
  <2>1. job[j] \in JobType /\ job'[j] = IF Cut(j) THEN [job[j] EXCEPT !.linked = FALSE] ELSE job[j]
    BY <1>1 DEF PushInv, PushTyped
  <2>2. CASE Cut(j)
    BY <2>1, <2>2 DEF JobType
  <2>3. QED BY <2>1, <2>2
<1>4. PushTyped'
  <2>1. job' = [j \in Push!Jobs |-> job'[j]]
    BY <1>1
  <2>2. job' \in [Push!Jobs -> JobType]
    BY <1>3, <2>1, Zenon
  <2>3. QED BY <1>1, <1>2, <2>2 DEF PushInv, PushTyped, JobType, Push!Jobs
<1>5. ASSUME NEW j \in Push!Jobs PROVE JobSound(j)'
  <2>1. JobSound(j) /\ j[1] \in Subjects /\ j[2] \in Phones
    BY JobParts DEF PushInv
  <2>2. JobRefers(j)'
    <3>1. job'[j].linked => ~Cut(j) /\ job[j].linked
      BY <1>3
    <3>2. QED BY <1>1, <1>3, <2>1, <3>1 DEF JobSound, JobRefers
  <2>3. JobBudget(j)'
    BY <1>3, <2>1 DEF JobSound, JobBudget
  <2>4. JobCount(j)'
    BY <1>1, <1>3, <2>1 DEF JobSound, JobCount
  <2>5. JobDue(j)'
    <3>1. ASSUME job[j].pc # "none", j \notin mootOnce' PROVE Push!Deliverable(j)'
      <4>1. j[2] \notin deleted /\ Due(j)
        BY <1>1, <3>1
      <4>2. ~Cut(j)
        BY <4>1 DEF Push!DeliverableTo
      <4>3. job'[j] = job[j]
        BY <1>3, <4>2
      <4>4. QED BY <1>1, <4>1, <4>3 DEF Push!Deliverable, Push!DeliverableTo
    <3>2. j \in mootOnce => j \in mootOnce'
      BY <1>1
    <3>3. QED BY <1>1, <1>3, <2>1, <3>1, <3>2 DEF JobSound, JobDue
  <2>6. QED BY <2>2, <2>3, <2>4, <2>5 DEF JobSound
<1>6. QED BY <1>4, <1>5 DEF PushInv

\* revokeFamilies: the devices that are left are of the other sessions.
LEMMA RevokedDevices ==
    ASSUME PushInv, NEW gone
    PROVE  /\ Push!Revoked(gone).phone \in [Phones -> (session \ gone) \cup {Push!NoSession}]
           /\ \A t \in Phones : t \notin Push!Revoked(gone).deleted => Push!Revoked(gone).phone[t] = registered[t]
<1>1. /\ Push!Revoked(gone).phone = [t \in Phones |-> IF registered[t] \in gone THEN Push!NoSession ELSE registered[t]]
      /\ Push!Revoked(gone).deleted = {t \in Phones : registered[t] \in gone}
  BY DEF Push!Revoked
<1>2. QED BY <1>1 DEF PushInv, PushTyped

\* What phones, sessions and accounts do keeps it.
LEMMA ChangesKeep ==
    ASSUME PushNames, PushInv,
           \/ \E n \in Subjects : Push!Moot(n)
           \/ \E s \in Logins : Push!Revoke(s) \/ \E t \in Phones : Push!RegisterDevice(s, t)
           \/ \E t \in Phones : Push!RemoveDevice(t)
           \/ \E u \in Recipients : Push!Ban(u) \/ Push!Unban(u) \/ Push!Erase(u)
    PROVE  PushInv'
<1> USE DEF PushTyped
<1>0. PushTyped
  BY DEF PushInv
<1>1. ASSUME NEW n \in Subjects, Push!Moot(n) PROVE PushInv'
  <2>1. Push!Changed /\ Push!After(registered, session, recipient, [note EXCEPT ![n] = "moot"], {})
    BY <1>1 DEF Push!Moot
  <2>2. /\ [note EXCEPT ![n] = "moot"] \in [Subjects -> {"none", "due", "moot"}]
        /\ \A m \in Subjects : note[m] # "none" => [note EXCEPT ![n] = "moot"][m] # "none"
    BY <1>0
  <2>3. QED BY <1>0, <2>1, <2>2, ChangeKeeps
<1>2. ASSUME NEW s \in Logins, Push!Revoke(s) PROVE PushInv'
  <2>1. Push!Changed /\ Push!After(Push!Revoked({s}).phone, session \ {s}, recipient, note, Push!Revoked({s}).deleted)
    BY <1>2 DEF Push!Revoke
  <2>2. QED BY <1>0, <2>1, RevokedDevices, ChangeKeeps
<1>3. ASSUME NEW s \in Logins, NEW t \in Phones, Push!RegisterDevice(s, t) PROVE PushInv'
  <2>1. Push!Changed /\ Push!After([registered EXCEPT ![t] = s], session, recipient, note, {}) /\ s \in session
    BY <1>3 DEF Push!RegisterDevice
  <2>2. /\ [registered EXCEPT ![t] = s] \in [Phones -> session \cup {Push!NoSession}]
        /\ \A k \in Phones : registered[k] # Push!NoSession => [registered EXCEPT ![t] = s][k] # Push!NoSession
    BY <1>0, <2>1 DEF PushNames
  <2>3. QED BY <1>0, <2>1, <2>2, ChangeKeeps
<1>4. ASSUME NEW t \in Phones, Push!RemoveDevice(t) PROVE PushInv'
  <2>1. Push!Changed /\ Push!After([registered EXCEPT ![t] = Push!NoSession], session, recipient, note, {t})
    BY <1>4 DEF Push!RemoveDevice
  <2>2. /\ [registered EXCEPT ![t] = Push!NoSession] \in [Phones -> session \cup {Push!NoSession}]
        /\ \A k \in Phones : k \notin {t} => [registered EXCEPT ![t] = Push!NoSession][k] = registered[k]
    BY <1>0
  <2>3. QED BY <1>0, <2>1, <2>2, ChangeKeeps
<1>5. ASSUME NEW u \in Recipients, Push!Ban(u) PROVE PushInv'
  <2> DEFINE S == Push!SessionsOf(u)
  <2>1. /\ Push!Changed
        /\ Push!After(Push!Revoked(S).phone, session \ S, [recipient EXCEPT ![u] = "banned"], note, Push!Revoked(S).deleted)
    BY <1>5 DEF Push!Ban
  <2> HIDE DEF S
  <2>2. [recipient EXCEPT ![u] = "banned"] \in [Recipients -> {"live", "banned", "erased"}] /\ session \ S \subseteq Logins
    BY <1>0
  <2> DEFINE phone == Push!Revoked(S).phone  deleted == Push!Revoked(S).deleted
             accounts == [recipient EXCEPT ![u] = "banned"]
  <2>3. /\ phone \in [Phones -> (session \ S) \cup {Push!NoSession}]
        /\ \A t \in Phones : t \notin deleted => phone[t] = registered[t]
    BY RevokedDevices
  <2>4. Push!After(phone, session \ S, accounts, note, deleted) /\ accounts \in [Recipients -> {"live", "banned", "erased"}]
    BY <2>1, <2>2
  <2> HIDE DEF phone, deleted, accounts
  <2>5. QED BY <1>0, <2>1, <2>2, <2>3, <2>4, ChangeKeeps
<1>6. ASSUME NEW u \in Recipients, Push!Unban(u) PROVE PushInv'
  <2>1. Push!Changed /\ Push!After(registered, session, [recipient EXCEPT ![u] = "live"], note, {})
    BY <1>6 DEF Push!Unban
  <2>2. [recipient EXCEPT ![u] = "live"] \in [Recipients -> {"live", "banned", "erased"}]
    BY <1>0
  <2>3. QED BY <1>0, <2>1, <2>2, ChangeKeeps
<1>7. ASSUME NEW u \in Recipients, Push!Erase(u) PROVE PushInv'
  <2> DEFINE S == Push!SessionsOf(u)
  <2> DEFINE notes == [n \in Subjects |-> IF Addressee[n] = u /\ note[n] # "none" THEN "moot" ELSE note[n]]
  <2>1. /\ Push!Changed
        /\ Push!After(Push!Revoked(S).phone, session \ S, [recipient EXCEPT ![u] = "erased"], notes, Push!Revoked(S).deleted)
    BY <1>7 DEF Push!Erase
  <2>2. /\ notes \in [Subjects -> {"none", "due", "moot"}]
        /\ \A n \in Subjects : note[n] # "none" => notes[n] # "none"
    BY <1>0
  <2> HIDE DEF S, notes
  <2>3. [recipient EXCEPT ![u] = "erased"] \in [Recipients -> {"live", "banned", "erased"}] /\ session \ S \subseteq Logins
    BY <1>0
  <2> DEFINE phone == Push!Revoked(S).phone  deleted == Push!Revoked(S).deleted
             accounts == [recipient EXCEPT ![u] = "erased"]
  <2>4. /\ phone \in [Phones -> (session \ S) \cup {Push!NoSession}]
        /\ \A t \in Phones : t \notin deleted => phone[t] = registered[t]
    BY RevokedDevices
  <2>5. Push!After(phone, session \ S, accounts, notes, deleted) /\ accounts \in [Recipients -> {"live", "banned", "erased"}]
    BY <2>1, <2>3
  <2> HIDE DEF phone, deleted, accounts
  <2>6. QED BY <1>0, <2>1, <2>2, <2>3, <2>4, <2>5, ChangeKeeps
<1>8. QED BY <1>1, <1>2, <1>3, <1>4, <1>5, <1>6, <1>7

-----------------------------------------------------------------------------
\* The jobs: a step changes the jobs it is about and leaves the others as they are.
LEMMA EnqueueKeeps ==
    ASSUME PushNames, PushInv, NEW n \in Subjects, Push!Enqueue(n)
    PROVE  PushInv'
<1> DEFINE made == {j \in Push!Jobs : j[1] = n /\ registered[j[2]] \in session /\ LoginOf[registered[j[2]]] = Addressee[n]}
<1> DEFINE new(j) == [pc |-> "pending", session |-> registered[j[2]], linked |-> TRUE, attempts |-> 0]
<1>1. /\ note[n] = "none" /\ recipient[Addressee[n]] = "live" /\ note' = [note EXCEPT ![n] = "due"]
      /\ job' = [j \in Push!Jobs |-> IF j \in made THEN new(j) ELSE job[j]]
      /\ UNCHANGED <<recipient, session, registered, sent, mootOnce, doubts, deviceChanges, pushFaults>>
  BY DEF Push!Enqueue
<1>2. \A j \in Push!Jobs : j \in made => j[1] = n /\ registered[j[2]] \in session /\ registered[j[2]] # Push!NoSession
  BY DEF PushInv, PushTyped, PushNames
<1>3. \A j \in made : /\ new(j) \in JobType /\ new(j).pc = "pending" /\ new(j).session = registered[j[2]]
                      /\ new(j).linked = TRUE /\ new(j).attempts = 0
  BY DEF PushNames, JobType, PushInv, PushTyped
<1> HIDE DEF made, new
<1>4. ASSUME NEW j \in Push!Jobs
      PROVE  /\ job'[j] \in JobType /\ note'[j[1]] = IF j[1] = n THEN "due" ELSE note[j[1]]
             /\ j \in made => /\ job'[j].pc = "pending" /\ job'[j].session = registered[j[2]]
                              /\ job'[j].linked = TRUE /\ job'[j].attempts = 0
             /\ j \notin made => job'[j] = job[j]
  BY <1>1, <1>3, JobParts DEF PushInv, PushTyped
<1>5. PushTyped'
  <2>1. job' = [j \in Push!Jobs |-> job'[j]]
    BY <1>1
  <2>2. job' \in [Push!Jobs -> JobType]
    BY <1>4, <2>1, Zenon
  <2>3. note' \in [Subjects -> {"none", "due", "moot"}]
    BY <1>1 DEF PushInv, PushTyped
  <2>4. QED BY <1>1, <2>2, <2>3 DEF PushInv, PushTyped, JobType, Push!Jobs
<1>6. ASSUME NEW j \in Push!Jobs PROVE JobSound(j)'
  <2>1. JobSound(j) /\ (j[1] = n => job[j].pc = "none")
    BY <1>1 DEF PushInv, JobSound, JobRefers
  <2>2. CASE j \in made
    <3>1. job'[j].pc = "pending" /\ note'[j[1]] = "due" /\ job[j].pc = "none"
      BY <1>2, <1>4, <2>1, <2>2
    <3>2. JobRefers(j)'
      BY <1>1, <1>2, <2>2, <3>1 DEF JobRefers
    <3>3. JobBudget(j)'
      <4>1. job'[j].attempts = 0
        BY <1>4, <2>2
      <4>2. 0 < MaxTries
        BY DEF PushNames
      <4>3. QED BY <4>1, <4>2 DEF JobBudget
    <3>4. JobCount(j)'
      BY <1>1, <2>1, <3>1 DEF JobCount, JobSound
    <3>5. JobDue(j)'
      <4>1. Push!Deliverable(j)'
        BY <1>1, <1>2, <1>4, <2>2, <3>1 DEF Push!Deliverable, Push!DeliverableTo
      <4>2. QED BY <3>1, <4>1 DEF JobDue
    <3>6. QED BY <3>2, <3>3, <3>4, <3>5 DEF JobSound
  <2>3. CASE j \notin made
    <3>1. job'[j] = job[j] /\ (note'[j[1]] = note[j[1]] \/ (j[1] = n /\ note'[j[1]] = "due"))
      BY <1>4, <2>3
    <3>2. JobRefers(j)' /\ JobBudget(j)' /\ JobCount(j)'
      BY <1>1, <2>1, <3>1 DEF JobSound, JobRefers, JobBudget, JobCount
    <3>3. Push!Deliverable(j) => Push!Deliverable(j)'
      BY <1>1, <3>1 DEF Push!Deliverable, Push!DeliverableTo
    <3>4. JobDue(j)'
      BY <1>1, <2>1, <3>1, <3>3 DEF JobSound, JobDue
    <3>5. QED BY <3>2, <3>4 DEF JobSound
  <2>4. QED BY <2>2, <2>3
<1>7. QED BY <1>5, <1>6 DEF PushInv

\* The attempts of a job are counted.
LEMMA JobTried == \A r \in JobType : \A n \in 0..MaxTries : [r EXCEPT !.attempts = n] \in JobType
BY DEF JobType

\* The worker and the operator, on one job: its place and its attempts change.
LEMMA OneJobKeeps ==
    ASSUME PushNames, PushInv, NEW j \in Push!Jobs, NEW pc \in {"pending", "sending", "acked", "dead"},
           NEW attempts \in 0..MaxTries, job[j].pc \notin {"none", "acked"},
           job' = [job EXCEPT ![j] = [@ EXCEPT !.pc = pc, !.attempts = attempts]],
           UNCHANGED <<recipient, session, registered, note, mootOnce>>, deviceChanges' \in 0..MaxDeviceChanges,
           sent' \in [Push!Jobs -> Nat], doubts' \in [Push!Jobs -> Nat], pushFaults' \in 0..MaxLosses,
           \A k \in Push!Jobs : k # j => sent'[k] = sent[k] /\ doubts'[k] = doubts[k],
           pushFaults <= pushFaults', doubts'[j] <= pushFaults', sent'[j] <= 1 + doubts'[j],
           pc # "acked" => sent'[j] <= doubts'[j], pc \in {"pending", "sending"} => attempts < MaxTries,
           pc = "acked" => sent'[j] > 0 \/ j \in mootOnce
    PROVE  PushInv'
<1>1. /\ job'[j] \in JobType /\ job'[j].pc = pc /\ job'[j].attempts = attempts
      /\ job'[j].session = job[j].session /\ job'[j].linked = job[j].linked
  <2>1. job[j] \in JobType /\ job'[j] = [job[j] EXCEPT !.pc = pc, !.attempts = attempts]
    BY DEF PushInv, PushTyped
  <2> DEFINE moved == [job[j] EXCEPT !.pc = pc]
  <2>2. moved \in JobType
    BY <2>1 DEF JobType
  <2>3. moved.pc = pc /\ moved.session = job[j].session /\ moved.linked = job[j].linked
    BY <2>1 DEF JobType
  <2>4. job'[j] = [moved EXCEPT !.attempts = attempts]
    BY <2>1
  <2> HIDE DEF moved
  <2>5. job'[j] \in JobType
    BY <2>2, <2>4, JobTried
  <2>6. job'[j].pc = moved.pc /\ job'[j].session = moved.session /\ job'[j].attempts = attempts
    BY <2>2, <2>4 DEF JobType
  <2>7. job'[j].linked = moved.linked
    BY <2>2, <2>4 DEF JobType
  <2>8. QED BY <2>3, <2>5, <2>6, <2>7
<1>2. \A k \in Push!Jobs : k # j => job'[k] = job[k]
  BY DEF PushInv, PushTyped
<1>3. PushTyped'
  <2>1. job' = [k \in Push!Jobs |-> job'[k]] /\ \A k \in Push!Jobs : job[k] \in JobType
    BY DEF PushInv, PushTyped
  <2>2. job' \in [Push!Jobs -> JobType]
    BY <1>1, <1>2, <2>1, Zenon
  <2>3. QED BY <2>2 DEF PushInv, PushTyped, JobType, Push!Jobs
<1>4. ASSUME NEW k \in Push!Jobs PROVE JobSound(k)'
  <2>1. JobSound(k)
    BY DEF PushInv
  <2>2. /\ job'[k].session = job[k].session /\ job'[k].linked = job[k].linked
        /\ job'[k].pc # "none" => job[k].pc # "none"
    BY <1>1, <1>2
  <2>3. JobRefers(k)'
    BY <2>1, <2>2 DEF JobSound, JobRefers
  <2>4. JobBudget(k)'
    BY <1>1, <1>2, <2>1 DEF JobSound, JobBudget
  <2>5. JobCount(k)'
    <3>1. CASE k = j
      BY <1>1, <3>1 DEF JobCount
    <3>2. CASE k # j
      <4>1. job'[k] = job[k] /\ sent'[k] = sent[k] /\ doubts'[k] = doubts[k] /\ doubts[k] \in Nat
        BY <1>2, <3>2 DEF PushInv, PushTyped
      <4>2. doubts[k] <= pushFaults'
        BY <2>1, <4>1 DEF PushNames, JobSound, JobCount, PushInv, PushTyped
      <4>3. QED BY <2>1, <4>1, <4>2 DEF JobSound, JobCount
    <3>3. QED BY <3>1, <3>2
  <2>6. JobDue(k)'
    <3>1. Push!Deliverable(k) => Push!Deliverable(k)'
      BY <2>2 DEF Push!Deliverable, Push!DeliverableTo
    <3>2. job'[k].pc = "acked" => sent'[k] > 0 \/ k \in mootOnce
      BY <1>1, <1>2, <2>1 DEF JobSound, JobDue
    <3>3. QED BY <2>1, <2>2, <3>1, <3>2 DEF JobSound, JobDue
  <2>7. QED BY <2>3, <2>4, <2>5, <2>6 DEF JobSound
<1>5. QED BY <1>3, <1>4 DEF PushInv

\* A job that is settled keeps its attempts.
LEMMA SettledJob ==
    ASSUME PushInv, NEW j \in Push!Jobs, NEW pc, Push!Settle(j, pc)
    PROVE  /\ job[j].attempts \in 0..MaxTries
           /\ job' = [job EXCEPT ![j] = [@ EXCEPT !.pc = pc, !.attempts = job[j].attempts]]
<1>1. job' = [job EXCEPT ![j] = [job[j] EXCEPT !.pc = pc]] /\ job[j] \in JobType
  BY DEF Push!Settle, PushInv, PushTyped
<1>2. job[j].attempts \in 0..MaxTries
  BY <1>1 DEF JobType
<1>3. [job[j] EXCEPT !.pc = pc] = [job[j] EXCEPT !.pc = pc, !.attempts = job[j].attempts]
  BY <1>1 DEF JobType
<1>4. QED BY <1>1, <1>2, <1>3

\* The worker reads the device of its job, or finds that nothing is due.
LEMMA FindKeeps ==
    ASSUME PushNames, PushInv, NEW j \in Push!Jobs, Push!FindDeliverable(j)
    PROVE  PushInv'
<1>1. PICK pc \in {"sending", "acked"} : pc = IF Push!Deliverable(j) THEN "sending" ELSE "acked"
  OBVIOUS
<1>2. PICK attempts \in 0..MaxTries :
        /\ job' = [job EXCEPT ![j] = [@ EXCEPT !.pc = pc, !.attempts = attempts]] /\ attempts = job[j].attempts
  BY <1>1, SettledJob DEF Push!FindDeliverable
<1>3. /\ job[j].pc = "pending"
      /\ UNCHANGED <<recipient, session, registered, note, sent, mootOnce, doubts, deviceChanges, pushFaults>>
  BY DEF Push!FindDeliverable
<1>4. /\ JobSound(j) /\ sent \in [Push!Jobs -> Nat] /\ doubts \in [Push!Jobs -> Nat] /\ pushFaults \in 0..MaxLosses
      /\ deviceChanges \in 0..MaxDeviceChanges
  BY DEF PushInv, PushTyped
<1>5. /\ sent[j] <= doubts[j] /\ doubts[j] <= pushFaults /\ sent[j] <= 1 + doubts[j] /\ attempts < MaxTries
  BY <1>2, <1>3, <1>4 DEF JobSound, JobCount, JobBudget
<1>6. pc = "acked" => j \in mootOnce
  BY <1>1, <1>3, <1>4 DEF JobSound, JobDue
<1>7. pushFaults <= pushFaults'
  BY <1>3, <1>4 DEF PushNames
<1>8. QED BY <1>1, <1>2, <1>3, <1>4, <1>5, <1>6, <1>7, OneJobKeeps

\* FCM accepts the push.
LEMMA SendKeeps ==
    ASSUME PushNames, PushInv, NEW j \in Push!Jobs, Push!SendToDevice(j)
    PROVE  PushInv'
<1>1. PICK attempts \in 0..MaxTries :
        job' = [job EXCEPT ![j] = [@ EXCEPT !.pc = "acked", !.attempts = attempts]]
  BY SettledJob DEF Push!SendToDevice
<1>2. /\ job[j].pc = "sending" /\ sent' = [sent EXCEPT ![j] = sent[j] + 1]
      /\ UNCHANGED <<recipient, session, registered, note, mootOnce, doubts, deviceChanges, pushFaults>>
  BY DEF Push!SendToDevice, Push!Accepted
<1>3. /\ JobSound(j) /\ sent \in [Push!Jobs -> Nat] /\ doubts \in [Push!Jobs -> Nat] /\ pushFaults \in 0..MaxLosses
      /\ deviceChanges \in 0..MaxDeviceChanges
  BY DEF PushInv, PushTyped
<1>4. sent[j] <= doubts[j] /\ doubts[j] <= pushFaults /\ sent[j] \in Nat /\ doubts[j] \in Nat
  BY <1>2, <1>3 DEF JobSound, JobCount
<1>5. /\ sent' \in [Push!Jobs -> Nat] /\ sent'[j] = sent[j] + 1 /\ \A k \in Push!Jobs : k # j => sent'[k] = sent[k]
  BY <1>2, <1>3
<1>6. sent'[j] <= 1 + doubts'[j] /\ sent'[j] > 0
  BY <1>2, <1>4, <1>5
<1>7. pushFaults <= pushFaults' /\ pushFaults' \in 0..MaxLosses
  BY <1>2, <1>3 DEF PushNames
<1>8. QED BY <1>1, <1>2, <1>3, <1>4, <1>5, <1>6, <1>7, OneJobKeeps

\* The attempt fails, or its answer is lost.
LEMMA FailureKeeps ==
    ASSUME PushNames, PushInv, NEW j \in Push!Jobs, NEW accepted \in BOOLEAN, Push!PushFails(j, accepted)
    PROVE  PushInv'
<1>1. /\ job[j].pc = "sending" /\ pushFaults < MaxLosses /\ pushFaults' = pushFaults + 1
      /\ sent' = [sent EXCEPT ![j] = IF accepted THEN sent[j] + 1 ELSE sent[j]]
      /\ doubts' = [doubts EXCEPT ![j] = IF accepted THEN doubts[j] + 1 ELSE doubts[j]]
      /\ UNCHANGED <<recipient, session, registered, note, mootOnce, deviceChanges>>
  BY DEF Push!PushFails
<1>2. /\ JobSound(j) /\ sent \in [Push!Jobs -> Nat] /\ doubts \in [Push!Jobs -> Nat] /\ pushFaults \in 0..MaxLosses
      /\ deviceChanges \in 0..MaxDeviceChanges /\ job[j] \in JobType
  BY DEF PushInv, PushTyped
<1>3. /\ sent[j] <= doubts[j] /\ doubts[j] <= pushFaults /\ sent[j] \in Nat /\ doubts[j] \in Nat
      /\ job[j].attempts < MaxTries /\ job[j].attempts \in Nat
  BY <1>1, <1>2 DEF PushNames, JobSound, JobCount, JobBudget, JobType
<1>4. PICK attempts \in 0..MaxTries : attempts = job[j].attempts + 1
  BY <1>3 DEF PushNames
<1>5. PICK pc \in {"pending", "dead"} : pc = IF attempts < MaxTries THEN "pending" ELSE "dead"
  OBVIOUS
<1>6. job' = [job EXCEPT ![j] = [@ EXCEPT !.pc = pc, !.attempts = attempts]]
  BY <1>4, <1>5 DEF Push!PushFails
<1>7. /\ sent' \in [Push!Jobs -> Nat] /\ doubts' \in [Push!Jobs -> Nat]
      /\ \A k \in Push!Jobs : k # j => sent'[k] = sent[k] /\ doubts'[k] = doubts[k]
  BY <1>1, <1>2, <1>3
<1>8. /\ sent'[j] = IF accepted THEN sent[j] + 1 ELSE sent[j]
      /\ doubts'[j] = IF accepted THEN doubts[j] + 1 ELSE doubts[j]
  BY <1>1, <1>2
<1>9. sent'[j] <= doubts'[j] /\ sent'[j] <= 1 + doubts'[j] /\ doubts'[j] <= pushFaults + 1
  BY <1>2, <1>3, <1>8 DEF PushNames
<1>10. pushFaults <= pushFaults' /\ pushFaults' \in 0..MaxLosses /\ doubts'[j] <= pushFaults'
  BY <1>1, <1>2, <1>9 DEF PushNames
<1>11. pc \in {"pending", "sending"} => attempts < MaxTries
  BY <1>5
<1>12. QED BY <1>1, <1>2, <1>4, <1>5, <1>6, <1>7, <1>9, <1>10, <1>11, OneJobKeeps

\* An operator tries a dead job again.
LEMMA RetryKeeps ==
    ASSUME PushNames, PushInv, NEW j \in Push!Jobs, Push!RetryDeadLetter(j)
    PROVE  PushInv'
<1>1. /\ job[j].pc = "dead" /\ deviceChanges < MaxDeviceChanges /\ deviceChanges' = deviceChanges + 1
      /\ job' = [job EXCEPT ![j] = [@ EXCEPT !.pc = "pending", !.attempts = 0]]
      /\ UNCHANGED <<recipient, session, registered, note, sent, mootOnce, doubts, pushFaults>>
  BY DEF Push!RetryDeadLetter
<1>2. /\ JobSound(j) /\ sent \in [Push!Jobs -> Nat] /\ doubts \in [Push!Jobs -> Nat] /\ pushFaults \in 0..MaxLosses
      /\ deviceChanges \in 0..MaxDeviceChanges
  BY DEF PushInv, PushTyped
<1>3. deviceChanges' \in 0..MaxDeviceChanges /\ 0 \in 0..MaxTries /\ 0 < MaxTries
  BY <1>1, <1>2 DEF PushNames
<1>4. sent[j] <= doubts[j] /\ doubts[j] <= pushFaults /\ sent[j] <= 1 + doubts[j]
  BY <1>1, <1>2 DEF JobSound, JobCount
<1>5. pushFaults <= pushFaults'
  BY <1>1, <1>2 DEF PushNames
<1>6. QED BY <1>1, <1>2, <1>3, <1>4, <1>5, OneJobKeeps

\* UNREGISTERED: every job for the token loses its device.
LEMMA UnregisteredKeeps ==
    ASSUME PushNames, PushInv, NEW j \in Push!Jobs, Push!Unregistered(j)
    PROVE  PushInv'
<1>1. PICK t \in Phones : t = j[2]
  BY JobParts
<1>2. /\ job[j].pc = "sending" /\ deviceChanges < MaxDeviceChanges /\ deviceChanges' = deviceChanges + 1
      /\ registered' = [registered EXCEPT ![t] = Push!NoSession]
      /\ job' = [k \in Push!Jobs |-> [job[k] EXCEPT !.linked = @ /\ k[2] # t, !.pc = IF k = j THEN "acked" ELSE @]]
      /\ mootOnce' = mootOnce \cup {k \in Push!Jobs : k[2] = t /\ job[k].pc # "none"}
      /\ UNCHANGED <<recipient, session, note, sent, doubts, pushFaults>>
  BY <1>1 DEF Push!Unregistered
<1>3. ASSUME NEW k \in Push!Jobs
      PROVE  /\ job'[k] \in JobType /\ job'[k].session = job[k].session /\ job'[k].attempts = job[k].attempts
             /\ job'[k].pc = IF k = j THEN "acked" ELSE job[k].pc
             /\ job'[k].linked <=> job[k].linked /\ k[2] # t
  <2> DEFINE cut == [job[k] EXCEPT !.linked = job[k].linked /\ k[2] # t]
  <2>1. job[k] \in JobType /\ job'[k] = [cut EXCEPT !.pc = IF k = j THEN "acked" ELSE job[k].pc]
    BY <1>2 DEF PushInv, PushTyped
  <2>2. cut \in JobType /\ cut.pc = job[k].pc /\ cut.session = job[k].session /\ cut.attempts = job[k].attempts
    BY <2>1 DEF JobType
  <2>3. cut.linked <=> job[k].linked /\ k[2] # t
    BY <2>1 DEF JobType
  <2> HIDE DEF cut
  <2>4. job'[k] \in JobType
    BY <2>1, <2>2 DEF JobType
  <2>5. /\ job'[k].session = cut.session /\ job'[k].attempts = cut.attempts
        /\ job'[k].pc = IF k = j THEN "acked" ELSE job[k].pc
    BY <2>1, <2>2 DEF JobType
  <2>6. job'[k].linked = cut.linked
    BY <2>1, <2>2 DEF JobType
  <2>7. QED BY <2>2, <2>3, <2>4, <2>5, <2>6
<1>4. PushTyped'
  <2>1. job' = [k \in Push!Jobs |-> job'[k]]
    BY <1>2
  <2>2. job' \in [Push!Jobs -> JobType]
    BY <1>3, <2>1, Zenon
  <2>3. deviceChanges' \in 0..MaxDeviceChanges
    <3>1. deviceChanges < MaxDeviceChanges /\ deviceChanges' = deviceChanges + 1 /\ deviceChanges \in 0..MaxDeviceChanges /\ MaxDeviceChanges \in Nat
      BY <1>2 DEF PushInv, PushTyped, PushNames
    <3>2. QED BY <3>1
  <2>4. registered' \in [Phones -> session \cup {Push!NoSession}]
    BY <1>2 DEF PushInv, PushTyped
  <2>5. QED BY <1>2, <2>2, <2>3, <2>4 DEF PushInv, PushTyped, JobType, Push!Jobs
<1>5. ASSUME NEW k \in Push!Jobs PROVE JobSound(k)'
  <2>1. JobSound(k) /\ k[2] \in Phones /\ (k = j => k[2] = t /\ job[k].pc = "sending")
    BY <1>1, <1>2, JobParts DEF PushInv
  <2>2. k[2] # t => registered'[k[2]] = registered[k[2]]
    BY <1>2, <2>1 DEF PushInv, PushTyped
  <2>3. JobRefers(k)'
    BY <1>2, <1>3, <2>1, <2>2 DEF JobSound, JobRefers
  <2>4. JobBudget(k)'
    BY <1>3, <2>1 DEF JobSound, JobBudget
  <2>5. JobCount(k)'
    BY <1>2, <1>3, <2>1 DEF JobSound, JobCount
  <2>6. JobDue(k)'
    <3>1. CASE k[2] = t /\ job[k].pc # "none"
      BY <1>2, <3>1 DEF JobDue
    <3>2. CASE job[k].pc = "none"
      BY <1>3, <2>1, <3>2 DEF JobDue
    <3>3. CASE k[2] # t
      <4>1. job'[k].pc = job[k].pc
        BY <1>3, <2>1, <3>3
      <4>2. job[k].linked => job'[k].linked
        BY <1>3, <3>3
      <4>3. job'[k].session = job[k].session /\ registered'[k[2]] = registered[k[2]]
        BY <1>3, <2>2, <3>3
      <4>4. Push!Deliverable(k) => Push!Deliverable(k)'
        <5>1. note' = note /\ recipient' = recipient /\ session' = session
          BY <1>2
        <5>2. QED BY <4>2, <4>3, <5>1 DEF Push!Deliverable, Push!DeliverableTo
      <4>5. QED BY <1>2, <2>1, <4>1, <4>4 DEF JobSound, JobDue
    <3>4. QED BY <3>1, <3>2, <3>3
  <2>7. QED BY <2>3, <2>4, <2>5, <2>6 DEF JobSound
<1>6. QED BY <1>4, <1>5 DEF PushInv

-----------------------------------------------------------------------------
\* Every step keeps the invariant.
LEMMA PushStep == ASSUME PushNames, PushInv, [Push!Next]_(Push!vars) PROVE PushInv'
<1>1. CASE UNCHANGED Push!vars
  <2>1. UNCHANGED <<recipient, session, registered, note, job, sent, mootOnce, doubts, deviceChanges, pushFaults>>
    BY <1>1 DEF Push!vars
  <2>2. PushTyped'
    BY <2>1 DEF PushInv, PushTyped, JobType, Push!Jobs
  <2>3. \A j \in Push!Jobs : JobSound(j)'
    BY <2>1 DEF PushInv, JobSound, JobRefers, JobBudget, JobCount, JobDue, Push!Deliverable, Push!DeliverableTo
  <2>4. QED BY <2>2, <2>3 DEF PushInv
<1>2. CASE Push!Next
  BY <1>2, EnqueueKeeps, ChangesKeep, FindKeeps, SendKeeps, FailureKeeps, RetryKeeps, UnregisteredKeeps
     DEF Push!Next, Push!Run
<1>3. QED BY <1>1, <1>2

\* It gives the property.
LEMMA PushSoundly == ASSUME PushNames, PushInv PROVE Push!PushConsistent
<1>1. \A j \in Push!Jobs : JobRefers(j) /\ JobCount(j) /\ JobDue(j)
  BY DEF PushInv, JobSound
<1>2. ASSUME NEW j \in Push!Jobs PROVE sent[j] \in 0..(MaxLosses + 2) /\ doubts[j] \in 0..MaxLosses
  BY <1>1 DEF PushNames, JobCount, PushInv, PushTyped
<1>3. sent \in [Push!Jobs -> 0..(MaxLosses + 2)] /\ doubts \in [Push!Jobs -> 0..MaxLosses]
  BY <1>2 DEF PushInv, PushTyped
<1>4. Push!TypeOK
  BY <1>1, <1>3 DEF Push!TypeOK, JobRefers, PushInv, PushTyped, JobType
<1>5. Push!NoPushLost /\ Push!SentTwiceOnlyInDoubt
  BY <1>1 DEF Push!NoPushLost, Push!SentTwiceOnlyInDoubt, JobCount, JobDue
<1>6. QED BY <1>4, <1>5 DEF Push!PushConsistent

\* NotificationPushService and MobileRepository: whatever phones, sessions and
\* accounts do while the worker runs, no device of a closed session is kept, a job
\* is acknowledged without a push only if it was not due at some time, and a device
\* gets a notification again only after an attempt whose answer was lost; for any
\* number of accounts, sessions, phones, notifications, attempts and faults.
THEOREM PushesSound == ASSUME PushNames PROVE Push!Spec => []PushConsistent
<1>1. Push!Init => PushInv
  BY PushStarts
<1>2. PushInv /\ [Push!Next]_(Push!vars) => PushInv'
  BY PushStep
<1>3. PushInv => PushConsistent
  BY PushSoundly DEF PushConsistent
<1>4. QED BY <1>1, <1>2, <1>3, PTL DEF Push!Spec

=============================================================================
