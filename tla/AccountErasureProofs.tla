------------------------ MODULE AccountErasureProofs ------------------------
(***************************************************************************)
(* Proofs about AccountErasure for any number of requests, runs, worker    *)
(* processes, items, attempts and faults, and any batch size, and about    *)
(* ProfileConsents, the other part that an erasure ends, for any number of *)
(* writes at once, processes, consent versions and events.                 *)
(***************************************************************************)
EXTENDS AccountErasure, Services, Sequences, SequenceTheorems, FiniteSetTheorems, TLAPS

-----------------------------------------------------------------------------
(* The inductive invariant.                                                *)

\* No operation of the owner is under way, and none can begin any more.
Quiet == account # "live" /\ \A i \in Items : item[i].at \notin {"entered", "inserted"}

Working == {"reading", "removing", "advancing"}

\* An operation holds the shared lock exactly while it is under way.
Held == \A i \in Items : i \in locks <=> item[i].at \in {"entered", "inserted"}

\* An operation writes its row before its object; a swipe has no object.
Stored ==
    /\ \A i \in Items : item[i].at \in {"new", "entered"} => i \notin rows
    /\ \A i \in Items : item[i].at = "inserted" => i \in rows /\ item[i].kind # "swipes"
    /\ \A i \in objects : i \in rows /\ item[i].kind # "swipes"

\* A run that has had the exclusive lock, even one that has lost it since, and
\* a workflow that has left its first step, have no operation beside them.
Frozen ==
    /\ \A w \in Runs : run[w].at \in Working => Quiet
    /\ erasure.step # "stripe" \/ account = "anonymized" => Quiet

\* The steps that the workflow has left have no row any more.
Cleared ==
    /\ \A i \in rows : Rank(item[i].kind) >= Rank(erasure.step)
    /\ account = "anonymized" => rows = {}

\* What a run remembers of its step is still true when it uses it.
RunsSound ==
    \A w \in Runs :
        /\ run[w].at # "idle" => account # "live"
        /\ run[w].at = "removing" => run[w].step \in Kinds
        /\ run[w].at = "advancing" =>
             \/ run[w].step = "postgres" /\ run[w].next = "completed"
             \/ run[w].step \in {"stripe", "photos"} /\ run[w].next = run[w].step
             \/ /\ run[w].step \in {"stripe", "photos"} /\ run[w].next = After(run[w].step)
                /\ \A i \in rows : item[i].kind # run[w].step
        /\ run[w].at = "acking" => account = "anonymized"

\* The request, the workflow row, its event and the account agree.
Workflow ==
    /\ account = "live" => erasure = NoErasure
    /\ erasure.request = None => erasure.step = "stripe" /\ event.status = "none"
    /\ erasure.request # None =>
         /\ Type[erasure.request] = "erasure"
         /\ event.status # "none"
         /\ account = (IF erasure.step = "completed" THEN "anonymized" ELSE "deleted")
         /\ request[erasure.request] = (IF erasure.step = "completed" THEN "completed" ELSE "in_progress")
    /\ account = "deleted" => erasure.request # None
    /\ event.status = "completed" => account = "anonymized"
    /\ event.status = "processing" => event.attempts >= 1
    /\ account # "live" => \A r \in Requests : Type[r] = "erasure" /\ request[r] \in Open
                                                => r = erasure.request

\* The inductive invariant.
IInv == /\ TypeOK /\ Held /\ Stored /\ Frozen /\ Cleared /\ RunsSound /\ Workflow
        /\ AnonymizedOnce

-----------------------------------------------------------------------------
(* Steps, batches and records.                                             *)

StepNames == {"stripe", "photos", "swipes", "postgres", "completed"}

\* The order of the steps of the workflow.
LEMMA Ranks ==
    /\ {Steps[n] : n \in 1..5} = StepNames
    /\ Rank("stripe") = 1 /\ Rank("photos") = 2 /\ Rank("swipes") = 3
    /\ Rank("postgres") = 4 /\ Rank("completed") = 5
    /\ After("stripe") = "photos" /\ After("photos") = "swipes" /\ After("swipes") = "postgres"
<1>1. /\ Steps[1] = "stripe" /\ Steps[2] = "photos" /\ Steps[3] = "swipes"
      /\ Steps[4] = "postgres" /\ Steps[5] = "completed"
  BY DEF Steps
<1>2. \A n \in 1..5 : n = 1 \/ n = 2 \/ n = 3 \/ n = 4 \/ n = 5
  OBVIOUS
<1>3. {Steps[n] : n \in 1..5} = StepNames
  <2>1. \A n \in 1..5 : Steps[n] \in StepNames
    BY <1>1, <1>2 DEF StepNames
  <2>2. \A s \in StepNames : \E n \in 1..5 : Steps[n] = s
    BY <1>1 DEF StepNames
  <2>3. QED BY <2>1, <2>2
<1>4. ASSUME NEW s, \E n \in 1..5 : Steps[n] = s
      PROVE  Rank(s) \in 1..5 /\ Steps[Rank(s)] = s
  BY <1>4 DEF Rank
<1>5. Rank("stripe") = 1
  BY <1>1, <1>2, <1>4
<1>6. Rank("photos") = 2
  BY <1>1, <1>2, <1>4
<1>7. Rank("swipes") = 3
  BY <1>1, <1>2, <1>4
<1>8. Rank("postgres") = 4
  BY <1>1, <1>2, <1>4
<1>9. Rank("completed") = 5
  BY <1>1, <1>2, <1>4
<1>10. QED BY <1>1, <1>3, <1>5, <1>6, <1>7, <1>8, <1>9 DEF After

\* A batch is part of the rows of its kind, and all of them when the workflow
\* leaves the step after it.
LEMMA Batches ==
    ASSUME NEW kind \in Kinds, NEW B \in Batch(kind)
    PROVE  /\ B \subseteq RowsOf(kind)
           /\ Following(kind, B) # kind => B = RowsOf(kind) /\ Following(kind, B) = After(kind)
BY ErasureAssumption DEF Batch, Following

EventType == [status: {"none", "pending", "processing", "completed", "dead_letter"},
              attempts: Nat, by: {Process[w] : w \in Runs} \cup {None}, stale: BOOLEAN]

\* What the statements write into the event.
LEMMA Events ==
    /\ NoEvent \in EventType /\ NoEvent.status = "none"
    /\ Checkpointed \in EventType /\ Checkpointed.status = "pending"
    /\ \A n \in Nat, s \in {"pending", "completed", "dead_letter"} :
         LET e == [NoEvent EXCEPT !.status = s, !.attempts = n] IN e \in EventType /\ e.status = s
    /\ \A w \in Runs, n \in Nat :
         [status |-> "processing", attempts |-> n, by |-> Process[w], stale |-> FALSE] \in EventType
    /\ \A e \in EventType : [e EXCEPT !.stale = TRUE] \in EventType
    /\ \A e \in EventType : e.attempts \in Nat
BY DEF EventType, NoEvent, Checkpointed

\* reschedule() leaves the event of another process alone.
LEMMA Reschedules ==
    ASSUME event \in EventType, NEW w \in Runs
    PROVE  /\ Rescheduled(w) \in EventType
           /\ IF Owns(w) THEN Rescheduled(w).status \in {"pending", "dead_letter"}
                         ELSE Rescheduled(w) = event
<1>1. CASE ~Owns(w)
  BY <1>1 DEF Rescheduled
<1>2. CASE Owns(w)
  <2> DEFINE s == IF event.attempts >= MaxAttempts THEN "dead_letter" ELSE "pending"
  <2>1. Rescheduled(w) = [NoEvent EXCEPT !.status = s, !.attempts = event.attempts]
    BY <1>2 DEF Rescheduled
  <2>2. s \in {"pending", "dead_letter"} /\ event.attempts \in Nat
    BY Events
  <2> HIDE DEF s
  <2> DEFINE e == [NoEvent EXCEPT !.status = s, !.attempts = event.attempts]
  <2>3. e \in EventType /\ e.status = s
    BY <2>2 DEF EventType, NoEvent
  <2> HIDE DEF e
  <2>4. Rescheduled(w) \in EventType /\ Rescheduled(w).status \in {"pending", "dead_letter"}
    BY <2>1, <2>2, <2>3 DEF e
  <2>5. QED BY <1>2, <2>4
<1>3. QED BY <1>1, <1>2

RunType == [at: {"idle", "claimed", "locking", "reading", "removing", "advancing", "acking"},
            step: StepNames, next: StepNames]

\* A run that is over, and one that was claimed.
LEMMA RunRecords ==
    /\ Idle \in RunType /\ Idle.at = "idle"
    /\ [Idle EXCEPT !.at = "claimed"] \in RunType
BY DEF RunType, Idle, StepNames

ItemType == [at: {"new", "entered", "inserted", "over"}, kind: Kinds]

\* An operation changes its item's state, and its kind only when it begins.
LEMMA ItemRecords ==
    ASSUME NEW r \in ItemType
    PROVE  /\ r.kind \in Kinds
           /\ \A k \in Kinds : [at |-> "entered", kind |-> k] \in ItemType
           /\ \A a \in {"inserted", "over"} :
                /\ [r EXCEPT !.at = a] \in ItemType
                /\ [r EXCEPT !.at = a].at = a
                /\ [r EXCEPT !.at = a].kind = r.kind
BY DEF ItemType

\* TypeOK with named record types.
Typed ==
    /\ account \in {"live", "deleted", "anonymized"}
    /\ request \in [Requests -> {"none", "pending", "in_progress", "completed", "rejected", "purged"}]
    /\ erasure \in [request: Requests \cup {None}, step: StepNames]
    /\ event \in EventType
    /\ token \in {"none", "valid", "expired"}
    /\ item \in [Items -> ItemType]
    /\ rows \in SUBSET Items /\ objects \in SUBSET Items
    /\ run \in [Runs -> RunType]
    /\ locks \in SUBSET (Runs \cup Items)
    /\ faults \in 0..MaxFaults

\* idx_dsr_one_open_per_type.
OneOpen ==
    \A r, s \in Requests : request[r] \in Open /\ request[s] \in Open /\ Type[r] = Type[s] => r = s

\* TypeOK in parts.
LEMMA TypeParts == TypeOK <=> Typed /\ OneOpen /\ audits \in 0..2
BY Ranks DEF TypeOK, Typed, OneOpen, EventType, ItemType, RunType

-----------------------------------------------------------------------------
(* Type correctness.                                                       *)

\* Leaving a run and moving one on keep the runs typed.
LEMMA RunsTyped ==
    ASSUME Typed, NEW w \in Runs
    PROVE  /\ [run EXCEPT ![w] = Idle] \in [Runs -> RunType]
           /\ \A a \in {"locking", "reading", "advancing", "acking"} :
                [run EXCEPT ![w].at = a] \in [Runs -> RunType]
           /\ Leave(w) => run' \in [Runs -> RunType] /\ locks' \in SUBSET (Runs \cup Items)
<1> USE DEF Typed
<1>1. [run EXCEPT ![w] = Idle] \in [Runs -> RunType]
  BY RunRecords
<1>2. ASSUME NEW a \in {"locking", "reading", "advancing", "acking"}
      PROVE  [run EXCEPT ![w].at = a] \in [Runs -> RunType]
  BY DEF RunType
<1>3. QED BY <1>1, <1>2 DEF Leave

\* The request and the event of an erasure.
LEMMA EnqueueTyped ==
    ASSUME Typed, NEW r \in Requests, Enqueue(r, "in_progress")
    PROVE  Typed'
<1> USE DEF Typed, Enqueue
<1>1. request' \in [Requests -> {"none", "pending", "in_progress", "completed", "rejected", "purged"}]
  OBVIOUS
<1>2. erasure' \in [request: Requests \cup {None}, step: StepNames]
  BY DEF StepNames
<1>3. event' \in EventType
  BY Events DEF Checkpointed
<1>4. QED BY <1>1, <1>2, <1>3

\* The other actions on requests and tokens, and those of the owner.
LEMMA SubjectTyped ==
    ASSUME Typed,
           \/ IssueToken \/ TokenExpires \/ LeaseLapses \/ Retry
           \/ \E r \in Requests : Subject(r)
           \/ \E i \in Items : Operation(i) \/ \E kind \in Kinds : Enter(i, kind)
    PROVE  Typed'
<1> USE DEF Typed
<1>1. CASE IssueToken \/ TokenExpires
  BY <1>1 DEF IssueToken, TokenExpires
<1>2. CASE LeaseLapses
  <2>1. faults' \in 0..MaxFaults
    BY <1>2, ErasureAssumption DEF LeaseLapses, Fault
  <2>2. QED BY <1>2, <2>1, Events DEF LeaseLapses
<1>3. CASE Retry
  BY <1>3, Events DEF Retry, Checkpointed
<1>4. ASSUME NEW r \in Requests, CreateRequest(r) PROVE Typed'
  BY <1>4 DEF CreateRequest
<1>5. ASSUME NEW r \in Requests, AcceptErasure(r) PROVE Typed'
  BY <1>5, EnqueueTyped DEF AcceptErasure
<1>6. ASSUME NEW r \in Requests, PurgeRequest(r) PROVE Typed'
  <2>1. NoErasure \in [request: Requests \cup {None}, step: StepNames]
    BY DEF NoErasure, StepNames
  <2>2. QED BY <1>6, <2>1, Events DEF PurgeRequest
<1>7. ASSUME NEW r \in Requests, NEW status \in {"in_progress", "completed", "rejected"},
             UpdateRequest(r, status)
      PROVE  Typed'
  BY <1>7, EnqueueTyped DEF UpdateRequest
<1>8. ASSUME NEW i \in Items, NEW kind \in Kinds, Enter(i, kind) PROVE Typed'
  BY <1>8, ItemRecords DEF Enter
<1>9. ASSUME NEW i \in Items, Insert(i) PROVE Typed'
  <2>1. item' \in [Items -> ItemType]
    BY <1>9, ItemRecords DEF Insert
  <2>2. rows' \in SUBSET Items /\ locks' \in SUBSET (Runs \cup Items)
    BY <1>9 DEF Insert
  <2>3. QED BY <1>9, <2>1, <2>2 DEF Insert
<1>10. ASSUME NEW i \in Items, Create(i) PROVE Typed'
  <2>1. item' \in [Items -> ItemType]
    BY <1>10, ItemRecords DEF Create
  <2>2. objects' \in SUBSET Items /\ locks' \in SUBSET (Runs \cup Items)
    BY <1>10 DEF Create
  <2>3. QED BY <1>10, <2>1, <2>2 DEF Create
<1>11. QED BY <1>1, <1>2, <1>3, <1>4, <1>5, <1>6, <1>7, <1>8, <1>9, <1>10 DEF Subject, Operation

\* The step after a batch is a step.
LEMMA FollowingStep ==
    \A s \in {"stripe", "photos", "swipes"} : \A B : Following(s, B) \in StepNames
BY Ranks DEF Following, StepNames

\* The runs of process().
LEMMA StepTyped ==
    ASSUME Typed, NEW w \in Runs, Step(w) \/ RunFails(w) \/ LockLost(w),
           run[w].at = "removing" => run[w].step \in Kinds,
           event.status = "processing" => event.attempts >= 1
    PROVE  Typed'
<1> USE DEF Typed
<1>0. event.attempts \in Nat /\ Rescheduled(w) \in EventType
  BY Events, Reschedules
<1>1. CASE Claim(w)
  <2>1. event' \in EventType
    <3>1. event.attempts + 1 \in Nat
      BY <1>0
    <3>2. QED BY <1>1, <3>1 DEF Claim, EventType
  <2>2. run' \in [Runs -> RunType]
    BY <1>1, RunRecords DEF Claim
  <2>3. QED BY <1>1, <2>1, <2>2 DEF Claim
<1>2. CASE FirstRead(w)
  <2>1. run' \in [Runs -> RunType]
    <3>1. \/ run' = [run EXCEPT ![w] = Idle]
          \/ run' = [run EXCEPT ![w].at = "acking"]
          \/ run' = [run EXCEPT ![w].at = "locking"]
      BY <1>2 DEF FirstRead
    <3>2. CASE run' = [run EXCEPT ![w] = Idle]
      BY <3>2, RunsTyped
    <3>3. CASE run' = [run EXCEPT ![w].at = "acking"]
      BY <3>3, RunsTyped
    <3>4. CASE run' = [run EXCEPT ![w].at = "locking"]
      BY <3>4, RunsTyped
    <3>5. QED BY <3>1, <3>2, <3>3, <3>4
  <2>2. QED BY <1>0, <1>2, <2>1 DEF FirstRead
<1>3. CASE TryExclusive(w)
  <2>1. run' \in [Runs -> RunType]
    BY <1>3, RunsTyped DEF TryExclusive
  <2>2. event' \in EventType
    <3>1. CASE Owns(w)
      <4>1. event.attempts - 1 \in Nat
        BY <1>0, <3>1 DEF Owns
      <4>2. [NoEvent EXCEPT !.status = "pending", !.attempts = event.attempts - 1] \in EventType
        BY <4>1 DEF EventType, NoEvent
      <4>3. QED BY <1>3, <3>1, <4>2 DEF TryExclusive
    <3>2. QED BY <1>3, <3>1 DEF TryExclusive
  <2>3. QED BY <1>3, <2>1, <2>2 DEF TryExclusive
<1>4. CASE SecondRead(w)
  <2>1. run' \in [Runs -> RunType]
    <3>1. CASE Leave(w)
      BY <3>1, RunsTyped
    <3>2. CASE ~Leave(w) /\ erasure.step = "completed"
      <4>1. run' = [run EXCEPT ![w].at = "acking"]
        BY <1>4, <3>2 DEF SecondRead
      <4>2. QED BY <4>1, RunsTyped
    <3>3. CASE ~Leave(w) /\ erasure.step # "completed"
      <4>1. "completed" \in StepNames
        BY DEF StepNames
      <4>2. PICK a \in {"removing", "advancing"}, n \in StepNames :
               run' = [run EXCEPT ![w] = [at |-> a, step |-> erasure.step, next |-> n]]
        BY <1>4, <3>3, <4>1 DEF SecondRead
      <4>3. QED BY <4>2 DEF RunType
    <3>4. QED BY <3>1, <3>2, <3>3
  <2>2. locks' \in SUBSET (Runs \cup Items)
    BY <1>4 DEF SecondRead, Leave
  <2>3. QED BY <1>4, <2>1, <2>2 DEF SecondRead
<1>5. CASE RemoveOutside(w)
  <2>1. PICK s \in StepNames : run' = [run EXCEPT ![w].at = "advancing", ![w].next = s]
    BY <1>5, FollowingStep DEF RemoveOutside
  <2>2. run' \in [Runs -> RunType]
    BY <2>1 DEF RunType
  <2>3. rows' \in SUBSET Items /\ objects' \in SUBSET Items
    BY <1>5 DEF RemoveOutside
  <2>4. QED BY <1>5, <2>2, <2>3 DEF RemoveOutside
<1>6. CASE DeleteSwipeBatch(w)
  <2>1. erasure' \in [request: Requests \cup {None}, step: StepNames]
    BY <1>6, FollowingStep DEF DeleteSwipeBatch
  <2>2. event' \in EventType
    BY <1>6, Events DEF DeleteSwipeBatch
  <2>3. rows' \in SUBSET Items
    BY <1>6 DEF DeleteSwipeBatch
  <2>4. QED BY <1>6, <2>1, <2>2, <2>3, RunsTyped DEF DeleteSwipeBatch
<1>7. CASE Advance(w)
  <2>1. run' \in [Runs -> RunType] /\ locks' \in SUBSET (Runs \cup Items)
    BY <1>7, RunsTyped DEF Advance
  <2>2. erasure' \in [request: Requests \cup {None}, step: StepNames]
    <3>1. run[w].next \in StepNames /\ "completed" \in StepNames
      BY DEF RunType, StepNames
    <3>2. QED BY <1>7, <3>1 DEF Advance
  <2>3. event' \in EventType
    BY <1>0, <1>7, Events DEF Advance
  <2>4. /\ account' \in {"live", "deleted", "anonymized"} /\ rows' \in SUBSET Items
        /\ request' \in [Requests -> {"none", "pending", "in_progress", "completed", "rejected", "purged"}]
    BY <1>7 DEF Advance
  <2>5. QED BY <1>7, <2>1, <2>2, <2>3, <2>4 DEF Advance
<1>8. CASE Complete(w)
  BY <1>0, <1>8, Events, RunsTyped DEF Complete
<1>9. CASE RunFails(w)
  <2>1. faults' \in 0..MaxFaults
    BY <1>9, ErasureAssumption DEF RunFails, Fault
  <2>2. rows' \in SUBSET Items /\ objects' \in SUBSET Items
    BY <1>9 DEF RunFails
  <2>3. QED BY <1>0, <1>9, <2>1, <2>2, RunsTyped DEF RunFails
<1>10. CASE LockLost(w)
  BY <1>10, ErasureAssumption DEF LockLost, Fault
<1>11. QED BY <1>1, <1>2, <1>3, <1>4, <1>5, <1>6, <1>7, <1>8, <1>9, <1>10 DEF Step

\* Every step keeps the types.
LEMMA TypedNext ==
    ASSUME IInv, [Next]_vars
    PROVE  Typed'
<1>0. Typed
  BY TypeParts DEF IInv
<1>1. CASE UNCHANGED vars
  BY <1>0, <1>1 DEF vars, Typed
<1>2. ASSUME NEW p, Crash(p) PROVE Typed'
  <2>1. run' \in [Runs -> RunType]
    BY <1>0, <1>2, RunRecords DEF Crash, Typed
  <2>2. faults' \in 0..MaxFaults
    BY <1>0, <1>2, ErasureAssumption DEF Crash, Fault, Typed
  <2>3. QED BY <1>0, <1>2, <2>1, <2>2 DEF Crash, Typed
<1>3. ASSUME NEW w \in Runs, Step(w) \/ RunFails(w) \/ LockLost(w) PROVE Typed'
  BY <1>0, <1>3, StepTyped DEF IInv, RunsSound, Workflow
<1>4. QED BY <1>0, <1>1, <1>2, <1>3, SubjectTyped DEF Next

-----------------------------------------------------------------------------
(* What a step does to the account, the locks, the items and their rows.   *)

\* What runs do, with the failures that end them.
RunStep(w) == Step(w) \/ RunFails(w) \/ LockLost(w)

\* The account is frozen once, and never comes back.
LEMMA AccountForward ==
    ASSUME IInv, [Next]_vars
    PROVE  /\ account # "live" => account' # "live"
           /\ account = "anonymized" => account' = "anonymized"
           /\ account' = "anonymized" /\ account # "anonymized" => \E w \in Runs : Advance(w)
<1> USE DEF IInv, Workflow
<1>1. CASE UNCHANGED vars
  BY <1>1 DEF vars
<1>2. CASE IssueToken \/ TokenExpires \/ LeaseLapses \/ Retry
  BY <1>2 DEF IssueToken, TokenExpires, LeaseLapses, Retry
<1>3. ASSUME NEW r \in Requests, Subject(r)
      PROVE  account' = account \/ (account = "live" /\ account' = "deleted")
  BY <1>3 DEF Subject, CreateRequest, AcceptErasure, PurgeRequest, UpdateRequest, Enqueue
<1>4. ASSUME NEW i \in Items, Operation(i) \/ \E kind \in Kinds : Enter(i, kind)
      PROVE  account' = account
  BY <1>4 DEF Operation, Insert, Create, Enter
<1>5. ASSUME NEW w \in Runs, RunStep(w)
      PROVE  account' = account \/ (account' = "anonymized" /\ Advance(w))
  BY <1>5 DEF RunStep, Step, Claim, FirstRead, TryExclusive, SecondRead, RemoveOutside,
              DeleteSwipeBatch, Advance, Complete, RunFails, LockLost
<1>6. ASSUME NEW p, Crash(p) PROVE account' = account
  BY <1>6 DEF Crash
<1>7. QED BY <1>1, <1>2, <1>3, <1>4, <1>5, <1>6 DEF Next, RunStep

\* The runs touch neither the items nor their locks.
LEMMA RunsLeaveItems ==
    ASSUME Typed, \/ \E w \in Runs : RunStep(w)
                  \/ \E p \in {Process[w] : w \in Runs} : Crash(p)
    PROVE  item' = item /\ \A i \in Items : i \in locks' <=> i \in locks
<1>1. \A i \in Items : i \notin Runs
  BY ErasureAssumption
<1>2. ASSUME NEW w \in Runs, RunStep(w)
      PROVE  item' = item /\ (locks' = locks \/ locks' = locks \ {w} \/ locks' = locks \cup {w})
  BY <1>2 DEF RunStep, Step, Claim, FirstRead, TryExclusive, SecondRead, RemoveOutside,
              DeleteSwipeBatch, Advance, Complete, RunFails, LockLost, Leave
<1>3. ASSUME NEW p, Crash(p) PROVE item' = item /\ \A i \in Items : i \in locks' <=> i \in locks
  BY <1>1, <1>3 DEF Crash
<1>4. QED BY <1>1, <1>2, <1>3

\* Requests, tokens and the event leave the owner's data alone.
LEMMA OthersLeaveItems ==
    ASSUME IssueToken \/ TokenExpires \/ LeaseLapses \/ Retry \/ \E r \in Requests : Subject(r)
    PROVE  UNCHANGED <<item, rows, objects, run, locks>>
BY DEF IssueToken, TokenExpires, LeaseLapses, Retry, Subject, CreateRequest, AcceptErasure,
       PurgeRequest, UpdateRequest, Enqueue

\* The shared lock is held exactly while an operation is under way.
LEMMA HeldNext ==
    ASSUME IInv, [Next]_vars
    PROVE  Held'
<1>0. Typed /\ Held /\ \A i \in Items : i \notin Runs
  BY TypeParts, ErasureAssumption DEF IInv
<1> USE <1>0 DEF Held
<1>1. CASE UNCHANGED vars
  BY <1>1 DEF vars
<1>2. CASE IssueToken \/ TokenExpires \/ LeaseLapses \/ Retry \/ \E r \in Requests : Subject(r)
  BY <1>2, OthersLeaveItems
<1>3. ASSUME NEW i \in Items, NEW kind \in Kinds, Enter(i, kind) PROVE Held'
  BY <1>3 DEF Enter, Typed
<1>4. ASSUME NEW i \in Items, Insert(i) PROVE Held'
  BY <1>4 DEF Insert, Typed, ItemType
<1>5. ASSUME NEW i \in Items, Create(i) PROVE Held'
  BY <1>5, ItemRecords DEF Create, Typed
<1>6. CASE (\E w \in Runs : RunStep(w)) \/ \E p \in {Process[w] : w \in Runs} : Crash(p)
  BY <1>6, RunsLeaveItems
<1>7. QED BY <1>1, <1>2, <1>3, <1>4, <1>5, <1>6 DEF Next, RunStep, Operation

\* Once quiet, always quiet.
LEMMA QuietStable ==
    ASSUME IInv, Quiet, [Next]_vars
    PROVE  Quiet'
<1>0. Typed /\ account' # "live"
  BY TypeParts, AccountForward DEF IInv, Quiet
<1>1. item' = item
  <2>1. CASE UNCHANGED vars
    BY <2>1 DEF vars
  <2>2. CASE IssueToken \/ TokenExpires \/ LeaseLapses \/ Retry \/ \E r \in Requests : Subject(r)
    BY <2>2, OthersLeaveItems
  <2>3. ASSUME NEW i \in Items PROVE ~Operation(i) /\ ~\E kind \in Kinds : Enter(i, kind)
    BY DEF Quiet, Operation, Insert, Create, Enter
  <2>4. CASE (\E w \in Runs : RunStep(w)) \/ \E p \in {Process[w] : w \in Runs} : Crash(p)
    BY <1>0, <2>4, RunsLeaveItems
  <2>5. QED BY <2>1, <2>2, <2>3, <2>4 DEF Next, RunStep
<1>2. QED BY <1>0, <1>1 DEF Quiet

\* What a run whose fences hold knows of the workflow.
LEMMA FencedRun ==
    ASSUME IInv, NEW w \in Runs, Owns(w)
    PROVE  /\ erasure.request \in Requests /\ event.status = "processing"
           /\ Type[erasure.request] = "erasure"
           /\ erasure.step # "completed" =>
                account = "deleted" /\ request[erasure.request] = "in_progress"
BY TypeParts DEF IInv, Workflow, Owns, Typed

\* The final transaction finds no row left.
LEMMA NothingLeft ==
    ASSUME IInv, NEW w \in Runs, run[w].at = "advancing", Fenced(w), run[w].next = "completed"
    PROVE  rows = {} /\ objects = {} /\ erasure.step = "postgres" /\ account = "deleted" /\ Quiet
<1>1. Typed
  BY TypeParts DEF IInv
<1>2. erasure.step = "postgres"
  <2>1. run[w].step = "postgres"
    BY Ranks DEF IInv, RunsSound
  <2>2. QED BY <2>1 DEF Fenced
<1>3. account = "deleted" /\ Quiet
  BY <1>2, FencedRun DEF Fenced, IInv, Frozen, Working
<1>4. rows = {}
  <2>1. \A i \in rows : item[i].kind \in Kinds
    BY <1>1, ItemRecords DEF Typed
  <2>2. \A i \in rows : Rank(item[i].kind) < 4
    BY <2>1, Ranks DEF Kinds
  <2>3. \A i \in rows : Rank(item[i].kind) >= 4
    BY <1>2, Ranks DEF IInv, Cleared
  <2>4. \A k \in Kinds : Rank(k) \in Nat
    BY Ranks DEF Kinds
  <2>5. QED BY <2>1, <2>2, <2>3, <2>4
<1>5. QED BY <1>2, <1>3, <1>4 DEF IInv, Stored

\* A run only removes rows, with their objects, and only once all is quiet.
LEMMA Removals ==
    ASSUME IInv, \/ \E w \in Runs : RunStep(w)
                 \/ \E p \in {Process[w] : w \in Runs} : Crash(p)
    PROVE  /\ rows' \subseteq rows /\ objects' \subseteq objects /\ objects' \subseteq rows'
           /\ rows' # rows \/ objects' # objects => Quiet
<1>0. Typed /\ objects \subseteq rows /\ \A i \in objects : item[i].kind # "swipes"
  BY TypeParts DEF IInv, Stored
<1>1. CASE UNCHANGED <<rows, objects>>
  BY <1>0, <1>1
<1>2. ASSUME NEW w \in Runs, RemoveOutside(w) PROVE Quiet /\ \E B : rows' = rows \ B /\ objects' = objects \ B
  BY <1>2 DEF RemoveOutside, IInv, Frozen, Working
<1>3. ASSUME NEW w \in Runs, RunFails(w)
      PROVE  Quiet /\ \E B : rows' = rows \ B /\ objects' = objects \ B
  <2>1. Quiet
    BY <1>3 DEF RunFails, IInv, Frozen, Working
  <2>2. CASE UNCHANGED <<rows, objects>>
    <3>1. rows' = rows \ {} /\ objects' = objects \ {}
      BY <2>2
    <3>2. QED BY <2>1, <3>1
  <2>3. QED BY <1>3, <2>1, <2>2 DEF RunFails
<1>4. ASSUME NEW w \in Runs, DeleteSwipeBatch(w)
      PROVE  Quiet /\ objects' = objects /\ \E B \in SUBSET RowsOf("swipes") : rows' = rows \ B
  <2>1. Quiet /\ objects' = objects
    BY <1>4 DEF DeleteSwipeBatch, IInv, Frozen, Working
  <2>2. CASE UNCHANGED rows
    <3>1. rows' = rows \ {} /\ {} \in SUBSET RowsOf("swipes")
      BY <2>2
    <3>2. QED BY <2>1, <3>1
  <2>3. CASE \E B \in Batch("swipes") : rows' = rows \ B
    BY <2>1, <2>3 DEF Batch
  <2>4. QED BY <1>4, <2>1, <2>2, <2>3 DEF DeleteSwipeBatch
<1>5. ASSUME NEW w \in Runs, Advance(w) PROVE UNCHANGED <<rows, objects>>
  <2>1. CASE rows' = rows
    BY <1>5, <2>1 DEF Advance
  <2>2. CASE rows' # rows
    <3>1. run[w].at = "advancing" /\ Fenced(w) /\ run[w].next = "completed" /\ rows' = {}
      BY <1>5, <2>2 DEF Advance
    <3>2. QED BY <2>2, <3>1, NothingLeft
  <2>3. QED BY <2>1, <2>2
<1>6. ASSUME NEW w \in Runs, Claim(w) \/ FirstRead(w) \/ TryExclusive(w) \/ SecondRead(w)
                             \/ Complete(w) \/ LockLost(w)
      PROVE  UNCHANGED <<rows, objects>>
  BY <1>6 DEF Claim, FirstRead, TryExclusive, SecondRead, Complete, LockLost
<1>7. ASSUME NEW p, Crash(p) PROVE UNCHANGED <<rows, objects>>
  BY <1>7 DEF Crash
<1>8. ASSUME NEW w \in Runs, RemoveOutside(w) \/ RunFails(w) \/ DeleteSwipeBatch(w)
      PROVE  Quiet /\ rows' \subseteq rows /\ objects' \subseteq objects /\ objects' \subseteq rows'
  <2>1. CASE DeleteSwipeBatch(w)
    BY <1>0, <1>4, <2>1 DEF RowsOf
  <2>2. CASE RemoveOutside(w) \/ RunFails(w)
    BY <1>0, <1>2, <1>3, <2>2
  <2>3. QED BY <1>8, <2>1, <2>2
<1>9. QED BY <1>1, <1>5, <1>6, <1>7, <1>8 DEF RunStep, Step

-----------------------------------------------------------------------------
(* Every step keeps the invariant.                                         *)

\* What an operation of the owner does to its own item.
LEMMA Operations ==
    ASSUME Typed, NEW i \in Items, Operation(i) \/ \E kind \in Kinds : Enter(i, kind)
    PROVE  /\ \A j \in Items : j # i => item'[j] = item[j]
           /\ UNCHANGED <<account, erasure, run>>
           /\ \/ /\ item[i].at = "new" /\ item'[i].at = "entered" /\ account = "live"
                 /\ UNCHANGED <<rows, objects>>
              \/ /\ item[i].at = "entered" /\ item'[i].kind = item[i].kind
                 /\ account = "live" /\ item'[i].at = (IF item[i].kind = "swipes" THEN "over" ELSE "inserted")
                 /\ rows' = rows \cup {i} /\ UNCHANGED objects
              \/ /\ item[i].at = "entered" /\ item'[i].kind = item[i].kind
                 /\ account # "live" /\ item'[i].at = "over"
                 /\ UNCHANGED <<rows, objects>>
              \/ /\ item[i].at = "inserted" /\ item'[i].kind = item[i].kind /\ item'[i].at = "over"
                 /\ UNCHANGED rows /\ objects' \in {objects, objects \cup {i}}
<1>1. ASSUME NEW kind \in Kinds, Enter(i, kind)
      PROVE  /\ item[i].at = "new" /\ item'[i].at = "entered" /\ account = "live"
             /\ UNCHANGED <<rows, objects, account, erasure, run>>
             /\ \A j \in Items : j # i => item'[j] = item[j]
  BY <1>1 DEF Enter, Typed
<1>2. CASE Insert(i)
  BY <1>2 DEF Insert, Typed, ItemType
<1>3. CASE Create(i)
  BY <1>3 DEF Create, Typed, ItemType
<1>4. QED BY <1>1, <1>2, <1>3 DEF Operation

\* Rows come before objects and go after them.
LEMMA StoredNext ==
    ASSUME IInv, [Next]_vars
    PROVE  Stored'
<1>0. Typed /\ Stored /\ rows \subseteq Items /\ objects \subseteq Items
  BY TypeParts DEF IInv, Typed
<1>1. CASE UNCHANGED vars
  BY <1>0, <1>1 DEF vars, Stored
<1>2. CASE IssueToken \/ TokenExpires \/ LeaseLapses \/ Retry \/ \E r \in Requests : Subject(r)
  BY <1>0, <1>2, OthersLeaveItems DEF Stored
<1>3. ASSUME NEW i \in Items, Operation(i) \/ \E kind \in Kinds : Enter(i, kind) PROVE Stored'
  <2>0. \A j \in Items : j # i => item'[j] = item[j]
    BY <1>0, <1>3, Operations
  <2>1. CASE /\ item[i].at = "new" /\ item'[i].at = "entered" /\ UNCHANGED <<rows, objects>>
    BY <1>0, <2>0, <2>1 DEF Stored
  <2>2. CASE /\ item[i].at = "entered" /\ item'[i].kind = item[i].kind
             /\ item'[i].at = (IF item[i].kind = "swipes" THEN "over" ELSE "inserted")
             /\ rows' = rows \cup {i} /\ UNCHANGED objects
    BY <1>0, <2>0, <2>2 DEF Stored
  <2>3. CASE /\ item[i].at = "entered" /\ item'[i].kind = item[i].kind
             /\ item'[i].at = "over" /\ UNCHANGED <<rows, objects>>
    BY <1>0, <2>0, <2>3 DEF Stored
  <2>4. CASE /\ item[i].at = "inserted" /\ item'[i].kind = item[i].kind /\ item'[i].at = "over"
             /\ UNCHANGED rows /\ objects' \in {objects, objects \cup {i}}
    BY <1>0, <2>0, <2>4 DEF Stored
  <2>5. QED BY <1>0, <1>3, <2>1, <2>2, <2>3, <2>4, Operations
<1>4. CASE (\E w \in Runs : RunStep(w)) \/ \E p \in {Process[w] : w \in Runs} : Crash(p)
  <2>1. item' = item
    BY <1>0, <1>4, RunsLeaveItems
  <2>2. CASE UNCHANGED <<rows, objects>>
    BY <1>0, <2>1, <2>2 DEF Stored
  <2>3. CASE ~UNCHANGED <<rows, objects>>
    BY <1>0, <1>4, <2>1, <2>3, Removals DEF Stored, Quiet
  <2>4. QED BY <2>2, <2>3
<1>5. QED BY <1>1, <1>2, <1>3, <1>4 DEF Next, RunStep

\* The exclusive lock is granted when no operation is under way, to a run
\* whose account is frozen; everything irreversible comes after it.
LEMMA FrozenNext ==
    ASSUME IInv, [Next]_vars
    PROVE  Frozen'
<1>0. Typed
  BY TypeParts DEF IInv
<1>1. CASE Quiet
  <2>1. Quiet'
    BY <1>1, QuietStable
  <2>2. QED BY <2>1 DEF Frozen
<1>2. CASE ~Quiet
  <2>0. (\A w \in Runs : run[w].at \notin Working) /\ erasure.step = "stripe" /\ account # "anonymized"
    BY <1>2 DEF IInv, Frozen
  <2>1. account' # "anonymized"
    BY <2>0, AccountForward DEF Advance, Working
  <2>2. CASE UNCHANGED vars
    BY <2>0, <2>1, <2>2 DEF vars, Frozen
  <2>3. CASE IssueToken \/ TokenExpires \/ LeaseLapses \/ Retry \/ \E r \in Requests : Subject(r)
    <3>1. erasure'.step = "stripe"
      BY <2>0, <2>3 DEF IssueToken, TokenExpires, LeaseLapses, Retry, Subject, CreateRequest,
           AcceptErasure, PurgeRequest, UpdateRequest, Enqueue, NoErasure
    <3>2. QED BY <2>0, <2>1, <2>3, <3>1, OthersLeaveItems DEF Frozen
  <2>4. ASSUME NEW i \in Items, Operation(i) \/ \E kind \in Kinds : Enter(i, kind) PROVE Frozen'
    <3>1. UNCHANGED <<account, erasure, run>>
      BY <1>0, <2>4, Operations
    <3>2. QED BY <2>0, <3>1 DEF Frozen
  <2>5. ASSUME NEW w \in Runs, RunStep(w), ~TryExclusive(w) PROVE Frozen'
    <3>1. /\ ~SecondRead(w) /\ ~RemoveOutside(w) /\ ~DeleteSwipeBatch(w) /\ ~Advance(w) /\ ~RunFails(w)
      BY <2>0 DEF SecondRead, RemoveOutside, DeleteSwipeBatch, Advance, RunFails, Working
    <3>2. erasure' = erasure
      BY <2>5, <3>1 DEF RunStep, Step, Claim, FirstRead, Complete, LockLost
    <3>3. \A v \in Runs : run'[v].at \notin Working
      <4>1. \A v \in Runs : v # w => run'[v] = run[v]
        BY <1>0, <2>5, <3>1 DEF RunStep, Step, Claim, FirstRead, Complete, LockLost, Typed
      <4>2. run'[w].at \in {run[w].at, "claimed", "idle", "acking", "locking"}
        <5>1. CASE Claim(w) \/ Complete(w) \/ LockLost(w)
          BY <1>0, <5>1 DEF Claim, Complete, LockLost, Typed, Idle
        <5>2. CASE FirstRead(w)
          BY <1>0, <5>2 DEF FirstRead, Typed, Idle, RunType
        <5>3. QED BY <2>5, <3>1, <5>1, <5>2 DEF RunStep, Step
      <4>3. QED BY <2>0, <4>1, <4>2 DEF Working
    <3>4. QED BY <2>0, <2>1, <3>2, <3>3 DEF Frozen
  <2>6. ASSUME NEW w \in Runs, TryExclusive(w) PROVE Frozen'
    <3>1. locks # {}
      <4>1. locks = {} => \A i \in Items : item[i].at \notin {"entered", "inserted"}
        BY DEF IInv, Held
      <4>2. account # "live"
        BY <2>6 DEF TryExclusive, IInv, RunsSound
      <4>3. QED BY <1>2, <4>1, <4>2 DEF Quiet
    <3>2. erasure' = erasure /\ run' = [run EXCEPT ![w] = Idle]
      BY <2>6, <3>1 DEF TryExclusive
    <3>3. \A v \in Runs : run'[v].at \notin Working
      BY <1>0, <2>0, <3>2 DEF Typed, Working, Idle
    <3>4. QED BY <2>0, <2>1, <3>2, <3>3 DEF Frozen
  <2>7. ASSUME NEW p, Crash(p) PROVE Frozen'
    <3>1. erasure' = erasure /\ \A v \in Runs : run'[v].at \notin Working
      BY <2>0, <2>7, RunRecords DEF Crash, Working
    <3>2. QED BY <2>0, <2>1, <3>1 DEF Frozen
  <2>8. QED BY <2>2, <2>3, <2>4, <2>5, <2>6, <2>7 DEF Next, RunStep, Step
<1>3. QED BY <1>1, <1>2

\* A row that is still there has the kind it had.
LEMMA KindsKept ==
    ASSUME IInv, [Next]_vars
    PROVE  \A i \in rows : item'[i].kind = item[i].kind
<1>0. Typed /\ Stored /\ rows \subseteq Items
  BY TypeParts DEF IInv, Typed
<1>1. CASE UNCHANGED vars
  BY <1>1 DEF vars
<1>2. CASE IssueToken \/ TokenExpires \/ LeaseLapses \/ Retry \/ \E r \in Requests : Subject(r)
  BY <1>2, OthersLeaveItems
<1>3. ASSUME NEW i \in Items, Operation(i) \/ \E kind \in Kinds : Enter(i, kind)
      PROVE  \A j \in rows : item'[j].kind = item[j].kind
  <2>1. \A j \in Items : j # i => item'[j] = item[j]
    BY <1>0, <1>3, Operations
  <2>2. item[i].at = "new" \/ item'[i].kind = item[i].kind
    BY <1>0, <1>3, Operations
  <2>3. QED BY <1>0, <2>1, <2>2 DEF Stored
<1>4. CASE (\E w \in Runs : RunStep(w)) \/ \E p \in {Process[w] : w \in Runs} : Crash(p)
  BY <1>0, <1>4, RunsLeaveItems
<1>5. QED BY <1>1, <1>2, <1>3, <1>4 DEF Next, RunStep

\* Rows are added only to a live account.
LEMMA RowsShrink ==
    ASSUME IInv, [Next]_vars, account # "live"
    PROVE  rows' \subseteq rows
<1>0. Typed
  BY TypeParts DEF IInv
<1>1. CASE UNCHANGED vars
  BY <1>1 DEF vars
<1>2. CASE IssueToken \/ TokenExpires \/ LeaseLapses \/ Retry \/ \E r \in Requests : Subject(r)
  BY <1>2, OthersLeaveItems
<1>3. ASSUME NEW i \in Items, Operation(i) \/ \E kind \in Kinds : Enter(i, kind) PROVE rows' \subseteq rows
  BY <1>0, <1>3, Operations
<1>4. CASE (\E w \in Runs : RunStep(w)) \/ \E p \in {Process[w] : w \in Runs} : Crash(p)
  BY <1>4, Removals
<1>5. QED BY <1>1, <1>2, <1>3, <1>4 DEF Next, RunStep

\* The workflow moves to its next step when no row of its step is left.
LEMMA StepsForward ==
    ASSUME IInv, [Next]_vars
    PROVE  \/ erasure'.step = erasure.step
           \/ erasure'.step = "stripe" /\ None \in {erasure.request, erasure'.request}
           \/ /\ erasure.step \in Kinds /\ erasure'.step = After(erasure.step)
              /\ \A i \in rows' : item[i].kind # erasure.step
              /\ erasure.request \in Requests /\ erasure'.request = erasure.request
           \/ /\ erasure.step = "postgres" /\ erasure'.step = "completed"
              /\ erasure.request \in Requests /\ erasure'.request = erasure.request
<1>0. Typed
  BY TypeParts DEF IInv
<1>1. CASE UNCHANGED vars
  BY <1>1 DEF vars
<1>2. CASE IssueToken \/ TokenExpires \/ LeaseLapses \/ Retry \/ \E r \in Requests : Subject(r)
  BY <1>2 DEF IssueToken, TokenExpires, LeaseLapses, Retry, Subject, CreateRequest,
              AcceptErasure, PurgeRequest, UpdateRequest, Enqueue, NoErasure
<1>3. ASSUME NEW i \in Items, Operation(i) \/ \E kind \in Kinds : Enter(i, kind)
      PROVE  erasure' = erasure
  BY <1>0, <1>3, Operations
<1>4. ASSUME NEW w \in Runs, RunStep(w), ~DeleteSwipeBatch(w), ~Advance(w) PROVE erasure' = erasure
  BY <1>4 DEF RunStep, Step, Claim, FirstRead, TryExclusive, SecondRead, RemoveOutside, Complete,
              RunFails, LockLost
<1>5. ASSUME NEW p, Crash(p) PROVE erasure' = erasure
  BY <1>5 DEF Crash
<1>6. ASSUME NEW w \in Runs, DeleteSwipeBatch(w), erasure' # erasure
      PROVE  \/ erasure'.step = erasure.step
             \/ /\ erasure.step = "swipes" /\ erasure'.step = After("swipes")
                /\ \A i \in rows' : item[i].kind # "swipes"
                /\ erasure.request \in Requests /\ erasure'.request = erasure.request
  <2>1. Owns(w) /\ erasure.step = "swipes"
    BY <1>6 DEF DeleteSwipeBatch
  <2>2. PICK B \in Batch("swipes") : /\ rows' = rows \ B
                                     /\ erasure' = [erasure EXCEPT !.step = Following("swipes", B)]
    BY <1>6, <2>1 DEF DeleteSwipeBatch
  <2>3. erasure'.step = Following("swipes", B) /\ erasure'.request = erasure.request
    BY <1>0, <2>2 DEF Typed
  <2>4. CASE Following("swipes", B) = "swipes"
    BY <2>1, <2>3, <2>4
  <2>5. CASE Following("swipes", B) # "swipes"
    <3>1. B = RowsOf("swipes") /\ Following("swipes", B) = After("swipes")
      BY <2>5, Batches DEF Kinds
    <3>2. erasure.request \in Requests
      BY <2>1, FencedRun
    <3>3. QED BY <2>1, <2>2, <2>3, <3>1, <3>2 DEF RowsOf
  <2>6. QED BY <2>4, <2>5
<1>7. ASSUME NEW w \in Runs, Advance(w), erasure' # erasure
      PROVE  \/ erasure'.step = erasure.step
             \/ /\ erasure.step \in Kinds /\ erasure'.step = After(erasure.step)
                /\ \A i \in rows' : item[i].kind # erasure.step
                /\ erasure.request \in Requests /\ erasure'.request = erasure.request
             \/ /\ erasure.step = "postgres" /\ erasure'.step = "completed"
                /\ erasure.request \in Requests /\ erasure'.request = erasure.request
  <2>1. Fenced(w) /\ run[w].at = "advancing"
    BY <1>7 DEF Advance
  <2>2. erasure.request \in Requests /\ erasure.step = run[w].step
    BY <2>1, FencedRun DEF Fenced
  <2>3. erasure' = [erasure EXCEPT !.step = run[w].next]
    BY <1>7, <2>1 DEF Advance
  <2>4. erasure'.step = run[w].next /\ erasure'.request = erasure.request
    BY <1>0, <2>3 DEF Typed
  <2>5. CASE run[w].step = "postgres" /\ run[w].next = "completed"
    BY <2>2, <2>4, <2>5
  <2>6. CASE run[w].next = run[w].step
    BY <2>2, <2>4, <2>6
  <2>7. CASE /\ run[w].step \in {"stripe", "photos"} /\ run[w].next = After(run[w].step)
             /\ \A i \in rows : item[i].kind # run[w].step
    <3>1. rows' \subseteq rows
      BY <1>7, Removals DEF RunStep, Step
    <3>2. QED BY <2>2, <2>4, <2>7, <3>1 DEF Kinds
  <2>8. QED BY <2>1, <2>5, <2>6, <2>7 DEF IInv, RunsSound
<1>8. QED BY <1>1, <1>2, <1>3, <1>4, <1>5, <1>6, <1>7 DEF Next, RunStep, Kinds

\* The steps that the workflow has left stay empty.
LEMMA ClearedNext ==
    ASSUME IInv, [Next]_vars
    PROVE  Cleared'
<1>0. /\ Typed /\ Cleared /\ rows \subseteq Items /\ rows' \subseteq Items
      /\ \A i \in Items : item[i].kind \in Kinds /\ item'[i].kind \in Kinds
  BY TypeParts, TypedNext, ItemRecords DEF IInv, Typed
<1>1. \A k \in Kinds : Rank(k) \in 1..3
  BY Ranks DEF Kinds
<1>2. account' = "anonymized" => rows' = {}
  <2> SUFFICES ASSUME account' = "anonymized" PROVE rows' = {}
    OBVIOUS
  <2>1. CASE account = "anonymized"
    BY <1>0, <2>1, RowsShrink DEF Cleared
  <2>2. CASE account # "anonymized"
    <3>1. PICK w \in Runs : Advance(w)
      BY <2>2, AccountForward
    <3>2. QED BY <2>2, <3>1 DEF Advance
  <2>3. QED BY <2>1, <2>2
<1>3. ASSUME NEW i \in rows' PROVE Rank(item'[i].kind) >= Rank(erasure'.step)
  <2>1. CASE erasure'.step = "stripe"
    BY <1>0, <1>1, <2>1, Ranks
  <2>2. CASE erasure'.step # "stripe"
    <3>2. account # "live"
      <4>1. erasure # NoErasure
        BY <1>0, <2>2, StepsForward, ErasureAssumption DEF NoErasure, Typed
      <4>2. QED BY <4>1 DEF IInv, Workflow
    <3>3. i \in rows /\ item'[i].kind = item[i].kind
      BY <3>2, RowsShrink, KindsKept
    <3>4. Rank(item[i].kind) >= Rank(erasure.step) /\ item[i].kind \in Kinds
      BY <1>0, <3>3 DEF Cleared
    <3>5. CASE erasure'.step = erasure.step
      BY <3>3, <3>4, <3>5
    <3>6. CASE /\ erasure.step \in Kinds /\ erasure'.step = After(erasure.step)
               /\ \A j \in rows' : item[j].kind # erasure.step
      BY <3>3, <3>4, <3>6, Ranks DEF Kinds
    <3>7. CASE erasure.step = "postgres"
      BY <1>1, <3>4, <3>7, Ranks
    <3>8. QED BY <2>2, <3>5, <3>6, <3>7, StepsForward
  <2>3. QED BY <2>1, <2>2
<1>4. QED BY <1>2, <1>3 DEF Cleared

\* The part of RunsSound about one run.
RunSound(w) ==
    /\ run[w].at # "idle" => account # "live"
    /\ run[w].at = "removing" => run[w].step \in Kinds
    /\ run[w].at = "advancing" =>
         \/ run[w].step = "postgres" /\ run[w].next = "completed"
         \/ run[w].step \in {"stripe", "photos"} /\ run[w].next = run[w].step
         \/ /\ run[w].step \in {"stripe", "photos"} /\ run[w].next = After(run[w].step)
            /\ \A i \in rows : item[i].kind # run[w].step
    /\ run[w].at = "acking" => account = "anonymized"

\* What a run knows stays true while others work.
LEMMA RunKept ==
    ASSUME IInv, [Next]_vars, NEW v \in Runs, run'[v] = run[v]
    PROVE  RunSound(v)'
<1>1. RunSound(v)
  BY DEF IInv, RunsSound, RunSound
<1>2. CASE run[v].at = "idle"
  BY <1>2 DEF RunSound
<1>3. CASE run[v].at # "idle"
  <2>1. account # "live" /\ account' # "live"
    BY <1>1, <1>3, AccountForward DEF RunSound
  <2>2. \A i \in rows' : i \in rows /\ item'[i].kind = item[i].kind
    BY <2>1, RowsShrink, KindsKept
  <2>3. account = "anonymized" => account' = "anonymized"
    BY AccountForward
  <2>4. QED BY <1>1, <2>1, <2>2, <2>3 DEF RunSound
<1>4. QED BY <1>2, <1>3

\* A run acts on what it has read.
LEMMA RunsSoundNext ==
    ASSUME IInv, [Next]_vars
    PROVE  RunsSound'
<1>0. Typed
  BY TypeParts DEF IInv
<1> SUFFICES ASSUME NEW v \in Runs PROVE RunSound(v)'
  BY DEF RunsSound, RunSound
<1>1. CASE run'[v] = run[v]
  BY <1>1, RunKept
<1>2. CASE run'[v].at = "idle"
  BY <1>2 DEF RunSound
<1>3. CASE Claim(v)
  <2>1. run'[v].at = "claimed" /\ account' = account
    BY <1>0, <1>3 DEF Claim, Typed, Idle
  <2>2. account # "live"
    BY <1>3 DEF Claim, IInv, Workflow, NoErasure
  <2>3. QED BY <2>1, <2>2 DEF RunSound
<1>4. CASE FirstRead(v) /\ run'[v].at # "idle"
  <2>1. Owns(v) /\ account' = account
    BY <1>0, <1>4 DEF FirstRead, Typed, Idle
  <2>2. account # "live"
    BY <1>4 DEF FirstRead, IInv, RunsSound
  <2>3. CASE erasure.step = "completed"
    <3>1. run'[v].at = "acking"
      BY <1>0, <1>4, <2>1, <2>3 DEF FirstRead, Typed, RunType, Idle
    <3>2. account = "anonymized"
      BY <2>1, <2>3, FencedRun, ErasureAssumption DEF IInv, Workflow
    <3>3. QED BY <2>1, <3>1, <3>2 DEF RunSound
  <2>4. CASE erasure.step # "completed"
    <3>1. run'[v].at = "locking"
      BY <1>0, <1>4, <2>1, <2>4 DEF FirstRead, Typed, RunType, Idle
    <3>2. QED BY <2>1, <2>2, <3>1 DEF RunSound
  <2>5. QED BY <2>3, <2>4
<1>5. CASE TryExclusive(v) /\ run'[v].at # "idle"
  <2>1. run'[v].at = "reading" /\ account' = account
    BY <1>0, <1>5 DEF TryExclusive, Typed, RunType, Idle
  <2>2. account # "live"
    BY <1>5 DEF TryExclusive, IInv, RunsSound
  <2>3. QED BY <2>1, <2>2 DEF RunSound
<1>6. CASE SecondRead(v) /\ run'[v].at # "idle"
  <2>1. Owns(v)
    BY <1>0, <1>6 DEF SecondRead, Leave, Typed, Idle
  <2>2. account' = account /\ account # "live"
    BY <1>6 DEF SecondRead, IInv, RunsSound
  <2>3. CASE erasure.step = "completed"
    <3>1. run'[v].at = "acking"
      BY <1>0, <1>6, <2>1, <2>3 DEF SecondRead, Typed, RunType
    <3>2. account = "anonymized"
      BY <2>1, <2>3, FencedRun, ErasureAssumption DEF IInv, Workflow
    <3>3. QED BY <2>2, <3>1, <3>2 DEF RunSound
  <2>4. CASE erasure.step = "postgres"
    <3>1. run'[v] = [at |-> "advancing", step |-> "postgres", next |-> "completed"]
      BY <1>0, <1>6, <2>1, <2>4 DEF SecondRead, Typed
    <3>2. QED BY <2>2, <3>1 DEF RunSound
  <2>5. CASE erasure.step \notin {"completed", "postgres"}
    <3>1. run'[v] = [at |-> "removing", step |-> erasure.step, next |-> erasure.step]
      BY <1>0, <1>6, <2>1, <2>5 DEF SecondRead, Typed
    <3>2. erasure.step \in Kinds
      BY <1>0, <2>5 DEF Typed, StepNames, Kinds
    <3>3. QED BY <2>2, <3>1, <3>2 DEF RunSound
  <2>6. QED BY <2>3, <2>4, <2>5
<1>7. CASE RemoveOutside(v)
  <2>1. PICK B \in Batch(run[v].step) :
          /\ rows' = rows \ B
          /\ run' = [run EXCEPT ![v].at = "advancing", ![v].next = Following(run[v].step, B)]
    BY <1>7 DEF RemoveOutside
  <2>2. run'[v].at = "advancing" /\ run'[v].step = run[v].step /\ run'[v].next = Following(run[v].step, B)
    BY <1>0, <2>1 DEF Typed, RunType
  <2>3. run[v].step \in {"stripe", "photos"} /\ account' = account /\ account # "live" /\ item' = item
    BY <1>7 DEF RemoveOutside, IInv, RunsSound
  <2>4. CASE Following(run[v].step, B) = run[v].step
    BY <2>2, <2>3, <2>4 DEF RunSound
  <2>5. CASE Following(run[v].step, B) # run[v].step
    <3>1. B = RowsOf(run[v].step) /\ Following(run[v].step, B) = After(run[v].step)
      BY <2>3, <2>5, Batches DEF Kinds
    <3>2. \A i \in rows' : item'[i].kind # run[v].step
      BY <2>1, <2>3, <3>1 DEF RowsOf
    <3>3. QED BY <2>2, <2>3, <3>1, <3>2 DEF RunSound
  <2>6. QED BY <2>4, <2>5
<1>8. CASE Advance(v) /\ run'[v].at # "idle"
  <2>1. run'[v].at = "acking" /\ account' = "anonymized"
    BY <1>0, <1>8 DEF Advance, Leave, Typed, RunType, Idle
  <2>2. QED BY <2>1 DEF RunSound
<1>9. ASSUME NEW w \in Runs, RunStep(w), v # w PROVE run'[v] = run[v]
  BY <1>0, <1>9 DEF RunStep, Step, Claim, FirstRead, TryExclusive, SecondRead, RemoveOutside,
              DeleteSwipeBatch, Advance, Complete, RunFails, LockLost, Leave, Typed
<1>10. CASE DeleteSwipeBatch(v) \/ Complete(v) \/ RunFails(v)
  <2>1. run'[v].at = "idle"
    BY <1>0, <1>10 DEF DeleteSwipeBatch, Complete, RunFails, Leave, Typed, Idle
  <2>2. QED BY <1>2, <2>1
<1>11. CASE LockLost(v)
  BY <1>1, <1>11 DEF LockLost
<1>12. ASSUME NEW p, Crash(p) PROVE run'[v] = run[v] \/ run'[v].at = "idle"
  BY <1>12 DEF Crash, Idle
<1>13. CASE UNCHANGED vars
  BY <1>1, <1>13 DEF vars
<1>14. CASE IssueToken \/ TokenExpires \/ LeaseLapses \/ Retry \/ \E r \in Requests : Subject(r)
  BY <1>1, <1>14, OthersLeaveItems
<1>15. ASSUME NEW i \in Items, Operation(i) \/ \E kind \in Kinds : Enter(i, kind) PROVE run' = run
  BY <1>0, <1>15, Operations
<1>16. CASE RunStep(v)
  BY <1>2, <1>3, <1>4, <1>5, <1>6, <1>7, <1>8, <1>10, <1>11, <1>16 DEF RunStep, Step
<1>17. QED BY <1>1, <1>2, <1>9, <1>12, <1>13, <1>14, <1>15, <1>16 DEF Next, RunStep

\* A step that only writes the event.
LEMMA EventOnly ==
    ASSUME Workflow, UNCHANGED <<account, request, erasure>>,
           event.status = "none" <=> event'.status = "none",
           event'.status = "completed" => account = "anonymized",
           event'.status = "processing" => event'.attempts >= 1
    PROVE  Workflow'
BY DEF Workflow

\* The owner's acceptance and the administrator's completion begin a workflow
\* for the only open request for an erasure of a live account.
LEMMA EnqueueBegins ==
    ASSUME IInv, NEW r \in Requests, Type[r] = "erasure", erasure.request # r,
           request[r] \in Open \/ (account = "live" /\ \A s \in Requests : Type[s] = "erasure" => request[s] \notin Open),
           Enqueue(r, "in_progress")
    PROVE  /\ account = "live" /\ account' = "deleted"
           /\ erasure' = [request |-> r, step |-> "stripe"] /\ event' = Checkpointed
           /\ request' = [request EXCEPT ![r] = "in_progress"]
           /\ \A s \in Requests : s # r /\ Type[s] = "erasure" => request[s] \notin Open
<1>0. Typed /\ OneOpen
  BY TypeParts DEF IInv
<1>1. erasure.request = None
  BY DEF Enqueue
<1>2. account = "live"
  <2>1. CASE request[r] \in Open /\ account # "live"
    <3>1. r = erasure.request
      BY <2>1 DEF IInv, Workflow
    <3>2. QED BY <3>1
  <2>2. QED BY <2>1
<1>3. \A s \in Requests : s # r /\ Type[s] = "erasure" => request[s] \notin Open
  BY <1>0 DEF OneOpen
<1>4. QED BY <1>1, <1>2, <1>3 DEF Enqueue, Checkpointed

\* The two ways to begin a workflow, as one.
Begins(r) ==
    /\ Type[r] = "erasure" /\ erasure.request # r
    /\ request[r] \in Open \/ (account = "live" /\ \A s \in Requests : Type[s] = "erasure" => request[s] \notin Open)
    /\ Enqueue(r, "in_progress")

\* What an administrator or a subject may otherwise do to a request.
Moves(r) ==
    /\ UNCHANGED <<account, erasure, event>> /\ erasure.request # r
    /\ \/ /\ account = "live" /\ \A s \in Requests : Type[s] = Type[r] => request[s] \notin Open
          /\ request' = [request EXCEPT ![r] = "pending"]
       \/ /\ request[r] \in Open
          /\ \E status \in {"in_progress", "completed", "rejected"} : request' = [request EXCEPT ![r] = status]

\* The actions on requests begin a workflow, move a request or purge one.
LEMMA SubjectKinds ==
    ASSUME IInv, NEW r \in Requests, Subject(r)
    PROVE  Begins(r) \/ Moves(r) \/ PurgeRequest(r)
<1>0. account = "live" => erasure.request # r
  BY ErasureAssumption DEF IInv, Workflow, NoErasure
<1>1. CASE CreateRequest(r)
  BY <1>0, <1>1 DEF CreateRequest, Moves
<1>2. CASE AcceptErasure(r)
  BY <1>0, <1>2 DEF AcceptErasure, Begins
<1>3. ASSUME NEW status \in {"in_progress", "completed", "rejected"}, UpdateRequest(r, status)
      PROVE  Begins(r) \/ Moves(r)
  BY <1>3 DEF UpdateRequest, Begins, Moves
<1>4. QED BY <1>1, <1>2, <1>3 DEF Subject

\* At most one request of a type is open.
LEMMA OneOpenNext ==
    ASSUME IInv, [Next]_vars
    PROVE  OneOpen'
<1>0. Typed /\ OneOpen
  BY TypeParts DEF IInv
<1>1. ASSUME NEW r \in Requests, Begins(r) PROVE OneOpen'
  <2>1. /\ request' = [request EXCEPT ![r] = "in_progress"]
        /\ \A s \in Requests : s # r /\ Type[s] = "erasure" => request[s] \notin Open
    BY <1>1, EnqueueBegins DEF Begins
  <2>2. QED BY <1>0, <1>1, <2>1 DEF OneOpen, Begins, Typed
<1>2. ASSUME NEW r \in Requests, Moves(r) PROVE OneOpen'
  BY <1>0, <1>2 DEF OneOpen, Moves, Open, Typed
<1>3. ASSUME NEW r \in Requests, PurgeRequest(r) PROVE OneOpen'
  BY <1>0, <1>3 DEF OneOpen, PurgeRequest, Open, Typed
<1>4. CASE UNCHANGED request
  BY <1>0, <1>4 DEF OneOpen
<1>5. ASSUME NEW w \in Runs, RunStep(w)
      PROVE  request' = request \/ request' = [request EXCEPT ![erasure.request] = "completed"]
  BY <1>5 DEF RunStep, Step, Claim, FirstRead, TryExclusive, SecondRead, RemoveOutside,
              DeleteSwipeBatch, Advance, Complete, RunFails, LockLost
<1>6. CASE request' = [request EXCEPT ![erasure.request] = "completed"]
  BY <1>0, <1>6 DEF OneOpen, Open, Typed
<1>7. CASE IssueToken \/ TokenExpires \/ LeaseLapses \/ Retry \/ UNCHANGED vars
  BY <1>4, <1>7 DEF IssueToken, TokenExpires, LeaseLapses, Retry, vars
<1>8. ASSUME NEW i \in Items, Operation(i) \/ \E kind \in Kinds : Enter(i, kind) PROVE request' = request
  BY <1>8 DEF Operation, Insert, Create, Enter
<1>9. ASSUME NEW p, Crash(p) PROVE request' = request
  BY <1>9 DEF Crash
<1>10. QED BY <1>1, <1>2, <1>3, <1>4, <1>5, <1>6, <1>7, <1>8, <1>9, SubjectKinds DEF Next, RunStep

\* Requests keep their workflow, its event and the account in step.
LEMMA SubjectWorkflow ==
    ASSUME IInv, NEW r \in Requests, Subject(r)
    PROVE  Workflow'
<1>0. Typed /\ Workflow
  BY TypeParts DEF IInv
<1>1. CASE Begins(r)
  <2>1. /\ account' = "deleted"
        /\ erasure' = [request |-> r, step |-> "stripe"] /\ event' = Checkpointed
        /\ request' = [request EXCEPT ![r] = "in_progress"]
        /\ \A s \in Requests : s # r /\ Type[s] = "erasure" => request[s] \notin Open
    BY <1>1, EnqueueBegins DEF Begins
  <2>2. erasure'.request = r /\ erasure'.step = "stripe" /\ event'.status = "pending" /\ r # None
    BY <2>1, Events, ErasureAssumption
  <2>3. request'[r] = "in_progress" /\ \A s \in Requests : s # r => request'[s] = request[s]
    BY <1>0, <2>1 DEF Typed
  <2>4. QED BY <1>1, <2>1, <2>2, <2>3 DEF Workflow, Begins
<1>2. CASE Moves(r)
  <2>1. /\ \A s \in Requests : s # r => request'[s] = request[s]
        /\ account # "live" => request[r] \in Open
    BY <1>0, <1>2 DEF Moves, Typed
  <2>2. erasure.request \in Requests \cup {None}
    BY <1>0 DEF Typed
  <2>3. QED BY <1>0, <1>2, <2>1, <2>2 DEF Moves, Workflow
<1>3. CASE PurgeRequest(r)
  <2>0. /\ \A s \in Requests : s # r => request'[s] = request[s]
        /\ request'[r] = "purged" /\ request[r] \notin Open /\ account' = account
        /\ erasure.request \in Requests \cup {None}
    BY <1>0, <1>3 DEF PurgeRequest, Open, Typed
  <2>1. CASE erasure.request # r
    BY <1>0, <1>3, <2>0, <2>1 DEF PurgeRequest, Workflow, Open
  <2>2. CASE erasure.request = r
    <3>1. account = "anonymized"
      BY <1>0, <1>3, <2>2, ErasureAssumption DEF PurgeRequest, Workflow
    <3>2. erasure' = NoErasure /\ event' = NoEvent
      BY <1>3, <2>2 DEF PurgeRequest
    <3>3. erasure'.request = None /\ erasure'.step = "stripe" /\ event'.status = "none"
      BY <3>2 DEF NoErasure, NoEvent
    <3>4. \A s \in Requests : Type[s] = "erasure" => request'[s] \notin Open
      BY <1>0, <2>0, <2>2, <3>1 DEF Workflow, Open
    <3>5. QED BY <2>0, <3>1, <3>3, <3>4 DEF Workflow
  <2>3. QED BY <2>1, <2>2
<1>4. QED BY <1>1, <1>2, <1>3, SubjectKinds

\* A checkpoint moves the step and gives the event back.
LEMMA CheckpointWorkflow ==
    ASSUME IInv, NEW w \in Runs, Owns(w), erasure.step # "completed",
           UNCHANGED <<account, request>>, NEW s \in StepNames \ {"completed"},
           erasure' = [erasure EXCEPT !.step = s], event' = Checkpointed
    PROVE  Workflow'
<1>1. Typed /\ Workflow
  BY TypeParts DEF IInv
<1>2. erasure'.request = erasure.request /\ erasure'.step = s /\ event'.status = "pending"
  BY <1>1, Events DEF Typed
<1>3. erasure.request \in Requests /\ erasure.request # None /\ account = "deleted"
  BY FencedRun, ErasureAssumption
<1>4. QED BY <1>1, <1>2, <1>3 DEF Workflow

\* The runs keep the workflow, its event and the account in step.
LEMMA RunWorkflow ==
    ASSUME IInv, NEW w \in Runs, RunStep(w)
    PROVE  Workflow'
<1>0. Typed /\ Workflow /\ event.attempts \in Nat
  BY TypeParts, Events DEF IInv, Typed
<1>1. ASSUME UNCHANGED <<account, request, erasure>>, event' \in {event, Rescheduled(w)} PROVE Workflow'
  <2>1. CASE event' = event
    BY <1>0, <1>1, <2>1 DEF Workflow
  <2>2. CASE event' # event
    <3>1. Owns(w) /\ event'.status \in {"pending", "dead_letter"}
      BY <1>0, <1>1, <2>2, Reschedules DEF Typed
    <3>2. event.status = "processing"
      BY <3>1, FencedRun
    <3>3. QED BY <1>0, <1>1, <3>1, <3>2, EventOnly
  <2>3. QED BY <2>1, <2>2
<1>2. CASE Claim(w)
  <2>1. event'.status = "processing" /\ event'.attempts = event.attempts + 1 /\ event.status # "none"
    BY <1>2 DEF Claim
  <2>2. event'.attempts >= 1
    BY <1>0, <2>1
  <2>3. QED BY <1>0, <1>2, <2>1, <2>2, EventOnly DEF Claim
<1>3. CASE FirstRead(w)
  BY <1>1, <1>3 DEF FirstRead
<1>4. CASE TryExclusive(w)
  <2>1. UNCHANGED <<account, request, erasure>>
    BY <1>4 DEF TryExclusive
  <2>2. CASE event' = event
    BY <1>1, <2>1, <2>2
  <2>3. CASE event' # event
    <3>1. Owns(w) /\ event' = [NoEvent EXCEPT !.status = "pending", !.attempts = event.attempts - 1]
      BY <1>4, <2>3 DEF TryExclusive
    <3>2. event'.status = "pending" /\ event.status = "processing"
      BY <3>1, FencedRun DEF NoEvent
    <3>3. QED BY <1>0, <2>1, <3>2, EventOnly
  <2>4. QED BY <2>2, <2>3
<1>5. CASE SecondRead(w) \/ RemoveOutside(w) \/ LockLost(w)
  BY <1>1, <1>5 DEF SecondRead, RemoveOutside, LockLost
<1>6. CASE RunFails(w)
  BY <1>1, <1>6 DEF RunFails
<1>7. CASE DeleteSwipeBatch(w)
  <2>1. CASE Owns(w) /\ erasure.step = "swipes"
    <3>1. PICK B : erasure' = [erasure EXCEPT !.step = Following("swipes", B)]
      BY <1>7, <2>1 DEF DeleteSwipeBatch
    <3>2. Following("swipes", B) \in StepNames \ {"completed"}
      BY Ranks DEF Following, StepNames
    <3>3. QED BY <1>7, <2>1, <3>1, <3>2, CheckpointWorkflow DEF DeleteSwipeBatch
  <2>2. CASE ~(Owns(w) /\ erasure.step = "swipes")
    BY <1>1, <1>7, <2>2 DEF DeleteSwipeBatch
  <2>3. QED BY <2>1, <2>2
<1>8. CASE Complete(w)
  <2>1. UNCHANGED <<account, request, erasure>> /\ account = "anonymized"
    BY <1>8 DEF Complete, IInv, RunsSound
  <2>2. CASE ~Owns(w)
    BY <1>1, <1>8, <2>1, <2>2 DEF Complete
  <2>3. CASE Owns(w)
    <3>1. event' = [NoEvent EXCEPT !.status = "completed", !.attempts = event.attempts]
      BY <1>8, <2>3 DEF Complete
    <3>2. event'.status = "completed" /\ event.status = "processing"
      BY <2>3, <3>1, FencedRun DEF NoEvent
    <3>3. QED BY <1>0, <2>1, <3>2, EventOnly
  <2>4. QED BY <2>2, <2>3
<1>9. CASE Advance(w)
  <2>1. CASE ~Fenced(w)
    BY <1>1, <1>9, <2>1 DEF Advance
  <2>2. CASE Fenced(w) /\ run[w].next # "completed"
    <3>1. run[w].next \in StepNames \ {"completed"} /\ run[w].step \in {"stripe", "photos"}
      BY <1>0, <1>9, <2>2 DEF Typed, RunType, Advance, IInv, RunsSound
    <3>2. QED BY <1>9, <2>2, <3>1, CheckpointWorkflow DEF Advance, Fenced
  <2>3. CASE Fenced(w) /\ run[w].next = "completed" /\ ~Erasable
    BY <1>1, <1>9, <2>3 DEF Advance
  <2>4. CASE Fenced(w) /\ run[w].next = "completed" /\ Erasable
    <3>1. /\ account' = "anonymized" /\ event' = event
          /\ request' = [request EXCEPT ![erasure.request] = "completed"]
          /\ erasure' = [erasure EXCEPT !.step = "completed"]
      BY <1>9, <2>4 DEF Advance
    <3>2. erasure.request \in Requests /\ event.status = "processing" /\ account = "deleted"
      BY <1>9, <2>4, FencedRun, NothingLeft DEF Fenced, Advance
    <3>3. erasure'.request = erasure.request /\ erasure'.step = "completed"
      BY <1>0, <3>1 DEF Typed
    <3>4. /\ request'[erasure.request] = "completed"
          /\ \A s \in Requests : s # erasure.request => request'[s] = request[s]
      BY <1>0, <3>1, <3>2 DEF Typed
    <3>5. QED BY <1>0, <3>1, <3>2, <3>3, <3>4, ErasureAssumption DEF Workflow, Open
  <2>5. QED BY <2>1, <2>2, <2>3, <2>4
<1>10. QED BY <1>2, <1>3, <1>4, <1>5, <1>6, <1>7, <1>8, <1>9 DEF RunStep, Step

\* Every step keeps the request, the workflow row, its event and the account
\* in agreement.
LEMMA WorkflowNext ==
    ASSUME IInv, [Next]_vars
    PROVE  Workflow'
<1>0. Typed /\ Workflow
  BY TypeParts DEF IInv
<1>1. CASE UNCHANGED <<account, request, erasure, event>>
  BY <1>0, <1>1 DEF Workflow
<1>2. CASE LeaseLapses
  <2>1. event'.status = event.status /\ event'.attempts = event.attempts
    BY <1>0, <1>2 DEF LeaseLapses, Typed, EventType
  <2>2. QED BY <1>0, <1>2, <2>1, EventOnly DEF LeaseLapses, Workflow
<1>3. CASE Retry
  <2>1. event'.status = "pending" /\ event.status = "dead_letter"
    BY <1>3 DEF Retry, NoEvent
  <2>2. QED BY <1>0, <1>3, <2>1, EventOnly DEF Retry
<1>4. CASE IssueToken \/ TokenExpires \/ UNCHANGED vars
  BY <1>1, <1>4 DEF IssueToken, TokenExpires, vars
<1>5. ASSUME NEW i \in Items, Operation(i) \/ \E kind \in Kinds : Enter(i, kind) PROVE Workflow'
  BY <1>1, <1>5 DEF Operation, Insert, Create, Enter
<1>6. ASSUME NEW p, Crash(p) PROVE Workflow'
  BY <1>1, <1>6 DEF Crash
<1>7. QED BY <1>2, <1>3, <1>4, <1>5, <1>6, SubjectWorkflow, RunWorkflow DEF Next, RunStep

\* The anonymisation is logged by the only transaction that does it.
LEMMA AuditNext ==
    ASSUME IInv, [Next]_vars
    PROVE  AnonymizedOnce' /\ audits' \in 0..2
<1>0. AnonymizedOnce
  BY DEF IInv
<1>1. CASE account' = account /\ audits' = audits
  BY <1>0, <1>1 DEF AnonymizedOnce
<1>2. CASE UNCHANGED vars \/ IssueToken \/ TokenExpires \/ LeaseLapses \/ Retry
  BY <1>1, <1>2 DEF vars, IssueToken, TokenExpires, LeaseLapses, Retry
<1>3. ASSUME NEW r \in Requests, Subject(r) PROVE AnonymizedOnce' /\ audits' \in 0..2
  <2>1. audits' = audits /\ (account' = account \/ (account = "live" /\ account' = "deleted"))
    BY <1>3 DEF Subject, CreateRequest, AcceptErasure, PurgeRequest, UpdateRequest, Enqueue
  <2>2. QED BY <1>0, <2>1 DEF AnonymizedOnce
<1>4. ASSUME NEW i \in Items, Operation(i) \/ \E kind \in Kinds : Enter(i, kind)
      PROVE  AnonymizedOnce' /\ audits' \in 0..2
  BY <1>1, <1>4 DEF Operation, Insert, Create, Enter
<1>5. ASSUME NEW w \in Runs, RunStep(w), ~Advance(w) PROVE AnonymizedOnce' /\ audits' \in 0..2
  BY <1>1, <1>5 DEF RunStep, Step, Claim, FirstRead, TryExclusive, SecondRead, RemoveOutside,
                    DeleteSwipeBatch, Complete, RunFails, LockLost
<1>6. ASSUME NEW w \in Runs, Advance(w) PROVE AnonymizedOnce' /\ audits' \in 0..2
  <2>1. CASE account' = "anonymized" /\ audits' = audits + 1 /\ Fenced(w) /\ run[w].next = "completed"
    <3>1. account = "deleted"
      BY <1>6, <2>1, NothingLeft DEF Advance
    <3>2. QED BY <1>0, <2>1, <3>1 DEF AnonymizedOnce
  <2>2. QED BY <1>1, <1>6, <2>1 DEF Advance
<1>7. ASSUME NEW p, Crash(p) PROVE AnonymizedOnce' /\ audits' \in 0..2
  BY <1>1, <1>7 DEF Crash
<1>8. QED BY <1>2, <1>3, <1>4, <1>5, <1>6, <1>7 DEF Next, RunStep

\* The initial state satisfies the invariant.
LEMMA IInvInit == Init => IInv
<1> SUFFICES ASSUME Init PROVE IInv
  OBVIOUS
<1>1. Typed
  <2>1. item \in [Items -> ItemType]
    BY DEF Init, ItemType, Kinds
  <2>2. run \in [Runs -> RunType]
    BY RunRecords DEF Init
  <2>3. erasure \in [request: Requests \cup {None}, step: StepNames]
    BY DEF Init, NoErasure, StepNames
  <2>4. event \in EventType /\ faults \in 0..MaxFaults
    <3>1. event \in EventType
      BY DEF Init, NoEvent, EventType
    <3>2. QED BY <3>1, ErasureAssumption DEF Init
  <2>5. request \in [Requests -> {"none", "pending", "in_progress", "completed", "rejected", "purged"}]
    BY DEF Init
  <2>6. QED BY <2>1, <2>2, <2>3, <2>4, <2>5 DEF Init, Typed
<1>2. OneOpen /\ audits \in 0..2 /\ AnonymizedOnce
  BY DEF Init, OneOpen, Open, AnonymizedOnce
<1>3. Held /\ Stored
  BY DEF Init, Held, Stored
<1>4. Frozen /\ RunsSound
  BY DEF Init, Frozen, RunsSound, Working, Idle, NoErasure
<1>5. Cleared
  BY DEF Init, Cleared
<1>6. Workflow
  BY DEF Init, Workflow, NoErasure, NoEvent
<1>7. QED BY <1>1, <1>2, <1>3, <1>4, <1>5, <1>6, TypeParts DEF IInv

\* Every step keeps the invariant.
LEMMA IInvNext ==
    ASSUME IInv, [Next]_vars
    PROVE  IInv'
<1>1. TypeOK' <=> Typed' /\ OneOpen' /\ (audits \in 0..2)'
  BY TypeParts, PTL
<1>2. QED BY <1>1, TypedNext, OneOpenNext, AuditNext, HeldNext, StoredNext, FrozenNext, ClearedNext,
             RunsSoundNext, WorkflowNext DEF IInv

\* The invariant holds throughout.
LEMMA Invariance == Spec => []IInv
BY IInvInit, IInvNext, PTL DEF Spec

-----------------------------------------------------------------------------
(* What it shows.                                                          *)

\* For any number of requests, runs, processes, items, crashes, lapsed leases
\* and lost locks, and for any batch size: an erasure that says completed has
\* left nothing in the database, at Stripe or in the object store, the account
\* is anonymised and logged once, and a frozen account always has an event.
THEOREM ErasureSound == Spec => []ErasureConsistent
<1>1. IInv => ErasureConsistent
  <2> SUFFICES ASSUME IInv PROVE ErasureConsistent
    OBVIOUS
  <2>1. CompletedMeansErased
    <3> SUFFICES ASSUME erasure.step = "completed"
                 PROVE  /\ account = "anonymized" /\ request[erasure.request] \in {"completed", "purged"}
                        /\ rows = {} /\ objects = {}
      BY DEF CompletedMeansErased
    <3>1. account = "anonymized" /\ request[erasure.request] = "completed"
      BY DEF IInv, Workflow
    <3>2. rows = {} /\ objects = {}
      BY <3>1 DEF IInv, Cleared, Stored
    <3>3. QED BY <3>1, <3>2
  <2>2. NotForgotten
    <3>1. account = "deleted" => erasure.request # None
      BY DEF IInv, Workflow
    <3>2. account = "deleted" => event.status \notin {"none", "completed"}
      BY <3>1 DEF IInv, Workflow
    <3>3. event.status \in {"none", "pending", "processing", "completed", "dead_letter"}
      BY TypeParts DEF IInv, Typed, EventType
    <3>4. QED BY <3>1, <3>2, <3>3 DEF NotForgotten
  <2>3. QED BY <2>1, <2>2 DEF IInv, ErasureConsistent
<1>2. QED BY <1>1, Invariance, PTL

\* An erasure that has begun belongs to its request until the end: whatever
\* administrators, runs and failures do, it keeps its request and only moves
\* on by one step.
THEOREM NeverBack == Spec => ForwardOnly
<1>1. ASSUME IInv, [Next]_vars, erasure.request # None, erasure'.request # None
      PROVE  /\ erasure'.request = erasure.request
             /\ Rank(erasure'.step) \in Rank(erasure.step)..(Rank(erasure.step) + 1)
             /\ request'[erasure.request] \in {"in_progress", "completed"}
  <2>0. Typed /\ Workflow /\ Typed' /\ Workflow'
    BY <1>1, TypeParts, TypedNext, WorkflowNext DEF IInv
  <2>1. \A s \in StepNames : Rank(s) \in Nat
    BY Ranks DEF StepNames
  <2>2. account # "live"
    BY <1>1, <2>0 DEF Workflow, NoErasure
  <2>3. erasure'.request = erasure.request
    <3>1. ASSUME NEW r \in Requests, Subject(r) PROVE erasure' = erasure
      <4>1. ~Begins(r)
        BY <1>1, <2>2, <3>1, EnqueueBegins DEF Begins
      <4>2. CASE PurgeRequest(r)
        BY <1>1, <4>2 DEF PurgeRequest, NoErasure
      <4>3. QED BY <1>1, <3>1, <4>1, <4>2, SubjectKinds DEF Moves
    <3>2. CASE UNCHANGED vars \/ IssueToken \/ TokenExpires \/ LeaseLapses \/ Retry
      BY <3>2 DEF vars, IssueToken, TokenExpires, LeaseLapses, Retry
    <3>3. ASSUME NEW i \in Items, Operation(i) \/ \E kind \in Kinds : Enter(i, kind)
          PROVE  erasure' = erasure
      BY <2>0, <3>3, Operations
    <3>4. ASSUME NEW w \in Runs, RunStep(w) PROVE erasure'.request = erasure.request
      BY <2>0, <3>4 DEF RunStep, Step, Claim, FirstRead, TryExclusive, SecondRead, RemoveOutside,
                  DeleteSwipeBatch, Advance, Complete, RunFails, LockLost, Typed
    <3>5. ASSUME NEW p, Crash(p) PROVE erasure' = erasure
      BY <3>5 DEF Crash
    <3>6. QED BY <1>1, <3>1, <3>2, <3>3, <3>4, <3>5 DEF Next, RunStep
  <2>4. request'[erasure.request] \in {"in_progress", "completed"}
    BY <1>1, <2>0, <2>3 DEF Workflow
  <2>5. erasure.step \in StepNames /\ erasure'.step \in StepNames
    BY <2>0 DEF Typed
  <2>6. Rank(erasure'.step) \in Rank(erasure.step)..(Rank(erasure.step) + 1)
    <3>1. CASE erasure'.step = erasure.step
      BY <2>1, <2>5, <3>1
    <3>2. CASE erasure.step \in Kinds /\ erasure'.step = After(erasure.step)
      BY <3>2, Ranks DEF Kinds
    <3>3. CASE erasure.step = "postgres" /\ erasure'.step = "completed"
      BY <3>3, Ranks
    <3>4. QED BY <1>1, <3>1, <3>2, <3>3, StepsForward
  <2>7. QED BY <2>3, <2>4, <2>6
<1>2. QED BY <1>1, Invariance, PTL DEF Spec, ForwardOnly

-----------------------------------------------------------------------------
(* The workflow implements the contract.                                   *)

\* The refinement mapping: what an owner can see of the account.
Phase == [live |-> "active", deleted |-> "frozen", anonymized |-> "erased"][account]
Owned == {i \in Items : item[i].at = "over" /\ i \in rows \cup objects}
Pending == {i \in Items : item[i].at \in {"entered", "inserted"}}

\* The contract's phases and the states of the account are the same.
LEMMA Phases ==
    ASSUME account \in {"live", "deleted", "anonymized"}
    PROVE  /\ Phase = "active" <=> account = "live"
           /\ Phase = "frozen" <=> account = "deleted"
           /\ Phase = "erased" <=> account = "anonymized"
BY DEF Phase

\* The contract, read through the refinement mapping.
LEMMA ContractActions ==
    /\ Contract!Init <=> Phase = "active" /\ Owned = {} /\ Pending = {}
    /\ Contract!Freeze <=> Phase = "active" /\ Phase' = "frozen" /\ Owned' = Owned /\ Pending' = Pending
    /\ Contract!Remove <=> Phase = "frozen" /\ Owned' \in SUBSET Owned /\ Phase' = Phase /\ Pending' = Pending
    /\ Contract!Erase <=> /\ Phase = "frozen" /\ Owned = {} /\ Pending = {}
                          /\ Phase' = "erased" /\ Owned' = Owned /\ Pending' = Pending
    /\ \A i : Contract!Begin(i) <=> /\ Phase = "active" /\ i \notin Owned \cup Pending
                                    /\ Pending' = Pending \cup {i} /\ Phase' = Phase /\ Owned' = Owned
    /\ \A i : Contract!End(i) <=> /\ i \in Pending /\ Pending' = Pending \ {i}
                                  /\ Owned' \in {Owned, Owned \cup {i}} /\ Phase # "erased" /\ Phase' = Phase
    /\ UNCHANGED Contract!vars <=> Phase' = Phase /\ Owned' = Owned /\ Pending' = Pending
BY DEF Contract!Init, Contract!Freeze, Contract!Remove, Contract!Erase, Contract!Begin, Contract!End,
       Contract!vars, Phase, Owned, Pending

\* Every step of the workflow is a step of the contract, or invisible to it.
LEMMA ContractStep ==
    ASSUME IInv, [Next]_vars
    PROVE  [Contract!Next]_(Contract!vars)
<1>0. /\ Typed /\ Stored /\ account \in {"live", "deleted", "anonymized"}
      /\ account' \in {"live", "deleted", "anonymized"} /\ objects \subseteq rows
  BY TypeParts, TypedNext DEF IInv, Typed, Stored
<1>1. Phase' = "frozen" <=> account' = "deleted"
  BY <1>0 DEF Phase
<1>2. Phase' = "erased" <=> account' = "anonymized"
  BY <1>0 DEF Phase
<1>3. ASSUME account' = account PROVE Phase' = Phase
  BY <1>3 DEF Phase
<1>4. ASSUME UNCHANGED <<item, rows, objects>> PROVE Owned' = Owned /\ Pending' = Pending
  BY <1>4 DEF Owned, Pending
<1>5. ASSUME Phase' = Phase, Owned' = Owned, Pending' = Pending PROVE [Contract!Next]_(Contract!vars)
  BY <1>5, ContractActions
<1>6. CASE UNCHANGED <<account, item, rows, objects>>
  BY <1>3, <1>4, <1>5, <1>6
<1>7. CASE UNCHANGED vars \/ IssueToken \/ TokenExpires \/ LeaseLapses \/ Retry
  BY <1>6, <1>7 DEF vars, IssueToken, TokenExpires, LeaseLapses, Retry
<1>8. ASSUME NEW p, Crash(p) PROVE [Contract!Next]_(Contract!vars)
  BY <1>6, <1>8 DEF Crash
<1>9. ASSUME NEW r \in Requests, Subject(r) PROVE [Contract!Next]_(Contract!vars)
  <2>1. UNCHANGED <<item, rows, objects>>
    BY <1>9, OthersLeaveItems
  <2>2. CASE account' = account
    BY <1>6, <2>1, <2>2
  <2>3. CASE account = "live" /\ account' = "deleted"
    <3>1. Contract!Freeze
      BY <1>0, <1>1, <1>4, <2>1, <2>3, Phases, ContractActions
    <3>2. QED BY <3>1 DEF Contract!Next
  <2>4. account' = account \/ (account = "live" /\ account' = "deleted")
    BY <1>9 DEF Subject, CreateRequest, AcceptErasure, PurgeRequest, UpdateRequest, Enqueue
  <2>5. QED BY <2>2, <2>3, <2>4
<1>10. ASSUME NEW i \in Items, Operation(i) \/ \E kind \in Kinds : Enter(i, kind)
       PROVE  [Contract!Next]_(Contract!vars)
  <2>0. /\ \A j \in Items : j # i => item'[j] = item[j]
        /\ account' = account /\ Phase' = Phase
    BY <1>0, <1>3, <1>10, Operations
  <2>1. CASE /\ item[i].at = "new" /\ item'[i].at = "entered" /\ account = "live"
             /\ UNCHANGED <<rows, objects>>
    <3>1. i \notin Owned \cup Pending /\ Pending' = Pending \cup {i} /\ Owned' = Owned
      BY <2>0, <2>1 DEF Owned, Pending
    <3>2. Contract!Begin(i)
      BY <1>0, <2>0, <2>1, <3>1, Phases, ContractActions
    <3>3. QED BY <3>2 DEF Contract!Next
  <2>2. CASE item[i].at = "entered" /\ item'[i].at = "inserted" /\ objects' = objects /\ rows' = rows \cup {i}
    <3>1. Pending' = Pending /\ Owned' = Owned
      BY <2>0, <2>2 DEF Owned, Pending
    <3>2. QED BY <1>5, <2>0, <3>1
  <2>3. CASE /\ item[i].at \in {"entered", "inserted"} /\ item'[i].at = "over"
             /\ rows' \in {rows, rows \cup {i}} /\ objects' \in {objects, objects \cup {i}}
    <3>1. i \in Pending /\ Pending' = Pending \ {i}
      BY <2>0, <2>3 DEF Pending
    <3>2. Owned' \in {Owned, Owned \cup {i}}
      <4>1. \A j \in Items : j # i => (j \in Owned' <=> j \in Owned)
        BY <2>0, <2>3 DEF Owned
      <4>2. i \notin Owned /\ Owned \subseteq Items /\ Owned' \subseteq Items
        BY <2>3 DEF Owned
      <4>3. CASE i \in Owned'
        <5>1. Owned' = Owned \cup {i}
          BY <4>1, <4>2, <4>3
        <5>2. QED BY <5>1
      <4>4. CASE i \notin Owned'
        <5>1. Owned' = Owned
          BY <4>1, <4>2, <4>4
        <5>2. QED BY <5>1
      <4>5. QED BY <4>3, <4>4
    <3>3. Phase # "erased"
      <4>1. ~Quiet
        BY <2>3 DEF Quiet
      <4>2. QED BY <1>0, <4>1, Phases DEF IInv, Frozen
    <3>4. Contract!End(i)
      BY <2>0, <3>1, <3>2, <3>3, ContractActions
    <3>5. QED BY <3>4 DEF Contract!Next
  <2>4. QED BY <1>0, <1>10, <2>1, <2>2, <2>3, Operations
<1>11. ASSUME NEW w \in Runs, RunStep(w) PROVE [Contract!Next]_(Contract!vars)
  <2>1. item' = item /\ Pending' = Pending
    BY <1>0, <1>11, RunsLeaveItems DEF Pending
  <2>2. rows' \subseteq rows /\ objects' \subseteq objects
    BY <1>11, Removals
  <2>3. Owned' \subseteq Owned
    BY <2>1, <2>2 DEF Owned
  <2>4. CASE account' = account
    <3>1. CASE rows' = rows /\ objects' = objects
      BY <1>6, <2>1, <2>4, <3>1
    <3>2. CASE ~(rows' = rows /\ objects' = objects)
      <4>1. account = "deleted"
        <5>1. account # "live"
          BY <1>11, <3>2, Removals DEF Quiet
        <5>2. account # "anonymized"
          BY <1>0, <2>2, <3>2 DEF IInv, Cleared
        <5>3. QED BY <1>0, <5>1, <5>2
      <4>2. Contract!Remove
        BY <1>0, <1>3, <2>1, <2>3, <2>4, <4>1, Phases, ContractActions
      <4>3. QED BY <4>2 DEF Contract!Next
    <3>3. QED BY <3>1, <3>2
  <2>5. CASE account' # account
    <3>1. Advance(w)
      BY <1>11, <2>5 DEF RunStep, Step, Claim, FirstRead, TryExclusive, SecondRead, RemoveOutside,
                         DeleteSwipeBatch, Complete, RunFails, LockLost
    <3>2. run[w].at = "advancing" /\ Fenced(w) /\ run[w].next = "completed" /\ account' = "anonymized"
      BY <2>5, <3>1 DEF Advance
    <3>3. rows = {} /\ objects = {} /\ account = "deleted" /\ Quiet
      BY <3>2, NothingLeft
    <3>4. Owned = {} /\ Pending = {}
      BY <3>3 DEF Owned, Pending, Quiet
    <3>5. Contract!Erase
      BY <1>0, <1>2, <2>1, <2>3, <3>2, <3>3, <3>4, Phases, ContractActions
    <3>6. QED BY <3>5 DEF Contract!Next
  <2>6. QED BY <2>4, <2>5
<1>12. QED BY <1>7, <1>8, <1>9, <1>10, <1>11 DEF Next, RunStep

\* The workflow, with its two reads, its batches, its lost locks and its
\* crashes, implements the contract: the account is frozen once and erased
\* once, when nothing is left, and between the two its data only disappears,
\* but for operations that were under way when it was frozen.
THEOREM ContractImplemented == Spec => ImplementsContract
<1>1. Init => Contract!Init
  <2> SUFFICES ASSUME Init PROVE Phase = "active" /\ Owned = {} /\ Pending = {}
    BY ContractActions
  <2>1. QED BY Phases DEF Init, Owned, Pending
<1>2. QED BY <1>1, ContractStep, Invariance, PTL DEF Spec, ImplementsContract, Contract!Spec

-----------------------------------------------------------------------------
(* ProfileConsents, for another account that may be closed and anonymized.  *)

\* The type of an event.
ConsentRow == [granted: BOOLEAN, version: Versions, withdrawn: BOOLEAN]

\* Every variable has its type.
ConsentsTyped ==
    /\ owner \in {"open", "closed", "erased"} /\ config \in [Processes -> Versions]
    /\ consent \in [Consents!Types -> Seq(ConsentRow)] /\ \A t \in Consents!Types : Len(consent[t]) <= MaxEvents
    /\ sex \in BOOLEAN /\ prefs \in BOOLEAN /\ presence \in [exists: BOOLEAN, fresh: BOOLEAN, age: 0..2]
    /\ write \in [Writes -> [pc: {"idle", "checked"}, op: Consents!Ops \cup {"none"}, process: Processes \cup {"none"}]]
    /\ sweep \in {"none", "stale", "expired"}

\* Every event but the latest is withdrawn.
Superseded(s) == \A i \in 1..Len(s) : i < Len(s) => s[i].withdrawn

\* The latest event is a consent that is not withdrawn.
Stands(s) == Len(s) > 0 /\ s[Len(s)].granted /\ ~s[Len(s)].withdrawn

\* A refusal counts as withdrawn, and a consent is withdrawn by a later event only.
Standing(s) == Len(s) > 0 => (s[Len(s)].granted <=> ~s[Len(s)].withdrawn)

\* What is known of the events of each choice.
LogSound ==
    \A t \in Consents!Types : Superseded(consent[t]) /\ (owner # "erased" => Standing(consent[t]))

\* What is stored has the choice it needs.
DataSound ==
    /\ sex \/ prefs => Stands(consent["sensitive"])
    /\ presence.exists => Stands(consent["location"])

\* The inductive invariant of ProfileConsents.
ConsentsInv == ConsentsTyped /\ LogSound /\ DataSound

\* The active row is the latest event, or there is none.
LEMMA ActiveIsLatest ==
    ASSUME ConsentsTyped, NEW t \in Consents!Types, Superseded(consent[t])
    PROVE  /\ Stands(consent[t]) => Consents!Active(t) = {Len(consent[t])}
           /\ ~Stands(consent[t]) => Consents!Active(t) = {}
<1>1. consent[t] \in Seq(ConsentRow) /\ Len(consent[t]) \in Nat
  BY LenProperties DEF ConsentsTyped
<1>2. \A i \in Consents!Active(t) : i \in 1..Len(consent[t]) /\ consent[t][i].granted /\ ~consent[t][i].withdrawn
  BY DEF Consents!Active
<1>3. \A i \in Consents!Active(t) : i = Len(consent[t])
  BY <1>1, <1>2 DEF Superseded
<1>4. ASSUME Stands(consent[t]) PROVE Len(consent[t]) \in Consents!Active(t)
  BY <1>1, <1>4 DEF Stands, Consents!Active
<1>5. ASSUME NEW i \in Consents!Active(t) PROVE Stands(consent[t])
  BY <1>1, <1>2, <1>3, <1>5 DEF Stands
<1>6. QED BY <1>3, <1>4, <1>5

\* Rows of a log are withdrawn.
LEMMA RowsWithdrawn ==
    ASSUME NEW s \in Seq(ConsentRow), NEW A, NEW u, u = [i \in 1..Len(s) |-> u[i]],
           \A i \in 1..Len(s) : u[i] = IF i \in A THEN [s[i] EXCEPT !.withdrawn = TRUE] ELSE s[i]
    PROVE  /\ u \in Seq(ConsentRow) /\ Len(u) = Len(s)
           /\ \A j \in 1..Len(s) : (j \in A => u[j].withdrawn) /\ (j \notin A => u[j] = s[j])
<1>1. Len(s) \in Nat /\ \A i \in 1..Len(s) : s[i] \in ConsentRow
  BY LenProperties, ElementOfSeq
<1>2. \A r \in ConsentRow : [r EXCEPT !.withdrawn = TRUE] \in ConsentRow /\ [r EXCEPT !.withdrawn = TRUE].withdrawn
  BY DEF ConsentRow
<1>3. \A i \in 1..Len(s) : /\ u[i] \in ConsentRow
                           /\ i \in A => u[i].withdrawn
                           /\ i \notin A => u[i] = s[i]
  BY <1>1, <1>2
<1>4. u \in [1..Len(s) -> ConsentRow]
  BY <1>3, Zenon
<1>5. u \in Seq(ConsentRow) /\ Len(u) = Len(s)
  BY <1>1, <1>4
<1>6. QED BY <1>3, <1>5

\* recordConsents, for one type: the latest event stands as it was asked for.
LEMMA RecordedLog ==
    ASSUME ConsentsInv, NEW t \in Consents!Types, NEW granted \in BOOLEAN, NEW version \in Versions, owner # "erased"
    PROVE  LET s == Consents!Recorded(t, granted, version) IN
           /\ s \in Seq(ConsentRow) /\ Superseded(s) /\ Standing(s)
           /\ granted => Stands(s)
           /\ Consents!Unchanged(t, granted, version) => s = consent[t]
<1> DEFINE s == Consents!Recorded(t, granted, version)
<1>1. consent[t] \in Seq(ConsentRow) /\ Len(consent[t]) \in Nat /\ Superseded(consent[t]) /\ Standing(consent[t])
  BY LenProperties DEF ConsentsInv, ConsentsTyped, LogSound
<1>2. CASE Consents!Unchanged(t, granted, version)
  <2>1. s = consent[t]
    BY <1>2 DEF Consents!Recorded
  <2>2. consent[t] # <<>> /\ consent[t][Len(consent[t])].granted = granted
    BY <1>2 DEF Consents!Unchanged, Consents!Latest
  <2>3. Len(consent[t]) > 0
    BY <1>1, <2>2, EmptySeq
  <2> HIDE DEF s
  <2>4. granted => Stands(consent[t])
    BY <1>1, <2>2, <2>3 DEF Standing, Stands
  <2>5. QED BY <1>1, <2>1, <2>4 DEF s
<1>3. CASE ~Consents!Unchanged(t, granted, version)
  <2> DEFINE A == Consents!Active(t)
             u == [i \in 1..Len(consent[t]) |-> IF i \in A THEN [consent[t][i] EXCEPT !.withdrawn = TRUE] ELSE consent[t][i]]
             new == [granted |-> granted, version |-> version, withdrawn |-> ~granted]
  <2>1. s = Append(u, new)
    BY <1>3 DEF Consents!Recorded
  <2>2. /\ u = [i \in 1..Len(consent[t]) |-> u[i]]
        /\ \A i \in 1..Len(consent[t]) : u[i] = IF i \in A THEN [consent[t][i] EXCEPT !.withdrawn = TRUE] ELSE consent[t][i]
    OBVIOUS
  <2>3. new \in ConsentRow
    BY DEF ConsentRow
  <2>4. (new.granted <=> granted) /\ (new.withdrawn <=> ~granted)
    OBVIOUS
  <2> HIDE DEF u, new, s
  <2>5. /\ u \in Seq(ConsentRow) /\ Len(u) = Len(consent[t])
        /\ \A j \in 1..Len(consent[t]) : (j \in A => u[j].withdrawn) /\ (j \notin A => u[j] = consent[t][j])
    <3> HIDE DEF A
    <3>1. QED BY <1>1, <2>2, RowsWithdrawn
  <2>6. /\ s \in Seq(ConsentRow) /\ Len(s) = Len(consent[t]) + 1 /\ s[Len(s)] = new
        /\ \A i \in 1..Len(consent[t]) : s[i] = u[i]
    <3>1. /\ Append(u, new) \in Seq(ConsentRow) /\ Len(Append(u, new)) = Len(u) + 1
          /\ \A i \in 1..Len(u) : Append(u, new)[i] = u[i]
          /\ Append(u, new)[Len(u) + 1] = new
      BY <2>3, <2>5, AppendProperties
    <3>2. QED BY <2>1, <2>5, <3>1
  <2>7. ASSUME NEW i \in 1..Len(consent[t]) PROVE u[i].withdrawn
    <3>1. CASE i \in A
      BY <2>5, <3>1
    <3>2. CASE i \notin A
      <4>1. ~consent[t][i].granted \/ consent[t][i].withdrawn
        BY <3>2 DEF Consents!Active
      <4>2. CASE i < Len(consent[t])
        BY <1>1, <2>5, <3>2, <4>2 DEF Superseded
      <4>3. CASE i = Len(consent[t])
        BY <1>1, <2>5, <3>2, <4>1, <4>3 DEF Standing
      <4>4. QED BY <1>1, <4>2, <4>3
    <3>3. QED BY <3>1, <3>2
  <2>8. Superseded(s)
    BY <1>1, <2>6, <2>7 DEF Superseded
  <2>9. Standing(s) /\ (granted => Stands(s))
    <3>1. Len(s) > 0 /\ (s[Len(s)].granted <=> granted) /\ (s[Len(s)].withdrawn <=> ~granted)
      BY <1>1, <2>4, <2>6
    <3>2. QED BY <3>1 DEF Standing, Stands
  <2>10. QED BY <1>3, <2>6, <2>8, <2>9 DEF s
<1>4. QED BY <1>2, <1>3

\* The oldest event is purged, which was withdrawn.
LEMMA PurgedLog ==
    ASSUME NEW s \in Seq(ConsentRow), Len(s) > 0, s[1].withdrawn, Superseded(s)
    PROVE  LET u == SubSeq(s, 1, 0) \o SubSeq(s, 2, Len(s)) IN
           /\ u \in Seq(ConsentRow) /\ Len(u) = Len(s) - 1
           /\ Superseded(u) /\ (Standing(s) => Standing(u)) /\ (Stands(s) => Stands(u))
<1> DEFINE u == SubSeq(s, 1, 0) \o SubSeq(s, 2, Len(s))
<1>1. Len(s) \in Nat /\ \A i \in 1..Len(s) : s[i] \in ConsentRow
  BY LenProperties, ElementOfSeq
<1>2. /\ SubSeq(s, 2, Len(s)) \in Seq(ConsentRow) /\ Len(SubSeq(s, 2, Len(s))) = Len(s) - 1
      /\ \A i \in 1..(Len(s) - 1) : SubSeq(s, 2, Len(s))[i] = s[i + 1]
  <2>1. \A i \in 2..Len(s) : s[i] \in ConsentRow
    BY <1>1
  <2>2. /\ SubSeq(s, 2, Len(s)) \in Seq(ConsentRow)
        /\ Len(SubSeq(s, 2, Len(s))) = IF 2 <= Len(s) THEN Len(s) - 2 + 1 ELSE 0
        /\ \A i \in 1..(Len(s) - 2 + 1) : SubSeq(s, 2, Len(s))[i] = s[2 + i - 1]
    BY <1>1, <2>1, SubSeqProperties
  <2>3. \A i \in 1..(Len(s) - 1) : i \in 1..(Len(s) - 2 + 1) /\ 2 + i - 1 = i + 1
    BY <1>1
  <2>4. \A n \in Nat : n > 0 => n - 1 = IF 2 <= n THEN n - 2 + 1 ELSE 0
    OBVIOUS
  <2>5. QED BY <1>1, <2>2, <2>3, <2>4
<1>3. u = SubSeq(s, 2, Len(s))
  BY <1>1, <1>2, SubSeqEmpty, ConcatEmptySeq
<1> HIDE DEF u
<1>4. /\ u \in Seq(ConsentRow) /\ Len(u) = Len(s) - 1
      /\ \A i \in 1..Len(u) : u[i] = s[i + 1]
  BY <1>2, <1>3
<1>5. Superseded(u)
  BY <1>1, <1>4 DEF Superseded
<1>6. Len(u) > 0 => u[Len(u)] = s[Len(s)]
  BY <1>1, <1>4
<1>7. Len(u) = 0 => ~Stands(s)
  <2>1. Len(u) = 0 => Len(s) = 1
    BY <1>1, <1>4
  <2>2. QED BY <2>1 DEF Stands
<1>8. Standing(s) => Standing(u)
  BY <1>1, <1>4, <1>6 DEF Standing
<1>9. Stands(s) => Stands(u)
  BY <1>1, <1>4, <1>6, <1>7 DEF Stands
<1>10. QED BY <1>4, <1>5, <1>8, <1>9 DEF u

-----------------------------------------------------------------------------
\* It holds before any choice.
LEMMA ConsentsStart == ASSUME MaxEvents \in Nat, Consents!Init PROVE ConsentsInv
<1>1. <<>> \in Seq(ConsentRow) /\ Len(<<>>) = 0
  BY EmptySeq
<1>2. consent = [t \in Consents!Types |-> <<>>]
  BY DEF Consents!Init
<1>3. \A t \in Consents!Types : consent[t] = <<>>
  BY <1>2
<1>4. consent \in [Consents!Types -> Seq(ConsentRow)]
  BY <1>1, <1>2
<1>5. ConsentsTyped
  <2>1. \A t \in Consents!Types : Len(consent[t]) <= MaxEvents
    BY <1>1, <1>3
  <2>2. presence \in [exists: BOOLEAN, fresh: BOOLEAN, age: 0..2]
    BY DEF Consents!Init, Consents!NoPresence
  <2>3. write \in [Writes -> [pc: {"idle", "checked"}, op: Consents!Ops \cup {"none"}, process: Processes \cup {"none"}]]
    BY DEF Consents!Init, Consents!Idle
  <2>4. QED BY <1>4, <2>1, <2>2, <2>3 DEF Consents!Init, ConsentsTyped
<1>6. LogSound
  BY <1>1, <1>3 DEF LogSound, Superseded, Standing
<1>7. DataSound
  BY DEF Consents!Init, Consents!NoPresence, DataSound
<1>8. QED BY <1>5, <1>6, <1>7 DEF ConsentsInv

\* recordConsents.
LEMMA RecordKeeps ==
    ASSUME MaxEvents \in Nat, ConsentsInv, NEW p \in Processes, NEW types \in SUBSET Consents!Types,
           NEW c \in [types -> BOOLEAN], Consents!RecordConsents(p, c)
    PROVE  ConsentsInv'
<1> DEFINE version == config[p]
<1> DEFINE withdraws(t) == t \in types /\ ~c[t] /\ ~Consents!Unchanged(t, FALSE, version)
<1>1. DOMAIN c = types
  OBVIOUS
<1>2. /\ owner = "open"
      /\ consent' = [t \in Consents!Types |-> IF t \in types THEN Consents!Recorded(t, c[t], version) ELSE consent[t]]
      /\ \A t \in types : Len(consent'[t]) <= MaxEvents
      /\ UNCHANGED <<owner, config, write, sweep>>
  BY <1>1 DEF Consents!RecordConsents
<1>3. /\ sex' = (sex /\ ~withdraws("sensitive")) /\ prefs' = (prefs /\ ~withdraws("sensitive"))
      /\ presence' = IF withdraws("location") THEN Consents!NoPresence ELSE presence
  BY <1>1 DEF Consents!RecordConsents
<1>4. version \in Versions
  BY DEF ConsentsInv, ConsentsTyped
<1> HIDE DEF version
<1>5. ASSUME NEW t \in Consents!Types
      PROVE  /\ consent'[t] \in Seq(ConsentRow) /\ Superseded(consent'[t]) /\ Standing(consent'[t])
             /\ Len(consent'[t]) <= MaxEvents
             /\ ~withdraws(t) /\ Stands(consent[t]) => Stands(consent'[t])
  <2>1. CASE t \in types
    <3>1. consent'[t] = Consents!Recorded(t, c[t], version) /\ c[t] \in BOOLEAN
      BY <1>2, <2>1
    <3>2. /\ consent'[t] \in Seq(ConsentRow) /\ Superseded(consent'[t]) /\ Standing(consent'[t])
          /\ c[t] => Stands(consent'[t])
          /\ Consents!Unchanged(t, c[t], version) => consent'[t] = consent[t]
      BY <1>2, <1>4, <3>1, RecordedLog
    <3>3. CASE c[t] = TRUE
      BY <1>2, <2>1, <3>2, <3>3
    <3>4. CASE c[t] = FALSE
      BY <1>2, <2>1, <3>2, <3>4
    <3>5. QED BY <3>1, <3>3, <3>4
  <2>2. CASE t \notin types
    <3>1. consent'[t] = consent[t]
      BY <1>2, <2>2
    <3>2. QED BY <1>2, <3>1 DEF ConsentsInv, ConsentsTyped, LogSound
  <2>3. QED BY <2>1, <2>2
<1>6. ConsentsTyped'
  <2>1. consent' = [t \in Consents!Types |-> consent'[t]]
    BY <1>2
  <2>2. consent' \in [Consents!Types -> Seq(ConsentRow)]
    BY <1>5, <2>1, Zenon
  <2>3. Consents!NoPresence \in [exists: BOOLEAN, fresh: BOOLEAN, age: 0..2]
    BY DEF Consents!NoPresence
  <2>4. presence' \in [exists: BOOLEAN, fresh: BOOLEAN, age: 0..2]
    BY <1>3, <2>3 DEF ConsentsInv, ConsentsTyped
  <2>5. sex' \in BOOLEAN /\ prefs' \in BOOLEAN
    BY <1>3, Zenon
  <2>6. QED BY <1>2, <1>5, <2>2, <2>4, <2>5 DEF ConsentsInv, ConsentsTyped, ConsentRow, Consents!Types, Consents!Ops
<1>7. LogSound'
  BY <1>5 DEF LogSound, Consents!Types
<1>8. DataSound'
  <2>1. "sensitive" \in Consents!Types /\ "location" \in Consents!Types
    BY DEF Consents!Types
  <2>2. ASSUME sex' \/ prefs' PROVE Stands(consent'["sensitive"])
    <3>1. (sex \/ prefs) /\ ~withdraws("sensitive")
      BY <1>3, <2>2
    <3>2. Stands(consent["sensitive"])
      BY <3>1 DEF ConsentsInv, DataSound
    <3>3. QED BY <1>5, <2>1, <3>1, <3>2
  <2>3. ASSUME presence'.exists PROVE Stands(consent'["location"])
    <3>1. ~withdraws("location") /\ presence' = presence
      BY <1>3, <2>3 DEF Consents!NoPresence
    <3>2. Stands(consent["location"])
      BY <2>3, <3>1 DEF ConsentsInv, DataSound
    <3>3. QED BY <1>5, <2>1, <3>1, <3>2
  <2>4. QED BY <2>2, <2>3 DEF DataSound
<1>9. QED BY <1>6, <1>7, <1>8 DEF ConsentsInv

\* requireLegalChoices inside the transaction: the required consents stand.
LEMMA ChosenStands ==
    ASSUME ConsentsInv, NEW op, NEW p, Consents!Chosen(op, p), NEW t \in Consents!Types, t \in Consents!Required(op)
    PROVE  Stands(consent[t])
<1>1. Consents!Active(t) # {}
  BY DEF Consents!Chosen
<1>2. QED BY <1>1, ActiveIsLatest DEF ConsentsInv, LogSound

\* The logs stay, and what is new among the data rests on them.
LEMMA LogsStay ==
    ASSUME ConsentsInv, ConsentsTyped', consent' = consent, owner = "erased" => owner' = "erased",
           (sex' \/ prefs') /\ ~(sex \/ prefs) => Stands(consent["sensitive"]),
           presence'.exists /\ ~presence.exists => Stands(consent["location"])
    PROVE  ConsentsInv'
<1>1. LogSound'
  BY DEF ConsentsInv, LogSound, Consents!Types
<1>2. DataSound'
  BY DEF ConsentsInv, DataSound
<1>3. QED BY <1>1, <1>2 DEF ConsentsInv

\* The types of a write and of the position.
WriteType == [pc: {"idle", "checked"}, op: Consents!Ops \cup {"none"}, process: Processes \cup {"none"}]
PresenceType == [exists: BOOLEAN, fresh: BOOLEAN, age: 0..2]

\* The types of what the writes and maintenance change.
LEMMA PartsTyped ==
    ASSUME ConsentsTyped, UNCHANGED <<consent, config>>, owner' \in {"open", "closed", "erased"},
           sex' \in BOOLEAN, prefs' \in BOOLEAN, presence' \in PresenceType, write' \in [Writes -> WriteType],
           sweep' \in {"none", "stale", "expired"}
    PROVE  ConsentsTyped'
BY DEF ConsentsTyped, ConsentRow, WriteType, PresenceType, Consents!Types, Consents!Ops

\* The same, of what they are before.
LEMMA PartTypes ==
    ASSUME ConsentsTyped
    PROVE  /\ owner \in {"open", "closed", "erased"} /\ sex \in BOOLEAN /\ prefs \in BOOLEAN
           /\ presence \in PresenceType /\ write \in [Writes -> WriteType] /\ sweep \in {"none", "stale", "expired"}
BY DEF ConsentsTyped, WriteType, PresenceType

\* A write, which looks at the choices again under their lock.
LEMMA WritesKeep ==
    ASSUME ConsentsInv, NEW r \in Writes, Consents!Write(r)
    PROVE  ConsentsInv'
<1>1. Consents!Idle \in WriteType
  BY DEF Consents!Idle, WriteType
<1>2. write' = [write EXCEPT ![r] = Consents!Idle] /\ UNCHANGED <<owner, config, consent, sweep>>
  BY DEF Consents!Write, Consents!UpsertProfile, Consents!UpsertPreferences, Consents!UpsertPresence,
         Consents!Refused, Consents!Written
<1>3. ConsentsTyped
  BY DEF ConsentsInv
<1>4. write' \in [Writes -> WriteType]
  BY <1>1, <1>2, <1>3, PartTypes
<1>5. "sensitive" \in Consents!Types /\ "location" \in Consents!Types
  BY DEF Consents!Types
<1>6. CASE Consents!UpsertProfile(r)
  <2>1. sex' = (write[r].op = "sex") /\ prefs' = prefs /\ presence' = presence /\ Consents!Chosen(write[r].op, write[r].process)
    BY <1>6 DEF Consents!UpsertProfile, Consents!Written, Consents!LockLegalChoices
  <2>2. sex' \in BOOLEAN /\ prefs' \in BOOLEAN /\ presence' \in PresenceType
    BY <1>3, <2>1, PartTypes
  <2>3. ConsentsTyped'
    BY <1>2, <1>3, <1>4, <2>2, PartsTyped, PartTypes
  <2>4. sex' => Stands(consent["sensitive"])
    <3>1. SUFFICES ASSUME write[r].op = "sex" PROVE Stands(consent["sensitive"])
      BY <2>1
    <3>2. "sensitive" \in Consents!Required(write[r].op)
      BY <3>1 DEF Consents!Required
    <3>3. QED BY <1>5, <2>1, <3>2, ChosenStands
  <2>5. QED BY <1>2, <2>1, <2>3, <2>4, LogsStay
<1>7. CASE Consents!UpsertPreferences(r)
  <2>1. /\ sex' = sex /\ prefs' = TRUE /\ presence' = presence /\ write[r].op = "preferences"
        /\ Consents!Chosen(write[r].op, write[r].process)
    BY <1>7 DEF Consents!UpsertPreferences, Consents!Written, Consents!LockLegalChoices
  <2>2. sex' \in BOOLEAN /\ prefs' \in BOOLEAN /\ presence' \in PresenceType
    BY <1>3, <2>1, PartTypes
  <2>3. ConsentsTyped'
    BY <1>2, <1>3, <1>4, <2>2, PartsTyped, PartTypes
  <2>4. "sensitive" \in Consents!Required(write[r].op)
    BY <2>1 DEF Consents!Required
  <2>5. Stands(consent["sensitive"])
    BY <1>5, <2>1, <2>4, ChosenStands
  <2>6. QED BY <1>2, <2>1, <2>3, <2>5, LogsStay
<1>8. CASE Consents!UpsertPresence(r)
  <2>1. /\ sex' = sex /\ prefs' = prefs /\ presence' = [exists |-> TRUE, fresh |-> TRUE, age |-> 0]
        /\ write[r].op = "presence" /\ Consents!Chosen(write[r].op, write[r].process)
    BY <1>8 DEF Consents!UpsertPresence, Consents!Written, Consents!LockLegalChoices
  <2>2. sex' \in BOOLEAN /\ prefs' \in BOOLEAN
    BY <1>3, <2>1, PartTypes
  <2>3. presence' \in PresenceType
    BY <2>1 DEF PresenceType
  <2>4. ConsentsTyped'
    BY <1>2, <1>3, <1>4, <2>2, <2>3, PartsTyped, PartTypes
  <2>5. "location" \in Consents!Required(write[r].op)
    BY <2>1 DEF Consents!Required
  <2>6. Stands(consent["location"])
    BY <1>5, <2>1, <2>5, ChosenStands
  <2>7. QED BY <1>2, <2>1, <2>4, <2>6, LogsStay
<1>9. CASE Consents!Refused(r)
  <2>1. sex' = sex /\ prefs' = prefs /\ presence' = presence
    BY <1>9 DEF Consents!Refused
  <2>2. ConsentsTyped'
    BY <1>2, <1>3, <1>4, <2>1, PartsTyped, PartTypes
  <2>3. QED BY <1>2, <2>1, <2>2, LogsStay
<1>10. QED BY <1>6, <1>7, <1>8, <1>9 DEF Consents!Write

\* The look at the choices before a write.
LEMMA RequireKeeps ==
    ASSUME ConsentsInv, NEW r \in Writes, NEW op \in Consents!Ops, NEW p \in Processes,
           Consents!RequireLegalChoices(r, op, p)
    PROVE  ConsentsInv'
<1>1. [pc |-> "checked", op |-> op, process |-> p] \in WriteType
  BY DEF WriteType
<1>2. /\ write' = [write EXCEPT ![r] = [pc |-> "checked", op |-> op, process |-> p]]
      /\ UNCHANGED <<owner, config, consent, sex, prefs, presence, sweep>>
  BY DEF Consents!RequireLegalChoices
<1>3. ConsentsTyped
  BY DEF ConsentsInv
<1>4. write' \in [Writes -> WriteType]
  BY <1>1, <1>2, <1>3, PartTypes
<1>5. ConsentsTyped'
  BY <1>2, <1>3, <1>4, PartsTyped, PartTypes
<1>6. QED BY <1>2, <1>5, LogsStay

\* Maintenance of positions and time: a position only gets older or disappears.
LEMMA PositionsKeep ==
    ASSUME ConsentsInv, Consents!SweepReads \/ Consents!SweepWrites \/ Consents!Tick
    PROVE  ConsentsInv'
<1>1. ConsentsTyped /\ presence \in PresenceType
  BY PartTypes DEF ConsentsInv
<1>2. UNCHANGED <<owner, config, consent, sex, prefs, write>> /\ sweep' \in {"none", "stale", "expired"}
  BY <1>1, PartTypes DEF Consents!SweepReads, Consents!SweepWrites, Consents!Tick
<1>3. presence' \in PresenceType /\ (presence'.exists => presence.exists)
  <2>1. CASE Consents!SweepReads
    BY <1>1, <2>1 DEF Consents!SweepReads
  <2>2. CASE Consents!SweepWrites
    <3>1. Consents!NoPresence \in PresenceType /\ ~Consents!NoPresence.exists
      BY DEF Consents!NoPresence, PresenceType
    <3>2. [presence EXCEPT !.fresh = FALSE] \in PresenceType
      BY <1>1 DEF PresenceType
    <3>3. \/ presence' = Consents!NoPresence
          \/ presence' = [presence EXCEPT !.fresh = FALSE] /\ presence.exists
          \/ presence' = presence
      BY <2>2 DEF Consents!SweepWrites
    <3>4. QED BY <1>1, <3>1, <3>2, <3>3
  <2>3. CASE Consents!Tick
    <3>1. presence.exists /\ presence.age < 2 /\ presence' = [presence EXCEPT !.age = presence.age + 1]
      BY <2>3 DEF Consents!Tick
    <3>2. presence' \in PresenceType
      BY <1>1, <3>1 DEF PresenceType
    <3>3. QED BY <3>1, <3>2
  <2>4. QED BY <2>1, <2>2, <2>3
<1>4. ConsentsTyped'
  BY <1>1, <1>2, <1>3, PartsTyped, PartTypes
<1>5. QED BY <1>2, <1>3, <1>4, LogsStay

\* A deployment and the closing of the account change neither logs nor data.
LEMMA DeployKeeps ==
    ASSUME ConsentsInv, (\E p \in Processes : Consents!Deploy(p)) \/ Consents!CloseAccount \/ UNCHANGED Consents!vars
    PROVE  ConsentsInv'
<1>1. CASE \E p \in Processes : Consents!Deploy(p)
  <2>1. PICK p \in Processes : Consents!Deploy(p)
    BY <1>1
  <2>2. UNCHANGED <<owner, consent, sex, prefs, presence, write, sweep>>
    BY <2>1 DEF Consents!Deploy
  <2>3. config' \in [Processes -> Versions]
    BY <2>1 DEF Consents!Deploy, ConsentsInv, ConsentsTyped
  <2>4. ConsentsTyped'
    BY <2>2, <2>3 DEF ConsentsInv, ConsentsTyped, ConsentRow, Consents!Types, Consents!Ops
  <2>5. QED BY <2>2, <2>4, LogsStay
<1>2. CASE Consents!CloseAccount
  <2>1. owner = "open" /\ owner' = "closed" /\ UNCHANGED <<config, consent, sex, prefs, presence, write, sweep>>
    BY <1>2 DEF Consents!CloseAccount
  <2>2. ConsentsTyped'
    BY <2>1, PartsTyped, PartTypes DEF ConsentsInv
  <2>3. QED BY <2>1, <2>2, LogsStay
<1>3. CASE UNCHANGED Consents!vars
  <2>1. UNCHANGED <<owner, config, consent, sex, prefs, presence, write, sweep>>
    BY <1>3 DEF Consents!vars
  <2>2. ConsentsTyped'
    BY <2>1, PartsTyped, PartTypes DEF ConsentsInv
  <2>3. QED BY <2>1, <2>2, LogsStay
<1>4. QED BY <1>1, <1>2, <1>3

\* The oldest event of a type is purged.
LEMMA PurgeKeeps ==
    ASSUME MaxEvents \in Nat, ConsentsInv, Consents!PurgeConsent
    PROVE  ConsentsInv'
<1>1. PICK t \in Consents!Types : \E i \in 1..Len(consent[t]) :
        /\ Consents!Purgeable(t, i)
        /\ consent' = [consent EXCEPT ![t] = SubSeq(@, 1, i - 1) \o SubSeq(@, i + 1, Len(@))]
  BY DEF Consents!PurgeConsent
<1>2. /\ consent[t] \in Seq(ConsentRow) /\ Len(consent[t]) \in Nat /\ Len(consent[t]) <= MaxEvents /\ Superseded(consent[t])
      /\ owner # "erased" => Standing(consent[t])
  BY LenProperties DEF ConsentsInv, ConsentsTyped, LogSound
<1> DEFINE u == SubSeq(consent[t], 1, 0) \o SubSeq(consent[t], 2, Len(consent[t]))
<1>3. consent' = [consent EXCEPT ![t] = u] /\ Len(consent[t]) > 0 /\ consent[t][1].withdrawn
  <2>1. PICK i \in 1..Len(consent[t]) : /\ Consents!Purgeable(t, i)
                                        /\ consent' = [consent EXCEPT ![t] = SubSeq(@, 1, i - 1) \o SubSeq(@, i + 1, Len(@))]
    BY <1>1
  <2>2. i = 1 /\ consent[t][i].withdrawn
    BY <2>1 DEF Consents!Purgeable
  <2>3. consent' = [consent EXCEPT ![t] = SubSeq(consent[t], 1, i - 1) \o SubSeq(consent[t], i + 1, Len(consent[t]))]
    BY <2>1
  <2>4. i - 1 = 0 /\ i + 1 = 2 /\ Len(consent[t]) > 0
    BY <1>2, <2>2
  <2>5. QED BY <2>2, <2>3, <2>4
<1>4. /\ u \in Seq(ConsentRow) /\ Len(u) = Len(consent[t]) - 1
      /\ Superseded(u) /\ (Standing(consent[t]) => Standing(u)) /\ (Stands(consent[t]) => Stands(u))
  BY <1>2, <1>3, PurgedLog
<1> HIDE DEF u
<1>5. Len(u) <= MaxEvents
  BY <1>2, <1>4
<1>6. UNCHANGED <<owner, config, sex, prefs, presence, write, sweep>>
  BY DEF Consents!PurgeConsent
<1>7. \A k \in Consents!Types : consent'[k] = IF k = t THEN u ELSE consent[k]
  BY <1>3 DEF ConsentsInv, ConsentsTyped
<1>8. ConsentsTyped'
  <2>1. consent' \in [Consents!Types -> Seq(ConsentRow)]
    BY <1>3, <1>4 DEF ConsentsInv, ConsentsTyped
  <2>2. \A k \in Consents!Types : Len(consent'[k]) <= MaxEvents
    BY <1>5, <1>7 DEF ConsentsInv, ConsentsTyped
  <2>3. QED BY <1>6, <2>1, <2>2 DEF ConsentsInv, ConsentsTyped, ConsentRow, Consents!Types, Consents!Ops
<1>9. ASSUME NEW k \in Consents!Types
      PROVE  /\ Superseded(consent'[k]) /\ (owner # "erased" => Standing(consent'[k]))
             /\ Stands(consent[k]) => Stands(consent'[k])
  <2>1. CASE k = t
    BY <1>2, <1>4, <1>7, <2>1
  <2>2. CASE k # t
    BY <1>7, <2>2 DEF ConsentsInv, LogSound
  <2>3. QED BY <2>1, <2>2
<1>10. LogSound'
  BY <1>6, <1>9 DEF LogSound, Consents!Types
<1>11. DataSound'
  BY <1>6, <1>9 DEF ConsentsInv, DataSound, Consents!Types
<1>12. QED BY <1>8, <1>10, <1>11 DEF ConsentsInv

\* fct_anonymize_user: the data goes and every consent is withdrawn.
LEMMA AnonymizeKeeps ==
    ASSUME MaxEvents \in Nat, ConsentsInv, Consents!Anonymize
    PROVE  ConsentsInv'
<1>1. /\ owner' = "erased" /\ sex' = FALSE /\ prefs' = FALSE /\ presence' = Consents!NoPresence
      /\ consent' = [t \in Consents!Types |-> [i \in 1..Len(consent[t]) |-> [consent[t][i] EXCEPT !.withdrawn = TRUE]]]
      /\ UNCHANGED <<config, write, sweep>>
  BY DEF Consents!Anonymize
<1>2. ASSUME NEW t \in Consents!Types
      PROVE  consent'[t] \in Seq(ConsentRow) /\ Len(consent'[t]) <= MaxEvents /\ Superseded(consent'[t])
  <2> DEFINE A == 1..Len(consent[t])
  <2>1. consent[t] \in Seq(ConsentRow) /\ Len(consent[t]) <= MaxEvents
    BY DEF ConsentsInv, ConsentsTyped
  <2>2. /\ consent'[t] = [i \in 1..Len(consent[t]) |-> consent'[t][i]]
        /\ \A i \in 1..Len(consent[t]) : consent'[t][i] = IF i \in A THEN [consent[t][i] EXCEPT !.withdrawn = TRUE] ELSE consent[t][i]
    BY <1>1
  <2>3. \A i \in 1..Len(consent[t]) : i \in A
    OBVIOUS
  <2> HIDE DEF A
  <2>4. /\ consent'[t] \in Seq(ConsentRow) /\ Len(consent'[t]) = Len(consent[t])
        /\ \A j \in 1..Len(consent[t]) : j \in A => consent'[t][j].withdrawn
    <3>1. PICK u : u = consent'[t]
      OBVIOUS
    <3>2. /\ u = [i \in 1..Len(consent[t]) |-> u[i]]
          /\ \A i \in 1..Len(consent[t]) : u[i] = IF i \in A THEN [consent[t][i] EXCEPT !.withdrawn = TRUE] ELSE consent[t][i]
      BY <2>2, <3>1
    <3>3. /\ u \in Seq(ConsentRow) /\ Len(u) = Len(consent[t])
          /\ \A j \in 1..Len(consent[t]) : (j \in A => u[j].withdrawn) /\ (j \notin A => u[j] = consent[t][j])
      BY <2>1, <3>2, RowsWithdrawn
    <3>4. QED BY <3>1, <3>3
  <2>5. QED BY <2>1, <2>3, <2>4 DEF Superseded
<1>3. ConsentsTyped'
  <2>1. consent' = [t \in Consents!Types |-> consent'[t]]
    BY <1>1
  <2>2. consent' \in [Consents!Types -> Seq(ConsentRow)]
    BY <1>2, <2>1, Zenon
  <2>3. presence' \in [exists: BOOLEAN, fresh: BOOLEAN, age: 0..2]
    BY <1>1 DEF Consents!NoPresence
  <2>4. QED BY <1>1, <1>2, <2>2, <2>3 DEF ConsentsInv, ConsentsTyped, ConsentRow, Consents!Types, Consents!Ops
<1>4. LogSound'
  BY <1>1, <1>2 DEF LogSound, Consents!Types
<1>5. DataSound'
  BY <1>1 DEF DataSound, Consents!NoPresence
<1>6. QED BY <1>3, <1>4, <1>5 DEF ConsentsInv

-----------------------------------------------------------------------------
\* Every step keeps the invariant.
LEMMA ConsentsStep == ASSUME MaxEvents \in Nat, ConsentsInv, [Consents!Next]_(Consents!vars) PROVE ConsentsInv'
BY RecordKeeps, WritesKeep, RequireKeeps, PositionsKeep, DeployKeeps, PurgeKeeps, AnonymizeKeeps DEF Consents!Next

\* It gives the property.
LEMMA ConsentsImply == ASSUME ConsentsInv PROVE Consents!ConsentsConsistent
<1>1. \A t \in Consents!Types : /\ Stands(consent[t]) => Consents!Active(t) = {Len(consent[t])}
                                /\ ~Stands(consent[t]) => Consents!Active(t) = {}
  BY ActiveIsLatest DEF ConsentsInv, LogSound
<1>2. ASSUME NEW t \in Consents!Types PROVE Consents!Cardinality(Consents!Active(t)) <= 1
  <2>1. \A S : Consents!Cardinality(S) = Cardinality(S)
    BY DEF Consents!Cardinality, Cardinality
  <2>2. Cardinality(Consents!Active(t)) \in {0, 1}
    BY <1>1, FS_EmptySet, FS_Singleton
  <2>3. QED BY <2>1, <2>2
<1>3. Consents!TypeOK
  BY <1>2 DEF ConsentsInv, ConsentsTyped, ConsentRow, Consents!TypeOK
<1>4. Consents!DataRestsOnConsent
  BY <1>1 DEF ConsentsInv, DataSound, Consents!DataRestsOnConsent, Consents!Types
<1>5. Consents!ShownIsEnforced
  <2>1. SUFFICES ASSUME owner = "open", NEW t \in Consents!Types
                 PROVE  /\ Consents!Active(t) # {} => Consents!Active(t) = {Len(consent[t])}
                        /\ Consents!Shown(t) => Consents!Active(t) # {}
    BY DEF Consents!ShownIsEnforced
  <2>2. ASSUME Consents!Shown(t) PROVE Stands(consent[t])
    <3>1. consent[t] # <<>> /\ consent[t][Len(consent[t])].granted
      BY <2>2 DEF Consents!Shown, Consents!Latest
    <3>2. consent[t] \in Seq(ConsentRow) /\ Standing(consent[t])
      BY <2>1 DEF ConsentsInv, ConsentsTyped, LogSound
    <3>3. Len(consent[t]) > 0
      BY <3>1, <3>2, EmptySeq
    <3>4. QED BY <3>1, <3>2, <3>3 DEF Standing, Stands
  <2>3. QED BY <1>1, <2>2
<1>6. QED BY <1>3, <1>4, <1>5 DEF Consents!ConsentsConsistent

\* recordConsents, lockLegalChoices and the purge of user_consent: a choice has at
\* most one active row, which is the event that is shown, and the sex, the
\* preferences and the position are stored only while it stands; for any number of
\* processes, versions of the documents, writes under way and events.
THEOREM ConsentsSound == ASSUME MaxEvents \in Nat PROVE Consents!Spec => []ConsentsConsistent
<1>1. Consents!Init => ConsentsInv
  BY ConsentsStart
<1>2. ConsentsInv /\ [Consents!Next]_(Consents!vars) => ConsentsInv'
  BY ConsentsStep
<1>3. ConsentsInv => ConsentsConsistent
  BY ConsentsImply DEF ConsentsConsistent
<1>4. QED BY <1>1, <1>2, <1>3, PTL DEF Consents!Spec

=============================================================================
