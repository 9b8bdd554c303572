------------------------ MODULE PhotoLifecycleProofs ------------------------
(***************************************************************************)
(* Proofs about PhotoLifecycle for any number of accounts, keys, photos,   *)
(* removers and faults.                                                    *)
(***************************************************************************)
EXTENDS PhotoLifecycle, FiniteSetTheorems, TLAPS

-----------------------------------------------------------------------------
(* The inductive invariant.                                                *)

\* TypeOK without the foreign key.
Typed ==
    /\ account \in [Users -> {"live", "closing", "drained", "erased"}]
    /\ photo \in [Photos -> Row \cup {NoRow}]
    /\ request \in [Users \X Keys -> Request \cup {NoRequest}]
    /\ verdict \in [Photos -> {"none", "pending", "approved", "rejected"}]
    /\ store \in SUBSET Photos
    /\ upload \in [Photos -> Positions]
    /\ held \in SUBSET (Photos \X Users)
    /\ queued \in SUBSET Photos
    /\ task \in [Removers -> Task]
    /\ faults \in SUBSET FaultKinds

\* An upload writes its row first and its object last.  A photo that is shown has
\* its object, and its upload is over.
Written ==
    \A p \in Photos :
        /\ upload[p] = "unused" => photo[p] = NoRow
        /\ upload[p] \in {"unused", "converting", "recording", "storing"} => p \notin store
        /\ upload[p] = "activating" /\ photo[p].status = "processing" => p \in store
        /\ photo[p].status = "ready" => p \in store /\ upload[p] = "over"

\* The photos that a remover still has to do something about.
Aims(r, p) == p \in task[r].todo \/ p = task[r].gone

\* What a remover aims at is marked, and never comes back from that.
Marked ==
    \A r \in Removers, p \in Photos : Aims(r, p) =>
        photo[p].status \in {"deleting", "none"} /\ upload[p] # "unused"

\* The two unique indexes of user_photo.
Single ==
    \A p, q \in Photos :
        /\ photo[p].status = photo[q].status /\ photo[p].status \in {"ready", "processing"}
        /\ photo[p].user = photo[q].user
        => p = q

\* A request names its photo until it is consumed.
Followed ==
    \A i \in Users \X Keys :
        /\ request[i].status \in {"processing", "completed"} =>
             /\ request[i].photo \in Photos /\ photo[request[i].photo].status # "none"
             /\ photo[request[i].photo].user = i[1]
             /\ photo[request[i].photo].status \in
                  {"deleting", IF request[i].status = "processing" THEN "processing" ELSE "ready"}
        /\ request[i].status = "consumed" => request[i].photo = NoPhoto

\* One remover at most erases an account, which waits for it.
Closing ==
    \A r \in Removers : \A u \in task[r].users :
        /\ account[u] = "closing"
        /\ \A s \in Removers : u \in task[s].users => s = r

\* No upload has outlived its lock or the window of the cleanup.
Punctual == faults \cap {"lock", "slow"} = {}

\* Then a running upload has its row, fresh, and its lock; and an object that was
\* deleted stays away.
Sheltered ==
    Punctual =>
        /\ \A p \in Photos : Running(p) =>
             photo[p].status = "processing" /\ ~photo[p].old /\ <<p, photo[p].user>> \in held
        /\ \A r \in Removers : task[r].gone \notin store

\* The inductive invariant.
IInv == /\ Typed /\ Written /\ Marked /\ Single /\ Followed /\ Closing /\ ErasureComplete
        /\ Sheltered /\ NoOrphanObject

-----------------------------------------------------------------------------
(* Rows.                                                                   *)

\* A row, and no row.
LEMMA Rows ==
    /\ NoRow.status = "none"
    /\ \A x \in Row \cup {NoRow} : x.status # "none" <=> x \in Row
    /\ \A x \in Row : x.status \in {"processing", "ready", "deleting"} /\ x.user \in Users
BY DEF Row, NoRow

\* What happens to a row in most steps: nothing, or it is touched or marked, or
\* removed.
Stays(p) ==
    \/ photo'[p] = photo[p]
    \/ /\ photo[p] \in Row /\ photo'[p] \in Row /\ photo'[p].user = photo[p].user
       /\ photo'[p].status \in {photo[p].status, "deleting"}

Fades(p) == Stays(p) \/ (photo'[p] = NoRow /\ photo[p].status \in {"processing", "deleting"})

AllStay == \A p \in Photos : Stays(p)
AllFade == \A p \in Photos : Fades(p)

RowsTyped == photo' \in [Photos -> Row \cup {NoRow}]

\* Marking rows.
LEMMA Marks ==
    ASSUME Typed, NEW P, \A p \in P : p \in Photos /\ photo[p].status # "none"
    PROVE  /\ MarkDeleting(P) \in [Photos -> Row \cup {NoRow}]
           /\ \A p \in Photos : IF p \in P
                THEN /\ MarkDeleting(P)[p] \in Row /\ MarkDeleting(P)[p].user = photo[p].user
                     /\ MarkDeleting(P)[p].status = "deleting" /\ ~MarkDeleting(P)[p].old
                ELSE MarkDeleting(P)[p] = photo[p]
<1> DEFINE M(p) == [photo[p] EXCEPT !.status = "deleting", !.old = FALSE]
<1>1. ASSUME NEW p \in P
      PROVE  M(p) \in Row /\ M(p).user = photo[p].user /\ M(p).status = "deleting" /\ ~M(p).old
  <2>1. photo[p] \in Row
    BY Rows DEF Typed
  <2>2. QED BY <2>1 DEF Row
<1>2. MarkDeleting(P) = [p \in Photos |-> IF p \in P THEN M(p) ELSE photo[p]]
  BY DEF MarkDeleting
<1> HIDE DEF M
<1>3. QED BY <1>1, <1>2 DEF Typed

\* A step that marks rows.
LEMMA MarkSteps ==
    ASSUME Typed, NEW P, \A p \in P : p \in Photos /\ photo[p].status # "none", photo' = MarkDeleting(P)
    PROVE  /\ RowsTyped /\ \A p \in Photos : Stays(p)
           /\ \A p \in Photos : p \notin P => photo'[p] = photo[p]
           /\ \A p \in P : /\ photo'[p] \in Row /\ photo'[p].status = "deleting"
                           /\ photo'[p].user = photo[p].user /\ ~photo'[p].old
<1>1. \A p \in P : photo[p] \in Row
  BY Rows DEF Typed
<1>2. QED BY <1>1, Marks DEF Stays, RowsTyped

\* A new upload.
LEMMA CreatedRow ==
    ASSUME Typed, NEW p \in Photos, NEW u \in Users, NEW k \in Keys, CreateProcessing(p, u, k)
    PROVE  /\ RowsTyped
           /\ photo'[p] \in Row /\ photo'[p].status = "processing" /\ photo'[p].user = u /\ ~photo'[p].old
           /\ \A q \in Photos : q # p => photo'[q] = photo[q]
BY DEF Typed, CreateProcessing, RowsTyped, Row

\* An activation either leaves the rows alone, or shows the photo and marks the one
\* that was shown.
Shows(p) ==
    /\ photo[p].status = "processing" /\ photo'[p] \in Row /\ photo'[p].status = "ready"
    /\ photo'[p].user = photo[p].user /\ account[photo[p].user] = "live"
    /\ \A q \in Photos : q # p =>
         IF photo[q].status = "ready" /\ photo[q].user = photo[p].user
         THEN photo[q] \in Row /\ photo'[q] \in Row /\ photo'[q].status = "deleting" /\ photo'[q].user = photo[q].user
         ELSE photo'[q] = photo[q]

\* The rows in an activation.
LEMMA ActivatedRow ==
    ASSUME Typed, NEW p \in Photos, NEW v, Activate(p, v)
    PROVE  RowsTyped /\ ((photo' = photo /\ request' = request) \/ Shows(p))
<1> DEFINE previous == WithStatus(photo[p].user, "ready")
           M == MarkDeleting(previous)
           shown == photo[p].status = "processing" /\ photo[p].recorded /\ account[photo[p].user] = "live"
<1>1. CASE ~shown
  BY <1>1 DEF Activate, Typed, RowsTyped
<1>2. CASE shown
  <2>1. photo' = [M EXCEPT ![p].status = "ready", ![p].old = FALSE]
    BY <1>2 DEF Activate
  <2>2. \A q \in Photos : q \in previous <=> photo[q].status = "ready" /\ photo[q].user = photo[p].user
    BY Rows DEF WithStatus, RowsOf
  <2>3. previous \subseteq Photos /\ p \notin previous
    BY <1>2, <2>2 DEF WithStatus, RowsOf
  <2>4. photo[p] \in Row
    BY <1>2, Rows DEF Typed
  <2>5. /\ M \in [Photos -> Row \cup {NoRow}]
        /\ \A q \in Photos : IF q \in previous
             THEN /\ M[q] \in Row /\ M[q].user = photo[q].user /\ M[q].status = "deleting"
             ELSE M[q] = photo[q]
    <3>1. \A q \in previous : q \in Photos /\ photo[q].status # "none"
      BY <2>2, <2>3
    <3>2. QED BY <3>1, Marks
  <2> HIDE DEF M, previous
  <2>6. /\ photo'[p] = [[photo[p] EXCEPT !.status = "ready"] EXCEPT !.old = FALSE]
        /\ \A q \in Photos : q # p => photo'[q] = M[q]
        /\ DOMAIN photo' = Photos /\ photo' = [q \in Photos |-> photo'[q]]
    BY <2>1, <2>3, <2>5
  <2>7. photo'[p] \in Row /\ photo'[p].status = "ready" /\ photo'[p].user = photo[p].user
    BY <2>4, <2>6 DEF Row
  <2>8. RowsTyped
    BY <2>5, <2>6, <2>7 DEF RowsTyped
  <2>9. \A q \in Photos : photo[q].status = "ready" => photo[q] \in Row
    BY Rows DEF Typed
  <2>10. QED BY <1>2, <2>2, <2>5, <2>6, <2>7, <2>8, <2>9 DEF Shows
<1>3. QED BY <1>1, <1>2

\* The rows in the other steps of an upload.
LEMMA UploadRows ==
    ASSUME Typed, NEW p \in Photos, ConversionFails(p) \/ RecordProcessed(p) \/ Ages(p)
    PROVE  RowsTyped /\ \A q \in Photos : Fades(q) /\ (q # p => photo'[q] = photo[q])
<1> DEFINE Kept == RowsTyped /\ \A q \in Photos : Fades(q) /\ (q # p => photo'[q] = photo[q])
<1>1. ASSUME photo' = photo PROVE Kept
  BY <1>1 DEF Typed, RowsTyped, Fades, Stays
<1>2. ASSUME NEW x, photo' = [photo EXCEPT ![p] = x],
             \/ x = NoRow /\ photo[p].status \in {"processing", "deleting"}
             \/ /\ photo[p] \in Row /\ x \in Row /\ x.user = photo[p].user /\ x.status = photo[p].status
      PROVE  Kept
  BY <1>2 DEF Typed, RowsTyped, Fades, Stays
<1>3. ASSUME DiscardProcessing(p) PROVE Kept
  <2>1. CASE photo[p].status = "processing"
    BY <2>1, <1>2, <1>3 DEF DiscardProcessing
  <2>2. CASE photo[p].status # "processing"
    <3>1. photo' = [photo EXCEPT ![p] = photo[p]]
      BY <1>3, <2>2 DEF DiscardProcessing
    <3>2. QED BY <1>1, <3>1 DEF Typed
  <2>3. QED BY <2>1, <2>2
<1>4. CASE ConversionFails(p)
  BY <1>3, <1>4 DEF ConversionFails
<1>5. CASE RecordProcessed(p)
  <2>1. CASE photo[p].status = "processing" /\ photo' = [photo EXCEPT ![p].recorded = TRUE, ![p].old = FALSE]
    <3>1. photo[p] \in Row
      BY <2>1, Rows DEF Typed
    <3>2. photo' = [photo EXCEPT ![p] = [[photo[p] EXCEPT !.recorded = TRUE] EXCEPT !.old = FALSE]]
      BY <2>1 DEF Typed
    <3> DEFINE x == [[photo[p] EXCEPT !.recorded = TRUE] EXCEPT !.old = FALSE]
    <3>3. x \in Row /\ x.user = photo[p].user /\ x.status = photo[p].status
      BY <3>1 DEF Row
    <3> HIDE DEF x
    <3>4. photo' = [photo EXCEPT ![p] = x]
      BY <3>2 DEF x
    <3>5. QED BY <1>2, <3>1, <3>3, <3>4
  <2>2. QED BY <1>1, <1>3, <1>5, <2>1 DEF RecordProcessed
<1>6. CASE Ages(p)
  <2>1. photo[p] \in Row
    BY <1>6, Rows DEF Typed, Ages
  <2> DEFINE x == [photo[p] EXCEPT !.old = TRUE]
  <2>2. photo' = [photo EXCEPT ![p] = x]
    BY <1>6 DEF Ages
  <2>3. x \in Row /\ x.user = photo[p].user /\ x.status = photo[p].status
    BY <2>1 DEF Row
  <2> HIDE DEF x
  <2>4. QED BY <1>2, <2>1, <2>2, <2>3
<1>7. QED BY <1>4, <1>5, <1>6

\* The steps that mark rows, and the rows they mark.
LEMMA MarkingSteps ==
    ASSUME Typed
    PROVE  /\ \A u \in Users : BeginDelete(u) =>
                \E P \in SUBSET Photos : /\ photo' = MarkDeleting(P)
                                         /\ \A p \in P : photo[p].status = "ready"
           /\ \A p \in Photos, d \in {"approved", "rejected"} : Review(p, d) =>
                photo' = photo \/ (photo' = MarkDeleting({p}) /\ photo[p].status = "ready")
           /\ \A p \in Photos : ReconcilePhoto(p) =>
                /\ photo' = MarkDeleting({p})
                /\ photo[p].status = "deleting" \/ (photo[p].status = "processing" /\ photo[p].old)
           /\ \A r \in Removers : ClaimCleanupBatch(r) =>
                /\ photo' = MarkDeleting(Stale) /\ Stale \subseteq Photos
                /\ \A p \in Stale : photo[p].status = "deleting" \/ (photo[p].status = "processing" /\ photo[p].old)
           /\ \A r \in Removers, u \in Users : BeginAccountDeletion(r, u) =>
                /\ photo' = MarkDeleting(RowsOf(u)) /\ RowsOf(u) \subseteq Photos
                /\ \A p \in Photos : p \in RowsOf(u) <=> photo[p].status # "none" /\ photo[p].user = u
<1>1. \A u \in Users : BeginDelete(u) =>
                \E P \in SUBSET Photos : /\ photo' = MarkDeleting(P)
                                         /\ \A p \in P : photo[p].status = "ready"
  BY DEF BeginDelete, WithStatus, RowsOf
<1>2. \A p \in Photos, d \in {"approved", "rejected"} : Review(p, d) =>
                photo' = photo \/ (photo' = MarkDeleting({p}) /\ photo[p].status = "ready")
  BY DEF Review
<1>3. \A p \in Photos : ReconcilePhoto(p) =>
                /\ photo' = MarkDeleting({p})
                /\ photo[p].status = "deleting" \/ (photo[p].status = "processing" /\ photo[p].old)
  BY DEF ReconcilePhoto
<1>4. \A r \in Removers : ClaimCleanupBatch(r) =>
                /\ photo' = MarkDeleting(Stale) /\ Stale \subseteq Photos
                /\ \A p \in Stale : photo[p].status = "deleting" \/ (photo[p].status = "processing" /\ photo[p].old)
  BY DEF ClaimCleanupBatch, Stale
<1>5. \A r \in Removers, u \in Users : BeginAccountDeletion(r, u) =>
                /\ photo' = MarkDeleting(RowsOf(u)) /\ RowsOf(u) \subseteq Photos
                /\ \A p \in Photos : p \in RowsOf(u) <=> photo[p].status # "none" /\ photo[p].user = u
  BY DEF BeginAccountDeletion, RowsOf
<1>6. QED BY <1>1, <1>2, <1>3, <1>4, <1>5

\* The groups of steps.
Marking ==
    \/ \E u \in Users : BeginDelete(u)
    \/ \E p \in Photos, d \in {"approved", "rejected"} : Review(p, d)
    \/ \E p \in Photos : ReconcilePhoto(p)
    \/ \E r \in Jobs : ClaimCleanupBatch(r)
    \/ \E r \in Handlers, u \in Users : BeginAccountDeletion(r, u)

\* The steps that leave all rows alone.
RowsAlone ==
    \/ \E p \in Photos : Convert(p) \/ Put(p) \/ PutFails(p) \/ UploadDies(p) \/ LockLost(p) \/ DropEvent(p)
    \/ \E u \in Users : Close(u) \/ Anonymize(u)
    \/ \E r \in Handlers, p \in Photos : TakeEvent(r, p)
    \/ \E r \in Removers : LoopEnds(r) \/ RemoverDies(r) \/ \E p \in Photos : DeleteObject(r, p) \/ DeleteFails(r, p)
    \/ \E i \in Users \X Keys : Expires(i) \/ PurgeRequest(i)
    \/ UNCHANGED vars

\* Next by what a step does to the rows.
LEMMA NextCases ==
    ASSUME [Next]_vars
    PROVE  \/ Marking \/ RowsAlone
           \/ \E p \in Photos, u \in Users, k \in Keys : CreateProcessing(p, u, k)
           \/ \E p \in Photos : ConversionFails(p) \/ RecordProcessed(p) \/ Ages(p)
           \/ \E p \in Photos, v \in {"pending", "approved"} : Activate(p, v)
           \/ \E r \in Removers : CompleteDeletion(r)
BY DEF Next, Uploading, Removing, Erasure, Marking, RowsAlone

\* They do.
LEMMA AloneSteps == ASSUME RowsAlone PROVE photo' = photo
<1>1. ASSUME NEW p \in Photos, Convert(p) \/ Put(p) \/ PutFails(p) \/ UploadDies(p) \/ LockLost(p) \/ DropEvent(p)
      PROVE  photo' = photo
  BY <1>1 DEF Convert, Put, PutFails, UploadDies, LockLost, DropEvent
<1>2. ASSUME NEW u \in Users, Close(u) \/ Anonymize(u) PROVE photo' = photo
  BY <1>2 DEF Close, Anonymize
<1>3. ASSUME NEW r \in Removers, NEW p \in Photos, TakeEvent(r, p) \/ DeleteObject(r, p) \/ DeleteFails(r, p)
      PROVE  photo' = photo
  BY <1>3 DEF TakeEvent, DeleteObject, DeleteFails
<1>4. ASSUME NEW r \in Removers, LoopEnds(r) \/ RemoverDies(r) PROVE photo' = photo
  BY <1>4 DEF LoopEnds, RemoverDies
<1>5. ASSUME NEW i \in Users \X Keys, Expires(i) \/ PurgeRequest(i) PROVE photo' = photo
  BY <1>5 DEF Expires, PurgeRequest
<1>6. QED BY <1>1, <1>2, <1>3, <1>4, <1>5 DEF RowsAlone, vars, Removers

\* The photo a removal completes.
LEMMA CompletedRow ==
    ASSUME Typed, NEW r \in Removers, CompleteDeletion(r)
    PROVE  LET p == task[r].gone IN
           /\ p \in Photos /\ RowsTyped /\ \A q \in Photos : Fades(q)
           /\ IF photo[p].status = "deleting" THEN photo'[p] = NoRow ELSE photo'[p] = photo[p]
           /\ \A q \in Photos : q # p => photo'[q] = photo[q]
<1> DEFINE p == task[r].gone
<1>1. p \in Photos
  BY DEF CompleteDeletion, Typed, Task
<1>2. photo' = [photo EXCEPT ![p] = IF photo[p].status = "deleting" THEN NoRow ELSE @]
  BY DEF CompleteDeletion
<1> HIDE DEF p
<1>3. QED BY <1>1, <1>2 DEF Typed, RowsTyped, Fades, Stays, p

\* A step that marks rows lets all of them stay.
LEMMA MarkingStays ==
    ASSUME Typed, Marking
    PROVE  RowsTyped /\ AllStay
<1> USE DEF AllStay
<1>1. ASSUME photo' = photo PROVE RowsTyped /\ AllStay
  BY <1>1 DEF Typed, RowsTyped, Stays
<1>2. ASSUME NEW P \in SUBSET Photos, \A p \in P : photo[p].status # "none", photo' = MarkDeleting(P)
      PROVE  RowsTyped /\ AllStay
  BY <1>2, MarkSteps
<1> HIDE DEF AllStay
<1>3. ASSUME NEW p \in Photos, photo[p].status # "none", photo' = MarkDeleting({p}) PROVE RowsTyped /\ AllStay
  <2>1. {p} \in SUBSET Photos /\ \A q \in {p} : photo[q].status # "none"
    BY <1>3
  <2>2. QED BY <1>2, <1>3, <2>1
<1>4. ASSUME NEW u \in Users, BeginDelete(u) PROVE RowsTyped /\ AllStay
  BY <1>2, <1>4, MarkingSteps
<1>5. ASSUME NEW p \in Photos, NEW d \in {"approved", "rejected"}, Review(p, d) PROVE RowsTyped /\ AllStay
  <2>1. photo' = photo \/ (photo' = MarkDeleting({p}) /\ photo[p].status = "ready")
    BY <1>5, MarkingSteps
  <2>2. QED BY <1>1, <1>3, <2>1
<1>6. ASSUME NEW p \in Photos, ReconcilePhoto(p) PROVE RowsTyped /\ AllStay
  BY <1>3, <1>6, MarkingSteps
<1>7. ASSUME NEW r \in Removers, ClaimCleanupBatch(r) PROVE RowsTyped /\ AllStay
  BY <1>2, <1>7, MarkingSteps
<1>8. ASSUME NEW r \in Removers, NEW u \in Users, BeginAccountDeletion(r, u) PROVE RowsTyped /\ AllStay
  BY <1>2, <1>8, MarkingSteps
<1>9. QED BY <1>4, <1>5, <1>6, <1>7, <1>8 DEF Marking, Removers

\* Rows fade, but for the two steps that write and show one.
LEMMA RowSteps ==
    ASSUME Typed, [Next]_vars
    PROVE  /\ RowsTyped
           /\ \/ AllFade
              \/ \E p \in Photos, u \in Users, k \in Keys : CreateProcessing(p, u, k)
              \/ \E p \in Photos, v \in {"pending", "approved"} : Activate(p, v) /\ Shows(p)
<1>1. ASSUME photo' = photo PROVE RowsTyped /\ AllFade
  BY <1>1 DEF Typed, RowsTyped, Fades, Stays, AllFade
<1>2. ASSUME Marking PROVE RowsTyped /\ AllFade
  BY <1>2, MarkingStays DEF AllStay, AllFade, Fades
<1>3. ASSUME NEW p \in Photos, NEW v, Activate(p, v) PROVE RowsTyped /\ (AllFade \/ Shows(p))
  BY <1>1, <1>3, ActivatedRow
<1>4. ASSUME NEW p \in Photos, ConversionFails(p) \/ RecordProcessed(p) \/ Ages(p) PROVE RowsTyped /\ AllFade
  BY <1>4, UploadRows DEF AllFade
<1>5. ASSUME NEW r \in Removers, CompleteDeletion(r) PROVE RowsTyped /\ AllFade
  BY <1>5, CompletedRow DEF AllFade
<1>6. ASSUME RowsAlone PROVE RowsTyped /\ AllFade
  BY <1>1, <1>6, AloneSteps
<1>7. QED BY <1>2, <1>3, <1>4, <1>5, <1>6, CreatedRow, NextCases

-----------------------------------------------------------------------------
(* Types.                                                                  *)

\* A request, and no request.
LEMMA RequestRecords ==
    /\ NoRequest.status = "none"
    /\ \A x \in Request \cup {NoRequest} : x.status # "none" <=> x \in Request
    /\ \A x \in Request : x.photo \in Photos \cup {NoPhoto}
BY DEF Request, NoRequest

\* An upload that is over has no lock any more.
LEMMA Left ==
    ASSUME Typed, NEW p \in Photos, Leave(p)
    PROVE  /\ upload' \in [Photos -> Positions] /\ held' \in SUBSET (Photos \X Users)
           /\ upload'[p] = "over" /\ \A q \in Photos : q # p => upload'[q] = upload[q]
           /\ \A q \in Photos, u \in Users : q # p => (<<q, u>> \in held' <=> <<q, u>> \in held)
           /\ held' \subseteq held
BY DEF Typed, Leave, Positions

\* What a remover remembers after a step of its own.
TaskBecomes(r, todo, gone, users) ==
    /\ task' \in [Removers -> Task]
    /\ task'[r].todo = todo /\ task'[r].gone = gone /\ task'[r].users = users
    /\ \A s \in Removers : s # r => task'[s] = task[s]

\* The steps of the removers.
LEMMA TaskSteps ==
    ASSUME Typed, NEW r \in Removers
    PROVE  /\ \A p \in Photos : TakeEvent(r, p) =>
                \/ task' = task
                \/ photo[p].status = "deleting" /\ TaskBecomes(r, {p}, NoPhoto, {})
           /\ ClaimCleanupBatch(r) => TaskBecomes(r, Stale, NoPhoto, {})
           /\ \A u \in Users : BeginAccountDeletion(r, u) => TaskBecomes(r, RowsOf(u), NoPhoto, {u})
           /\ \A p \in Photos : DeleteObject(r, p) => TaskBecomes(r, task[r].todo \ {p}, p, task[r].users)
           /\ \A p \in Photos : DeleteFails(r, p) => TaskBecomes(r, task[r].todo \ {p}, task[r].gone, task[r].users)
           /\ CompleteDeletion(r) => TaskBecomes(r, task[r].todo, NoPhoto, task[r].users)
           /\ LoopEnds(r) \/ RemoverDies(r) => TaskBecomes(r, {}, NoPhoto, {})
<1>1. Idle \in Task /\ Idle.by = "idle" /\ Idle.todo = {} /\ Idle.gone = NoPhoto /\ Idle.users = {}
  BY DEF Idle, Task
<1>2. task \in [Removers -> Task] /\ task[r] \in Task
  BY DEF Typed
<1>3. ASSUME NEW P \in SUBSET Photos, NEW b \in {"outbox", "cleanup"},
             task' = [task EXCEPT ![r] = [Idle EXCEPT !.by = b, !.todo = P]]
      PROVE  TaskBecomes(r, P, NoPhoto, {})
  BY <1>1, <1>2, <1>3 DEF Task, TaskBecomes
<1>4. ASSUME NEW p \in Photos, TakeEvent(r, p)
      PROVE  task' = task \/ (photo[p].status = "deleting" /\ TaskBecomes(r, {p}, NoPhoto, {}))
  <2>1. CASE photo[p].status # "deleting"
    BY <1>4, <2>1 DEF TakeEvent
  <2>2. CASE photo[p].status = "deleting"
    <3>1. {p} \in SUBSET Photos /\ task' = [task EXCEPT ![r] = [Idle EXCEPT !.by = "outbox", !.todo = {p}]]
      BY <1>4, <2>2 DEF TakeEvent
    <3>2. QED BY <1>3, <2>2, <3>1
  <2>3. QED BY <2>1, <2>2
<1>5. ASSUME ClaimCleanupBatch(r) PROVE TaskBecomes(r, Stale, NoPhoto, {})
  <2>1. Stale \in SUBSET Photos /\ task' = [task EXCEPT ![r] = [Idle EXCEPT !.by = "cleanup", !.todo = Stale]]
    BY <1>5 DEF ClaimCleanupBatch, Stale
  <2>2. QED BY <1>3, <2>1
<1>6. ASSUME NEW u \in Users, BeginAccountDeletion(r, u) PROVE TaskBecomes(r, RowsOf(u), NoPhoto, {u})
  <2> DEFINE P == RowsOf(u)
  <2>1. P \in SUBSET Photos /\ task' = [task EXCEPT ![r] = [Idle EXCEPT !.by = "erasure", !.todo = P, !.users = {u}]]
    BY <1>6 DEF BeginAccountDeletion, RowsOf
  <2> HIDE DEF P
  <2>2. TaskBecomes(r, P, NoPhoto, {u})
    BY <1>1, <1>2, <2>1 DEF Task, TaskBecomes
  <2>3. QED BY <2>2 DEF P
<1>7. ASSUME NEW p \in Photos, DeleteObject(r, p) PROVE TaskBecomes(r, task[r].todo \ {p}, p, task[r].users)
  <2>1. task' = [task EXCEPT ![r].todo = @ \ {p}, ![r].gone = p]
    BY <1>7 DEF DeleteObject
  <2>2. QED BY <1>2, <2>1 DEF Task, TaskBecomes
<1>8. ASSUME NEW p \in Photos, DeleteFails(r, p)
      PROVE  TaskBecomes(r, task[r].todo \ {p}, task[r].gone, task[r].users)
  <2>1. task' = [task EXCEPT ![r].todo = @ \ {p}, ![r].failed = TRUE]
    BY <1>8 DEF DeleteFails
  <2>2. QED BY <1>2, <2>1 DEF Task, TaskBecomes
<1>9. ASSUME CompleteDeletion(r) PROVE TaskBecomes(r, task[r].todo, NoPhoto, task[r].users)
  <2>1. task' = [task EXCEPT ![r].gone = NoPhoto]
    BY <1>9 DEF CompleteDeletion
  <2>2. QED BY <1>2, <2>1 DEF Task, TaskBecomes
<1>10. ASSUME LoopEnds(r) \/ RemoverDies(r) PROVE TaskBecomes(r, {}, NoPhoto, {})
  <2>1. task' = [task EXCEPT ![r] = Idle]
    BY <1>10 DEF LoopEnds, RemoverDies
  <2>2. QED BY <1>1, <1>2, <2>1 DEF TaskBecomes
<1>11. QED BY <1>4, <1>5, <1>6, <1>7, <1>8, <1>9, <1>10

\* The requests in the steps that change them.
Keyed == request' \in [Users \X Keys -> Request \cup {NoRequest}]

OnlyRequest(j) == \A i \in Users \X Keys : i # j => request'[i] = request[i]

\* A row of the table is a request.
LEMMA RequestRows ==
    ASSUME Typed
    PROVE  /\ request \in [Users \X Keys -> Request \cup {NoRequest}]
           /\ \A i \in Users \X Keys : request[i].status # "none" => request[i] \in Request
BY RequestRecords DEF Typed

\* A new upload claims its key.
LEMMA CreatedRequest ==
    ASSUME Typed, NEW p \in Photos, NEW u \in Users, NEW k \in Keys, CreateProcessing(p, u, k)
    PROVE  /\ Keyed /\ request'[<<u, k>>].status = "processing" /\ request'[<<u, k>>].photo = p
           /\ OnlyRequest(<<u, k>>)
<1> DEFINE x == [status |-> "processing", photo |-> p, expired |-> FALSE]
           j == <<u, k>>
<1>1. x \in Request /\ x.status = "processing" /\ x.photo = p
  BY DEF Request
<1>2. request' = [request EXCEPT ![j] = x] /\ j \in Users \X Keys
  BY DEF CreateProcessing
<1> HIDE DEF x, j
<1>3. Keyed /\ request'[j] = x /\ OnlyRequest(j)
  BY RequestRows, <1>1, <1>2 DEF Keyed, OnlyRequest
<1>4. QED BY <1>1, <1>3 DEF j

\* An upload that is discarded frees its key.
LEMMA DiscardedRequests ==
    ASSUME Typed, NEW p \in Photos, DiscardProcessing(p)
    PROVE  /\ Keyed
           /\ \A i \in Users \X Keys : IF request[i].status = "processing" /\ request[i].photo = p
                                       THEN request'[i] = NoRequest ELSE request'[i] = request[i]
BY RequestRows DEF DiscardProcessing, Keyed

\* An upload that is shown completes its request.
LEMMA ShownRequests ==
    ASSUME Typed, NEW p \in Photos, NEW v, Activate(p, v)
    PROVE  /\ Keyed
           /\ Shows(p) => \A i \in Users \X Keys :
                IF request[i].status = "processing" /\ request[i].photo = p
                THEN request'[i].status = "completed" /\ request'[i].photo = p
                ELSE request'[i] = request[i]
<1> DEFINE New(i) == [request[i] EXCEPT !.status = "completed"]
<1>1. \A i \in Users \X Keys : request[i].status = "processing" =>
          New(i) \in Request /\ New(i).status = "completed" /\ New(i).photo = request[i].photo
  BY RequestRows DEF Request
<1>2. CASE request' = [i \in DOMAIN request |-> IF request[i].status = "processing" /\ request[i].photo = p
                                                THEN New(i) ELSE request[i]]
  <2> HIDE DEF New
  <2>1. QED BY RequestRows, <1>1, <1>2 DEF Keyed
<1>3. CASE request' = request /\ photo' = photo
  BY RequestRows, <1>3 DEF Shows, Keyed
<1>4. QED BY <1>2, <1>3 DEF Activate

\* A removal consumes the requests of the photo.
LEMMA ConsumedRequests ==
    ASSUME Typed, NEW r \in Removers, CompleteDeletion(r)
    PROVE  /\ Keyed
           /\ \A i \in Users \X Keys :
                IF request[i].status # "none" /\ request[i].photo = task[r].gone
                THEN request'[i].status = "consumed" /\ request'[i].photo = NoPhoto
                ELSE request'[i] = request[i]
<1> DEFINE New(i) == [request[i] EXCEPT !.status = "consumed", !.photo = NoPhoto]
<1>1. \A i \in Users \X Keys : request[i].status # "none" =>
          New(i) \in Request /\ New(i).status = "consumed" /\ New(i).photo = NoPhoto
  BY RequestRows DEF Request
<1>2. request' = [i \in DOMAIN request |-> IF request[i].status # "none" /\ request[i].photo = task[r].gone
                                           THEN New(i) ELSE request[i]]
  BY DEF CompleteDeletion
<1> HIDE DEF New
<1>3. QED BY RequestRows, <1>1, <1>2 DEF Keyed

\* The erasure, and the end of the 24 hours.
LEMMA AgedRequests ==
    ASSUME Typed,
           \/ \E u \in Users : Anonymize(u)
           \/ \E i \in Users \X Keys : Expires(i) \/ PurgeRequest(i)
    PROVE  /\ Keyed
           /\ \A j \in Users \X Keys :
                \/ request'[j] = request[j] \/ request'[j] = NoRequest
                \/ /\ request[j].status # "none"
                   /\ request'[j].status = request[j].status /\ request'[j].photo = request[j].photo
<1> DEFINE Aged == \A j \in Users \X Keys :
                \/ request'[j] = request[j] \/ request'[j] = NoRequest
                \/ /\ request[j].status # "none"
                   /\ request'[j].status = request[j].status /\ request'[j].photo = request[j].photo
<1>1. ASSUME NEW u \in Users, Anonymize(u) PROVE Keyed /\ Aged
  BY RequestRows, <1>1 DEF Anonymize, Keyed
<1>2. ASSUME NEW i \in Users \X Keys, Expires(i) PROVE Keyed /\ Aged
  <2> DEFINE x == [request[i] EXCEPT !.expired = TRUE]
  <2>1. request' = [request EXCEPT ![i] = x] /\ request[i].status # "none"
    BY <1>2 DEF Expires
  <2>2. x \in Request /\ x.status = request[i].status /\ x.photo = request[i].photo
    BY RequestRows, <2>1 DEF Request
  <2> HIDE DEF x
  <2>3. QED BY RequestRows, <2>1, <2>2 DEF Keyed
<1>3. ASSUME NEW i \in Users \X Keys, PurgeRequest(i) PROVE Keyed /\ Aged
  BY RequestRows, <1>3 DEF PurgeRequest, Keyed
<1> HIDE DEF Aged
<1>4. Keyed /\ Aged
  BY <1>1, <1>2, <1>3
<1>5. QED BY <1>4 DEF Aged

\* Every step keeps the types.
LEMMA TypesKept == ASSUME Typed, [Next]_vars PROVE Typed'
<1>0. photo' \in [Photos -> Row \cup {NoRow}]
  BY RowSteps DEF RowsTyped
<1> USE <1>0 DEF Typed
<1>1. ASSUME NEW kind \in FaultKinds, Fault(kind) PROVE faults' \in SUBSET FaultKinds
  BY <1>1 DEF Fault
<1>2. {"crash", "storage", "lock", "slow"} \subseteq FaultKinds
  BY DEF FaultKinds
<1>3. ASSUME NEW p \in Photos, NEW u \in Users, NEW k \in Keys, CreateProcessing(p, u, k) PROVE Typed'
  <2>1. request' \in [Users \X Keys -> Request \cup {NoRequest}]
    BY <1>3, CreatedRequest DEF Keyed
  <2>2. upload' \in [Photos -> Positions] /\ held' \in SUBSET (Photos \X Users)
    BY <1>3 DEF CreateProcessing, Positions
  <2>3. UNCHANGED <<account, verdict, store, queued, task, faults>>
    BY <1>3 DEF CreateProcessing
  <2>4. QED BY <2>1, <2>2, <2>3
<1>4. ASSUME NEW p \in Photos, ConversionFails(p) PROVE Typed'
  BY <1>4, DiscardedRequests, Left DEF ConversionFails, Keyed
<1>5. ASSUME NEW p \in Photos, Convert(p) PROVE Typed'
  BY <1>5 DEF Convert, Positions
<1>6. ASSUME NEW p \in Photos, RecordProcessed(p) PROVE Typed'
  <2>1. upload' \in [Photos -> Positions] /\ held' \in SUBSET (Photos \X Users)
    BY <1>6, Left DEF RecordProcessed, Positions
  <2>2. Keyed
    BY <1>6, DiscardedRequests DEF RecordProcessed, Keyed
  <2>3. QED BY <1>6, <2>1, <2>2 DEF RecordProcessed, Keyed
<1>7. ASSUME NEW p \in Photos, Put(p) PROVE Typed'
  BY <1>7 DEF Put, Positions
<1>8. ASSUME NEW p \in Photos, NEW v \in {"pending", "approved"}, Activate(p, v) PROVE Typed'
  <2>1. queued' \in SUBSET Photos /\ verdict' \in [Photos -> {"none", "pending", "approved", "rejected"}]
    BY <1>8 DEF Activate, WithStatus, RowsOf
  <2>2. QED BY <1>8, <2>1, ShownRequests, Left DEF Activate, Keyed
<1>9. ASSUME NEW p \in Photos, PutFails(p) \/ UploadDies(p) PROVE Typed'
  <2>1. store' \in SUBSET Photos
    BY <1>9 DEF PutFails, UploadDies
  <2>2. QED BY <1>1, <1>2, <1>9, <2>1, Left DEF PutFails, UploadDies
<1>10. ASSUME NEW p \in Photos, LockLost(p) \/ DropEvent(p) PROVE Typed'
  BY <1>1, <1>2, <1>10 DEF LockLost, DropEvent
<1>11. ASSUME NEW p \in Photos, Ages(p) PROVE Typed'
  BY <1>1, <1>2, <1>11 DEF Ages
<1>12. ASSUME NEW u \in Users, BeginDelete(u) PROVE Typed'
  BY <1>12 DEF BeginDelete, WithStatus, RowsOf
<1>13. ASSUME NEW u \in Users, Close(u) PROVE Typed'
  BY <1>13 DEF Close
<1>14. ASSUME NEW u \in Users, Anonymize(u) PROVE Typed'
  BY <1>14, AgedRequests DEF Anonymize, Keyed
<1>15. ASSUME NEW r \in Removers, NEW u \in Users, BeginAccountDeletion(r, u) PROVE Typed'
  <2>1. task' \in [Removers -> Task]
    BY <1>15, TaskSteps DEF TaskBecomes
  <2>2. QED BY <1>15, <2>1 DEF BeginAccountDeletion
<1>16. ASSUME NEW p \in Photos, NEW d \in {"approved", "rejected"}, Review(p, d) PROVE Typed'
  BY <1>16 DEF Review
<1>17. ASSUME NEW p \in Photos, ReconcilePhoto(p) PROVE Typed'
  BY <1>17 DEF ReconcilePhoto
<1>18. ASSUME NEW r \in Removers, NEW p \in Photos, TakeEvent(r, p) PROVE Typed'
  <2>1. task' \in [Removers -> Task]
    BY <1>18, TaskSteps DEF TaskBecomes
  <2>2. QED BY <1>18, <2>1 DEF TakeEvent
<1>19. ASSUME NEW r \in Removers, ClaimCleanupBatch(r) PROVE Typed'
  <2>1. task' \in [Removers -> Task]
    BY <1>19, TaskSteps DEF TaskBecomes
  <2>2. QED BY <1>19, <2>1 DEF ClaimCleanupBatch
<1>20. ASSUME NEW r \in Removers, CompleteDeletion(r) PROVE Typed'
  <2>1. task' \in [Removers -> Task]
    BY <1>20, TaskSteps DEF TaskBecomes
  <2>2. verdict' \in [Photos -> {"none", "pending", "approved", "rejected"}] /\ queued' \in SUBSET Photos
    BY <1>20 DEF CompleteDeletion
  <2>3. QED BY <1>20, <2>1, <2>2, ConsumedRequests DEF CompleteDeletion, Keyed
<1>21. ASSUME NEW r \in Removers, LoopEnds(r) PROVE Typed'
  <2>1. task' \in [Removers -> Task]
    BY <1>21, TaskSteps DEF TaskBecomes
  <2>2. account' \in [Users -> {"live", "closing", "drained", "erased"}]
    BY <1>21 DEF LoopEnds
  <2>3. QED BY <1>21, <2>1, <2>2 DEF LoopEnds
<1>22. ASSUME NEW r \in Removers, RemoverDies(r) PROVE Typed'
  <2>1. task' \in [Removers -> Task]
    BY <1>22, TaskSteps DEF TaskBecomes
  <2>2. QED BY <1>1, <1>2, <1>22, <2>1 DEF RemoverDies
<1>23. ASSUME NEW r \in Removers, NEW p \in Photos, DeleteObject(r, p) PROVE Typed'
  <2>1. task' \in [Removers -> Task]
    BY <1>23, TaskSteps DEF TaskBecomes
  <2>2. QED BY <1>23, <2>1 DEF DeleteObject
<1>24. ASSUME NEW r \in Removers, NEW p \in Photos, DeleteFails(r, p) PROVE Typed'
  <2>1. task' \in [Removers -> Task]
    BY <1>24, TaskSteps DEF TaskBecomes
  <2>2. QED BY <1>1, <1>2, <1>24, <2>1 DEF DeleteFails
<1>25. ASSUME NEW i \in Users \X Keys, Expires(i) \/ PurgeRequest(i) PROVE Typed'
  BY <1>25, AgedRequests DEF Expires, PurgeRequest, Keyed
<1>26. CASE UNCHANGED vars
  BY <1>26 DEF vars
<1>27. CASE Marking
  BY <1>12, <1>15, <1>16, <1>17, <1>19, <1>27 DEF Marking, Removers
<1>28. CASE RowsAlone
  BY <1>5, <1>7, <1>9, <1>10, <1>13, <1>14, <1>18, <1>21, <1>22, <1>23, <1>24, <1>25, <1>26, <1>28
  DEF RowsAlone, Removers
<1>29. QED BY <1>3, <1>4, <1>6, <1>8, <1>11, <1>20, <1>27, <1>28, NextCases

-----------------------------------------------------------------------------
(* Rows, objects and removers.                                             *)

\* A step that neither writes nor removes an object, and ends uploads at most.
LEMMA WrittenFrame ==
    ASSUME Typed, Written, AllFade, store' = store, \A p \in Photos : upload'[p] \in {upload[p], "over"}
    PROVE  Written'
<1> SUFFICES ASSUME NEW p \in Photos
             PROVE  /\ upload'[p] = "unused" => photo'[p] = NoRow
                    /\ upload'[p] \in {"unused", "converting", "recording", "storing"} => p \notin store'
                    /\ upload'[p] = "activating" /\ photo'[p].status = "processing" => p \in store'
                    /\ photo'[p].status = "ready" => p \in store' /\ upload'[p] = "over"
  BY DEF Written
<1>1. photo'[p].status \in {"processing", "ready"} => photo[p].status = photo'[p].status
  BY Rows DEF AllFade, Fades, Stays
<1>2. photo[p] = NoRow => photo'[p] = NoRow
  BY Rows DEF AllFade, Fades, Stays
<1>3. QED BY <1>1, <1>2 DEF Written

\* The steps of an upload write the row before the object; a removal takes the
\* object of a row that is marked.
LEMMA WrittenKept == ASSUME Typed, Written, Marked, [Next]_vars PROVE Written'
<1>1. ASSUME AllFade, UNCHANGED <<upload, store>> PROVE Written'
  BY <1>1, WrittenFrame
<1>2. ASSUME AllFade, UNCHANGED store, NEW p \in Photos, Leave(p) PROVE Written'
  BY <1>2, WrittenFrame, Left
<1>3. CASE Marking
  <2>1. AllFade
    BY <1>3, MarkingStays DEF AllStay, AllFade, Fades
  <2>2. UNCHANGED <<upload, store>>
    BY <1>3 DEF Marking, BeginDelete, Review, ReconcilePhoto, ClaimCleanupBatch, BeginAccountDeletion
  <2>3. QED BY <1>1, <2>1, <2>2
<1>4. ASSUME photo' = photo PROVE AllFade
  BY <1>4 DEF AllFade, Fades, Stays
<1>5. ASSUME NEW p \in Photos, NEW u \in Users, NEW k \in Keys, CreateProcessing(p, u, k) PROVE Written'
  <2>1. /\ upload[p] = "unused" /\ upload'[p] = "converting" /\ store' = store
        /\ \A q \in Photos : q # p => upload'[q] = upload[q] /\ photo'[q] = photo[q]
        /\ photo'[p].status = "processing"
    BY <1>5, CreatedRow DEF CreateProcessing, Typed
  <2>2. QED BY <2>1 DEF Written
<1>6. ASSUME NEW p \in Photos, ConversionFails(p) PROVE Written'
  BY <1>2, <1>6, UploadRows DEF ConversionFails, AllFade
<1>7. ASSUME NEW p \in Photos, RecordProcessed(p) PROVE Written'
  <2>1. AllFade /\ store' = store
    BY <1>7, UploadRows DEF RecordProcessed, AllFade
  <2>2. CASE Leave(p)
    BY <1>2, <2>1, <2>2
  <2>3. CASE photo[p].status = "processing" /\ upload[p] = "recording" /\ upload' = [upload EXCEPT ![p] = "storing"]
    <3>1. /\ upload'[p] = "storing" /\ \A q \in Photos : q # p => upload'[q] = upload[q] /\ photo'[q] = photo[q]
      BY <1>7, <2>3, UploadRows DEF Typed
    <3>2. photo'[p].status # "ready"
      BY <2>1, <2>3, Rows DEF AllFade, Fades, Stays
    <3>3. QED BY <2>1, <2>3, <3>1, <3>2 DEF Written
  <2>4. QED BY <1>7, <2>2, <2>3 DEF RecordProcessed
<1>8. ASSUME NEW p \in Photos, Ages(p) PROVE Written'
  BY <1>1, <1>8, UploadRows DEF Ages, AllFade
<1>9. ASSUME NEW p \in Photos, NEW v, Activate(p, v) PROVE Written'
  <2>1. CASE photo' = photo
    BY <1>2, <1>4, <1>9, <2>1 DEF Activate
  <2>2. CASE Shows(p)
    <3>1. upload[p] = "activating" /\ store' = store /\ Leave(p)
      BY <1>9 DEF Activate
    <3>2. /\ upload'[p] = "over" /\ p \in store
          /\ \A q \in Photos : q # p => upload'[q] = upload[q]
      BY <2>2, <3>1, Left DEF Written, Shows
    <3>3. ASSUME NEW q \in Photos, q # p
          PROVE  /\ photo'[q].status \in {photo[q].status, "deleting"}
                 /\ photo[q] = NoRow => photo'[q] = NoRow
      BY <2>2, <3>3, Rows DEF Shows
    <3>4. QED BY <3>1, <3>2, <3>3 DEF Written
  <2>3. QED BY <1>9, <2>1, <2>2, ActivatedRow
<1>10. ASSUME NEW r \in Removers, CompleteDeletion(r) PROVE Written'
  BY <1>1, <1>10, CompletedRow DEF CompleteDeletion, AllFade
<1>11. ASSUME NEW p \in Photos, Convert(p) \/ Put(p) PROVE Written'
  <2>1. photo' = photo /\ store' \in {store, store \cup {p}}
    BY <1>11 DEF Convert, Put
  <2>2. \A q \in Photos : q # p => upload'[q] = upload[q]
    BY <1>11 DEF Convert, Put, Typed
  <2>3. photo[p].status # "ready"
    BY <1>11 DEF Convert, Put, Written
  <2>4. CASE Convert(p)
    BY <2>1, <2>2, <2>3, <2>4 DEF Convert, Written, Typed
  <2>5. CASE Put(p)
    BY <2>1, <2>2, <2>3, <2>5 DEF Put, Written, Typed
  <2>6. QED BY <1>11, <2>4, <2>5
<1>12. ASSUME NEW p \in Photos, PutFails(p) \/ UploadDies(p) PROVE Written'
  <2>1. photo' = photo /\ store' \in {store, store \cup {p}} /\ Leave(p)
    BY <1>12 DEF PutFails, UploadDies
  <2>2. upload'[p] = "over" /\ \A q \in Photos : q # p => upload'[q] = upload[q]
    BY <2>1, Left
  <2>3. QED BY <2>1, <2>2 DEF Written
<1>13. ASSUME NEW r \in Removers, NEW p \in Photos, DeleteObject(r, p) \/ DeleteFails(r, p) PROVE Written'
  <2>1. photo' = photo /\ upload' = upload /\ store' \in {store, store \ {p}} /\ p \in task[r].todo
    BY <1>13 DEF DeleteObject, DeleteFails
  <2>2. photo[p].status \in {"deleting", "none"}
    BY <2>1 DEF Marked, Aims
  <2>3. QED BY <2>1, <2>2 DEF Written
<1>14. ASSUME UNCHANGED <<photo, upload, store>> PROVE Written'
  BY <1>1, <1>4, <1>14
<1>15. CASE RowsAlone
  <2>1. ASSUME NEW p \in Photos, LockLost(p) \/ DropEvent(p) PROVE UNCHANGED <<photo, upload, store>>
    BY <2>1 DEF LockLost, DropEvent
  <2>2. ASSUME NEW u \in Users, Close(u) \/ Anonymize(u) PROVE UNCHANGED <<photo, upload, store>>
    BY <2>2 DEF Close, Anonymize
  <2>3. ASSUME NEW r \in Removers, NEW p \in Photos, TakeEvent(r, p) PROVE UNCHANGED <<photo, upload, store>>
    BY <2>3 DEF TakeEvent
  <2>4. ASSUME NEW r \in Removers, LoopEnds(r) \/ RemoverDies(r) PROVE UNCHANGED <<photo, upload, store>>
    BY <2>4 DEF LoopEnds, RemoverDies
  <2>5. ASSUME NEW i \in Users \X Keys, Expires(i) \/ PurgeRequest(i) PROVE UNCHANGED <<photo, upload, store>>
    BY <2>5 DEF Expires, PurgeRequest
  <2>6. QED BY <1>11, <1>12, <1>13, <1>14, <1>15, <2>1, <2>2, <2>3, <2>4, <2>5 DEF RowsAlone, Removers, vars
<1>16. QED BY <1>3, <1>5, <1>6, <1>7, <1>8, <1>9, <1>10, <1>15, NextCases

\* A step that gives a remover nothing new to aim at.
LEMMA MarkedFrame ==
    ASSUME Typed, Marked, AllFade,
           \A p \in Photos : upload[p] # "unused" => upload'[p] # "unused",
           \A r \in Removers, p \in Photos : Aims(r, p)' => Aims(r, p)
    PROVE  Marked'
<1>1. \A p \in Photos : photo[p].status \in {"deleting", "none"} => photo'[p].status \in {"deleting", "none"}
  BY Rows DEF AllFade, Fades, Stays, Typed
<1>2. QED BY <1>1 DEF Marked

\* The steps that change the position of an upload leave the removers alone.
LEMMA UploadSteps ==
    ASSUME Typed, NEW p \in Photos,
           \/ ConversionFails(p) \/ Convert(p) \/ RecordProcessed(p) \/ Put(p) \/ PutFails(p) \/ UploadDies(p)
           \/ \E v : Activate(p, v)
    PROVE  /\ task' = task /\ account' = account
           /\ upload'[p] \in {"over", "recording", "storing", "activating"}
           /\ \A q \in Photos : q # p => upload'[q] = upload[q]
<1>1. ASSUME Leave(p) PROVE upload'[p] = "over" /\ \A q \in Photos : q # p => upload'[q] = upload[q]
  BY <1>1, Left
<1>2. CASE ConversionFails(p)
  BY <1>1, <1>2 DEF ConversionFails
<1>3. CASE Convert(p) \/ Put(p)
  BY <1>3 DEF Convert, Put, Typed
<1>4. CASE RecordProcessed(p)
  BY <1>1, <1>4 DEF RecordProcessed, Typed
<1>5. CASE PutFails(p) \/ UploadDies(p)
  BY <1>1, <1>5 DEF PutFails, UploadDies
<1>6. CASE \E v : Activate(p, v)
  BY <1>1, <1>6 DEF Activate
<1>7. QED BY <1>2, <1>3, <1>4, <1>5, <1>6

\* The steps that leave the uploads and the removers alone.
LEMMA QuietSteps ==
    ASSUME \/ \E p \in Photos : LockLost(p) \/ DropEvent(p) \/ ReconcilePhoto(p) \/ Ages(p)
           \/ \E u \in Users : BeginDelete(u) \/ Close(u) \/ Anonymize(u)
           \/ \E p \in Photos, d \in {"approved", "rejected"} : Review(p, d)
           \/ \E i \in Users \X Keys : Expires(i) \/ PurgeRequest(i)
           \/ UNCHANGED vars
    PROVE  UNCHANGED <<store, upload, task>>
<1>1. ASSUME NEW p \in Photos, LockLost(p) \/ DropEvent(p) \/ ReconcilePhoto(p) \/ Ages(p)
      PROVE  UNCHANGED <<store, upload, task>>
  BY <1>1 DEF LockLost, DropEvent, ReconcilePhoto, Ages
<1>2. ASSUME NEW u \in Users, BeginDelete(u) \/ Close(u) \/ Anonymize(u) PROVE UNCHANGED <<store, upload, task>>
  BY <1>2 DEF BeginDelete, Close, Anonymize
<1>3. ASSUME NEW p \in Photos, NEW d \in {"approved", "rejected"}, Review(p, d) PROVE UNCHANGED <<store, upload, task>>
  BY <1>3 DEF Review
<1>4. ASSUME NEW i \in Users \X Keys, Expires(i) \/ PurgeRequest(i) PROVE UNCHANGED <<store, upload, task>>
  BY <1>4 DEF Expires, PurgeRequest
<1>5. QED BY <1>1, <1>2, <1>3, <1>4 DEF vars

\* A remover aims at marked rows only, and they stay so.
LEMMA MarkedKept == ASSUME Typed, Written, Marked, [Next]_vars PROVE Marked'
<1>1. ASSUME AllFade, task' = task, \A p \in Photos : upload[p] # "unused" => upload'[p] # "unused" PROVE Marked'
  BY <1>1, MarkedFrame DEF Aims
<1>2. ASSUME photo' = photo PROVE AllFade
  BY <1>2 DEF AllFade, Fades, Stays
<1>3. ASSUME NEW r \in Removers, NEW todo, NEW gone, NEW users, TaskBecomes(r, todo, gone, users),
             AllFade, UNCHANGED upload,
             \A p \in Photos : p \in todo \/ p = gone =>
                Aims(r, p) \/ (photo[p].status # "none" /\ photo'[p].status = "deleting")
      PROVE  Marked'
  <2>1. ASSUME NEW s \in Removers, NEW p \in Photos, Aims(s, p)'
        PROVE  \/ Aims(s, p)
               \/ photo[p].status # "none" /\ photo'[p].status = "deleting"
    BY <1>3, <2>1 DEF TaskBecomes, Aims
  <2>2. \A p \in Photos : photo[p].status # "none" => upload[p] # "unused"
    BY Rows DEF Written
  <2>3. \A p \in Photos : photo[p].status \in {"deleting", "none"} => photo'[p].status \in {"deleting", "none"}
    BY <1>3, Rows DEF AllFade, Fades, Stays, Typed
  <2>4. QED BY <1>3, <2>1, <2>2, <2>3 DEF Marked
<1>4. ASSUME NEW p \in Photos, NEW u \in Users, NEW k \in Keys, CreateProcessing(p, u, k) PROVE Marked'
  <2>1. /\ upload[p] = "unused" /\ task' = task
        /\ \A q \in Photos : q # p => upload'[q] = upload[q] /\ photo'[q] = photo[q]
    BY <1>4, CreatedRow DEF CreateProcessing, Typed
  <2>2. \A r \in Removers, q \in Photos : Aims(r, q)' => Aims(r, q) /\ q # p
    BY <2>1 DEF Aims, Marked
  <2>3. QED BY <2>1, <2>2 DEF Marked
<1>5. ASSUME NEW p \in Photos, NEW v, Activate(p, v) PROVE Marked'
  <2>0. task' = task /\ \A q \in Photos : upload[q] # "unused" => upload'[q] # "unused"
    BY <1>5, UploadSteps
  <2>1. CASE photo' = photo
    BY <1>1, <1>2, <2>0, <2>1
  <2>2. CASE Shows(p)
    <3>1. \A q \in Photos : photo[q].status \in {"deleting", "none"} => photo'[q].status \in {"deleting", "none"}
      BY <2>2 DEF Shows
    <3>2. QED BY <2>0, <3>1 DEF Marked, Aims
  <2>3. QED BY <1>5, <2>1, <2>2, ActivatedRow
<1>6. ASSUME NEW p \in Photos, ConversionFails(p) \/ RecordProcessed(p) PROVE Marked'
  BY <1>1, <1>6, UploadRows, UploadSteps DEF AllFade
<1>7. ASSUME NEW p \in Photos, Ages(p) PROVE Marked'
  BY <1>1, <1>7, UploadRows, QuietSteps DEF AllFade
<1>8. ASSUME NEW p \in Photos, Convert(p) \/ Put(p) \/ PutFails(p) \/ UploadDies(p) PROVE Marked'
  <2>1. photo' = photo
    BY <1>8 DEF Convert, Put, PutFails, UploadDies
  <2>2. QED BY <1>1, <1>2, <1>8, <2>1, UploadSteps
<1>9. ASSUME NEW r \in Removers, CompleteDeletion(r) PROVE Marked'
  <2>1. AllFade /\ upload' = upload
    BY <1>9, CompletedRow DEF CompleteDeletion, AllFade
  <2>2. TaskBecomes(r, task[r].todo, NoPhoto, task[r].users)
    BY <1>9, TaskSteps
  <2>3. QED BY <1>3, <2>1, <2>2, NoPhotoAssumption DEF Aims
<1>10. ASSUME NEW r \in Removers, LoopEnds(r) \/ RemoverDies(r) PROVE Marked'
  <2>1. AllFade /\ upload' = upload
    BY <1>2, <1>10 DEF LoopEnds, RemoverDies
  <2>2. TaskBecomes(r, {}, NoPhoto, {})
    BY <1>10, TaskSteps
  <2>3. QED BY <1>3, <2>1, <2>2, NoPhotoAssumption
<1>11. ASSUME NEW r \in Removers, NEW p \in Photos, DeleteObject(r, p) \/ DeleteFails(r, p) PROVE Marked'
  <2>1. AllFade /\ upload' = upload /\ Aims(r, p)
    BY <1>2, <1>11 DEF DeleteObject, DeleteFails, Aims
  <2>2. \E gone \in {p, task[r].gone} : TaskBecomes(r, task[r].todo \ {p}, gone, task[r].users)
    BY <1>11, TaskSteps
  <2>3. QED BY <1>3, <2>1, <2>2 DEF Aims
<1>12. ASSUME NEW r \in Removers, NEW p \in Photos, TakeEvent(r, p) PROVE Marked'
  <2>1. AllFade /\ upload' = upload /\ photo' = photo
    BY <1>2, <1>12 DEF TakeEvent
  <2>2. task' = task \/ (photo[p].status = "deleting" /\ TaskBecomes(r, {p}, NoPhoto, {}))
    BY <1>12, TaskSteps
  <2>3. QED BY <1>1, <1>3, <2>1, <2>2, NoPhotoAssumption
<1>13. ASSUME NEW r \in Removers, Marking, NEW P \in SUBSET Photos, photo' = MarkDeleting(P), NEW users,
              \A p \in P : photo[p].status # "none", TaskBecomes(r, P, NoPhoto, users), upload' = upload
       PROVE  Marked'
  <2>1. \A p \in P : photo'[p].status = "deleting"
    BY <1>13, MarkSteps
  <2>2. QED BY <1>3, <1>13, <2>1, MarkingStays, NoPhotoAssumption DEF AllStay, AllFade, Fades
<1>14. ASSUME NEW r \in Jobs, ClaimCleanupBatch(r) PROVE Marked'
  <2>1. r \in Removers /\ Marking /\ upload' = upload /\ Stale \in SUBSET Photos
    BY <1>14 DEF Removers, Marking, ClaimCleanupBatch, Stale
  <2>2. TaskBecomes(r, Stale, NoPhoto, {})
    BY <1>14, <2>1, TaskSteps
  <2>3. photo' = MarkDeleting(Stale) /\ \A p \in Stale : photo[p].status # "none"
    BY <1>14, <2>1, MarkingSteps
  <2>4. QED BY <1>13, <2>1, <2>2, <2>3
<1>15. ASSUME NEW r \in Handlers, NEW u \in Users, BeginAccountDeletion(r, u) PROVE Marked'
  <2>1. r \in Removers /\ Marking /\ upload' = upload /\ RowsOf(u) \in SUBSET Photos
    BY <1>15 DEF Removers, Marking, BeginAccountDeletion, RowsOf
  <2>2. TaskBecomes(r, RowsOf(u), NoPhoto, {u})
    BY <1>15, <2>1, TaskSteps
  <2>3. photo' = MarkDeleting(RowsOf(u)) /\ \A p \in RowsOf(u) : photo[p].status # "none"
    BY <1>15, <2>1, MarkingSteps
  <2>4. QED BY <1>13, <2>1, <2>2, <2>3
<1>16. CASE Marking
  <2>1. ASSUME UNCHANGED <<store, upload, task>> PROVE Marked'
    BY <1>1, <1>16, <2>1, MarkingStays DEF AllStay, AllFade, Fades
  <2>2. QED BY <1>14, <1>15, <1>16, <2>1, QuietSteps DEF Marking
<1>17. CASE RowsAlone
  <2>1. ASSUME UNCHANGED <<store, upload, task>> PROVE Marked'
    BY <1>1, <1>2, <1>17, <2>1, AloneSteps
  <2>2. QED BY <1>8, <1>10, <1>11, <1>12, <1>17, <2>1, QuietSteps DEF RowsAlone, Removers
<1>18. QED BY <1>4, <1>5, <1>6, <1>7, <1>9, <1>16, <1>17, NextCases

\* The steps in which no row is removed, written or shown.
LEMMA StaySteps ==
    ASSUME Typed, Marking \/ RowsAlone \/ \E p \in Photos : RecordProcessed(p) \/ Ages(p)
    PROVE  AllStay
<1>1. CASE Marking
  BY <1>1, MarkingStays
<1>2. CASE RowsAlone
  BY <1>2, AloneSteps DEF AllStay, Stays
<1>3. ASSUME NEW p \in Photos, RecordProcessed(p) \/ Ages(p) PROVE AllStay
  <2>1. \A q \in Photos : Fades(q) /\ (q # p => photo'[q] = photo[q])
    BY <1>3, UploadRows
  <2>2. photo[p].status # "none" => photo'[p].status # "none"
    <3>1. CASE photo' = photo
      BY <3>1
    <3>2. CASE photo[p].status # "processing" /\ DiscardProcessing(p)
      BY <3>2 DEF DiscardProcessing, Typed
    <3>3. CASE photo[p].status = "processing" /\ photo' = [photo EXCEPT ![p].recorded = TRUE, ![p].old = FALSE]
      <4>1. photo[p] \in Row
        BY <3>3, Rows DEF Typed
      <4>2. photo'[p] = [[photo[p] EXCEPT !.recorded = TRUE] EXCEPT !.old = FALSE]
        BY <3>3 DEF Typed
      <4>3. QED BY <3>3, <4>1, <4>2 DEF Row
    <3>4. CASE Ages(p)
      <4>1. photo[p] \in Row
        BY <3>4, Rows DEF Typed, Ages
      <4>2. photo'[p] = [photo[p] EXCEPT !.old = TRUE]
        BY <3>4 DEF Typed, Ages
      <4>3. QED BY <3>4, <4>1, <4>2 DEF Row, Ages
    <3>5. QED BY <1>3, <3>1, <3>2, <3>3, <3>4 DEF RecordProcessed
  <2>3. QED BY <2>1, <2>2, Rows DEF AllStay, Stays, Fades
<1>4. QED BY <1>1, <1>2, <1>3

-----------------------------------------------------------------------------
(* One photo, and the requests that name it.                               *)

\* The unique indexes are never violated.
LEMMA SingleKept == ASSUME Typed, Single, [Next]_vars PROVE Single'
<1>1. CASE AllFade
  <2>1. \A p \in Photos : photo'[p].status \in {"ready", "processing"} =>
            photo'[p].status = photo[p].status /\ photo'[p].user = photo[p].user
    BY <1>1, Rows DEF AllFade, Fades, Stays
  <2>2. QED BY <2>1 DEF Single
<1>2. ASSUME NEW p \in Photos, NEW u \in Users, NEW k \in Keys, CreateProcessing(p, u, k) PROVE Single'
  <2>1. /\ photo'[p].status = "processing" /\ photo'[p].user = u
        /\ \A q \in Photos : q # p => photo'[q] = photo[q]
    BY <1>2, CreatedRow
  <2>2. \A q \in Photos : ~(photo[q].status = "processing" /\ photo[q].user = u)
    BY <1>2 DEF CreateProcessing, WithStatus, RowsOf
  <2>3. QED BY <2>1, <2>2 DEF Single
<1>3. ASSUME NEW p \in Photos, Shows(p) PROVE Single'
  BY <1>3 DEF Shows, Single
<1>4. QED BY <1>1, <1>2, <1>3, RowSteps

\* A request that claims its key follows its photo.
LEMMA FollowedKept == ASSUME Typed, Written, Marked, Followed, [Next]_vars PROVE Followed'
<1> DEFINE Follows(i) ==
        /\ request[i].status \in {"processing", "completed"} =>
             /\ request[i].photo \in Photos /\ photo[request[i].photo].status # "none"
             /\ photo[request[i].photo].user = i[1]
             /\ photo[request[i].photo].status \in
                  {"deleting", IF request[i].status = "processing" THEN "processing" ELSE "ready"}
        /\ request[i].status = "consumed" => request[i].photo = NoPhoto
<1>0. /\ \A i \in Users \X Keys : Follows(i)
      /\ (\A i \in Users \X Keys : Follows(i)') => Followed'
  BY DEF Followed
<1>1. ASSUME AllStay,
             \A i \in Users \X Keys :
                \/ request'[i] = request[i] \/ request'[i] = NoRequest
                \/ request'[i].status = request[i].status /\ request'[i].photo = request[i].photo
      PROVE  Followed'
  <2>1. \A p \in Photos : photo[p].status # "none" =>
          /\ photo'[p].status # "none" /\ photo'[p].user = photo[p].user
          /\ photo'[p].status \in {photo[p].status, "deleting"}
    BY <1>1, Rows DEF AllStay, Stays
  <2>2. ASSUME NEW i \in Users \X Keys PROVE Follows(i)'
    <3>1. CASE request'[i] = NoRequest
      BY <3>1, RequestRecords
    <3>2. CASE request'[i].status = request[i].status /\ request'[i].photo = request[i].photo
      BY <1>0, <2>1, <3>2
    <3>3. QED BY <1>1, <3>1, <3>2
  <2>3. QED BY <1>0, <2>2
<1>2. ASSUME NEW p \in Photos, NEW u \in Users, NEW k \in Keys, CreateProcessing(p, u, k) PROVE Followed'
  <2>1. /\ photo'[p].status = "processing" /\ photo'[p].user = u
        /\ \A q \in Photos : q # p => photo'[q] = photo[q]
    BY <1>2, CreatedRow
  <2>2. photo[p].status = "none"
    BY <1>2, Rows DEF CreateProcessing, Written
  <2>3. ASSUME NEW i \in Users \X Keys PROVE Follows(i)'
    <3>1. CASE i = <<u, k>>
      BY <1>2, <2>1, <3>1, CreatedRequest
    <3>2. CASE i # <<u, k>>
      <4>1. OnlyRequest(<<u, k>>)
        BY <1>2, CreatedRequest
      <4>2. request'[i] = request[i]
        BY <3>2, <4>1 DEF OnlyRequest
      <4>3. QED BY <1>0, <2>1, <2>2, <4>2
    <3>3. QED BY <3>1, <3>2
  <2>4. QED BY <1>0, <2>3
<1>3. ASSUME NEW p \in Photos, DiscardProcessing(p), \A q \in Photos : q # p => photo'[q] = photo[q] PROVE Followed'
  <2>1. IF photo[p].status = "processing" THEN photo'[p] = NoRow ELSE photo'[p] = photo[p]
    BY <1>3 DEF DiscardProcessing, Typed
  <2>2. ASSUME NEW i \in Users \X Keys PROVE Follows(i)'
    <3>1. CASE request[i].status = "processing" /\ request[i].photo = p
      BY <1>3, <3>1, DiscardedRequests, RequestRecords
    <3>2. CASE ~(request[i].status = "processing" /\ request[i].photo = p)
      <4>1. request'[i] = request[i]
        BY <1>3, <3>2, DiscardedRequests
      <4>2. QED BY <1>0, <1>3, <2>1, <3>2, <4>1
    <3>3. QED BY <3>1, <3>2
  <2>3. QED BY <1>0, <2>2
<1>4. ASSUME NEW p \in Photos, NEW v, Activate(p, v) PROVE Followed'
  <2>1. CASE photo' = photo /\ request' = request
    BY <1>1, <2>1 DEF AllStay, Stays
  <2>2. CASE Shows(p)
    <3>1. ASSUME NEW i \in Users \X Keys PROVE Follows(i)'
      <4>1. CASE request[i].status = "processing" /\ request[i].photo = p
        <5>1. request'[i].status = "completed" /\ request'[i].photo = p
          BY <1>4, <2>2, <4>1, ShownRequests
        <5>2. QED BY <1>0, <2>2, <4>1, <5>1 DEF Shows
      <4>2. CASE ~(request[i].status = "processing" /\ request[i].photo = p)
        <5>1. request'[i] = request[i]
          BY <1>4, <2>2, <4>2, ShownRequests
        <5>2. request[i].status \in {"processing", "completed"} => request[i].photo # p
          BY <1>0, <2>2, <4>2 DEF Shows
        <5>3. QED BY <1>0, <2>2, <5>1, <5>2 DEF Shows
      <4>3. QED BY <4>1, <4>2
    <3>2. QED BY <1>0, <3>1
  <2>3. QED BY <1>4, <2>1, <2>2, ActivatedRow
<1>5. ASSUME NEW r \in Removers, CompleteDeletion(r) PROVE Followed'
  <2> DEFINE p == task[r].gone
  <2>1. p \in Photos /\ \A q \in Photos : q # p => photo'[q] = photo[q]
    BY <1>5, CompletedRow
  <2>2. ASSUME NEW i \in Users \X Keys PROVE Follows(i)'
    <3>1. CASE request[i].status # "none" /\ request[i].photo = p
      BY <1>5, <3>1, ConsumedRequests
    <3>2. CASE ~(request[i].status # "none" /\ request[i].photo = p)
      <4>1. request'[i] = request[i]
        BY <1>5, <3>2, ConsumedRequests
      <4>2. QED BY <1>0, <2>1, <3>2, <4>1
    <3>3. QED BY <3>1, <3>2
  <2>3. QED BY <1>0, <2>2
<1>6. ASSUME NEW p \in Photos, ConversionFails(p) PROVE Followed'
  BY <1>3, <1>6, UploadRows DEF ConversionFails
<1>7. ASSUME NEW p \in Photos, RecordProcessed(p) PROVE Followed'
  <2>1. CASE DiscardProcessing(p)
    BY <1>3, <1>7, <2>1, UploadRows
  <2>2. CASE request' = request
    BY <1>1, <1>7, <2>2, StaySteps
  <2>3. QED BY <1>7, <2>1, <2>2 DEF RecordProcessed
<1>8. ASSUME NEW p \in Photos, Ages(p) PROVE Followed'
  BY <1>1, <1>8, StaySteps DEF Ages
<1>9. CASE Marking
  <2>1. request' = request
    BY <1>9 DEF Marking, BeginDelete, Review, ReconcilePhoto, ClaimCleanupBatch, BeginAccountDeletion
  <2>2. QED BY <1>1, <1>9, <2>1, StaySteps
<1>10. CASE RowsAlone
  <2>1. CASE \/ \E u \in Users : Anonymize(u)
             \/ \E i \in Users \X Keys : Expires(i) \/ PurgeRequest(i)
    BY <1>1, <1>10, <2>1, AgedRequests, StaySteps
  <2>2. ASSUME request' = request PROVE Followed'
    BY <1>1, <1>10, <2>2, StaySteps
  <2>3. ASSUME NEW p \in Photos, Convert(p) \/ Put(p) \/ PutFails(p) \/ UploadDies(p) \/ LockLost(p) \/ DropEvent(p)
        PROVE  request' = request
    BY <2>3 DEF Convert, Put, PutFails, UploadDies, LockLost, DropEvent
  <2>4. ASSUME NEW u \in Users, Close(u) PROVE request' = request
    BY <2>4 DEF Close
  <2>5. ASSUME NEW r \in Removers, NEW p \in Photos, TakeEvent(r, p) \/ DeleteObject(r, p) \/ DeleteFails(r, p)
        PROVE  request' = request
    BY <2>5 DEF TakeEvent, DeleteObject, DeleteFails
  <2>6. ASSUME NEW r \in Removers, LoopEnds(r) \/ RemoverDies(r) PROVE request' = request
    BY <2>6 DEF LoopEnds, RemoverDies
  <2>7. CASE UNCHANGED vars
    BY <2>2, <2>7 DEF vars
  <2>8. QED BY <1>10, <2>1, <2>2, <2>3, <2>4, <2>5, <2>6, <2>7 DEF RowsAlone, Removers
<1>11. QED BY <1>2, <1>4, <1>5, <1>6, <1>7, <1>8, <1>9, <1>10, NextCases

-----------------------------------------------------------------------------
(* Accounts and their erasure.                                             *)

\* The steps that leave the accounts and their erasures alone.
AccountsAlone ==
    account' = account /\ \A r \in Removers : task'[r].users \in {task[r].users, {}}

\* They are all but four.
LEMMA AccountSteps ==
    ASSUME Typed, [Next]_vars
    PROVE  \/ AccountsAlone
           \/ \E u \in Users : Close(u) \/ Anonymize(u)
           \/ \E r \in Removers : LoopEnds(r)
           \/ \E r \in Removers, u \in Users : BeginAccountDeletion(r, u)
<1>1. ASSUME UNCHANGED <<account, task>> PROVE AccountsAlone
  BY <1>1 DEF AccountsAlone
<1>2. ASSUME NEW r \in Removers, NEW todo, NEW gone, NEW users, TaskBecomes(r, todo, gone, users),
             users \in {task[r].users, {}}, account' = account
      PROVE  AccountsAlone
  BY <1>2 DEF AccountsAlone, TaskBecomes
<1>3. ASSUME NEW p \in Photos, ConversionFails(p) \/ RecordProcessed(p) \/ Convert(p) \/ Put(p) \/ PutFails(p) \/ UploadDies(p)
      PROVE  AccountsAlone
  BY <1>1, <1>3, UploadSteps
<1>4. ASSUME NEW p \in Photos, NEW v, Activate(p, v) PROVE AccountsAlone
  BY <1>1, <1>4, UploadSteps
<1>5. ASSUME NEW p \in Photos, NEW u \in Users, NEW k \in Keys, CreateProcessing(p, u, k) PROVE AccountsAlone
  BY <1>1, <1>5 DEF CreateProcessing
<1>6. ASSUME NEW p \in Photos, LockLost(p) \/ DropEvent(p) \/ ReconcilePhoto(p) \/ Ages(p) PROVE AccountsAlone
  BY <1>1, <1>6 DEF LockLost, DropEvent, ReconcilePhoto, Ages
<1>7. ASSUME NEW u \in Users, BeginDelete(u) PROVE AccountsAlone
  BY <1>1, <1>7 DEF BeginDelete
<1>8. ASSUME NEW p \in Photos, NEW d \in {"approved", "rejected"}, Review(p, d) PROVE AccountsAlone
  BY <1>1, <1>8 DEF Review
<1>9. ASSUME NEW i \in Users \X Keys, Expires(i) \/ PurgeRequest(i) PROVE AccountsAlone
  BY <1>1, <1>9 DEF Expires, PurgeRequest
<1>10. ASSUME NEW r \in Removers, NEW p \in Photos, TakeEvent(r, p) PROVE AccountsAlone
  <2>1. account' = account
    BY <1>10 DEF TakeEvent
  <2>2. task' = task \/ TaskBecomes(r, {p}, NoPhoto, {})
    BY <1>10, TaskSteps
  <2>3. QED BY <1>1, <1>2, <2>1, <2>2
<1>11. ASSUME NEW r \in Removers, NEW p \in Photos, DeleteObject(r, p) \/ DeleteFails(r, p) PROVE AccountsAlone
  <2>1. account' = account
    BY <1>11 DEF DeleteObject, DeleteFails
  <2>2. \E gone \in {p, task[r].gone} : TaskBecomes(r, task[r].todo \ {p}, gone, task[r].users)
    BY <1>11, TaskSteps
  <2>3. QED BY <1>2, <2>1, <2>2
<1>12. ASSUME NEW r \in Removers, CompleteDeletion(r) \/ RemoverDies(r) \/ ClaimCleanupBatch(r) PROVE AccountsAlone
  <2>1. account' = account
    BY <1>12 DEF CompleteDeletion, RemoverDies, ClaimCleanupBatch
  <2>2. \E todo : TaskBecomes(r, todo, NoPhoto, task[r].users) \/ TaskBecomes(r, todo, NoPhoto, {})
    BY <1>12, TaskSteps
  <2>3. QED BY <1>2, <2>1, <2>2
<1>13. CASE Marking
  BY <1>6, <1>7, <1>8, <1>12, <1>13 DEF Marking, Removers
<1>14. CASE RowsAlone
  <2>1. CASE UNCHANGED vars
    BY <1>1, <2>1 DEF vars
  <2>2. QED BY <1>3, <1>6, <1>9, <1>10, <1>11, <1>12, <1>14, <2>1 DEF RowsAlone, Removers
<1>15. QED BY <1>3, <1>4, <1>5, <1>6, <1>12, <1>13, <1>14, NextCases

\* An account that a remover erases waits for it.
LEMMA ClosingKept == ASSUME Typed, Closing, [Next]_vars PROVE Closing'
<1>1. CASE AccountsAlone
  BY <1>1 DEF AccountsAlone, Closing
<1>2. ASSUME NEW u \in Users, Close(u) PROVE Closing'
  <2>1. task' = task /\ account[u] = "live" /\ \A x \in Users : x # u => account'[x] = account[x]
    BY <1>2 DEF Close, Typed
  <2>2. \A r \in Removers : task[r].users \subseteq Users
    BY DEF Typed, Task
  <2>3. QED BY <2>1, <2>2 DEF Closing
<1>3. ASSUME NEW u \in Users, Anonymize(u) PROVE Closing'
  <2>1. task' = task /\ account[u] = "drained" /\ \A x \in Users : x # u => account'[x] = account[x]
    BY <1>3 DEF Anonymize, Typed
  <2>2. \A r \in Removers : task[r].users \subseteq Users
    BY DEF Typed, Task
  <2>3. QED BY <2>1, <2>2 DEF Closing
<1>4. ASSUME NEW r \in Removers, LoopEnds(r) PROVE Closing'
  <2>1. TaskBecomes(r, {}, NoPhoto, {})
    BY <1>4, TaskSteps
  <2>2. \A x \in Users : x \notin task[r].users => account'[x] = account[x]
    BY <1>4 DEF LoopEnds
  <2>3. \A s \in Removers : task[s].users \subseteq Users
    BY DEF Typed, Task
  <2>4. QED BY <2>1, <2>2, <2>3 DEF Closing, TaskBecomes
<1>5. ASSUME NEW r \in Removers, NEW u \in Users, BeginAccountDeletion(r, u) PROVE Closing'
  <2>1. TaskBecomes(r, RowsOf(u), NoPhoto, {u})
    BY <1>5, TaskSteps
  <2>2. account' = account /\ account[u] = "closing" /\ \A s \in Removers : u \notin task[s].users
    BY <1>5 DEF BeginAccountDeletion, Erasing
  <2>3. QED BY <2>1, <2>2 DEF Closing, TaskBecomes
<1>6. QED BY <1>1, <1>2, <1>3, <1>4, <1>5, AccountSteps

\* A key is claimed by a new upload only.
LEMMA KeySteps ==
    ASSUME Typed, [Next]_vars, NEW i \in Users \X Keys, request[i] = NoRequest
    PROVE  \/ request'[i] = NoRequest
           \/ \E p \in Photos, u \in Users, k \in Keys : CreateProcessing(p, u, k) /\ i = <<u, k>>
<1>0. request[i].status = "none"
  BY RequestRecords
<1>1. ASSUME request' = request PROVE request'[i] = NoRequest
  BY <1>1
<1>2. ASSUME NEW p \in Photos, NEW u \in Users, NEW k \in Keys, CreateProcessing(p, u, k), i # <<u, k>>
      PROVE  request'[i] = NoRequest
  <2>1. OnlyRequest(<<u, k>>)
    BY <1>2, CreatedRequest
  <2>2. QED BY <1>2, <2>1 DEF OnlyRequest
<1>3. ASSUME NEW p \in Photos, ConversionFails(p) \/ RecordProcessed(p) \/ Ages(p) PROVE request'[i] = NoRequest
  <2>1. request' = request \/ DiscardProcessing(p)
    BY <1>3 DEF ConversionFails, RecordProcessed, Ages
  <2>2. CASE DiscardProcessing(p)
    BY <1>0, <2>2, DiscardedRequests
  <2>3. QED BY <2>1, <2>2
<1>4. ASSUME NEW p \in Photos, NEW v, Activate(p, v) PROVE request'[i] = NoRequest
  <2>1. CASE request' = request
    BY <2>1
  <2>2. CASE Shows(p)
    BY <1>0, <1>4, <2>2, ShownRequests
  <2>3. QED BY <1>4, <2>1, <2>2, ActivatedRow
<1>5. ASSUME NEW r \in Removers, CompleteDeletion(r) PROVE request'[i] = NoRequest
  BY <1>0, <1>5, ConsumedRequests
<1>6. CASE Marking
  <2>1. request' = request
    BY <1>6 DEF Marking, BeginDelete, Review, ReconcilePhoto, ClaimCleanupBatch, BeginAccountDeletion
  <2>2. QED BY <2>1
<1>7. CASE RowsAlone
  <2>1. CASE \/ \E u \in Users : Anonymize(u)
             \/ \E j \in Users \X Keys : Expires(j) \/ PurgeRequest(j)
    BY <1>0, <2>1, AgedRequests
  <2>2. ASSUME NEW p \in Photos, Convert(p) \/ Put(p) \/ PutFails(p) \/ UploadDies(p) \/ LockLost(p) \/ DropEvent(p)
        PROVE  request' = request
    BY <2>2 DEF Convert, Put, PutFails, UploadDies, LockLost, DropEvent
  <2>3. ASSUME NEW u \in Users, Close(u) PROVE request' = request
    BY <2>3 DEF Close
  <2>4. ASSUME NEW r \in Removers, NEW p \in Photos, TakeEvent(r, p) \/ DeleteObject(r, p) \/ DeleteFails(r, p)
        PROVE  request' = request
    BY <2>4 DEF TakeEvent, DeleteObject, DeleteFails
  <2>5. ASSUME NEW r \in Removers, LoopEnds(r) \/ RemoverDies(r) PROVE request' = request
    BY <2>5 DEF LoopEnds, RemoverDies
  <2>6. CASE UNCHANGED vars
    BY <2>6 DEF vars
  <2>7. QED BY <1>1, <1>7, <2>1, <2>2, <2>3, <2>4, <2>5, <2>6 DEF RowsAlone, Removers
<1>8. QED BY <1>2, <1>3, <1>4, <1>5, <1>6, <1>7, NextCases

\* An account with neither a photo nor a request, which it needs to be erased.
Emptied(u) ==
    /\ \A p \in Photos : photo[p].status # "none" => photo[p].user # u
    /\ \A k \in Keys : request[<<u, k>>] = NoRequest

\* What ErasureComplete says, row by row.
LEMMA EmptiedRows == ErasureComplete <=> \A u \in Users : account[u] = "erased" => Emptied(u)
BY DEF ErasureComplete, RowsOf, Emptied

\* The same after a step.
LEMMA EmptiedRowsNext == ErasureComplete' <=> \A u \in Users : account'[u] = "erased" => Emptied(u)'
BY DEF ErasureComplete, RowsOf, Emptied

\* An erased account stays empty.
LEMMA ErasureKept == ASSUME Typed, ErasureComplete, [Next]_vars PROVE ErasureComplete'
<1> SUFFICES ASSUME NEW u \in Users, account'[u] = "erased" PROVE Emptied(u)'
  BY EmptiedRowsNext
<1>1. CASE account[u] = "erased"
  <2>0. Emptied(u)
    BY <1>1, EmptiedRows
  <2>1. ASSUME NEW p \in Photos, NEW x \in Users, NEW k \in Keys, CreateProcessing(p, x, k) PROVE x # u
    BY <1>1, <2>1 DEF CreateProcessing
  <2>2. ASSUME NEW p \in Photos, photo'[p].status # "none" PROVE photo'[p].user # u
    <3>1. CASE AllFade
      BY <2>0, <2>2, <3>1, Rows DEF Emptied, AllFade, Fades, Stays
    <3>2. ASSUME NEW q \in Photos, NEW x \in Users, NEW k \in Keys, CreateProcessing(q, x, k) PROVE photo'[p].user # u
      BY <2>0, <2>1, <2>2, <3>2, CreatedRow DEF Emptied
    <3>3. ASSUME NEW q \in Photos, Shows(q) PROVE photo'[p].user # u
      BY <2>0, <2>2, <3>3, Rows DEF Emptied, Shows
    <3>4. QED BY <3>1, <3>2, <3>3, RowSteps
  <2>3. ASSUME NEW k \in Keys PROVE request'[<<u, k>>] = NoRequest
    <3>1. <<u, k>> \in Users \X Keys /\ request[<<u, k>>] = NoRequest
      BY <2>0 DEF Emptied
    <3>2. \/ request'[<<u, k>>] = NoRequest
          \/ \E p \in Photos, x \in Users, l \in Keys : CreateProcessing(p, x, l) /\ <<u, k>> = <<x, l>>
      BY <3>1, KeySteps
    <3>3. QED BY <2>1, <3>2
  <2>4. QED BY <2>2, <2>3 DEF Emptied
<1>2. CASE account[u] # "erased"
  <2>1. Anonymize(u)
    <3>1. ASSUME NEW x \in Users, Close(x) PROVE account'[u] # "erased"
      BY <1>2, <3>1 DEF Close, Typed
    <3>2. ASSUME NEW x \in Users, Anonymize(x), x # u PROVE account'[u] # "erased"
      BY <1>2, <3>2 DEF Anonymize, Typed
    <3>3. ASSUME NEW r \in Removers, LoopEnds(r) PROVE account'[u] # "erased"
      BY <1>2, <3>3 DEF LoopEnds
    <3>4. ASSUME NEW r \in Removers, NEW x \in Users, BeginAccountDeletion(r, x) PROVE account'[u] # "erased"
      BY <1>2, <3>4 DEF BeginAccountDeletion
    <3>5. QED BY <1>2, <3>1, <3>2, <3>3, <3>4, AccountSteps DEF AccountsAlone
  <2>2. /\ photo' = photo /\ RowsOf(u) = {}
        /\ request' = [i \in DOMAIN request |-> IF i[1] = u THEN NoRequest ELSE request[i]]
    BY <2>1 DEF Anonymize
  <2>3. \A p \in Photos : photo'[p].status # "none" => photo'[p].user # u
    BY <2>2 DEF RowsOf
  <2>4. \A k \in Keys : request'[<<u, k>>] = NoRequest
    BY <2>2 DEF Typed
  <2>5. QED BY <2>3, <2>4 DEF Emptied
<1>3. QED BY <1>1, <1>2

-----------------------------------------------------------------------------
(* Uploads that keep their row, and removals that are final.               *)

\* Faults are not forgotten; a lost lock and a slow upload are faults.
LEMMA FaultSteps ==
    ASSUME Typed, [Next]_vars, Punctual'
    PROVE  /\ Punctual
           /\ \A p \in Photos : ~LockLost(p)
           /\ \A p \in Photos : Ages(p) => ~(Running(p) /\ photo[p].status = "processing")
<1>1. faults \subseteq faults'
  <2>1. ASSUME NEW kind, Fault(kind) PROVE faults \subseteq faults'
    BY <2>1 DEF Fault
  <2>2. ASSUME NEW p \in Photos, NEW u \in Users, NEW k \in Keys, CreateProcessing(p, u, k) PROVE faults \subseteq faults'
    BY <2>2 DEF CreateProcessing
  <2>3. ASSUME NEW p \in Photos, ConversionFails(p) \/ RecordProcessed(p) \/ Convert(p) \/ Put(p) \/ \E v : Activate(p, v)
        PROVE  faults \subseteq faults'
    BY <2>3 DEF ConversionFails, RecordProcessed, Convert, Put, Activate
  <2>4. ASSUME NEW p \in Photos, PutFails(p) \/ UploadDies(p) \/ LockLost(p) \/ DropEvent(p) \/ Ages(p)
        PROVE  faults \subseteq faults'
    BY <2>1, <2>4 DEF PutFails, UploadDies, LockLost, DropEvent, Ages
  <2>5. ASSUME NEW u \in Users, BeginDelete(u) \/ Close(u) \/ Anonymize(u) PROVE faults \subseteq faults'
    BY <2>5 DEF BeginDelete, Close, Anonymize
  <2>6. ASSUME NEW r \in Removers, \/ LoopEnds(r) \/ CompleteDeletion(r) \/ ClaimCleanupBatch(r) \/ RemoverDies(r)
                                   \/ \E u \in Users : BeginAccountDeletion(r, u)
        PROVE  faults \subseteq faults'
    BY <2>1, <2>6 DEF LoopEnds, CompleteDeletion, ClaimCleanupBatch, RemoverDies, BeginAccountDeletion
  <2>7. ASSUME NEW r \in Removers, NEW p \in Photos, TakeEvent(r, p) \/ DeleteObject(r, p) \/ DeleteFails(r, p)
        PROVE  faults \subseteq faults'
    BY <2>1, <2>7 DEF TakeEvent, DeleteObject, DeleteFails
  <2>8. ASSUME NEW i \in Users \X Keys, Expires(i) \/ PurgeRequest(i) PROVE faults \subseteq faults'
    BY <2>8 DEF Expires, PurgeRequest
  <2>9. ASSUME NEW p \in Photos, ReconcilePhoto(p) \/ \E d \in {"approved", "rejected"} : Review(p, d)
        PROVE  faults \subseteq faults'
    BY <2>9 DEF ReconcilePhoto, Review
  <2>10. CASE UNCHANGED vars
    BY <2>10 DEF vars
  <2>11. CASE Marking
    BY <2>5, <2>6, <2>9, <2>11 DEF Marking, Removers
  <2>12. CASE RowsAlone
    BY <2>3, <2>4, <2>5, <2>6, <2>7, <2>8, <2>10, <2>12 DEF RowsAlone, Removers
  <2>13. QED BY <2>2, <2>3, <2>4, <2>6, <2>11, <2>12, NextCases
<1>2. ASSUME NEW kind \in {"lock", "slow"}, Fault(kind) PROVE FALSE
  BY <1>2 DEF Fault, Punctual
<1>3. Punctual
  BY <1>1 DEF Punctual
<1>4. \A p \in Photos : ~LockLost(p)
  BY <1>2 DEF LockLost
<1>5. \A p \in Photos : Ages(p) => ~(Running(p) /\ photo[p].status = "processing")
  BY <1>2 DEF Ages
<1>6. QED BY <1>3, <1>4, <1>5

\* A running upload has its row, fresh, and its lock.
Safe(p) == Running(p) =>
    photo[p].status = "processing" /\ ~photo[p].old /\ <<p, photo[p].user>> \in held

\* The row of an upload that is safe is not among those that a step marks.
LEMMA SafeFromMarks ==
    ASSUME Typed, Marking, NEW q \in Photos, Safe(q), Running(q)
    PROVE  photo'[q] = photo[q]
<1>0. photo[q].status = "processing" /\ ~photo[q].old /\ <<q, photo[q].user>> \in held
  BY DEF Safe
<1>1. ASSUME NEW P \in SUBSET Photos, photo' = MarkDeleting(P), q \notin P, \A p \in P : photo[p].status # "none"
      PROVE  photo'[q] = photo[q]
  BY <1>1, MarkSteps
<1>2. ASSUME NEW p \in Photos, photo' = MarkDeleting({p}), q # p, photo[p].status # "none" PROVE photo'[q] = photo[q]
  <2>1. {p} \in SUBSET Photos /\ q \notin {p} /\ \A x \in {p} : photo[x].status # "none"
    BY <1>2
  <2>2. QED BY <1>1, <1>2, <2>1
<1>3. ASSUME NEW u \in Users, BeginDelete(u) PROVE photo'[q] = photo[q]
  <2>1. PICK P \in SUBSET Photos : photo' = MarkDeleting(P) /\ \A p \in P : photo[p].status = "ready"
    BY <1>3, MarkingSteps
  <2>2. QED BY <1>0, <1>1, <2>1
<1>4. ASSUME NEW p \in Photos, NEW d \in {"approved", "rejected"}, Review(p, d) PROVE photo'[q] = photo[q]
  <2>1. photo' = photo \/ (photo' = MarkDeleting({p}) /\ photo[p].status = "ready")
    BY <1>4, MarkingSteps
  <2>2. QED BY <1>0, <1>2, <2>1
<1>5. ASSUME NEW p \in Photos, ReconcilePhoto(p) PROVE photo'[q] = photo[q]
  <2>1. /\ photo' = MarkDeleting({p})
        /\ photo[p].status = "deleting" \/ (photo[p].status = "processing" /\ photo[p].old)
    BY <1>5, MarkingSteps
  <2>2. QED BY <1>0, <1>2, <2>1
<1>6. ASSUME NEW r \in Removers, ClaimCleanupBatch(r) PROVE photo'[q] = photo[q]
  <2>1. /\ photo' = MarkDeleting(Stale) /\ Stale \in SUBSET Photos
        /\ \A p \in Stale : photo[p].status = "deleting" \/ (photo[p].status = "processing" /\ photo[p].old)
    BY <1>6, MarkingSteps
  <2>2. QED BY <1>0, <1>1, <2>1
<1>7. ASSUME NEW r \in Removers, NEW u \in Users, BeginAccountDeletion(r, u) PROVE photo'[q] = photo[q]
  <2>1. /\ photo' = MarkDeleting(RowsOf(u)) /\ RowsOf(u) \in SUBSET Photos
        /\ \A p \in RowsOf(u) : photo[p].status # "none" /\ photo[p].user = u
    BY <1>7, MarkingSteps
  <2>2. photo[q].user # u
    BY <1>0, <1>7 DEF BeginAccountDeletion
  <2>3. QED BY <1>1, <2>1, <2>2
<1>8. QED BY <1>3, <1>4, <1>5, <1>6, <1>7 DEF Marking, Removers

\* Uploads stay safe as long as none outlives its lock or the cleanup window.
LEMMA SafeKept ==
    ASSUME Typed, Written, Marked, \A p \in Photos : Safe(p), [Next]_vars, Punctual',
           NEW q \in Photos, Running(q)'
    PROVE  Safe(q)'
<1>1. ASSUME photo'[q] = photo[q], upload'[q] = upload[q], \A u \in Users : <<q, u>> \in held => <<q, u>> \in held'
      PROVE  Safe(q)'
  <2>1. Running(q) /\ Safe(q)
    BY <1>1 DEF Running
  <2>2. photo[q].user \in Users
    BY <2>1, Rows DEF Safe, Typed
  <2>3. QED BY <1>1, <2>1, <2>2 DEF Safe
<1>2. ASSUME NEW p \in Photos, Leave(p) PROVE q # p
  BY <1>2, Left DEF Running
<1>3. ASSUME NEW p \in Photos, Leave(p), q # p => photo'[q] = photo[q] PROVE Safe(q)'
  BY <1>1, <1>2, <1>3, Left
<1>4. ASSUME NEW p \in Photos, NEW u \in Users, NEW k \in Keys, CreateProcessing(p, u, k) PROVE Safe(q)'
  <2>1. held' = held \cup {<<p, u>>} /\ \A x \in Photos : x # p => upload'[x] = upload[x]
    BY <1>4 DEF CreateProcessing, Typed
  <2>2. CASE q = p
    BY <1>4, <2>1, <2>2, CreatedRow DEF Safe
  <2>3. CASE q # p
    BY <1>1, <1>4, <2>1, <2>3, CreatedRow
  <2>4. QED BY <2>2, <2>3
<1>5. ASSUME NEW p \in Photos, ConversionFails(p) PROVE Safe(q)'
  BY <1>3, <1>5, UploadRows DEF ConversionFails
<1>6. ASSUME NEW p \in Photos, RecordProcessed(p) PROVE Safe(q)'
  <2>1. q # p => photo'[q] = photo[q] /\ upload'[q] = upload[q]
    BY <1>6, UploadRows, UploadSteps
  <2>2. CASE Leave(p)
    BY <1>3, <2>1, <2>2
  <2>3. CASE /\ photo[p].status = "processing" /\ photo' = [photo EXCEPT ![p].recorded = TRUE, ![p].old = FALSE]
             /\ held' = held
    <3>1. CASE q # p
      BY <1>1, <2>1, <2>3, <3>1
    <3>2. CASE q = p
      <4>1. photo[p] \in Row
        BY <2>3, Rows DEF Typed
      <4>2. photo'[p] = [[photo[p] EXCEPT !.recorded = TRUE] EXCEPT !.old = FALSE]
        BY <2>3 DEF Typed
      <4>3. photo'[p].status = "processing" /\ ~photo'[p].old /\ photo'[p].user = photo[p].user
        BY <2>3, <4>1, <4>2 DEF Row
      <4>4. Running(p) /\ Safe(p)
        BY <1>6 DEF RecordProcessed, Running
      <4>5. <<p, photo[p].user>> \in held /\ held' = held
        BY <2>3, <4>4 DEF Safe
      <4>6. <<p, photo'[p].user>> \in held'
        BY <4>3, <4>5
      <4>7. Safe(p)'
        BY <4>3, <4>6 DEF Safe
      <4>8. QED BY <3>2, <4>7
    <3>3. QED BY <3>1, <3>2
  <2>4. QED BY <1>6, <2>2, <2>3 DEF RecordProcessed
<1>7. ASSUME NEW p \in Photos, NEW v, Activate(p, v) PROVE Safe(q)'
  <2>1. Leave(p)
    BY <1>7 DEF Activate
  <2>2. q # p /\ upload'[q] = upload[q]
    BY <1>2, <2>1, Left
  <2>3. photo[q].status # "ready"
    BY <2>2 DEF Written, Running
  <2>4. photo'[q] = photo[q]
    BY <1>7, <2>2, <2>3, ActivatedRow DEF Shows
  <2>5. QED BY <1>3, <2>1, <2>4
<1>8. ASSUME NEW p \in Photos, Convert(p) \/ Put(p) PROVE Safe(q)'
  <2>1. photo' = photo /\ held' = held /\ Running(p)
    BY <1>8 DEF Convert, Put, Running
  <2>2. q # p => upload'[q] = upload[q]
    BY <1>8, UploadSteps
  <2>3. CASE q = p
    BY <2>1, <2>3 DEF Safe
  <2>4. QED BY <1>1, <2>1, <2>2, <2>3
<1>9. ASSUME NEW p \in Photos, PutFails(p) \/ UploadDies(p) PROVE Safe(q)'
  <2>1. Leave(p) /\ photo' = photo
    BY <1>9 DEF PutFails, UploadDies
  <2>2. QED BY <1>3, <2>1
<1>10. ASSUME NEW p \in Photos, Ages(p) PROVE Safe(q)'
  <2>1. upload' = upload /\ held' = held
    BY <1>10 DEF Ages
  <2>2. q # p
    <3>1. Running(q) /\ photo[q].status = "processing"
      BY <2>1 DEF Running, Safe
    <3>2. QED BY <1>10, <3>1, FaultSteps
  <2>3. QED BY <1>1, <1>10, <2>1, <2>2, UploadRows
<1>11. ASSUME NEW r \in Removers, CompleteDeletion(r) PROVE Safe(q)'
  <2>1. upload' = upload /\ held' = held
    BY <1>11 DEF CompleteDeletion
  <2>2. Running(q) /\ photo[q].status = "processing"
    BY <2>1 DEF Running, Safe
  <2>3. q # task[r].gone
    BY <2>2 DEF Marked, Aims
  <2>4. QED BY <1>1, <1>11, <2>1, <2>3, CompletedRow
<1>12. CASE Marking
  <2>1. UNCHANGED <<upload, held>>
    BY <1>12 DEF Marking, BeginDelete, Review, ReconcilePhoto, ClaimCleanupBatch, BeginAccountDeletion
  <2>2. Running(q)
    BY <2>1 DEF Running
  <2>3. QED BY <1>1, <1>12, <2>1, <2>2, SafeFromMarks
<1>13. CASE RowsAlone
  <2>0. ASSUME UNCHANGED <<upload, held>> PROVE Safe(q)'
    BY <1>1, <1>13, <2>0, AloneSteps
  <2>1. ASSUME NEW p \in Photos, DropEvent(p) PROVE Safe(q)'
    BY <2>0, <2>1 DEF DropEvent
  <2>2. ASSUME NEW u \in Users, Close(u) \/ Anonymize(u) PROVE Safe(q)'
    BY <2>0, <2>2 DEF Close, Anonymize
  <2>3. ASSUME NEW r \in Removers, NEW p \in Photos, TakeEvent(r, p) \/ DeleteObject(r, p) \/ DeleteFails(r, p)
        PROVE  Safe(q)'
    BY <2>0, <2>3 DEF TakeEvent, DeleteObject, DeleteFails
  <2>4. ASSUME NEW r \in Removers, LoopEnds(r) \/ RemoverDies(r) PROVE Safe(q)'
    BY <2>0, <2>4 DEF LoopEnds, RemoverDies
  <2>5. ASSUME NEW i \in Users \X Keys, Expires(i) \/ PurgeRequest(i) PROVE Safe(q)'
    BY <2>0, <2>5 DEF Expires, PurgeRequest
  <2>6. CASE UNCHANGED vars
    BY <2>0, <2>6 DEF vars
  <2>7. \A p \in Photos : ~LockLost(p)
    BY FaultSteps
  <2>8. QED BY <1>8, <1>9, <1>13, <2>1, <2>2, <2>3, <2>4, <2>5, <2>6, <2>7 DEF RowsAlone, Removers
<1>14. QED BY <1>4, <1>5, <1>6, <1>7, <1>10, <1>11, <1>12, <1>13, NextCases

\* Who writes an object, and what happens to the objects in the other steps.
LEMMA StoreSteps ==
    ASSUME Typed, [Next]_vars
    PROVE  \/ store' \subseteq store
           \/ \E p \in Photos : /\ store' = store \cup {p} /\ Running(p)
                                /\ UNCHANGED <<photo, task>>
<1>1. ASSUME NEW p \in Photos, ConversionFails(p) \/ RecordProcessed(p) \/ Convert(p) \/ \E v : Activate(p, v)
      PROVE  store' \subseteq store
  BY <1>1 DEF ConversionFails, RecordProcessed, Convert, Activate
<1>2. ASSUME NEW p \in Photos, Put(p) \/ PutFails(p) \/ UploadDies(p)
      PROVE  store' \in {store, store \cup {p}} /\ Running(p) /\ UNCHANGED <<photo, task>>
  BY <1>2 DEF Put, PutFails, UploadDies, Running
<1>3. ASSUME NEW p \in Photos, NEW u \in Users, NEW k \in Keys, CreateProcessing(p, u, k) PROVE store' \subseteq store
  BY <1>3 DEF CreateProcessing
<1>4. ASSUME NEW r \in Removers, \/ LoopEnds(r) \/ CompleteDeletion(r) \/ ClaimCleanupBatch(r) \/ RemoverDies(r)
                                 \/ \E u \in Users : BeginAccountDeletion(r, u)
      PROVE  store' \subseteq store
  BY <1>4 DEF LoopEnds, CompleteDeletion, ClaimCleanupBatch, RemoverDies, BeginAccountDeletion
<1>5. ASSUME NEW r \in Removers, NEW p \in Photos, TakeEvent(r, p) \/ DeleteObject(r, p) \/ DeleteFails(r, p)
      PROVE  store' \subseteq store
  BY <1>5 DEF TakeEvent, DeleteObject, DeleteFails
<1>6. CASE Marking
  BY <1>4, <1>6, QuietSteps DEF Marking, Removers
<1>7. CASE RowsAlone
  BY <1>1, <1>2, <1>4, <1>5, <1>7, QuietSteps DEF RowsAlone, Removers
<1>8. QED BY <1>1, <1>3, <1>4, <1>6, <1>7, QuietSteps, NextCases

\* What a remover has deleted: a new one with its object, or what it was.
LEMMA GoneSteps ==
    ASSUME Typed, [Next]_vars, NEW r \in Removers
    PROVE  \/ task'[r].gone \in {task[r].gone, NoPhoto}
           \/ task'[r].gone \notin store'
<1>1. ASSUME task' = task PROVE task'[r].gone = task[r].gone
  BY <1>1
<1>2. ASSUME NEW s \in Removers, NEW todo, NEW users, NEW gone \in {task[s].gone, NoPhoto},
             TaskBecomes(s, todo, gone, users)
      PROVE  task'[r].gone \in {task[r].gone, NoPhoto}
  BY <1>2 DEF TaskBecomes
<1>3. ASSUME NEW p \in Photos,
             \/ ConversionFails(p) \/ Convert(p) \/ RecordProcessed(p) \/ Put(p) \/ PutFails(p) \/ UploadDies(p)
             \/ \E v : Activate(p, v)
      PROVE  task' = task
  BY <1>3, UploadSteps
<1>4. ASSUME NEW p \in Photos, NEW u \in Users, NEW k \in Keys, CreateProcessing(p, u, k) PROVE task' = task
  BY <1>4 DEF CreateProcessing
<1>5. ASSUME NEW s \in Removers, NEW p \in Photos, TakeEvent(s, p) PROVE task'[r].gone \in {task[r].gone, NoPhoto}
  BY <1>1, <1>2, <1>5, TaskSteps
<1>6. ASSUME NEW s \in Removers, NEW u \in Users, BeginAccountDeletion(s, u)
      PROVE  task'[r].gone \in {task[r].gone, NoPhoto}
  BY <1>2, <1>6, TaskSteps
<1>7. ASSUME NEW s \in Removers, ClaimCleanupBatch(s) \/ CompleteDeletion(s) \/ LoopEnds(s) \/ RemoverDies(s)
      PROVE  task'[r].gone \in {task[r].gone, NoPhoto}
  BY <1>2, <1>7, TaskSteps
<1>8. ASSUME NEW s \in Removers, NEW p \in Photos, DeleteFails(s, p) PROVE task'[r].gone \in {task[r].gone, NoPhoto}
  BY <1>2, <1>8, TaskSteps
<1>9. ASSUME NEW s \in Removers, NEW p \in Photos, DeleteObject(s, p)
      PROVE  task'[r].gone = task[r].gone \/ task'[r].gone \notin store'
  <2>1. TaskBecomes(s, task[s].todo \ {p}, p, task[s].users) /\ store' = store \ {p}
    BY <1>9, TaskSteps DEF DeleteObject
  <2>2. QED BY <2>1 DEF TaskBecomes
<1>10. CASE Marking
  BY <1>1, <1>6, <1>7, <1>10, QuietSteps DEF Marking, Removers
<1>11. CASE RowsAlone
  BY <1>1, <1>3, <1>5, <1>7, <1>8, <1>9, <1>11, QuietSteps DEF RowsAlone, Removers
<1>12. QED BY <1>1, <1>3, <1>4, <1>7, <1>10, <1>11, QuietSteps, NextCases

\* A running upload keeps its shelter; an object that was deleted stays away.
LEMMA ShelteredKept == ASSUME Typed, Written, Marked, Sheltered, [Next]_vars PROVE Sheltered'
<1> SUFFICES ASSUME Punctual'
             PROVE  (\A p \in Photos : Safe(p)') /\ \A r \in Removers : task'[r].gone \notin store'
  BY DEF Sheltered, Safe
<1>1. Punctual
  BY FaultSteps
<1>2. (\A p \in Photos : Safe(p)) /\ \A r \in Removers : task[r].gone \notin store
  BY <1>1 DEF Sheltered, Safe
<1>3. \A p \in Photos : Safe(p)'
  <2>1. \A p \in Photos : Running(p)' => Safe(p)'
    BY <1>2, SafeKept
  <2>2. QED BY <2>1 DEF Safe
<1>4. ASSUME NEW r \in Removers PROVE task'[r].gone \notin store'
  <2>0. NoPhoto \notin store'
    BY TypesKept, NoPhotoAssumption DEF Typed
  <2>1. CASE task'[r].gone \in {task[r].gone, NoPhoto}
    <3>1. CASE store' \subseteq store
      BY <1>2, <2>0, <2>1, <3>1
    <3>2. ASSUME NEW p \in Photos, store' = store \cup {p}, Running(p) PROVE task'[r].gone \notin store'
      <4>1. photo[p].status = "processing"
        BY <1>2, <3>2 DEF Safe
      <4>2. task[r].gone # p
        BY <4>1 DEF Marked, Aims
      <4>3. QED BY <1>2, <2>0, <2>1, <3>2, <4>2
    <3>3. QED BY <3>1, <3>2, StoreSteps
  <2>2. QED BY <2>1, GoneSteps
<1>5. QED BY <1>3, <1>4

\* Every object keeps a row.
LEMMA NoOrphanKept == ASSUME Typed, Written, Marked, Sheltered, NoOrphanObject, [Next]_vars PROVE NoOrphanObject'
<1> SUFFICES ASSUME Punctual', NEW q \in Photos, q \in store' PROVE photo'[q].status # "none"
  BY TypesKept DEF NoOrphanObject, Punctual, Typed
<1>1. Punctual
  BY FaultSteps
<1>2. CASE q \notin store
  <2>1. PICK p \in Photos : store' = store \cup {p} /\ Running(p) /\ UNCHANGED <<photo, task>>
    BY <1>2, StoreSteps
  <2>2. q = p
    BY <1>2, <2>1
  <2>3. QED BY <1>1, <2>1, <2>2 DEF Sheltered
<1>3. CASE q \in store
  <2>0. photo[q].status # "none"
    BY <1>1, <1>3 DEF NoOrphanObject, Punctual
  <2>1. CASE AllStay
    BY <2>0, <2>1, Rows DEF AllStay, Stays
  <2>2. ASSUME NEW p \in Photos, ConversionFails(p) PROVE photo'[q].status # "none"
    <3>1. q # p
      BY <1>3, <2>2 DEF ConversionFails, Written
    <3>2. QED BY <2>0, <2>2, <3>1, UploadRows
  <2>3. ASSUME NEW r \in Removers, CompleteDeletion(r) PROVE photo'[q].status # "none"
    <3>1. q # task[r].gone
      BY <1>1, <1>3 DEF Sheltered
    <3>2. QED BY <2>0, <2>3, <3>1, CompletedRow
  <2>4. ASSUME NEW p \in Photos, NEW u \in Users, NEW k \in Keys, CreateProcessing(p, u, k) PROVE photo'[q].status # "none"
    BY <2>0, <2>4, CreatedRow
  <2>5. ASSUME NEW p \in Photos, NEW v, Activate(p, v) PROVE photo'[q].status # "none"
    BY <2>0, <2>5, ActivatedRow DEF Shows
  <2>6. QED BY <2>1, <2>2, <2>3, <2>4, <2>5, StaySteps, NextCases
<1>4. QED BY <1>2, <1>3

-----------------------------------------------------------------------------
(* The theorems.                                                           *)

\* What PhotosConsistent says follows from the inductive invariant.
LEMMA Consequences == ASSUME IInv PROVE PhotosConsistent /\ NoOrphanObject
<1> USE DEF IInv
<1>1. TypeOK
  <2>1. ASSUME NEW i \in Users \X Keys, request[i].status # "none", request[i].photo # NoPhoto
        PROVE  photo[request[i].photo].status # "none"
    <3>1. request[i] \in Request
      BY <2>1, RequestRows
    <3>2. request[i].status \in {"processing", "completed"}
      BY <2>1, <3>1 DEF Followed, Request
    <3>3. QED BY <3>2 DEF Followed
  <2>2. QED BY <2>1 DEF Typed, TypeOK
<1>2. ReadyHasObject
  BY DEF Written, ReadyHasObject
<1>3. ASSUME NEW u \in Users, NEW s \in {"ready", "processing"} PROVE Cardinality(WithStatus(u, s)) <= 1
  <2> DEFINE P == WithStatus(u, s)
  <2>1. \A p, q \in P : p \in Photos /\ q \in Photos /\ p = q
    BY DEF Single, WithStatus, RowsOf
  <2> HIDE DEF P
  <2>2. CASE P = {}
    BY <2>2, FS_EmptySet DEF P
  <2>3. ASSUME NEW p \in P PROVE Cardinality(P) <= 1
    <3>1. P = {p}
      BY <2>1
    <3>2. Cardinality(P) = 1
      BY <3>1, FS_Singleton
    <3>3. QED BY <3>2
  <2>4. QED BY <2>2, <2>3 DEF P
<1>4. OnePhoto
  BY <1>3 DEF OnePhoto
<1>5. RequestFollowsPhoto
  BY DEF RequestFollowsPhoto, Followed, RowsOf, Typed
<1>6. QED BY <1>1, <1>2, <1>4, <1>5 DEF PhotosConsistent

\* The inductive invariant holds in every reachable state.
LEMMA Invariance == Spec => []IInv
<1>1. ASSUME Init PROVE IInv
  <2> USE <1>1 DEF Init
  <2>0. /\ \A p \in Photos : photo[p] = NoRow /\ upload[p] = "unused"
        /\ \A i \in Users \X Keys : request[i] = NoRequest
        /\ \A r \in Removers : task[r] = Idle
        /\ \A u \in Users : account[u] = "live"
        /\ store = {}
    OBVIOUS
  <2>1. Typed
    <3>1. Idle \in Task
      BY DEF Idle, Task
    <3>2. QED BY <3>1 DEF Typed, Positions
  <2> HIDE DEF Init
  <2>2. Written
    BY <2>0, Rows DEF Written
  <2>3. Idle.todo = {} /\ Idle.gone = NoPhoto /\ Idle.users = {}
    BY DEF Idle
  <2>4. Marked
    BY <2>0, <2>3, NoPhotoAssumption DEF Marked, Aims
  <2>5. Single
    BY <2>0, Rows DEF Single
  <2>6. Followed
    BY <2>0, RequestRecords DEF Followed
  <2>7. Closing
    BY <2>0, <2>3 DEF Closing
  <2>8. ErasureComplete
    BY <2>0 DEF ErasureComplete
  <2>9. Sheltered /\ NoOrphanObject
    BY <2>0 DEF Sheltered, Running, NoOrphanObject
  <2>10. QED BY <2>1, <2>2, <2>4, <2>5, <2>6, <2>7, <2>8, <2>9 DEF IInv
<1>2. ASSUME IInv, [Next]_vars PROVE IInv'
  <2> USE <1>2 DEF IInv
  <2>1. Typed' /\ Written' /\ Marked'
    BY TypesKept, WrittenKept, MarkedKept
  <2>2. Single' /\ Followed' /\ Closing'
    BY SingleKept, FollowedKept, ClosingKept
  <2>3. ErasureComplete' /\ Sheltered' /\ NoOrphanObject'
    BY ErasureKept, ShelteredKept, NoOrphanKept
  <2>4. QED BY <2>1, <2>2, <2>3
<1>3. QED BY <1>1, <1>2, PTL DEF Spec

\* The photos of every account are consistent in every reachable state: a photo
\* that is shown has its object, at most one is shown and one in progress, a claimed
\* key leads to a stored photo, and nothing is left of an erased account.
THEOREM PhotosSound == Spec => []PhotosConsistent
<1>1. IInv => PhotosConsistent
  BY Consequences
<1>2. QED BY <1>1, Invariance, PTL

\* No object is ever without a row that leads to it, as long as no upload outlives
\* its lock or the cleanup window.
THEOREM NoOrphans == Spec => []NoOrphanObject
<1>1. IInv => NoOrphanObject
  BY DEF IInv
<1>2. QED BY <1>1, Invariance, PTL

=============================================================================
