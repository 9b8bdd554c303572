--------------------------- MODULE PhotoLifecycle ---------------------------
(***************************************************************************)
(* Profile photos: user_photo, photo_upload_request, the moderation cases  *)
(* and the object store, with the uploads, the three ways a photo is       *)
(* removed (the photo.delete event, the maintenance job, the erasure of    *)
(* the account) and the activity lock between uploads and erasures.        *)
(*                                                                         *)
(* Each transaction, each statement outside one and each request to the    *)
(* object store is a step.  A photo id is the fresh UUID of one upload, so *)
(* upload[p] is the position of the only upload that writes object p.      *)
(* The outbox is used as the at-least-once queue that Outbox provides:     *)
(* queued holds the photos with an unresolved photo.delete event.  Dates   *)
(* become flags: old, for an updated_at before the cleanup window (30      *)
(* minutes for an upload, 5 for a deletion), and expired, for a request    *)
(* past its 24 hours.                                                      *)
(***************************************************************************)
EXTENDS Integers, FiniteSets

CONSTANTS
    Users, Keys,        \* accounts with a profile, idempotency keys
    Photos,             \* photo ids
    Handlers,           \* concurrent runs of the photo.delete and account.erase handlers
    Jobs,               \* processes that run the maintenance job
    MaxFaults,          \* bound on the number of kinds of faults that happen
    NoPhoto

\* The loops that remove photos.
Removers == Handlers \cup Jobs

FaultKinds == {"crash", "storage", "lock", "slow"}

ASSUME FaultsAssumption == MaxFaults \in 0..4

ASSUME NoPhotoAssumption == NoPhoto \notin Photos

VARIABLES
    account,    \* live, closing (deleted_at), drained (photos step done), erased
    photo,      \* user_photo
    request,    \* photo_upload_request, by user and key
    verdict,    \* content_moderation_case.status, by photo
    store,      \* objects in the store
    upload,     \* position of the upload of each photo
    held,       \* <<p, u>>: the upload of p holds the shared activity lock of u
    queued,     \* photos with an unresolved photo.delete event
    task,       \* what each remover has to do
    faults      \* the kinds of faults so far, each at most once

vars == <<account, photo, request, verdict, store, upload, held, queued, task, faults>>

Row == [user: Users, status: {"processing", "ready", "deleting"},
        recorded: BOOLEAN, old: BOOLEAN]

NoRow == [status |-> "none"]

Request == [status: {"processing", "completed", "consumed"},
            photo: Photos \cup {NoPhoto}, expired: BOOLEAN]

NoRequest == [status |-> "none"]

\* by: the loop; todo: the photos left; gone: the one whose object was deleted
\* and whose row comes next; failed: one of them failed; user: for erasures.
Task == [by: {"idle", "outbox", "cleanup", "erasure"}, todo: SUBSET Photos,
         gone: Photos \cup {NoPhoto}, failed: BOOLEAN, users: SUBSET Users]

Idle == [by |-> "idle", todo |-> {}, gone |-> NoPhoto, failed |-> FALSE, users |-> {}]

Positions == {"unused", "converting", "recording", "storing", "activating", "over"}

Running(p) == upload[p] \notin {"unused", "over"}

Holds(p) == \E u \in Users : <<p, u>> \in held

RowsOf(u) == {p \in Photos : photo[p].status # "none" /\ photo[p].user = u}

WithStatus(u, s) == {p \in RowsOf(u) : photo[p].status = s}

TypeOK ==
    /\ account \in [Users -> {"live", "closing", "drained", "erased"}]
    /\ photo \in [Photos -> Row \cup {NoRow}]
    /\ request \in [Users \X Keys -> Request \cup {NoRequest}]
    /\ verdict \in [Photos -> {"none", "pending", "approved", "rejected"}]
    /\ store \in SUBSET Photos
    /\ upload \in [Photos -> Positions]
    /\ held \in SUBSET (Photos \X Users)
    /\ queued \in SUBSET Photos
    /\ task \in [Removers -> Task]
    /\ faults \in SUBSET FaultKinds
    /\ \A i \in Users \X Keys :      \* photo_upload_request_photo_id_fkey
         request[i].status # "none" /\ request[i].photo # NoPhoto =>
           photo[request[i].photo].status # "none"

Init ==
    /\ account = [u \in Users |-> "live"]
    /\ photo = [p \in Photos |-> NoRow]
    /\ request = [i \in Users \X Keys |-> NoRequest]
    /\ verdict = [p \in Photos |-> "none"]
    /\ store = {} /\ held = {} /\ queued = {}
    /\ upload = [p \in Photos |-> "unused"]
    /\ task = [r \in Removers |-> Idle]
    /\ faults = {}

Fault(kind) ==
    /\ kind \notin faults /\ Cardinality(faults) < MaxFaults
    /\ faults' = faults \cup {kind}

\* No current request claims the key.
Free(i) == request[i].status # "none" => request[i].expired

\* The remover that holds the exclusive activity lock of u, if any.
Erasing(u) == \E r \in Removers : u \in task[r].users

\* UPDATE user_photo SET status = 'deleting', updated_at = now for the rows P.
MarkDeleting(P) ==
    [p \in Photos |-> IF p \in P THEN [photo[p] EXCEPT !.status = "deleting", !.old = FALSE]
                                 ELSE photo[p]]

\* Mutant: the lock is not released.
LeaveKeepsLock(p) == upload' = [upload EXCEPT ![p] = "over"] /\ UNCHANGED held

\* The upload of p ends, and its lock is released.
Leave(p) == upload' = [upload EXCEPT ![p] = "over"] /\ held' = {h \in held : h[1] # p}

-----------------------------------------------------------------------------
(* Uploading.                                                              *)

\* Mutant: the account is not checked under the activity lock and the profile.
CreateProcessingUnchecked(p, u, k) ==
    /\ upload[p] = "unused"
    /\ ~Erasing(u)
    /\ Free(<<u, k>>)
    /\ WithStatus(u, "processing") = {}
    /\ photo' = [photo EXCEPT ![p] = [user |-> u, status |-> "processing",
                                      recorded |-> FALSE, old |-> FALSE]]
    /\ request' = [request EXCEPT ![<<u, k>>] =
                     [status |-> "processing", photo |-> p, expired |-> FALSE]]
    /\ upload' = [upload EXCEPT ![p] = "converting"]
    /\ held' = held \cup {<<p, u>>}
    /\ UNCHANGED <<account, verdict, store, queued, task, faults>>

\* upload() takes the shared lock and finds the account live; createProcessing
\* finds no current request for the key and no upload under way.  A replay and
\* the refusals change nothing.
CreateProcessing(p, u, k) ==
    /\ upload[p] = "unused"
    /\ ~Erasing(u) /\ account[u] = "live"
    /\ Free(<<u, k>>)
    /\ WithStatus(u, "processing") = {}
    /\ photo' = [photo EXCEPT ![p] = [user |-> u, status |-> "processing",
                                      recorded |-> FALSE, old |-> FALSE]]
    /\ request' = [request EXCEPT ![<<u, k>>] =
                     [status |-> "processing", photo |-> p, expired |-> FALSE]]
    /\ upload' = [upload EXCEPT ![p] = "converting"]
    /\ held' = held \cup {<<p, u>>}
    /\ UNCHANGED <<account, verdict, store, queued, task, faults>>

\* Mutant: the request keeps its claim on the key.
DiscardRowOnly(p) ==
    /\ photo' = [photo EXCEPT ![p] = IF photo[p].status = "processing" THEN NoRow ELSE @]
    /\ UNCHANGED request

\* discardProcessing.  A row that is being removed stays.
DiscardProcessing(p) ==
    /\ photo' = [photo EXCEPT ![p] = IF photo[p].status = "processing" THEN NoRow ELSE @]
    /\ request' = [i \in DOMAIN request |->
                     IF request[i].status = "processing" /\ request[i].photo = p
                     THEN NoRequest ELSE request[i]]

\* toWebp refuses the image.
ConversionFails(p) ==
    /\ upload[p] = "converting"
    /\ DiscardProcessing(p)
    /\ Leave(p)
    /\ UNCHANGED <<account, verdict, store, queued, task, faults>>

\* toWebp and the automatic analysis, which never throws.
Convert(p) ==
    /\ upload[p] = "converting"
    /\ upload' = [upload EXCEPT ![p] = "recording"]
    /\ UNCHANGED <<account, photo, request, verdict, store, held, queued, task, faults>>

\* recordProcessed, then assertHeld.  The trigger on user_photo refuses a row
\* of a closed account; the loss of the lock may or may not be known yet.
RecordProcessed(p) ==
    /\ upload[p] = "recording"
    /\ IF photo[p].status # "processing"
       THEN DiscardProcessing(p) /\ Leave(p)
       ELSE /\ UNCHANGED request
            /\ \/ /\ account[photo[p].user] # "live"
                  /\ UNCHANGED photo /\ Leave(p)
               \/ /\ account[photo[p].user] = "live"
                  /\ photo' = [photo EXCEPT ![p].recorded = TRUE, ![p].old = FALSE]
                  /\ \/ upload' = [upload EXCEPT ![p] = "storing"] /\ UNCHANGED held
                     \/ ~Holds(p) /\ Leave(p)
    /\ UNCHANGED <<account, verdict, store, queued, task, faults>>

\* The object store confirms the PUT.
Put(p) ==
    /\ upload[p] = "storing"
    /\ store' = store \cup {p}
    /\ upload' = [upload EXCEPT ![p] = "activating"]
    /\ UNCHANGED <<account, photo, request, verdict, held, queued, task, faults>>

\* The PUT fails or times out, although the object may be there.
PutFails(p) ==
    /\ upload[p] = "storing"
    /\ Fault("storage")
    /\ store' \in {store, store \cup {p}}
    /\ Leave(p)
    /\ UNCHANGED <<account, photo, request, verdict, queued, task>>

\* Mutant: the photo that was ready is not retired.
ActivateKeepsPrevious(p, v) ==
    /\ upload[p] = "activating"
    /\ IF photo[p].status = "processing" /\ photo[p].recorded /\ account[photo[p].user] = "live"
       THEN /\ photo' = [photo EXCEPT ![p].status = "ready"]
            /\ UNCHANGED queued
            /\ verdict' = [verdict EXCEPT ![p] = v]
            /\ request' = [i \in DOMAIN request |->
                             IF request[i].status = "processing" /\ request[i].photo = p
                             THEN [request[i] EXCEPT !.status = "completed"] ELSE request[i]]
       ELSE UNCHANGED <<photo, queued, verdict, request>>
    /\ Leave(p)
    /\ UNCHANGED <<account, store, task, faults>>

\* Mutant: the status of the photo is not checked again.
ActivateAnyStatus(p, v) ==
    /\ upload[p] = "activating"
    /\ IF photo[p].status # "none" /\ account[photo[p].user] = "live"
       THEN /\ photo' = [MarkDeleting(WithStatus(photo[p].user, "ready")) EXCEPT ![p].status = "ready"]
            /\ queued' = queued \cup WithStatus(photo[p].user, "ready")
            /\ verdict' = [verdict EXCEPT ![p] = v]
       ELSE UNCHANGED <<photo, queued, verdict>>
    /\ Leave(p)
    /\ UNCHANGED <<account, request, store, task, faults>>

\* activate: the ready photo is retired with its photo.delete event, the new
\* one becomes ready with a case and completes its request.
Activate(p, v) ==
    /\ upload[p] = "activating"
    /\ IF photo[p].status = "processing" /\ photo[p].recorded /\ account[photo[p].user] = "live"
       THEN LET previous == WithStatus(photo[p].user, "ready")
            IN  /\ photo' = [MarkDeleting(previous) EXCEPT ![p].status = "ready", ![p].old = FALSE]
                /\ queued' = queued \cup previous
                /\ verdict' = [verdict EXCEPT ![p] = v]
                /\ request' = [i \in DOMAIN request |->
                                 IF request[i].status = "processing" /\ request[i].photo = p
                                 THEN [request[i] EXCEPT !.status = "completed"] ELSE request[i]]
       ELSE UNCHANGED <<photo, queued, verdict, request>>
    /\ Leave(p)
    /\ UNCHANGED <<account, store, task, faults>>

\* The process dies during an upload; a PUT under way may have been served.
UploadDies(p) ==
    /\ Running(p)
    /\ Fault("crash")
    /\ store' \in {store} \cup (IF upload[p] = "storing" THEN {store \cup {p}} ELSE {})
    /\ Leave(p)
    /\ UNCHANGED <<account, photo, request, verdict, queued, task>>

\* The connection that holds the shared lock is lost while the upload goes on.
LockLost(p) ==
    /\ Holds(p)
    /\ Fault("lock")
    /\ held' = {h \in held : h[1] # p}
    /\ UNCHANGED <<account, photo, request, verdict, store, upload, queued, task>>

-----------------------------------------------------------------------------
(* Asking for removal.                                                     *)

\* The owner deletes the photo.
BeginDelete(u) ==
    /\ account[u] = "live" /\ WithStatus(u, "ready") # {}
    /\ photo' = MarkDeleting(WithStatus(u, "ready"))
    /\ queued' = queued \cup WithStatus(u, "ready")
    /\ UNCHANGED <<account, request, verdict, store, upload, held, task, faults>>

\* review: only a ready photo; a rejection removes it.  The trigger on the
\* cases refuses a closed account.
Review(p, decision) ==
    /\ verdict[p] # "none" /\ photo[p].status = "ready" /\ account[photo[p].user] = "live"
    /\ verdict' = [verdict EXCEPT ![p] = decision]
    /\ photo' = IF decision = "rejected" THEN MarkDeleting({p}) ELSE photo
    /\ queued' = IF decision = "rejected" THEN queued \cup {p} ELSE queued
    /\ UNCHANGED <<account, request, store, upload, held, task, faults>>

\* reconcilePhoto of an administrator (refused while the claim of the event is
\* recent, a date this model does not keep).
ReconcilePhoto(p) ==
    /\ photo[p].status = "deleting" \/ (photo[p].status = "processing" /\ photo[p].old)
    /\ photo' = MarkDeleting({p})
    /\ queued' = queued \cup {p}
    /\ UNCHANGED <<account, request, verdict, store, upload, held, task, faults>>

\* The erasure of the account is accepted: deleted_at.
Close(u) ==
    /\ account[u] = "live"
    /\ account' = [account EXCEPT ![u] = "closing"]
    /\ UNCHANGED <<photo, request, verdict, store, upload, held, queued, task, faults>>

-----------------------------------------------------------------------------
(* Removing: every loop deletes the object, then the row.                  *)

\* The photo.delete handler: findDeleting, or nothing to do.
TakeEvent(r, p) ==
    /\ task[r] = Idle /\ p \in queued
    /\ IF photo[p].status = "deleting"
       THEN task' = [task EXCEPT ![r] = [Idle EXCEPT !.by = "outbox", !.todo = {p}]]
            /\ UNCHANGED queued
       ELSE UNCHANGED task /\ queued' = queued \ {p}
    /\ UNCHANGED <<account, photo, request, verdict, store, upload, held, faults>>

\* Mutant: a removal that failed is not tried again.
StaleUploads == {p \in Photos : photo[p].status = "processing" /\ photo[p].old}

\* What claimCleanupBatch finds.
Stale == {p \in Photos : photo[p].status \in {"processing", "deleting"} /\ photo[p].old}

\* claimCleanupBatch of the maintenance job.
ClaimCleanupBatch(r) ==
    /\ task[r] = Idle /\ Stale # {}
    /\ photo' = MarkDeleting(Stale)
    /\ task' = [task EXCEPT ![r] = [Idle EXCEPT !.by = "cleanup", !.todo = Stale]]
    /\ UNCHANGED <<account, request, verdict, store, upload, held, queued, faults>>

\* Mutant: the erasure does not wait for the uploads that hold the lock.
BeginAccountDeletionAtOnce(r, u) ==
    /\ task[r] = Idle /\ account[u] = "closing" /\ ~Erasing(u)
    /\ photo' = MarkDeleting(RowsOf(u))
    /\ task' = [task EXCEPT ![r] = [Idle EXCEPT !.by = "erasure", !.todo = RowsOf(u), !.users = {u}]]
    /\ UNCHANGED <<account, request, verdict, store, upload, held, queued, faults>>

\* The photos step of an erasure: exclusive lock, then beginAccountDeletion.
BeginAccountDeletion(r, u) ==
    /\ task[r] = Idle /\ account[u] = "closing"
    /\ ~Erasing(u) /\ \A h \in held : h[2] # u
    /\ photo' = MarkDeleting(RowsOf(u))
    /\ task' = [task EXCEPT ![r] = [Idle EXCEPT !.by = "erasure", !.todo = RowsOf(u), !.users = {u}]]
    /\ UNCHANGED <<account, request, verdict, store, upload, held, queued, faults>>

\* storage.delete is confirmed.
DeleteObject(r, p) ==
    /\ p \in task[r].todo /\ task[r].gone = NoPhoto
    /\ store' = store \ {p}
    /\ task' = [task EXCEPT ![r].todo = @ \ {p}, ![r].gone = p]
    /\ UNCHANGED <<account, photo, request, verdict, upload, held, queued, faults>>

\* storage.delete throws, with or without effect: the next photo is tried.
DeleteFails(r, p) ==
    /\ p \in task[r].todo /\ task[r].gone = NoPhoto
    /\ Fault("storage")
    /\ store' \in {store, store \ {p}}
    /\ task' = [task EXCEPT ![r].todo = @ \ {p}, ![r].failed = TRUE]
    /\ UNCHANGED <<account, photo, request, verdict, upload, held, queued>>

\* completeDeletion: the request is consumed, the row deleted with its case.
CompleteDeletion(r) ==
    LET p == task[r].gone
    IN  /\ p # NoPhoto
        /\ request' = [i \in DOMAIN request |->
                         IF request[i].status # "none" /\ request[i].photo = p
                         THEN [request[i] EXCEPT !.status = "consumed", !.photo = NoPhoto]
                         ELSE request[i]]
        /\ photo' = [photo EXCEPT ![p] = IF photo[p].status = "deleting" THEN NoRow ELSE @]
        /\ verdict' = [verdict EXCEPT ![p] = IF photo[p].status = "deleting" THEN "none" ELSE @]
        /\ task' = [task EXCEPT ![r].gone = NoPhoto]
        /\ queued' = IF task[r].by = "outbox" THEN queued \ {p} ELSE queued
        /\ UNCHANGED <<account, store, upload, held, faults>>

\* The loop ends.  An erasure advances if nothing failed, or tries again.
LoopEnds(r) ==
    /\ task[r].by # "idle" /\ task[r].todo = {} /\ task[r].gone = NoPhoto
    /\ task' = [task EXCEPT ![r] = Idle]
    /\ account' = [u \in Users |-> IF u \in task[r].users /\ ~task[r].failed
                                   THEN "drained" ELSE account[u]]
    /\ UNCHANGED <<photo, request, verdict, store, upload, held, queued, faults>>

\* The process of a remover dies: its locks and its claim are gone.
RemoverDies(r) ==
    /\ task[r].by # "idle"
    /\ Fault("crash")
    /\ task' = [task EXCEPT ![r] = Idle]
    /\ UNCHANGED <<account, photo, request, verdict, store, upload, held, queued>>

\* The event fails for the last time: a dead letter that nobody takes.
DropEvent(p) ==
    /\ p \in queued
    /\ Fault("storage")
    /\ queued' = queued \ {p}
    /\ UNCHANGED <<account, photo, request, verdict, store, upload, held, task>>

\* The postgres step of the erasure: no row may remain; the requests and the
\* profile go.
Anonymize(u) ==
    /\ account[u] = "drained" /\ RowsOf(u) = {}
    /\ ~Erasing(u) /\ \A h \in held : h[2] # u
    /\ account' = [account EXCEPT ![u] = "erased"]
    /\ request' = [i \in DOMAIN request |-> IF i[1] = u THEN NoRequest ELSE request[i]]
    /\ UNCHANGED <<photo, verdict, store, upload, held, queued, task, faults>>

-----------------------------------------------------------------------------
(* Time.                                                                   *)

\* updated_at leaves the cleanup window.  Converting, recording, storing and
\* activating are each far shorter than 30 minutes, unless the process is slow.
Ages(p) ==
    /\ photo[p].status \in {"processing", "deleting"} /\ ~photo[p].old
    /\ IF Running(p) /\ photo[p].status = "processing" THEN Fault("slow") ELSE UNCHANGED faults
    /\ photo' = [photo EXCEPT ![p].old = TRUE]
    /\ UNCHANGED <<account, request, verdict, store, upload, held, queued, task>>

\* The 24 hours of a request pass, after its upload.
Expires(i) ==
    /\ request[i].status # "none" /\ ~request[i].expired
    /\ request[i].photo # NoPhoto => ~Running(request[i].photo)
    /\ request' = [request EXCEPT ![i].expired = TRUE]
    /\ UNCHANGED <<account, photo, verdict, store, upload, held, queued, task, faults>>

\* purgeExpiredUploadRequests of the maintenance job.
PurgeRequest(i) ==
    /\ request[i].status # "none" /\ request[i].expired
    /\ request' = [request EXCEPT ![i] = NoRequest]
    /\ UNCHANGED <<account, photo, verdict, store, upload, held, queued, task, faults>>

\* The steps of an upload, of a removal and of an erasure that nothing holds up.
Uploading(p) ==
    \/ ConversionFails(p) \/ Convert(p) \/ RecordProcessed(p) \/ Put(p)
    \/ \E v \in {"pending", "approved"} : Activate(p, v)

Removing(r) == CompleteDeletion(r) \/ LoopEnds(r) \/ \E p \in Photos : DeleteObject(r, p)

Erasure(u) == Anonymize(u) \/ \E r \in Handlers : BeginAccountDeletion(r, u)

Next ==
    \/ \E p \in Photos, u \in Users, k \in Keys : CreateProcessing(p, u, k)
    \/ \E p \in Photos : Uploading(p) \/ PutFails(p) \/ UploadDies(p) \/ LockLost(p)
    \/ \E u \in Users : BeginDelete(u) \/ Close(u) \/ Erasure(u)
    \/ \E p \in Photos, decision \in {"approved", "rejected"} : Review(p, decision)
    \/ \E p \in Photos : ReconcilePhoto(p) \/ DropEvent(p) \/ Ages(p)
    \/ \E r \in Handlers, p \in Photos : TakeEvent(r, p)
    \/ \E r \in Jobs : ClaimCleanupBatch(r)
    \/ \E r \in Removers : Removing(r) \/ RemoverDies(r) \/ \E p \in Photos : DeleteFails(r, p)
    \/ \E i \in Users \X Keys : Expires(i) \/ PurgeRequest(i)

Spec == Init /\ [][Next]_vars

-----------------------------------------------------------------------------
(* Properties.                                                             *)

\* A photo that is shown has its object, whatever removals of older photos,
\* cleanups and retries are under way: a signed URL never leads nowhere.
ReadyHasObject == \A p \in Photos : photo[p].status = "ready" => p \in store

\* Every object has a row that leads the cleanup to it: neither a crash between
\* the store and the database, nor an erasure or a removal that meets an upload,
\* leaves an object that nobody knows, as long as no upload outlives its lock or
\* the 30 minutes of the cleanup.
NoOrphanObject ==
    faults \cap {"lock", "slow"} = {} => \A p \in store : photo[p].status # "none"

\* At most one photo of an account is ready and at most one in progress: no
\* transaction fails on uq_user_photo_ready or uq_user_photo_in_progress.
OnePhoto == \A u \in Users :
    /\ Cardinality(WithStatus(u, "ready")) <= 1
    /\ Cardinality(WithStatus(u, "processing")) <= 1

\* A request that still claims its key names a stored photo of its user, in a
\* status that agrees: a discarded or removed upload never blocks a key.
RequestFollowsPhoto == \A i \in DOMAIN request :
    request[i].status \in {"processing", "completed"} =>
      /\ request[i].photo \in RowsOf(i[1])
      /\ photo[request[i].photo].status \in
           {"deleting", IF request[i].status = "processing" THEN "processing" ELSE "ready"}

\* Once an account is erased neither a photo nor a request of it is left or can
\* appear, whatever uploads were under way (and then no object either, by
\* NoOrphanObject).
ErasureComplete == \A u \in Users : account[u] = "erased" =>
    /\ RowsOf(u) = {}
    /\ \A k \in Keys : request[<<u, k>>] = NoRequest

\* A removed photo, and an upload that stopped half-way, disappear in the end
\* (and by NoOrphanObject so do their objects), even if their event was lost or
\* their worker died.
RemovedInTheEnd == \A p \in Photos :
    photo[p].status \in {"processing", "deleting"} ~> photo[p].status \in {"ready", "none"}

\* An accepted erasure gets past its photos.
ErasureGoesOn == \A u \in Users : account[u] = "closing" ~> account[u] = "erased"

\* What holds of the photos of an account at any time, during uploads, removals,
\* cleanups and an erasure: the shown photo has its object, there is one at
\* most, no key is blocked by an upload that is gone, nothing survives the erasure.
PhotosConsistent == TypeOK /\ ReadyHasObject /\ OnePhoto /\ RequestFollowsPhoto /\ ErasureComplete

\* What was left half-way disappears, and an erasure does not wait for it for ever.
PhotosProgress == RemovedInTheEnd /\ ErasureGoesOn

=============================================================================
