-------------------------- MODULE MCAccountErasure --------------------------
(***************************************************************************)
(* A small instance of AccountErasure for TLC, and beside it one of        *)
(* PhotoLifecycle: whether the removals that an erasure and a deletion     *)
(* ask for come to an end.  The two do not interact here; part says which  *)
(* of them runs, and the other one stays in its initial state.             *)
(***************************************************************************)
EXTENDS AccountErasure, TLC

CONSTANTS r1, r2, w1, w2, i1, i2, p1, u1, k1, h1, j1, NoPhoto

VARIABLES part, photoAccount, photo, uploadRequest, verdict, store, upload, held,
          queued, task, photoFaults

\* Two requests for erasure; two runs of one process, whose workerId they share.
TwoErasures == (r1 :> "erasure") @@ (r2 :> "erasure")
SameProcess == (w1 :> p1) @@ (w2 :> p1)

Photo == INSTANCE PhotoLifecycle WITH
    Users <- {u1}, Keys <- {k1}, Photos <- {i1}, Handlers <- {h1}, Jobs <- {j1}, MaxFaults <- 2,
    account <- photoAccount, request <- uploadRequest, faults <- photoFaults

photoVars == <<photoAccount, photo, uploadRequest, verdict, store, upload, held,
               queued, task, photoFaults>>

allVars == <<part, vars, photoVars>>

MCInit == part \in {"erasure", "photos"} /\ Init /\ Photo!Init

InErasure(A) == part = "erasure" /\ A /\ UNCHANGED <<part, photoVars>>

InPhotos(A) == part = "photos" /\ A /\ UNCHANGED <<part, vars>>

MCNext ==
    \/ InErasure(Next)
    \/ InPhotos(Photo!Next)

\* Workers and jobs poll, what they began goes on, a dead worker's lease lapses
\* and photos grow old; an upload that was begun and an accepted erasure go on.
MCSpec ==
    /\ MCInit /\ [][MCNext]_allVars
    /\ WF_allVars(InErasure(LeaseLapses))
    /\ \A i \in Items : WF_allVars(InErasure(Operation(i)))
    /\ \A w \in Runs : WF_allVars(InErasure(Step(w)))
    /\ WF_allVars(InPhotos(Photo!Uploading(i1)))
    /\ WF_allVars(InPhotos(Photo!Ages(i1)))
    /\ WF_allVars(InPhotos(Photo!TakeEvent(h1, i1)))
    /\ WF_allVars(InPhotos(Photo!ClaimCleanupBatch(j1)))
    /\ \A r \in {h1, j1} : WF_allVars(InPhotos(Photo!Removing(r)))
    /\ WF_allVars(InPhotos(Photo!Erasure(u1)))

\* PhotoLifecycle: what is removed, or was left half-way, disappears, and an
\* accepted erasure gets past its photos.
PhotosProgress == Photo!PhotosProgress

=============================================================================
