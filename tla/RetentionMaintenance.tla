------------------------ MODULE RetentionMaintenance ------------------------
(***************************************************************************)
(* The retention pass of PrivacyMaintenanceService in several processes:   *)
(* bounded batches, each a transaction of its own under an advisory lock   *)
(* that is only tried, and the row of maintenance_job_status that          *)
(* MaintenanceTrackerService keeps about the latest pass.                  *)
(*                                                                         *)
(* The eighteen statements of a batch have two shapes: the oldest rows of  *)
(* a table that are past their date (here Others), and refresh tokens      *)
(* followed by the families they leave empty.  Dates become the order in   *)
(* which rows expire; new Date() is the set of rows expired by then.       *)
(***************************************************************************)
EXTENDS Naturals, FiniteSets

CONSTANTS
    Procs,       \* processes that run the maintenance
    Tokens, Families, Others,   \* rows under retention
    FamilyOf,    \* refresh_tokens.family_id
    BatchSize,   \* BATCH_SIZE
    MaxBatches,  \* MAX_BATCHES_PER_RUN
    MaxFaults,   \* bound on crashes, failing transactions and lost status updates
    None

Rows == Tokens \cup Families \cup Others

VARIABLES
    rows,    \* stored rows
    expired, \* stored rows that are past their date
    older,   \* the order of their dates in each table
    leader,  \* who holds PRIVACY_MAINTENANCE_LOCK
    pass,    \* performMaintenance of each process
    job,     \* the row of maintenance_job_status; by: whose current run it names
    faults

vars == <<rows, expired, older, leader, pass, job, faults>>

\* The rows of the table of r.
TableOf(r) == CHOOSE table \in {Tokens, Families, Others} : r \in table

Idle == [at |-> "idle", batch |-> 0, full |-> FALSE, clash |-> FALSE, cut |-> {},
         status |-> "running"]

\* Types, that the dates of a table are in one order, and that only the holder of
\* the lock is inside a batch.
TypeOK ==
    /\ rows \subseteq Rows /\ expired \subseteq rows /\ older \subseteq expired \X expired
    /\ \A r \in expired : \A q \in expired \cap TableOf(r) : q = r \/ (<<q, r>> \in older <=> <<r, q>> \notin older)
    /\ leader \in Procs \cup {None}
    /\ pass \in [Procs -> [at : {"idle", "date", "lock", "batch", "end"}, batch : 0..MaxBatches,
                           full : BOOLEAN, clash : BOOLEAN, cut : SUBSET Rows,
                           status : {"running", "succeeded", "failed", "skipped"}]]
    /\ \A p \in Procs : pass[p].at = "batch" <=> leader = p
    /\ job \in [by : Procs \cup {None}, remaining : BOOLEAN,
                status : {"missing", "running", "succeeded", "failed", "skipped"}]
    /\ faults \in 0..MaxFaults

Init ==
    /\ rows \in {s \in SUBSET Rows : \A t \in Tokens \cap s : FamilyOf[t] \in s}
    /\ expired = {} /\ older = {}
    /\ leader = None /\ pass = [p \in Procs |-> Idle]
    /\ job = [by |-> None, status |-> "missing", remaining |-> FALSE]
    /\ faults = 0

-----------------------------------------------------------------------------
(* The tables: what the rest of the API does to the rows.                  *)

\* A row is inserted; a token only into a family that has not expired.
Create(r) ==
    /\ r \notin rows
    /\ r \in Tokens => FamilyOf[r] \in rows \ expired
    /\ rows' = rows \cup {r}
    /\ pass' = [p \in Procs |-> [pass[p] EXCEPT !.cut = @ \ {r}]]
    /\ UNCHANGED <<expired, older, leader, job, faults>>

\* The date of a row passes.  A family has the date of its newest token.
Expire(r) ==
    /\ r \in rows \ expired
    /\ r \in Families => \A t \in Tokens \cap rows : FamilyOf[t] = r => t \in expired
    /\ expired' = expired \cup {r} /\ older' = older \cup ((expired \cap TableOf(r)) \X {r})
    /\ UNCHANGED <<rows, leader, pass, job, faults>>

\* The rows R leave the tables.
Delete(R) ==
    /\ rows' = rows \ R /\ expired' = expired \ R
    /\ older' = older \cap ((expired \ R) \X (expired \ R))

\* Another transaction deletes a row; a family takes its tokens with it.
Erase(r) ==
    /\ r \in rows \ Tokens
    /\ Delete({r} \cup {t \in Tokens : FamilyOf[t] = r})
    /\ UNCHANGED <<leader, pass, job, faults>>

-----------------------------------------------------------------------------
(* MaintenanceTrackerService.                                              *)

\* A statement on maintenance_job_status is lost, which record() ignores.
Lost(recorded) ==
    /\ recorded \/ faults < MaxFaults
    /\ faults' = IF recorded THEN faults ELSE faults + 1

\* track: start() makes the row name this run, unless the statement fails or a
\* run with a later date came first; record() ignores both.
Start(p, recorded) ==
    /\ pass[p].at = "idle" /\ Lost(recorded)
    /\ job' = IF recorded
              THEN [by |-> p, status |-> "running", remaining |-> FALSE]
              ELSE [job EXCEPT !.by = IF @ = p THEN None ELSE @]
    /\ pass' = [pass EXCEPT ![p] = [Idle EXCEPT !.at = "date"]]
    /\ UNCHANGED <<rows, expired, older, leader>>

\* What finish() writes: nothing is left after a skip, a failure leaves all.
Outcome(p) ==
    [by |-> p, status |-> pass[p].status,
     remaining |-> pass[p].full \/ pass[p].status = "failed"]

\* track: finish() writes the outcome WHERE run_id is still this run.
Finish(p, recorded) ==
    /\ pass[p].at = "end" /\ Lost(recorded)
    /\ job' = IF recorded /\ job.by = p THEN Outcome(p) ELSE job
    /\ pass' = [pass EXCEPT ![p] = Idle]
    /\ UNCHANGED <<rows, expired, older, leader>>

-----------------------------------------------------------------------------
(* PrivacyMaintenanceService.performMaintenance.                           *)

\* new Date(), before the transaction of a batch begins.
TakeDate(p) ==
    /\ pass[p].at = "date"
    /\ pass' = [pass EXCEPT ![p].at = "lock", ![p].cut = expired]
    /\ UNCHANGED <<rows, expired, older, leader, job, faults>>

\* Mutant: the answer of the lock is not looked at.
LeadAnyway(p) ==
    /\ pass[p].at = "lock"
    /\ leader' = p /\ pass' = [pass EXCEPT ![p].at = "batch"]
    /\ UNCHANGED <<rows, expired, older, job, faults>>

\* runMaintenanceAsLeader: pg_try_advisory_xact_lock.  Without the lock the pass
\* ends: skipped if it had no batch, else with work remaining.
Lead(p) ==
    /\ pass[p].at = "lock"
    /\ IF leader = None
       THEN leader' = p /\ pass' = [pass EXCEPT ![p].at = "batch"]
       ELSE /\ pass' = [pass EXCEPT ![p].at = "end", ![p].full = pass[p].batch > 0, ![p].cut = {},
                        ![p].status = IF pass[p].batch > 0 THEN "succeeded" ELSE "skipped"]
            /\ UNCHANGED leader
    /\ UNCHANGED <<rows, expired, older, job, faults>>

\* ORDER BY the date LIMIT $2, among the rows R of a table.
OldestRows(R) == {r \in R : Cardinality({q \in R : <<q, r>> \in older}) < BatchSize}

\* Mutant: families are deleted whatever tokens they have.
AnyFamily(stored) == Families

\* NOT EXISTS: the families without a token among the stored rows.
EmptyFamilies(stored) == {f \in Families : \A t \in Tokens \cap stored : FamilyOf[t] # f}

\* runMaintenance: what each table loses, tokens before families.
Batch(p) ==
    LET ripe == pass[p].cut \cap expired
        tokens == OldestRows(ripe \cap Tokens)
    IN
    [token |-> tokens, other |-> OldestRows(ripe \cap Others),
     family |-> OldestRows(ripe \cap EmptyFamilies(rows \ tokens))]

\* Mutant: a batch that is just full is taken for the last one.
FullBeyond(n) == n > BatchSize

\* Math.max(...Object.values(result)) < BATCH_SIZE ends the pass.
Full(n) == n >= BatchSize

\* Mutant: a lock of the session, which the commit does not release.
SweepKeepsLock(p, gone) ==
    /\ pass[p].at = "batch"
    /\ LET b == Batch(p)
           R == b.token \cup b.family \cup b.other
           full == \/ Full(Cardinality(b.token)) \/ Full(Cardinality(b.family))
                   \/ Full(Cardinality(b.other \ gone))
           more == full /\ pass[p].batch + 1 < MaxBatches IN
       /\ gone \subseteq b.other
       /\ Delete(R)
       /\ pass' = [pass EXCEPT ![p] =
            [at |-> IF more THEN "date" ELSE "end", batch |-> @.batch + 1,
             full |-> full, clash |-> ~full /\ gone # {},
             cut |-> IF full THEN {} ELSE @.cut,
             status |-> IF more THEN "running" ELSE "succeeded"]]
    /\ UNCHANGED <<leader, job, faults>>

\* The batch commits and the lock is released with it.  Rows that another
\* transaction deleted while a statement waited for them (gone) are not in its
\* row count.
Sweep(p, gone) ==
    /\ pass[p].at = "batch"
    /\ LET b == Batch(p)
           R == b.token \cup b.family \cup b.other
           full == \/ Full(Cardinality(b.token)) \/ Full(Cardinality(b.family))
                   \/ Full(Cardinality(b.other \ gone))
           more == full /\ pass[p].batch + 1 < MaxBatches IN
       /\ gone \subseteq b.other
       /\ Delete(R)
       /\ pass' = [pass EXCEPT ![p] =
            [at |-> IF more THEN "date" ELSE "end", batch |-> @.batch + 1,
             full |-> full, clash |-> ~full /\ gone # {},
             cut |-> IF full THEN {} ELSE @.cut,
             status |-> IF more THEN "running" ELSE "succeeded"]]
    /\ leader' = None
    /\ UNCHANGED <<job, faults>>

\* The transaction of a batch fails and rolls back; track() records a failure.
Fail(p) ==
    /\ pass[p].at \in {"lock", "batch"} /\ faults < MaxFaults
    /\ leader' = IF leader = p THEN None ELSE leader
    /\ pass' = [pass EXCEPT ![p].at = "end", ![p].status = "failed", ![p].cut = {}]
    /\ faults' = faults + 1
    /\ UNCHANGED <<rows, expired, older, job>>

\* The process dies; its transaction is rolled back and the row stays as it is.
Crash(p) ==
    /\ pass[p].at # "idle" /\ faults < MaxFaults
    /\ leader' = IF leader = p THEN None ELSE leader
    /\ pass' = [pass EXCEPT ![p] = Idle]
    /\ job' = [job EXCEPT !.by = IF @ = p THEN None ELSE @]
    /\ faults' = faults + 1
    /\ UNCHANGED <<rows, expired, older>>

\* A pass, started by the daily timer or by the maintenance command.
Pass(p) ==
    \/ \E recorded \in BOOLEAN : Start(p, recorded) \/ Finish(p, recorded)
    \/ TakeDate(p) \/ Lead(p) \/ \E gone \in SUBSET Others : Sweep(p, gone)

Next ==
    \/ \E r \in Rows : Create(r) \/ Expire(r) \/ Erase(r)
    \/ \E p \in Procs : Pass(p) \/ Fail(p) \/ Crash(p)

Spec == Init /\ [][Next]_vars

-----------------------------------------------------------------------------
(* Properties.                                                             *)

\* A family is deleted only after its tokens, so that a batch never cascades
\* into a history of unbounded length: no stored token is without its family.
FamiliesGoLast == \A t \in Tokens \cap rows : FamilyOf[t] \in rows

\* A pass that succeeds and reports no work remaining has removed every row that
\* was expired when its last batch took its date, families included; unless a
\* row count of that batch was short because of another transaction.
CleanMeansClean ==
    \A p \in Procs :
        pass[p].at = "end" /\ pass[p].status = "succeeded" /\ ~pass[p].full /\ ~pass[p].clash
        => pass[p].cut \cap expired = {}

\* Retention: an expired row does not stay, however many rows keep expiring and
\* whoever loses the race for the lock.
NothingExpiredStays == \A r \in Rows : (r \in expired) ~> (r \notin expired)
\* Passes of several processes: one at a time is inside a batch, no batch
\* cascades, and a pass that calls itself done has left nothing.
RetentionConsistent == TypeOK /\ FamiliesGoLast /\ CleanMeansClean

=============================================================================
