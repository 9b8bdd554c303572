----------------------------- MODULE DataExport -----------------------------
(***************************************************************************)
(* The download of an account's data: prepare of DataExportService,        *)
(* writeSnapshot of DataExportRepository and JsonExportWriter.             *)
(*                                                                         *)
(* One process prepares the documents of several requests in temporary     *)
(* files, a bounded number at a time, while the rows of the account        *)
(* change.  A row is a key of its collection, in the order of the keyset   *)
(* the collection is read by; every token written counts one byte.         *)
(***************************************************************************)
EXTENDS Integers, Sequences, FiniteSets

CONSTANTS
    Requests,       \* calls of prepare
    Collections,    \* number of collections, written one after the other
    Keys,           \* keys of rows, numbers from 1 for their order
    PageSize,       \* dataExportPageSize
    MaxBytes,       \* dataExportMaxBytes
    MaxConcurrency, \* dataExportMaxConcurrency
    MaxChanges,     \* bound on changes of rows
    MaxFaults       \* bound on errors of the database, the disk and the store, and on crashes

VARIABLES
    table,          \* rows of each collection
    activeExports,  \* places taken
    req,            \* the requests
    directory,      \* requests whose temporary directory exists
    log,            \* requests with their export_data row in data_access_log
    kept,           \* history: requests whose directory could not be removed
    changes, faults

vars == <<table, activeExports, req, directory, log, kept, changes, faults>>

Sections == 1..Collections

\* Where prepare is; "cleaning" is cleanup before the place is given back.
Working == {"slot", "directory", "file", "pages", "closed"}
Holding == Working \cup {"failed", "streaming", "cleaning"}
Ended == {"refused", "over", "dead"}

Idle == [pc |-> "none", bytes |-> 0, contexts |-> <<>>, section |-> 1, cursor |-> 0,
         snapshot |-> [s \in Sections |-> {}], document |-> [s \in Sections |-> [k \in Keys |-> 0]], errored |-> FALSE, closed |-> FALSE, released |-> FALSE]

\* A document is as long as the limit at most, and its writer is at its root or
\* in one array of it.
TypeOK ==
    /\ table \in [Sections -> SUBSET Keys]
    /\ activeExports \in 0..MaxConcurrency
    /\ \A r \in Requests :
         /\ req[r].pc \in {"none"} \cup Holding \cup Ended
         /\ req[r].bytes \in 0..MaxBytes
         /\ req[r].contexts \in {<<>>, <<"object">>, <<"object", "array">>}
         /\ req[r].section \in 1..(Collections + 1) /\ req[r].cursor \in Keys \cup {0}
         /\ req[r].snapshot \in [Sections -> SUBSET Keys]
         /\ req[r].document \in [Sections -> [Keys -> 0..2]]
         /\ {req[r].errored, req[r].closed, req[r].released} \subseteq BOOLEAN
    /\ directory \subseteq Requests /\ log \subseteq Requests /\ kept \subseteq Requests
    /\ changes \in 0..MaxChanges /\ faults \in 0..MaxFaults

Init ==
    /\ table \in [Sections -> SUBSET Keys]
    /\ activeExports = 0 /\ req = [r \in Requests |-> Idle]
    /\ directory = {} /\ log = {} /\ kept = {} /\ changes = 0 /\ faults = 0

\* acquireSlot, or 503 data_export_busy.
AcquireSlot(r) ==
    LET busy == activeExports >= MaxConcurrency IN
    /\ req[r].pc = "none"
    /\ activeExports' = IF busy THEN activeExports ELSE activeExports + 1
    /\ req' = [req EXCEPT ![r].pc = IF busy THEN "refused" ELSE "slot"]
    /\ UNCHANGED <<table, directory, log, kept, changes, faults>>

\* The function acquireSlot returns: the first call counts.
Release(r) == activeExports' = IF req[r].released THEN activeExports ELSE activeExports - 1

\* Mutant: the limit is looked at before the tokens are counted in.
WriteLate(r, tokens, contexts, rest) ==
    req' = [req EXCEPT ![r] = IF @.bytes > MaxBytes THEN [@ EXCEPT !.pc = "failed"]
                              ELSE [rest EXCEPT !.bytes = @ + tokens, !.contexts = contexts]]

\* write of JsonExportWriter, for all tokens of a step: the request goes on as
\* rest, or fails with DataExportTooLargeError.
Write(r, tokens, contexts, rest) ==
    req' = [req EXCEPT ![r] = IF @.bytes + tokens > MaxBytes THEN [@ EXCEPT !.pc = "failed"]
                              ELSE [rest EXCEPT !.bytes = @ + tokens, !.contexts = contexts]]

\* mkdtemp.
MakeDirectory(r) ==
    /\ req[r].pc = "slot"
    /\ directory' = directory \cup {r}
    /\ req' = [req EXCEPT ![r].pc = "directory"]
    /\ UNCHANGED <<table, activeExports, log, kept, changes, faults>>

\* open of the file and startObject of the root.
OpenFile(r) ==
    /\ req[r].pc = "directory"
    /\ Write(r, 1, <<"object">>, [req[r] EXCEPT !.pc = "file"])
    /\ UNCHANGED <<table, activeExports, directory, log, kept, changes, faults>>

\* The first query of the REPEATABLE READ transaction takes its snapshot.
BeginSnapshot(r) ==
    /\ req[r].pc = "file"
    /\ req' = [req EXCEPT ![r].pc = "pages", ![r].snapshot = table]
    /\ UNCHANGED <<table, activeExports, directory, log, kept, changes, faults>>

\* Mutant: every page is read at READ COMMITTED.
SourceCommitted(r) == table[req[r].section]

\* What the queries of the transaction see of a collection.
Source(r) == req[r].snapshot[req[r].section]

\* ORDER BY key LIMIT pageSize, after the cursor.
Page(r) ==
    LET rest == {k \in Source(r) : k > req[r].cursor}
    IN {k \in rest : Cardinality({j \in rest : j < k}) < PageSize}

LastOf(page) == CHOOSE k \in page : \A j \in page : j <= k

\* How often a document holds each row, 2 for more than once, with a page more.
With(document, section, page) ==
    [document EXCEPT ![section] = [k \in Keys |-> IF k \in page /\ @[k] < 2 THEN @[k] + 1 ELSE @[k]]]

\* writePages, one page: the array is begun with the first one and ended after
\* the page that is not full.
WritePage(r) ==
    LET page == Page(r)
        last == Cardinality(page) < PageSize
        tokens == (IF req[r].contexts = <<"object">> THEN 1 ELSE 0) + Cardinality(page) + (IF last THEN 1 ELSE 0)
        written == [req[r] EXCEPT !.document = With(@, req[r].section, page)]
    IN
    /\ req[r].pc = "pages" /\ req[r].section \in Sections
    /\ IF last THEN Write(r, tokens, <<"object">>, [written EXCEPT !.section = @ + 1, !.cursor = 0])
       ELSE Write(r, tokens, <<"object", "array">>, [written EXCEPT !.cursor = LastOf(page)])
    /\ UNCHANGED <<table, activeExports, directory, log, kept, changes, faults>>

\* The properties of the account, endObject, assertComplete and close.
CloseFile(r) ==
    /\ req[r].pc = "pages" /\ req[r].section = Collections + 1
    /\ Write(r, 2, SubSeq(req[r].contexts, 1, Len(req[r].contexts) - 1), [req[r] EXCEPT !.pc = "closed"])
    /\ UNCHANGED <<table, activeExports, directory, log, kept, changes, faults>>

\* recordSelfExport, then the stream of the response.
RecordSelfExport(r) ==
    /\ req[r].pc = "closed"
    /\ log' = log \cup {r}
    /\ req' = [req EXCEPT ![r].pc = "streaming"]
    /\ UNCHANGED <<table, activeExports, directory, kept, changes, faults>>

\* The stream is closed, at its end or by the client that goes away, or breaks;
\* after an error it is closed as well.  cleanup runs once.
StreamEvent(r, event) ==
    /\ req[r].pc \in {"streaming", "cleaning", "over"} /\ ~req[r].closed
    /\ event = "error" => req[r].pc = "streaming" /\ ~req[r].errored /\ faults < MaxFaults
    /\ event = "close" => req[r].pc = "streaming" \/ req[r].errored
    /\ faults' = IF event = "error" THEN faults + 1 ELSE faults
    /\ req' = [req EXCEPT ![r].pc = IF @ = "streaming" THEN "cleaning" ELSE @,
                          ![r].errored = @ \/ event = "error", ![r].closed = event = "close"]
    /\ UNCHANGED <<table, activeExports, directory, log, kept, changes>>

\* removeTemporaryExport, which swallows its errors.
RemoveDirectory(r, removed) ==
    /\ removed \/ (r \in directory /\ faults < MaxFaults)
    /\ faults' = IF removed THEN faults ELSE faults + 1
    /\ directory' = IF removed THEN directory \ {r} ELSE directory
    /\ kept' = IF removed THEN kept ELSE kept \cup {r}

\* The rest of cleanup: the directory, and finally the place.
CleanUp(r, removed) ==
    /\ req[r].pc = "cleaning"
    /\ RemoveDirectory(r, removed)
    /\ Release(r)
    /\ req' = [req EXCEPT ![r].pc = "over", ![r].released = TRUE]
    /\ UNCHANGED <<table, log, changes>>

\* Mutant: the catch block leaves the directory to the stream that never was.
CatchOnly(r, removed) ==
    /\ req[r].pc = "failed" /\ removed
    /\ Release(r)
    /\ req' = [req EXCEPT ![r].pc = "over", ![r].released = TRUE]
    /\ UNCHANGED <<table, directory, kept, faults, log, changes>>

\* Mutant: the catch block keeps the place.
CatchKeepsSlot(r, removed) ==
    /\ req[r].pc = "failed"
    /\ RemoveDirectory(r, removed)
    /\ req' = [req EXCEPT ![r].pc = "over"]
    /\ UNCHANGED <<activeExports, table, log, changes>>

\* The catch block of prepare.
Catch(r, removed) ==
    /\ req[r].pc = "failed"
    /\ RemoveDirectory(r, removed)
    /\ Release(r)
    /\ req' = [req EXCEPT ![r].pc = "over", ![r].released = TRUE]
    /\ UNCHANGED <<table, log, changes>>

\* A query, a write, the signature of the photo or the log entry fails.
Fails(r) ==
    /\ req[r].pc \in Working /\ faults < MaxFaults
    /\ faults' = faults + 1
    /\ req' = [req EXCEPT ![r].pc = "failed"]
    /\ UNCHANGED <<table, activeExports, directory, log, kept, changes>>

\* The process dies and another takes its place: its files stay behind.
Crash ==
    /\ faults < MaxFaults
    /\ faults' = faults + 1
    /\ activeExports' = 0
    /\ req' = [r \in Requests |-> IF req[r].pc \in Holding THEN [req[r] EXCEPT !.pc = "dead"] ELSE req[r]]
    /\ kept' = kept \cup directory
    /\ UNCHANGED <<table, directory, log, changes>>

\* Rows come and go in the meantime.
Change(s, k) ==
    /\ changes < MaxChanges
    /\ table' = [table EXCEPT ![s] = IF k \in @ THEN @ \ {k} ELSE @ \cup {k}]
    /\ changes' = changes + 1
    /\ UNCHANGED <<activeExports, req, directory, log, kept, faults>>

Step(r) ==
    \/ AcquireSlot(r) \/ MakeDirectory(r) \/ OpenFile(r) \/ BeginSnapshot(r)
    \/ WritePage(r) \/ CloseFile(r) \/ RecordSelfExport(r)
    \/ \E removed \in BOOLEAN : CleanUp(r, removed) \/ Catch(r, removed)

Next ==
    \/ \E r \in Requests : Step(r) \/ Fails(r) \/ \E event \in {"close", "error"} : StreamEvent(r, event)
    \/ Crash
    \/ \E s \in Sections, k \in Keys : Change(s, k)

Spec == Init /\ [][Next]_vars

-----------------------------------------------------------------------------
Streamed == {r \in Requests : req[r].pc \in {"streaming", "cleaning"} \/ r \in log}

\* A response is begun only with a complete document, which holds each row of
\* one instant of the database once, whatever changed between two pages, and
\* only once the export is in the access log.
ExportIsSnapshot ==
    \A r \in Streamed :
        /\ req[r].document = [s \in Sections |-> [k \in Keys |-> IF k \in req[r].snapshot[s] THEN 1 ELSE 0]]
        /\ req[r].contexts = <<>> /\ r \in log

\* A place is taken for as long as a request works, streams or cleans up, and
\* given back once, whichever of its ends it comes to.
SlotsAccounted == activeExports = Cardinality({r \in Requests : req[r].pc \in Holding})

\* A request that is over leaves no file with personal data behind, unless the
\* removal failed or the process died; a response always has its file.
NothingLeftBehind ==
    \A r \in Requests :
        /\ req[r].pc \in {"none", "refused", "over"} => r \notin directory \ kept
        /\ req[r].pc = "streaming" => r \in directory

\* Whatever step of an export fails: a response is one whole instant of the
\* database within the limit, its place is given back once and its file removed.
ExportConsistent == TypeOK /\ ExportIsSnapshot /\ SlotsAccounted /\ NothingLeftBehind

=============================================================================
