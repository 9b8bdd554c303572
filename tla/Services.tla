------------------------------ MODULE Services ------------------------------
(***************************************************************************)
(* What works beside the matches: the pushes of notifications              *)
(* (NotificationPush), the retention maintenance (RetentionMaintenance),   *)
(* the consents that stored data rests on, with the sweep of positions     *)
(* (ProfileConsents), the feed of candidates (DiscoveryFeed), and the      *)
(* download of the data of an account (DataExport).  Their constants and   *)
(* variables have names of their own here.                                 *)
(***************************************************************************)

CONSTANTS
    Recipients, Phones, Logins, LoginOf, Subjects, Addressee,      \* NotificationPush
    MaxTries, MaxLosses, MaxDeviceChanges,
    Procs, TokenRows, FamilyRows, DatedRows, FamilyOf,             \* RetentionMaintenance
    RowsPerBatch, MaxBatches, MaxPassFaults, NoLeader,
    Writes, Processes, Versions, MaxEvents,                        \* ProfileConsents
    Candidates, MaxDistance, PageLimit, FeedBatchSize, FeedBatches, \* DiscoveryFeed
    MaxFeedChanges, MaxFeedFaults,
    Exports, Collections, RowKeys, ExportPageSize, MaxExportBytes,  \* DataExport
    MaxExports, MaxExportChanges, MaxExportFaults

VARIABLES
    recipient, session, registered, note, job, sent, mootOnce, doubts, deviceChanges, pushFaults,
    stored, expired, older, leader, pass, jobStatus, passFaults,
    owner, config, consent, sex, prefs, presence, write, sweep,
    distance, swiped, feedWalk, feedCursor, feedRequest, feedShown, feedStable, feedChanges, feedFaults,
    exportTable, activeExports, export, directory, exportLog, keptFiles, exportChanges, exportFaults

pushVars == <<recipient, session, registered, note, job, sent, mootOnce, doubts, deviceChanges, pushFaults>>
retentionVars == <<stored, expired, older, leader, pass, jobStatus, passFaults>>
consentVars == <<owner, config, consent, sex, prefs, presence, write, sweep>>
feedVars == <<distance, swiped, feedWalk, feedCursor, feedRequest, feedShown, feedStable, feedChanges, feedFaults>>
exportVars == <<exportTable, activeExports, export, directory, exportLog, keptFiles, exportChanges, exportFaults>>

\* A token of FCM is registered for a session of an account.
Push == INSTANCE NotificationPush WITH
    Users <- Recipients, Tokens <- Phones, Sessions <- Logins, SessionUser <- LoginOf, Sources <- Subjects,
    MaxAttempts <- MaxTries, MaxFaults <- MaxLosses, MaxChanges <- MaxDeviceChanges,
    account <- recipient, device <- registered, changes <- deviceChanges, faults <- pushFaults

\* The tables of refresh tokens, of their families, and one that stands alone.
Retention == INSTANCE RetentionMaintenance WITH
    Tokens <- TokenRows, Families <- FamilyRows, Others <- DatedRows, BatchSize <- RowsPerBatch,
    MaxFaults <- MaxPassFaults, None <- NoLeader, rows <- stored, job <- jobStatus, faults <- passFaults

\* The choices of one account, written by requests on several processes.
Consents == INSTANCE ProfileConsents WITH
    Requests <- Writes, account <- owner, log <- consent, req <- write

\* A walk of one viewer through the feed.
Feed == INSTANCE DiscoveryFeed WITH
    Limit <- PageLimit, BatchSize <- FeedBatchSize, MaxBatches <- FeedBatches,
    MaxChanges <- MaxFeedChanges, MaxFaults <- MaxFeedFaults,
    walk <- feedWalk, cursor <- feedCursor, request <- feedRequest, shown <- feedShown, stable <- feedStable,
    changes <- feedChanges, faults <- feedFaults

\* The exports one process prepares.
Export == INSTANCE DataExport WITH
    Requests <- Exports, Keys <- RowKeys, PageSize <- ExportPageSize, MaxBytes <- MaxExportBytes,
    MaxConcurrency <- MaxExports, MaxChanges <- MaxExportChanges, MaxFaults <- MaxExportFaults,
    table <- exportTable, req <- export, log <- exportLog, kept <- keptFiles,
    changes <- exportChanges, faults <- exportFaults

\* NotificationPush: a job is acknowledged when it was sent or was not due, and
\* a second push of it follows an answer that was lost.
PushConsistent == Push!PushConsistent

\* RetentionMaintenance: a family is deleted after its tokens, and a pass that
\* reports nothing left has left nothing.
RetentionConsistent == Retention!RetentionConsistent

\* ProfileConsents: data rests on a consent, and what is shown is enforced.
ConsentsConsistent == Consents!ConsentsConsistent

\* DiscoveryFeed: a walk shows each profile that stays in place once.
FeedConsistent == Feed!FeedConsistent

\* DataExport: a response holds one instant of the database, and a request that
\* is over has given back its place and its file.
ExportConsistent == Export!ExportConsistent

=============================================================================
