----------------------------- MODULE MCServices -----------------------------
(***************************************************************************)
(* Small instances of Services (NotificationPush, RetentionMaintenance,    *)
(* ProfileConsents, DiscoveryFeed and DataExport) and, for its liveness,   *)
(* of MatchLifecycle for TLC.  part says which one runs; the variables of  *)
(* the others keep one initial value.  services.cfg checks what is never   *)
(* wrong, services_live.cfg on smaller instances what happens in the end.  *)
(* Candidates are at two distances, pages of the feed have one profile and *)
(* batches two: pages that show nothing, and requests that give up.  Two   *)
(* exports have pages of one row, and room for most documents, not all.    *)
(***************************************************************************)
EXTENDS Services, Integers, Sequences, TLC

CONSTANTS
    Parts,                   \* the parts of the run
    u1, u2, a1, a2, b1, m1, r1, r2, p1, p2, t2, f1, None

VARIABLES
    part,
    match, message, reported, used, limit, closed, command, matchPass, spent, told

matchVars == <<match, message, reported, used, limit, closed, command, matchPass, spent, told>>
allVars == <<part, feedVars, pushVars, exportVars, retentionVars, consentVars, matchVars>>

\* One notification; the addressee has two sessions, another account one.
TwoAndOne == a1 :> u1 @@ a2 :> u1 @@ b1 :> u2
ToFirst == [s \in Subjects |-> u1]

\* All tokens of one family.
OneFamily == [t \in TokenRows |-> f1]

\* One match that runs out, or is confirmed.
Life == INSTANCE MatchLifecycle WITH
    Users <- {u1, u2}, Matches <- {m1}, Pair <- m1 :> {u1, u2}, Requests <- {r1}, Ops <- {"continue"}, Keys <- {},
    Contents <- {}, Leavers <- {u1}, Reportable <- {m1}, Limits <- {0, 1}, Unlimited <- None, Nobody <- None,
    Window <- 1, PurgeDelay <- 1, BatchSize <- 1, MaxAge <- 1, row <- match, req <- command, pass <- matchPass

InFeed(A) == part = "feed" /\ A /\ UNCHANGED <<part, pushVars, exportVars, retentionVars, consentVars, matchVars>>
InPush(A) == part = "push" /\ A /\ UNCHANGED <<part, feedVars, exportVars, retentionVars, consentVars, matchVars>>
InExport(A) == part = "export" /\ A /\ UNCHANGED <<part, feedVars, pushVars, retentionVars, consentVars, matchVars>>
\* Of the second token and another row one is stored at a time.
InRetention(A) ==
    /\ part = "retention" /\ A /\ ~({t2} \cup DatedRows \subseteq stored' /\ DatedRows # {})
    /\ UNCHANGED <<part, feedVars, pushVars, exportVars, consentVars, matchVars>>
\* A new version of the documents is rolled out, one process has it already; the
\* onboarding consents are given once.
InConsents(A) ==
    /\ part = "consents" /\ A /\ \A p \in Processes \ {p1} : config'[p] = 2
    /\ Len(consent'["onboarding"]) <= 1
    /\ UNCHANGED <<part, feedVars, pushVars, exportVars, retentionVars, matchVars>>
InLife(A) == part = "match" /\ A /\ UNCHANGED <<part, feedVars, pushVars, exportVars, retentionVars, consentVars>>

MCInit ==
    /\ part \in Parts
    /\ Feed!Init /\ (part # "feed" => swiped = {} /\ distance = [c \in Candidates |-> Feed!Out])
    /\ Push!Init /\ (part # "push" => registered = [t \in Phones |-> Push!NoSession])
    /\ Export!Init /\ (part # "export" => exportTable = [s \in 1..Collections |-> {}])
    /\ Retention!Init /\ stored = {}
    /\ Consents!Init /\ config = [p \in Processes |-> IF p = p1 THEN 1 ELSE 2]
    /\ Life!Init /\ (match[m1].status = "active" <=> part = "match") /\ limit = [u \in {u1, u2} |-> 1]

MCNext ==
    \/ InFeed(Feed!Next) \/ InPush(Push!Next) \/ InExport(Export!Next)
    \/ InRetention(Retention!Next) \/ InConsents(Consents!Next) \/ InLife(Life!Next)

MCSpec == MCInit /\ [][MCNext]_allVars

\* A client asks until next_cursor is null.  The maintenance of each process is
\* started again, and its statements answer or throw.  The age of a position
\* grows, and the daily maintenance sweeps it.  A command ends, time passes, and
\* every now and then a pass over the matches gets through.
MCFairSpec ==
    /\ MCSpec
    /\ WF_allVars(InFeed(Feed!Ask \/ Feed!CandidateBatch \/ Feed!SwipedTargetIds \/ Feed!Reply))
    /\ \A p \in {p1, p2} : WF_allVars(InRetention(Retention!Pass(p)))
    /\ WF_allVars(InConsents(Consents!Tick \/ Consents!SweepWrites \/ (Consents!SweepReads /\ sweep' = "expired")))
    /\ WF_allVars(InLife(Life!Command(r1))) /\ WF_allVars(InLife(Life!Tick))
    /\ WF_allVars(InLife(Life!PassBegins)) /\ SF_allVars(InLife(Life!Batch))

\* DiscoveryFeed: a walk comes to an end.
WalkEnds == part = "feed" ~> feedWalk = "over"

\* RetentionMaintenance: an expired row does not stay.
NothingExpiredStays == Retention!NothingExpiredStays

\* ProfileConsents: a position that is not renewed is removed in the end.
PositionForgotten == Consents!PositionForgotten

\* MatchLifecycle: every match is confirmed, or runs out and is removed.
MatchSettles == Life!MatchSettles

=============================================================================
