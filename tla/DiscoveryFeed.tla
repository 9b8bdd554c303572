---------------------------- MODULE DiscoveryFeed ----------------------------
(***************************************************************************)
(* A walk through the feed while candidates move, come and go and are      *)
(* swiped: feed of DiscoveryService, page of candidateBatch and            *)
(* swipedTargetIds.                                                        *)
(*                                                                         *)
(* One request reads candidates batch by batch, each by a query of its     *)
(* own, and takes out those already swiped by a second query.  The client  *)
(* asks again with next_cursor until it is null.  A candidate is known by  *)
(* its id, which is ordered, and by its distance; who is eligible at all   *)
(* is SwipeMatch's.                                                        *)
(***************************************************************************)
EXTENDS Integers, FiniteSets

CONSTANTS
    Candidates,   \* ids of candidates, numbers for their order
    MaxDistance,  \* the longest distance
    Limit,        \* limit of the request
    BatchSize,    \* batchSize, Math.max(50, (limit + 1) * 4)
    MaxBatches,   \* MAX_FEED_BATCHES
    MaxChanges,   \* bound on changes during the walk
    MaxFaults     \* bound on requests that fail

VARIABLES
    distance,   \* distance of each eligible candidate
    swiped,     \* candidates with a decision of the viewer
    walk,       \* the walk: "new", "on" between requests, "over"
    cursor,     \* next_cursor of the last page
    request,    \* the request under way
    shown,      \* how often each candidate was on a page, 2 for more than once
    stable,     \* candidates the walk owes: there since it began, never moved, never swiped
    changes, faults

vars == <<distance, swiped, walk, cursor, request, shown, stable, changes, faults>>

Distances == 0..MaxDistance
Out == -1
NoCursor == [distance_km |-> -1, id |-> -1]
CursorTo(c) == [distance_km |-> distance[c], id |-> c]

\* A row read: the candidate and the distance it had then.
Rows == [distance_km: Distances, id: Candidates]

NoRequest == [pc |-> "none", cursor |-> NoCursor, visible |-> {}, found |-> {}, batch |-> 0, exhausted |-> FALSE]
NewRequest == [NoRequest EXCEPT !.pc = "batch", !.cursor = cursor]

Eligible == {c \in Candidates : distance[c] # Out}

\* ORDER BY distance_km, user_id: a row before another, the first n of the rows S,
\* and the last of them.
Nearer(r, s) == r.distance_km < s.distance_km \/ (r.distance_km = s.distance_km /\ r.id < s.id)
Rank(S, r) == Cardinality({s \in S : Nearer(s, r)})
Take(S, n) == {r \in S : Rank(S, r) < n}
LastOf(S) == CHOOSE r \in S : \A s \in S : ~Nearer(r, s)

\* A request holds no more than the last batch beyond its page.
TypeOK ==
    /\ distance \in [Candidates -> Distances \cup {Out}]
    /\ swiped \subseteq Candidates
    /\ walk \in {"new", "on", "over"}
    /\ cursor \in Rows \cup {NoCursor}
    /\ request.pc \in {"none", "batch", "filter"}
    /\ request.cursor \in Rows \cup {NoCursor}
    /\ request.visible \subseteq Rows /\ Cardinality(request.visible) <= Limit + BatchSize
    /\ request.found \subseteq Rows /\ Cardinality(request.found) <= BatchSize
    /\ request.batch \in 0..MaxBatches /\ request.exhausted \in BOOLEAN
    /\ shown \in [Candidates -> 0..2] /\ stable \subseteq Eligible \ swiped
    /\ changes \in 0..MaxChanges /\ faults \in 0..MaxFaults

Init ==
    /\ distance \in [Candidates -> Distances \cup {Out}]
    /\ swiped \in SUBSET Candidates
    /\ walk = "new" /\ cursor = NoCursor /\ request = NoRequest
    /\ shown = [c \in Candidates |-> 0] /\ stable = {}
    /\ changes = 0 /\ faults = 0

\* feed(): requireReady, then the cursor of the client.
Ask ==
    /\ request.pc = "none" /\ walk # "over"
    /\ request' = NewRequest
    /\ walk' = "on"
    /\ stable' = IF walk = "new" THEN Eligible \ swiped ELSE stable
    /\ UNCHANGED <<distance, swiped, cursor, shown, changes, faults>>

\* Mutant: the loop does not stop when the page is full.
ReadsOn == ~request.exhausted /\ request.batch < MaxBatches

\* for (batch < MAX_FEED_BATCHES && visible.length < limit + 1).
Reads == ~request.exhausted /\ request.batch < MaxBatches /\ Cardinality(request.visible) < Limit + 1

\* (distance_km, user_id) > cursor; no cursor, no condition.
Beyond(r, c) == c = NoCursor \/ Nearer(c, r)

\* candidateBatch: ORDER BY distance_km, user_id LIMIT batchSize.
Batch == Take({r \in {CursorTo(c) : c \in Eligible} : Beyond(r, request.cursor)}, BatchSize)

CandidateBatch ==
    /\ request.pc = "batch" /\ Reads
    /\ request' = IF Batch = {} THEN [request EXCEPT !.exhausted = TRUE]
                  ELSE [request EXCEPT !.pc = "filter", !.found = Batch]
    /\ UNCHANGED <<distance, swiped, walk, cursor, shown, stable, changes, faults>>

\* The rows read whose candidates have no decision.
Left == {row \in request.found : row.id \notin swiped}

\* Mutant: a batch with no candidate left to show is taken for the last one.
SwipedTargetIdsStops ==
    /\ request.pc = "filter"
    /\ request' = [request EXCEPT !.pc = "batch", !.found = {}, !.batch = @ + 1,
                     !.visible = @ \cup Left,
                     !.cursor = LastOf(request.found),
                     !.exhausted = Left = {} \/ Cardinality(request.found) < BatchSize]
    /\ UNCHANGED <<distance, swiped, walk, cursor, shown, stable, changes, faults>>

\* swipedTargetIds, the candidates without a decision, and the cursor of the loop.
SwipedTargetIds ==
    /\ request.pc = "filter"
    /\ request' = [request EXCEPT !.pc = "batch", !.found = {}, !.batch = @ + 1,
                     !.visible = @ \cup Left,
                     !.cursor = LastOf(request.found),
                     !.exhausted = Cardinality(request.found) < BatchSize]
    /\ UNCHANGED <<distance, swiped, walk, cursor, shown, stable, changes, faults>>

HasMore == Cardinality(request.visible) > Limit \/ ~request.exhausted

\* Mutant: after a page that shows nothing the client gets its own cursor back.
NextCursorOfPage ==
    IF ~HasMore THEN NoCursor
    ELSE IF request.visible # {} THEN LastOf(Take(request.visible, Limit))
    ELSE IF cursor # NoCursor THEN cursor ELSE request.cursor

\* nextCursor: the last profile of the page when more were read than it takes,
\* the end of what was read when the loop gave up.
NextCursor ==
    IF ~HasMore THEN NoCursor
    ELSE IF Cardinality(request.visible) > Limit THEN LastOf(Take(request.visible, Limit))
    ELSE request.cursor

Reply ==
    LET page == {row.id : row \in Take(request.visible, Limit)} IN
    /\ request.pc = "batch" /\ ~Reads
    /\ shown' = [c \in Candidates |-> IF c \in page /\ shown[c] < 2 THEN shown[c] + 1 ELSE shown[c]]
    /\ cursor' = NextCursor
    /\ walk' = IF NextCursor = NoCursor THEN "over" ELSE "on"
    /\ request' = NoRequest
    /\ UNCHANGED <<distance, swiped, stable, changes, faults>>

\* throwDiscoveryUnavailable, or a viewer who is not ready: the client asks
\* again with the cursor it has.
Fails ==
    /\ request.pc # "none" /\ faults < MaxFaults
    /\ request' = NoRequest
    /\ faults' = faults + 1
    /\ UNCHANGED <<distance, swiped, walk, cursor, shown, stable, changes>>

\* A candidate moves, becomes eligible, or stops being so (a block, a match, a
\* withdrawn consent, a position that is too old).
Moves(c, d) ==
    /\ walk = "on" /\ changes < MaxChanges /\ d # distance[c]
    /\ distance' = [distance EXCEPT ![c] = d]
    /\ stable' = stable \ {c}
    /\ changes' = changes + 1
    /\ UNCHANGED <<swiped, walk, cursor, request, shown, faults>>

\* The viewer decides on a candidate, of this page or from another device.
Swipe(c) ==
    /\ walk = "on" /\ changes < MaxChanges /\ c \notin swiped
    /\ swiped' = swiped \cup {c}
    /\ stable' = stable \ {c}
    /\ changes' = changes + 1
    /\ UNCHANGED <<distance, walk, cursor, request, shown, faults>>

\* A decision reaches the end of its retention.
SwipeExpires(c) ==
    /\ walk = "on" /\ changes < MaxChanges /\ c \in swiped
    /\ swiped' = swiped \ {c}
    /\ changes' = changes + 1
    /\ UNCHANGED <<distance, walk, cursor, request, shown, stable, faults>>

Next ==
    \/ Ask \/ CandidateBatch \/ SwipedTargetIds \/ Reply \/ Fails
    \/ \E c \in Candidates : Swipe(c) \/ SwipeExpires(c)
    \/ \E c \in Candidates, d \in Distances \cup {Out} : Moves(c, d)

Spec == Init /\ [][Next]_vars

-----------------------------------------------------------------------------
\* A candidate that stays where it is and is not swiped is shown once by a walk
\* that ends, and never twice, whatever is filtered out of the batches around
\* it and however many requests give up after MAX_FEED_BATCHES.
EachProfileOnce ==
    \A c \in stable : shown[c] \in (IF walk = "over" THEN {1} ELSE {0, 1})

\* The walk comes to an end, pages that show nothing included.
WalkEnds == <>(walk = "over")

\* A walk shows each profile that stays in place once, and a request reads no
\* further than the batch that fills its page.
FeedConsistent == TypeOK /\ EachProfileOnce

=============================================================================
