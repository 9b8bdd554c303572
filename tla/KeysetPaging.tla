---------------------------- MODULE KeysetPaging ----------------------------
(***************************************************************************)
(* Walks through the paginated collections while their rows change:        *)
(* decodeCursor and cursorPage, and the query of every list that uses      *)
(* them.                                                                   *)
(*                                                                         *)
(* A row is known by its id, which is ordered, and by the date the list is *)
(* sorted on, in ticks of a microsecond.  A walk asks for pages until the  *)
(* cursor it is given is null.  A row of MATCH_PAGE_CTE is found by one of *)
(* two branches, according to the column of match_init the account is in.  *)
(***************************************************************************)
EXTENDS Integers, FiniteSets

CONSTANTS
    Ids,          \* ids of rows, numbers for their order
    MaxTime,      \* the last date
    TicksPerMilli,\* microseconds of a millisecond
    Limit,        \* limit of the walk
    Offsets,      \* offsets a client gives with the first page
    MaxChanges    \* bound on changes of rows during the walk

VARIABLES
    list,    \* the list that is walked
    rows,    \* the date of each row the filters of the list let through
    walk,    \* a walk: not begun, between two pages, or at its end
    cursor,  \* next_cursor of the last page
    shown,   \* how often each row was on a page, 2 for more than once
    stable,  \* rows the walk owes: there since it began, after its offset, never moved (see Owed)
    changes

vars == <<list, rows, walk, cursor, shown, stable, changes>>

Times == 0..MaxTime
Gone == -1
NoCursor == [at |-> -1, id |-> -1]

\* The lists: the date a row is given (by the database, or by new Date() in the
\* service), the date the cursor keeps (text of to_char, or a Date of
\* JavaScript), whether the date of a row can change, whether an offset is
\* accepted, and whether the rows come from two branches.
ListOf(writes, keeps, moves, offset, branches) ==
    [writes |-> writes, keeps |-> keeps, moves |-> moves, offset |-> offset, branches |-> branches]

listUsers == ListOf("micro", "micro", FALSE, TRUE, 1)
listDetailedForUser == ListOf("micro", "micro", TRUE, TRUE, 2)
listForUser == ListOf("micro", "micro", TRUE, TRUE, 2)
messagesForUser == ListOf("micro", "micro", FALSE, TRUE, 1)
adminMessages == ListOf("micro", "micro", FALSE, TRUE, 1)
moderationList == ListOf("micro", "micro", TRUE, TRUE, 1)
listPhotoReconciliation == ListOf("micro", "micro", TRUE, TRUE, 1)
requestsForAdmin == ListOf("micro", "micro", FALSE, TRUE, 1)
accessLogs == ListOf("micro", "micro", FALSE, TRUE, 1)
listSessions == ListOf("micro", "micro", FALSE, FALSE, 1)
reportsList == ListOf("milli", "milli", FALSE, TRUE, 1)
deadLetters == ListOf("micro", "milli", TRUE, FALSE, 1)
reconciliationList == ListOf("micro", "milli", TRUE, FALSE, 1)
authEvents == ListOf("micro", "milli", FALSE, FALSE, 1)

Lists == {listUsers, listDetailedForUser, listForUser, messagesForUser, adminMessages, moderationList,
          listPhotoReconciliation, requestsForAdmin, accessLogs, listSessions, reportsList, deadLetters,
          reconciliationList, authEvents}

Millisecond(t) == t - (t % TicksPerMilli)

\* A date the code can give a row of the list.
Dates == IF list.writes = "micro" THEN Times ELSE {t \in Times : t = Millisecond(t)}

Visible == {i \in Ids : rows[i] # Gone}

\* (at, id) < (at of the cursor, id of the cursor); no cursor, no condition.
Beyond(i, c) == c = NoCursor \/ rows[i] < c.at \/ (rows[i] = c.at /\ i < c.id)

\* ORDER BY at DESC, id DESC.
Before(i, j) == rows[i] > rows[j] \/ (rows[i] = rows[j] /\ i > j)

\* How many of the rows S come before i.
Rank(S, i) == Cardinality({j \in S : Before(j, i)})

\* LIMIT n OFFSET offset, of the rows S in this order.
Slice(S, offset, n) == {i \in S : offset <= Rank(S, i) /\ Rank(S, i) < offset + n}

\* The row of S that no other comes after.
LastOf(S) == CHOOSE i \in S : \A j \in S : ~Before(i, j)

\* The column of match_init the account of the list is in.
Branch(i) == i % list.branches

\* Mutant: a branch stops at the rows of the page and forgets the offset.
PageShort(c, n, offset) ==
    LET found(b) == Slice({i \in Visible : Branch(i) = b /\ Beyond(i, c)}, 0, n)
    IN Slice(UNION {found(b) : b \in 0..(list.branches - 1)}, offset, n)

\* What the query returns: each branch ordered and cut at the rows the page can
\* take from it, then the branches together ordered and cut again.
Page(c, n, offset) ==
    LET found(b) == Slice({i \in Visible : Branch(i) = b /\ Beyond(i, c)}, 0, n + offset)
    IN Slice(UNION {found(b) : b \in 0..(list.branches - 1)}, offset, n)

\* encodeCursor: a Date loses what toISOString does not print.
EncodeCursor(i) == [at |-> IF list.keeps = "micro" THEN rows[i] ELSE Millisecond(rows[i]), id |-> i]

Items(found) == Slice(found, 0, Limit)

\* cursorPage: one row more than the page has been asked for.
NextCursor(found) == IF Cardinality(found) > Limit THEN EncodeCursor(LastOf(Items(found))) ELSE NoCursor

Count(found) == [i \in Ids |-> IF i \in Items(found) /\ shown[i] < 2 THEN shown[i] + 1 ELSE shown[i]]

\* A cursor that is coarser than the dates loses rows of one millisecond between
\* two pages: such a list owes the rows that have their millisecond to themselves.
Owed(s, dates) ==
    {i \in s : list.keeps = list.writes
               \/ \A j \in Ids \ {i} : dates[j] = Gone \/ Millisecond(dates[j]) # Millisecond(dates[i])}

\* Dates are those the service or the database gives, and a page has a cursor
\* when, and only when, there are rows after it.
TypeOK ==
    /\ list \in Lists
    /\ rows \in [Ids -> Dates \cup {Gone}]
    /\ walk \in {"new", "on", "over"}
    /\ cursor \in [at: Times, id: Ids] \cup {NoCursor}
    /\ shown \in [Ids -> 0..2] /\ stable \subseteq Visible
    /\ changes \in 0..MaxChanges
    /\ (walk = "on") <=> (cursor # NoCursor)

Init ==
    /\ list \in Lists
    /\ rows \in [Ids -> Dates \cup {Gone}]
    /\ walk = "new" /\ cursor = NoCursor
    /\ shown = [i \in Ids |-> 0] /\ stable = {} /\ changes = 0

\* The first page.  An offset is accepted without a cursor only.
FirstPage(offset) ==
    LET found == Page(NoCursor, Limit + 1, offset) IN
    /\ walk = "new" /\ (offset # 0 => list.offset)
    /\ stable' = Owed({i \in Visible : Rank(Visible, i) >= offset}, rows)
    /\ shown' = Count(found)
    /\ cursor' = NextCursor(found)
    /\ walk' = IF NextCursor(found) = NoCursor THEN "over" ELSE "on"
    /\ UNCHANGED <<list, rows, changes>>

\* Another page, with the cursor of the last one.
MorePage ==
    LET found == Page(cursor, Limit + 1, 0) IN
    /\ walk = "on"
    /\ shown' = Count(found)
    /\ cursor' = NextCursor(found)
    /\ walk' = IF NextCursor(found) = NoCursor THEN "over" ELSE "on"
    /\ UNCHANGED <<list, rows, stable, changes>>

\* Mutant: the date is always left to the database.
AppearsUndated(i, t) ==
    /\ walk = "on" /\ changes < MaxChanges /\ rows[i] = Gone
    /\ \E precise \in Times : Millisecond(precise) = Millisecond(t) /\ rows' = [rows EXCEPT ![i] = precise]
    /\ changes' = changes + 1
    /\ UNCHANGED <<list, walk, cursor, shown, stable>>

\* During the walk a row appears, with any date: one is dated before it is
\* committed, and a filter may start to let an old row through.
Appears(i, t) ==
    /\ walk = "on" /\ changes < MaxChanges /\ rows[i] = Gone
    /\ rows' = [rows EXCEPT ![i] = t]
    /\ stable' = Owed(stable, rows')
    /\ changes' = changes + 1
    /\ UNCHANGED <<list, walk, cursor, shown>>

\* A row is deleted, or leaves the list by a filter.
Disappears(i) ==
    /\ walk = "on" /\ changes < MaxChanges /\ rows[i] # Gone
    /\ rows' = [rows EXCEPT ![i] = Gone]
    /\ stable' = stable \ {i}
    /\ changes' = changes + 1
    /\ UNCHANGED <<list, walk, cursor, shown>>

\* A message, a review or another failure gives a row a new date; that of a
\* message went through a Date, and may be before the one it replaces.
Moves(i, t) ==
    /\ walk = "on" /\ changes < MaxChanges /\ list.moves
    /\ rows[i] # Gone /\ t # rows[i]
    /\ rows' = [rows EXCEPT ![i] = t]
    /\ stable' = Owed(stable \ {i}, rows')
    /\ changes' = changes + 1
    /\ UNCHANGED <<list, walk, cursor, shown>>

Next ==
    \/ \E offset \in Offsets : FirstPage(offset)
    \/ MorePage
    \/ \E i \in Ids, t \in Dates : Appears(i, t) \/ Moves(i, t)
    \/ \E i \in Ids : Disappears(i)

Spec == Init /\ [][Next]_vars

-----------------------------------------------------------------------------
\* A walk shows a row that stays where it is on one page at most, and when the
\* cursor is null it has shown it: nothing is lost between two pages, however
\* rows around it come, go and move and however many share a date, except rows
\* of one millisecond in a list whose cursor is a Date.
EachShownOnce ==
    \A i \in stable : shown[i] \in (IF walk = "over" THEN {1} ELSE {0, 1})

\* A walk shows each row that stays in place once, with a cursor that means more.
ListsConsistent == TypeOK /\ EachShownOnce

=============================================================================
