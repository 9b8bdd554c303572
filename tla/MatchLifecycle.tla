--------------------------- MODULE MatchLifecycle ---------------------------
(***************************************************************************)
(* The life of a match: its two windows, the reveals, the two consents and *)
(* the weekly quota they are charged to, its messages, and the maintenance *)
(* that opens, expires and purges matches.                                 *)
(*                                                                         *)
(* Every command locks the row of its match and reads the clock once it    *)
(* has the lock.  Dates are kept as the ticks that are left until them, so *)
(* time has no bound; a transaction or a pass that holds a date of its own *)
(* keeps its age, and does not outlast MaxAge ticks.  A match is created   *)
(* by SwipeMatch: here a match is new at the start, or is not there.       *)
(***************************************************************************)
EXTENDS Integers, FiniteSets, Sequences

CONSTANTS
    Users, Matches,
    Pair,        \* the two participants of a match
    Requests,    \* commands under way at once
    Ops,         \* the commands an instance asks for
    Keys,        \* idempotency keys of a sender
    Contents,    \* texts of messages
    Leavers,     \* accounts that may ask for their erasure
    Reportable,  \* matches that may be reported
    Limits,      \* weekly_continuation_limit of the plans, Unlimited for null
    Unlimited,
    Nobody,
    Window,      \* MATCH_WINDOW_MS and the second window of 24 hours, in ticks
    PurgeDelay,  \* MATCH_PURGE_MS and the retention of ended matches
    BatchSize,   \* matchMaintenanceBatchSize
    MaxAge       \* bound on the ticks of a lock wait or a maintenance pass

ASSUME MatchAssumption ==
    /\ Pair \in [Matches -> SUBSET Users] /\ \A m \in Matches : Cardinality(Pair[m]) = 2
    /\ Ops \subseteq {"reveal", "continue", "send", "read"} /\ Limits \subseteq Nat \cup {Unlimited}
    /\ Leavers \subseteq Users /\ Reportable \subseteq Matches /\ Unlimited \notin Nat /\ Nobody \notin Users
    /\ Window \in Nat \ {0} /\ PurgeDelay \in Nat \ {0} /\ BatchSize \in Nat \ {0}
    /\ MaxAge \in Nat /\ IsFiniteSet(Users) /\ IsFiniteSet(Matches) /\ IsFiniteSet(Keys)

VARIABLES
    row,      \* match_init and its match_state rows
    message,  \* chat_message of a match, in the order of created_at
    reported, \* matches a user_report refers to
    used,     \* continuation_usage of this week
    limit,    \* the limit of the effective plan of an account
    closed,   \* accounts with deleted_at
    req,      \* the commands
    pass,     \* the maintenance pass and the age of its date
    spent,    \* history: matches confirmed this week at the expense of an account's quota
    told      \* history: matches one of whose reveals was answered with true

vars == <<row, message, reported, used, limit, closed, req, pass, spent, told>>

Live == {"active", "awaiting_continuation", "confirmed"}
NoRow == [status |-> "none", left |-> 0, purge |-> 0, initiator |-> Nobody, continued |-> {}, revealed |-> {}]
Idle == [pc |-> "idle", op |-> "none", user |-> Nobody, match |-> Nobody, arg |-> Nobody,
         content |-> Nobody, age |-> 0, limit |-> 0]
NoPass == [on |-> FALSE, age |-> 0]

\* A match has at most the messages of two senders with a key each.
MaxMessages == 2 * Cardinality(Keys)

\* The messages of the matches of a set, each by its match and its place, and
\* those of a sender with a key.
Stored(c) == {p \in c \X (1..MaxMessages) : p[2] <= Len(message[p[1]])}
Sent(u, k) == {p \in Stored(Matches) : message[p[1]][p[2]].sender = u /\ message[p[1]][p[2]].key = k}

\* The unique index of chat_message: one message of a sender with a key.
TypeOK ==
    /\ row \in [Matches -> [status: Live \cup {"expired", "ended", "none"}, left: -MaxAge..Window,
                            purge: -MaxAge..PurgeDelay, initiator: Users \cup {Nobody},
                            continued: SUBSET Users, revealed: SUBSET Users]]
    /\ \A m \in Matches : message[m] \in Seq([sender: Users, key: Keys, content: Contents, read: BOOLEAN])
                          /\ Len(message[m]) <= MaxMessages
    /\ reported \subseteq Matches /\ used \in [Users -> 0..Cardinality(Matches)]
    /\ limit \in [Users -> Limits] /\ closed \subseteq Users
    /\ \A r \in Requests : req[r].pc \in {"idle", "waiting", "counting"} /\ req[r].age \in 0..MaxAge
    /\ pass \in [on: BOOLEAN, age: 0..MaxAge]
    /\ spent \in [Users -> SUBSET Matches] /\ told \subseteq Matches
    /\ \A u \in Users, k \in Keys : Cardinality(Sent(u, k)) <= 1

Init ==
    /\ row \in [Matches -> {NoRow, [NoRow EXCEPT !.status = "active", !.left = Window]}]
    /\ message = [m \in Matches |-> <<>>] /\ reported = {} /\ used = [u \in Users |-> 0]
    /\ limit \in [Users -> Limits] /\ closed = {} /\ req = [r \in Requests |-> Idle] /\ pass = NoPass
    /\ spent = [u \in Users |-> {}] /\ told = {}

\* The dates that are not read any more are set to 0.
Expire(x, now) == [x EXCEPT !.status = "expired", !.left = 0, !.purge = PurgeDelay - now]
Open(x, now) == [x EXCEPT !.status = "awaiting_continuation", !.left = Window - now]
End(x) == IF x.status \in Live THEN [x EXCEPT !.status = "ended", !.left = 0, !.purge = PurgeDelay] ELSE x

\* The first statements of every command: a window that is over is turned, by a
\* clock that is "now" ticks behind.
Turned(x, now) ==
    CASE x.status = "active" /\ x.left + now <= 0 -> Open(x, now)
      [] x.status = "awaiting_continuation" /\ x.left + now <= 0 -> Expire(x, now)
      [] OTHER -> x

Closed(m) == Pair[m] \cap closed # {}
Free(m) == \A r \in Requests : req[r].pc = "counting" => req[r].match # m
Done(r) == req' = [req EXCEPT ![r] = Idle]

-----------------------------------------------------------------------------
(* The commands.                                                           *)

\* A command reaches its lock.  A message that is stored under its key is
\* answered before, whatever the match has become.
Ask(r, op, u, m, arg, content) ==
    /\ req[r].pc = "idle" /\ op \in Ops /\ u \in Pair[m] /\ row[m].status # "none"
    /\ op # "continue" => ~Closed(m)
    /\ op = "send" => Sent(u, arg) = {}
    /\ req' = [req EXCEPT ![r] = [Idle EXCEPT !.pc = "waiting", !.op = op, !.user = u, !.match = m,
                                              !.arg = arg, !.content = content]]
    /\ UNCHANGED <<row, message, reported, used, limit, closed, pass, spent, told>>

\* lockMessagingMatch answers not_found, expired or invalid_state.  What it turned
\* is committed.
Refuse(r) ==
    LET m == req[r].match
        x == Turned(row[m], 0)
    IN
    /\ req[r].pc = "waiting" /\ req[r].op # "continue" /\ Free(m) /\ x.status \notin Live
    /\ row' = [row EXCEPT ![m] = x] /\ Done(r)
    /\ UNCHANGED <<message, reported, used, limit, closed, pass, spent, told>>

Granted(r, op) ==
    /\ req[r].pc = "waiting" /\ req[r].op = op /\ Free(req[r].match)
    /\ Turned(row[req[r].match], 0).status \in Live

\* The write meets an account that was closed during the wait: the trigger
\* fct_require_live_match fails it, and nothing of the transaction stays.
RollBack(r) ==
    /\ req[r].op \in {"reveal", "send"} /\ Granted(r, req[r].op) /\ Closed(req[r].match) /\ Done(r)
    /\ UNCHANGED <<row, message, reported, used, limit, closed, pass, spent, told>>

\* Mutant: the answer counts the states as the statement found them.
RecordRevealOwnUnseen(r) ==
    LET m == req[r].match
        x == Turned(row[m], 0)
    IN
    /\ Granted(r, "reveal") /\ ~Closed(m)
    /\ row' = [row EXCEPT ![m] = [x EXCEPT !.revealed = @ \cup {req[r].user}]]
    /\ told' = IF Pair[m] = x.revealed THEN told \cup {m} ELSE told
    /\ Done(r) /\ UNCHANGED <<message, reported, used, limit, closed, pass, spent>>

\* recordReveal.  The count reads the states before the update of its own
\* statement, and takes the caller's as revealed.
RecordReveal(r) ==
    LET m == req[r].match
        x == Turned(row[m], 0)
    IN
    /\ Granted(r, "reveal") /\ ~Closed(m)
    /\ row' = [row EXCEPT ![m] = [x EXCEPT !.revealed = @ \cup {req[r].user}]]
    /\ told' = IF Pair[m] \subseteq x.revealed \cup {req[r].user} THEN told \cup {m} ELSE told
    /\ Done(r) /\ UNCHANGED <<message, reported, used, limit, closed, pass, spent>>

\* Mutant: the match was looked at before the wait, and is not any more.
CreateMessageUnlocked(r) ==
    LET m == req[r].match IN
    /\ req[r].pc = "waiting" /\ req[r].op = "send" /\ ~Closed(m) /\ row[m].status # "none"
    /\ Sent(req[r].user, req[r].arg) = {}
    /\ message' = [message EXCEPT ![m] = Append(@, [sender |-> req[r].user, key |-> req[r].arg,
                                                    content |-> req[r].content, read |-> FALSE])]
    /\ Done(r) /\ UNCHANGED <<row, reported, used, limit, closed, pass, spent, told>>

\* Mutant: INSERT without ON CONFLICT, and no unique index.
CreateMessageTwice(r) ==
    LET m == req[r].match IN
    /\ Granted(r, "send") /\ ~Closed(m)
    /\ row' = [row EXCEPT ![m] = Turned(@, 0)]
    /\ message' = [message EXCEPT ![m] = Append(@, [sender |-> req[r].user, key |-> req[r].arg,
                                                    content |-> req[r].content, read |-> FALSE])]
    /\ Done(r) /\ UNCHANGED <<reported, used, limit, closed, pass, spent, told>>

\* createMessage: the message is inserted, with its notification, unless its key
\* was used during the wait.
CreateMessage(r) ==
    LET m == req[r].match
        new == Sent(req[r].user, req[r].arg) = {}
    IN
    /\ Granted(r, "send") /\ ~Closed(m)
    /\ row' = [row EXCEPT ![m] = Turned(@, 0)]
    /\ message' = IF new THEN [message EXCEPT ![m] = Append(@, [sender |-> req[r].user, key |-> req[r].arg,
                                                                content |-> req[r].content, read |-> FALSE])]
                  ELSE message
    /\ Done(r) /\ UNCHANGED <<reported, used, limit, closed, pass, spent, told>>

\* markMessagesReadThrough up to the message with index arg, and markMessageRead.
MarkRead(r) ==
    LET m == req[r].match
        reads(i) == message[m][i].sender # req[r].user
                    /\ (i = req[r].arg \/ (req[r].content # Nobody /\ i < req[r].arg))
        known == req[r].arg <= Len(message[m])
    IN
    /\ Granted(r, "read")
    /\ row' = [row EXCEPT ![m] = Turned(@, 0)]
    /\ message' = IF known THEN [message EXCEPT ![m] = [i \in 1..Len(@) |->
                                   IF reads(i) THEN [@[i] EXCEPT !.read = TRUE] ELSE @[i]]]
                  ELSE message
    /\ Done(r) /\ UNCHANGED <<reported, used, limit, closed, pass, spent, told>>

Consent(x, u) == [x EXCEPT !.continued = @ \cup {u}, !.initiator = IF @ = Nobody THEN u ELSE @]

\* recordContinuationConsent up to the quota, with a clock "now" ticks behind: not
\* available yet, not available any more, already recorded, the first consent, or
\* the second one, whose transaction keeps the lock.
ContinueAt(r, now) ==
    LET m == req[r].match
        u == req[r].user
        x == IF row[m].status = "active" /\ row[m].left + now > 0 THEN row[m] ELSE Turned(row[m], now)
        records == x.status = "awaiting_continuation" /\ u \notin x.continued
        second == records /\ x.initiator # Nobody
    IN
    /\ req[r].pc = "waiting" /\ req[r].op = "continue" /\ Free(m)
    /\ row' = [row EXCEPT ![m] = IF records /\ ~second
                                 THEN IF Closed(m) THEN @ ELSE Consent(x, u)
                                 ELSE x]
    /\ req' = [req EXCEPT ![r] = IF second THEN [@ EXCEPT !.pc = "counting", !.age = 0, !.limit = limit[x.initiator]]
                                 ELSE Idle]
    /\ UNCHANGED <<message, reported, used, limit, closed, pass, spent, told>>

\* Mutant: the clock is read when the command is sent.
ContinueAsked(r) == ContinueAt(r, req[r].age)

\* Mutant: the initiator may consent a second time.
ContinueAgain(r) ==
    LET m == req[r].match
        x == Turned(row[m], 0)
    IN
    IF req[r].pc = "waiting" /\ req[r].op = "continue" /\ Free(m)
       /\ x.status = "awaiting_continuation" /\ req[r].user = x.initiator
    THEN /\ row' = [row EXCEPT ![m] = x]
         /\ req' = [req EXCEPT ![r] = [@ EXCEPT !.pc = "counting", !.age = 0, !.limit = limit[x.initiator]]]
         /\ UNCHANGED <<message, reported, used, limit, closed, pass, spent, told>>
    ELSE ContinueAt(r, 0)

Continue(r) == ContinueAt(r, 0)

\* Mutant: a first row of the week is inserted whatever the limit is.
QuotaReachedFirstFree(r, i) == req[r].limit # Unlimited /\ used[i] > 0 /\ used[i] >= req[r].limit

\* The upsert of continuation_usage finds no row below the limit.
QuotaReached(r, i) == req[r].limit # Unlimited /\ used[i] >= req[r].limit

\* The second consent is charged to the initiator and confirms the match.
Confirm(r) ==
    LET m == req[r].match
        i == row[m].initiator
        x == Consent(row[m], req[r].user)
        confirms == x.left + req[r].age > 0 /\ x.continued = Pair[m]
        charged == req[r].limit # Unlimited
    IN
    /\ req[r].pc = "counting" /\ Done(r)
    /\ IF QuotaReached(r, i) \/ Closed(m) THEN UNCHANGED <<row, used, spent>>
       ELSE /\ row' = [row EXCEPT ![m] = IF confirms THEN [x EXCEPT !.status = "confirmed", !.left = 0] ELSE x]
            /\ used' = IF charged THEN [used EXCEPT ![i] = @ + 1] ELSE used
            /\ spent' = IF charged /\ confirms THEN [spent EXCEPT ![i] = @ \cup {m}] ELSE spent
    /\ UNCHANGED <<message, reported, limit, closed, pass, told>>

Command(r) == Refuse(r) \/ RollBack(r) \/ RecordReveal(r) \/ CreateMessage(r) \/ MarkRead(r) \/ Continue(r) \/ Confirm(r)

-----------------------------------------------------------------------------
(* What others do to a match.                                              *)

Report(m) ==
    /\ row[m].status # "none" /\ m \in Reportable \ reported /\ reported' = reported \cup {m}
    /\ UNCHANGED <<row, message, used, limit, closed, req, pass, spent, told>>

\* One of the two blocks the other.
Block(m) ==
    /\ row[m].status \in Live /\ Free(m) /\ row' = [row EXCEPT ![m] = End(@)]
    /\ UNCHANGED <<message, reported, used, limit, closed, req, pass, spent, told>>

\* The erasure of an account is accepted, and much later its data is redacted.
CloseAccount(u) ==
    /\ u \in Leavers \ closed /\ closed' = closed \cup {u}
    /\ UNCHANGED <<row, message, reported, used, limit, req, pass, spent, told>>

Anonymize(u) ==
    /\ u \in closed /\ \A m \in Matches : u \in Pair[m] => Free(m)
    /\ \E m \in Matches : u \in Pair[m] /\ (row[m].status \in Live \/ u \in row[m].continued \cup row[m].revealed)
    /\ row' = [m \in Matches |-> IF u \in Pair[m]
                                 THEN [End(row[m]) EXCEPT !.continued = @ \ {u}, !.revealed = @ \ {u}] ELSE row[m]]
    /\ used' = [used EXCEPT ![u] = 0] /\ spent' = [spent EXCEPT ![u] = {}]
    /\ UNCHANGED <<message, reported, limit, closed, req, pass, told>>

\* The subscription of an account changes, or runs out.
PlanChanges(u) ==
    /\ \E l \in Limits \ {limit[u]} : limit' = [limit EXCEPT ![u] = l]
    /\ UNCHANGED <<row, message, reported, used, closed, req, pass, spent, told>>

-----------------------------------------------------------------------------
(* Maintenance.                                                            *)

\* The leader starts a pass, with the date of its start.
PassBegins ==
    /\ ~pass.on /\ pass' = [on |-> TRUE, age |-> 0]
    /\ UNCHANGED <<row, message, reported, used, limit, closed, req, spent, told>>

PassFails ==
    /\ pass.on /\ pass' = NoPass
    /\ UNCHANGED <<row, message, reported, used, limit, closed, req, spent, told>>

\* As many of the candidates as a batch takes.
Batches(c) == {s \in SUBSET c : Cardinality(s) = IF Cardinality(c) < BatchSize THEN Cardinality(c) ELSE BatchSize}

\* Mutant: only the end of the first window is looked for.
DueFirstWindow(rows, status) ==
    {m \in Matches : Free(m) /\ status = "active" /\ rows[m].status = status /\ rows[m].left + pass.age <= 0}

Due(rows, status) == {m \in Matches : Free(m) /\ rows[m].status = status /\ rows[m].left + pass.age <= 0}

\* Mutant: the date of the purge is not looked at.
OverAny(rows) == {m \in Matches : rows[m].status \in {"expired", "ended"}}

Over(rows) == {m \in Matches : rows[m].status \in {"expired", "ended"} /\ rows[m].purge + pass.age <= 0}

\* The rows and the conversations after each of the statements.
Opened(b) == [m \in Matches |-> IF m \in b THEN Open(row[m], pass.age) ELSE row[m]]
Expired(rows, b) == [m \in Matches |-> IF m \in b THEN Expire(rows[m], pass.age) ELSE rows[m]]
Remaining(b) == [m \in Matches |-> SubSeq(message[m], 1 + Cardinality({d \in b : d[1] = m}), Len(message[m]))]

\* runMaintenance: the five statements of a batch, each with the date of the pass.
\* A full batch is followed by another, up to matchMaintenanceMaxBatches.
Batch ==
    /\ pass.on
    /\ \E opened \in Batches(Due(row, "active")) :
       \E expired \in Batches(Due(Opened(opened), "awaiting_continuation")) :
       LET rows == Expired(Opened(opened), expired) IN
       \E deleted \in Batches(Stored(Over(rows))), detached \in Batches(reported \cap Over(rows)) :
       \E purged \in Batches({m \in Over(rows) \ (reported \ detached) : Free(m) /\ Remaining(deleted)[m] = <<>>}) :
         /\ row' = [m \in Matches |-> IF m \in purged THEN NoRow ELSE rows[m]]
         /\ message' = Remaining(deleted) /\ reported' = reported \ detached
         /\ \/ pass' = NoPass
            \/ /\ \E s \in {opened, expired, deleted, detached, purged} : Cardinality(s) >= BatchSize
               /\ UNCHANGED pass
    /\ UNCHANGED <<used, limit, closed, req, spent, told>>

-----------------------------------------------------------------------------
(* Time.                                                                   *)

Later(x) ==
    LET less(n) == IF n > -MaxAge THEN n - 1 ELSE n IN
    CASE x.status \in {"active", "awaiting_continuation"} -> [x EXCEPT !.left = less(@)]
      [] x.status \in {"expired", "ended"} -> [x EXCEPT !.purge = less(@)]
      [] OTHER -> x

Tick ==
    /\ pass.on => pass.age < MaxAge
    /\ \A r \in Requests : req[r].pc # "idle" => req[r].age < MaxAge
    /\ row' = [m \in Matches |-> Later(row[m])]
    /\ req' = [r \in Requests |-> IF req[r].pc = "idle" THEN Idle ELSE [req[r] EXCEPT !.age = @ + 1]]
    /\ pass' = IF pass.on THEN [pass EXCEPT !.age = @ + 1] ELSE pass
    /\ UNCHANGED <<message, reported, used, limit, closed, spent, told>>

\* startOfUtcWeek moves on.  No second consent is between its clock and its
\* charge: it would be charged to the week before.
NewWeek ==
    /\ \A r \in Requests : req[r].pc # "counting"
    /\ used' = [u \in Users |-> 0] /\ spent' = [u \in Users |-> {}]
    /\ UNCHANGED <<row, message, reported, limit, closed, req, pass, told>>

-----------------------------------------------------------------------------

Asks(r) ==
    \E m \in Matches, u \in Users :
      \/ \E op \in {"reveal", "continue"} : Ask(r, op, u, m, Nobody, Nobody)
      \/ \E k \in Keys, c \in Contents : Ask(r, "send", u, m, k, c)
      \/ \E i \in 1..MaxMessages, through \in Contents \cup {Nobody} : Ask(r, "read", u, m, i, through)

Next ==
    \/ \E r \in Requests : Asks(r) \/ Command(r)
    \/ \E m \in Matches : Report(m) \/ Block(m)
    \/ \E u \in Users : CloseAccount(u) \/ Anonymize(u) \/ PlanChanges(u)
    \/ PassBegins \/ PassFails \/ Batch \/ Tick \/ NewWeek

Spec == Init /\ [][Next]_vars

-----------------------------------------------------------------------------
(* Properties.                                                             *)

\* recordContinuationConsent: the usage of the week counts exactly the matches
\* confirmed at its expense, so no consent is charged twice or for nothing, and
\* a match is confirmed by both.
QuotaExact ==
    /\ \A u \in Users : used[u] = Cardinality(spent[u])
    /\ \A m \in Matches : row[m].status = "confirmed" => row[m].continued = Pair[m]

\* The upsert: whoever consents at the same time in another match, no charge
\* exceeds the limit of the plan that was read for it, zero included.
QuotaRespected ==
    [][\A r \in Requests : req[r].pc = "counting" /\ req'[r].pc = "idle" /\ req[r].limit # Unlimited =>
         \A u \in Users : used'[u] > used[u] => used'[u] <= req[r].limit]_vars

\* A wait for the lock does not prolong a window: a consent in the second window
\* is recorded only if the window was open when the lock was taken.
DeadlineKept ==
    [][\A r \in Requests : LET m == req[r].match IN
         req[r].pc = "waiting" /\ req'[r].pc # "waiting" /\ row[m].status = "awaiting_continuation"
         /\ (req'[r].pc = "counting" \/ ~(row'[m].continued \subseteq row[m].continued)) => row[m].left > 0]_vars

\* recordReveal: when both have revealed, one of the answers said so.
RevealAnnounced == \A m \in Matches : row[m].revealed = Pair[m] => m \in told

\* createMessage: a message is added only to a match that is open by the clock,
\* between accounts that are not being erased, whatever happened during the wait.
MessagesWhileOpen ==
    [][\A m \in Matches : Len(message'[m]) > Len(message[m]) =>
         row'[m].status \in Live /\ (row'[m].status # "confirmed" => row'[m].left > 0) /\ ~Closed(m)]_vars

\* A match is removed only when its purge date has passed, and its conversation
\* is not touched before.
KeptUntilPurge ==
    [][\A m \in Matches : (row'[m].status = "none" /\ row[m].status # "none") \/ Len(message'[m]) < Len(message[m]) =>
         row[m].status \in {"expired", "ended"} /\ row[m].purge <= 0]_vars

\* Maintenance: every match is confirmed, or runs out and is removed.
MatchSettles == \A m \in Matches : row[m].status = "active" ~> row[m].status \in {"confirmed", "none"}

\* Whatever commands run at once: the quota counts the confirmed matches, the
\* second reveal is announced, and a message is stored once for its key.
MatchesConsistent == TypeOK /\ QuotaExact /\ RevealAnnounced

\* What a command or a pass may do after it has waited for the lock: neither the
\* quota nor the end of a window, of a match or of its retention gives way.
CommandsLawful == QuotaRespected /\ DeadlineKept /\ MessagesWhileOpen /\ KeptUntilPurge

=============================================================================
