----------------------------- MODULE SwipeMatch -----------------------------
(***************************************************************************)
(* From two likes to a match, and what a block does to it: swipe of        *)
(* DiscoveryService, DiscoveryStore, createFromMutualLike and create of    *)
(* the matches, blockUser and unblockUser.                                 *)
(*                                                                         *)
(* The transactions are READ COMMITTED and take no lock in common when     *)
(* they insert a match and a block, so each of the two is a statement that *)
(* reads what is committed and a later commit.  What the life of a match   *)
(* does to it is MatchLifecycle's; here it ends and is purged.             *)
(***************************************************************************)
EXTENDS Integers, FiniteSets

CONSTANTS
    Users,       \* accounts
    Requests,    \* swipe requests under way at once
    MaxBlocks,   \* bound on the calls of blockUser
    MaxFaults    \* bound on crashed requests

VARIABLES
    account,  \* ready for discovery (profile, consents, fresh position), not account, or banned
    swipe,    \* swipe_decision
    match,    \* match_init, by pair
    block,    \* user_block
    req,      \* the swipe requests
    blocking, \* blockUser between its statements and its commit
    hindered, \* history: since its last like a request of the pair crashed or was refused
    made,     \* history: pairs whose present likes have had their match
    calls, faults

vars == <<account, swipe, match, block, req, blocking, hindered, made, calls, faults>>

Directions == {d \in Users \X Users : d[1] # d[2]}
Pairs == {{d[1], d[2]} : d \in Directions}
PairOf(d) == {d[1], d[2]}
Reverse(d) == <<d[2], d[1]>>

NoSwipe == [decision |-> "none", expired |-> FALSE]
Idle == [pc |-> "idle", dir |-> <<>>, decision |-> "none"]
NotBlocking == [dir |-> <<>>, ends |-> FALSE]

\* A pair has one row of match_init at most.
TypeOK ==
    /\ account \in [Users -> {"ready", "unready", "banned"}]
    /\ swipe \in [Directions -> [decision: {"none", "like", "pass"}, expired: BOOLEAN]]
    /\ match \in [Pairs -> {"none", "live", "over"}]
    /\ block \subseteq Directions
    /\ req \in [Requests -> [pc: {"idle", "checked", "recorded", "mutual", "inserted"},
                             dir: Directions \cup {<<>>}, decision: {"none", "like", "pass"}]]
    /\ blocking \in [dir: Directions \cup {<<>>}, ends: BOOLEAN]
    /\ hindered \subseteq Pairs
    /\ made \subseteq Pairs
    /\ calls \in 0..MaxBlocks /\ faults \in 0..MaxFaults
    /\ \A r, s \in Requests : r # s /\ req[r].pc = "inserted" /\ req[s].pc = "inserted" =>
                                PairOf(req[r].dir) # PairOf(req[s].dir)

Init ==
    /\ account = [u \in Users |-> "ready"] /\ swipe = [d \in Directions |-> NoSwipe] /\ match = [p \in Pairs |-> "none"]
    /\ block = {} /\ req = [r \in Requests |-> Idle] /\ blocking = NotBlocking
    /\ hindered = {} /\ made = {} /\ calls = 0 /\ faults = 0

Blocked(d) == d \in block \/ Reverse(d) \in block

\* isDiscoveryReady of the actor, and the row candidateBatch has for the target:
\* the criteria hold both ways, and no block and no match is in the way.
Available(d) == (\A u \in PairOf(d) : account[u] = "ready") /\ ~Blocked(d) /\ match[PairOf(d)] = "none"

Refused(d) == Blocked(d) \/ \E u \in PairOf(d) : account[u] = "banned"

\* swipe() up to the check of its target.
Check(r, d, decision) ==
    /\ req[r].pc = "idle" /\ Available(d)
    /\ req' = [req EXCEPT ![r] = [pc |-> "checked", dir |-> d, decision |-> decision]]
    /\ UNCHANGED <<account, swipe, match, block, blocking, hindered, made, calls, faults>>

\* Mutant: a like that is there already is not followed up.
RecordSwipeOnce(r) ==
    LET d == req[r].dir
        writes == swipe[d].decision = "none" \/ swipe[d].expired
        decision == IF writes THEN req[r].decision ELSE swipe[d].decision
        goesOn == writes /\ decision = "like" /\ req[r].decision = "like"
    IN
    /\ req[r].pc = "checked"
    /\ swipe' = IF writes THEN [swipe EXCEPT ![d] = [decision |-> decision, expired |-> FALSE]] ELSE swipe
    /\ made' = IF writes THEN made \ {PairOf(d)} ELSE made
    /\ req' = [req EXCEPT ![r] = IF goesOn THEN [@ EXCEPT !.pc = "recorded"] ELSE Idle]
    /\ hindered' = IF decision = "like" /\ req[r].decision = "like" THEN hindered \ {PairOf(d)} ELSE hindered
    /\ UNCHANGED <<account, match, block, blocking, calls, faults>>

\* recordSwipe: a new decision, the replacement of one past its retention, or
\* the one there is, which must be the same.
RecordSwipe(r) ==
    LET d == req[r].dir
        writes == swipe[d].decision = "none" \/ swipe[d].expired
        decision == IF writes THEN req[r].decision ELSE swipe[d].decision
        goesOn == decision = "like" /\ req[r].decision = "like"
    IN
    /\ req[r].pc = "checked"
    /\ swipe' = IF writes THEN [swipe EXCEPT ![d] = [decision |-> decision, expired |-> FALSE]] ELSE swipe
    /\ made' = IF writes THEN made \ {PairOf(d)} ELSE made
    /\ req' = [req EXCEPT ![r] = IF goesOn THEN [@ EXCEPT !.pc = "recorded"] ELSE Idle]
    /\ hindered' = IF goesOn THEN hindered \ {PairOf(d)} ELSE hindered
    /\ UNCHANGED <<account, match, block, blocking, calls, faults>>

\* findSwipe of the other direction.
FindSwipe(r) ==
    LET other == swipe[Reverse(req[r].dir)] IN
    /\ req[r].pc = "recorded"
    /\ req' = [req EXCEPT ![r] = IF other.decision = "like" /\ ~other.expired
                                 THEN [@ EXCEPT !.pc = "mutual"] ELSE Idle]
    /\ UNCHANGED <<account, swipe, match, block, blocking, hindered, made, calls, faults>>

\* Mutant: two rows of a pair do not wait for each other.
InsertUnkeyed(r) ==
    /\ req[r].pc = "mutual"
    /\ req' = [req EXCEPT ![r] = IF Refused(req[r].dir) THEN Idle ELSE [@ EXCEPT !.pc = "inserted"]]
    /\ hindered' = IF Refused(req[r].dir) THEN hindered \cup {PairOf(req[r].dir)} ELSE hindered
    /\ UNCHANGED <<account, swipe, match, block, blocking, made, calls, faults>>

\* create: the INSERT reads the accounts and the committed blocks.  A second row
\* of the pair waits for the first to be committed, and is then a unique
\* violation that createFromMutualLike answers with the match there is.
Insert(r) ==
    LET p == PairOf(req[r].dir)
        exists == match[p] # "none"
    IN
    /\ req[r].pc = "mutual"
    /\ \A s \in Requests \ {r} : ~(req[s].pc = "inserted" /\ PairOf(req[s].dir) = p)
    /\ req' = [req EXCEPT ![r] = IF Refused(req[r].dir) \/ exists THEN Idle ELSE [@ EXCEPT !.pc = "inserted"]]
    /\ hindered' = IF Refused(req[r].dir) THEN hindered \cup {p} ELSE hindered
    /\ made' = IF exists /\ ~Refused(req[r].dir) THEN made \cup {p} ELSE made
    /\ UNCHANGED <<account, swipe, match, block, blocking, calls, faults>>

\* The match, its two states and its two notifications are committed.
Commit(r) ==
    LET p == PairOf(req[r].dir) IN
    /\ req[r].pc = "inserted" /\ req' = [req EXCEPT ![r] = Idle]
    /\ match' = [match EXCEPT ![p] = "live"]
    /\ made' = made \cup {p}
    /\ UNCHANGED <<account, swipe, block, blocking, hindered, calls, faults>>

\* The process dies, or a statement fails.
Crash(r) ==
    /\ req[r].pc # "idle" /\ faults < MaxFaults /\ faults' = faults + 1
    /\ hindered' = hindered \cup {PairOf(req[r].dir)} /\ req' = [req EXCEPT ![r] = Idle]
    /\ UNCHANGED <<account, swipe, match, block, blocking, made, calls>>

-----------------------------------------------------------------------------
(* Blocks.                                                                 *)

\* The statements of blockUser: the block is inserted, and the match that is
\* committed by then is ended.
BlockUser(d) ==
    /\ blocking = NotBlocking /\ calls < MaxBlocks /\ calls' = calls + 1
    /\ blocking' = [dir |-> d, ends |-> match[PairOf(d)] = "live"]
    /\ UNCHANGED <<account, swipe, match, block, req, hindered, made, faults>>

BlockCommit ==
    /\ blocking # NotBlocking /\ blocking' = NotBlocking
    /\ block' = block \cup {blocking.dir}
    /\ match' = IF blocking.ends THEN [match EXCEPT ![PairOf(blocking.dir)] = "over"] ELSE match
    /\ UNCHANGED <<account, swipe, req, hindered, made, calls, faults>>

UnblockUser(d) ==
    /\ d \in block /\ block' = block \ {d}
    /\ UNCHANGED <<account, swipe, match, req, blocking, hindered, made, calls, faults>>

-----------------------------------------------------------------------------
(* The surroundings.                                                       *)

\* A consent is withdrawn or given, the position grows old or is refreshed, the
\* account is banned or unbanned.
AccountChanges(u) ==
    /\ \E to \in {"ready", "unready", "banned"} \ {account[u]} : account' = [account EXCEPT ![u] = to]
    /\ UNCHANGED <<swipe, match, block, req, blocking, hindered, made, calls, faults>>

\* The retention of a decision ends, and later its row is removed.
SwipeExpires(d) ==
    /\ swipe[d].decision # "none"
    /\ swipe' = [swipe EXCEPT ![d] = IF @.expired THEN NoSwipe ELSE [@ EXCEPT !.expired = TRUE]]
    /\ made' = made \ {PairOf(d)}
    /\ UNCHANGED <<account, match, block, req, blocking, hindered, calls, faults>>

\* The match runs out, and is purged after its retention, which no request
\* outlasts.  It is not, while a block that ends it waits for its commit.
MatchEnds(p) ==
    /\ match[p] # "none"
    /\ match[p] = "over" => \A r \in Requests : req[r].pc # "idle" => PairOf(req[r].dir) # p
    /\ ~(blocking # NotBlocking /\ PairOf(blocking.dir) = p)
    /\ match' = [match EXCEPT ![p] = IF @ = "live" THEN "over" ELSE "none"]
    /\ UNCHANGED <<account, swipe, block, req, blocking, hindered, made, calls, faults>>

Swipe(r) == RecordSwipe(r) \/ FindSwipe(r) \/ Insert(r) \/ Commit(r)

Next ==
    \/ \E r \in Requests : \/ \E d \in Directions, decision \in {"like", "pass"} : Check(r, d, decision)
                           \/ Swipe(r) \/ Crash(r)
    \/ \E d \in Directions : BlockUser(d) \/ UnblockUser(d) \/ SwipeExpires(d)
    \/ BlockCommit \/ \E p \in Pairs : MatchEnds(p) \/ \E u \in Users : AccountChanges(u)

Spec == Init /\ [][Next]_vars

-----------------------------------------------------------------------------
(* Properties.                                                             *)

MutualLikes(p) == \A d \in Directions : PairOf(d) = p => swipe[d].decision = "like" /\ ~swipe[d].expired

\* swipe(): two likes that hold at once have their match when the requests are
\* over, whatever their order, also after a crashed or refused request once one
\* of the two likes again.
MutualLikesMatched ==
    \A p \in Pairs :
      MutualLikes(p) /\ p \notin hindered /\ (\A r \in Requests : req[r].pc # "idle" => PairOf(req[r].dir) # p) =>
        p \in made

\* routes.md, line 320: a block closes the matches between the accounts and
\* keeps them from being created again.
BlockedNotMatched == \A d \in block : match[PairOf(d)] # "live"
\* swipe() and create(): the two likes of a pair make its match, and one only.
SwipesConsistent == TypeOK /\ MutualLikesMatched

=============================================================================
