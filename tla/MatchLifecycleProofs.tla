------------------------ MODULE MatchLifecycleProofs ------------------------
(***************************************************************************)
(* Proofs about MatchLifecycle for any number of accounts, matches,        *)
(* commands at once, keys and ticks, and about SwipeMatch, which makes the *)
(* matches, for any number of accounts, swipes, blocks and faults.         *)
(***************************************************************************)
EXTENDS Matching, FunctionTheorems, FiniteSetTheorems, SequenceTheorems, TLAPS

-----------------------------------------------------------------------------
(* The inductive invariant.                                                *)

RowType == [status: Live \cup {"expired", "ended", "none"}, left: -MaxAge..Window,
            purge: -MaxAge..PurgeDelay, initiator: Users \cup {Nobody},
            continued: SUBSET Users, revealed: SUBSET Users]

MessageType == [sender: Users, key: Keys, content: Contents, read: BOOLEAN]

ReqType == [pc: {"idle", "waiting", "counting"}, op: {"none", "reveal", "continue", "send", "read"},
            user: Users \cup {Nobody}, match: Matches \cup {Nobody}, arg: Keys \cup {Nobody} \cup Nat,
            content: Contents \cup {Nobody}, age: 0..MaxAge, limit: Limits \cup {0}]

PassType == [on: BOOLEAN, age: 0..MaxAge]

Typed ==
    /\ row \in [Matches -> RowType] /\ message \in [Matches -> Seq(MessageType)] /\ reported \subseteq Matches
    /\ used \in [Users -> Nat] /\ limit \in [Users -> Limits] /\ closed \subseteq Users
    /\ req \in [Requests -> ReqType] /\ pass \in PassType
    /\ spent \in [Users -> SUBSET Matches] /\ told \subseteq Matches

\* A command is about a match of its user, and a message that is sent has a key
\* and a text.
Asked ==
    \A r \in Requests : req[r].pc # "idle" =>
      /\ req[r].match \in Matches /\ req[r].user \in Pair[req[r].match]
      /\ req[r].op = "send" => req[r].arg \in Keys /\ req[r].content \in Contents

\* Before it is confirmed a match has the consent of its initiator or none, and
\* then that of both.
Agreed(x, p) ==
    /\ x.status \in {"active", "awaiting_continuation"} =>
         \/ x.initiator = Nobody /\ x.continued = {}
         \/ x.initiator \in p /\ x.continued = {x.initiator}
    /\ x.status = "confirmed" => x.continued = p

Consents == \A m \in Matches : Agreed(row[m], Pair[m])

\* A second consent that holds the lock of its match finds it as it left it: the
\* window is open by its clock and the other one has consented.
Charging(x, q) ==
    /\ x.status = "awaiting_continuation" /\ x.left + q.age > 0
    /\ x.initiator # Nobody /\ q.user \notin x.continued

Counting == \A r \in Requests : req[r].pc = "counting" => Charging(row[req[r].match], req[r])

\* The lock of a match has one owner.
Locked ==
    \A r, s \in Requests : req[r].pc = "counting" /\ req[s].pc = "counting" /\ req[r].match = req[s].match => r = s

\* A match that was charged for is not open to consents again, and the usage of
\* an account counts the matches it was charged for.
Undecided == {"active", "awaiting_continuation"}

Settled == \A u \in Users : \A m \in spent[u] : row[m].status \notin Undecided

Counted == \A u \in Users : used[u] = Cardinality(spent[u])

\* The messages of a match are those of its two accounts, and a sender has used a
\* key once.
SentByPair == \A m \in Matches : \A i \in 1..Len(message[m]) : message[m][i].sender \in Pair[m]

KeyedOnce ==
    \A m, n \in Matches : \A i \in 1..Len(message[m]), j \in 1..Len(message[n]) :
      message[m][i].sender = message[n][j].sender /\ message[m][i].key = message[n][j].key => m = n /\ i = j

IInv ==
    /\ Typed /\ Asked /\ Consents /\ Counting /\ Locked /\ Settled /\ Counted
    /\ RevealAnnounced /\ SentByPair /\ KeyedOnce

-----------------------------------------------------------------------------
(* Constants.                                                              *)

\* The assumptions about the numbers.
LEMMA Numbers ==
    /\ Window \in Nat /\ Window > 0 /\ PurgeDelay \in Nat /\ PurgeDelay > 0 /\ MaxAge \in Nat
    /\ BatchSize \in Nat /\ BatchSize > 0
BY MatchAssumption

\* A match is between two accounts.
LEMMA Pairs ==
    ASSUME NEW m \in Matches
    PROVE  /\ Pair[m] \in SUBSET Users /\ IsFiniteSet(Pair[m]) /\ Cardinality(Pair[m]) = 2 /\ Pair[m] # {}
           /\ Nobody \notin Pair[m]
           /\ \A u, v \in Pair[m] : u # v => Pair[m] = {u, v}
<1>1. Pair[m] \in SUBSET Users /\ IsFiniteSet(Users) /\ Cardinality(Pair[m]) = 2 /\ Nobody \notin Users
  BY MatchAssumption
<1>2. IsFiniteSet(Pair[m])
  BY <1>1, FS_Subset
<1>3. Pair[m] # {}
  BY <1>1, <1>2, FS_EmptySet
<1>4. ASSUME NEW u \in Pair[m], NEW v \in Pair[m], u # v PROVE Pair[m] = {u, v}
  <2>1. IsFiniteSet({u}) /\ Cardinality({u}) = 1
    BY FS_Singleton
  <2>2. IsFiniteSet({u, v}) /\ Cardinality({u, v}) = 2
    <3>1. {u} \cup {v} = {u, v}
      OBVIOUS
    <3>2. Cardinality({u} \cup {v}) = Cardinality({u}) + 1 /\ IsFiniteSet({u} \cup {v})
      BY <1>4, <2>1, FS_AddElement
    <3>3. QED BY <2>1, <3>1, <3>2
  <2>3. {u, v} \in SUBSET Pair[m]
    OBVIOUS
  <2>4. QED BY <1>1, <1>2, <2>2, <2>3, FS_Subset
<1>5. QED BY <1>1, <1>2, <1>3, <1>4

-----------------------------------------------------------------------------
(* What the statements do to a row.                                        *)

\* What a row keeps on the way, in every step but a consent or a reveal.
Follows(x, y, p) ==
    /\ y \in RowType
    /\ Agreed(x, p) => Agreed(y, p)
    /\ x.status \notin Undecided => y.status \notin Undecided
    /\ y.revealed = p => x.revealed = p

\* The fields of a row.
LEMMA RowFields ==
    ASSUME NEW x \in RowType
    PROVE  /\ x.status \in Live \cup {"expired", "ended", "none"} /\ x.left \in Int /\ x.left \in -MaxAge..Window
           /\ x.purge \in Int /\ x.purge \in -MaxAge..PurgeDelay /\ x.initiator \in Users \cup {Nobody}
           /\ x.continued \in SUBSET Users /\ x.revealed \in SUBSET Users
BY Numbers DEF RowType

\* The end of the first window.
LEMMA Opens ==
    ASSUME NEW x \in RowType, NEW now \in 0..MaxAge
    PROVE  /\ Open(x, now) \in RowType
           /\ Open(x, now).status = "awaiting_continuation" /\ Open(x, now).left = Window - now
           /\ Open(x, now).continued = x.continued /\ Open(x, now).initiator = x.initiator
           /\ Open(x, now).revealed = x.revealed
<1>1. Window - now \in -MaxAge..Window
  BY Numbers
<1>2. "awaiting_continuation" \in Live \cup {"expired", "ended", "none"}
  BY DEF Live
<1>3. Open(x, now) \in RowType
  BY <1>1, <1>2 DEF Open, RowType
<1>4. QED BY <1>3 DEF Open, RowType

\* The end of the second one.
LEMMA Expires ==
    ASSUME NEW x \in RowType, NEW now \in 0..MaxAge
    PROVE  /\ Expire(x, now) \in RowType
           /\ Expire(x, now).status = "expired" /\ Expire(x, now).purge = PurgeDelay - now
           /\ Expire(x, now).continued = x.continued /\ Expire(x, now).initiator = x.initiator
           /\ Expire(x, now).revealed = x.revealed
<1>1. PurgeDelay - now \in -MaxAge..PurgeDelay /\ 0 \in -MaxAge..Window
  BY Numbers
<1>2. Expire(x, now) \in RowType
  BY <1>1 DEF Expire, RowType
<1>3. QED BY <1>2 DEF Expire, RowType

\* The first statements of a command.
LEMMA Turning ==
    ASSUME NEW x \in RowType, NEW now \in 0..MaxAge
    PROVE  LET y == Turned(x, now) IN
           /\ y \in RowType /\ y.continued = x.continued /\ y.initiator = x.initiator /\ y.revealed = x.revealed
           /\ \/ y = x
              \/ x.status = "active" /\ y.status = "awaiting_continuation"
              \/ x.status = "awaiting_continuation" /\ y.status = "expired"
           /\ y.status \in Undecided => y.left + now > 0
           /\ x.status = "awaiting_continuation" /\ y.status = "awaiting_continuation" => x.left + now > 0
<1>0. x.left \in Int /\ now \in Nat /\ Window \in Nat /\ Window > 0
  BY RowFields, Numbers
<1>1. CASE x.status = "active" /\ x.left + now <= 0
  <2>1. Turned(x, now) = Open(x, now)
    BY <1>1 DEF Turned
  <2>2. QED BY <1>0, <1>1, <2>1, Opens
<1>2. CASE x.status = "awaiting_continuation" /\ x.left + now <= 0
  <2>1. Turned(x, now) = Expire(x, now)
    BY <1>2 DEF Turned
  <2>2. QED BY <1>0, <1>2, <2>1, Expires DEF Undecided
<1>3. CASE ~(x.status \in Undecided /\ x.left + now <= 0)
  <2>1. Turned(x, now) = x
    BY <1>3 DEF Turned, Undecided
  <2>2. QED BY <1>0, <1>3, <2>1 DEF Undecided
<1>4. QED BY <1>1, <1>2, <1>3 DEF Undecided

\* A block, and the redaction of an account.
LEMMA Ends ==
    ASSUME NEW x \in RowType
    PROVE  /\ End(x) \in RowType /\ End(x).status \notin Live
           /\ End(x).continued = x.continued /\ End(x).revealed = x.revealed /\ End(x).initiator = x.initiator
<1>1. CASE x.status \in Live
  <2>1. PurgeDelay \in -MaxAge..PurgeDelay /\ 0 \in -MaxAge..Window
    BY Numbers
  <2>2. End(x) = [x EXCEPT !.status = "ended", !.left = 0, !.purge = PurgeDelay]
    BY <1>1 DEF End
  <2>3. End(x) \in RowType
    BY <2>1, <2>2 DEF RowType
  <2>4. QED BY <2>2, <2>3 DEF RowType, Live
<1>2. CASE x.status \notin Live
  BY <1>2 DEF End
<1>3. QED BY <1>1, <1>2

\* A tick.
LEMMA Laters ==
    ASSUME NEW x \in RowType
    PROVE  /\ Later(x) \in RowType /\ Later(x).status = x.status
           /\ Later(x).continued = x.continued /\ Later(x).revealed = x.revealed /\ Later(x).initiator = x.initiator
           /\ x.status \in Undecided => Later(x).left + 1 >= x.left
<1>0. x.left \in -MaxAge..Window /\ x.purge \in -MaxAge..PurgeDelay
  BY RowFields
<1> DEFINE less(n) == IF n > -MaxAge THEN n - 1 ELSE n
<1>1. /\ less(x.left) \in -MaxAge..Window /\ less(x.left) + 1 >= x.left
      /\ less(x.purge) \in -MaxAge..PurgeDelay
  BY <1>0, Numbers
<1>2. CASE x.status \in Undecided
  <2>1. Later(x) = [x EXCEPT !.left = less(x.left)]
    BY <1>2 DEF Later, Undecided
  <2> HIDE DEF less
  <2>2. QED BY <1>1, <1>2, <2>1 DEF RowType
<1>3. CASE x.status \in {"expired", "ended"}
  <2>1. Later(x) = [x EXCEPT !.purge = less(x.purge)]
    BY <1>3 DEF Later
  <2> HIDE DEF less
  <2>2. QED BY <1>1, <1>3, <2>1 DEF RowType, Undecided
<1>4. CASE x.status \notin Undecided \cup {"expired", "ended"}
  <2>1. Later(x) = x
    BY <1>4 DEF Later, Undecided
  <2>2. QED BY <1>4, <2>1 DEF Undecided
<1>5. QED BY <1>2, <1>3, <1>4

\* A row that is as it was.
LEMMA Unmoved ==
    ASSUME NEW x \in RowType, NEW p
    PROVE  Follows(x, x, p)
BY DEF Follows

\* None of these statements lets a row go back.
LEMMA Following ==
    ASSUME NEW m \in Matches, NEW x \in RowType, NEW now \in 0..MaxAge
    PROVE  /\ Follows(x, x, Pair[m]) /\ Follows(x, Turned(x, now), Pair[m])
           /\ x.status = "active" => Follows(x, Open(x, now), Pair[m])
           /\ x.status = "awaiting_continuation" => Follows(x, Expire(x, now), Pair[m])
           /\ Follows(x, End(x), Pair[m]) /\ Follows(x, Later(x), Pair[m]) /\ Follows(x, NoRow, Pair[m])
<1>1. Follows(x, x, Pair[m])
  BY DEF Follows
<1>2. Follows(x, Turned(x, now), Pair[m])
  BY Turning DEF Follows, Agreed, Undecided
<1>3. x.status = "active" => Follows(x, Open(x, now), Pair[m])
  BY Opens DEF Follows, Agreed, Undecided
<1>4. x.status = "awaiting_continuation" => Follows(x, Expire(x, now), Pair[m])
  BY Expires DEF Follows, Agreed, Undecided
<1>5. Follows(x, End(x), Pair[m])
  BY Ends DEF Follows, Agreed, Undecided, Live
<1>6. Follows(x, Later(x), Pair[m])
  BY Laters DEF Follows, Agreed, Undecided
<1>7. Follows(x, NoRow, Pair[m])
  <2>1. NoRow \in RowType /\ NoRow.status = "none" /\ NoRow.revealed = {}
    BY Numbers DEF NoRow, RowType, Live
  <2>2. QED BY <2>1, Pairs DEF Follows, Agreed, Undecided
<1>8. QED BY <1>1, <1>2, <1>3, <1>4, <1>5, <1>6, <1>7

-----------------------------------------------------------------------------
(* Conversations.                                                          *)

\* A match has at most a message of each of its two accounts for each key.
LEMMA FewMessages ==
    ASSUME NEW m \in Matches, NEW s \in Seq(MessageType),
           \A i \in 1..Len(s) : s[i].sender \in Pair[m],
           \A i, j \in 1..Len(s) : s[i].sender = s[j].sender /\ s[i].key = s[j].key => i = j
    PROVE  Len(s) <= MaxMessages
<1> DEFINE f == [i \in 1..Len(s) |-> <<s[i].sender, s[i].key>>]
<1>1. Len(s) \in Nat /\ \A i \in 1..Len(s) : s[i].key \in Keys
  <2>1. Len(s) \in Nat /\ \A i \in 1..Len(s) : s[i] \in MessageType
    OBVIOUS
  <2>2. QED BY <2>1 DEF MessageType
<1>2. f \in [1..Len(s) -> Pair[m] \X Keys]
  BY <1>1
<1>3. \A i, j \in 1..Len(s) : f[i] = f[j] => i = j
  OBVIOUS
<1>4. f \in Injection(1..Len(s), Pair[m] \X Keys)
  BY <1>2, <1>3, Fun_IsInj
<1>5. IsFiniteSet(Keys) /\ Cardinality(Keys) \in Nat /\ IsFiniteSet(Pair[m]) /\ Cardinality(Pair[m]) = 2
  BY MatchAssumption, Pairs, FS_CardinalityType
<1>6. IsFiniteSet(Pair[m] \X Keys) /\ Cardinality(Pair[m] \X Keys) = 2 * Cardinality(Keys)
  BY <1>5, FS_Product
<1>7. Cardinality(1..Len(s)) = Len(s)
  <2>1. Cardinality(1..Len(s)) = IF 1 > Len(s) THEN 0 ELSE Len(s) - 1 + 1
    BY <1>1, FS_Interval
  <2>2. QED BY <1>1, <2>1
<1>8. QED BY <1>4, <1>6, <1>7, FS_Injection DEF MaxMessages

\* So no message is beyond the bound.
LEMMA Within ==
    ASSUME Typed, SentByPair, KeyedOnce
    PROVE  \A m \in Matches : Len(message[m]) \in Nat /\ Len(message[m]) <= MaxMessages
<1> SUFFICES ASSUME NEW m \in Matches PROVE Len(message[m]) \in Nat /\ Len(message[m]) <= MaxMessages
  OBVIOUS
<1>1. message[m] \in Seq(MessageType)
  BY DEF Typed
<1>2. Len(message[m]) \in Nat
  BY <1>1
<1>3. \A i \in 1..Len(message[m]) : message[m][i].sender \in Pair[m]
  BY DEF SentByPair
<1>4. \A i, j \in 1..Len(message[m]) :
        message[m][i].sender = message[m][j].sender /\ message[m][i].key = message[m][j].key => i = j
  BY DEF KeyedOnce
<1>5. QED BY <1>1, <1>2, <1>3, <1>4, FewMessages

\* The lookup of a key finds its message.
LEMMA Lookup ==
    ASSUME Typed, SentByPair, KeyedOnce, NEW u, NEW k,
           NEW m \in Matches, NEW i \in 1..Len(message[m]), message[m][i].sender = u, message[m][i].key = k
    PROVE  Sent(u, k) # {}
<1>1. MaxMessages \in Nat
  BY MatchAssumption, FS_CardinalityType DEF MaxMessages
<1>2. i \in 1..MaxMessages /\ i <= Len(message[m])
  BY <1>1, Within
<1>3. <<m, i>> \in Stored(Matches)
  BY <1>2 DEF Stored
<1>4. QED BY <1>3 DEF Sent

\* The first messages of a conversation are deleted.
LEMMA Drops ==
    ASSUME NEW s \in Seq(MessageType), NEW k \in Nat
    PROVE  LET t == SubSeq(s, 1 + k, Len(s)) IN
           /\ t \in Seq(MessageType) /\ Len(t) \in Nat /\ Len(t) <= Len(s) /\ (k = 0 => Len(t) = Len(s))
           /\ \A i \in 1..Len(t) : k + i \in 1..Len(s) /\ t[i] = s[k + i]
<1> DEFINE t == SubSeq(s, 1 + k, Len(s))
<1>1. Len(s) \in Nat /\ \A i \in 1..Len(s) : s[i] \in MessageType
  OBVIOUS
<1>2. \A i \in (1 + k)..Len(s) : s[i] \in MessageType
  BY <1>1
<1>3. /\ t \in Seq(MessageType) /\ Len(t) = IF 1 + k <= Len(s) THEN Len(s) - (1 + k) + 1 ELSE 0
      /\ \A i \in 1..(Len(s) - (1 + k) + 1) : t[i] = s[(1 + k) + i - 1]
  BY <1>1, <1>2, SubSeqProperties
<1> HIDE DEF t
<1>4. Len(t) \in Nat /\ Len(t) <= Len(s) /\ (k = 0 => Len(t) = Len(s))
  BY <1>1, <1>3
<1>5. ASSUME NEW i \in 1..Len(t) PROVE k + i \in 1..Len(s) /\ t[i] = s[k + i]
  <2>1. Len(t) = Len(s) - k /\ i \in 1..(Len(s) - (1 + k) + 1) /\ (1 + k) + i - 1 = k + i
    BY <1>1, <1>3
  <2>2. QED BY <1>1, <1>3, <2>1
<1>6. QED BY <1>3, <1>4, <1>5 DEF t

-----------------------------------------------------------------------------
(* What a step leaves alone.                                               *)

\* A step in which no row goes back and nothing is charged.
LEMMA KeepRows ==
    ASSUME Typed, Consents, Settled, RevealAnnounced,
           \A m \in Matches : Follows(row[m], row'[m], Pair[m]),
           told' = told, \A u \in Users : spent'[u] \subseteq spent[u]
    PROVE  Consents' /\ Settled' /\ RevealAnnounced'
<1>1. Consents'
  BY DEF Follows, Consents
<1>2. Settled'
  BY DEF Follows, Settled, Typed
<1>3. RevealAnnounced'
  BY DEF Follows, RevealAnnounced
<1>4. QED BY <1>1, <1>2, <1>3

\* A step of a transaction that has the lock of the matches it changes.
LEMMA KeepLocks ==
    ASSUME Typed, Asked, Counting, Locked,
           \A r \in Requests : req'[r] = req[r] \/ req'[r].pc # "counting",
           \A m \in Matches : Free(m) \/ row'[m] = row[m]
    PROVE  Counting' /\ Locked'
<1>1. Counting'
  <2> SUFFICES ASSUME NEW r \in Requests, req'[r].pc = "counting"
               PROVE  Charging(row'[req'[r].match], req'[r])
    BY DEF Counting
  <2>1. req'[r] = req[r] /\ req[r].pc = "counting"
    OBVIOUS
  <2>2. req[r].match \in Matches /\ ~Free(req[r].match)
    BY <2>1 DEF Asked, Free
  <2>3. row'[req[r].match] = row[req[r].match] /\ Charging(row[req[r].match], req[r])
    BY <2>1, <2>2 DEF Counting
  <2>4. QED BY <2>1, <2>3
<1>2. Locked'
  BY DEF Locked
<1>3. QED BY <1>1, <1>2

\* A command ends.
LEMMA Finishes ==
    ASSUME Typed, Asked, NEW r \in Requests, Done(r)
    PROVE  /\ req' \in [Requests -> ReqType] /\ Asked' /\ req'[r].pc = "idle"
           /\ \A q \in Requests : q # r => req'[q] = req[q]
           /\ \A q \in Requests : req'[q] = req[q] \/ req'[q].pc # "counting"
<1>1. Idle \in ReqType /\ Idle.pc = "idle"
  BY Numbers DEF Idle, ReqType
<1>2. /\ req' \in [Requests -> ReqType] /\ req'[r] = Idle
      /\ \A q \in Requests : q # r => req'[q] = req[q]
  BY <1>1 DEF Done, Typed
<1>3. QED BY <1>1, <1>2 DEF Asked

\* The fields of a command under way.
LEMMA Requested ==
    ASSUME Typed, Asked, NEW r \in Requests, req[r].pc # "idle"
    PROVE  LET m == req[r].match IN
           /\ m \in Matches /\ req[r].user \in Pair[m] /\ req[r].user \in Users
           /\ row[m] \in RowType /\ message[m] \in Seq(MessageType)
           /\ req[r].age \in Nat /\ req[r].limit \in Limits \cup {0} /\ req[r] \in ReqType
<1>1. req[r].match \in Matches /\ req[r].user \in Pair[req[r].match] /\ req[r] \in ReqType
  BY DEF Asked, Typed
<1>2. req[r].age \in Nat /\ req[r].limit \in Limits \cup {0}
  BY <1>1, Numbers DEF ReqType
<1>3. QED BY <1>1, <1>2, Pairs DEF Typed

\* A conversation that is as it was.
LEMMA KeepMessages ==
    ASSUME SentByPair, KeyedOnce, message' = message
    PROVE  SentByPair' /\ KeyedOnce'
BY DEF SentByPair, KeyedOnce

-----------------------------------------------------------------------------
(* The commands.                                                           *)

\* A command is asked for.
LEMMA AskSafe ==
    ASSUME IInv, NEW r \in Requests, Asks(r)
    PROVE  IInv'
<1> USE DEF IInv
<1>1. PICK m \in Matches, u \in Users :
        \/ \E op \in {"reveal", "continue"} : Ask(r, op, u, m, Nobody, Nobody)
        \/ \E k \in Keys, c \in Contents : Ask(r, "send", u, m, k, c)
        \/ \E i \in 1..MaxMessages, through \in Contents \cup {Nobody} : Ask(r, "read", u, m, i, through)
  BY DEF Asks
<1>2. PICK op \in {"reveal", "continue", "send", "read"}, arg \in Keys \cup {Nobody} \cup Nat, c \in Contents \cup {Nobody} :
        Ask(r, op, u, m, arg, c) /\ (op = "send" => arg \in Keys /\ c \in Contents)
  BY <1>1
<1> DEFINE q == [Idle EXCEPT !.pc = "waiting", !.op = op, !.user = u, !.match = m, !.arg = arg, !.content = c]
<1>3. q \in ReqType /\ q.pc = "waiting" /\ q.match = m /\ q.user = u /\ q.op = op /\ q.arg = arg /\ q.content = c
  <2>1. Idle \in ReqType
    BY Numbers DEF Idle, ReqType
  <2>2. q \in ReqType
    BY <2>1 DEF ReqType
  <2>3. QED BY <2>1, <2>2 DEF ReqType
<1>4. req' = [req EXCEPT ![r] = q] /\ u \in Pair[m]
  BY <1>2 DEF Ask
<1> HIDE DEF q
<1>5. req' \in [Requests -> ReqType]
  BY <1>3, <1>4 DEF Typed
<1>6. UNCHANGED <<row, message, reported, used, limit, closed, pass, spent, told>>
  BY <1>2 DEF Ask
<1>7. Typed'
  BY <1>5, <1>6 DEF Typed
<1>8. Asked'
  BY <1>2, <1>3, <1>4 DEF Asked, Typed
<1>9. \A s \in Requests : req'[s] = req[s] \/ req'[s].pc # "counting"
  BY <1>3, <1>4 DEF Typed
<1>10. Counting' /\ Locked'
  BY <1>6, <1>9, KeepLocks
<1>11. Consents' /\ Settled' /\ Counted' /\ RevealAnnounced'
  BY <1>6 DEF Consents, Settled, Counted, RevealAnnounced
<1>12. QED BY <1>6, <1>7, <1>8, <1>10, <1>11, KeepMessages

\* Commands that end with what they turned, and no more.
LEMMA TurnSafe ==
    ASSUME Typed, Asked, Consents, Counting, Locked, Settled, Counted, RevealAnnounced,
           NEW r \in Requests, req[r].pc = "waiting", Done(r), Free(req[r].match),
           row' = row \/ row' = [row EXCEPT ![req[r].match] = Turned(row[req[r].match], 0)],
           UNCHANGED <<reported, used, limit, closed, pass, spent, told>>
    PROVE  /\ row' \in [Matches -> RowType] /\ req' \in [Requests -> ReqType]
           /\ Asked' /\ Consents' /\ Counting' /\ Locked' /\ Settled' /\ Counted' /\ RevealAnnounced'
<1> DEFINE n == req[r].match
           y == Turned(row[n], 0)
<1>0. n \in Matches /\ row[n] \in RowType /\ 0 \in 0..MaxAge
  BY Requested, Numbers
<1>1. y \in RowType /\ Follows(row[n], y, Pair[n])
  BY <1>0, Turning, Following
<1> HIDE DEF y, n
<1>2. row' \in [Matches -> RowType] /\ \A m \in Matches : row'[m] = row[m] \/ (m = n /\ row'[m] = y)
  BY <1>0, <1>1 DEF Typed, n, y
<1>3. \A m \in Matches : Follows(row[m], row'[m], Pair[m])
  BY <1>0, <1>1, <1>2, Following DEF Typed
<1>4. \A m \in Matches : Free(m) \/ row'[m] = row[m]
  BY <1>2 DEF n
<1>5. Consents' /\ Settled' /\ RevealAnnounced'
  BY <1>3, KeepRows
<1>6. req' \in [Requests -> ReqType] /\ Asked' /\ Counting' /\ Locked'
  BY <1>4, Finishes, KeepLocks
<1>7. Counted'
  BY DEF Counted
<1>8. QED BY <1>2, <1>5, <1>6, <1>7

\* Refusals.
LEMMA RefuseSafe ==
    ASSUME IInv, NEW r \in Requests, Refuse(r) \/ RollBack(r)
    PROVE  IInv'
<1> USE DEF IInv
<1>1. /\ req[r].pc = "waiting" /\ Done(r) /\ Free(req[r].match)
      /\ row' = row \/ row' = [row EXCEPT ![req[r].match] = Turned(row[req[r].match], 0)]
      /\ UNCHANGED <<message, reported, used, limit, closed, pass, spent, told>>
  BY DEF Refuse, RollBack, Granted
<1>2. /\ row' \in [Matches -> RowType] /\ req' \in [Requests -> ReqType]
      /\ Asked' /\ Consents' /\ Counting' /\ Locked' /\ Settled' /\ Counted' /\ RevealAnnounced'
  BY <1>1, TurnSafe
<1>3. Typed'
  BY <1>1, <1>2 DEF Typed
<1>4. QED BY <1>1, <1>2, <1>3, KeepMessages

\* A message is sent.
LEMMA CreateMessageSafe ==
    ASSUME IInv, NEW r \in Requests, CreateMessage(r)
    PROVE  IInv'
<1> USE DEF IInv
<1> DEFINE m == req[r].match
           e == [sender |-> req[r].user, key |-> req[r].arg, content |-> req[r].content, read |-> FALSE]
<1>1. /\ req[r].pc = "waiting" /\ Done(r) /\ Free(m) /\ req[r].op = "send"
      /\ row' = [row EXCEPT ![m] = Turned(row[m], 0)]
      /\ UNCHANGED <<reported, used, limit, closed, pass, spent, told>>
  BY DEF CreateMessage, Granted
<1>2. /\ row' \in [Matches -> RowType] /\ req' \in [Requests -> ReqType]
      /\ Asked' /\ Consents' /\ Counting' /\ Locked' /\ Settled' /\ Counted' /\ RevealAnnounced'
  BY <1>1, TurnSafe
<1>3. \/ message' = message
      \/ Sent(req[r].user, req[r].arg) = {} /\ message' = [message EXCEPT ![m] = Append(message[m], e)]
  BY DEF CreateMessage
<1>4. CASE message' = message
  <2>1. Typed'
    BY <1>1, <1>2, <1>4 DEF Typed
  <2>2. QED BY <1>2, <1>4, <2>1, KeepMessages
<1>5. CASE Sent(req[r].user, req[r].arg) = {} /\ message' = [message EXCEPT ![m] = Append(message[m], e)]
  <2>0. m \in Matches /\ req[r].user \in Pair[m] /\ message[m] \in Seq(MessageType) /\ Len(message[m]) \in Nat
    BY <1>1, Requested
  <2>1. e \in MessageType /\ e.sender = req[r].user /\ e.key = req[r].arg
    BY <1>1, Requested DEF Asked, MessageType
  <2> HIDE DEF e, m
  <2>2. /\ Append(message[m], e) \in Seq(MessageType) /\ Len(Append(message[m], e)) = Len(message[m]) + 1
        /\ \A i \in 1..Len(message[m]) : Append(message[m], e)[i] = message[m][i]
        /\ Append(message[m], e)[Len(message[m]) + 1] = e
    BY <2>0, <2>1, AppendProperties
  <2>3. message' \in [Matches -> Seq(MessageType)]
    BY <1>5, <2>0, <2>2 DEF Typed
  <2>4. /\ \A n \in Matches \ {m} : message'[n] = message[n]
        /\ Len(message'[m]) = Len(message[m]) + 1 /\ message'[m][Len(message[m]) + 1] = e
        /\ \A i \in 1..Len(message[m]) : message'[m][i] = message[m][i]
    BY <1>5, <2>0, <2>2 DEF Typed
  <2>5. \A n \in Matches : \A i \in 1..Len(message'[n]) :
          \/ i \in 1..Len(message[n]) /\ message'[n][i] = message[n][i]
          \/ n = m /\ i = Len(message[m]) + 1 /\ message'[n][i] = e
    BY <2>0, <2>4
  <2>6. \A n \in Matches : \A i \in 1..Len(message[n]) :
          ~(message[n][i].sender = e.sender /\ message[n][i].key = e.key)
    BY <1>5, <2>1, Lookup
  <2>7. SentByPair'
    BY <2>0, <2>1, <2>5 DEF SentByPair
  <2>8. KeyedOnce'
    <3> SUFFICES ASSUME NEW a \in Matches, NEW b \in Matches,
                        NEW i \in 1..Len(message'[a]), NEW j \in 1..Len(message'[b]),
                        message'[a][i].sender = message'[b][j].sender, message'[a][i].key = message'[b][j].key
                 PROVE  a = b /\ i = j
      BY DEF KeyedOnce
    <3>1. CASE i \in 1..Len(message[a]) /\ j \in 1..Len(message[b])
               /\ message'[a][i] = message[a][i] /\ message'[b][j] = message[b][j]
      BY <3>1 DEF KeyedOnce
    <3>2. CASE message'[a][i] = e /\ message'[b][j] = e /\ a = m /\ b = m
               /\ i = Len(message[m]) + 1 /\ j = Len(message[m]) + 1
      BY <3>2
    <3>3. QED BY <2>5, <2>6, <3>1, <3>2
  <2>9. Typed'
    BY <1>1, <1>2, <2>3 DEF Typed
  <2>10. QED BY <1>2, <2>7, <2>8, <2>9
<1>6. QED BY <1>3, <1>4, <1>5

\* Messages are read.
LEMMA MarkReadSafe ==
    ASSUME IInv, NEW r \in Requests, MarkRead(r)
    PROVE  IInv'
<1> USE DEF IInv
<1> DEFINE m == req[r].match
           reads(i) == message[m][i].sender # req[r].user
                       /\ (i = req[r].arg \/ (req[r].content # Nobody /\ i < req[r].arg))
           s == [i \in 1..Len(message[m]) |-> IF reads(i) THEN [message[m][i] EXCEPT !.read = TRUE] ELSE message[m][i]]
<1>1. /\ req[r].pc = "waiting" /\ Done(r) /\ Free(m)
      /\ row' = [row EXCEPT ![m] = Turned(row[m], 0)]
      /\ UNCHANGED <<reported, used, limit, closed, pass, spent, told>>
  BY DEF MarkRead, Granted
<1>2. /\ row' \in [Matches -> RowType] /\ req' \in [Requests -> ReqType]
      /\ Asked' /\ Consents' /\ Counting' /\ Locked' /\ Settled' /\ Counted' /\ RevealAnnounced'
  BY <1>1, TurnSafe
<1>3. message' = message \/ message' = [message EXCEPT ![m] = s]
  BY DEF MarkRead
<1>4. CASE message' = message
  <2>1. Typed'
    BY <1>1, <1>2, <1>4 DEF Typed
  <2>2. QED BY <1>2, <1>4, <2>1, KeepMessages
<1>5. CASE message' = [message EXCEPT ![m] = s]
  <2>0. m \in Matches /\ message[m] \in Seq(MessageType) /\ Len(message[m]) \in Nat
    BY <1>1, Requested
  <2>1. \A i \in 1..Len(message[m]) :
          s[i] \in MessageType /\ s[i].sender = message[m][i].sender /\ s[i].key = message[m][i].key
    <3> SUFFICES ASSUME NEW i \in 1..Len(message[m])
                 PROVE  s[i] \in MessageType /\ s[i].sender = message[m][i].sender /\ s[i].key = message[m][i].key
      OBVIOUS
    <3>1. message[m][i] \in MessageType
      BY <2>0
    <3>2. s[i] = [message[m][i] EXCEPT !.read = TRUE] \/ s[i] = message[m][i]
      OBVIOUS
    <3> HIDE DEF s, m
    <3>3. QED BY <3>1, <3>2 DEF MessageType
  <2>2. s \in [1..Len(message[m]) -> MessageType]
    BY <2>1
  <2> HIDE DEF s, m
  <2>3. s \in Seq(MessageType) /\ Len(s) = Len(message[m])
    BY <2>0, <2>2
  <2>4. message' \in [Matches -> Seq(MessageType)]
    BY <1>5, <2>0, <2>3 DEF Typed
  <2>5. \A n \in Matches : Len(message'[n]) = Len(message[n])
          /\ \A i \in 1..Len(message[n]) : message'[n][i].sender = message[n][i].sender
                                           /\ message'[n][i].key = message[n][i].key
    BY <1>5, <2>0, <2>1, <2>3 DEF Typed
  <2>6. SentByPair' /\ KeyedOnce'
    BY <2>5 DEF SentByPair, KeyedOnce
  <2>7. Typed'
    BY <1>1, <1>2, <2>4 DEF Typed
  <2>8. QED BY <1>2, <2>6, <2>7
<1>6. QED BY <1>3, <1>4, <1>5

\* A reveal.
LEMMA RecordRevealSafe ==
    ASSUME IInv, NEW r \in Requests, RecordReveal(r)
    PROVE  IInv'
<1> USE DEF IInv
<1> DEFINE n == req[r].match
           u == req[r].user
           y == Turned(row[n], 0)
           z == [y EXCEPT !.revealed = y.revealed \cup {u}]
<1>1. /\ req[r].pc = "waiting" /\ Done(r) /\ Free(n) /\ row' = [row EXCEPT ![n] = z]
      /\ told' = IF Pair[n] \subseteq y.revealed \cup {u} THEN told \cup {n} ELSE told
      /\ UNCHANGED <<message, reported, used, limit, closed, pass, spent>>
  BY DEF RecordReveal, Granted
<1>2. n \in Matches /\ row[n] \in RowType /\ u \in Users /\ 0 \in 0..MaxAge
  BY <1>1, Requested, Numbers
<1>3. y \in RowType /\ Follows(row[n], y, Pair[n])
  BY <1>2, Turning, Following
<1> HIDE DEF y, n, u
<1>4. /\ z \in RowType /\ z.status = y.status /\ z.initiator = y.initiator /\ z.continued = y.continued
      /\ z.revealed = y.revealed \cup {u}
  BY <1>2, <1>3 DEF RowType
<1> HIDE DEF z
<1>5. row' \in [Matches -> RowType] /\ row'[n] = z /\ \A m \in Matches \ {n} : row'[m] = row[m]
  BY <1>1, <1>2, <1>4 DEF Typed
<1>6. Agreed(z, Pair[n]) /\ (row[n].status \notin Undecided => z.status \notin Undecided)
  BY <1>2, <1>3, <1>4 DEF Consents, Follows, Agreed
<1>7. Consents'
  BY <1>5, <1>6 DEF Consents
<1>8. Settled'
  BY <1>1, <1>5, <1>6 DEF Settled, Typed
<1>9. RevealAnnounced'
  BY <1>1, <1>2, <1>4, <1>5 DEF RevealAnnounced
<1>10. \A m \in Matches : Free(m) \/ row'[m] = row[m]
  BY <1>1, <1>5
<1>11. req' \in [Requests -> ReqType] /\ Asked' /\ Counting' /\ Locked'
  BY <1>1, <1>10, Finishes, KeepLocks
<1>12. Typed'
  BY <1>1, <1>2, <1>5, <1>11 DEF Typed
<1>13. Counted'
  BY <1>1 DEF Counted
<1>14. QED BY <1>1, <1>7, <1>8, <1>9, <1>11, <1>12, <1>13, KeepMessages

\* A consent that is recorded.
LEMMA Consenting ==
    ASSUME NEW x \in RowType, NEW u \in Users
    PROVE  LET y == Consent(x, u) IN
           /\ y \in RowType /\ y.status = x.status /\ y.left = x.left /\ y.revealed = x.revealed
           /\ y.continued = x.continued \cup {u}
           /\ y.initiator = IF x.initiator = Nobody THEN u ELSE x.initiator
<1> DEFINE i == IF x.initiator = Nobody THEN u ELSE x.initiator
<1>1. i \in Users \cup {Nobody} /\ x.continued \cup {u} \in SUBSET Users
  BY RowFields
<1>2. Consent(x, u) = [x EXCEPT !.continued = x.continued \cup {u}, !.initiator = i]
  BY DEF Consent
<1> HIDE DEF i
<1>3. Consent(x, u) \in RowType
  BY <1>1, <1>2 DEF RowType
<1>4. /\ Consent(x, u).status = x.status /\ Consent(x, u).left = x.left /\ Consent(x, u).revealed = x.revealed
      /\ Consent(x, u).continued = x.continued \cup {u} /\ Consent(x, u).initiator = i
  BY <1>2 DEF RowType
<1>5. QED BY <1>3, <1>4 DEF i

\* The record of a second consent that has the lock.
Charge(q, l) == [q EXCEPT !.pc = "counting", !.age = 0, !.limit = l]

\* The outcomes of a consent: there is nothing to record, it is the first one, or
\* it is the second one and keeps the lock.
LEMMA ContinueEffect ==
    ASSUME Typed, Asked, NEW r \in Requests, Continue(r)
    PROVE  LET m == req[r].match
               u == req[r].user
               x == Turned(row[m], 0)
           IN
           /\ req[r].pc = "waiting" /\ Free(m)
           /\ UNCHANGED <<message, reported, used, limit, closed, pass, spent, told>>
           /\ \/ Done(r) /\ (row' = row \/ row' = [row EXCEPT ![m] = x])
              \/ /\ Done(r) /\ row' = [row EXCEPT ![m] = Consent(x, u)]
                 /\ x.status = "awaiting_continuation" /\ x.initiator = Nobody /\ u \notin x.continued
              \/ /\ row' = [row EXCEPT ![m] = x] /\ req' = [req EXCEPT ![r] = Charge(req[r], limit[x.initiator])]
                 /\ x.status = "awaiting_continuation" /\ x.initiator # Nobody /\ u \notin x.continued
<1> DEFINE m == req[r].match
           u == req[r].user
           x == Turned(row[m], 0)
           records == x.status = "awaiting_continuation" /\ u \notin x.continued
           second == records /\ x.initiator # Nobody
<1>0. req[r].pc = "waiting" /\ Free(m)
      /\ UNCHANGED <<message, reported, used, limit, closed, pass, spent, told>>
  BY DEF Continue, ContinueAt
<1>1. row[m].left \in Int
  BY <1>0, Requested, RowFields
<1>2. x = IF row[m].status = "active" /\ row[m].left + 0 > 0 THEN row[m] ELSE Turned(row[m], 0)
  BY <1>1 DEF Turned
<1>3. /\ row' = [row EXCEPT ![m] = IF records /\ ~second THEN IF Closed(m) THEN row[m] ELSE Consent(x, u) ELSE x]
      /\ req' = [req EXCEPT ![r] = IF second THEN Charge(req[r], limit[x.initiator]) ELSE Idle]
  BY <1>2 DEF Continue, ContinueAt, Charge
<1> HIDE DEF x
<1>4. CASE second
  BY <1>0, <1>3, <1>4 DEF x
<1>5. CASE records /\ ~second
  <2>1. Done(r) /\ row' = [row EXCEPT ![m] = IF Closed(m) THEN row[m] ELSE Consent(x, u)]
    BY <1>3, <1>5 DEF Done
  <2>2. [row EXCEPT ![m] = row[m]] = row
    BY DEF Typed
  <2>3. QED BY <1>0, <1>5, <2>1, <2>2 DEF x
<1>6. CASE ~records
  BY <1>0, <1>3, <1>6 DEF x, Done
<1>7. QED BY <1>4, <1>5, <1>6

\* Consents.
LEMMA ContinueSafe ==
    ASSUME IInv, NEW r \in Requests, Continue(r)
    PROVE  IInv'
<1> USE DEF IInv
<1> DEFINE n == req[r].match
           u == req[r].user
           x == Turned(row[n], 0)
<1>1. /\ req[r].pc = "waiting" /\ Free(n)
      /\ UNCHANGED <<message, reported, used, limit, closed, pass, spent, told>>
  BY ContinueEffect
<1>2. n \in Matches /\ row[n] \in RowType /\ u \in Users /\ u \in Pair[n] /\ 0 \in 0..MaxAge /\ req[r] \in ReqType
  BY <1>1, Requested, Numbers
<1>3. /\ x \in RowType /\ Follows(row[n], x, Pair[n]) /\ Agreed(x, Pair[n])
      /\ x.status \in Undecided => x.left > 0
  <2>1. x \in RowType /\ Follows(row[n], x, Pair[n])
    BY <1>2, Turning, Following
  <2>2. x.status \in Undecided => x.left + 0 > 0
    BY <1>2, Turning
  <2>3. Agreed(x, Pair[n])
    BY <1>2, <2>1 DEF Follows, Consents
  <2>4. QED BY <2>1, <2>2, <2>3, RowFields
<1>4. CASE Done(r) /\ (row' = row \/ row' = [row EXCEPT ![n] = x])
  <2>1. /\ row' \in [Matches -> RowType] /\ req' \in [Requests -> ReqType]
        /\ Asked' /\ Consents' /\ Counting' /\ Locked' /\ Settled' /\ Counted' /\ RevealAnnounced'
    BY <1>1, <1>4, TurnSafe
  <2>2. Typed'
    BY <1>1, <2>1 DEF Typed
  <2>3. QED BY <1>1, <2>1, <2>2, KeepMessages
<1>5. CASE /\ Done(r) /\ row' = [row EXCEPT ![n] = Consent(x, u)]
           /\ x.status = "awaiting_continuation" /\ x.initiator = Nobody /\ u \notin x.continued
  <2> DEFINE y == Consent(x, u)
  <2> HIDE DEF x, n, u
  <2>1. /\ y \in RowType /\ y.status = "awaiting_continuation" /\ y.revealed = x.revealed
        /\ y.continued = x.continued \cup {u} /\ y.initiator = u
    BY <1>2, <1>3, <1>5, Consenting
  <2>2. row' = [row EXCEPT ![n] = y]
    BY <1>5
  <2> HIDE DEF y
  <2>3. Nobody \notin Pair[n]
    BY <1>2, Pairs
  <2>4. x.continued = {}
    BY <1>3, <1>5, <2>3 DEF Agreed
  <2>5. Agreed(y, Pair[n])
    BY <1>2, <2>1, <2>4 DEF Agreed
  <2>6. row[n].status \notin Undecided => y.status \notin Undecided
    BY <1>3, <1>5, <2>1 DEF Follows
  <2>7. y.revealed = Pair[n] => row[n].revealed = Pair[n]
    BY <1>3, <2>1 DEF Follows
  <2>8. Follows(row[n], y, Pair[n])
    BY <2>1, <2>5, <2>6, <2>7 DEF Follows
  <2>9. row' \in [Matches -> RowType] /\ row'[n] = y /\ \A m \in Matches \ {n} : row'[m] = row[m]
    BY <1>2, <2>1, <2>2 DEF Typed
  <2>10. \A m \in Matches : Follows(row[m], row'[m], Pair[m])
    BY <2>8, <2>9, Unmoved DEF Typed
  <2>11. Consents' /\ Settled' /\ RevealAnnounced'
    BY <1>1, <2>10, KeepRows
  <2>12. \A m \in Matches : Free(m) \/ row'[m] = row[m]
    BY <1>1, <2>9
  <2>13. req' \in [Requests -> ReqType] /\ Asked' /\ Counting' /\ Locked'
    BY <1>5, <2>12, Finishes, KeepLocks
  <2>14. Typed' /\ Counted'
    BY <1>1, <2>9, <2>13 DEF Typed, Counted
  <2>15. QED BY <1>1, <2>11, <2>13, <2>14, KeepMessages
<1>6. CASE /\ row' = [row EXCEPT ![n] = x] /\ req' = [req EXCEPT ![r] = Charge(req[r], limit[x.initiator])]
           /\ x.status = "awaiting_continuation" /\ x.initiator # Nobody /\ u \notin x.continued
  <2> DEFINE q == Charge(req[r], limit[x.initiator])
  <2> HIDE DEF x
  <2>1. limit[x.initiator] \in Limits
    BY <1>3, <1>6, RowFields DEF Typed
  <2>2. /\ q \in ReqType /\ q.pc = "counting" /\ q.age = 0 /\ q.match = n /\ q.user = u /\ q.op = req[r].op
        /\ q.arg = req[r].arg /\ q.content = req[r].content
    <3>1. q \in ReqType
      BY <1>2, <2>1, Numbers DEF Charge, ReqType
    <3>2. QED BY <1>2, <3>1 DEF Charge, ReqType
  <2>3. req' = [req EXCEPT ![r] = q]
    BY <1>6
  <2> HIDE DEF q, n, u
  <2>4. row' \in [Matches -> RowType] /\ row'[n] = x /\ \A m \in Matches \ {n} : row'[m] = row[m]
    BY <1>2, <1>3, <1>6 DEF Typed
  <2>5. req' \in [Requests -> ReqType] /\ req'[r] = q /\ \A s \in Requests \ {r} : req'[s] = req[s]
    BY <2>2, <2>3 DEF Typed
  <2>6. \A m \in Matches : Follows(row[m], row'[m], Pair[m])
    BY <1>3, <2>4, Unmoved DEF Typed
  <2>7. Consents' /\ Settled' /\ RevealAnnounced'
    BY <1>1, <2>6, KeepRows
  <2>8. Asked'
    BY <1>1, <2>2, <2>5 DEF Asked, n, u
  <2>9. Charging(x, q)
    BY <1>3, <1>6, <2>2, RowFields DEF Charging, Undecided
  <2>10. ASSUME NEW s \in Requests \ {r}, req[s].pc = "counting"
         PROVE  req[s].match # n /\ req[s].match \in Matches
    BY <1>1, <2>10 DEF Free, Asked
  <2>11. Counting'
    <3> SUFFICES ASSUME NEW s \in Requests, req'[s].pc = "counting"
                 PROVE  Charging(row'[req'[s].match], req'[s])
      BY DEF Counting
    <3>1. CASE s = r
      BY <3>1, <2>2, <2>4, <2>5, <2>9
    <3>2. CASE s # r
      <4>1. req'[s] = req[s] /\ row'[req[s].match] = row[req[s].match]
        BY <3>2, <2>4, <2>5, <2>10
      <4>2. QED BY <4>1 DEF Counting
    <3>3. QED BY <3>1, <3>2
  <2>12. Locked'
    <3> SUFFICES ASSUME NEW s \in Requests, NEW t \in Requests, req'[s].pc = "counting", req'[t].pc = "counting",
                        req'[s].match = req'[t].match, s # t
                 PROVE  FALSE
      BY DEF Locked
    <3>1. CASE s = r
      BY <3>1, <2>2, <2>5, <2>10
    <3>2. CASE t = r
      BY <3>2, <2>2, <2>5, <2>10
    <3>3. CASE s # r /\ t # r
      BY <3>3, <2>5 DEF Locked
    <3>4. QED BY <3>1, <3>2, <3>3
  <2>13. Typed' /\ Counted'
    BY <1>1, <2>4, <2>5 DEF Typed, Counted
  <2>14. QED BY <1>1, <2>7, <2>8, <2>11, <2>12, <2>13, KeepMessages
<1>7. QED BY <1>4, <1>5, <1>6, ContinueEffect

\* The second consent always makes the two, within the window: it confirms the
\* match, and is charged at most once.
LEMMA ConfirmEffect ==
    ASSUME IInv, NEW r \in Requests, Confirm(r)
    PROVE  LET m == req[r].match
               i == row[m].initiator
               y == [Consent(row[m], req[r].user) EXCEPT !.status = "confirmed", !.left = 0]
           IN
           /\ req[r].pc = "counting" /\ Done(r) /\ UNCHANGED <<message, reported, limit, closed, pass, told>>
           /\ m \in Matches /\ i \in Users /\ row[m].status \in Undecided
           /\ y \in RowType /\ y.status = "confirmed" /\ y.continued = Pair[m] /\ y.revealed = row[m].revealed
           /\ \/ UNCHANGED <<row, used, spent>>
              \/ /\ ~QuotaReached(r, i) /\ row' = [row EXCEPT ![m] = y]
                 /\ \/ req[r].limit # Unlimited /\ used' = [used EXCEPT ![i] = @ + 1]
                       /\ spent' = [spent EXCEPT ![i] = @ \cup {m}]
                    \/ UNCHANGED <<used, spent>>
<1> USE DEF IInv
<1> DEFINE m == req[r].match
           i == row[m].initiator
           u == req[r].user
           x == Consent(row[m], u)
           y == [x EXCEPT !.status = "confirmed", !.left = 0]
<1>1. req[r].pc = "counting" /\ Done(r) /\ UNCHANGED <<message, reported, limit, closed, pass, told>>
  BY DEF Confirm
<1>2. m \in Matches /\ u \in Pair[m] /\ u \in Users /\ row[m] \in RowType /\ req[r].age \in Nat
  BY <1>1, Requested
<1>3. Charging(row[m], req[r]) /\ Agreed(row[m], Pair[m])
  BY <1>1, <1>2 DEF Counting, Consents
<1>4. i \in Pair[m] /\ row[m].continued = {i} /\ u # i /\ row[m].status \in Undecided /\ i \in Users
  BY <1>2, <1>3, Pairs DEF Charging, Agreed, Undecided
<1>5. {i, u} = Pair[m]
  BY <1>2, <1>4, Pairs
<1> HIDE DEF m, i, u
<1>6. x \in RowType /\ x.left = row[m].left /\ x.continued = Pair[m] /\ x.revealed = row[m].revealed
  <2>1. x \in RowType /\ x.left = row[m].left /\ x.continued = row[m].continued \cup {u} /\ x.revealed = row[m].revealed
    BY <1>2, Consenting
  <2>2. QED BY <1>4, <1>5, <2>1
<1>7. x.left + req[r].age > 0
  BY <1>3, <1>6 DEF Charging
<1> HIDE DEF x
<1>8. y \in RowType /\ y.status = "confirmed" /\ y.continued = Pair[m] /\ y.revealed = row[m].revealed
  <2>1. 0 \in -MaxAge..Window /\ "confirmed" \in Live \cup {"expired", "ended", "none"}
    BY Numbers DEF Live
  <2>2. y \in RowType
    BY <1>6, <2>1 DEF RowType
  <2>3. QED BY <1>6, <2>2 DEF RowType
<1>9. IF QuotaReached(r, i) \/ Closed(m) THEN UNCHANGED <<row, used, spent>>
      ELSE /\ row' = [row EXCEPT ![m] = IF x.left + req[r].age > 0 /\ x.continued = Pair[m] THEN y ELSE x]
           /\ used' = IF req[r].limit # Unlimited THEN [used EXCEPT ![i] = @ + 1] ELSE used
           /\ spent' = IF req[r].limit # Unlimited /\ (x.left + req[r].age > 0 /\ x.continued = Pair[m])
                       THEN [spent EXCEPT ![i] = @ \cup {m}] ELSE spent
  BY DEF Confirm, x, m, i, u
<1>10. \/ UNCHANGED <<row, used, spent>>
       \/ /\ ~QuotaReached(r, i) /\ row' = [row EXCEPT ![m] = y]
          /\ \/ req[r].limit # Unlimited /\ used' = [used EXCEPT ![i] = @ + 1]
                /\ spent' = [spent EXCEPT ![i] = @ \cup {m}]
             \/ UNCHANGED <<used, spent>>
  BY <1>6, <1>7, <1>9
<1>11. QED BY <1>1, <1>2, <1>4, <1>8, <1>10 DEF m, i, u, x

\* The charge and the confirmation.
LEMMA ConfirmSafe ==
    ASSUME IInv, NEW r \in Requests, Confirm(r)
    PROVE  IInv'
<1> USE DEF IInv
<1> DEFINE n == req[r].match
           i == row[n].initiator
           y == [Consent(row[n], req[r].user) EXCEPT !.status = "confirmed", !.left = 0]
<1>1. /\ req[r].pc = "counting" /\ Done(r) /\ UNCHANGED <<message, reported, limit, closed, pass, told>>
      /\ n \in Matches /\ i \in Users /\ row[n].status \in Undecided
      /\ y \in RowType /\ y.status = "confirmed" /\ y.continued = Pair[n] /\ y.revealed = row[n].revealed
  BY ConfirmEffect
<1>2. \/ UNCHANGED <<row, used, spent>>
      \/ /\ row' = [row EXCEPT ![n] = y]
         /\ \/ used' = [used EXCEPT ![i] = @ + 1] /\ spent' = [spent EXCEPT ![i] = @ \cup {n}]
            \/ UNCHANGED <<used, spent>>
  BY ConfirmEffect
<1> HIDE DEF n, i, y
<1>3. /\ req' \in [Requests -> ReqType] /\ Asked' /\ req'[r].pc = "idle"
      /\ \A q \in Requests : q # r => req'[q] = req[q]
  BY <1>1, Finishes
<1>4. CASE UNCHANGED <<row, used, spent>>
  <2>1. Counting' /\ Locked'
    BY <1>3, <1>4 DEF Counting, Locked
  <2>2. Typed' /\ Consents' /\ Settled' /\ Counted' /\ RevealAnnounced'
    BY <1>1, <1>3, <1>4 DEF Typed, Consents, Settled, Counted, RevealAnnounced
  <2>3. QED BY <1>1, <1>3, <2>1, <2>2, KeepMessages
<1>5. CASE /\ row' = [row EXCEPT ![n] = y]
           /\ \/ used' = [used EXCEPT ![i] = @ + 1] /\ spent' = [spent EXCEPT ![i] = @ \cup {n}]
              \/ UNCHANGED <<used, spent>>
  <2>1. row' \in [Matches -> RowType] /\ row'[n] = y /\ \A m \in Matches \ {n} : row'[m] = row[m]
    BY <1>1, <1>5 DEF Typed
  <2>2. Consents' /\ RevealAnnounced'
    BY <1>1, <2>1 DEF Consents, RevealAnnounced, Agreed
  <2>3. Counting'
    <3> SUFFICES ASSUME NEW s \in Requests, req'[s].pc = "counting"
                 PROVE  Charging(row'[req'[s].match], req'[s])
      BY DEF Counting
    <3>1. s # r /\ req'[s] = req[s]
      BY <1>3
    <3>2. req[s].match \in Matches /\ req[s].match # n
      BY <1>1, <3>1 DEF Locked, Asked, n
    <3>3. QED BY <2>1, <3>1, <3>2 DEF Counting
  <2>4. Locked'
    BY <1>3 DEF Locked
  <2>5. CASE UNCHANGED <<used, spent>>
    <3>1. Settled' /\ Counted'
      BY <1>1, <2>1, <2>5 DEF Settled, Counted, Typed, Undecided
    <3>2. Typed'
      BY <1>1, <1>3, <2>1, <2>5 DEF Typed
    <3>3. QED BY <1>1, <1>3, <2>2, <2>3, <2>4, <3>1, <3>2, KeepMessages
  <2>6. CASE used' = [used EXCEPT ![i] = @ + 1] /\ spent' = [spent EXCEPT ![i] = @ \cup {n}]
    <3>1. /\ used' \in [Users -> Nat] /\ used'[i] = used[i] + 1 /\ \A u \in Users \ {i} : used'[u] = used[u]
          /\ spent' \in [Users -> SUBSET Matches] /\ spent'[i] = spent[i] \cup {n}
          /\ \A u \in Users \ {i} : spent'[u] = spent[u]
      BY <1>1, <2>6 DEF Typed
    <3>2. n \notin spent[i]
      BY <1>1 DEF Settled
    <3>3. Cardinality(spent[i] \cup {n}) = Cardinality(spent[i]) + 1
      <4>1. spent[i] \in SUBSET Matches /\ IsFiniteSet(Matches)
        BY <1>1, MatchAssumption DEF Typed
      <4>2. IsFiniteSet(spent[i])
        BY <4>1, FS_Subset
      <4>3. QED BY <3>2, <4>2, FS_AddElement
    <3>4. Counted'
      BY <1>1, <3>1, <3>3 DEF Counted
    <3>5. Settled'
      <4> SUFFICES ASSUME NEW u \in Users, NEW m \in spent'[u] PROVE row'[m].status \notin Undecided
        BY DEF Settled
      <4>1. m \in Matches /\ (m = n \/ m \in spent[u])
        BY <3>1
      <4>2. CASE m = n
        BY <1>1, <2>1, <4>2 DEF Undecided
      <4>3. CASE m # n
        BY <2>1, <4>1, <4>3 DEF Settled
      <4>4. QED BY <4>2, <4>3
    <3>6. Typed'
      BY <1>1, <1>3, <2>1, <3>1 DEF Typed
    <3>7. QED BY <1>1, <1>3, <2>2, <2>3, <2>4, <3>4, <3>5, <3>6, KeepMessages
  <2>7. QED BY <1>5, <2>5, <2>6
<1>6. QED BY <1>2, <1>4, <1>5

-----------------------------------------------------------------------------
(* What others do to a match.                                              *)

\* A step that changes neither a row, a command nor a usage.
LEMMA Apart ==
    ASSUME IInv, UNCHANGED <<row, message, used, req, spent, told>>,
           reported' \subseteq Matches, limit' \in [Users -> Limits], closed' \subseteq Users, pass' \in PassType
    PROVE  IInv'
<1> USE DEF IInv
<1>1. Typed'
  BY DEF Typed
<1>2. Asked' /\ Consents' /\ Counting' /\ Locked' /\ Settled' /\ Counted' /\ RevealAnnounced'
  BY DEF Asked, Consents, Counting, Locked, Settled, Counted, RevealAnnounced
<1>3. QED BY <1>1, <1>2, KeepMessages

\* Reports, the acceptance of an erasure, and the plans.
LEMMA OthersSafe ==
    ASSUME IInv,
           \/ \E m \in Matches : Report(m)
           \/ \E u \in Users : CloseAccount(u) \/ PlanChanges(u)
    PROVE  IInv'
<1> USE DEF IInv
<1>0. reported \subseteq Matches /\ limit \in [Users -> Limits] /\ closed \subseteq Users /\ pass \in PassType
  BY DEF Typed
<1>1. ASSUME NEW m \in Matches, Report(m) PROVE IInv'
  BY <1>0, <1>1, Apart DEF Report
<1>2. ASSUME NEW u \in Users, CloseAccount(u) PROVE IInv'
  BY <1>0, <1>2, Apart DEF CloseAccount
<1>3. ASSUME NEW u \in Users, PlanChanges(u) PROVE IInv'
  <2>1. limit' \in [Users -> Limits]
    BY <1>0, <1>3 DEF PlanChanges
  <2>2. QED BY <1>0, <1>3, <2>1, Apart DEF PlanChanges
<1>4. QED BY <1>1, <1>2, <1>3

\* A step that takes rows it has the lock of further, and commands with it.
LEMMA RowsSafe ==
    ASSUME IInv, row' \in [Matches -> RowType], \A m \in Matches : Follows(row[m], row'[m], Pair[m]),
           \A m \in Matches : Free(m) \/ row'[m] = row[m],
           UNCHANGED <<req, told>>, \A u \in Users : spent'[u] \subseteq spent[u]
    PROVE  Asked' /\ Consents' /\ Counting' /\ Locked' /\ Settled' /\ RevealAnnounced'
<1> USE DEF IInv
<1>1. Consents' /\ Settled' /\ RevealAnnounced'
  BY KeepRows
<1>2. Counting' /\ Locked'
  BY KeepLocks
<1>3. QED BY <1>1, <1>2 DEF Asked

\* A block.
LEMMA BlockSafe ==
    ASSUME IInv, NEW n \in Matches, Block(n)
    PROVE  IInv'
<1> USE DEF IInv
<1>1. Free(n) /\ row' = [row EXCEPT ![n] = End(row[n])]
      /\ UNCHANGED <<message, reported, used, limit, closed, req, pass, spent, told>>
  BY DEF Block
<1>2. row[n] \in RowType /\ End(row[n]) \in RowType /\ Follows(row[n], End(row[n]), Pair[n])
  BY Ends, Following, Numbers DEF Typed
<1>3. row' \in [Matches -> RowType] /\ row'[n] = End(row[n]) /\ \A m \in Matches \ {n} : row'[m] = row[m]
  BY <1>1, <1>2 DEF Typed
<1>4. \A m \in Matches : Follows(row[m], row'[m], Pair[m])
  BY <1>2, <1>3, Unmoved DEF Typed
<1>5. \A m \in Matches : Free(m) \/ row'[m] = row[m]
  BY <1>1, <1>3
<1>6. Asked' /\ Consents' /\ Counting' /\ Locked' /\ Settled' /\ RevealAnnounced'
  BY <1>1, <1>3, <1>4, <1>5, RowsSafe
<1>7. Typed' /\ Counted'
  BY <1>1, <1>3 DEF Typed, Counted
<1>8. QED BY <1>1, <1>6, <1>7, KeepMessages

\* The redaction of an account.
LEMMA AnonymizeSafe ==
    ASSUME IInv, NEW u \in Users, Anonymize(u)
    PROVE  IInv'
<1> USE DEF IInv
<1> DEFINE z(m) == [End(row[m]) EXCEPT !.continued = End(row[m]).continued \ {u},
                                       !.revealed = End(row[m]).revealed \ {u}]
<1>1. /\ \A m \in Matches : u \in Pair[m] => Free(m)
      /\ row' = [m \in Matches |-> IF u \in Pair[m] THEN z(m) ELSE row[m]]
      /\ used' = [used EXCEPT ![u] = 0] /\ spent' = [spent EXCEPT ![u] = {}]
      /\ UNCHANGED <<message, reported, limit, closed, req, pass, told>>
  BY DEF Anonymize
<1>2. ASSUME NEW m \in Matches, u \in Pair[m] PROVE z(m) \in RowType /\ Follows(row[m], z(m), Pair[m])
  <2>1. End(row[m]) \in RowType /\ End(row[m]).status \notin Live
    BY Ends DEF Typed
  <2>2. z(m) \in RowType /\ z(m).status = End(row[m]).status /\ z(m).revealed = End(row[m]).revealed \ {u}
    <3>1. z(m) \in RowType
      BY <2>1 DEF RowType
    <3>2. QED BY <2>1, <3>1 DEF RowType
  <2> HIDE DEF z
  <2>3. z(m).revealed # Pair[m]
    BY <1>2, <2>2
  <2>4. QED BY <2>1, <2>2, <2>3 DEF Follows, Agreed, Undecided, Live
<1> HIDE DEF z
<1>3. row' \in [Matches -> RowType] /\ \A m \in Matches : row'[m] = IF u \in Pair[m] THEN z(m) ELSE row[m]
  BY <1>1, <1>2 DEF Typed
<1>4. \A m \in Matches : Follows(row[m], row'[m], Pair[m])
  BY <1>2, <1>3, Unmoved DEF Typed
<1>5. \A m \in Matches : Free(m) \/ row'[m] = row[m]
  BY <1>1, <1>3
<1>6. /\ used' \in [Users -> Nat] /\ spent' \in [Users -> SUBSET Matches]
      /\ used'[u] = 0 /\ spent'[u] = {} /\ \A v \in Users \ {u} : used'[v] = used[v] /\ spent'[v] = spent[v]
  BY <1>1 DEF Typed
<1>7. Asked' /\ Consents' /\ Counting' /\ Locked' /\ Settled' /\ RevealAnnounced'
  BY <1>1, <1>3, <1>4, <1>5, <1>6, RowsSafe
<1>8. Counted'
  BY <1>6, FS_EmptySet DEF Counted
<1>9. Typed'
  BY <1>1, <1>3, <1>6 DEF Typed
<1>10. QED BY <1>1, <1>7, <1>8, <1>9, KeepMessages

-----------------------------------------------------------------------------
(* Time and maintenance.                                                   *)

\* A new week.
LEMMA NewWeekSafe ==
    ASSUME IInv, NewWeek
    PROVE  IInv'
<1> USE DEF IInv
<1>1. /\ used' = [u \in Users |-> 0] /\ spent' = [u \in Users |-> {}]
      /\ UNCHANGED <<row, message, reported, limit, closed, req, pass, told>>
  BY DEF NewWeek
<1>2. Typed' /\ Settled'
  BY <1>1 DEF Typed, Settled
<1>3. Counted'
  BY <1>1, FS_EmptySet DEF Counted
<1>4. Asked' /\ Consents' /\ Counting' /\ Locked' /\ RevealAnnounced'
  BY <1>1 DEF Asked, Consents, Counting, Locked, RevealAnnounced
<1>5. QED BY <1>1, <1>2, <1>3, <1>4, KeepMessages

\* A tick takes as much from the window as it adds to the age of the one who has
\* the lock.
LEMMA TickSafe ==
    ASSUME IInv, Tick
    PROVE  IInv'
<1> USE DEF IInv
<1>1. /\ row' = [m \in Matches |-> Later(row[m])]
      /\ req' = [r \in Requests |-> IF req[r].pc = "idle" THEN Idle ELSE [req[r] EXCEPT !.age = @ + 1]]
      /\ pass' = IF pass.on THEN [pass EXCEPT !.age = @ + 1] ELSE pass
      /\ pass.on => pass.age < MaxAge
      /\ \A r \in Requests : req[r].pc # "idle" => req[r].age < MaxAge
      /\ UNCHANGED <<message, reported, used, limit, closed, spent, told>>
  BY DEF Tick
<1>2. row' \in [Matches -> RowType] /\ \A m \in Matches : row'[m] = Later(row[m])
  BY <1>1, Laters DEF Typed
<1>3. \A m \in Matches : Follows(row[m], row'[m], Pair[m])
  BY <1>2, Following, Numbers DEF Typed
<1>4. pass' \in PassType
  <2>1. CASE pass.on
    <3>1. pass.age + 1 \in 0..MaxAge
      BY <1>1, <2>1, Numbers DEF Typed, PassType
    <3>2. QED BY <1>1, <2>1, <3>1 DEF Typed, PassType
  <2>2. CASE ~pass.on
    BY <1>1, <2>2 DEF Typed
  <2>3. QED BY <2>1, <2>2
<1>5. \A r \in Requests : req[r].pc = "idle" => req'[r] = Idle /\ Idle \in ReqType /\ Idle.pc = "idle"
  BY <1>1, Numbers DEF Idle, ReqType
<1>6. ASSUME NEW r \in Requests, req[r].pc # "idle"
      PROVE  /\ req'[r] \in ReqType /\ req'[r].age = req[r].age + 1 /\ req[r].age \in Nat
             /\ req'[r].pc = req[r].pc /\ req'[r].match = req[r].match /\ req'[r].user = req[r].user
             /\ req'[r].op = req[r].op /\ req'[r].arg = req[r].arg /\ req'[r].content = req[r].content
  <2>1. req[r] \in ReqType /\ req'[r] = [req[r] EXCEPT !.age = req[r].age + 1] /\ req[r].age < MaxAge
    BY <1>1, <1>6 DEF Typed
  <2>2. req[r].age + 1 \in 0..MaxAge /\ req[r].age \in Nat
    BY <2>1, Numbers DEF ReqType
  <2>3. req'[r] \in ReqType
    BY <2>1, <2>2 DEF ReqType
  <2>4. QED BY <2>1, <2>2, <2>3 DEF ReqType
<1>7. req' \in [Requests -> ReqType]
  <2>1. \A r \in Requests : req'[r] \in ReqType
    BY <1>5, <1>6
  <2>2. QED BY <1>1, <2>1
<1>8. Typed'
  BY <1>1, <1>2, <1>4, <1>7 DEF Typed
<1>9. Asked' /\ Locked'
  BY <1>5, <1>6 DEF Asked, Locked
<1>10. Counting'
  <2> SUFFICES ASSUME NEW r \in Requests, req'[r].pc = "counting"
               PROVE  Charging(row'[req'[r].match], req'[r])
    BY DEF Counting
  <2> DEFINE m == req[r].match
  <2>1. req[r].pc = "counting"
    BY <1>5, <1>6
  <2>2. m \in Matches /\ Charging(row[m], req[r]) /\ row[m] \in RowType /\ row'[m] = Later(row[m])
    BY <1>2, <2>1 DEF Counting, Asked, Typed
  <2>3. req'[r].match = m /\ req'[r].age = req[r].age + 1 /\ req[r].age \in Nat /\ req'[r].user = req[r].user
    BY <1>6, <2>1
  <2> HIDE DEF m
  <2>4. /\ row'[m].status = row[m].status /\ row'[m].initiator = row[m].initiator
        /\ row'[m].continued = row[m].continued
        /\ row'[m].left + 1 >= row[m].left /\ row'[m].left \in Int /\ row[m].left \in Int
    BY <1>2, <2>2, Laters, RowFields DEF Charging, Undecided
  <2>5. QED BY <2>2, <2>3, <2>4 DEF Charging
<1>11. Consents' /\ Settled' /\ RevealAnnounced'
  BY <1>1, <1>3, KeepRows
<1>12. Counted'
  BY <1>1 DEF Counted
<1>13. QED BY <1>1, <1>8, <1>9, <1>10, <1>11, <1>12, KeepMessages

\* A batch takes some of its candidates.
LEMMA Chosen ==
    ASSUME NEW c, NEW b \in Batches(c)
    PROVE  b \subseteq c
BY DEF Batches

\* What a batch of maintenance has done to a match: its windows are turned by the
\* clock of the pass, and it loses its first messages or its row only after its
\* purge date.
LEMMA BatchEffect ==
    ASSUME Typed, Batch
    PROVE  /\ row' \in [Matches -> RowType]
           /\ \A m \in Matches : Follows(row[m], row'[m], Pair[m]) /\ (Free(m) \/ row'[m] = row[m])
           /\ \A m \in Matches : \E k \in Nat :
                /\ message'[m] = SubSeq(message[m], 1 + k, Len(message[m]))
                /\ k > 0 => row[m].status \in {"expired", "ended"} /\ row[m].purge <= 0
           /\ \A m \in Matches : row'[m].status = "none" =>
                row[m].status = "none" \/ (row[m].status \in {"expired", "ended"} /\ row[m].purge <= 0)
           /\ reported' \subseteq Matches /\ pass' \in PassType /\ message' = [m \in Matches |-> message'[m]]
           /\ UNCHANGED <<used, limit, closed, req, spent, told>>
<1>0. pass.age \in 0..MaxAge /\ pass.age \in Nat /\ reported \subseteq Matches
  BY Numbers DEF Typed, PassType
<1>1. PICK opened \in Batches(Due(row, "active")) :
       \E expired \in Batches(Due(Opened(opened), "awaiting_continuation")) :
       LET rows == Expired(Opened(opened), expired) IN
       \E deleted \in Batches(Stored(Over(rows))), detached \in Batches(reported \cap Over(rows)) :
       \E purged \in Batches({m \in Over(rows) \ (reported \ detached) : Free(m) /\ Remaining(deleted)[m] = <<>>}) :
         /\ row' = [m \in Matches |-> IF m \in purged THEN NoRow ELSE rows[m]]
         /\ message' = Remaining(deleted) /\ reported' = reported \ detached
         /\ \/ pass' = NoPass
            \/ /\ \E s \in {opened, expired, deleted, detached, purged} : Cardinality(s) >= BatchSize
               /\ UNCHANGED pass
  BY DEF Batch
<1> DEFINE row1 == Opened(opened)
<1>2. PICK expired \in Batches(Due(row1, "awaiting_continuation")) :
       LET rows == Expired(row1, expired) IN
       \E deleted \in Batches(Stored(Over(rows))), detached \in Batches(reported \cap Over(rows)) :
       \E purged \in Batches({m \in Over(rows) \ (reported \ detached) : Free(m) /\ Remaining(deleted)[m] = <<>>}) :
         /\ row' = [m \in Matches |-> IF m \in purged THEN NoRow ELSE rows[m]]
         /\ message' = Remaining(deleted) /\ reported' = reported \ detached
         /\ \/ pass' = NoPass
            \/ /\ \E s \in {opened, expired, deleted, detached, purged} : Cardinality(s) >= BatchSize
               /\ UNCHANGED pass
  BY <1>1
<1> DEFINE row2 == Expired(row1, expired)
<1> HIDE DEF row1, row2
<1>3. PICK deleted \in Batches(Stored(Over(row2))), detached \in Batches(reported \cap Over(row2)) :
       \E purged \in Batches({m \in Over(row2) \ (reported \ detached) : Free(m) /\ Remaining(deleted)[m] = <<>>}) :
         /\ row' = [m \in Matches |-> IF m \in purged THEN NoRow ELSE row2[m]]
         /\ message' = Remaining(deleted) /\ reported' = reported \ detached
         /\ \/ pass' = NoPass
            \/ /\ \E s \in {opened, expired, deleted, detached, purged} : Cardinality(s) >= BatchSize
               /\ UNCHANGED pass
  BY <1>2 DEF row2
<1> DEFINE taken(m) == {d \in deleted : d[1] = m}
<1>4. PICK purged : /\ \A m \in purged : m \in Over(row2) /\ Free(m)
                    /\ row' = [m \in Matches |-> IF m \in purged THEN NoRow ELSE row2[m]]
                    /\ message' = [m \in Matches |-> SubSeq(message[m], 1 + Cardinality(taken(m)), Len(message[m]))]
                    /\ reported' = reported \ detached /\ (pass' = NoPass \/ pass' = pass)
  <2>1. PICK purged \in Batches({m \in Over(row2) \ (reported \ detached) : Free(m) /\ Remaining(deleted)[m] = <<>>}) :
          /\ row' = [m \in Matches |-> IF m \in purged THEN NoRow ELSE row2[m]]
          /\ message' = Remaining(deleted) /\ reported' = reported \ detached
          /\ (pass' = NoPass \/ pass' = pass)
    BY <1>3
  <2>2. \A m \in purged : m \in Over(row2) /\ Free(m)
    BY <2>1, Chosen
  <2>3. message' = [m \in Matches |-> SubSeq(message[m], 1 + Cardinality(taken(m)), Len(message[m]))]
    BY <2>1 DEF Remaining
  <2> HIDE DEF taken
  <2>4. QED BY <2>1, <2>2, <2>3
<1>5. ASSUME NEW m \in Matches
      PROVE  /\ row1[m] \in RowType /\ Follows(row[m], row1[m], Pair[m])
             /\ \/ row1[m] = row[m]
                \/ Free(m) /\ row[m].status = "active" /\ row1[m].status = "awaiting_continuation"
  <2>1. m \in opened => Free(m) /\ row[m].status = "active"
    BY Chosen DEF Due
  <2>2. row[m] \in RowType /\ row1[m] = IF m \in opened THEN Open(row[m], pass.age) ELSE row[m]
    BY DEF Typed, row1, Opened
  <2>3. QED BY <1>0, <2>1, <2>2, Opens, Following, Unmoved
<1>6. ASSUME NEW m \in Matches
      PROVE  /\ row2[m] \in RowType /\ Follows(row[m], row2[m], Pair[m])
             /\ \/ row2[m] = row[m]
                \/ Free(m) /\ row[m].status \in Undecided
                   /\ \/ row2[m].status = "awaiting_continuation"
                      \/ row2[m].status = "expired" /\ row2[m].purge + pass.age = PurgeDelay
  <2>1. m \in expired => Free(m) /\ row1[m].status = "awaiting_continuation"
    BY Chosen DEF Due
  <2>2. row2[m] = IF m \in expired THEN Expire(row1[m], pass.age) ELSE row1[m]
    BY DEF row2, Expired
  <2>3. CASE m \notin expired
    BY <1>5, <2>2, <2>3 DEF Undecided
  <2>4. CASE m \in expired
    <3>1. /\ row2[m] \in RowType /\ row2[m].status = "expired" /\ row2[m].purge = PurgeDelay - pass.age
          /\ Follows(row1[m], row2[m], Pair[m])
      BY <1>0, <1>5, <2>1, <2>2, <2>4, Expires, Following
    <3>2. row2[m].purge + pass.age = PurgeDelay
      BY <1>0, <3>1, Numbers
    <3>3. Follows(row[m], row2[m], Pair[m])
      BY <1>5, <3>1 DEF Follows
    <3>4. row[m].status \in Undecided
      BY <1>5, <2>1, <2>4 DEF Undecided
    <3>5. QED BY <2>1, <2>4, <3>1, <3>2, <3>3, <3>4
  <2>5. QED BY <2>3, <2>4
<1>7. ASSUME NEW m \in Over(row2)
      PROVE  m \in Matches /\ row2[m] = row[m] /\ row[m].status \in {"expired", "ended"} /\ row[m].purge <= 0
  <2>1. m \in Matches /\ row2[m].status \in {"expired", "ended"} /\ row2[m].purge + pass.age <= 0
    BY DEF Over
  <2>2. row2[m] = row[m]
    BY <1>6, <2>1, Numbers DEF Undecided
  <2>3. row[m].purge \in Int
    BY <2>1, RowFields DEF Typed
  <2>4. QED BY <1>0, <2>1, <2>2, <2>3
<1>8. row' \in [Matches -> RowType] /\ \A m \in Matches : Follows(row[m], row'[m], Pair[m]) /\ (Free(m) \/ row'[m] = row[m])
  <2>1. NoRow \in RowType
    BY Numbers DEF NoRow, RowType
  <2>2. \A m \in Matches : row'[m] = IF m \in purged THEN NoRow ELSE row2[m]
    BY <1>4
  <2>3. row' \in [Matches -> RowType]
    BY <1>4, <1>6, <2>1
  <2>4. ASSUME NEW m \in Matches PROVE Follows(row[m], row'[m], Pair[m]) /\ (Free(m) \/ row'[m] = row[m])
    <3>1. row[m] \in RowType
      BY DEF Typed
    <3>2. Follows(row[m], NoRow, Pair[m])
      BY <1>0, <3>1, Following
    <3>3. QED BY <1>4, <1>6, <2>2, <3>2
  <2>5. QED BY <2>3, <2>4
<1>9. ASSUME NEW m \in Matches
      PROVE  \E k \in Nat : /\ message'[m] = SubSeq(message[m], 1 + k, Len(message[m]))
                            /\ k > 0 => row[m].status \in {"expired", "ended"} /\ row[m].purge <= 0
  <2>1. deleted \subseteq Stored(Over(row2))
    BY Chosen
  <2>2. IsFiniteSet(taken(m))
    <3>1. taken(m) \in SUBSET ({m} \X (1..MaxMessages))
      BY <2>1 DEF Stored
    <3>2. MaxMessages \in Int
      BY MatchAssumption, FS_CardinalityType DEF MaxMessages
    <3>3. IsFiniteSet({m}) /\ IsFiniteSet(1..MaxMessages)
      <4>1. IsFiniteSet(1..MaxMessages)
        BY <3>2, FS_Interval
      <4>2. QED BY <4>1, FS_Singleton
    <3>4. IsFiniteSet({m} \X (1..MaxMessages))
      BY <3>3, FS_Product
    <3>5. QED BY <3>1, <3>4, FS_Subset
  <2>3. Cardinality(taken(m)) \in Nat
    BY <2>2, FS_CardinalityType
  <2>4. Cardinality(taken(m)) > 0 => m \in Over(row2)
    <3> SUFFICES ASSUME Cardinality(taken(m)) > 0 PROVE m \in Over(row2)
      OBVIOUS
    <3>1. taken(m) # {}
      BY FS_EmptySet
    <3>2. PICK d \in deleted : d[1] = m
      BY <3>1
    <3>3. QED BY <2>1, <3>2 DEF Stored
  <2>5. message'[m] = SubSeq(message[m], 1 + Cardinality(taken(m)), Len(message[m]))
    BY <1>4
  <2> HIDE DEF taken
  <2>6. QED BY <1>7, <2>3, <2>4, <2>5
<1>10. ASSUME NEW m \in Matches, row'[m].status = "none"
       PROVE  row[m].status = "none" \/ (row[m].status \in {"expired", "ended"} /\ row[m].purge <= 0)
  <2>1. CASE m \in purged
    BY <1>4, <1>7, <2>1
  <2>2. CASE m \notin purged
    <3>1. row2[m].status = "none"
      BY <1>4, <1>10, <2>2
    <3>2. QED BY <1>6, <3>1
  <2>3. QED BY <2>1, <2>2
<1>11. pass' \in PassType
  <2>1. NoPass \in PassType
    BY Numbers DEF NoPass, PassType
  <2>2. QED BY <1>4, <2>1 DEF Typed
<1>12. QED BY <1>0, <1>4, <1>8, <1>9, <1>10, <1>11 DEF Batch

\* Maintenance.
LEMMA BatchSafe ==
    ASSUME IInv, Batch
    PROVE  IInv'
<1> USE DEF IInv
<1>1. /\ row' \in [Matches -> RowType] /\ message' = [m \in Matches |-> message'[m]]
      /\ \A m \in Matches : Follows(row[m], row'[m], Pair[m]) /\ (Free(m) \/ row'[m] = row[m])
      /\ \A m \in Matches : \E k \in Nat : message'[m] = SubSeq(message[m], 1 + k, Len(message[m]))
      /\ reported' \subseteq Matches /\ pass' \in PassType /\ UNCHANGED <<used, limit, closed, req, spent, told>>
  BY BatchEffect
<1>2. Asked' /\ Consents' /\ Counting' /\ Locked' /\ Settled' /\ RevealAnnounced'
  BY <1>1, RowsSafe
<1>3. ASSUME NEW m \in Matches
      PROVE  /\ message'[m] \in Seq(MessageType)
             /\ \E k \in Nat : \A i \in 1..Len(message'[m]) : k + i \in 1..Len(message[m]) /\ message'[m][i] = message[m][k + i]
  <2>1. message[m] \in Seq(MessageType)
    BY DEF Typed
  <2>2. PICK k \in Nat : message'[m] = SubSeq(message[m], 1 + k, Len(message[m]))
    BY <1>1
  <2>3. /\ message'[m] \in Seq(MessageType)
        /\ \A i \in 1..Len(message'[m]) : k + i \in 1..Len(message[m]) /\ message'[m][i] = message[m][k + i]
    <3> DEFINE t == SubSeq(message[m], 1 + k, Len(message[m]))
    <3>1. /\ t \in Seq(MessageType)
          /\ \A i \in 1..Len(t) : k + i \in 1..Len(message[m]) /\ t[i] = message[m][k + i]
      BY <2>1, Drops
    <3> HIDE DEF t
    <3>2. message'[m] = t
      BY <2>2 DEF t
    <3>3. QED BY <3>1, <3>2
  <2>4. QED BY <2>3
<1>4. message' \in [Matches -> Seq(MessageType)]
  BY <1>1, <1>3
<1>5. SentByPair'
  BY <1>3 DEF SentByPair
<1>6. KeyedOnce'
  <2> SUFFICES ASSUME NEW a \in Matches, NEW b \in Matches,
                      NEW i \in 1..Len(message'[a]), NEW j \in 1..Len(message'[b]),
                      message'[a][i].sender = message'[b][j].sender, message'[a][i].key = message'[b][j].key
               PROVE  a = b /\ i = j
    BY DEF KeyedOnce
  <2>1. PICK k \in Nat : \A e \in 1..Len(message'[a]) : k + e \in 1..Len(message[a]) /\ message'[a][e] = message[a][k + e]
    BY <1>3
  <2>2. PICK l \in Nat : \A e \in 1..Len(message'[b]) : l + e \in 1..Len(message[b]) /\ message'[b][e] = message[b][l + e]
    BY <1>3
  <2>3. a = b
    <3>1. /\ k + i \in 1..Len(message[a]) /\ l + j \in 1..Len(message[b])
          /\ message[a][k + i].sender = message[b][l + j].sender /\ message[a][k + i].key = message[b][l + j].key
      BY <2>1, <2>2
    <3>2. QED BY <3>1 DEF KeyedOnce
  <2>4. k + i = k + j
    <3>1. /\ k + i \in 1..Len(message[a]) /\ k + j \in 1..Len(message[a])
          /\ message[a][k + i].sender = message[a][k + j].sender /\ message[a][k + i].key = message[a][k + j].key
      BY <2>1, <2>3
    <3>2. QED BY <3>1 DEF KeyedOnce
  <2>5. QED BY <2>3, <2>4
<1>7. Typed' /\ Counted'
  BY <1>1, <1>4 DEF Typed, Counted
<1>8. QED BY <1>2, <1>5, <1>6, <1>7

-----------------------------------------------------------------------------
(* The invariant.                                                          *)

\* It holds of new matches.
LEMMA InitSafe == Init => IInv
<1> SUFFICES ASSUME Init PROVE IInv
  OBVIOUS
<1> DEFINE x == [NoRow EXCEPT !.status = "active", !.left = Window]
<1>1. /\ NoRow \in RowType /\ NoRow.status = "none" /\ NoRow.continued = {} /\ NoRow.initiator = Nobody
      /\ NoRow.revealed = {}
  BY Numbers DEF NoRow, RowType, Live
<1>2. /\ x \in RowType /\ x.status = "active" /\ x.continued = {} /\ x.initiator = Nobody /\ x.revealed = {}
  <2>1. Window \in -MaxAge..Window /\ "active" \in Live \cup {"expired", "ended", "none"}
    BY Numbers DEF Live
  <2>2. x \in RowType
    BY <1>1, <2>1 DEF RowType
  <2>3. QED BY <1>1, <2>2 DEF RowType
<1> HIDE DEF x
<1>3. row \in [Matches -> RowType] /\ \A m \in Matches : row[m] \in RowType /\ (row[m] = NoRow \/ row[m] = x)
  BY <1>1, <1>2 DEF Init, x
<1>4. message \in [Matches -> Seq(MessageType)] /\ \A m \in Matches : Len(message[m]) = 0
  BY DEF Init
<1>5. Idle \in ReqType /\ Idle.pc = "idle" /\ NoPass \in PassType
  BY Numbers DEF Idle, ReqType, NoPass, PassType
<1>6. req \in [Requests -> ReqType] /\ \A r \in Requests : req[r].pc = "idle"
  BY <1>5 DEF Init
<1>7. Typed
  BY <1>3, <1>4, <1>5, <1>6 DEF Typed, Init
<1>8. Asked /\ Counting /\ Locked
  BY <1>6 DEF Asked, Counting, Locked
<1>9. Consents
  BY <1>1, <1>2, <1>3 DEF Consents, Agreed
<1>10. Settled /\ Counted
  BY FS_EmptySet DEF Settled, Counted, Init
<1>11. RevealAnnounced
  BY <1>1, <1>2, <1>3, Pairs DEF RevealAnnounced
<1>12. SentByPair /\ KeyedOnce
  BY <1>4 DEF SentByPair, KeyedOnce
<1>13. QED BY <1>7, <1>8, <1>9, <1>10, <1>11, <1>12 DEF IInv

\* Every step keeps it.
LEMMA StepSafe == IInv /\ [Next]_vars => IInv'
<1> SUFFICES ASSUME IInv, [Next]_vars PROVE IInv'
  OBVIOUS
<1>0. reported \subseteq Matches /\ limit \in [Users -> Limits] /\ closed \subseteq Users /\ pass \in PassType
  BY DEF IInv, Typed
<1>1. CASE \E r \in Requests : Asks(r)
  BY <1>1, AskSafe
<1>2. ASSUME NEW r \in Requests, Command(r) PROVE IInv'
  BY <1>2, RefuseSafe, RecordRevealSafe, CreateMessageSafe, MarkReadSafe, ContinueSafe, ConfirmSafe DEF Command
<1>3. CASE \E m \in Matches : Block(m)
  BY <1>3, BlockSafe
<1>4. CASE \E u \in Users : Anonymize(u)
  BY <1>4, AnonymizeSafe
<1>5. CASE (\E m \in Matches : Report(m)) \/ (\E u \in Users : CloseAccount(u) \/ PlanChanges(u))
  BY <1>5, OthersSafe
<1>6. CASE PassBegins \/ PassFails
  <2>1. pass' \in PassType
    <3>1. [on |-> TRUE, age |-> 0] \in PassType /\ NoPass \in PassType
      BY Numbers DEF NoPass, PassType
    <3>2. QED BY <1>6, <3>1 DEF PassBegins, PassFails
  <2>2. UNCHANGED <<row, message, reported, used, limit, closed, req, spent, told>>
    BY <1>6 DEF PassBegins, PassFails
  <2>3. QED BY <1>0, <2>1, <2>2, Apart
<1>7. CASE Batch \/ Tick \/ NewWeek
  BY <1>7, BatchSafe, TickSafe, NewWeekSafe
<1>8. CASE UNCHANGED vars
  BY <1>0, <1>8, Apart DEF vars
<1>9. QED BY <1>1, <1>2, <1>3, <1>4, <1>5, <1>6, <1>7, <1>8 DEF Next

\* So it holds throughout.
LEMMA Invariance == Spec => []IInv
BY InitSafe, StepSafe, PTL DEF Spec

\* The parts of the invariant give the properties.
LEMMA Consequences == IInv => MatchesConsistent
<1> SUFFICES ASSUME IInv PROVE MatchesConsistent
  OBVIOUS
<1> USE DEF IInv
<1>1. \A m \in Matches : message[m] \in Seq([sender: Users, key: Keys, content: Contents, read: BOOLEAN])
                         /\ Len(message[m]) <= MaxMessages
  BY Within DEF Typed, MessageType
<1>2. used \in [Users -> 0..Cardinality(Matches)]
  <2>1. \A u \in Users : used[u] \in 0..Cardinality(Matches)
    <3> SUFFICES ASSUME NEW u \in Users PROVE used[u] \in 0..Cardinality(Matches)
      OBVIOUS
    <3>1. spent[u] \in SUBSET Matches /\ IsFiniteSet(Matches) /\ used[u] = Cardinality(spent[u]) /\ used[u] \in Nat
      BY MatchAssumption DEF Typed, Counted
    <3>2. Cardinality(spent[u]) <= Cardinality(Matches) /\ Cardinality(Matches) \in Nat
      BY <3>1, FS_Subset, FS_CardinalityType
    <3>3. QED BY <3>1, <3>2
  <2>2. QED BY <2>1 DEF Typed
<1>3. \A r \in Requests : req[r].pc \in {"idle", "waiting", "counting"} /\ req[r].age \in 0..MaxAge
  BY DEF Typed, ReqType
<1>4. ASSUME NEW u \in Users, NEW k \in Keys PROVE Cardinality(Sent(u, k)) <= 1
  <2>1. \A p, q \in Sent(u, k) : p = q
    <3> SUFFICES ASSUME NEW p \in Sent(u, k), NEW q \in Sent(u, k) PROVE p = q
      OBVIOUS
    <3>1. /\ p \in Matches \X (1..MaxMessages) /\ p[2] <= Len(message[p[1]])
          /\ message[p[1]][p[2]].sender = u /\ message[p[1]][p[2]].key = k
      BY DEF Sent, Stored
    <3>2. /\ q \in Matches \X (1..MaxMessages) /\ q[2] <= Len(message[q[1]])
          /\ message[q[1]][q[2]].sender = u /\ message[q[1]][q[2]].key = k
      BY DEF Sent, Stored
    <3>3. /\ p[1] \in Matches /\ q[1] \in Matches /\ p[2] \in 1..Len(message[p[1]]) /\ q[2] \in 1..Len(message[q[1]])
      BY <3>1, <3>2, Within
    <3>4. p[1] = q[1] /\ p[2] = q[2]
      BY <3>1, <3>2, <3>3 DEF KeyedOnce
    <3>5. QED BY <3>1, <3>2, <3>4
  <2>2. CASE Sent(u, k) = {}
    BY <2>2, FS_EmptySet
  <2>3. CASE Sent(u, k) # {}
    <3>1. PICK p \in Sent(u, k) : TRUE
      BY <2>3
    <3>2. Sent(u, k) = {p}
      BY <2>1, <3>1
    <3>3. QED BY <3>2, FS_Singleton
  <2>4. QED BY <2>2, <2>3
<1>5. TypeOK
  BY <1>1, <1>2, <1>3, <1>4 DEF TypeOK, Typed, RowType, PassType
<1>6. QuotaExact
  BY DEF QuotaExact, Counted, Consents, Agreed
<1>7. QED BY <1>5, <1>6 DEF MatchesConsistent

\* Whatever commands, erasures and passes run at once: the usage of the week
\* counts exactly the matches confirmed at its expense, a match is confirmed by
\* both of its accounts, the second of two reveals is announced, and a sender's
\* key stores one message.
THEOREM MatchesSound == Spec => []MatchesConsistent
BY Invariance, Consequences, PTL

-----------------------------------------------------------------------------
(* What a step may not do.                                                 *)

\* A command that has waited, other than a consent: the consents of its match stay.
LEMMA OtherCommands ==
    ASSUME IInv, NEW r \in Requests, Refuse(r) \/ RollBack(r) \/ RecordReveal(r) \/ CreateMessage(r) \/ MarkRead(r)
    PROVE  LET m == req[r].match IN
           /\ req[r].pc = "waiting" /\ Done(r) /\ UNCHANGED used /\ row'[m].continued = row[m].continued
           /\ \A n \in Matches : row[n].status # "none" => row'[n].status # "none"
<1> USE DEF IInv
<1> DEFINE m == req[r].match
           y == Turned(row[m], 0)
           z == [y EXCEPT !.revealed = y.revealed \cup {req[r].user}]
<1>1. /\ req[r].pc = "waiting" /\ Done(r) /\ UNCHANGED used
      /\ row' = row \/ row' = [row EXCEPT ![m] = y] \/ row' = [row EXCEPT ![m] = z]
  BY DEF Refuse, RollBack, RecordReveal, CreateMessage, MarkRead, Granted
<1>2. m \in Matches /\ row[m] \in RowType /\ 0 \in 0..MaxAge
  BY <1>1, Requested, Numbers
<1>3. y \in RowType /\ y.continued = row[m].continued /\ (row[m].status # "none" => y.status # "none")
  BY <1>2, Turning
<1> HIDE DEF y
<1>4. z.continued = y.continued /\ z.status = y.status
  BY <1>3 DEF RowType
<1> HIDE DEF z, m
<1>5. \/ row' = row
      \/ (row'[m] = y \/ row'[m] = z) /\ \A n \in Matches \ {m} : row'[n] = row[n]
  BY <1>1, <1>2 DEF Typed
<1>6. row'[m].continued = row[m].continued /\ \A n \in Matches : row[n].status # "none" => row'[n].status # "none"
  BY <1>2, <1>3, <1>4, <1>5
<1>7. QED BY <1>1, <1>6 DEF m

\* A consent that has waited is recorded in a window that is open.
LEMMA ContinueInTime ==
    ASSUME IInv, NEW r \in Requests, Continue(r)
    PROVE  LET m == req[r].match IN
           /\ req[r].pc = "waiting" /\ UNCHANGED used /\ \A q \in Requests \ {r} : req'[q] = req[q]
           /\ row[m].status = "awaiting_continuation"
              /\ (req'[r].pc = "counting" \/ ~(row'[m].continued \subseteq row[m].continued)) => row[m].left > 0
           /\ \A n \in Matches : row[n].status # "none" => row'[n].status # "none"
<1> USE DEF IInv
<1> DEFINE m == req[r].match
           u == req[r].user
           x == Turned(row[m], 0)
<1>1. /\ req[r].pc = "waiting" /\ UNCHANGED used
      /\ \/ Done(r) /\ (row' = row \/ row' = [row EXCEPT ![m] = x])
         \/ /\ Done(r) /\ row' = [row EXCEPT ![m] = Consent(x, u)]
            /\ x.status = "awaiting_continuation" /\ x.initiator = Nobody /\ u \notin x.continued
         \/ /\ row' = [row EXCEPT ![m] = x] /\ req' = [req EXCEPT ![r] = Charge(req[r], limit[x.initiator])]
            /\ x.status = "awaiting_continuation" /\ x.initiator # Nobody /\ u \notin x.continued
  BY ContinueEffect
<1>2. m \in Matches /\ row[m] \in RowType /\ u \in Users /\ 0 \in 0..MaxAge /\ row[m].left \in Int
  BY <1>1, Requested, RowFields, Numbers
<1>3. /\ x \in RowType /\ x.continued = row[m].continued /\ (row[m].status # "none" => x.status # "none")
      /\ row[m].status = "awaiting_continuation" /\ x.status = "awaiting_continuation" => row[m].left + 0 > 0
  BY <1>2, Turning
<1> HIDE DEF x, u
<1>4. Consent(x, u).status = x.status
  BY <1>2, <1>3, Consenting
<1>5. \A q \in Requests \ {r} : req'[q] = req[q]
  BY <1>1 DEF Done, Typed
<1>6. Done(r) => req'[r].pc = "idle"
  BY Finishes
<1> HIDE DEF m
<1>7. \/ row' = row
      \/ (row'[m] = x \/ row'[m] = Consent(x, u)) /\ \A n \in Matches \ {m} : row'[n] = row[n]
  BY <1>1, <1>2 DEF Typed
<1>8. \A n \in Matches : row[n].status # "none" => row'[n].status # "none"
  BY <1>2, <1>3, <1>4, <1>7
<1>9. ASSUME row[m].status = "awaiting_continuation",
             req'[r].pc = "counting" \/ ~(row'[m].continued \subseteq row[m].continued)
      PROVE  row[m].left > 0
  <2>1. CASE x.status = "awaiting_continuation"
    BY <1>2, <1>3, <1>9, <2>1
  <2>2. CASE x.status # "awaiting_continuation"
    <3>1. Done(r) /\ (row' = row \/ row' = [row EXCEPT ![m] = x])
      BY <1>1, <2>2 DEF m
    <3>2. row'[m].continued = row[m].continued
      BY <1>2, <1>3, <3>1 DEF Typed
    <3>3. QED BY <1>6, <1>9, <3>1, <3>2
  <2>3. QED BY <2>1, <2>2
<1>10. QED BY <1>1, <1>5, <1>8, <1>9 DEF m

\* A charge is within the limit that was read for it.
LEMMA ConfirmWithin ==
    ASSUME IInv, NEW r \in Requests, Confirm(r)
    PROVE  /\ req[r].pc = "counting" /\ \A q \in Requests \ {r} : req'[q] = req[q]
           /\ req[r].limit # Unlimited => \A u \in Users : used'[u] > used[u] => used'[u] <= req[r].limit
           /\ \A n \in Matches : row[n].status # "none" => row'[n].status # "none"
<1> USE DEF IInv
<1> DEFINE m == req[r].match
           i == row[m].initiator
           y == [Consent(row[m], req[r].user) EXCEPT !.status = "confirmed", !.left = 0]
<1>1. /\ req[r].pc = "counting" /\ Done(r) /\ m \in Matches /\ i \in Users /\ y.status = "confirmed"
      /\ \/ UNCHANGED <<row, used>>
         \/ /\ ~QuotaReached(r, i) /\ row' = [row EXCEPT ![m] = y]
            /\ used' = [used EXCEPT ![i] = @ + 1] \/ UNCHANGED used
  BY ConfirmEffect
<1> HIDE DEF m, i, y
<1>2. \A q \in Requests \ {r} : req'[q] = req[q]
  BY <1>1 DEF Done, Typed
<1>3. \A n \in Matches : row[n].status # "none" => row'[n].status # "none"
  BY <1>1 DEF Typed
<1>4. ASSUME req[r].limit # Unlimited, NEW u \in Users, used'[u] > used[u] PROVE used'[u] <= req[r].limit
  <2>1. req[r].limit \in Nat
    <3>1. req[r].limit \in Limits \cup {0}
      BY <1>1, Requested
    <3>2. Limits \subseteq Nat \cup {Unlimited}
      BY MatchAssumption
    <3>3. req[r].limit # Unlimited
      BY <1>4
    <3>4. CASE req[r].limit = 0
      BY <3>4
    <3>5. CASE req[r].limit \in Limits
      BY <3>2, <3>3, <3>5
    <3>6. QED BY <3>1, <3>4, <3>5
  <2>2. used[u] \in Nat /\ used[i] \in Nat
    BY <1>1 DEF Typed
  <2>3. ~QuotaReached(r, i) /\ used' = [used EXCEPT ![i] = @ + 1]
    BY <1>1, <1>4, <2>2
  <2>4. u = i /\ used'[u] = used[i] + 1
    BY <1>1, <1>4, <2>2, <2>3 DEF Typed
  <2>5. used[i] < req[r].limit
    BY <1>4, <2>1, <2>2, <2>3 DEF QuotaReached
  <2>6. QED BY <2>1, <2>2, <2>4, <2>5
<1>5. QED BY <1>1, <1>2, <1>3, <1>4

\* The steps of others: no command leaves its lock or its wait, and no usage grows.
Beside ==
    /\ \A r \in Requests : req[r].pc # "idle" => req'[r].pc = req[r].pc
    /\ \A u \in Users : ~(used'[u] > used[u])

\* Every step that is not a command is one of them.
LEMMA OthersBeside ==
    ASSUME IInv,
           \/ \E r \in Requests : Asks(r)
           \/ \E m \in Matches : Report(m) \/ Block(m)
           \/ \E u \in Users : CloseAccount(u) \/ Anonymize(u) \/ PlanChanges(u)
           \/ PassBegins \/ PassFails \/ Batch \/ Tick \/ NewWeek \/ UNCHANGED vars
    PROVE  Beside
<1> USE DEF IInv
<1>0. \A u \in Users : used[u] \in Nat
  BY DEF Typed
<1>1. CASE UNCHANGED <<req, used>>
  BY <1>0, <1>1 DEF Beside
<1>2. ASSUME NEW r \in Requests, Asks(r) PROVE Beside
  <2>1. req[r].pc = "idle" /\ UNCHANGED used /\ \A q \in Requests \ {r} : req'[q] = req[q]
    BY <1>2 DEF Asks, Ask, Typed
  <2>2. QED BY <1>0, <2>1 DEF Beside
<1>3. ASSUME NEW u \in Users, Anonymize(u) PROVE Beside
  <2>1. UNCHANGED req /\ used'[u] = 0 /\ \A v \in Users \ {u} : used'[v] = used[v]
    BY <1>3 DEF Anonymize, Typed
  <2>2. QED BY <1>0, <2>1 DEF Beside
<1>4. CASE NewWeek
  <2>1. UNCHANGED req /\ \A v \in Users : used'[v] = 0
    BY <1>4 DEF NewWeek
  <2>2. QED BY <1>0, <2>1 DEF Beside
<1>5. CASE Tick
  <2>1. UNCHANGED used
    BY <1>5 DEF Tick
  <2>2. ASSUME NEW r \in Requests, req[r].pc # "idle" PROVE req'[r].pc = req[r].pc
    <3>1. req[r] \in ReqType /\ req'[r] = [req[r] EXCEPT !.age = @ + 1]
      BY <1>5, <2>2 DEF Tick, Typed
    <3>2. QED BY <3>1 DEF ReqType
  <2>3. QED BY <1>0, <2>1, <2>2 DEF Beside
<1>6. CASE \/ \E m \in Matches : Report(m) \/ Block(m)
           \/ \E u \in Users : CloseAccount(u) \/ PlanChanges(u)
           \/ PassBegins \/ PassFails \/ Batch \/ UNCHANGED vars
  BY <1>1, <1>6 DEF Report, Block, CloseAccount, PlanChanges, PassBegins, PassFails, Batch, vars
<1>7. QED BY <1>2, <1>3, <1>4, <1>5, <1>6

\* Nor is a row removed or a conversation touched, but by maintenance.
LEMMA OthersKeep ==
    ASSUME IInv,
           \/ \E r \in Requests : Asks(r)
           \/ \E m \in Matches : Report(m) \/ Block(m)
           \/ \E u \in Users : CloseAccount(u) \/ Anonymize(u) \/ PlanChanges(u)
           \/ PassBegins \/ PassFails \/ Tick \/ NewWeek \/ UNCHANGED vars
    PROVE  UNCHANGED message /\ \A m \in Matches : row[m].status # "none" => row'[m].status # "none"
<1> USE DEF IInv
<1>0. \A m \in Matches : row[m] \in RowType
  BY DEF Typed
<1>1. ASSUME NEW n \in Matches, Block(n)
      PROVE  UNCHANGED message /\ \A m \in Matches : row[m].status # "none" => row'[m].status # "none"
  <2>1. End(row[n]).status = "ended" /\ UNCHANGED message /\ row' = [row EXCEPT ![n] = End(row[n])]
    BY <1>0, <1>1 DEF Block, End, RowType
  <2>2. QED BY <2>1 DEF Typed
<1>2. ASSUME NEW u \in Users, Anonymize(u)
      PROVE  UNCHANGED message /\ \A m \in Matches : row[m].status # "none" => row'[m].status # "none"
  <2>0. UNCHANGED message
    BY <1>2 DEF Anonymize
  <2> SUFFICES ASSUME NEW m \in Matches PROVE row[m].status # "none" => row'[m].status # "none"
    BY <2>0
  <2> DEFINE e == End(row[m])
  <2>1. row'[m] = IF u \in Pair[m]
          THEN [e EXCEPT !.continued = e.continued \ {u}, !.revealed = e.revealed \ {u}] ELSE row[m]
    BY <1>2 DEF Anonymize
  <2>2. e \in RowType /\ (row[m].status # "none" => e.status # "none")
    BY <1>0, Ends DEF End, RowType
  <2> HIDE DEF e
  <2>3. QED BY <2>1, <2>2 DEF RowType
<1>3. CASE Tick
  BY <1>0, <1>3, Laters DEF Tick
<1>4. CASE UNCHANGED <<row, message>>
  BY <1>4
<1>5. CASE \/ \E r \in Requests : Asks(r)
           \/ \E m \in Matches : Report(m)
           \/ \E u \in Users : CloseAccount(u) \/ PlanChanges(u)
           \/ PassBegins \/ PassFails \/ NewWeek \/ UNCHANGED vars
  <2>1. UNCHANGED <<row, message>>
    <3>1. ASSUME NEW r \in Requests, Asks(r) PROVE UNCHANGED <<row, message>>
      BY <3>1 DEF Asks, Ask
    <3>2. ASSUME NEW m \in Matches, Report(m) PROVE UNCHANGED <<row, message>>
      BY <3>2 DEF Report
    <3>3. ASSUME NEW u \in Users, CloseAccount(u) \/ PlanChanges(u) PROVE UNCHANGED <<row, message>>
      BY <3>3 DEF CloseAccount, PlanChanges
    <3>4. CASE PassBegins \/ PassFails \/ NewWeek \/ UNCHANGED vars
      BY <3>4 DEF PassBegins, PassFails, NewWeek, vars
    <3>5. QED BY <1>5, <3>1, <3>2, <3>3, <3>4
  <2>2. QED BY <1>4, <2>1
<1>6. QED BY <1>1, <1>2, <1>3, <1>5

\* A command does not shorten a conversation, and only a message makes it longer.
LEMMA CommandsKeep ==
    ASSUME IInv, NEW r \in Requests, Command(r)
    PROVE  \A m \in Matches :
             \/ Len(message'[m]) = Len(message[m])
             \/ CreateMessage(r) /\ m = req[r].match /\ Len(message'[m]) > Len(message[m])
<1> USE DEF IInv
<1>0. \A m \in Matches : message[m] \in Seq(MessageType) /\ Len(message[m]) \in Nat
  BY DEF Typed
<1>1. CASE UNCHANGED message
  BY <1>1
<1>2. CASE CreateMessage(r)
  <2> DEFINE m == req[r].match
             e == [sender |-> req[r].user, key |-> req[r].arg, content |-> req[r].content, read |-> FALSE]
  <2>1. req[r].pc = "waiting" /\ req[r].op = "send"
    BY <1>2 DEF CreateMessage, Granted
  <2>2. m \in Matches /\ e \in MessageType
    BY <2>1, Requested DEF Asked, MessageType
  <2>3. message' = message \/ message' = [message EXCEPT ![m] = Append(message[m], e)]
    BY <1>2 DEF CreateMessage
  <2> HIDE DEF e, m
  <2>4. Len(Append(message[m], e)) = Len(message[m]) + 1
    BY <1>0, <2>2, AppendProperties
  <2>5. QED BY <1>0, <1>2, <2>2, <2>3, <2>4 DEF Typed, m
<1>3. CASE MarkRead(r)
  <2> DEFINE m == req[r].match
             reads(i) == message[m][i].sender # req[r].user
                         /\ (i = req[r].arg \/ (req[r].content # Nobody /\ i < req[r].arg))
             s == [i \in 1..Len(message[m]) |-> IF reads(i) THEN [message[m][i] EXCEPT !.read = TRUE] ELSE message[m][i]]
  <2>1. message' = message \/ message' = [message EXCEPT ![m] = s]
    BY <1>3 DEF MarkRead
  <2>2. m \in Matches
    BY <1>3, Requested DEF MarkRead, Granted
  <2>3. Len(s) = Len(message[m])
    BY <1>0, <2>2
  <2> HIDE DEF s, m
  <2>4. QED BY <2>1, <2>2, <2>3 DEF Typed
<1>4. QED BY <1>1, <1>2, <1>3 DEF Command, Refuse, RollBack, RecordReveal, Continue, ContinueAt, Confirm

\* Every step is one of these.
LEMMA Steps ==
    ASSUME [Next]_vars
    PROVE  \/ \E r \in Requests : Command(r)
           \/ Batch
           \/ \/ \E r \in Requests : Asks(r)
              \/ \E m \in Matches : Report(m) \/ Block(m)
              \/ \E u \in Users : CloseAccount(u) \/ Anonymize(u) \/ PlanChanges(u)
              \/ PassBegins \/ PassFails \/ Tick \/ NewWeek \/ UNCHANGED vars
BY DEF Next

\* The first part of CommandsLawful.
LEMMA QuotaStep ==
    ASSUME IInv, [Next]_vars, NEW r \in Requests, req[r].pc = "counting", req'[r].pc = "idle", req[r].limit # Unlimited,
           NEW u \in Users, used'[u] > used[u]
    PROVE  used'[u] <= req[r].limit
<1>1. ~Beside
  BY DEF Beside
<1>2. PICK s \in Requests : Command(s)
  BY <1>1, Steps, OthersBeside
<1>3. CASE Confirm(s)
  BY <1>3, ConfirmWithin
<1>4. CASE Continue(s) \/ Refuse(s) \/ RollBack(s) \/ RecordReveal(s) \/ CreateMessage(s) \/ MarkRead(s)
  <2>1. UNCHANGED used
    BY <1>4, ContinueInTime, OtherCommands
  <2>2. used[u] \in Nat
    BY DEF IInv, Typed
  <2>3. QED BY <2>1, <2>2
<1>5. QED BY <1>2, <1>3, <1>4 DEF Command

\* The second one.
LEMMA DeadlineStep ==
    ASSUME IInv, [Next]_vars, NEW r \in Requests, req[r].pc = "waiting", req'[r].pc # "waiting",
           row[req[r].match].status = "awaiting_continuation",
           req'[r].pc = "counting" \/ ~(row'[req[r].match].continued \subseteq row[req[r].match].continued)
    PROVE  row[req[r].match].left > 0
<1>1. ~Beside
  BY DEF Beside
<1>2. PICK s \in Requests : Command(s)
  BY <1>1, Steps, OthersBeside
<1>3. CASE Confirm(s)
  BY <1>3, ConfirmWithin
<1>4. CASE Continue(s)
  BY <1>4, ContinueInTime
<1>5. CASE Refuse(s) \/ RollBack(s) \/ RecordReveal(s) \/ CreateMessage(s) \/ MarkRead(s)
  <2>1. Done(s) /\ row'[req[s].match].continued = row[req[s].match].continued
    BY <1>5, OtherCommands
  <2>2. req'[s].pc = "idle" /\ \A q \in Requests : q # s => req'[q] = req[q]
    BY <2>1, Finishes DEF IInv
  <2>3. QED BY <2>1, <2>2
<1>6. QED BY <1>2, <1>3, <1>4, <1>5 DEF Command

\* The third one.
LEMMA MessagesStep ==
    ASSUME IInv, [Next]_vars, NEW m \in Matches, Len(message'[m]) > Len(message[m])
    PROVE  row'[m].status \in Live /\ (row'[m].status # "confirmed" => row'[m].left > 0) /\ ~Closed(m)
<1> USE DEF IInv
<1>0. message[m] \in Seq(MessageType) /\ Len(message[m]) \in Nat /\ row[m] \in RowType
  BY DEF Typed
<1>1. ~Batch
  <2> SUFFICES ASSUME Batch PROVE FALSE
    OBVIOUS
  <2>1. PICK k \in Nat : message'[m] = SubSeq(message[m], 1 + k, Len(message[m]))
    BY BatchEffect
  <2>2. Len(SubSeq(message[m], 1 + k, Len(message[m]))) <= Len(message[m])
        /\ Len(SubSeq(message[m], 1 + k, Len(message[m]))) \in Nat
    BY <1>0, Drops
  <2>3. QED BY <1>0, <2>1, <2>2
<1>2. PICK r \in Requests : Command(r)
  BY <1>0, <1>1, Steps, OthersKeep
<1>3. CreateMessage(r) /\ m = req[r].match
  BY <1>0, <1>2, CommandsKeep
<1>4. /\ ~Closed(m) /\ Turned(row[m], 0).status \in Live /\ row'[m] = Turned(row[m], 0)
  BY <1>3 DEF CreateMessage, Granted, Typed
<1>5. Turned(row[m], 0).status \in Undecided => Turned(row[m], 0).left + 0 > 0 /\ Turned(row[m], 0).left \in Int
  BY <1>0, Turning, RowFields, Numbers
<1>6. QED BY <1>4, <1>5 DEF Undecided, Live

\* The last one.
LEMMA PurgeStep ==
    ASSUME IInv, [Next]_vars, NEW m \in Matches,
           (row'[m].status = "none" /\ row[m].status # "none") \/ Len(message'[m]) < Len(message[m])
    PROVE  row[m].status \in {"expired", "ended"} /\ row[m].purge <= 0
<1> USE DEF IInv
<1>0. message[m] \in Seq(MessageType) /\ Len(message[m]) \in Nat
  BY DEF Typed
<1>1. CASE Batch
  <2>1. PICK k \in Nat : /\ message'[m] = SubSeq(message[m], 1 + k, Len(message[m]))
                         /\ k > 0 => row[m].status \in {"expired", "ended"} /\ row[m].purge <= 0
    BY <1>1, BatchEffect
  <2>2. CASE k = 0
    <3>1. Len(message'[m]) = Len(message[m])
      BY <1>0, <2>1, <2>2, Drops
    <3>2. row'[m].status = "none" /\ row[m].status # "none"
      BY <1>0, <3>1
    <3>3. QED BY <1>1, <3>2, BatchEffect
  <2>3. CASE k > 0
    BY <2>1, <2>3
  <2>4. QED BY <2>2, <2>3
<1>2. ASSUME NEW r \in Requests, Command(r) PROVE FALSE
  <2>1. ~(Len(message'[m]) < Len(message[m]))
    BY <1>0, <1>2, CommandsKeep
  <2>2. row[m].status # "none" => row'[m].status # "none"
    BY <1>2, OtherCommands, ContinueInTime, ConfirmWithin DEF Command
  <2>3. QED BY <2>1, <2>2
<1>3. QED BY <1>0, <1>1, <1>2, Steps, OthersKeep

\* Whatever happens while a command waits for the lock of its match: no charge
\* exceeds the limit that was read for it, no consent and no message is taken
\* after the end of the window, and nothing is purged before its date.
THEOREM CommandsSound == Spec => CommandsLawful
<1>1. ASSUME IInv, [Next]_vars
      PROVE  \A r \in Requests : req[r].pc = "counting" /\ req'[r].pc = "idle" /\ req[r].limit # Unlimited =>
               \A u \in Users : used'[u] > used[u] => used'[u] <= req[r].limit
  BY <1>1, QuotaStep
<1>2. ASSUME IInv, [Next]_vars
      PROVE  \A r \in Requests : LET m == req[r].match IN
               req[r].pc = "waiting" /\ req'[r].pc # "waiting" /\ row[m].status = "awaiting_continuation"
               /\ (req'[r].pc = "counting" \/ ~(row'[m].continued \subseteq row[m].continued)) => row[m].left > 0
  BY <1>2, DeadlineStep
<1>3. ASSUME IInv, [Next]_vars
      PROVE  \A m \in Matches : Len(message'[m]) > Len(message[m]) =>
               row'[m].status \in Live /\ (row'[m].status # "confirmed" => row'[m].left > 0) /\ ~Closed(m)
  BY <1>3, MessagesStep
<1>4. ASSUME IInv, [Next]_vars
      PROVE  \A m \in Matches :
               (row'[m].status = "none" /\ row[m].status # "none") \/ Len(message'[m]) < Len(message[m]) =>
                 row[m].status \in {"expired", "ended"} /\ row[m].purge <= 0
  BY <1>4, PurgeStep
<1>5. QED BY <1>1, <1>2, <1>3, <1>4, Invariance, PTL
          DEF Spec, CommandsLawful, QuotaRespected, DeadlineKept, MessagesWhileOpen, KeptUntilPurge

-----------------------------------------------------------------------------
(* SwipeMatch.                                                             *)

\* A request is about a direction, and one that goes on is a like.
SwipesShaped ==
    /\ \A r \in Requests : swiping[r].pc # "idle" =>
         /\ swiping[r].dir \in Swipes!Directions
         /\ swiping[r].pc # "checked" => swiping[r].decision = "like"
    /\ blocking # Swipes!NotBlocking => blocking.dir \in Swipes!Directions

\* A request that has recorded a like of the pair is still to look for the other
\* one, or to make the match.
Followed(p) ==
    \E r \in Requests : swiping[r].pc \in {"recorded", "mutual", "inserted"} /\ Swipes!PairOf(swiping[r].dir) = p

\* Two likes that hold at once have their match, a hindrance, or such a request.
LikesFollowed ==
    \A p \in Swipes!Pairs : Swipes!MutualLikes(p) /\ p \notin hindered /\ p \notin made => Followed(p)

\* The inductive invariant of SwipeMatch.
SwipesInv == Swipes!TypeOK /\ SwipesShaped /\ LikesFollowed

\* The two directions of a pair.
LEMMA PairFacts ==
    ASSUME NEW d \in Swipes!Directions
    PROVE  /\ Swipes!PairOf(d) \in Swipes!Pairs
           /\ Swipes!Reverse(d) \in Swipes!Directions
           /\ Swipes!PairOf(Swipes!Reverse(d)) = Swipes!PairOf(d)
BY DEF Swipes!Directions, Swipes!Pairs, Swipes!PairOf, Swipes!Reverse

\* It holds before any swipe.
LEMMA SwipesStart == MaxBlocks \in Nat /\ MaxFaults \in Nat /\ Swipes!Init => SwipesInv
<1>1. ASSUME MaxBlocks \in Nat, MaxFaults \in Nat, Swipes!Init PROVE Swipes!TypeOK
  BY <1>1 DEF Swipes!TypeOK, Swipes!Init, Swipes!NoSwipe, Swipes!Idle, Swipes!NotBlocking
<1>2. ASSUME Swipes!Init PROVE SwipesShaped
  BY <1>2 DEF SwipesShaped, Swipes!Init, Swipes!NoSwipe, Swipes!Idle, Swipes!NotBlocking
<1>3. ASSUME Swipes!Init PROVE LikesFollowed
  BY <1>3, PairFacts DEF LikesFollowed, Swipes!MutualLikes, Swipes!Init, Swipes!NoSwipe, Swipes!Pairs, Swipes!PairOf
<1>4. QED BY <1>1, <1>2, <1>3 DEF SwipesInv

\* The types of a swipe and of its request.
SwipeType == [decision: {"none", "like", "pass"}, expired: BOOLEAN]

SwipeReqType == [pc: {"idle", "checked", "recorded", "mutual", "inserted"},
                 dir: Swipes!Directions \cup {<<>>}, decision: {"none", "like", "pass"}]

\* Between two states a request of the pair goes on, and what is known of the
\* pair is no worse.
Steady(p) ==
    /\ Swipes!MutualLikes(p)' => Swipes!MutualLikes(p)
    /\ p \in hindered => p \in hindered'
    /\ p \in made => p \in made'

\* Where a step leaves the likes, the hindrances and the requests of the pairs as
\* they are, except for a pair that is settled another way, the likes are
\* still followed.
LEMMA StillFollowed ==
    ASSUME LikesFollowed,
           \A p \in Swipes!Pairs :
             \/ ~Swipes!MutualLikes(p)' \/ p \in hindered' \/ p \in made' \/ Followed(p)'
             \/ Steady(p) /\ (Followed(p) => Followed(p)')
    PROVE  LikesFollowed'
<1>1. SUFFICES ASSUME NEW p \in Swipes!Pairs, Swipes!MutualLikes(p)', p \notin hindered', p \notin made'
               PROVE  Followed(p)'
  BY DEF LikesFollowed, Swipes!Pairs, Swipes!Directions
<1>2. CASE Followed(p)'
  BY <1>2
<1>3. CASE Steady(p) /\ (Followed(p) => Followed(p)')
  BY <1>1, <1>3 DEF Steady, LikesFollowed
<1>4. QED BY <1>1, <1>2, <1>3

\* A request that leaves a pair's path was not on it, or is the only one of its
\* pair to leave.
LEMMA OthersFollow ==
    ASSUME NEW r \in Requests, NEW q, NEW p, swiping \in [Requests -> SwipeReqType],
           swiping' = [swiping EXCEPT ![r] = q],
           Followed(p),
           swiping[r].pc \notin {"recorded", "mutual", "inserted"} \/ Swipes!PairOf(swiping[r].dir) # p
    PROVE  Followed(p)'
BY DEF Followed, Swipes!PairOf

\* Every step of a swipe, of a block, of expiry and of a crash keeps it.
LEMMA SwipesStep ==
    ASSUME MaxBlocks \in Nat, MaxFaults \in Nat, SwipesInv, [Swipes!Next]_(Swipes!vars)
    PROVE  SwipesInv'
<1> USE DEF SwipesInv
<1>0. /\ Swipes!TypeOK /\ SwipesShaped /\ LikesFollowed
      /\ swiping \in [Requests -> SwipeReqType] /\ swipe \in [Swipes!Directions -> SwipeType]
  BY DEF SwipesInv, Swipes!TypeOK, SwipeReqType, SwipeType
<1>1. CASE UNCHANGED Swipes!vars
  BY <1>0, <1>1 DEF Swipes!vars, Swipes!TypeOK, SwipesShaped, LikesFollowed, Followed, Swipes!MutualLikes
<1>2. ASSUME NEW r \in Requests, NEW d \in Swipes!Directions, NEW decision \in {"like", "pass"},
             Swipes!Check(r, d, decision)
      PROVE  SwipesInv'
  <2> DEFINE q == [pc |-> "checked", dir |-> d, decision |-> decision]
  <2>1. q \in SwipeReqType /\ q.pc = "checked" /\ q.dir = d
    BY DEF SwipeReqType
  <2> HIDE DEF q
  <2>2. /\ swiping' = [swiping EXCEPT ![r] = q] /\ swiping[r].pc = "idle"
        /\ UNCHANGED <<account, swipe, match, block, blocking, hindered, made, calls, faults>>
    BY <1>2 DEF Swipes!Check, q
  <2>3. Swipes!TypeOK'
    BY <1>0, <2>1, <2>2 DEF Swipes!TypeOK, SwipeReqType
  <2>4. SwipesShaped'
    BY <1>0, <2>1, <2>2 DEF SwipesShaped, SwipeReqType
  <2>5. LikesFollowed'
    <3>1. \A p \in Swipes!Pairs : Steady(p) /\ (Followed(p) => Followed(p)')
      BY <1>0, <2>2, OthersFollow DEF Steady, Swipes!MutualLikes
    <3>2. QED BY <1>0, <3>1, StillFollowed
  <2>6. QED BY <2>3, <2>4, <2>5
<1>3. ASSUME NEW r \in Requests, Swipes!RecordSwipe(r) PROVE SwipesInv'
  <2> DEFINE d == swiping[r].dir
             writes == swipe[d].decision = "none" \/ swipe[d].expired
             decision == IF writes THEN swiping[r].decision ELSE swipe[d].decision
             goesOn == decision = "like" /\ swiping[r].decision = "like"
             w == [decision |-> decision, expired |-> FALSE]
             q == IF goesOn THEN [swiping[r] EXCEPT !.pc = "recorded"] ELSE Swipes!Idle
  <2>1. /\ swiping[r].pc = "checked" /\ swiping[r] \in SwipeReqType /\ d \in Swipes!Directions /\ decision \in {"none", "like", "pass"}
        /\ swipe[d] \in SwipeType
    BY <1>0, <1>3 DEF Swipes!RecordSwipe, SwipesShaped, SwipeReqType, SwipeType
  <2>2. /\ q \in SwipeReqType /\ q.pc \in {"idle", "recorded"} /\ (q.pc = "recorded" <=> goesOn)
        /\ (goesOn => q.dir = d /\ q.decision = "like")
    BY <2>1 DEF SwipeReqType, Swipes!Idle
  <2>3. /\ swipe' = IF writes THEN [swipe EXCEPT ![d] = w] ELSE swipe
        /\ made' = IF writes THEN made \ {Swipes!PairOf(d)} ELSE made
        /\ hindered' = IF goesOn THEN hindered \ {Swipes!PairOf(d)} ELSE hindered
        /\ swiping' = [swiping EXCEPT ![r] = q]
        /\ UNCHANGED <<account, match, block, blocking, calls, faults>>
    BY <1>3 DEF Swipes!RecordSwipe
  <2>4. w \in SwipeType /\ w.decision = decision
    BY <2>1 DEF SwipeType
  <2>5. writes => decision = swiping[r].decision
    OBVIOUS
  <2>6. \/ goesOn
        \/ ~goesOn /\ writes /\ decision # "like"
        \/ ~goesOn /\ ~writes
    BY <2>5
  <2> HIDE DEF q, w, goesOn, writes, decision, d
  <2>7. Swipes!TypeOK'
    <3>1. swipe' \in [Swipes!Directions -> SwipeType] /\ swiping' \in [Requests -> SwipeReqType]
      BY <1>0, <2>1, <2>2, <2>3, <2>4
    <3>2. made' \subseteq Swipes!Pairs /\ hindered' \subseteq Swipes!Pairs
      BY <1>0, <2>3 DEF Swipes!TypeOK
    <3>3. QED BY <1>0, <2>2, <2>3, <3>1, <3>2 DEF Swipes!TypeOK, SwipeReqType, SwipeType
  <2>8. SwipesShaped'
    BY <1>0, <2>1, <2>2, <2>3 DEF SwipesShaped
  <2>9. LikesFollowed'
    <3>1. ASSUME NEW p \in Swipes!Pairs
          PROVE  \/ ~Swipes!MutualLikes(p)' \/ p \in hindered' \/ p \in made' \/ Followed(p)'
                 \/ Steady(p) /\ (Followed(p) => Followed(p)')
      <4>1. Followed(p) => Followed(p)'
        BY <1>0, <2>1, <2>3, OthersFollow
      <4>2. CASE p # Swipes!PairOf(d)
        <5>1. \A e \in Swipes!Directions : Swipes!PairOf(e) = p => swipe'[e] = swipe[e]
          BY <1>0, <2>3, <4>2
        <5>2. QED BY <2>3, <4>1, <4>2, <5>1 DEF Steady, Swipes!MutualLikes
      <4>3. CASE p = Swipes!PairOf(d) /\ goesOn
        BY <1>0, <2>2, <2>3, <4>3 DEF Followed
      <4>4. CASE p = Swipes!PairOf(d) /\ ~goesOn /\ writes /\ decision # "like"
        <5>1. swipe'[d].decision # "like"
          BY <1>0, <2>1, <2>3, <2>4, <4>4
        <5>2. QED BY <2>1, <4>4, <5>1 DEF Swipes!MutualLikes
      <4>5. CASE ~goesOn /\ ~writes
        BY <2>3, <4>1, <4>5 DEF Steady, Swipes!MutualLikes
      <4>6. QED BY <2>6, <4>2, <4>3, <4>4, <4>5
    <3>2. QED BY <1>0, <3>1, StillFollowed
  <2>10. QED BY <2>7, <2>8, <2>9
<1>4. ASSUME NEW r \in Requests, Swipes!FindSwipe(r) PROVE SwipesInv'
  <2> DEFINE d == swiping[r].dir
             other == swipe[Swipes!Reverse(d)]
             goesOn == other.decision = "like" /\ ~other.expired
             q == IF goesOn THEN [swiping[r] EXCEPT !.pc = "mutual"] ELSE Swipes!Idle
  <2>1. /\ swiping[r].pc = "recorded" /\ swiping[r] \in SwipeReqType /\ d \in Swipes!Directions /\ swiping[r].decision = "like"
    BY <1>0, <1>4 DEF Swipes!FindSwipe, SwipesShaped, SwipeReqType
  <2>2. /\ q \in SwipeReqType /\ q.pc \in {"idle", "mutual"} /\ (q.pc = "mutual" <=> goesOn)
        /\ (goesOn => q.dir = d /\ q.decision = "like")
    BY <2>1 DEF SwipeReqType, Swipes!Idle
  <2>3. /\ swiping' = [swiping EXCEPT ![r] = q]
        /\ UNCHANGED <<account, swipe, match, block, blocking, hindered, made, calls, faults>>
    BY <1>4 DEF Swipes!FindSwipe
  <2> HIDE DEF q
  <2>4. Swipes!TypeOK'
    BY <1>0, <2>2, <2>3 DEF Swipes!TypeOK, SwipeReqType
  <2>5. SwipesShaped'
    BY <1>0, <2>1, <2>2, <2>3 DEF SwipesShaped
  <2>6. LikesFollowed'
    <3>1. ASSUME NEW p \in Swipes!Pairs
          PROVE  \/ ~Swipes!MutualLikes(p)' \/ p \in hindered' \/ p \in made' \/ Followed(p)'
                 \/ Steady(p) /\ (Followed(p) => Followed(p)')
      <4>1. CASE p # Swipes!PairOf(d)
        BY <1>0, <2>3, <4>1, OthersFollow DEF Steady, Swipes!MutualLikes
      <4>2. CASE p = Swipes!PairOf(d) /\ goesOn
        BY <1>0, <2>2, <2>3, <4>2 DEF Followed
      <4>3. CASE p = Swipes!PairOf(d) /\ ~goesOn
        BY <2>1, <2>3, <4>3, PairFacts DEF Swipes!MutualLikes
      <4>4. QED BY <4>1, <4>2, <4>3
    <3>2. QED BY <1>0, <3>1, StillFollowed
  <2>7. QED BY <2>4, <2>5, <2>6
<1>5. ASSUME NEW r \in Requests, Swipes!Insert(r) PROVE SwipesInv'
  <2> DEFINE d == swiping[r].dir
             p == Swipes!PairOf(d)
             refused == Swipes!Refused(d)
             exists == match[p] # "none"
             q == IF refused \/ exists THEN Swipes!Idle ELSE [swiping[r] EXCEPT !.pc = "inserted"]
  <2>1. /\ swiping[r].pc = "mutual" /\ swiping[r] \in SwipeReqType /\ d \in Swipes!Directions /\ swiping[r].decision = "like"
        /\ p \in Swipes!Pairs
    BY <1>0, <1>5, PairFacts DEF Swipes!Insert, SwipesShaped, SwipeReqType
  <2>2. /\ q \in SwipeReqType /\ q.pc \in {"idle", "inserted"} /\ (q.pc = "idle" <=> refused \/ exists)
        /\ (q.pc = "inserted" => q.dir = d /\ q.decision = "like")
    BY <2>1 DEF SwipeReqType, Swipes!Idle
  <2>3. /\ swiping' = [swiping EXCEPT ![r] = q]
        /\ hindered' = IF refused THEN hindered \cup {p} ELSE hindered
        /\ made' = IF exists /\ ~refused THEN made \cup {p} ELSE made
        /\ \A s \in Requests \ {r} : ~(swiping[s].pc = "inserted" /\ Swipes!PairOf(swiping[s].dir) = p)
        /\ UNCHANGED <<account, swipe, match, block, blocking, calls, faults>>
    BY <1>5 DEF Swipes!Insert
  <2> HIDE DEF q, refused, exists, p
  <2>4. Swipes!TypeOK'
    <3>1. made' \subseteq Swipes!Pairs /\ hindered' \subseteq Swipes!Pairs
      BY <1>0, <2>1, <2>3 DEF Swipes!TypeOK
    <3>2. swiping' \in [Requests -> SwipeReqType]
      BY <1>0, <2>2, <2>3
    <3>3. \A s, t \in Requests : s # t /\ swiping'[s].pc = "inserted" /\ swiping'[t].pc = "inserted" =>
             Swipes!PairOf(swiping'[s].dir) # Swipes!PairOf(swiping'[t].dir)
      BY <1>0, <2>2, <2>3 DEF Swipes!TypeOK, p
    <3>4. QED BY <1>0, <2>3, <3>1, <3>2, <3>3 DEF Swipes!TypeOK, SwipeReqType
  <2>5. SwipesShaped'
    BY <1>0, <2>1, <2>2, <2>3 DEF SwipesShaped
  <2>6. LikesFollowed'
    <3>1. ASSUME NEW x \in Swipes!Pairs
          PROVE  \/ ~Swipes!MutualLikes(x)' \/ x \in hindered' \/ x \in made' \/ Followed(x)'
                 \/ Steady(x) /\ (Followed(x) => Followed(x)')
      <4>1. CASE x # p
        BY <1>0, <2>3, <4>1, OthersFollow DEF Steady, Swipes!MutualLikes, p
      <4>2. CASE x = p /\ (refused \/ exists)
        BY <2>3, <4>2
      <4>3. CASE x = p /\ ~(refused \/ exists)
        BY <1>0, <2>2, <2>3, <4>3 DEF Followed, p
      <4>4. QED BY <4>1, <4>2, <4>3
    <3>2. QED BY <1>0, <3>1, StillFollowed
  <2>7. QED BY <2>4, <2>5, <2>6
<1>6. ASSUME NEW r \in Requests, Swipes!Commit(r) \/ Swipes!Crash(r) PROVE SwipesInv'
  <2> DEFINE p == Swipes!PairOf(swiping[r].dir)
  <2>1. swiping[r].pc # "idle" /\ swiping[r].dir \in Swipes!Directions /\ p \in Swipes!Pairs
    BY <1>0, <1>6, PairFacts DEF Swipes!Commit, Swipes!Crash, SwipesShaped
  <2>2. Swipes!Idle \in SwipeReqType /\ Swipes!Idle.pc = "idle"
    BY DEF SwipeReqType, Swipes!Idle
  <2>3. /\ swiping' = [swiping EXCEPT ![r] = Swipes!Idle]
        /\ p \in made' \/ p \in hindered'
        /\ made' \in {made, made \cup {p}} /\ hindered' \in {hindered, hindered \cup {p}}
        /\ match' \in {match, [match EXCEPT ![p] = "live"]}
        /\ faults' \in 0..MaxFaults
        /\ UNCHANGED <<account, swipe, block, blocking, calls>>
    BY <1>0, <1>6 DEF Swipes!Commit, Swipes!Crash, Swipes!TypeOK
  <2> HIDE DEF p
  <2>4. Swipes!TypeOK'
    <3>1. made' \subseteq Swipes!Pairs /\ hindered' \subseteq Swipes!Pairs /\ match' \in [Swipes!Pairs -> {"none", "live", "over"}]
      BY <1>0, <2>1, <2>3 DEF Swipes!TypeOK
    <3>2. swiping' \in [Requests -> SwipeReqType]
      BY <1>0, <2>2, <2>3
    <3>3. QED BY <1>0, <2>2, <2>3, <3>1, <3>2 DEF Swipes!TypeOK, SwipeReqType
  <2>5. SwipesShaped'
    BY <1>0, <2>1, <2>2, <2>3 DEF SwipesShaped
  <2>6. LikesFollowed'
    <3>1. ASSUME NEW x \in Swipes!Pairs
          PROVE  \/ ~Swipes!MutualLikes(x)' \/ x \in hindered' \/ x \in made' \/ Followed(x)'
                 \/ Steady(x) /\ (Followed(x) => Followed(x)')
      <4>1. CASE x # p
        BY <1>0, <2>3, <4>1, OthersFollow DEF Steady, Swipes!MutualLikes, p
      <4>2. QED BY <2>3, <4>1
    <3>2. QED BY <1>0, <3>1, StillFollowed
  <2>7. QED BY <2>4, <2>5, <2>6
<1>7. ASSUME NEW d \in Swipes!Directions, Swipes!SwipeExpires(d) PROVE SwipesInv'
  <2> DEFINE w == IF swipe[d].expired THEN Swipes!NoSwipe ELSE [swipe[d] EXCEPT !.expired = TRUE]
  <2>1. w \in SwipeType /\ (w.decision = "like" => w.expired)
    BY <1>0 DEF SwipeType, Swipes!NoSwipe
  <2>2. /\ swipe' = [swipe EXCEPT ![d] = w] /\ made' = made \ {Swipes!PairOf(d)}
        /\ UNCHANGED <<account, match, block, swiping, blocking, hindered, calls, faults>>
    BY <1>7 DEF Swipes!SwipeExpires
  <2> HIDE DEF w
  <2>3. Swipes!TypeOK'
    BY <1>0, <2>1, <2>2 DEF Swipes!TypeOK, SwipeType
  <2>4. SwipesShaped'
    BY <1>0, <2>2 DEF SwipesShaped
  <2>5. LikesFollowed'
    <3>1. ASSUME NEW x \in Swipes!Pairs
          PROVE  \/ ~Swipes!MutualLikes(x)' \/ x \in hindered' \/ x \in made' \/ Followed(x)'
                 \/ Steady(x) /\ (Followed(x) => Followed(x)')
      <4>1. CASE x # Swipes!PairOf(d)
        <5>1. \A e \in Swipes!Directions : Swipes!PairOf(e) = x => swipe'[e] = swipe[e]
          BY <1>0, <2>2, <4>1
        <5>2. QED BY <2>2, <4>1, <5>1 DEF Steady, Swipes!MutualLikes, Followed
      <4>2. CASE x = Swipes!PairOf(d)
        BY <1>0, <2>1, <2>2, <4>2 DEF Swipes!MutualLikes
      <4>3. QED BY <4>1, <4>2
    <3>2. QED BY <1>0, <3>1, StillFollowed
  <2>6. QED BY <2>3, <2>4, <2>5
<1>8. ASSUME \/ \E d \in Swipes!Directions : Swipes!BlockUser(d) \/ Swipes!UnblockUser(d)
             \/ Swipes!BlockCommit \/ \E p \in Swipes!Pairs : Swipes!MatchEnds(p) \/ \E u \in Swipers : Swipes!AccountChanges(u)
      PROVE  SwipesInv'
  <2>1. UNCHANGED <<swipe, swiping, hindered, made, faults>>
    BY <1>8 DEF Swipes!BlockUser, Swipes!UnblockUser, Swipes!BlockCommit, Swipes!MatchEnds, Swipes!AccountChanges
  <2>2. LikesFollowed'
    BY <1>0, <2>1 DEF LikesFollowed, Followed, Swipes!MutualLikes
  <2>3. /\ account' \in [Swipers -> {"ready", "unready", "banned"}] /\ match' \in [Swipes!Pairs -> {"none", "live", "over"}]
        /\ block' \subseteq Swipes!Directions /\ calls' \in 0..MaxBlocks
        /\ blocking' \in [dir: Swipes!Directions \cup {<<>>}, ends: BOOLEAN]
        /\ (blocking' # Swipes!NotBlocking => blocking'.dir \in Swipes!Directions)
    <3>1. CASE \E d \in Swipes!Directions : Swipes!BlockUser(d)
      <4>1. PICK d \in Swipes!Directions : Swipes!BlockUser(d)
        BY <3>1
      <4>2. QED BY <1>0, <4>1 DEF Swipes!BlockUser, Swipes!TypeOK
    <3>2. CASE \E d \in Swipes!Directions : Swipes!UnblockUser(d)
      BY <1>0, <3>2 DEF Swipes!UnblockUser, Swipes!TypeOK, SwipesShaped
    <3>3. CASE Swipes!BlockCommit
      <4>1. blocking.dir \in Swipes!Directions /\ Swipes!PairOf(blocking.dir) \in Swipes!Pairs
        BY <1>0, <3>3, PairFacts DEF Swipes!BlockCommit, SwipesShaped
      <4>2. Swipes!NotBlocking \in [dir: Swipes!Directions \cup {<<>>}, ends: BOOLEAN]
        BY DEF Swipes!NotBlocking
      <4>3. QED BY <1>0, <3>3, <4>1, <4>2 DEF Swipes!BlockCommit, Swipes!TypeOK
    <3>4. CASE \E p \in Swipes!Pairs : Swipes!MatchEnds(p)
      BY <1>0, <3>4 DEF Swipes!MatchEnds, Swipes!TypeOK, SwipesShaped
    <3>5. CASE \E u \in Swipers : Swipes!AccountChanges(u)
      BY <1>0, <3>5 DEF Swipes!AccountChanges, Swipes!TypeOK, SwipesShaped
    <3>6. QED BY <1>8, <3>1, <3>2, <3>3, <3>4, <3>5
  <2>4. Swipes!TypeOK'
    BY <1>0, <2>1, <2>3 DEF Swipes!TypeOK
  <2>5. SwipesShaped'
    BY <1>0, <2>1, <2>3 DEF SwipesShaped
  <2>6. QED BY <2>2, <2>4, <2>5
<1>9. QED
  BY <1>1, <1>2, <1>3, <1>4, <1>5, <1>6, <1>7, <1>8 DEF Swipes!Next, Swipes!Swipe

\* swipe() and create(), for any number of accounts, requests at once, blocks and
\* faults: two likes that hold at once have made their match when the requests of
\* the pair are over, in every order of the two swipes, their checks and inserts,
\* unless a request crashed or was refused after the last like of the pair.
THEOREM SwipesSound ==
    ASSUME MaxBlocks \in Nat, MaxFaults \in Nat
    PROVE  Swipes!Spec => []SwipesConsistent
<1>1. Swipes!Init => SwipesInv
  BY SwipesStart
<1>2. SwipesInv /\ [Swipes!Next]_(Swipes!vars) => SwipesInv'
  BY SwipesStep
<1>3. SwipesInv => SwipesConsistent
  BY DEF SwipesInv, SwipesShaped, LikesFollowed, Followed, SwipesConsistent, Swipes!SwipesConsistent,
         Swipes!MutualLikesMatched
<1>4. QED
  BY <1>1, <1>2, <1>3, PTL DEF Swipes!Spec

=============================================================================
