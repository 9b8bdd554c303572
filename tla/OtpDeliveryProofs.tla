-------------------------- MODULE OtpDeliveryProofs --------------------------
(***************************************************************************)
(* Proofs about OtpDelivery, for any number of phones, codes, keys and     *)
(* deliveries.                                                             *)
(***************************************************************************)
EXTENDS OtpDelivery, FiniteSetTheorems, TLAPS

-----------------------------------------------------------------------------
(* Rows.                                                                   *)

\* The columns of a stored delivery have their types.
LEMMA StoredRow ==
    ASSUME TypeOK, NEW d \in Deliveries, Stored(d)
    PROVE  row[d] \in Row
BY DEF TypeOK, Stored, NoRow

\* A stored row with a column rewritten is a row.
LEMMA RowFields ==
    ASSUME NEW r \in Row
    PROVE  /\ \A s \in Statuses : [r EXCEPT !.status = s] \in Row
           /\ \A b \in BOOLEAN : [r EXCEPT !.used = b] \in Row
           /\ \A b \in BOOLEAN : [r EXCEPT !.expired = b] \in Row
           /\ r.status # "none" /\ r.status \in Statuses
           /\ r.used \in BOOLEAN /\ r.sentAt \in BOOLEAN /\ r.expired \in BOOLEAN
           /\ r.phone \in Phones
BY DEF Row, Statuses

\* What activate and the UPDATE that follows it leave of every row.
Confirmation(d, status) ==
    /\ row' \in [Deliveries -> Row \cup {NoRow}]
    /\ newest' = [newest EXCEPT ![row[d].phone] = IF d > @ THEN d ELSE @]
    /\ \A e \in Deliveries :
         /\ Stored(e)' = Stored(e)
         /\ Stored(e) =>
              /\ row'[e].phone = row[e].phone
              /\ row'[e].expired = row[e].expired
              /\ row'[e].used = (row[e].used \/ e \in Activate(d))
              /\ row'[e].sentAt = (row[e].sentAt \/ e = d)
              /\ row'[e].status = IF e = d THEN status ELSE row[e].status

\* Confirm writes what Confirmation says.
LEMMA ConfirmEffect ==
    ASSUME TypeOK, NEW d \in Deliveries, Stored(d), NEW status \in {"accepted", "sent"},
           NEW m \in Messages, NEW t \in Transactions \cup {NoId}, Confirm(d, status, m, t)
    PROVE  Confirmation(d, status)
<1> DEFINE A == Activate(d)
           old(e) == IF e \in A THEN [row[e] EXCEPT !.used = TRUE] ELSE row[e]
<1>1. A \subseteq Deliveries /\ \A e \in A : Stored(e)
  BY DEF Activate, StoredOf
<1>2. \A e \in Deliveries : Stored(e) => row[e] \in Row
  BY StoredRow
<1>3. \A e \in Deliveries : Stored(e) =>
        /\ old(e) \in Row
        /\ old(e).status = row[e].status /\ old(e).phone = row[e].phone
        /\ old(e).expired = row[e].expired /\ old(e).sentAt = row[e].sentAt
        /\ old(e).used = (row[e].used \/ e \in A)
  <2> SUFFICES ASSUME NEW e \in Deliveries, Stored(e)
               PROVE  /\ old(e) \in Row
                      /\ old(e).status = row[e].status /\ old(e).phone = row[e].phone
                      /\ old(e).expired = row[e].expired /\ old(e).sentAt = row[e].sentAt
                      /\ old(e).used = (row[e].used \/ e \in A)
    OBVIOUS
  <2>1. row[e] \in Row BY <1>2
  <2>2. CASE e \in A BY <2>1, <2>2 DEF Row
  <2>3. CASE e \notin A BY <2>1, <2>3 DEF Row
  <2>4. QED BY <2>2, <2>3
<1>4. \A e \in Deliveries : ~Stored(e) => old(e) = NoRow
  BY <1>1 DEF TypeOK, Stored, Row, Statuses
<1> DEFINE new == [old(d) EXCEPT !.status = status, !.sentAt = TRUE, !.message = m, !.transaction = t]
<1>5. row' = [e \in Deliveries |-> IF e = d THEN new ELSE old(e)]
  BY DEF Confirm, MarkUsed
<1>6. /\ new \in Row
      /\ new.status = status /\ new.phone = old(d).phone /\ new.expired = old(d).expired
      /\ new.used = old(d).used /\ new.sentAt
  <2>1. old(d) \in Row BY <1>3
  <2>2. QED BY <2>1 DEF Row, Statuses
<1> HIDE DEF old, new, A
<1>7. row' \in [Deliveries -> Row \cup {NoRow}]
  BY <1>3, <1>4, <1>5, <1>6
<1>8. \A e \in Deliveries : row'[e] = IF e = d THEN new ELSE old(e)
  BY <1>5
<1>9. \A e \in Deliveries :
         /\ Stored(e)' = Stored(e)
         /\ Stored(e) =>
              /\ row'[e].phone = row[e].phone
              /\ row'[e].expired = row[e].expired
              /\ row'[e].used = (row[e].used \/ e \in A)
              /\ row'[e].sentAt = (row[e].sentAt \/ e = d)
              /\ row'[e].status = IF e = d THEN status ELSE row[e].status
  <2> SUFFICES ASSUME NEW e \in Deliveries
               PROVE  /\ Stored(e)' = Stored(e)
                      /\ Stored(e) =>
                           /\ row'[e].phone = row[e].phone
                           /\ row'[e].expired = row[e].expired
                           /\ row'[e].used = (row[e].used \/ e \in A)
                           /\ row'[e].sentAt = (row[e].sentAt \/ e = d)
                           /\ row'[e].status = IF e = d THEN status ELSE row[e].status
    OBVIOUS
  <2>1. CASE e = d
    <3>1. row'[e] = new BY <1>8, <2>1
    <3>2. QED BY <1>3, <1>6, <2>1, <3>1, StoredRow DEF Stored, Row
  <2>2. CASE e # d /\ Stored(e)
    <3>1. row'[e] = old(e) BY <1>8, <2>2
    <3>2. old(e).sentAt = row[e].sentAt /\ row[e].sentAt \in BOOLEAN BY <1>3, <2>2, StoredRow DEF Row
    <3>3. QED BY <1>3, <2>2, <3>1, <3>2 DEF Stored
  <2>3. CASE e # d /\ ~Stored(e)
    BY <1>4, <1>8, <2>3 DEF Stored, NoRow
  <2>4. QED BY <2>1, <2>2, <2>3
<1>10. newest' = [newest EXCEPT ![row[d].phone] = IF d > @ THEN d ELSE @]
  BY DEF Confirm
<1>11. QED BY <1>7, <1>9, <1>10 DEF Confirmation, A

-----------------------------------------------------------------------------
(* The inductive invariant.                                                *)

\* Two stored deliveries of one phone, e asked for before n.
Before(e, n) == e < n /\ Stored(e) /\ Stored(n) /\ row[e].phone = row[n].phone

\* An accepted or sent delivery has sent_at.
Confirmed ==
    \A d \in Deliveries : Stored(d) /\ row[d].status \in {"accepted", "sent"} => row[d].sentAt

\* No delivery with sent_at is newer than the newest one confirmed.
Bounded ==
    \A d \in Deliveries : Stored(d) /\ row[d].sentAt => d <= newest[row[d].phone]

\* The newest confirmed delivery is stored as long as an older one is.
Barrier ==
    \A d \in Deliveries : Stored(d) /\ d < newest[row[d].phone] =>
      Before(d, newest[row[d].phone]) /\ row[newest[row[d].phone]].sentAt

\* An older code that is still usable next to a confirmed one has expired, and
\* the newer one is used.
Retired ==
    \A d, n \in Deliveries : Before(d, n) /\ row[n].sentAt /\ Usable(d) =>
      row[n].used /\ row[d].expired

\* A delivery used before its confirmation was retired with all older ones.
Marked ==
    \A d, n \in Deliveries : Before(d, n) /\ row[n].used /\ ~row[n].sentAt => row[d].used

\* The deliveries of a phone expire in order.
ExpiryOrder ==
    \A d, n \in Deliveries : Before(d, n) /\ row[n].expired => row[d].expired

\* A code that has signed in is used.
ConsumedUsed == \A d \in consumed : Stored(d) /\ row[d].used

\* How the codes of a phone retire each other.
CodeOrder == Confirmed /\ Bounded /\ Barrier /\ Retired /\ Marked /\ ExpiryOrder

\* Only issued attempt numbers are ever confirmed.
Issued == \A p \in Phones : newest[p] < next

\* The inductive invariant.
IInv == TypeOK /\ Issued /\ CodeOrder /\ ConsumedUsed

-----------------------------------------------------------------------------
(* The steps that confirm nothing.                                         *)

\* One stored row is rewritten.
LEMMA OneRow ==
    ASSUME TypeOK, NEW d \in Deliveries, Stored(d), NEW r \in Row,
           row' = [row EXCEPT ![d] = r]
    PROVE  /\ row' \in [Deliveries -> Row \cup {NoRow}]
           /\ \A e \in Deliveries : Stored(e)' = Stored(e)
           /\ \A e \in Deliveries : row'[e] = IF e = d THEN r ELSE row[e]
<1>1. row \in [Deliveries -> Row \cup {NoRow}] BY DEF TypeOK
<1>2. r.status # "none" BY RowFields
<1>3. \A e \in Deliveries : row'[e] = IF e = d THEN r ELSE row[e] BY <1>1
<1>4. QED BY <1>1, <1>2, <1>3 DEF Stored

\* No delivery is inserted, deleted or confirmed; only usable codes become used.
Quiet ==
    /\ UNCHANGED <<next, newest>>
    /\ \A e \in consumed' : e \in consumed \/ (e \in Deliveries /\ Stored(e) /\ row'[e].used)
    /\ \A e \in Deliveries :
         /\ Stored(e)' = Stored(e)
         /\ Stored(e) =>
              /\ row'[e].phone = row[e].phone
              /\ row'[e].sentAt = row[e].sentAt
              /\ row[e].expired => row'[e].expired
              /\ row'[e].expired /\ ~row[e].expired =>
                   \A n \in StoredOf(row[e].phone) : n < e => row[n].expired
              /\ row[e].used => row'[e].used
              /\ row'[e].used /\ ~row[e].used => Usable(e) /\ e \in consumed'
              /\ row'[e].status \in {"accepted", "sent"} => row[e].status \in {"accepted", "sent"}
              /\ row[e].status \in {"accepted", "sent"} => row'[e].status \in {"accepted", "sent", "failed"}
              /\ row[e].status = "failed" => row'[e].status = "failed"

\* send() refuses deliveries whose failure is recorded.
RefusalsEarned ==
    \A e \in refused' : e \in refused \/ (e \in Deliveries /\ Stored(e) /\ row'[e].status = "failed")

\* A step that leaves the table and the histories alone is quiet.
LEMMA StutterQuiet ==
    ASSUME TypeOK, UNCHANGED <<row, next, newest, consumed>>
    PROVE  Quiet
BY DEF Quiet, Stored

\* A step that changes the status of one row to one that is not usable, or
\* lets the oldest unexpired delivery of a phone expire.
LEMMA StatusQuiet ==
    ASSUME TypeOK, NEW d \in Deliveries, Stored(d), NEW r \in Row, row' = [row EXCEPT ![d] = r],
           r.phone = row[d].phone, r.sentAt = row[d].sentAt, r.used = row[d].used,
           row[d].expired => r.expired,
           r.expired /\ ~row[d].expired => \A n \in StoredOf(row[d].phone) : n < d => row[n].expired,
           r.status \in {"accepted", "sent"} => r.status = row[d].status,
           row[d].status \in {"accepted", "sent"} => r.status \in {"accepted", "sent", "failed"},
           row[d].status = "failed" => r.status = "failed",
           UNCHANGED <<next, newest, consumed>>
    PROVE  Quiet
BY OneRow DEF Quiet

\* Quiet steps keep the order of the codes.
LEMMA QuietKeeps ==
    ASSUME TypeOK, CodeOrder, Quiet
    PROVE  CodeOrder'
<1> USE DEF Quiet
<1>1. \A d, n \in Deliveries : Before(d, n)' = Before(d, n)
  BY DEF Before
<1>2. \A d \in Deliveries : Usable(d)' => Usable(d)
  BY DEF Usable
<1>3. Confirmed' BY DEF CodeOrder, Confirmed
<1>4. Bounded' BY DEF CodeOrder, Bounded
<1>5. Barrier'
  <2> SUFFICES ASSUME NEW d \in Deliveries, Stored(d)', d < newest'[row'[d].phone]
               PROVE  Before(d, newest[row[d].phone])' /\ row'[newest[row[d].phone]].sentAt
    BY DEF Barrier
  <2>1. Before(d, newest[row[d].phone]) /\ row[newest[row[d].phone]].sentAt
    BY DEF CodeOrder, Barrier
  <2>2. newest[row[d].phone] \in Deliveries
    BY <2>1, StoredRow, RowFields DEF TypeOK, Deliveries, Before
  <2>3. QED BY <1>1, <2>1, <2>2 DEF Before
<1>6. Retired' BY <1>1, <1>2 DEF CodeOrder, Retired, Before
<1>7. Marked'
  <2> SUFFICES ASSUME NEW d \in Deliveries, NEW n \in Deliveries,
                      Before(d, n)', row'[n].used, ~row'[n].sentAt
               PROVE  row'[d].used
    BY DEF Marked
  <2>1. Before(d, n) /\ ~row[n].sentAt BY <1>1 DEF Before
  <2>2. row[n].used BY <2>1 DEF Before, CodeOrder, Confirmed, Usable
  <2>3. QED BY <2>1, <2>2 DEF CodeOrder, Marked, Before
<1>8. ExpiryOrder'
  <2> SUFFICES ASSUME NEW d \in Deliveries, NEW n \in Deliveries, Before(d, n)', row'[n].expired
               PROVE  row'[d].expired
    BY DEF ExpiryOrder
  <2>1. Before(d, n) BY <1>1
  <2>2. d \in StoredOf(row[n].phone) /\ d < n /\ Stored(d) /\ Stored(n) BY <2>1 DEF Before, StoredOf
  <2>3. row[d].expired BY <2>1, <2>2 DEF CodeOrder, ExpiryOrder
  <2>4. QED BY <2>2, <2>3
<1>9. QED BY <1>3, <1>4, <1>5, <1>6, <1>7, <1>8 DEF CodeOrder

\* What the invariant says of two usable codes.
LEMMA InvariantOneUsable == IInv => OneUsableCode
<1> SUFFICES ASSUME IInv, NEW d \in Deliveries, NEW n \in Deliveries,
                    Usable(d), Usable(n), row[d].phone = row[n].phone
             PROVE  d = n
  BY DEF OneUsableCode
<1>1. ASSUME NEW x \in Deliveries, NEW y \in Deliveries, Usable(x), Usable(y),
             row[x].phone = row[y].phone, x < y
      PROVE  FALSE
  <2>1. Before(x, y) BY <1>1 DEF Before, Usable
  <2>2. row[y].sentAt BY <1>1 DEF IInv, CodeOrder, Confirmed, Usable
  <2>3. row[y].used BY <1>1, <2>1, <2>2 DEF IInv, CodeOrder, Retired
  <2>4. QED BY <1>1, <2>3 DEF Usable
<1>2. QED BY <1>1 DEF Deliveries

\* The actions that confirm nothing keep the types and are quiet.
LEMMA QuietActions ==
    ASSUME TypeOK, OneUsableCode,
           \/ \E p \in Phones, k \in Keys : Replay(p, k)
           \/ \E d \in Deliveries, outcome \in Outcomes : MarkOutcome(d, outcome)
           \/ \E d \in Deliveries : SendLost(d)
           \/ \E d \in Deliveries, m \in Messages, t \in Transactions \cup {NoId} :
                SmsUndelivered(d, m, t)
           \/ \E p \in Phones, c \in Codes : Consume(p, c)
           \/ \E d \in Deliveries : Expires(d)
           \/ \E p \in Phones : Anonymize(p)
    PROVE  TypeOK' /\ Quiet /\ RefusalsEarned
<1>1. ASSUME NEW p \in Phones, NEW k \in Keys, Replay(p, k) PROVE TypeOK' /\ Quiet /\ RefusalsEarned
  <2>1. PICK d \in StoredOf(p) :
          /\ \/ UNCHANGED row
             \/ row[d].status = "pending" /\ row' = [row EXCEPT ![d].status = "unknown"]
          /\ refused' = IF row[d].status = "failed" THEN Refuse(d) ELSE refused
          /\ UNCHANGED <<next, sending, account, newest, consumed>>
    BY <1>1 DEF Replay
  <2>2. d \in Deliveries /\ Stored(d) BY DEF StoredOf
  <2>3. refused' \in SUBSET Deliveries BY <2>1, <2>2 DEF TypeOK, Refuse
  <2>4. CASE UNCHANGED row
    <3>1. TypeOK' /\ Quiet BY <2>1, <2>3, <2>4, StutterQuiet DEF TypeOK, Stored
    <3>2. RefusalsEarned BY <2>1, <2>2, <2>4 DEF RefusalsEarned, Refuse
    <3>3. QED BY <3>1, <3>2
  <2>5. CASE row[d].status = "pending" /\ row' = [row EXCEPT ![d].status = "unknown"]
    <3> DEFINE r == [row[d] EXCEPT !.status = "unknown"]
    <3>1. row[d] \in Row BY <2>2, StoredRow
    <3>2. r \in Row /\ r.phone = row[d].phone /\ r.sentAt = row[d].sentAt /\ r.used = row[d].used
          /\ r.expired = row[d].expired /\ r.status = "unknown"
      BY <3>1 DEF Row, Statuses
    <3>3. row' = [row EXCEPT ![d] = r] BY <2>5
    <3> HIDE DEF r
    <3>4. Quiet BY <2>1, <2>2, <2>5, <3>2, <3>3, StatusQuiet
    <3>5. TypeOK' BY <2>1, <2>2, <2>3, <3>2, <3>3, OneRow DEF TypeOK
    <3>6. RefusalsEarned BY <2>1, <2>5 DEF RefusalsEarned
    <3>7. QED BY <3>4, <3>5, <3>6
  <2>6. QED BY <2>1, <2>4, <2>5
<1>2. ASSUME NEW d \in Deliveries, NEW outcome \in Outcomes, MarkOutcome(d, outcome)
      PROVE  TypeOK' /\ Quiet /\ RefusalsEarned
  <2> DEFINE open == Stored(d) /\ row[d].status \in {"pending", "unknown"}
  <2>1. refused' \in SUBSET Deliveries /\ sending' \in SUBSET Deliveries /\ sending' \subseteq sending
        /\ UNCHANGED <<next, account, newest, consumed>>
    BY <1>2 DEF MarkOutcome, TypeOK, Refuse
  <2>2. CASE ~open
    <3>1. row' = row BY <1>2, <2>2 DEF MarkOutcome
    <3>2. TypeOK' /\ Quiet BY <2>1, <3>1, StutterQuiet DEF TypeOK, Stored
    <3>3. RefusalsEarned BY <1>2, <2>2, <3>1 DEF RefusalsEarned, MarkOutcome, Refuse
    <3>4. QED BY <3>2, <3>3
  <2>3. CASE open
    <3> DEFINE r == [row[d] EXCEPT !.status = outcome]
    <3>1. row[d] \in Row BY <2>3, StoredRow
    <3>2. r \in Row /\ r.phone = row[d].phone /\ r.sentAt = row[d].sentAt /\ r.used = row[d].used
          /\ r.expired = row[d].expired /\ r.status = outcome /\ outcome \notin {"accepted", "sent"}
      BY <3>1 DEF Row, Statuses, Outcomes
    <3>3. row' = [row EXCEPT ![d] = r] BY <1>2, <2>3 DEF MarkOutcome
    <3>4. refused' = IF outcome = "failed" THEN refused \cup {d} ELSE refused
      BY <1>2, <2>3 DEF MarkOutcome, Refuse
    <3> HIDE DEF r
    <3>5. Quiet BY <2>1, <2>3, <3>2, <3>3, StatusQuiet
    <3>6. TypeOK' BY <2>1, <2>3, <3>2, <3>3, OneRow DEF TypeOK
    <3>7. row'[d] = r BY <2>3, <3>2, <3>3, OneRow
    <3>8. RefusalsEarned BY <2>3, <3>2, <3>4, <3>7 DEF RefusalsEarned
    <3>9. QED BY <3>5, <3>6, <3>8
  <2>4. QED BY <2>2, <2>3
<1>3. ASSUME NEW d \in Deliveries, SendLost(d) PROVE TypeOK' /\ Quiet /\ RefusalsEarned
  BY <1>3, StutterQuiet DEF SendLost, TypeOK, Stored, RefusalsEarned
<1>4. ASSUME NEW d \in Deliveries, NEW m \in Messages, NEW t \in Transactions \cup {NoId},
             SmsUndelivered(d, m, t)
      PROVE  TypeOK' /\ Quiet /\ RefusalsEarned
  <2> DEFINE r == [row[d] EXCEPT !.status = "failed", !.message = m,
                                 !.transaction = IF @ = NoId THEN t ELSE @]
  <2>1. Stored(d) /\ row[d] \in Row BY <1>4, StoredRow DEF SmsUndelivered
  <2>2. r \in Row /\ r.phone = row[d].phone /\ r.sentAt = row[d].sentAt /\ r.used = row[d].used
        /\ r.expired = row[d].expired /\ r.status = "failed"
    BY <2>1 DEF Row, Statuses
  <2>3. row \in [Deliveries -> Row \cup {NoRow}] BY DEF TypeOK
  <2>4. row' = [row EXCEPT ![d] = r] BY <1>4, <2>3 DEF SmsUndelivered
  <2>5. UNCHANGED <<next, sending, account, newest, consumed, refused>>
    BY <1>4 DEF SmsUndelivered
  <2> HIDE DEF r
  <2>6. Quiet BY <2>1, <2>2, <2>4, <2>5, StatusQuiet
  <2>7. TypeOK' BY <2>1, <2>2, <2>4, <2>5, OneRow DEF TypeOK
  <2>8. QED BY <2>5, <2>6, <2>7 DEF RefusalsEarned
<1>5. ASSUME NEW p \in Phones, NEW c \in Codes, Consume(p, c) PROVE TypeOK' /\ Quiet /\ RefusalsEarned
  <2> DEFINE M == Matching(p, c)
  <2>1. M \subseteq Deliveries /\ \A e \in M : Stored(e) /\ Usable(e)
    BY DEF Matching, StoredOf
  <2>2. \A e \in Deliveries : row'[e] = IF e \in M THEN [row[e] EXCEPT !.used = TRUE] ELSE row[e]
    BY <1>5 DEF Consume, MarkUsed
  <2>3. ASSUME NEW e \in Deliveries
        PROVE  /\ row'[e] \in Row \cup {NoRow}
               /\ Stored(e)' = Stored(e)
               /\ Stored(e) =>
                    /\ row'[e].phone = row[e].phone /\ row'[e].sentAt = row[e].sentAt
                    /\ row'[e].expired = row[e].expired /\ row'[e].status = row[e].status
                    /\ row'[e].used = (row[e].used \/ e \in M)
    <3>1. CASE e \in M
      <4>1. row[e] \in Row BY <2>1, <3>1, StoredRow
      <4>2. row'[e] = [row[e] EXCEPT !.used = TRUE] BY <2>2, <3>1
      <4>3. QED BY <3>1, <4>1, <4>2 DEF Row, Stored
    <3>2. CASE e \notin M
      <4>1. row'[e] = row[e] BY <2>2, <3>2
      <4>2. Stored(e) => row[e].used \in BOOLEAN BY StoredRow, RowFields
      <4>3. row[e] \in Row \cup {NoRow} BY DEF TypeOK
      <4>4. QED BY <3>2, <4>1, <4>2, <4>3 DEF Stored
    <3>3. QED BY <3>1, <3>2
  <2>4. row' \in [Deliveries -> Row \cup {NoRow}]
    BY <1>5, <2>3 DEF Consume, MarkUsed
  <2>5. UNCHANGED <<next, sending, account, newest, refused>> /\ consumed' \subseteq consumed \cup M
    BY <1>5 DEF Consume
  <2> HIDE DEF M
  <2>6. M \subseteq consumed'
    <3>1. PICK e : e \in M BY <1>5 DEF Consume, M
    <3>2. \A n \in M : n = e
      BY <2>1, <3>1 DEF M, OneUsableCode, Matching, StoredOf
    <3>3. M = {e} BY <3>1, <3>2
    <3>4. Cardinality(M) = 1 BY <3>3, FS_Singleton
    <3>5. QED BY <1>5, <3>4 DEF Consume, M
  <2>7. Quiet BY <2>1, <2>3, <2>5, <2>6 DEF Quiet
  <2>8. TypeOK' BY <2>1, <2>3, <2>4, <2>5 DEF TypeOK
  <2>9. QED BY <2>5, <2>7, <2>8 DEF RefusalsEarned
<1>6. ASSUME NEW d \in Deliveries, Expires(d) PROVE TypeOK' /\ Quiet /\ RefusalsEarned
  <2> DEFINE r == [row[d] EXCEPT !.expired = TRUE]
  <2>1. Stored(d) /\ row[d] \in Row BY <1>6, StoredRow DEF Expires
  <2>2. r \in Row /\ r.phone = row[d].phone /\ r.sentAt = row[d].sentAt /\ r.used = row[d].used
        /\ r.expired /\ r.status = row[d].status
    BY <2>1 DEF Row, Statuses
  <2>3. row' = [row EXCEPT ![d] = r] BY <1>6 DEF Expires
  <2>4. UNCHANGED <<next, sending, account, newest, consumed, refused>>
        /\ \A n \in StoredOf(row[d].phone) : n < d => row[n].expired
    BY <1>6 DEF Expires
  <2> HIDE DEF r
  <2>5. Quiet BY <2>1, <2>2, <2>3, <2>4, StatusQuiet
  <2>6. TypeOK' BY <2>1, <2>2, <2>3, <2>4, OneRow DEF TypeOK
  <2>7. QED BY <2>4, <2>5, <2>6 DEF RefusalsEarned
<1>7. ASSUME NEW p \in Phones, Anonymize(p) PROVE TypeOK' /\ Quiet /\ RefusalsEarned
  BY <1>7, StutterQuiet DEF Anonymize, TypeOK, Stored, RefusalsEarned
<1>8. QED BY <1>1, <1>2, <1>3, <1>4, <1>5, <1>6, <1>7

-----------------------------------------------------------------------------
(* Confirmations, insertions and deletions.                                *)

\* activate keeps the order of the codes of a phone.
LEMMA ConfirmationKeeps ==
    ASSUME TypeOK, CodeOrder, NEW d \in Deliveries, Stored(d),
           NEW status \in {"accepted", "sent"}, Confirmation(d, status)
    PROVE  CodeOrder'
<1> DEFINE A == Activate(d)
<1>1. \A e, n \in Deliveries : Before(e, n)' = Before(e, n)
  BY DEF Before, Confirmation
<1>2. \A e \in Deliveries : Stored(e) => row[e].phone \in Phones
  BY StoredRow, RowFields
<1>3. \A p \in Phones : newest[p] \in 0..MaxDeliveries
  BY DEF TypeOK
<1>4. \A p \in Phones : newest'[p] = IF p = row[d].phone /\ d > newest[p] THEN d ELSE newest[p]
  BY DEF TypeOK, Confirmation
<1>5. Confirmed'
  BY DEF CodeOrder, Confirmed, Confirmation
<1>6. Bounded'
  <2> SUFFICES ASSUME NEW e \in Deliveries, Stored(e)', row'[e].sentAt
               PROVE  e <= newest'[row'[e].phone]
    BY DEF Bounded
  <2>1. Stored(e) /\ row'[e].phone = row[e].phone /\ (row[e].sentAt \/ e = d)
    BY DEF Confirmation
  <2>2. CASE e = d BY <1>2, <1>3, <1>4, <2>1, <2>2 DEF Deliveries
  <2>3. CASE row[e].sentAt
    <3>1. e <= newest[row[e].phone] BY <2>1, <2>3 DEF CodeOrder, Bounded
    <3>2. QED BY <1>2, <1>3, <1>4, <2>1, <3>1 DEF Deliveries
  <2>4. QED BY <2>1, <2>2, <2>3
<1>7. Barrier'
  <2> SUFFICES ASSUME NEW e \in Deliveries, Stored(e)', e < newest'[row'[e].phone],
                      NEW n, n = newest'[row'[e].phone]
               PROVE  Before(e, n)' /\ row'[n].sentAt
    BY DEF Barrier
  <2>1. Stored(e) /\ row'[e].phone = row[e].phone /\ row[e].phone \in Phones
    BY <1>2 DEF Confirmation
  <2>2. CASE n = d /\ row[e].phone = row[d].phone
    <3>1. Before(e, d) BY <2>1, <2>2 DEF Before
    <3>2. QED BY <1>1, <2>2, <3>1 DEF Confirmation
  <2>3. CASE n = newest[row[e].phone]
    <3>1. Before(e, n) /\ row[n].sentAt BY <2>1, <2>3 DEF CodeOrder, Barrier
    <3>2. n \in Deliveries /\ Stored(n)
      <4>1. n \in 0..MaxDeliveries BY <1>3, <2>1, <2>3
      <4>2. e < n /\ Stored(n) BY <3>1 DEF Before
      <4>3. QED BY <4>1, <4>2, DeliveriesAssumption DEF Deliveries
    <3>3. row'[n].sentAt BY <3>1, <3>2 DEF Confirmation
    <3>4. QED BY <1>1, <3>1, <3>2, <3>3
  <2>4. QED BY <1>4, <2>1, <2>2, <2>3
<1>8. \A e \in Deliveries : Stored(e) /\ e # d /\ Usable(e)' => Usable(e)
  BY DEF Usable, Confirmation
<1>9. Retired'
  <2> SUFFICES ASSUME NEW e \in Deliveries, NEW n \in Deliveries,
                      Before(e, n)', row'[n].sentAt, Usable(e)'
               PROVE  row'[n].used /\ row'[e].expired
    BY DEF Retired
  <2>1. Before(e, n) /\ Stored(e) /\ Stored(n) /\ e < n /\ row[e].phone = row[n].phone
    BY <1>1 DEF Before
  <2>2. ~row[e].used /\ e \notin A BY <2>1 DEF Usable, Confirmation
  <2>3. CASE n # d /\ e # d
    <3>1. row[n].sentAt /\ Usable(e) BY <1>8, <2>1, <2>3 DEF Confirmation
    <3>2. row[n].used /\ row[e].expired BY <2>1, <3>1 DEF CodeOrder, Retired
    <3>3. QED BY <2>1, <3>2 DEF Confirmation
  <2>4. CASE n # d /\ e = d
    <3>1. row[n].sentAt BY <2>1, <2>4 DEF Confirmation
    <3>2. Superseded(d) BY <2>1, <2>4, <3>1 DEF Superseded, StoredOf
    <3>3. d \in A BY <2>2, <2>4, <3>2 DEF Activate
    <3>4. QED BY <2>2, <2>4, <3>3
  <2>5. CASE n = d
    <3>0. e # d BY <2>1, <2>5 DEF Deliveries
    <3>1. e # d /\ Usable(e) BY <1>8, <2>1, <3>0
    <3>2. CASE row[d].used /\ row[d].sentAt
      <4>1. row[e].expired BY <2>1, <2>5, <3>1, <3>2 DEF CodeOrder, Retired
      <4>2. QED BY <2>1, <2>5, <3>2, <4>1 DEF Confirmation
    <3>3. CASE row[d].used /\ ~row[d].sentAt
      BY <2>1, <2>2, <2>5, <3>3 DEF CodeOrder, Marked
    <3>4. CASE ~row[d].used /\ row[d].expired
      <4>1. row[e].expired BY <2>1, <2>5, <3>4 DEF CodeOrder, ExpiryOrder
      <4>2. d \in A BY <3>4 DEF Activate
      <4>3. QED BY <2>1, <2>5, <4>1, <4>2 DEF Confirmation
    <3>5. CASE ~row[d].used /\ Superseded(d)
      <4>1. PICK x \in Deliveries : Before(e, x) /\ row[x].sentAt
        BY <2>1, <2>5, <3>5 DEF Superseded, StoredOf, Before, Deliveries
      <4>2. row[e].expired BY <3>1, <4>1 DEF CodeOrder, Retired
      <4>3. d \in A BY <3>5 DEF Activate
      <4>4. QED BY <2>1, <2>5, <4>2, <4>3 DEF Confirmation
    <3>6. CASE ~row[d].used /\ ~row[d].expired /\ ~Superseded(d)
      <4>1. e \in A BY <2>1, <2>5, <3>6 DEF Activate, StoredOf
      <4>2. QED BY <2>2, <4>1
    <3>7. QED BY <3>2, <3>3, <3>4, <3>5, <3>6
  <2>6. QED BY <2>3, <2>4, <2>5
<1>10. Marked'
  <2> SUFFICES ASSUME NEW e \in Deliveries, NEW n \in Deliveries,
                      Before(e, n)', row'[n].used, ~row'[n].sentAt
               PROVE  row'[e].used
    BY DEF Marked
  <2>1. Before(e, n) /\ Stored(e) /\ Stored(n) /\ e < n /\ row[e].phone = row[n].phone
    BY <1>1 DEF Before
  <2>2. n # d /\ ~row[n].sentAt /\ (row[n].used \/ n \in A) BY <2>1 DEF Confirmation
  <2>3. CASE row[n].used
    <3>1. row[e].used BY <2>1, <2>2, <2>3 DEF CodeOrder, Marked
    <3>2. QED BY <2>1, <3>1 DEF Confirmation
  <2>4. CASE n \in A
    <3>1. ~row[d].used /\ ~row[d].expired /\ ~Superseded(d) /\ n < d /\ row[n].phone = row[d].phone
      BY <2>2, <2>4 DEF Activate, StoredOf
    <3>2. e \in A BY <2>1, <3>1 DEF Activate, StoredOf, Deliveries
    <3>3. QED BY <2>1, <3>2 DEF Confirmation
  <2>5. QED BY <2>2, <2>3, <2>4
<1>11. ExpiryOrder'
  BY <1>1 DEF CodeOrder, ExpiryOrder, Confirmation, Before
<1>12. QED BY <1>5, <1>6, <1>7, <1>9, <1>10, <1>11 DEF CodeOrder

\* A new delivery is the newest of its phone and confirms nothing.
LEMMA BeginKeeps ==
    ASSUME IInv, NEW p \in Phones, NEW k \in Keys, NEW c \in Codes, Begin(p, k, c)
    PROVE  IInv'
<1> DEFINE r == [status |-> "pending", used |-> FALSE, sentAt |-> FALSE, expired |-> FALSE,
                 phone |-> p, key |-> k, code |-> c, message |-> NoId, transaction |-> NoId]
<1>1. r \in Row /\ r.phone = p /\ ~r.used /\ ~r.sentAt /\ ~r.expired /\ r.status = "pending"
  BY DEF Row, Statuses
<1>2. next \in Deliveries /\ ~Stored(next)
  BY DEF Begin, IInv, TypeOK, Deliveries
<1>3. row' = [row EXCEPT ![next] = r]
  BY DEF Begin
<1> HIDE DEF r
<1>4. \A e \in Deliveries : row'[e] = IF e = next THEN r ELSE row[e]
  BY <1>3 DEF IInv, TypeOK
<1>5. row' \in [Deliveries -> Row \cup {NoRow}]
  BY <1>1, <1>3 DEF IInv, TypeOK
<1>6. UNCHANGED <<account, newest, consumed, refused>> /\ next' = next + 1
      /\ sending' = sending \cup {next} /\ next <= MaxDeliveries
  BY DEF Begin
<1>7. \A e \in Deliveries : Stored(e)' = (Stored(e) \/ e = next)
  BY <1>1, <1>4 DEF Stored
<1>8. TypeOK'
  <2>1. next \in 1..MaxDeliveries BY <1>2 DEF Deliveries
  <2>2. next' \in 1..(MaxDeliveries + 1) BY <1>6, <2>1, DeliveriesAssumption
  <2>3. \A e \in Deliveries : Stored(e) \/ e \in sending => e < next
    BY DEF IInv, TypeOK
  <2>4. ASSUME NEW e \in Deliveries, Stored(e)' \/ e \in sending' PROVE e < next'
    <3>1. e < next \/ e = next BY <1>6, <1>7, <2>3, <2>4
    <3>2. QED BY <1>6, <2>1, <3>1 DEF Deliveries
  <2>5. sending' \in SUBSET Deliveries BY <1>2, <1>6 DEF IInv, TypeOK
  <2>6. QED BY <1>5, <1>6, <2>2, <2>4, <2>5 DEF IInv, TypeOK
<1>9. \A e \in Deliveries : Stored(e) => e < next
  BY DEF IInv, TypeOK
<1>10. \A e, n \in Deliveries : Before(e, n)' => e # next /\ (n = next \/ Before(e, n))
  <2> SUFFICES ASSUME NEW e \in Deliveries, NEW n \in Deliveries, Before(e, n)'
               PROVE  e # next /\ (n = next \/ Before(e, n))
    OBVIOUS
  <2>1. e < n /\ (Stored(e) \/ e = next) /\ (Stored(n) \/ n = next) /\ row'[e].phone = row'[n].phone
    BY <1>7 DEF Before
  <2>2. e # next BY <1>2, <1>9, <2>1 DEF Deliveries
  <2>3. QED BY <1>4, <2>1, <2>2 DEF Before
<1>11. \A e \in Deliveries : Usable(e)' => e # next /\ Usable(e)
  BY <1>1, <1>4, <1>7 DEF Usable
<1>12. Issued' /\ ConsumedUsed'
  <2>1. \A q \in Phones : newest[q] \in 0..MaxDeliveries /\ newest[q] < next
    BY DEF IInv, Issued, TypeOK
  <2>2. Issued' BY <1>2, <1>6, <2>1 DEF Issued, Deliveries
  <2>3. \A e \in consumed : e \in Deliveries /\ Stored(e) /\ row[e].used
    BY DEF IInv, TypeOK, ConsumedUsed
  <2>4. ConsumedUsed' BY <1>2, <1>4, <1>6, <1>7, <2>3 DEF ConsumedUsed
  <2>5. QED BY <2>2, <2>4
<1>13. Confirmed'
  BY <1>1, <1>4, <1>7 DEF IInv, CodeOrder, Confirmed
<1>14. Bounded'
  BY <1>1, <1>4, <1>6, <1>7 DEF IInv, CodeOrder, Bounded
<1>15. Barrier'
  <2> SUFFICES ASSUME NEW e \in Deliveries, Stored(e)', e < newest'[row'[e].phone],
                      NEW n, n = newest'[row'[e].phone]
               PROVE  Before(e, n)' /\ row'[n].sentAt
    BY DEF Barrier
  <2>1. e # next BY <1>1, <1>4, <1>6 DEF IInv, Issued, TypeOK, Deliveries
  <2>2. Stored(e) /\ row'[e] = row[e] BY <1>4, <1>7, <2>1
  <2>3. Before(e, n) /\ row[n].sentAt BY <1>6, <2>2 DEF IInv, CodeOrder, Barrier
  <2>4. n \in Deliveries
    BY <1>6, <2>2, StoredRow, RowFields DEF IInv, TypeOK, Deliveries
  <2>5. row'[n] = row[n] BY <1>2, <1>4, <2>3, <2>4 DEF Before
  <2>6. QED BY <2>2, <2>3, <2>5 DEF Before, Stored
<1>16. Retired'
  BY <1>1, <1>4, <1>10, <1>11 DEF IInv, CodeOrder, Retired, Before
<1>17. Marked'
  BY <1>1, <1>4, <1>10 DEF IInv, CodeOrder, Marked, Before
<1>18. ExpiryOrder'
  BY <1>1, <1>4, <1>10 DEF IInv, CodeOrder, ExpiryOrder, Before
<1>19. QED
  BY <1>8, <1>12, <1>13, <1>14, <1>15, <1>16, <1>17, <1>18 DEF IInv, CodeOrder

\* The purge takes the oldest delivery of a phone, so it takes no barrier.
LEMMA PurgeKeeps ==
    ASSUME IInv, NEW d \in Deliveries, Purge(d)
    PROVE  IInv'
<1>1. Stored(d) /\ row[d].expired /\ (\A n \in StoredOf(row[d].phone) : n >= d)
      /\ row' = [row EXCEPT ![d] = NoRow]
      /\ consumed' = consumed \ {d} /\ refused' = refused \ {d}
      /\ UNCHANGED <<next, sending, account, newest>>
  BY DEF Purge
<1>2. \A e \in Deliveries : row'[e] = IF e = d THEN NoRow ELSE row[e]
  BY <1>1 DEF IInv, TypeOK
<1>3. \A e \in Deliveries : Stored(e)' = (Stored(e) /\ e # d)
  BY <1>2 DEF Stored, NoRow
<1>4. TypeOK'
  BY <1>1, <1>3 DEF IInv, TypeOK
<1>5. \A e, n \in Deliveries : Before(e, n)' => Before(e, n) /\ e # d /\ n # d
  BY <1>2, <1>3 DEF Before
<1>6. \A e \in Deliveries : Usable(e)' => Usable(e) /\ e # d
  BY <1>2, <1>3 DEF Usable
<1>7. Issued' /\ ConsumedUsed'
  BY <1>1, <1>2, <1>3 DEF IInv, Issued, ConsumedUsed, TypeOK
<1>8. Confirmed' BY <1>2, <1>3 DEF IInv, CodeOrder, Confirmed
<1>9. Bounded' BY <1>1, <1>2, <1>3 DEF IInv, CodeOrder, Bounded
<1>10. Barrier'
  <2> SUFFICES ASSUME NEW e \in Deliveries, Stored(e)', e < newest'[row'[e].phone],
                      NEW n, n = newest'[row'[e].phone]
               PROVE  Before(e, n)' /\ row'[n].sentAt
    BY DEF Barrier
  <2>1. e # d /\ Stored(e) /\ row'[e] = row[e] BY <1>2, <1>3
  <2>2. Before(e, n) /\ row[n].sentAt BY <1>1, <2>1 DEF IInv, CodeOrder, Barrier
  <2>3. n \in Deliveries
    BY <1>1, <2>1, StoredRow, RowFields DEF IInv, TypeOK, Deliveries
  <2>4. n # d
    <3>1. ASSUME n = d PROVE FALSE
      <4>1. e \in StoredOf(row[d].phone) BY <2>1, <2>2, <3>1 DEF Before, StoredOf
      <4>2. e >= d /\ e < d BY <1>1, <2>2, <3>1, <4>1 DEF Before
      <4>3. QED BY <4>2 DEF Deliveries
    <3>2. QED BY <3>1
  <2>5. row'[n] = row[n] BY <1>2, <2>3, <2>4
  <2>6. QED BY <2>1, <2>2, <2>5 DEF Before, Stored
<1>11. Retired' BY <1>2, <1>5, <1>6 DEF IInv, CodeOrder, Retired
<1>12. Marked' BY <1>2, <1>5 DEF IInv, CodeOrder, Marked
<1>13. ExpiryOrder' BY <1>2, <1>5 DEF IInv, CodeOrder, ExpiryOrder
<1>14. QED
  BY <1>4, <1>7, <1>8, <1>9, <1>10, <1>11, <1>12, <1>13 DEF IInv, CodeOrder

-----------------------------------------------------------------------------
(* The invariant and what follows from it.                                 *)

\* A confirmation keeps the invariant, whatever send() answers.
LEMMA ConfirmationInvariant ==
    ASSUME IInv, NEW d \in Deliveries, Stored(d), NEW status \in {"accepted", "sent"},
           Confirmation(d, status), UNCHANGED <<next, account, consumed>>,
           sending' \subseteq sending, refused' \subseteq refused \cup {d}
    PROVE  IInv'
<1>1. CodeOrder' BY ConfirmationKeeps DEF IInv
<1>2. row[d].phone \in Phones BY StoredRow, RowFields DEF IInv
<1>3. newest' \in [Phones -> 0..MaxDeliveries]
  BY <1>2 DEF IInv, TypeOK, Confirmation, Deliveries
<1>4. TypeOK'
  BY <1>3 DEF IInv, TypeOK, Confirmation
<1>5. d < next BY DEF IInv, TypeOK
<1>6. Issued'
  BY <1>2, <1>5 DEF IInv, TypeOK, Issued, Confirmation
<1>7. ConsumedUsed'
  BY DEF IInv, TypeOK, ConsumedUsed, Confirmation
<1>8. QED BY <1>1, <1>4, <1>6, <1>7 DEF IInv

\* markOtpAccepted either confirms the delivery or leaves the table alone.
LEMMA MarkAcceptedEffect ==
    ASSUME TypeOK, NEW d \in Deliveries, NEW m \in Messages, NEW t \in Transactions,
           MarkAccepted(d, m, t)
    PROVE  /\ UNCHANGED <<next, account, consumed>>
           /\ sending' \subseteq sending /\ refused' \subseteq refused \cup {d}
           /\ \/ UNCHANGED <<row, newest>>
              \/ /\ Stored(d) /\ row[d].status # "failed"
                 /\ \E status \in {"accepted", "sent"} : Confirmation(d, status)
<1>1. UNCHANGED <<next, account, consumed>> /\ sending' \subseteq sending
      /\ refused' \subseteq refused \cup {d}
  BY DEF MarkAccepted, Refuse
<1>2. CASE Stored(d) /\ MatchesReceipt(d, m, t) /\ row[d].status # "failed"
  <2> DEFINE status == IF row[d].status = "sent" THEN "sent" ELSE "accepted"
  <2>1. Confirm(d, status, m, t) BY <1>2 DEF MarkAccepted
  <2>2. status \in {"accepted", "sent"} OBVIOUS
  <2> HIDE DEF status
  <2>3. Confirmation(d, status) BY <1>2, <2>1, <2>2, ConfirmEffect
  <2>4. QED BY <1>1, <1>2, <2>2, <2>3
<1>3. CASE ~(Stored(d) /\ MatchesReceipt(d, m, t) /\ row[d].status # "failed")
  BY <1>1, <1>3 DEF MarkAccepted
<1>4. QED BY <1>2, <1>3

\* applySmsEvent of sms_sent confirms the delivery.
LEMMA SmsSentEffect ==
    ASSUME TypeOK, NEW d \in Deliveries, NEW m \in Messages, NEW t \in Transactions \cup {NoId},
           SmsSent(d, m, t)
    PROVE  /\ UNCHANGED <<next, sending, account, consumed, refused>>
           /\ Stored(d) /\ row[d].status # "failed" /\ Confirmation(d, "sent")
<1> DEFINE x == IF row[d].transaction = NoId THEN t ELSE row[d].transaction
<1>1. Stored(d) /\ row[d] \in Row BY StoredRow DEF SmsSent
<1>2. x \in Transactions \cup {NoId} BY <1>1 DEF Row
<1>3. Confirm(d, "sent", m, x) BY DEF SmsSent
<1> HIDE DEF x
<1>4. Confirmation(d, "sent") BY <1>1, <1>2, <1>3, ConfirmEffect
<1>5. QED BY <1>1, <1>4 DEF SmsSent

\* The invariant holds at first.
LEMMA IInvInit == Init => IInv
<1> SUFFICES ASSUME Init PROVE IInv OBVIOUS
<1>1. \A d \in Deliveries : row[d] = NoRow /\ ~Stored(d)
  BY DEF Init, Stored, NoRow
<1>2. TypeOK
  BY <1>1, DeliveriesAssumption DEF Init, TypeOK
<1>3. CodeOrder
  BY <1>1 DEF CodeOrder, Confirmed, Bounded, Barrier, Retired, Marked, ExpiryOrder, Before
<1>4. QED BY <1>2, <1>3 DEF Init, IInv, Issued, ConsumedUsed

\* Every step keeps the invariant.
LEMMA IInvNext == IInv /\ [Next]_vars => IInv'
<1> SUFFICES ASSUME IInv, [Next]_vars PROVE IInv' OBVIOUS
<1>1. ASSUME TypeOK', Quiet PROVE IInv'
  <2>1. CodeOrder' BY <1>1, QuietKeeps DEF IInv
  <2>2. Issued' /\ ConsumedUsed' BY <1>1 DEF IInv, TypeOK, Issued, ConsumedUsed, Quiet
  <2>3. QED BY <1>1, <2>1, <2>2 DEF IInv
<1>2. ASSUME NEW p \in Phones, NEW k \in Keys, NEW c \in Codes, Begin(p, k, c) PROVE IInv'
  BY <1>2, BeginKeeps
<1>3. ASSUME NEW d \in Deliveries, NEW m \in Messages, NEW t \in Transactions, MarkAccepted(d, m, t)
      PROVE  IInv'
  <2>1. CASE UNCHANGED <<row, newest>>
    <3>1. Quiet BY <1>3, <2>1, MarkAcceptedEffect, StutterQuiet DEF IInv
    <3>2. TypeOK' BY <1>3, <2>1, MarkAcceptedEffect DEF IInv, TypeOK, Stored
    <3>3. QED BY <1>1, <3>1, <3>2
  <2>2. CASE Stored(d) /\ \E status \in {"accepted", "sent"} : Confirmation(d, status)
    BY <1>3, <2>2, MarkAcceptedEffect, ConfirmationInvariant DEF IInv
  <2>3. QED BY <1>3, <2>1, <2>2, MarkAcceptedEffect DEF IInv
<1>4. ASSUME NEW d \in Deliveries, NEW m \in Messages, NEW t \in Transactions \cup {NoId},
             SmsSent(d, m, t)
      PROVE  IInv'
  <2>1. /\ UNCHANGED <<next, sending, account, consumed, refused>>
        /\ Stored(d) /\ Confirmation(d, "sent")
    BY <1>4, SmsSentEffect DEF IInv
  <2>2. QED BY <2>1, ConfirmationInvariant
<1>5. ASSUME NEW d \in Deliveries, Purge(d) PROVE IInv'
  BY <1>5, PurgeKeeps
<1>6. CASE UNCHANGED vars
  <2>1. Quiet BY <1>6, StutterQuiet DEF IInv, vars
  <2>2. TypeOK' BY <1>6 DEF IInv, TypeOK, vars, Stored
  <2>3. QED BY <1>1, <2>1, <2>2
<1>7. QED
  BY <1>1, <1>2, <1>3, <1>4, <1>5, <1>6, QuietActions, InvariantOneUsable DEF Next, IInv

\* The invariant holds throughout.
LEMMA Invariance == Spec => []IInv
BY IInvInit, IInvNext, PTL DEF Spec

\* Every statement keeps the types of the table, and attempt numbers are
\* issued before they are stored or sent.
THEOREM TypeCorrect == Spec => []TypeOK
<1>1. IInv => TypeOK BY DEF IInv
<1>2. QED BY <1>1, Invariance, PTL

\* What the invariant says of a usable code that has not expired.
LEMMA InvariantNewest == IInv => OnlyNewestSignsIn
<1> SUFFICES ASSUME IInv, NEW d \in Deliveries, Usable(d), ~row[d].expired
             PROVE  newest[row[d].phone] = d /\ d \notin consumed
  BY DEF OnlyNewestSignsIn
<1>1. Stored(d) /\ row[d].sentAt /\ ~row[d].used
  BY DEF IInv, CodeOrder, Confirmed, Usable
<1>2. d \notin consumed BY <1>1 DEF IInv, ConsumedUsed
<1> DEFINE n == newest[row[d].phone]
<1>3. n \in 0..MaxDeliveries BY <1>1, StoredRow, RowFields DEF IInv, TypeOK
<1>4. d <= n BY <1>1 DEF IInv, CodeOrder, Bounded
<1>5. ASSUME d < n PROVE FALSE
  <2>1. Before(d, n) /\ row[n].sentAt BY <1>1, <1>5 DEF IInv, CodeOrder, Barrier
  <2>2. n \in Deliveries BY <1>3, <1>5, DeliveriesAssumption DEF Deliveries
  <2> HIDE DEF n
  <2>3. row[d].expired BY <2>1, <2>2 DEF IInv, CodeOrder, Retired
  <2>4. QED BY <2>3
<1>6. n = d BY <1>3, <1>4, <1>5 DEF Deliveries
<1>7. QED BY <1>2, <1>6

\* For any number of codes, receipts and webhooks in any order: one usable
\* code per phone, and the one that signs in is the newest ever confirmed.
THEOREM NewestCodeOnly == Spec => [](OneUsableCode /\ OnlyNewestSignsIn)
BY InvariantOneUsable, InvariantNewest, Invariance, PTL

\* The steps that are not quiet.
LEMMA StepKinds ==
    ASSUME IInv, [Next]_vars
    PROVE  \/ \E p \in Phones, k \in Keys, c \in Codes : Begin(p, k, c)
           \/ \E d \in Deliveries, m \in Messages, t \in Transactions : MarkAccepted(d, m, t)
           \/ \E d \in Deliveries, m \in Messages, t \in Transactions \cup {NoId} : SmsSent(d, m, t)
           \/ \E d \in Deliveries : Purge(d)
           \/ Quiet /\ RefusalsEarned
<1>1. CASE UNCHANGED vars
  BY <1>1, StutterQuiet DEF IInv, vars, RefusalsEarned
<1>2. QED BY <1>1, QuietActions, InvariantOneUsable DEF Next, IInv

\* What a step may do to a code that can sign in.
Kept(d) ==
    \/ Usable(d)'
    \/ d \in consumed'
    \/ row'[d].status = "failed"
    \/ newest'[row[d].phone] > d

\* A confirmation ends a usable code only in favour of a newer one.
LEMMA ConfirmationKeepsCode ==
    ASSUME IInv, NEW d \in Deliveries, Stored(d), NEW status \in {"accepted", "sent"},
           Confirmation(d, status), NEW e \in Deliveries, Usable(e), ~row[e].expired
    PROVE  Kept(e)
<1>1. Stored(e) /\ ~row[e].used BY DEF Usable
<1>2. CASE e \notin Activate(d)
  BY <1>1, <1>2 DEF Usable, Confirmation, Kept
<1>3. CASE e \in Activate(d)
  <2>1. CASE e = d
    <3>1. Superseded(d) BY <1>1, <1>3, <2>1 DEF Activate, StoredOf, Deliveries
    <3>2. PICK n \in Deliveries : Before(e, n) /\ row[n].sentAt
      BY <1>1, <2>1, <3>1 DEF Superseded, StoredOf, Before
    <3>3. row[e].expired BY <3>2 DEF IInv, CodeOrder, Retired
    <3>4. QED BY <3>3
  <2>2. CASE e # d
    <3>1. e < d /\ row[e].phone = row[d].phone BY <1>3, <2>2 DEF Activate, StoredOf
    <3>2. row[d].phone \in Phones BY StoredRow, RowFields DEF IInv
    <3>3. newest[row[d].phone] \in 0..MaxDeliveries BY <3>2 DEF IInv, TypeOK
    <3>4. newest'[row[d].phone] = IF d > newest[row[d].phone] THEN d ELSE newest[row[d].phone]
      BY <3>2 DEF IInv, TypeOK, Confirmation
    <3>5. newest'[row[d].phone] > e BY <3>1, <3>3, <3>4 DEF Deliveries
    <3>6. QED BY <3>1, <3>5 DEF Kept
  <2>3. QED BY <2>1, <2>2
<1>4. QED BY <1>2, <1>3

\* A code that can sign in ends only by its use, its expiry, its failure or
\* the confirmation of a newer code, for any number of deliveries: asking for
\* a code that the provider then rejects costs nothing.
THEOREM CodesKept == Spec => CurrentCodeKept
<1>1. ASSUME IInv, [Next]_vars, NEW e \in Deliveries, Usable(e), ~row[e].expired
      PROVE  Kept(e)
  <2>0. Stored(e) /\ ~row[e].used /\ row[e].status \in {"accepted", "sent"} BY <1>1 DEF Usable
  <2>1. CASE \E p \in Phones, k \in Keys, c \in Codes : Begin(p, k, c)
    <3>1. e # next BY <2>0, <1>1 DEF IInv, TypeOK, Deliveries
    <3>2. row'[e] = row[e] BY <1>1, <2>1, <3>1 DEF Begin, IInv, TypeOK
    <3>3. QED BY <2>0, <3>2 DEF Kept, Usable, Stored
  <2>2. CASE \E d \in Deliveries, m \in Messages, t \in Transactions : MarkAccepted(d, m, t)
    <3>1. PICK d \in Deliveries : \/ UNCHANGED row
                                  \/ Stored(d) /\ \E status \in {"accepted", "sent"} : Confirmation(d, status)
      BY <1>1, <2>2, MarkAcceptedEffect DEF IInv
    <3>2. CASE UNCHANGED row BY <1>1, <3>2 DEF Kept, Usable, Stored
    <3>3. QED BY <1>1, <3>1, <3>2, ConfirmationKeepsCode
  <2>3. CASE \E d \in Deliveries, m \in Messages, t \in Transactions \cup {NoId} : SmsSent(d, m, t)
    <3>1. PICK d \in Deliveries : Stored(d) /\ Confirmation(d, "sent")
      BY <1>1, <2>3, SmsSentEffect DEF IInv
    <3>2. QED BY <1>1, <3>1, ConfirmationKeepsCode
  <2>4. CASE \E d \in Deliveries : Purge(d)
    <3>1. row'[e] = row[e] BY <1>1, <2>4 DEF Purge, IInv, TypeOK
    <3>2. QED BY <2>0, <3>1 DEF Kept, Usable, Stored
  <2>5. CASE Quiet
    BY <2>0, <2>5 DEF Quiet, Kept, Usable
  <2>6. QED BY <1>1, <2>1, <2>2, <2>3, <2>4, <2>5, StepKinds
<1>2. IInv /\ [Next]_vars =>
        [\A d \in Deliveries : Usable(d) /\ ~row[d].expired =>
           \/ Usable(d)'
           \/ d \in consumed'
           \/ row'[d].status = "failed"
           \/ newest'[row[d].phone] > d]_vars
  BY <1>1 DEF Kept
<1>3. QED BY <1>2, Invariance, PTL DEF Spec, CurrentCodeKept

\* A refused delivery has failed or expired.
RefusedDead == \A d \in refused : Stored(d) /\ (row[d].status = "failed" \/ row[d].expired)

\* If the provider gives one identifier to one delivery, a code that send()
\* has refused never signs in, whatever receipts and webhooks follow.
THEOREM RefusalsFinal ==
    ASSUME \A m, n \in Messages : m = n, \A t, x \in Transactions : t = x
    PROVE  Spec => []RefusalIsFinal
<1>1. Init => RefusedDead BY DEF Init, RefusedDead
<1>2. ASSUME IInv, RefusedDead, NEW d \in Deliveries, Stored(d), row[d].status # "failed",
             NEW status \in {"accepted", "sent"}, Confirmation(d, status),
             refused' = refused \/ (row[d].expired /\ refused' = refused \cup {d})
      PROVE  RefusedDead'
  BY <1>2 DEF RefusedDead, Confirmation, IInv, TypeOK
<1>3. IInv /\ RefusedDead /\ [Next]_vars => RefusedDead'
  <2> SUFFICES ASSUME IInv, RefusedDead, [Next]_vars PROVE RefusedDead' OBVIOUS
  <2>0. \A e \in refused : e \in Deliveries /\ Stored(e) BY DEF IInv, TypeOK, RefusedDead
  <2>1. CASE \E p \in Phones, k \in Keys, c \in Codes : Begin(p, k, c)
    <3>1. \A e \in refused : e # next BY <2>0 DEF IInv, TypeOK, Deliveries
    <3>2. refused' = refused /\ \A e \in refused : row'[e] = row[e]
      BY <2>0, <2>1, <3>1 DEF Begin, IInv, TypeOK
    <3>3. QED BY <3>2 DEF RefusedDead, Stored
  <2>2. ASSUME NEW d \in Deliveries, NEW m \in Messages, NEW t \in Transactions,
               MarkAccepted(d, m, t)
        PROVE  RefusedDead'
    <3>1. CASE Stored(d) /\ row[d].status # "failed"
      <4>1. row[d].message \in Messages \cup {NoId} /\ row[d].transaction \in Transactions \cup {NoId}
        BY <3>1, StoredRow DEF IInv, Row
      <4>2. MatchesReceipt(d, m, t) BY <4>1 DEF MatchesReceipt
      <4> DEFINE status == IF row[d].status = "sent" THEN "sent" ELSE "accepted"
      <4>3. Confirm(d, status, m, t) /\ refused' = IF row[d].expired THEN Refuse(d) ELSE refused
        BY <2>2, <3>1, <4>2 DEF MarkAccepted
      <4>4. status \in {"accepted", "sent"} OBVIOUS
      <4> HIDE DEF status
      <4>5. Confirmation(d, status) BY <3>1, <4>3, <4>4, ConfirmEffect DEF IInv
      <4>6. refused' = refused \/ (row[d].expired /\ refused' = refused \cup {d})
        BY <3>1, <4>3 DEF Refuse
      <4>7. QED BY <1>2, <3>1, <4>4, <4>5, <4>6
    <3>2. CASE ~(Stored(d) /\ row[d].status # "failed")
      <4>1. row' = row /\ refused' = Refuse(d) BY <2>2, <3>2 DEF MarkAccepted
      <4>2. QED BY <3>2, <4>1 DEF RefusedDead, Refuse, Stored
    <3>3. QED BY <3>1, <3>2
  <2>3. ASSUME NEW d \in Deliveries, NEW m \in Messages, NEW t \in Transactions \cup {NoId},
               SmsSent(d, m, t)
        PROVE  RefusedDead'
    <3>1. Stored(d) /\ row[d].status # "failed" /\ Confirmation(d, "sent") /\ refused' = refused
      BY <2>3, SmsSentEffect DEF IInv
    <3>2. QED BY <1>2, <3>1
  <2>4. CASE \E d \in Deliveries : Purge(d)
    <3>1. PICK d \in Deliveries : row' = [row EXCEPT ![d] = NoRow] /\ refused' = refused \ {d}
      BY <2>4 DEF Purge
    <3>2. \A e \in refused' : e \in refused /\ row'[e] = row[e]
      BY <2>0, <3>1 DEF IInv, TypeOK
    <3>3. QED BY <3>2 DEF RefusedDead, Stored
  <2>5. CASE Quiet /\ RefusalsEarned
    BY <2>0, <2>5 DEF Quiet, RefusalsEarned, RefusedDead
  <2>6. QED BY <2>1, <2>2, <2>3, <2>4, <2>5, StepKinds
<1>4. RefusedDead => RefusalIsFinal
  BY DEF RefusedDead, RefusalIsFinal, Usable
<1>5. QED BY <1>1, <1>3, <1>4, Invariance, PTL DEF Spec

=============================================================================
