----------------------------- MODULE OtpDelivery -----------------------------
(***************************************************************************)
(* One-time codes sent by SMS: the table otp_verification, OtpRepository,  *)
(* OtpService.send with its call to the SMS provider, and the signed       *)
(* webhooks of the provider.                                               *)
(*                                                                         *)
(* Every write runs in one transaction that first takes the advisory lock  *)
(* of the phone, and is one step.  Between two of them anything may        *)
(* happen: a webhook may come before the provider has answered /send, late,*)
(* twice or in the wrong order, the process may die, and a newer code may  *)
(* be asked for.  The unlocked read of applySmsEvent only finds the phone  *)
(* of the row, which never changes, so it needs no step of its own.        *)
(*                                                                         *)
(* A delivery is named by its attempt_number.  Rows are inserted under the *)
(* lock of the phone with a fixed OTP_TTL, so the deliveries of a phone    *)
(* expire in the order of their attempt numbers; the purge, which deletes  *)
(* in the order of expires_at, is assumed to read a clock that agrees with *)
(* that of the database.                                                   *)
(***************************************************************************)
EXTENDS Integers, FiniteSets

CONSTANTS
    MaxDeliveries,              \* bound on the number of deliveries
    Phones, Keys, Codes,        \* phone_number_hash, idempotency_key, otp_hash
    Members,                    \* the phones that have an account at first
    Messages, Transactions,     \* identifiers given by the provider
    NoId                        \* a missing provider identifier (NULL)

ASSUME DeliveriesAssumption == MaxDeliveries \in Nat

ASSUME MembersAssumption == Members \subseteq Phones

ASSUME IdAssumption == NoId \notin Messages \cup Transactions

VARIABLES
    row,        \* otp_verification, by attempt_number
    next,       \* the next attempt_number
    sending,    \* deliveries whose send() waits for the provider
    account,    \* account[p]: whether phone p has an account
    newest,     \* history: the newest delivery of p ever confirmed, or 0
    consumed,   \* history: stored deliveries whose code has signed somebody in
    refused     \* history: stored deliveries answered with otp_delivery_unavailable

vars == <<row, next, sending, account, newest, consumed, refused>>

Deliveries == 1..MaxDeliveries

Statuses == {"pending", "accepted", "sent", "failed", "unknown"}

\* sentAt: sent_at IS NOT NULL.  expired: expires_at has passed.
Row == [status: Statuses, used: BOOLEAN, sentAt: BOOLEAN, expired: BOOLEAN,
        phone: Phones, key: Keys, code: Codes,
        message: Messages \cup {NoId}, transaction: Transactions \cup {NoId}]

NoRow == [status |-> "none"]

Stored(d) == row[d].status # "none"

StoredOf(p) == {d \in Deliveries : Stored(d) /\ row[d].phone = p}

TypeOK ==
    /\ row \in [Deliveries -> Row \cup {NoRow}]
    /\ next \in 1..(MaxDeliveries + 1)
    /\ sending \in SUBSET Deliveries
    /\ account \in [Phones -> BOOLEAN]
    /\ newest \in [Phones -> 0..MaxDeliveries]
    /\ consumed \in SUBSET Deliveries /\ refused \in SUBSET Deliveries
    /\ \A d \in Deliveries : Stored(d) \/ d \in sending => d < next

Init ==
    /\ row = [d \in Deliveries |-> NoRow]
    /\ next = 1
    /\ sending = {}
    /\ account = [p \in Phones |-> p \in Members]
    /\ newest = [p \in Phones |-> 0]
    /\ consumed = {} /\ refused = {}

\* The history after d was answered with otp_delivery_unavailable.
Refuse(d) == IF Stored(d) THEN refused \cup {d} ELSE refused

-----------------------------------------------------------------------------
(* Asking for a code.                                                      *)

\* beginOtpDelivery inserts the row, then send() calls the provider.
Begin(p, k, c) ==
    /\ next <= MaxDeliveries
    /\ \A d \in Deliveries : Stored(d) => row[d].key # k
    /\ row' = [row EXCEPT ![next] =
                 [status |-> "pending", used |-> FALSE, sentAt |-> FALSE, expired |-> FALSE,
                  phone |-> p, key |-> k, code |-> c,
                  message |-> NoId, transaction |-> NoId]]
    /\ next' = next + 1
    /\ sending' = sending \cup {next}
    /\ UNCHANGED <<account, newest, consumed, refused>>

\* send() with an idempotency key that is stored: no second SMS.  A pending
\* delivery becomes unknown if its settlement_deadline, which only this
\* statement reads, has passed by now; a failed one is answered with
\* otp_delivery_unavailable; a key of another phone changes nothing.
Replay(p, k) ==
    \E d \in StoredOf(p) :
      /\ row[d].key = k
      /\ \/ UNCHANGED row
         \/ row[d].status = "pending" /\ row' = [row EXCEPT ![d].status = "unknown"]
      /\ refused' = IF row[d].status = "failed" THEN Refuse(d) ELSE refused
      /\ UNCHANGED <<next, sending, account, newest, consumed>>

-----------------------------------------------------------------------------
(* What becomes of a delivery.                                             *)

\* The errors of SweegoSmsService.deliver: the provider refuses the message,
\* or nobody knows whether it took it (network, timeout, unreadable answer).
Outcomes == {"failed", "unknown"}

\* matchesReceipt; t is NoId when the webhook carries no transaction.
MatchesReceipt(d, m, t) ==
    /\ row[d].message \in {NoId, m}
    /\ t # NoId => row[d].transaction \in {NoId, t}

\* A newer delivery of the phone was confirmed, even if it was consumed since.
Superseded(d) == \E n \in StoredOf(row[d].phone) : n > d /\ row[n].sentAt

\* Mutant: the older codes stay as they are.
ActivateKeepsOlder(d) ==
    IF row[d].used THEN {} ELSE IF row[d].expired \/ Superseded(d) THEN {d} ELSE {}

\* activate: the deliveries it marks used.  A used delivery changes nothing;
\* one that is expired or superseded is marked itself; any other one retires
\* the older ones.
Activate(d) ==
    IF row[d].used THEN {}
    ELSE IF row[d].expired \/ Superseded(d) THEN {d}
    ELSE {n \in StoredOf(row[d].phone) : n < d}

MarkUsed(D) == [d \in Deliveries |-> IF d \in D THEN [row[d] EXCEPT !.used = TRUE] ELSE row[d]]

\* The status, the identifiers and sent_at of a confirmed delivery, after activate.
Confirm(d, status, m, t) ==
    /\ row' = [MarkUsed(Activate(d)) EXCEPT ![d].status = status, ![d].sentAt = TRUE,
                                            ![d].message = m, ![d].transaction = t]
    /\ newest' = [newest EXCEPT ![row[d].phone] = IF d > @ THEN d ELSE @]

\* The provider accepts the message: markOtpAccepted, then the answer of send().
MarkAccepted(d, m, t) ==
    /\ d \in sending
    /\ sending' = sending \ {d}
    /\ IF Stored(d) /\ MatchesReceipt(d, m, t) /\ row[d].status # "failed"
       THEN /\ Confirm(d, IF row[d].status = "sent" THEN "sent" ELSE "accepted", m, t)
            /\ refused' = IF row[d].expired THEN Refuse(d) ELSE refused
       ELSE UNCHANGED <<row, newest>> /\ refused' = Refuse(d)
    /\ UNCHANGED <<next, account, consumed>>

\* The provider rejects the message (failed) or gives no usable answer in time
\* (unknown): markOtpOutcome, then the answer of send(), which follows the
\* status of the row.
MarkOutcome(d, outcome) ==
    LET open == Stored(d) /\ row[d].status \in {"pending", "unknown"}
    IN  /\ d \in sending
        /\ sending' = sending \ {d}
        /\ row' = IF open THEN [row EXCEPT ![d].status = outcome] ELSE row
        /\ refused' = IF (IF Stored(d) /\ ~open THEN row[d].status ELSE outcome) = "failed"
                      THEN Refuse(d) ELSE refused
        /\ UNCHANGED <<next, account, newest, consumed>>

\* The process dies during the call, or the statement that follows it throws
\* (otp_delivery_unknown).
SendLost(d) ==
    /\ d \in sending
    /\ sending' = sending \ {d}
    /\ UNCHANGED <<row, next, account, newest, consumed, refused>>

\* Mutant: a failed delivery is confirmed by a late sms_sent.
SmsSentAlways(d, m, t) ==
    /\ Stored(d) /\ MatchesReceipt(d, m, t) /\ row[d].status # "sent"
    /\ Confirm(d, "sent", m, IF row[d].transaction = NoId THEN t ELSE row[d].transaction)
    /\ UNCHANGED <<next, sending, account, consumed, refused>>

\* applySmsEvent of sms_sent.  Every other case is ignored or a conflict.
SmsSent(d, m, t) ==
    /\ Stored(d) /\ MatchesReceipt(d, m, t) /\ row[d].status \notin {"failed", "sent"}
    /\ Confirm(d, "sent", m, IF row[d].transaction = NoId THEN t ELSE row[d].transaction)
    /\ UNCHANGED <<next, sending, account, consumed, refused>>

\* Mutant: a failed newer delivery takes the older codes with it.
SmsUndeliveredRetires(d, m, t) ==
    /\ Stored(d) /\ MatchesReceipt(d, m, t) /\ row[d].status # "failed"
    /\ row' = [MarkUsed(Activate(d)) EXCEPT ![d].status = "failed", ![d].message = m]
    /\ UNCHANGED <<next, sending, account, newest, consumed, refused>>

\* applySmsEvent of sms_undelivered: also after sms_sent.
SmsUndelivered(d, m, t) ==
    /\ Stored(d) /\ MatchesReceipt(d, m, t) /\ row[d].status # "failed"
    /\ row' = [row EXCEPT ![d].status = "failed", ![d].message = m,
                          ![d].transaction = IF @ = NoId THEN t ELSE @]
    /\ UNCHANGED <<next, sending, account, newest, consumed, refused>>

-----------------------------------------------------------------------------
(* Using a code, and time.                                                 *)

\* The WHERE clause of idx_otp_one_usable_per_phone.
Usable(d) == Stored(d) /\ row[d].status \in {"accepted", "sent"} /\ ~row[d].used

Matching(p, c) == {d \in StoredOf(p) : Usable(d) /\ ~row[d].expired /\ row[d].code = c}

\* consumeOtp: all matching rows are marked, one is required to sign in.
Consume(p, c) ==
    /\ Matching(p, c) # {}
    /\ row' = MarkUsed(Matching(p, c))
    /\ consumed' = IF Cardinality(Matching(p, c)) = 1 THEN consumed \cup Matching(p, c) ELSE consumed
    /\ UNCHANGED <<next, sending, account, newest, refused>>

\* expires_at passes.
Expires(d) ==
    /\ Stored(d) /\ ~row[d].expired
    /\ \A n \in StoredOf(row[d].phone) : n < d => row[n].expired
    /\ row' = [row EXCEPT ![d].expired = TRUE]
    /\ UNCHANGED <<next, sending, account, newest, consumed, refused>>

\* The retention job deletes expired deliveries, the oldest first.
Purge(d) ==
    /\ Stored(d) /\ row[d].expired
    /\ \A n \in StoredOf(row[d].phone) : n >= d
    /\ row' = [row EXCEPT ![d] = NoRow]
    /\ consumed' = consumed \ {d} /\ refused' = refused \ {d}
    /\ UNCHANGED <<next, sending, account, newest>>

\* fct_anonymize_user: the account forgets its phone.
Anonymize(p) ==
    /\ account[p]
    /\ account' = [account EXCEPT ![p] = FALSE]
    /\ UNCHANGED <<row, next, sending, newest, consumed, refused>>

Next ==
    \/ \E p \in Phones, k \in Keys, c \in Codes : Begin(p, k, c)
    \/ \E p \in Phones, k \in Keys : Replay(p, k)
    \/ \E d \in Deliveries, m \in Messages, t \in Transactions : MarkAccepted(d, m, t)
    \/ \E d \in Deliveries, outcome \in Outcomes : MarkOutcome(d, outcome)
    \/ \E d \in Deliveries : SendLost(d)
    \/ \E d \in Deliveries, m \in Messages, t \in Transactions \cup {NoId} :
         SmsSent(d, m, t) \/ SmsUndelivered(d, m, t)
    \/ \E p \in Phones, c \in Codes : Consume(p, c)
    \/ \E d \in Deliveries : Expires(d) \/ Purge(d)
    \/ \E p \in Phones : Anonymize(p)

Spec == Init /\ [][Next]_vars

-----------------------------------------------------------------------------
(* Properties.                                                             *)

\* At most one code of a phone is usable: no transaction can fail on
\* idx_otp_one_usable_per_phone, whichever of /send, the webhooks and the
\* codes asked for later comes first.
OneUsableCode ==
    \A d, n \in Deliveries : Usable(d) /\ Usable(n) /\ row[d].phone = row[n].phone => d = n

\* A code that can sign in is the newest one that was ever confirmed for its
\* phone, and has not signed anybody in: a late receipt or webhook, or the
\* purge of the newer row, never brings an older code back.
OnlyNewestSignsIn ==
    \A d \in Deliveries : Usable(d) /\ ~row[d].expired =>
      newest[row[d].phone] = d /\ d \notin consumed

\* Once send() has answered that the code could not be delivered, that code
\* never signs in, whatever webhook follows (for a provider that gives one
\* identifier to one delivery).
RefusalIsFinal ==
    \A d \in refused : ~(Usable(d) /\ ~row[d].expired)

\* Only its use, its expiry, its own failure or the confirmation of a newer
\* code ends a usable code: asking for another one that is then rejected does
\* not.
CurrentCodeKept ==
    [][\A d \in Deliveries : Usable(d) /\ ~row[d].expired =>
         \/ Usable(d)'
         \/ d \in consumed'
         \/ row'[d].status = "failed"
         \/ newest'[row[d].phone] > d]_vars

=============================================================================
