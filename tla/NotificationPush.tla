-------------------------- MODULE NotificationPush --------------------------
(***************************************************************************)
(* Notifications and their pushes: enqueueNotification, NotificationPush-  *)
(* Repository and -Service, PushService and MobileRepository.              *)
(*                                                                         *)
(* A notification is created in the transaction of its source, with one    *)
(* job for each device of the addressee.  The worker, which Outbox models  *)
(* and which here may run a job again after a failure or a crash, reads    *)
(* whether the push is still due and sends it.  Meanwhile phones change    *)
(* hands, sessions are revoked, accounts banned or erased and the source   *)
(* loses its point.  A phone is known by its token.                        *)
(***************************************************************************)
EXTENDS Integers, FiniteSets

CONSTANTS
    Users, Tokens,
    Sessions,     \* sessions, with their account
    SessionUser,
    Sources,      \* what notifications are about, with their addressee
    Addressee,
    MaxAttempts,  \* attempts before a job is a dead letter
    MaxFaults,    \* bound on failed, lost and crashed attempts
    MaxChanges    \* bound on what happens to devices, sessions, accounts and sources

VARIABLES
    account,  \* live, banned or erased
    session,  \* active sessions
    device,   \* device_token: the session a token is registered for
    note,     \* notification: none, due, or moot (read, expired, erased, its source past)
    job,      \* the jobs of a notification, by token
    sent,     \* pushes FCM accepted
    mootOnce, \* history: jobs that were not due at some time since they were made
    doubts,   \* history: attempts of a job that FCM accepted and the worker did not hear of
    changes, faults

vars == <<account, session, device, note, job, sent, mootOnce, doubts, changes, faults>>

NoSession == "no session"
Jobs == Sources \X Tokens
NoJob == [pc |-> "none", session |-> NoSession, linked |-> FALSE, attempts |-> 0]

\* A reference to a device lasts as long as the row of device_token, and no
\* device is left of a revoked session.
TypeOK ==
    /\ account \in [Users -> {"live", "banned", "erased"}]
    /\ session \subseteq Sessions
    /\ device \in [Tokens -> session \cup {NoSession}]
    /\ note \in [Sources -> {"none", "due", "moot"}]
    /\ job \in [Jobs -> [pc: {"none", "pending", "sending", "acked", "dead"}, session: Sessions \cup {NoSession},
                         linked: BOOLEAN, attempts: 0..MaxAttempts]]
    /\ \A j \in Jobs : job[j].linked => device[j[2]] # NoSession /\ note[j[1]] # "none"
    /\ sent \in [Jobs -> 0..(MaxFaults + 2)] /\ doubts \in [Jobs -> 0..MaxFaults]
    /\ mootOnce \subseteq Jobs
    /\ changes \in 0..MaxChanges /\ faults \in 0..MaxFaults

Init ==
    /\ account = [u \in Users |-> "live"] /\ session = Sessions
    /\ device \in [Tokens -> Sessions \cup {NoSession}]
    /\ note = [n \in Sources |-> "none"] /\ job = [j \in Jobs |-> NoJob]
    /\ sent = [j \in Jobs |-> 0] /\ mootOnce = {} /\ doubts = [j \in Jobs |-> 0]
    /\ changes = 0 /\ faults = 0

\* findDeliverable: the job still names its device, the phone is in the session
\* it was made for, and session, account and notification are good.
DeliverableTo(j, phone, active, accounts, notes) ==
    /\ job[j].linked /\ notes[j[1]] = "due" /\ accounts[Addressee[j[1]]] = "live"
    /\ phone[j[2]] = job[j].session /\ job[j].session \in active

Deliverable(j) == DeliverableTo(j, device, session, account, note)

\* What a change leaves of the jobs: references to deleted rows are gone, and
\* jobs that are not due after it have been moot.
After(phone, active, accounts, notes, deleted) ==
    /\ device' = phone /\ session' = active /\ account' = accounts /\ note' = notes
    /\ job' = [j \in Jobs |-> IF j[2] \in deleted \/ (notes[j[1]] = "moot" /\ accounts[Addressee[j[1]]] = "erased")
                              THEN [job[j] EXCEPT !.linked = FALSE] ELSE job[j]]
    /\ mootOnce' = mootOnce \cup {j \in Jobs : job[j].pc # "none" /\
                     (j[2] \in deleted \/ ~DeliverableTo(j, phone, active, accounts, notes))}
    /\ UNCHANGED <<sent, doubts>>

Changed == changes < MaxChanges /\ changes' = changes + 1 /\ UNCHANGED faults

\* registerDevice: a token that is there keeps its row and changes hands.
RegisterDevice(s, t) ==
    /\ Changed /\ s \in session /\ account[SessionUser[s]] = "live" /\ device[t] # s
    /\ After([device EXCEPT ![t] = s], session, account, note, {})

\* removeDevice.
RemoveDevice(t) ==
    /\ Changed /\ device[t] # NoSession
    /\ After([device EXCEPT ![t] = NoSession], session, account, note, {t})

\* Mutant: the devices of the session are left.
RevokedKept(gone) == [phone |-> device, deleted |-> {}]

\* revokeFamilies: the devices of the sessions are deleted with them.
Revoked(gone) ==
    LET deleted == {t \in Tokens : device[t] \in gone} IN
    [phone |-> [t \in Tokens |-> IF t \in deleted THEN NoSession ELSE device[t]], deleted |-> deleted]

Revoke(s) ==
    /\ Changed /\ s \in session
    /\ After(Revoked({s}).phone, session \ {s}, account, note, Revoked({s}).deleted)

SessionsOf(u) == {s \in Sessions : SessionUser[s] = u}

\* setUserBan, with the sessions of the account; unban brings none back.
Ban(u) ==
    /\ Changed /\ account[u] = "live"
    /\ After(Revoked(SessionsOf(u)).phone, session \ SessionsOf(u), [account EXCEPT ![u] = "banned"], note,
             Revoked(SessionsOf(u)).deleted)

Unban(u) ==
    /\ Changed /\ account[u] = "banned"
    /\ After(device, session, [account EXCEPT ![u] = "live"], note, {})

\* fct_anonymize_user and fct_erase_notifications.
Erase(u) ==
    /\ Changed /\ account[u] # "erased"
    /\ After(Revoked(SessionsOf(u)).phone, session \ SessionsOf(u), [account EXCEPT ![u] = "erased"],
             [n \in Sources |-> IF Addressee[n] = u /\ note[n] # "none" THEN "moot" ELSE note[n]],
             Revoked(SessionsOf(u)).deleted)

\* The notification is read or expires, the match ends or is blocked, the
\* message is read, the invoice is paid, the trial is over or prolonged.
Moot(n) ==
    /\ Changed /\ note[n] = "due"
    /\ After(device, session, account, [note EXCEPT ![n] = "moot"], {})

\* Mutant: a source that is reported again makes its jobs again.
EnqueueAgain(n) ==
    LET made == {j \in Jobs : j[1] = n /\ account[Addressee[n]] = "live"
                                 /\ device[j[2]] \in session /\ SessionUser[device[j[2]]] = Addressee[n]} IN
    /\ note' = IF account[Addressee[n]] = "live" THEN [note EXCEPT ![n] = "due"] ELSE note
    /\ job' = [j \in Jobs |-> IF j \in made
                 THEN [pc |-> "pending", session |-> device[j[2]], linked |-> TRUE, attempts |-> 0] ELSE job[j]]
    /\ UNCHANGED <<account, session, device, sent, mootOnce, doubts, changes, faults>>

\* enqueueNotification: once for a source, for the devices the addressee has
\* then, and not at all for an account that is not live.
Enqueue(n) ==
    LET made == {j \in Jobs : j[1] = n /\ device[j[2]] \in session /\ SessionUser[device[j[2]]] = Addressee[n]} IN
    /\ note[n] = "none" /\ account[Addressee[n]] = "live"
    /\ note' = [note EXCEPT ![n] = "due"]
    /\ job' = [j \in Jobs |-> IF j \in made
                 THEN [pc |-> "pending", session |-> device[j[2]], linked |-> TRUE, attempts |-> 0] ELSE job[j]]
    /\ UNCHANGED <<account, session, device, sent, mootOnce, doubts, changes, faults>>

Settle(j, pc) == job' = [job EXCEPT ![j].pc = pc]

\* deliver, up to the request to FCM: a job that is not due is acknowledged.
\* The phone it goes to is the token's, whoever has it by then.
FindDeliverable(j) ==
    /\ job[j].pc = "pending"
    /\ Settle(j, IF Deliverable(j) THEN "sending" ELSE "acked")
    /\ UNCHANGED <<account, session, device, note, sent, mootOnce, doubts, changes, faults>>

Accepted(j) == sent' = [sent EXCEPT ![j] = @ + 1]

\* The answer of FCM: accepted.
SendToDevice(j) ==
    /\ job[j].pc = "sending"
    /\ Accepted(j) /\ Settle(j, "acked")
    /\ UNCHANGED <<account, session, device, note, mootOnce, doubts, changes, faults>>

\* UNREGISTERED: removeToken, whoever has registered the token by now.
Unregistered(j) ==
    LET t == j[2] IN
    /\ job[j].pc = "sending" /\ changes < MaxChanges
    /\ changes' = changes + 1
    /\ device' = [device EXCEPT ![t] = NoSession]
    /\ job' = [k \in Jobs |-> [job[k] EXCEPT !.linked = @ /\ k[2] # t, !.pc = IF k = j THEN "acked" ELSE @]]
    /\ mootOnce' = mootOnce \cup {k \in Jobs : k[2] = t /\ job[k].pc # "none"}
    /\ UNCHANGED <<account, session, note, sent, doubts, faults>>

\* Mutant: a push that failed is acknowledged.
PushFailsQuietly(j, accepted) ==
    /\ job[j].pc = "sending" /\ faults < MaxFaults
    /\ faults' = faults + 1
    /\ sent' = [sent EXCEPT ![j] = IF accepted THEN @ + 1 ELSE @]
    /\ doubts' = [doubts EXCEPT ![j] = IF accepted THEN @ + 1 ELSE @]
    /\ Settle(j, "acked")
    /\ UNCHANGED <<account, session, device, note, mootOnce, changes>>

\* PushDeliveryError, for an answer that is an error or that is lost, or a worker
\* that dies or loses its lease: another attempt, or a dead letter.
PushFails(j, accepted) ==
    LET tried == job[j].attempts + 1 IN
    /\ job[j].pc = "sending" /\ faults < MaxFaults
    /\ faults' = faults + 1
    /\ sent' = [sent EXCEPT ![j] = IF accepted THEN @ + 1 ELSE @]
    /\ doubts' = [doubts EXCEPT ![j] = IF accepted THEN @ + 1 ELSE @]
    /\ job' = [job EXCEPT ![j] = [@ EXCEPT !.pc = IF tried < MaxAttempts THEN "pending" ELSE "dead", !.attempts = tried]]
    /\ UNCHANGED <<account, session, device, note, mootOnce, changes>>

\* An operator has a dead letter tried again.
RetryDeadLetter(j) ==
    /\ job[j].pc = "dead" /\ changes < MaxChanges
    /\ changes' = changes + 1
    /\ job' = [job EXCEPT ![j] = [@ EXCEPT !.pc = "pending", !.attempts = 0]]
    /\ UNCHANGED <<account, session, device, note, sent, mootOnce, doubts, faults>>

Run(j) == FindDeliverable(j) \/ SendToDevice(j)

Next ==
    \/ \E n \in Sources : Enqueue(n) \/ Moot(n)
    \/ \E j \in Jobs : \/ Run(j) \/ Unregistered(j) \/ RetryDeadLetter(j)
                       \/ \E accepted \in BOOLEAN : PushFails(j, accepted)
    \/ \E s \in Sessions : Revoke(s) \/ \E t \in Tokens : RegisterDevice(s, t)
    \/ \E t \in Tokens : RemoveDevice(t)
    \/ \E u \in Users : Ban(u) \/ Unban(u) \/ Erase(u)

Spec == Init /\ [][Next]_vars

-----------------------------------------------------------------------------
\* A job is acknowledged without a push only if the push was not due any more
\* at some time since the job was made.
NoPushLost ==
    \A j \in Jobs : job[j].pc = "acked" => sent[j] > 0 \/ j \in mootOnce

\* A device gets a notification twice only after an attempt whose answer was
\* lost: neither the failure of another device nor a source that is reported
\* again sends it again.
SentTwiceOnlyInDoubt == \A j \in Jobs : sent[j] <= 1 + doubts[j]

\* Phones that change hands, sessions that end and answers that get lost: no
\* device of a closed session is kept, no push is lost, none is sent twice
\* without a doubt.
PushConsistent == TypeOK /\ NoPushLost /\ SentTwiceOnlyInDoubt

=============================================================================
