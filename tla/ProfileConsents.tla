--------------------------- MODULE ProfileConsents --------------------------
(***************************************************************************)
(* The legal choices of one account and the data that rests on them: the   *)
(* sex of the profile, the preferences and the position.                   *)
(*                                                                         *)
(* A write is checked before its transaction and again inside it, under    *)
(* the lock of the account.  Two processes may be configured with two      *)
(* versions of the documents while a new one is rolled out.  The           *)
(* maintenance of positions chooses its rows by the snapshot of its        *)
(* statement and changes them later.                                       *)
(***************************************************************************)
EXTENDS Integers, Sequences, FiniteSets

CONSTANTS
    Requests,    \* writes under way at once
    Processes,
    Versions,    \* versions of the legal documents, a set of numbers
    MaxEvents    \* bound on the rows of user_consent kept of one type

\* The terms of service and the privacy notice are always required together and
\* are not withdrawn; "onboarding" stands for both.
Types == {"onboarding", "sensitive", "location"}
Ops == {"profile", "sex", "preferences", "presence"}

VARIABLES
    account,   \* open, closed or erased
    config,    \* the document versions of a process
    log,       \* user_consent by type, in the order of event_sequence
    sex,       \* user_profile.sex is set
    prefs,     \* user_preferences exists
    presence,  \* user_presence and its age: 0, an hour, a day
    req,       \* the writes
    sweep      \* the statement of maintenance that has chosen the position

vars == <<account, config, log, sex, prefs, presence, req, sweep>>

Idle == [pc |-> "idle", op |-> "none", process |-> "none"]
NoPresence == [exists |-> FALSE, fresh |-> FALSE, age |-> 0]

\* The row activeLegalChoices finds: granted and not withdrawn.
Active(t) == {i \in 1..Len(log[t]) : log[t][i].granted /\ ~log[t][i].withdrawn}

\* idx_consent_active: one active row of a type.
TypeOK ==
    /\ account \in {"open", "closed", "erased"} /\ config \in [Processes -> Versions]
    /\ \A t \in Types : log[t] \in Seq([granted: BOOLEAN, version: Versions, withdrawn: BOOLEAN]) /\ Len(log[t]) <= MaxEvents
    /\ sex \in BOOLEAN /\ prefs \in BOOLEAN /\ presence \in [exists: BOOLEAN, fresh: BOOLEAN, age: 0..2]
    /\ req \in [Requests -> [pc: {"idle", "checked"}, op: Ops \cup {"none"}, process: Processes \cup {"none"}]]
    /\ sweep \in {"none", "stale", "expired"}
    /\ \A t \in Types : Cardinality(Active(t)) <= 1

Init ==
    /\ account = "open" /\ config \in [Processes -> Versions] /\ log = [t \in Types |-> <<>>]
    /\ sex = FALSE /\ prefs = FALSE /\ presence = NoPresence
    /\ req = [r \in Requests |-> Idle] /\ sweep = "none"

-----------------------------------------------------------------------------
(* Legal choices.                                                          *)

Latest(t) == log[t][Len(log[t])]

\* getConsents: what the account is told of a choice.
Shown(t) == log[t] # <<>> /\ Latest(t).granted

\* The latest event says this already.
Unchanged(t, granted, version) ==
    log[t] # <<>> /\ Latest(t).granted = granted /\ Latest(t).version = version

\* Mutant: a new version is granted beside the one before.
RecordedBeside(t, granted, version) ==
    IF Unchanged(t, granted, version) THEN log[t]
    ELSE Append(log[t], [granted |-> granted, version |-> version, withdrawn |-> ~granted])

\* One change: the active row is withdrawn, and the event is added.
Recorded(t, granted, version) ==
    IF Unchanged(t, granted, version) THEN log[t]
    ELSE Append([i \in 1..Len(log[t]) |-> IF i \in Active(t) THEN [log[t][i] EXCEPT !.withdrawn = TRUE] ELSE log[t][i]],
                [granted |-> granted, version |-> version, withdrawn |-> ~granted])

\* updateConsents: changes of distinct types, no withdrawal of the onboarding ones.
Valid(changes) == DOMAIN changes # {} /\ ("onboarding" \in DOMAIN changes => changes["onboarding"])

\* recordConsents: one transaction, which removes the data of a consent it
\* withdraws.
RecordConsents(p, changes) ==
    LET types == DOMAIN changes
        version == config[p]
        withdraws(t) == t \in types /\ ~changes[t] /\ ~Unchanged(t, FALSE, version)
    IN
    /\ account = "open" /\ Valid(changes)
    /\ log' = [t \in Types |-> IF t \in types THEN Recorded(t, changes[t], version) ELSE log[t]]
    /\ \A t \in types : Len(log'[t]) <= MaxEvents
    /\ sex' = (sex /\ ~withdraws("sensitive")) /\ prefs' = (prefs /\ ~withdraws("sensitive"))
    /\ presence' = IF withdraws("location") THEN NoPresence ELSE presence
    /\ UNCHANGED <<account, config, req, sweep>>

\* A process is restarted with another version of the documents.
Deploy(p) ==
    /\ \E v \in Versions \ {config[p]} : config' = [config EXCEPT ![p] = v]
    /\ \A r \in Requests : req[r].pc = "checked" => req[r].process # p
    /\ UNCHANGED <<account, log, sex, prefs, presence, req, sweep>>

-----------------------------------------------------------------------------
(* Writes.                                                                 *)

Required(op) == {"onboarding"} \cup CASE op = "profile" -> {}
                                      [] op = "presence" -> {"location"}
                                      [] OTHER -> {"sensitive"}

\* Every required choice is active, in the version of the process.
Chosen(op, p) == \A t \in Required(op) : \E i \in Active(t) : log[t][i].version = config[p]

\* requireLegalChoices, outside of any transaction.
RequireLegalChoices(r, op, p) ==
    /\ req[r].pc = "idle" /\ Chosen(op, p)
    /\ req' = [req EXCEPT ![r] = [pc |-> "checked", op |-> op, process |-> p]]
    /\ UNCHANGED <<account, config, log, sex, prefs, presence, sweep>>

\* Mutant: the check before the transaction is enough.
LockLegalChoicesNot(r) == account = "open"

\* lockLegalChoices: the account is locked and the choices are read again.
LockLegalChoices(r) == account = "open" /\ Chosen(req[r].op, req[r].process)

Written(r) == req[r].pc = "checked" /\ LockLegalChoices(r) /\ req' = [req EXCEPT ![r] = Idle]

\* The profile is replaced as a whole: without a sex, the sex is removed.
UpsertProfile(r) ==
    /\ req[r].op \in {"profile", "sex"} /\ Written(r) /\ sex' = (req[r].op = "sex")
    /\ UNCHANGED <<account, config, log, prefs, presence, sweep>>

UpsertPreferences(r) ==
    /\ req[r].op = "preferences" /\ Written(r) /\ prefs' = TRUE
    /\ UNCHANGED <<account, config, log, sex, presence, sweep>>

UpsertPresence(r) ==
    /\ req[r].op = "presence" /\ Written(r) /\ presence' = [exists |-> TRUE, fresh |-> TRUE, age |-> 0]
    /\ UNCHANGED <<account, config, log, sex, prefs, sweep>>

\* The write is refused after all, or its process dies.
Refused(r) ==
    /\ req[r].pc = "checked" /\ req' = [req EXCEPT ![r] = Idle]
    /\ UNCHANGED <<account, config, log, sex, prefs, presence, sweep>>

-----------------------------------------------------------------------------
(* Maintenance, erasure and time.                                          *)

\* A statement of maintenance chooses the position by its snapshot.
SweepReads ==
    /\ sweep = "none"
    /\ \/ presence.fresh /\ presence.age >= 1 /\ sweep' = "stale"
       \/ presence.exists /\ presence.age = 2 /\ sweep' = "expired"
    /\ UNCHANGED <<account, config, log, sex, prefs, presence, req>>

\* Mutant: only positions that are still marked as fresh are removed.
SweepWritesFresh ==
    /\ sweep # "none" /\ sweep' = "none"
    /\ presence' = CASE sweep = "expired" /\ presence.fresh -> NoPresence
                     [] sweep = "stale" /\ presence.exists -> [presence EXCEPT !.fresh = FALSE]
                     [] OTHER -> presence
    /\ UNCHANGED <<account, config, log, sex, prefs, req>>

\* It changes the row it has chosen, as the row is by then.
SweepWrites ==
    /\ sweep # "none" /\ sweep' = "none"
    /\ presence' = CASE sweep = "expired" -> NoPresence
                     [] sweep = "stale" /\ presence.exists -> [presence EXCEPT !.fresh = FALSE]
                     [] OTHER -> presence
    /\ UNCHANGED <<account, config, log, sex, prefs, req>>

\* Mutant: any withdrawn row may be removed before the others.
PurgeableAny(t, i) == log[t][i].withdrawn

\* The rows withdrawn 5 years ago go in the order of withdrawn_at, which is that
\* of the events.
Purgeable(t, i) == log[t][i].withdrawn /\ i = 1

PurgeConsent ==
    /\ \E t \in Types : \E i \in 1..Len(log[t]) :
         /\ Purgeable(t, i) /\ log' = [log EXCEPT ![t] = SubSeq(@, 1, i - 1) \o SubSeq(@, i + 1, Len(@))]
    /\ UNCHANGED <<account, config, sex, prefs, presence, req, sweep>>

Tick ==
    /\ presence.exists /\ presence.age < 2 /\ presence' = [presence EXCEPT !.age = @ + 1]
    /\ UNCHANGED <<account, config, log, sex, prefs, req, sweep>>

\* The erasure is accepted, and much later the account is anonymized.
CloseAccount ==
    /\ account = "open" /\ account' = "closed"
    /\ UNCHANGED <<config, log, sex, prefs, presence, req, sweep>>

Anonymize ==
    /\ account = "closed" /\ account' = "erased" /\ sex' = FALSE /\ prefs' = FALSE /\ presence' = NoPresence
    /\ log' = [t \in Types |-> [i \in 1..Len(log[t]) |-> [log[t][i] EXCEPT !.withdrawn = TRUE]]]
    /\ UNCHANGED <<config, req, sweep>>

Write(r) == UpsertProfile(r) \/ UpsertPreferences(r) \/ UpsertPresence(r) \/ Refused(r)

Next ==
    \/ \E p \in Processes : Deploy(p) \/ \E types \in SUBSET Types : \E c \in [types -> BOOLEAN] : RecordConsents(p, c)
    \/ \E r \in Requests : Write(r) \/ \E op \in Ops, p \in Processes : RequireLegalChoices(r, op, p)
    \/ SweepReads \/ SweepWrites \/ PurgeConsent \/ Tick \/ CloseAccount \/ Anonymize

Spec == Init /\ [][Next]_vars

-----------------------------------------------------------------------------
(* Properties.                                                             *)

\* recordConsents against the writes: what rests on a consent is there only while
\* the consent is, though a write may have been checked before a withdrawal.
DataRestsOnConsent ==
    /\ sex \/ prefs => Active("sensitive") # {}
    /\ presence.exists => Active("location") # {}

\* currentConsents shows the latest event and activeLegalChoices enforces the
\* active row: while the account is open they never disagree, also when old
\* events were purged.
ShownIsEnforced ==
    account = "open" =>
      \A t \in Types : /\ Active(t) # {} => Active(t) = {Len(log[t])}
                       /\ Shown(t) => Active(t) # {}

\* runMaintenance: a position that is not renewed is removed in the end.
PositionForgotten == (presence.exists /\ presence.age = 2) ~> (~presence.exists \/ presence.age < 2)
\* Consents given, withdrawn, renewed and purged beside writes: a choice has one
\* active row, it is the one that is shown, and data is there only with it.
ConsentsConsistent == TypeOK /\ DataRestsOnConsent /\ ShownIsEnforced

=============================================================================
