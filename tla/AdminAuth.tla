----------------------------- MODULE AdminAuth ------------------------------
(***************************************************************************)
(* The passkeys and sessions of one administrator: enrolment tokens, the   *)
(* WebAuthn challenges, login with the signature counter, and the commands *)
(* of a session against other sessions and passkeys.                       *)
(*                                                                         *)
(* A request is a series of transactions, between which others run: what   *)
(* the guard, the token check or the read of the passkey saw may be stale  *)
(* when the last transaction of the request uses it.  Dates are kept as    *)
(* steps that may happen at any time.                                      *)
(***************************************************************************)
EXTENDS Integers, FiniteSets

CONSTANTS
    Creds,       \* passkeys: rows of admin_webauthn_credential
    Sessions,    \* rows of admin_session
    Challenges,  \* rows of admin_webauthn_challenge
    Tokens,      \* rows of admin_webauthn_bootstrap
    Requests,    \* requests under way at once
    None,
    MaxCounter   \* bound on the signatures of an authenticator

ASSUME AdminAuthAssumption ==
    /\ MaxCounter \in Nat \ {0}
    /\ None \notin Creds \cup Sessions \cup Challenges \cup Tokens

VARIABLES
    account,    \* open, banned or erased
    cred,       \* state and counter of a passkey
    signed,     \* external: the counter inside the authenticator
    session,    \* state, passkey and whether the authentication is recent
    challenge,  \* state, purpose and token of a challenge
    token,      \* enrolment tokens
    req,        \* the requests
    born,       \* history: the challenge and the token each passkey came from
    opened      \* history: the challenge each session came from

vars == <<account, cred, signed, session, challenge, token, req, born, opened>>

NoSession == [state |-> "none", cred |-> None, recent |-> FALSE]
NoChallenge == [state |-> "none", purpose |-> "none", token |-> None]
Idle == [pc |-> "idle", op |-> "none", session |-> None, challenge |-> None, token |-> None,
         target |-> None, counter |-> 0, signed |-> 0]
Unborn == [challenge |-> None, token |-> None]

Purposes == {"bootstrap_registration", "additional_registration", "authentication"}
Active == {c \in Creds : cred[c].state = "active"}
LiveSessions == {s \in Sessions : session[s].state = "live"}

\* uq_admin_webauthn_bootstrap_active_user: one token that is not consumed.
TypeOK ==
    /\ account \in {"open", "banned", "erased"}
    /\ cred \in [Creds -> [state: {"none", "active", "revoked"}, counter: 0..MaxCounter]]
    /\ signed \in [Creds -> 0..MaxCounter]
    /\ session \in [Sessions -> [state: {"none", "live", "revoked"}, cred: Creds \cup {None}, recent: BOOLEAN]]
    /\ challenge \in [Challenges -> [state: {"none", "open", "consumed"}, purpose: Purposes \cup {"none"},
                                     token: Tokens \cup {None}]]
    /\ token \in [Tokens -> {"none", "active", "late", "consumed"}]
    /\ \A r \in Requests : req[r].pc \in {"idle", "admitted", "consumed", "read"}
    /\ born \in [Creds -> [challenge: Challenges \cup {None}, token: Tokens \cup {None}]]
    /\ opened \in [Sessions -> Challenges \cup {None}]
    /\ Cardinality({t \in Tokens : token[t] \in {"active", "late"}}) <= 1

Init ==
    /\ account = "open" /\ cred = [c \in Creds |-> [state |-> "none", counter |-> 0]]
    /\ signed \in [Creds -> {0, 1}]
    /\ session = [s \in Sessions |-> NoSession] /\ challenge = [h \in Challenges |-> NoChallenge]
    /\ token = [t \in Tokens |-> "none"] /\ req = [r \in Requests |-> Idle]
    /\ born = [c \in Creds |-> Unborn] /\ opened = [s \in Sessions |-> None]

\* The conditions of activeSession.
Accepted(s) ==
    /\ session[s].state = "live" /\ account = "open" /\ cred[session[s].cred].state = "active"

Goto(r, rec) == req' = [req EXCEPT ![r] = rec]
Done(r) == Goto(r, Idle)

-----------------------------------------------------------------------------
(* Enrolment tokens and challenges.                                        *)

\* Mutant: a new token leaves the ones before it usable.
IssueBeside(t) ==
    /\ account = "open" /\ token[t] = "none" /\ token' = [token EXCEPT ![t] = "active"]
    /\ UNCHANGED <<account, cred, signed, session, challenge, req, born, opened>>

\* The script: a new token takes the place of the ones that are not consumed.
Issue(t) ==
    /\ account = "open" /\ token[t] = "none"
    /\ token' = [u \in Tokens |-> IF u = t THEN "active"
                                  ELSE IF token[u] \in {"active", "late"} THEN "consumed" ELSE token[u]]
    /\ UNCHANGED <<account, cred, signed, session, challenge, req, born, opened>>

\* The conditions of bootstrap.
TokenValid(t) == token[t] = "active" /\ account = "open"

CreateChallenge(h, purpose, t) ==
    /\ challenge[h].state = "none"
    /\ challenge' = [challenge EXCEPT ![h] = [state |-> "open", purpose |-> purpose, token |-> t]]
    /\ UNCHANGED <<account, cred, signed, session, token, req, born, opened>>

AuthenticationOptions(h) == CreateChallenge(h, "authentication", None)
BootstrapRegistrationOptions(h, t) == TokenValid(t) /\ CreateChallenge(h, "bootstrap_registration", t)

\* For a session that is recent.
AdditionalRegistrationOptions(h) ==
    /\ \E s \in Sessions : Accepted(s) /\ session[s].recent
    /\ CreateChallenge(h, "additional_registration", None)

\* The row consumeChallenge updates.
Consumable(h, purpose, t) == challenge[h] = [state |-> "open", purpose |-> purpose, token |-> t]

Consume(h) == challenge' = [challenge EXCEPT ![h].state = "consumed"]

-----------------------------------------------------------------------------
(* Registration.                                                           *)

\* completeBootstrapRegistration of the service reads the token.
CheckToken(r, t) ==
    /\ req[r].pc = "idle" /\ TokenValid(t)
    /\ Goto(r, [Idle EXCEPT !.pc = "admitted", !.op = "enrol", !.token = t])
    /\ UNCHANGED <<account, cred, signed, session, challenge, token, born, opened>>

\* The challenge of a registration is consumed, for a passkey c whose response
\* is then verified.
ConsumeRegistration(r, h, c) ==
    /\ req[r].pc = "admitted" /\ req[r].op \in {"enrol", "add"}
    /\ Consumable(h, IF req[r].op = "enrol" THEN "bootstrap_registration" ELSE "additional_registration", req[r].token)
    /\ Consume(h) /\ Goto(r, [req[r] EXCEPT !.pc = "consumed", !.challenge = h, !.target = c])
    /\ UNCHANGED <<account, cred, signed, session, token, born, opened>>

\* insertCredential: the identifier of a passkey is unique.
InsertCredential(r, c) ==
    /\ cred[c].state = "none"
    /\ cred' = [cred EXCEPT ![c] = [state |-> "active", counter |-> signed[c]]]
    /\ born' = [born EXCEPT ![c] = [challenge |-> req[r].challenge, token |-> req[r].token]]

InsertSession(r, c) ==
    \E s \in Sessions :
      /\ session[s].state = "none"
      /\ session' = [session EXCEPT ![s] = [state |-> "live", cred |-> c, recent |-> TRUE]]
      /\ opened' = [opened EXCEPT ![s] = req[r].challenge]

\* Mutant: the token is not looked at again.
EnrolOnCheck(r) ==
    /\ req[r].pc = "consumed" /\ req[r].op = "enrol" /\ account = "open"
    /\ InsertCredential(r, req[r].target) /\ InsertSession(r, req[r].target)
    /\ token' = [token EXCEPT ![req[r].token] = "consumed"]
    /\ Done(r) /\ UNCHANGED <<account, signed, challenge>>

\* completeBootstrapRegistration: the token is consumed with the first passkey and
\* the first session, in one transaction.
Enrol(r) ==
    /\ req[r].pc = "consumed" /\ req[r].op = "enrol" /\ TokenValid(req[r].token)
    /\ InsertCredential(r, req[r].target) /\ InsertSession(r, req[r].target)
    /\ token' = [token EXCEPT ![req[r].token] = "consumed"]
    /\ Done(r) /\ UNCHANGED <<account, signed, challenge>>

\* addCredential.
AddCredential(r) ==
    /\ req[r].pc = "consumed" /\ req[r].op = "add" /\ account = "open" /\ InsertCredential(r, req[r].target)
    /\ Done(r) /\ UNCHANGED <<account, signed, session, challenge, token, opened>>

-----------------------------------------------------------------------------
(* Login.                                                                  *)

\* The authenticator signs the challenge, counting or not, and authenticate
\* consumes it.
ConsumeLogin(r, h, c) ==
    /\ req[r].pc = "idle" /\ Consumable(h, "authentication", None) /\ Consume(h)
    /\ signed' = [signed EXCEPT ![c] = IF @ = 0 THEN 0 ELSE @ + 1] /\ signed[c] < MaxCounter
    /\ Goto(r, [Idle EXCEPT !.pc = "consumed", !.op = "login", !.challenge = h, !.target = c, !.signed = signed'[c]])
    /\ UNCHANGED <<account, cred, session, token, born, opened>>

\* activeCredentialByExternalId, and verifyAuthentication with the counter read:
\* a counter in use must have grown.
ReadCredential(r) ==
    LET c == req[r].target IN
    /\ req[r].pc = "consumed" /\ req[r].op = "login" /\ account = "open" /\ cred[c].state = "active"
    /\ req[r].signed > cred[c].counter \/ (req[r].signed = 0 /\ cred[c].counter = 0)
    /\ Goto(r, [req[r] EXCEPT !.pc = "read", !.counter = cred[c].counter])
    /\ UNCHANGED <<account, cred, signed, session, challenge, token, born, opened>>

\* Mutant: the passkey is taken as it was read.
CompleteAuthenticationStale(r) ==
    LET c == req[r].target IN
    /\ req[r].pc = "read" /\ account = "open" /\ cred[c].counter = req[r].counter
    /\ cred' = [cred EXCEPT ![c].counter = req[r].signed] /\ InsertSession(r, c)
    /\ Done(r) /\ UNCHANGED <<account, signed, challenge, token, born>>

\* Mutant: the counter is written without a comparison.
CompleteAuthenticationLast(r) ==
    LET c == req[r].target IN
    /\ req[r].pc = "read" /\ account = "open" /\ cred[c].state = "active"
    /\ cred' = [cred EXCEPT ![c].counter = req[r].signed] /\ InsertSession(r, c)
    /\ Done(r) /\ UNCHANGED <<account, signed, challenge, token, born>>

\* completeAuthentication: under the lock of the passkey, which is still active and
\* has the counter that was verified.
CompleteAuthentication(r) ==
    LET c == req[r].target IN
    /\ req[r].pc = "read" /\ account = "open" /\ cred[c].state = "active" /\ cred[c].counter = req[r].counter
    /\ cred' = [cred EXCEPT ![c].counter = req[r].signed] /\ InsertSession(r, c)
    /\ Done(r) /\ UNCHANGED <<account, signed, challenge, token, born>>

-----------------------------------------------------------------------------
(* The commands of a session.                                              *)

\* AdminSessionGuard, RecentAdminAuthenticationGuard and the checks of the service.
Admit(r, s, op, target) ==
    /\ req[r].pc = "idle" /\ Accepted(s)
    /\ op # "logout" => session[s].recent
    /\ op = "revoke" => target # session[s].cred
    /\ op = "select" => target # s
    /\ Goto(r, [Idle EXCEPT !.pc = "admitted", !.op = op, !.session = s, !.target = target])
    /\ UNCHANGED <<account, cred, signed, session, challenge, token, born, opened>>

Revoked(set) == [s \in Sessions |-> IF s \in set /\ session[s].state = "live"
                                    THEN [session[s] EXCEPT !.state = "revoked"] ELSE session[s]]

\* Mutant: a last passkey is revoked like any other.
RevokeAnyCredential(r) ==
    LET c == req[r].target IN
    /\ req[r].pc = "admitted" /\ req[r].op = "revoke" /\ c \in Active
    /\ cred' = [cred EXCEPT ![c].state = "revoked"] /\ session' = Revoked(Sessions \ {req[r].session})
    /\ Done(r) /\ UNCHANGED <<account, signed, challenge, token, born, opened>>

\* revokeCredential: under the locks of all active passkeys, unless it is the last.
RevokeCredential(r) ==
    LET c == req[r].target IN
    /\ req[r].pc = "admitted" /\ req[r].op = "revoke" /\ c \in Active /\ Cardinality(Active) > 1
    /\ cred' = [cred EXCEPT ![c].state = "revoked"] /\ session' = Revoked(Sessions \ {req[r].session})
    /\ Done(r) /\ UNCHANGED <<account, signed, challenge, token, born, opened>>

\* revokeSession (logout), revokeOtherSessions and revokeSelectedSession.
RevokeSessions(r) ==
    /\ req[r].pc = "admitted" /\ req[r].op \in {"logout", "others", "select"}
    /\ session' = Revoked(CASE req[r].op = "logout" -> {req[r].session}
                            [] req[r].op = "others" -> Sessions \ {req[r].session}
                            [] OTHER -> {req[r].target})
    /\ Done(r) /\ UNCHANGED <<account, cred, signed, challenge, token, born, opened>>

\* The request is refused at its next step, or its process dies.
GiveUp(r) ==
    /\ req[r].pc # "idle" /\ Done(r)
    /\ UNCHANGED <<account, cred, signed, session, challenge, token, born, opened>>

-----------------------------------------------------------------------------
(* Time, and the rest of the system.                                       *)

\* The validity of a token or a challenge ends, a session is no longer recent or
\* runs out; the rows are purged later, long after the requests that name them.
Expire ==
    \/ \E t \in Tokens : token[t] = "active" /\ token' = [token EXCEPT ![t] = "late"]
                         /\ UNCHANGED <<session, challenge>>
    \/ \E h \in Challenges : challenge[h].state = "open" /\ Consume(h) /\ UNCHANGED <<session, token>>
    \/ \E s \in Sessions : /\ session[s].state = "revoked" /\ \A r \in Requests : s \notin {req[r].session, req[r].target}
                           /\ session' = [session EXCEPT ![s] = NoSession] /\ UNCHANGED <<challenge, token>>
    \/ \E s \in LiveSessions : /\ session' = [session EXCEPT ![s] = IF @.recent THEN [@ EXCEPT !.recent = FALSE]
                                                                   ELSE [@ EXCEPT !.state = "revoked"]]
                               /\ UNCHANGED <<challenge, token>>

Time ==
    /\ Expire /\ opened' = [s \in Sessions |-> IF session'[s].state = "none" THEN None ELSE opened[s]]
    /\ UNCHANGED <<account, cred, signed, req, born>>

\* setUserBan, and the end of the erasure of the account.
SetUserBan ==
    /\ account # "erased" /\ account' = IF account = "open" THEN "banned" ELSE "open"
    /\ UNCHANGED <<cred, signed, session, challenge, token, req, born, opened>>

Erase ==
    /\ account = "open" /\ account' = "erased"
    /\ session' = [s \in Sessions |-> NoSession] /\ cred' = [c \in Creds |-> [state |-> "none", counter |-> 0]]
    /\ challenge' = [h \in Challenges |-> IF challenge[h].purpose = "authentication" THEN challenge[h] ELSE NoChallenge]
    /\ token' = [t \in Tokens |-> "none"]
    /\ born' = [c \in Creds |-> Unborn] /\ opened' = [s \in Sessions |-> None] /\ UNCHANGED <<signed, req>>

Next ==
    \/ \E t \in Tokens : Issue(t)
    \/ \E h \in Challenges : \/ AuthenticationOptions(h) \/ AdditionalRegistrationOptions(h)
                             \/ \E t \in Tokens : BootstrapRegistrationOptions(h, t)
    \/ \E r \in Requests :
         \/ \E t \in Tokens : CheckToken(r, t)
         \/ \E h \in Challenges, c \in Creds : ConsumeRegistration(r, h, c) \/ ConsumeLogin(r, h, c)
         \/ \E s \in Sessions : \/ \E op \in {"add", "logout", "others"} : Admit(r, s, op, None)
                                \/ \E c \in Creds : Admit(r, s, "revoke", c)
                                \/ \E o \in Sessions : Admit(r, s, "select", o)
         \/ Enrol(r) \/ AddCredential(r) \/ ReadCredential(r) \/ CompleteAuthentication(r)
         \/ RevokeCredential(r) \/ RevokeSessions(r) \/ GiveUp(r)
    \/ Time \/ SetUserBan \/ Erase

Spec == Init /\ [][Next]_vars

-----------------------------------------------------------------------------
(* Properties.                                                             *)

\* revokeCredential: an account that has a passkey keeps one until it is erased,
\* also when two sessions revoke the passkeys of each other.
LastCredentialKept == [][Active # {} /\ account' # "erased" => Active' # {}]_vars

\* revokeCredential and completeAuthentication: no session is left with a passkey
\* that is revoked, though a login may have read the passkey before.
NoSessionOutlivesCredential == \A s \in LiveSessions : cred[session[s].cred].state = "active"

\* A challenge is good for one session or one passkey, and an enrolment token for
\* one passkey, however many requests carry them at once.
UsedOnce ==
    /\ \A s1, s2 \in Sessions : s1 # s2 /\ opened[s1] = opened[s2] => opened[s1] = None
    /\ \A c1, c2 \in Creds : c1 # c2 =>
         /\ born[c1].challenge = born[c2].challenge => born[c1].challenge = None
         /\ born[c1].token = born[c2].token => born[c1].token = None

\* completeAuthentication: of logins that overtake each other none takes the
\* counter of a passkey back.
CounterNeverFalls ==
    [][\A c \in Creds : cred[c].state = "active" /\ cred'[c].state = "active" => cred'[c].counter >= cred[c].counter]_vars

\* Logins and enrolments that race: nothing is used twice, and no session is left
\* with a passkey that was revoked.
AdminConsistent == TypeOK /\ UsedOnce /\ NoSessionOutlivesCredential

\* revokeCredential and completeAuthentication: the last passkey stays, and no
\* counter falls.
PasskeysKept == LastCredentialKept /\ CounterNeverFalls

=============================================================================
