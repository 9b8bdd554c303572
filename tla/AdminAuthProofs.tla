-------------------------- MODULE AdminAuthProofs ---------------------------
(***************************************************************************)
(* Proofs about AdminAuth for any number of passkeys, sessions,            *)
(* challenges, tokens and requests, and any bound on the counters, and     *)
(* about ContentModeration, what the administrators decide on, for any     *)
(* number of texts, questions, cases and administrators, and about         *)
(* KeysetPaging, for any number of rows, limit and dates.                  *)
(***************************************************************************)
EXTENDS Administration, FunctionTheorems, FiniteSetTheorems, WellFoundedInduction, TLAPS

-----------------------------------------------------------------------------
(* The inductive invariant.                                                *)

CredType == [state: {"none", "active", "revoked"}, counter: 0..MaxCounter]
SessionType == [state: {"none", "live", "revoked"}, cred: Creds \cup {None}, recent: BOOLEAN]
ChallengeType == [state: {"none", "open", "consumed"}, purpose: Purposes \cup {"none"}, token: Tokens \cup {None}]
BirthType == [challenge: Challenges \cup {None}, token: Tokens \cup {None}]
RequestType == [pc: {"idle", "admitted", "consumed", "read"},
                op: {"none", "enrol", "add", "login", "revoke", "logout", "others", "select"},
                session: Sessions \cup {None}, challenge: Challenges \cup {None},
                token: Tokens \cup {None}, target: Creds \cup Sessions \cup {None},
                counter: 0..MaxCounter, signed: 0..MaxCounter]

\* TypeOK with named record types, and the type of a request.
Typed ==
    /\ account \in {"open", "banned", "erased"}
    /\ cred \in [Creds -> CredType]
    /\ signed \in [Creds -> 0..MaxCounter]
    /\ session \in [Sessions -> SessionType]
    /\ challenge \in [Challenges -> ChallengeType]
    /\ token \in [Tokens -> {"none", "active", "late", "consumed"}]
    /\ req \in [Requests -> RequestType]
    /\ born \in [Creds -> BirthType]
    /\ opened \in [Sessions -> Challenges \cup {None}]

Usable(t) == token[t] \in {"active", "late"}

\* One enrolment token at most is not consumed.
OneToken == \A t, u \in Tokens : Usable(t) /\ Usable(u) => t = u

\* What a request names at each of its steps; the counter a login has verified is
\* not above the one that was signed.
Shaped ==
    \A r \in Requests :
        /\ req[r].pc = "admitted" =>
             /\ req[r].op \in {"enrol", "add", "revoke", "logout", "others", "select"}
             /\ req[r].op = "enrol" => req[r].token \in Tokens
             /\ req[r].op # "enrol" => req[r].token = None
             /\ req[r].op = "revoke" => req[r].target \in Creds /\ req[r].session \in Sessions
        /\ req[r].pc = "consumed" =>
             /\ req[r].op \in {"enrol", "add", "login"}
             /\ req[r].op = "enrol" => req[r].token \in Tokens
             /\ req[r].op # "enrol" => req[r].token = None
        /\ req[r].pc = "read" => req[r].counter <= req[r].signed
        /\ req[r].pc \in {"consumed", "read"} => req[r].target \in Creds /\ req[r].challenge \in Challenges

\* The requests that have consumed a challenge and not used it yet.
Holding(r) == req[r].pc \in {"consumed", "read"}

\* Until the account is erased, a challenge that a request holds or that was used,
\* and a token that was used, are consumed.
Spent ==
    account # "erased" =>
        /\ \A r \in Requests : Holding(r) => challenge[req[r].challenge].state = "consumed"
        /\ \A c \in Creds : /\ born[c].challenge # None => challenge[born[c].challenge].state = "consumed"
                            /\ born[c].token # None => token[born[c].token] = "consumed"
        /\ \A s \in Sessions : opened[s] # None => challenge[opened[s]].state = "consumed"

\* Until the account is erased, a challenge that a request holds is held by no
\* other, and was not used.
Apart ==
    account # "erased" =>
        \A r \in Requests : Holding(r) =>
            /\ \A q \in Requests : Holding(q) /\ req[q].challenge = req[r].challenge => q = r
            /\ \A c \in Creds : born[c].challenge # req[r].challenge
            /\ \A s \in Sessions : opened[s] # req[r].challenge

\* A session belongs to a passkey, which is active while the session lives.
Bound ==
    \A s \in Sessions :
        /\ session[s].state # "none" => session[s].cred \in Creds
        /\ session[s].state = "live" => cred[session[s].cred].state = "active"

\* The session that asks to revoke a passkey still is the one of another passkey.
Spares ==
    account # "erased" =>
        \A r \in Requests : req[r].pc = "admitted" /\ req[r].op = "revoke" =>
            /\ session[req[r].session].state # "none"
            /\ session[req[r].session].cred # req[r].target

\* Nothing comes back after the erasure of the account.
Gone ==
    account = "erased" =>
        /\ \A c \in Creds : cred[c].state = "none" /\ born[c] = Unborn
        /\ \A s \in Sessions : session[s].state = "none" /\ opened[s] = None

\* The inductive invariant.
IInv == Typed /\ OneToken /\ Shaped /\ Spent /\ Apart /\ Bound /\ Spares /\ Gone /\ UsedOnce

-----------------------------------------------------------------------------
(* Types.                                                                  *)

\* TypeOK in parts.
LEMMA TypeParts == Typed /\ OneToken => TypeOK
<1> SUFFICES ASSUME Typed, OneToken PROVE TypeOK
  OBVIOUS
<1> DEFINE U == {t \in Tokens : token[t] \in {"active", "late"}}
<1>1. Cardinality(U) <= 1
  <2>1. CASE U = {}
    BY <2>1, FS_EmptySet
  <2>2. CASE U # {}
    <3>1. PICK t \in U : TRUE
      BY <2>2
    <3>2. U = {t}
      BY <3>1 DEF OneToken, Usable
    <3>3. QED BY <3>2, FS_Singleton
  <2>3. QED BY <2>1, <2>2
<1>2. \A r \in Requests : req[r].pc \in {"idle", "admitted", "consumed", "read"}
  BY DEF Typed, RequestType
<1>3. QED BY <1>1, <1>2 DEF TypeOK, Typed, CredType, SessionType, ChallengeType, BirthType

\* A request that is over.
LEMMA IdleRequest == /\ Idle \in RequestType /\ Idle.pc = "idle" /\ Idle.challenge = None /\ Idle.token = None
                     /\ Idle.counter = 0 /\ Idle.signed = 0
BY AdminAuthAssumption DEF Idle, RequestType

\* A challenge that is consumed.
LEMMA ConsumedChallenge ==
    ASSUME Typed, NEW h \in Challenges, Consume(h)
    PROVE  /\ challenge' \in [Challenges -> ChallengeType]
           /\ challenge'[h].state = "consumed"
           /\ \A k \in Challenges : challenge[k].state = "consumed" => challenge'[k].state = "consumed"
BY DEF Typed, ChallengeType, Consume

\* A new passkey, with where it came from.
LEMMA InsertedCredential ==
    ASSUME Typed, Shaped, NEW r \in Requests, req[r].pc = "consumed", NEW c \in Creds, InsertCredential(r, c)
    PROVE  /\ cred' \in [Creds -> CredType] /\ born' \in [Creds -> BirthType]
           /\ cred[c].state = "none" /\ cred'[c].state = "active"
           /\ born'[c].challenge = req[r].challenge /\ born'[c].token = req[r].token
           /\ \A d \in Creds : d # c => cred'[d] = cred[d] /\ born'[d] = born[d]
BY DEF Typed, Shaped, CredType, BirthType, RequestType, InsertCredential

\* A new session takes a free row.
LEMMA InsertedSession ==
    ASSUME Typed, NEW r \in Requests, NEW c \in Creds, InsertSession(r, c)
    PROVE  /\ session' \in [Sessions -> SessionType] /\ opened' \in [Sessions -> Challenges \cup {None}]
           /\ \E s \in Sessions : /\ session[s].state = "none"
                                  /\ session'[s].state = "live" /\ session'[s].cred = c
                                  /\ opened'[s] = req[r].challenge
                                  /\ \A o \in Sessions : o # s => session'[o] = session[o] /\ opened'[o] = opened[o]
BY DEF Typed, SessionType, RequestType, InsertSession

\* Sessions that are revoked keep their passkey.
LEMMA RevokedSessions ==
    ASSUME Typed, NEW S
    PROVE  /\ Revoked(S) \in [Sessions -> SessionType]
           /\ \A s \in Sessions :
                /\ Revoked(S)[s].cred = session[s].cred
                /\ Revoked(S)[s].state = "none" <=> session[s].state = "none"
                /\ Revoked(S)[s].state = "live" <=> session[s].state = "live" /\ s \notin S
BY DEF Typed, SessionType, Revoked

\* Time leaves a passkey to every session that stays, and makes none live.
LEMMA Expiries ==
    ASSUME Typed, Time
    PROVE  /\ session' \in [Sessions -> SessionType]
           /\ challenge' \in [Challenges -> ChallengeType]
           /\ token' \in [Tokens -> {"none", "active", "late", "consumed"}]
           /\ opened' \in [Sessions -> Challenges \cup {None}]
           /\ \A s \in Sessions :
                /\ session'[s].state = "live" => session[s].state = "live"
                /\ session'[s].state # "none" => session[s].state # "none" /\ session'[s].cred = session[s].cred
                /\ session'[s].state = "none" => \/ session[s].state = "none"
                                                 \/ \A r \in Requests : s # req[r].session
                /\ opened'[s] = opened[s] \/ opened'[s] = None
           /\ \A h \in Challenges : challenge[h].state = "consumed" => challenge'[h].state = "consumed"
           /\ \A t \in Tokens : token'[t] = token[t] \/ (token[t] = "active" /\ token'[t] = "late")
<1> DEFINE Kept == /\ session' \in [Sessions -> SessionType]
                   /\ \A s \in Sessions :
                        /\ session'[s].state = "live" => session[s].state = "live"
                        /\ session'[s].state # "none" => session[s].state # "none" /\ session'[s].cred = session[s].cred
                        /\ session'[s].state = "none" => \/ session[s].state = "none"
                                                         \/ \A r \in Requests : s # req[r].session
           Rows == /\ challenge' \in [Challenges -> ChallengeType]
                   /\ \A h \in Challenges : challenge[h].state = "consumed" => challenge'[h].state = "consumed"
           Toks == /\ token' \in [Tokens -> {"none", "active", "late", "consumed"}]
                   /\ \A t \in Tokens : token'[t] = token[t] \/ (token[t] = "active" /\ token'[t] = "late")
<1>0. /\ UNCHANGED session => Kept
      /\ UNCHANGED challenge => Rows
      /\ UNCHANGED token => Toks
  BY DEF Typed
<1>1. ASSUME NEW t \in Tokens, token[t] = "active", token' = [token EXCEPT ![t] = "late"] PROVE Toks
  BY <1>1 DEF Typed
<1>2. ASSUME NEW s \in Sessions, session[s].state = "revoked", \A r \in Requests : s \notin {req[r].session, req[r].target},
             session' = [session EXCEPT ![s] = NoSession]
      PROVE  Kept
  <2>1. NoSession \in SessionType /\ NoSession.state = "none"
    BY DEF NoSession, SessionType
  <2>2. QED BY <1>2, <2>1 DEF Typed
<1>3. ASSUME NEW s \in LiveSessions,
             session' = [session EXCEPT ![s] = IF @.recent THEN [@ EXCEPT !.recent = FALSE]
                                               ELSE [@ EXCEPT !.state = "revoked"]]
      PROVE  Kept
  <2>1. s \in Sessions /\ session \in [Sessions -> SessionType] /\ session[s].state = "live"
    BY DEF LiveSessions, Typed
  <2>2. CASE session[s].recent
    <3>1. session' = [session EXCEPT ![s] = [session[s] EXCEPT !.recent = FALSE]]
      BY <1>3, <2>2
    <3>2. QED BY <2>1, <3>1 DEF SessionType
  <2>3. CASE ~session[s].recent
    <3>1. session' = [session EXCEPT ![s] = [session[s] EXCEPT !.state = "revoked"]]
      BY <1>3, <2>3
    <3>2. QED BY <2>1, <3>1 DEF SessionType
  <2>4. QED BY <2>2, <2>3
<1>4. Kept /\ Rows /\ Toks
  <2>1. Expire
    BY DEF Time
  <2>2. CASE \E t \in Tokens : token[t] = "active" /\ token' = [token EXCEPT ![t] = "late"]
                               /\ UNCHANGED <<session, challenge>>
    BY <2>2, <1>0, <1>1
  <2>3. CASE \E h \in Challenges : challenge[h].state = "open" /\ Consume(h) /\ UNCHANGED <<session, token>>
    BY <2>3, <1>0, ConsumedChallenge
  <2>4. CASE \E s \in Sessions : /\ session[s].state = "revoked" /\ \A r \in Requests : s \notin {req[r].session, req[r].target}
                                 /\ session' = [session EXCEPT ![s] = NoSession] /\ UNCHANGED <<challenge, token>>
    BY <2>4, <1>0, <1>2
  <2>5. CASE \E s \in LiveSessions : /\ session' = [session EXCEPT ![s] = IF @.recent THEN [@ EXCEPT !.recent = FALSE]
                                                                          ELSE [@ EXCEPT !.state = "revoked"]]
                                     /\ UNCHANGED <<challenge, token>>
    BY <2>5, <1>0, <1>3
  <2>6. QED BY <2>1, <2>2, <2>3, <2>4, <2>5 DEF Expire
<1>5. /\ opened' \in [Sessions -> Challenges \cup {None}]
      /\ \A s \in Sessions : opened'[s] = opened[s] \/ opened'[s] = None
  BY DEF Typed, Time
<1>6. QED BY <1>4, <1>5

\* Every action keeps the types.
LEMMA TypesKept == ASSUME Typed, Shaped, [Next]_vars PROVE Typed'
<1> USE DEF Typed
<1>1. ASSUME NEW t \in Tokens, Issue(t) PROVE Typed'
  BY <1>1 DEF Issue
<1>2. ASSUME NEW h \in Challenges, NEW p \in Purposes, NEW t \in Tokens \cup {None}, CreateChallenge(h, p, t) PROVE Typed'
  BY <1>2 DEF CreateChallenge, ChallengeType
<1>3. ASSUME NEW h \in Challenges,
             \/ AuthenticationOptions(h) \/ AdditionalRegistrationOptions(h)
             \/ \E t \in Tokens : BootstrapRegistrationOptions(h, t)
      PROVE  Typed'
  BY <1>2, <1>3 DEF AuthenticationOptions, AdditionalRegistrationOptions, BootstrapRegistrationOptions, Purposes
<1>4. ASSUME NEW r \in Requests, NEW t \in Tokens, CheckToken(r, t) PROVE Typed'
  <2>1. [Idle EXCEPT !.pc = "admitted", !.op = "enrol", !.token = t] \in RequestType
    BY IdleRequest DEF RequestType
  <2>2. QED BY <1>4, <2>1 DEF CheckToken, Goto
<1>5. ASSUME NEW r \in Requests, NEW h \in Challenges, NEW c \in Creds, ConsumeRegistration(r, h, c) PROVE Typed'
  <2>1. [req[r] EXCEPT !.pc = "consumed", !.challenge = h, !.target = c] \in RequestType
    BY DEF RequestType
  <2>2. QED BY <1>5, <2>1, ConsumedChallenge DEF ConsumeRegistration, Goto
<1>6. ASSUME NEW r \in Requests, NEW h \in Challenges, NEW c \in Creds, ConsumeLogin(r, h, c) PROVE Typed'
  <2>1. signed' \in [Creds -> 0..MaxCounter]
    BY <1>6, AdminAuthAssumption DEF ConsumeLogin
  <2>2. signed'[c] \in 0..MaxCounter
    BY <2>1
  <2>3. ASSUME NEW n \in 0..MaxCounter
        PROVE  [Idle EXCEPT !.pc = "consumed", !.op = "login", !.challenge = h, !.target = c, !.signed = n] \in RequestType
    BY IdleRequest DEF RequestType
  <2>4. req' \in [Requests -> RequestType]
    BY <1>6, <2>2, <2>3 DEF ConsumeLogin, Goto
  <2>5. QED BY <1>6, <2>1, <2>4, ConsumedChallenge DEF ConsumeLogin
<1>7. ASSUME NEW r \in Requests, NEW s \in Sessions, NEW target \in Creds \cup Sessions \cup {None},
             NEW op \in {"add", "logout", "others", "revoke", "select"}, Admit(r, s, op, target)
      PROVE  Typed'
  <2>1. [Idle EXCEPT !.pc = "admitted", !.op = op, !.session = s, !.target = target] \in RequestType
    BY IdleRequest DEF RequestType
  <2>2. QED BY <1>7, <2>1 DEF Admit, Goto
<1>8. ASSUME NEW r \in Requests, Done(r) PROVE req' \in [Requests -> RequestType]
  BY <1>8, IdleRequest DEF Done, Goto
<1>9. ASSUME NEW r \in Requests, Enrol(r) PROVE Typed'
  <2>1. req[r].target \in Creds
    BY <1>9 DEF Enrol, Shaped
  <2>2. QED BY <1>8, <1>9, <2>1, InsertedCredential, InsertedSession DEF Enrol
<1>10. ASSUME NEW r \in Requests, AddCredential(r) PROVE Typed'
  <2>1. req[r].target \in Creds
    BY <1>10 DEF AddCredential, Shaped
  <2>2. QED BY <1>8, <1>10, <2>1, InsertedCredential DEF AddCredential
<1>11. ASSUME NEW r \in Requests, ReadCredential(r) PROVE Typed'
  <2>1. cred[req[r].target].counter \in 0..MaxCounter
    BY <1>11 DEF ReadCredential, Shaped, CredType
  <2>2. [req[r] EXCEPT !.pc = "read", !.counter = cred[req[r].target].counter] \in RequestType
    BY <2>1 DEF RequestType
  <2>3. QED BY <1>11, <2>2 DEF ReadCredential, Goto
<1>12. ASSUME NEW r \in Requests, CompleteAuthentication(r) PROVE Typed'
  <2>1. req[r].target \in Creds /\ req[r].signed \in 0..MaxCounter
    BY <1>12 DEF CompleteAuthentication, Shaped, RequestType
  <2>2. cred' \in [Creds -> CredType]
    BY <1>12, <2>1 DEF CompleteAuthentication, CredType
  <2>3. QED BY <1>8, <1>12, <2>1, <2>2, InsertedSession DEF CompleteAuthentication
<1>13. ASSUME NEW r \in Requests, RevokeCredential(r) PROVE Typed'
  <2>1. cred' \in [Creds -> CredType]
    BY <1>13 DEF RevokeCredential, CredType
  <2>2. QED BY <1>8, <1>13, <2>1, RevokedSessions DEF RevokeCredential
<1>14. ASSUME NEW r \in Requests, RevokeSessions(r) PROVE Typed'
  BY <1>8, <1>14, RevokedSessions DEF RevokeSessions
<1>15. ASSUME NEW r \in Requests, GiveUp(r) PROVE Typed'
  BY <1>8, <1>15 DEF GiveUp
<1>16. CASE Time
  BY <1>16, Expiries DEF Time
<1>17. CASE SetUserBan
  BY <1>17 DEF SetUserBan
<1>18. CASE Erase
  <2>1. NoSession \in SessionType /\ NoChallenge \in ChallengeType /\ Unborn \in BirthType
        /\ [state |-> "none", counter |-> 0] \in CredType
    BY AdminAuthAssumption DEF NoSession, NoChallenge, Unborn, SessionType, ChallengeType, BirthType, CredType
  <2>2. QED BY <1>18, <2>1 DEF Erase
<1>19. CASE UNCHANGED vars
  BY <1>19 DEF vars
<1>20. QED BY <1>1, <1>3, <1>4, <1>5, <1>6, <1>7, <1>9, <1>10, <1>11, <1>12, <1>13, <1>14, <1>15, <1>16,
              <1>17, <1>18, <1>19 DEF Next

-----------------------------------------------------------------------------
(* Requests.                                                               *)

\* A step of a request touches no other request.
LEMMA OtherRequests ==
    ASSUME Typed, NEW r \in Requests, NEW rec, Goto(r, rec)
    PROVE  req'[r] = rec /\ \A q \in Requests : q # r => req'[q] = req[q]
BY DEF Typed, Goto

\* A request that is over holds nothing and asks for nothing.
LEMMA RequestsOver ==
    ASSUME Typed, NEW r \in Requests, Done(r)
    PROVE  req'[r].pc = "idle" /\ \A q \in Requests : q # r => req'[q] = req[q]
BY IdleRequest, OtherRequests DEF Done

\* What the steps of a request write into it.
LEMMA RequestSteps ==
    ASSUME Typed, NEW r \in Requests
    PROVE  /\ \A t \in Tokens : CheckToken(r, t) =>
                req'[r].pc = "admitted" /\ req'[r].op = "enrol" /\ req'[r].token = t
           /\ \A h \in Challenges, c \in Creds : ConsumeRegistration(r, h, c) =>
                /\ req'[r].pc = "consumed" /\ req'[r].op = req[r].op /\ req'[r].token = req[r].token
                /\ req'[r].challenge = h /\ req'[r].target = c
           /\ \A h \in Challenges, c \in Creds : ConsumeLogin(r, h, c) =>
                /\ req'[r].pc = "consumed" /\ req'[r].op = "login" /\ req'[r].token = None
                /\ req'[r].challenge = h /\ req'[r].target = c
           /\ \A s, op, target : Admit(r, s, op, target) =>
                /\ req'[r].pc = "admitted" /\ req'[r].op = op /\ req'[r].token = None
                /\ req'[r].session = s /\ req'[r].target = target
           /\ ReadCredential(r) =>
                /\ req'[r].pc = "read" /\ req'[r].challenge = req[r].challenge /\ req'[r].target = req[r].target
                /\ req'[r].counter = cred[req[r].target].counter /\ req'[r].signed = req[r].signed
<1>1. req[r] \in RequestType
  BY DEF Typed
<1>2. ASSUME NEW t \in Tokens, CheckToken(r, t)
      PROVE  req'[r].pc = "admitted" /\ req'[r].op = "enrol" /\ req'[r].token = t
  <2>1. req'[r] = [Idle EXCEPT !.pc = "admitted", !.op = "enrol", !.token = t]
    BY <1>2 DEF CheckToken, Goto, Typed
  <2>2. QED BY <2>1, IdleRequest DEF RequestType
<1>3. ASSUME NEW h \in Challenges, NEW c \in Creds, ConsumeRegistration(r, h, c)
      PROVE  /\ req'[r].pc = "consumed" /\ req'[r].op = req[r].op /\ req'[r].token = req[r].token
             /\ req'[r].challenge = h /\ req'[r].target = c
  <2>1. req'[r] = [req[r] EXCEPT !.pc = "consumed", !.challenge = h, !.target = c]
    BY <1>3 DEF ConsumeRegistration, Goto, Typed
  <2>2. QED BY <2>1, <1>1 DEF RequestType
<1>4. ASSUME NEW h \in Challenges, NEW c \in Creds, ConsumeLogin(r, h, c)
      PROVE  /\ req'[r].pc = "consumed" /\ req'[r].op = "login" /\ req'[r].token = None
             /\ req'[r].challenge = h /\ req'[r].target = c
  <2>1. req'[r] = [Idle EXCEPT !.pc = "consumed", !.op = "login", !.challenge = h, !.target = c, !.signed = signed'[c]]
    BY <1>4 DEF ConsumeLogin, Goto, Typed
  <2>2. QED BY <2>1, IdleRequest DEF RequestType
<1>5. ASSUME NEW s, NEW op, NEW target, Admit(r, s, op, target)
      PROVE  /\ req'[r].pc = "admitted" /\ req'[r].op = op /\ req'[r].token = None
             /\ req'[r].session = s /\ req'[r].target = target
  <2>1. req'[r] = [Idle EXCEPT !.pc = "admitted", !.op = op, !.session = s, !.target = target]
    BY <1>5 DEF Admit, Goto, Typed
  <2>2. QED BY <2>1, IdleRequest DEF RequestType
<1>6. ASSUME ReadCredential(r)
      PROVE  /\ req'[r].pc = "read" /\ req'[r].challenge = req[r].challenge /\ req'[r].target = req[r].target
             /\ req'[r].counter = cred[req[r].target].counter /\ req'[r].signed = req[r].signed
  <2>1. req'[r] = [req[r] EXCEPT !.pc = "read", !.counter = cred[req[r].target].counter]
    BY <1>6 DEF ReadCredential, Goto, Typed
  <2>2. QED BY <2>1, <1>1 DEF RequestType
<1>7. QED BY <1>2, <1>3, <1>4, <1>5, <1>6

\* The steps that end a request or leave all requests alone.
Ending(r) ==
    \/ Enrol(r) \/ AddCredential(r) \/ CompleteAuthentication(r)
    \/ RevokeCredential(r) \/ RevokeSessions(r) \/ GiveUp(r)
Quiet ==
    \/ \E t \in Tokens : Issue(t)
    \/ \E h \in Challenges : \/ AuthenticationOptions(h) \/ AdditionalRegistrationOptions(h)
                             \/ \E t \in Tokens : BootstrapRegistrationOptions(h, t)
    \/ Time \/ SetUserBan \/ Erase \/ UNCHANGED vars

\* Next by what a step does to the requests.
LEMMA NextCases ==
    ASSUME [Next]_vars
    PROVE  \/ Quiet
           \/ \E r \in Requests :
                \/ Ending(r) \/ ReadCredential(r)
                \/ \E t \in Tokens : CheckToken(r, t)
                \/ \E h \in Challenges, c \in Creds : ConsumeRegistration(r, h, c) \/ ConsumeLogin(r, h, c)
                \/ \E s \in Sessions : \/ \E op \in {"add", "logout", "others"} : Admit(r, s, op, None)
                                       \/ \E c \in Creds : Admit(r, s, "revoke", c)
                                       \/ \E o \in Sessions : Admit(r, s, "select", o)
BY DEF Next, Quiet, Ending

\* What those steps do to the requests.
LEMMA EndingSteps == ASSUME NEW r \in Requests, Ending(r) PROVE Done(r)
BY DEF Ending, Enrol, AddCredential, CompleteAuthentication, RevokeCredential, RevokeSessions, GiveUp

\* The other steps leave the requests alone.
LEMMA QuietSteps == ASSUME Quiet PROVE req' = req
BY DEF Quiet, Issue, AuthenticationOptions, AdditionalRegistrationOptions, BootstrapRegistrationOptions,
       CreateChallenge, Time, SetUserBan, Erase, vars

\* A request keeps naming what its steps need.
LEMMA ShapesKept == ASSUME Typed, Shaped, [Next]_vars PROVE Shaped'
<1> DEFINE Shape(q) ==
        /\ q.pc = "admitted" =>
             /\ q.op \in {"enrol", "add", "revoke", "logout", "others", "select"}
             /\ q.op = "enrol" => q.token \in Tokens
             /\ q.op # "enrol" => q.token = None
             /\ q.op = "revoke" => q.target \in Creds /\ q.session \in Sessions
        /\ q.pc = "consumed" =>
             /\ q.op \in {"enrol", "add", "login"}
             /\ q.op = "enrol" => q.token \in Tokens
             /\ q.op # "enrol" => q.token = None
        /\ q.pc = "read" => q.counter <= q.signed
        /\ q.pc \in {"consumed", "read"} => q.target \in Creds /\ q.challenge \in Challenges
<1>1. /\ \A r \in Requests : Shape(req[r])
      /\ (\A r \in Requests : Shape(req'[r])) => Shaped'
  BY DEF Shaped
<1>2. ASSUME NEW r \in Requests, NEW rec, Goto(r, rec), Shape(req'[r]) PROVE Shaped'
  <2>1. ASSUME NEW q \in Requests PROVE Shape(req'[q])
    <3>1. CASE q = r
      BY <1>2, <3>1
    <3>2. CASE q # r
      <4>1. req'[q] = req[q]
        BY <1>2, <3>2, OtherRequests
      <4>2. QED BY <1>1, <4>1
    <3>3. QED BY <3>1, <3>2
  <2>2. QED BY <1>1, <2>1
<1>3. CASE Quiet
  BY <1>1, <1>3, QuietSteps
<1>4. ASSUME NEW r \in Requests, Ending(r) PROVE Shaped'
  BY <1>2, <1>4, EndingSteps, RequestsOver DEF Done
<1>5. ASSUME NEW r \in Requests, ReadCredential(r) PROVE Shaped'
  <2>1. req[r].target \in Creds /\ req[r].challenge \in Challenges
    BY <1>1, <1>5 DEF ReadCredential
  <2>2. req[r].signed \in 0..MaxCounter /\ cred[req[r].target].counter \in 0..MaxCounter
    BY <2>1 DEF Typed, RequestType, CredType
  <2>3. req'[r].counter <= req'[r].signed
    <3>1. req'[r].counter = cred[req[r].target].counter /\ req'[r].signed = req[r].signed
      BY <1>5, RequestSteps
    <3>2. \/ req[r].signed > cred[req[r].target].counter
          \/ req[r].signed = 0 /\ cred[req[r].target].counter = 0
      BY <1>5 DEF ReadCredential
    <3>3. QED BY <2>2, <3>1, <3>2, AdminAuthAssumption
  <2>4. Shape(req'[r])
    BY <1>5, <2>1, <2>3, RequestSteps
  <2>5. QED BY <1>2, <1>5, <2>4 DEF ReadCredential
<1>6. ASSUME NEW r \in Requests, NEW t \in Tokens, CheckToken(r, t) PROVE Shaped'
  <2>1. Shape(req'[r])
    BY <1>6, RequestSteps
  <2>2. QED BY <1>2, <1>6, <2>1 DEF CheckToken
<1>7. ASSUME NEW r \in Requests, NEW h \in Challenges, NEW c \in Creds, ConsumeRegistration(r, h, c) PROVE Shaped'
  <2>1. Shape(req'[r])
    BY <1>1, <1>7, RequestSteps DEF ConsumeRegistration
  <2>2. QED BY <1>2, <1>7, <2>1 DEF ConsumeRegistration
<1>8. ASSUME NEW r \in Requests, NEW h \in Challenges, NEW c \in Creds, ConsumeLogin(r, h, c) PROVE Shaped'
  <2>1. Shape(req'[r])
    BY <1>8, RequestSteps
  <2>2. QED BY <1>2, <1>8, <2>1 DEF ConsumeLogin
<1>9. ASSUME NEW r \in Requests, NEW s \in Sessions, NEW target, NEW op \in {"add", "logout", "others", "revoke", "select"},
             op = "revoke" => target \in Creds, Admit(r, s, op, target)
      PROVE  Shaped'
  <2>1. Shape(req'[r])
    BY <1>9, RequestSteps
  <2>2. QED BY <1>2, <1>9, <2>1 DEF Admit
<1> HIDE DEF Shape
<1>10. QED BY <1>3, <1>4, <1>5, <1>6, <1>7, <1>8, <1>9, NextCases

-----------------------------------------------------------------------------
(* Challenges and tokens are used once.                                    *)

\* A new token takes the place of the others, and no step makes one usable again.
LEMMA OneTokenKept == ASSUME Typed, OneToken, [Next]_vars PROVE OneToken'
<1>1. ASSUME NEW t \in Tokens, Issue(t) PROVE OneToken'
  BY <1>1 DEF Issue, OneToken, Usable
<1>2. CASE \A t \in Tokens : token'[t] \in {"active", "late"} => token[t] \in {"active", "late"}
  BY <1>2 DEF OneToken, Usable
<1>3. CASE Time
  BY <1>2, <1>3, Expiries
<1>4. CASE Erase
  BY <1>2, <1>4 DEF Erase
<1>5. ASSUME NEW r \in Requests, Enrol(r) PROVE OneToken'
  BY <1>2, <1>5 DEF Enrol, Typed
<1>6. CASE UNCHANGED token
  BY <1>2, <1>6
<1>7. QED
  BY <1>1, <1>3, <1>4, <1>5, <1>6
  DEF Next, vars, AuthenticationOptions, AdditionalRegistrationOptions, BootstrapRegistrationOptions,
      CreateChallenge, CheckToken, ConsumeRegistration, ConsumeLogin, Admit, AddCredential, ReadCredential,
      CompleteAuthentication, RevokeCredential, RevokeSessions, GiveUp, SetUserBan

\* Until the erasure a consumed challenge and a consumed token stay consumed.
LEMMA ConsumedStays ==
    ASSUME Typed, [Next]_vars, account' # "erased"
    PROVE  /\ account # "erased"
           /\ \A h \in Challenges : challenge[h].state = "consumed" => challenge'[h].state = "consumed"
           /\ \A t \in Tokens : token[t] = "consumed" => token'[t] = "consumed"
<1> DEFINE Stays == /\ account # "erased"
                    /\ \A h \in Challenges : challenge[h].state = "consumed" => challenge'[h].state = "consumed"
                    /\ \A t \in Tokens : token[t] = "consumed" => token'[t] = "consumed"
<1>1. ASSUME NEW t \in Tokens, Issue(t) PROVE Stays
  BY <1>1 DEF Issue
<1>2. ASSUME NEW h \in Challenges, NEW p, NEW t, CreateChallenge(h, p, t) PROVE Stays
  BY <1>2 DEF CreateChallenge, Typed
<1>3. ASSUME NEW h \in Challenges,
             \/ AuthenticationOptions(h) \/ AdditionalRegistrationOptions(h)
             \/ \E t \in Tokens : BootstrapRegistrationOptions(h, t)
      PROVE  Stays
  BY <1>2, <1>3 DEF AuthenticationOptions, AdditionalRegistrationOptions, BootstrapRegistrationOptions
<1>4. ASSUME NEW r \in Requests, NEW h \in Challenges, NEW c \in Creds,
             ConsumeRegistration(r, h, c) \/ ConsumeLogin(r, h, c)
      PROVE  Stays
  BY <1>4, ConsumedChallenge DEF ConsumeRegistration, ConsumeLogin
<1>5. ASSUME NEW r \in Requests, Enrol(r) PROVE Stays
  BY <1>5 DEF Enrol, Typed
<1>6. ASSUME Time PROVE Stays
  BY <1>6, Expiries DEF Time
<1>7. ASSUME SetUserBan \/ Erase PROVE Stays
  BY <1>7 DEF SetUserBan, Erase
<1>8. ASSUME UNCHANGED <<account, challenge, token>> PROVE Stays
  BY <1>8
<1>9. ASSUME NEW r \in Requests, NEW s, NEW op, NEW target, Admit(r, s, op, target) PROVE Stays
  BY <1>8, <1>9 DEF Admit
<1>10. ASSUME NEW r \in Requests,
              \/ AddCredential(r) \/ ReadCredential(r) \/ CompleteAuthentication(r) \/ RevokeCredential(r)
              \/ RevokeSessions(r) \/ GiveUp(r) \/ \E t \in Tokens : CheckToken(r, t)
       PROVE  Stays
  BY <1>8, <1>10 DEF CheckToken, AddCredential, ReadCredential, CompleteAuthentication, RevokeCredential,
                     RevokeSessions, GiveUp
<1>11. ASSUME UNCHANGED vars PROVE Stays
  BY <1>8, <1>11 DEF vars
<1> HIDE DEF Stays
<1>12. Stays
  <2>1. CASE Next
    <3>1. CASE \E r \in Requests : \/ \E t \in Tokens : CheckToken(r, t)
                                   \/ Enrol(r) \/ AddCredential(r) \/ ReadCredential(r) \/ CompleteAuthentication(r)
                                   \/ RevokeCredential(r) \/ RevokeSessions(r) \/ GiveUp(r)
      BY <3>1, <1>5, <1>10
    <3>2. QED BY <2>1, <3>1, <1>1, <1>3, <1>4, <1>6, <1>7, <1>9 DEF Next
  <2>2. QED BY <2>1, <1>11
<1>13. QED BY <1>12 DEF Stays

\* Where the history of passkeys and sessions changes.
LEMMA HistorySteps ==
    ASSUME Typed, Shaped, [Next]_vars, account' # "erased"
    PROVE  \/ \E r \in Requests :
                /\ Holding(r) /\ Done(r)
                /\ \A c \in Creds : \/ born'[c] = born[c]
                                    \/ /\ born'[c].challenge = req[r].challenge /\ born'[c].token = req[r].token
                                       /\ req[r].token # None => token[req[r].token] = "active"
                                                                 /\ token'[req[r].token] = "consumed"
                                       /\ \A d \in Creds : d # c => born'[d] = born[d]
                /\ \A s \in Sessions : \/ opened'[s] = opened[s]
                                       \/ /\ opened'[s] = req[r].challenge
                                          /\ \A o \in Sessions : o # s => opened'[o] = opened[o]
           \/ /\ born' = born
              /\ \A s \in Sessions : opened'[s] = opened[s] \/ opened'[s] = None
<1>1. ASSUME NEW r \in Requests, Enrol(r)
      PROVE  /\ Holding(r) /\ Done(r) /\ req[r].target \in Creds
             /\ token[req[r].token] = "active" /\ token'[req[r].token] = "consumed"
             /\ InsertCredential(r, req[r].target) /\ InsertSession(r, req[r].target)
  BY <1>1 DEF Enrol, Holding, Shaped, Typed, TokenValid
<1>2. ASSUME NEW r \in Requests, AddCredential(r)
      PROVE  /\ Holding(r) /\ Done(r) /\ req[r].target \in Creds /\ req[r].token = None
             /\ InsertCredential(r, req[r].target) /\ UNCHANGED opened
  BY <1>2 DEF AddCredential, Holding, Shaped
<1>3. ASSUME NEW r \in Requests, CompleteAuthentication(r)
      PROVE  Holding(r) /\ Done(r) /\ req[r].target \in Creds /\ InsertSession(r, req[r].target) /\ UNCHANGED born
  BY <1>3 DEF CompleteAuthentication, Holding, Shaped
<1>4. CASE \E r \in Requests : Enrol(r)
  <2>1. PICK r \in Requests : Enrol(r)
    BY <1>4
  <2>2. \A c \in Creds : c = req[r].target \/ born'[c] = born[c]
    BY <1>1, <2>1, InsertedCredential DEF Enrol
  <2>3. born'[req[r].target].challenge = req[r].challenge /\ born'[req[r].target].token = req[r].token
    BY <1>1, <2>1, InsertedCredential DEF Enrol
  <2>4. PICK s \in Sessions : /\ opened'[s] = req[r].challenge
                              /\ \A o \in Sessions : o # s => opened'[o] = opened[o]
    BY <1>1, <2>1, InsertedSession
  <2>5. QED BY <1>1, <2>1, <2>2, <2>3, <2>4
<1>5. CASE \E r \in Requests : AddCredential(r)
  BY <1>2, <1>5, InsertedCredential DEF AddCredential
<1>6. CASE \E r \in Requests : CompleteAuthentication(r)
  BY <1>3, <1>6, InsertedSession
<1>7. CASE Time
  BY <1>7, Expiries DEF Time
<1>8. CASE Erase
  BY <1>8 DEF Erase
<1>9. ASSUME NEW h \in Challenges,
             \/ AuthenticationOptions(h) \/ AdditionalRegistrationOptions(h)
             \/ \E t \in Tokens : BootstrapRegistrationOptions(h, t) \/ Issue(t)
      PROVE  UNCHANGED <<born, opened>>
  BY <1>9 DEF AuthenticationOptions, AdditionalRegistrationOptions, BootstrapRegistrationOptions,
              CreateChallenge, Issue
<1>10. ASSUME NEW r \in Requests,
              \/ ReadCredential(r) \/ RevokeCredential(r) \/ RevokeSessions(r) \/ GiveUp(r)
              \/ \E t \in Tokens : CheckToken(r, t)
              \/ \E s, op, target : Admit(r, s, op, target)
              \/ \E h \in Challenges, c \in Creds : ConsumeRegistration(r, h, c) \/ ConsumeLogin(r, h, c)
       PROVE  UNCHANGED <<born, opened>>
  BY <1>10 DEF CheckToken, ConsumeRegistration, ConsumeLogin, ReadCredential, Admit, RevokeCredential,
               RevokeSessions, GiveUp
<1>11. CASE SetUserBan \/ UNCHANGED vars
  BY <1>11 DEF SetUserBan, vars
<1>12. CASE \E t \in Tokens : Issue(t)
  BY <1>12 DEF Issue
<1>13. QED BY <1>4, <1>5, <1>6, <1>7, <1>8, <1>9, <1>10, <1>11, <1>12 DEF Next

\* Where requests come to hold a challenge.
LEMMA HoldSteps ==
    ASSUME Typed, [Next]_vars
    PROVE  \/ \A q \in Requests : Holding(q)' => Holding(q) /\ req'[q].challenge = req[q].challenge
           \/ \E r \in Requests, h \in Challenges :
                /\ challenge[h].state = "open" /\ challenge'[h].state = "consumed"
                /\ req'[r].challenge = h /\ UNCHANGED <<account, born, opened>>
                /\ \A q \in Requests : q # r => req'[q] = req[q]
<1> DEFINE Fewer == \A q \in Requests : Holding(q)' => Holding(q) /\ req'[q].challenge = req[q].challenge
<1>1. CASE Quiet
  BY <1>1, QuietSteps DEF Holding
<1>2. ASSUME NEW r \in Requests, Ending(r) PROVE Fewer
  BY <1>2, EndingSteps, RequestsOver DEF Holding
<1>3. ASSUME NEW r \in Requests, ReadCredential(r) PROVE Fewer
  <2>1. \A q \in Requests : q # r => req'[q] = req[q]
    BY <1>3, OtherRequests DEF ReadCredential
  <2>2. Holding(r) /\ req'[r].challenge = req[r].challenge
    BY <1>3, RequestSteps DEF ReadCredential, Holding
  <2>3. QED BY <2>1, <2>2 DEF Holding
<1>4. ASSUME NEW r \in Requests, NEW rec, Goto(r, rec), req'[r].pc = "admitted" PROVE Fewer
  BY <1>4, OtherRequests DEF Holding
<1>5. ASSUME NEW r \in Requests, NEW t \in Tokens, CheckToken(r, t) PROVE Fewer
  BY <1>4, <1>5, RequestSteps DEF CheckToken
<1>6. ASSUME NEW r \in Requests, NEW s, NEW op, NEW target, Admit(r, s, op, target) PROVE Fewer
  <2>1. req'[r].pc = "admitted"
    BY <1>6, RequestSteps
  <2>2. QED BY <1>4, <1>6, <2>1 DEF Admit
<1>7. ASSUME NEW r \in Requests, NEW h \in Challenges, NEW c \in Creds,
             ConsumeRegistration(r, h, c) \/ ConsumeLogin(r, h, c)
      PROVE  /\ challenge[h].state = "open" /\ challenge'[h].state = "consumed"
             /\ req'[r].challenge = h /\ UNCHANGED <<account, born, opened>>
             /\ \A q \in Requests : q # r => req'[q] = req[q]
  <2>1. challenge[h].state = "open" /\ Consume(h) /\ UNCHANGED <<account, born, opened>>
    BY <1>7 DEF ConsumeRegistration, ConsumeLogin, Consumable
  <2>2. req'[r].challenge = h
    BY <1>7, RequestSteps
  <2>3. \A q \in Requests : q # r => req'[q] = req[q]
    BY <1>7, OtherRequests DEF ConsumeRegistration, ConsumeLogin
  <2>4. QED BY <2>1, <2>2, <2>3, ConsumedChallenge
<1> HIDE DEF Fewer
<1>8. Fewer \/ \E r \in Requests, h \in Challenges :
                /\ challenge[h].state = "open" /\ challenge'[h].state = "consumed"
                /\ req'[r].challenge = h /\ UNCHANGED <<account, born, opened>>
                /\ \A q \in Requests : q # r => req'[q] = req[q]
  BY <1>1, <1>2, <1>3, <1>5, <1>6, <1>7, NextCases DEF Fewer
<1>9. QED BY <1>8 DEF Fewer

\* What a request holds and what was used stays consumed.
LEMMA SpentKept == ASSUME Typed, Shaped, Spent, [Next]_vars PROVE Spent'
<1> SUFFICES ASSUME account' # "erased" PROVE Spent'
  BY DEF Spent
<1>1. /\ \A r \in Requests : Holding(r) => req[r].challenge \in Challenges /\ challenge[req[r].challenge].state = "consumed"
      /\ \A c \in Creds : /\ born[c].challenge # None => challenge[born[c].challenge].state = "consumed"
                          /\ born[c].token # None => token[born[c].token] = "consumed"
      /\ \A s \in Sessions : opened[s] # None => challenge[opened[s]].state = "consumed"
  BY ConsumedStays DEF Spent, Shaped, Holding
<1>2. Typed' /\ Shaped'
  BY TypesKept, ShapesKept
<1>3. \A r \in Requests : Holding(r)' => challenge'[req'[r].challenge].state = "consumed"
  <2>1. CASE \A q \in Requests : Holding(q)' => Holding(q) /\ req'[q].challenge = req[q].challenge
    BY <1>1, <2>1, ConsumedStays
  <2>2. ASSUME NEW r \in Requests, NEW h \in Challenges,
               challenge'[h].state = "consumed", req'[r].challenge = h,
               \A q \in Requests : q # r => req'[q] = req[q]
        PROVE  \A q \in Requests : Holding(q)' => challenge'[req'[q].challenge].state = "consumed"
    BY <1>1, <2>2, ConsumedStays DEF Holding
  <2>3. QED BY <2>1, <2>2, HoldSteps
<1>4. /\ \A c \in Creds : born[c] \in BirthType
      /\ \A s \in Sessions : opened[s] \in Challenges \cup {None}
  BY DEF Typed
<1>5. /\ \A c \in Creds : /\ born[c].challenge # None => challenge'[born[c].challenge].state = "consumed"
                          /\ born[c].token # None => token'[born[c].token] = "consumed"
      /\ \A s \in Sessions : opened[s] # None => challenge'[opened[s]].state = "consumed"
      /\ \A r \in Requests : Holding(r) => challenge'[req[r].challenge].state = "consumed"
  BY <1>1, <1>4, ConsumedStays DEF BirthType
<1>6. /\ \A c \in Creds : /\ born'[c].challenge # None => challenge'[born'[c].challenge].state = "consumed"
                          /\ born'[c].token # None => token'[born'[c].token] = "consumed"
      /\ \A s \in Sessions : opened'[s] # None => challenge'[opened'[s]].state = "consumed"
  BY <1>5, HistorySteps
<1>7. QED BY <1>3, <1>6 DEF Spent

\* A challenge that a request consumes is held by no other request and was not used.
LEMMA ApartKept == ASSUME Typed, Shaped, Spent, Apart, [Next]_vars PROVE Apart'
<1> SUFFICES ASSUME account' # "erased" PROVE Apart'
  BY DEF Apart
<1>0. account # "erased"
  BY ConsumedStays
<1>1. \A r \in Requests : Holding(r) => req[r].challenge \in Challenges
  BY DEF Shaped, Holding
<1>2. CASE \A q \in Requests : Holding(q)' => Holding(q) /\ req'[q].challenge = req[q].challenge
  <2>1. \A r \in Requests : Holding(r)' =>
            \A q \in Requests : Holding(q)' /\ req'[q].challenge = req'[r].challenge => q = r
    BY <1>0, <1>2 DEF Apart
  <2>2. ASSUME NEW r \in Requests, Holding(r)'
        PROVE  /\ \A c \in Creds : born'[c].challenge # req'[r].challenge
               /\ \A s \in Sessions : opened'[s] # req'[r].challenge
    <3>1. /\ Holding(r) /\ req'[r].challenge = req[r].challenge /\ req[r].challenge # None
          /\ \A c \in Creds : born[c].challenge # req[r].challenge
          /\ \A s \in Sessions : opened[s] # req[r].challenge
          /\ \A q \in Requests : Holding(q) /\ q # r => req[q].challenge # req[r].challenge
      BY <1>0, <1>1, <1>2, <2>2, AdminAuthAssumption DEF Apart
    <3>2. \A q \in Requests : Done(q) => q # r
      BY <2>2, RequestsOver DEF Holding
    <3>3. QED BY <3>1, <3>2, HistorySteps
  <2>3. QED BY <2>1, <2>2 DEF Apart
<1>3. ASSUME NEW r \in Requests, NEW h \in Challenges,
             challenge[h].state = "open", req'[r].challenge = h, UNCHANGED <<account, born, opened>>,
             \A q \in Requests : q # r => req'[q] = req[q]
      PROVE  Apart'
  <2>1. /\ \A q \in Requests : Holding(q) => req[q].challenge # h
        /\ \A c \in Creds : born[c].challenge # h
        /\ \A s \in Sessions : opened[s] # h
    BY <1>0, <1>3, AdminAuthAssumption DEF Spent
  <2>2. QED BY <1>0, <1>3, <2>1 DEF Apart, Holding
<1>4. QED BY <1>2, <1>3, HoldSteps

-----------------------------------------------------------------------------
(* Passkeys and their sessions.                                            *)

\* The steps that change a passkey or a session.
LEMMA PasskeySteps ==
    ASSUME [Next]_vars
    PROVE  \/ Time \/ Erase
           \/ \E r \in Requests : \/ Enrol(r) \/ AddCredential(r) \/ CompleteAuthentication(r)
                                  \/ RevokeCredential(r) \/ RevokeSessions(r)
           \/ UNCHANGED <<cred, session>>
<1>1. CASE Quiet
  BY <1>1 DEF Quiet, Issue, AuthenticationOptions, AdditionalRegistrationOptions, BootstrapRegistrationOptions,
              CreateChallenge, SetUserBan, vars
<1>2. ASSUME NEW r \in Requests, NEW s, NEW op, NEW target, Admit(r, s, op, target) PROVE UNCHANGED <<cred, session>>
  BY <1>2 DEF Admit
<1>3. ASSUME NEW r \in Requests,
             \/ ReadCredential(r) \/ GiveUp(r) \/ \E t \in Tokens : CheckToken(r, t)
             \/ \E h \in Challenges, c \in Creds : ConsumeRegistration(r, h, c) \/ ConsumeLogin(r, h, c)
      PROVE  UNCHANGED <<cred, session>>
  BY <1>3 DEF ReadCredential, GiveUp, CheckToken, ConsumeRegistration, ConsumeLogin
<1>4. QED BY <1>1, <1>2, <1>3, NextCases DEF Ending

\* A login writes the counter of an active passkey, and nothing else of it.
LEMMA CountedPasskey ==
    ASSUME Typed, Shaped, NEW r \in Requests, CompleteAuthentication(r)
    PROVE  LET c == req[r].target IN
           /\ c \in Creds /\ cred[c].state = "active" /\ cred'[c].state = "active"
           /\ cred[c].counter <= cred'[c].counter
           /\ \A d \in Creds : d # c => cred'[d] = cred[d]
<1> DEFINE c == req[r].target
<1>1. c \in Creds /\ cred[c] \in CredType /\ cred[c].counter <= req[r].signed
  BY DEF CompleteAuthentication, Shaped, Typed
<1>2. cred' = [cred EXCEPT ![c].counter = req[r].signed] /\ cred[c].state = "active"
  BY DEF CompleteAuthentication
<1>3. cred \in [Creds -> CredType]
  BY DEF Typed
<1> HIDE DEF c
<1>4. /\ cred'[c].state = "active" /\ cred'[c].counter = req[r].signed
      /\ \A d \in Creds : d # c => cred'[d] = cred[d]
  BY <1>1, <1>2, <1>3 DEF CredType
<1>5. QED BY <1>1, <1>2, <1>4 DEF c

\* A revocation takes the passkey, and the sessions other than the one that asked.
LEMMA RevokedPasskey ==
    ASSUME Typed, Shaped, NEW r \in Requests, RevokeCredential(r)
    PROVE  LET c == req[r].target IN
           /\ c \in Creds /\ cred[c].state = "active" /\ cred'[c].state = "revoked"
           /\ \A d \in Creds : d # c => cred'[d] = cred[d]
           /\ \E d \in Creds : d # c /\ cred[d].state = "active"
           /\ session' = Revoked(Sessions \ {req[r].session})
<1> DEFINE c == req[r].target
<1>1. c \in Active /\ Cardinality(Active) > 1 /\ cred' = [cred EXCEPT ![c].state = "revoked"]
      /\ session' = Revoked(Sessions \ {req[r].session})
  BY DEF RevokeCredential
<1>2. c \in Creds /\ cred[c].state = "active" /\ cred \in [Creds -> CredType]
  BY <1>1 DEF Active, Typed
<1>3. \E d \in Creds : d # c /\ cred[d].state = "active"
  <2>1. SUFFICES ASSUME \A d \in Creds : cred[d].state = "active" => d = c PROVE FALSE
    OBVIOUS
  <2>2. Active = {c}
    BY <1>1, <2>1 DEF Active
  <2>3. Cardinality(Active) = 1
    BY <2>2, FS_Singleton
  <2>4. Cardinality(Active) > 1
    BY <1>1
  <2>5. QED BY <2>3, <2>4
<1> HIDE DEF c
<1>4. cred'[c].state = "revoked" /\ \A d \in Creds : d # c => cred'[d] = cred[d]
  BY <1>1, <1>2 DEF CredType
<1>5. QED BY <1>1, <1>2, <1>3, <1>4 DEF c

\* Both revocations leave to each session its row and its passkey.
LEMMA RevokingSteps ==
    ASSUME Typed, NEW r \in Requests, RevokeCredential(r) \/ RevokeSessions(r), NEW s \in Sessions
    PROVE  /\ session'[s].cred = session[s].cred
           /\ session'[s].state = "none" <=> session[s].state = "none"
           /\ session'[s].state = "live" => session[s].state = "live"
<1>1. CASE RevokeCredential(r)
  BY <1>1, RevokedSessions DEF RevokeCredential
<1>2. CASE RevokeSessions(r)
  <2> DEFINE S == CASE req[r].op = "logout" -> {req[r].session}
                    [] req[r].op = "others" -> Sessions \ {req[r].session}
                    [] OTHER -> {req[r].target}
  <2>1. session' = Revoked(S)
    BY <1>2 DEF RevokeSessions
  <2> HIDE DEF S
  <2>2. QED BY <2>1, RevokedSessions
<1>3. QED BY <1>1, <1>2

\* No session outlives its passkey.
LEMMA BoundKept == ASSUME Typed, Shaped, Bound, Spares, Gone, [Next]_vars PROVE Bound'
<1> USE DEF Bound
<1>1. CASE Time
  BY <1>1, Expiries DEF Time
<1>2. CASE Erase
  BY <1>2 DEF Erase, NoSession
<1>3. ASSUME NEW r \in Requests, Enrol(r) PROVE Bound'
  <2>1. req[r].pc = "consumed" /\ req[r].target \in Creds
    BY <1>3 DEF Enrol, Shaped
  <2>2. QED BY <1>3, <2>1, InsertedCredential, InsertedSession DEF Enrol
<1>4. ASSUME NEW r \in Requests, AddCredential(r) PROVE Bound'
  <2>1. req[r].pc = "consumed" /\ req[r].target \in Creds
    BY <1>4 DEF AddCredential, Shaped
  <2>2. QED BY <1>4, <2>1, InsertedCredential DEF AddCredential
<1>5. ASSUME NEW r \in Requests, CompleteAuthentication(r) PROVE Bound'
  <2>1. InsertSession(r, req[r].target)
    BY <1>5 DEF CompleteAuthentication
  <2>2. QED BY <1>5, <2>1, CountedPasskey, InsertedSession
<1>6. ASSUME NEW r \in Requests, RevokeCredential(r) PROVE Bound'
  <2> DEFINE c == req[r].target
             o == req[r].session
  <2>1. o \in Sessions /\ req[r].pc = "admitted" /\ req[r].op = "revoke"
    BY <1>6 DEF RevokeCredential, Shaped
  <2>2. account # "erased"
    BY <1>6, RevokedPasskey DEF Gone
  <2>3. session[o].cred # c
    BY <2>1, <2>2 DEF Spares
  <2>4. \A s \in Sessions : /\ session'[s].cred = session[s].cred
                            /\ session'[s].state = "none" <=> session[s].state = "none"
                            /\ session'[s].state = "live" <=> session[s].state = "live" /\ s = o
    <3>1. session' = Revoked(Sessions \ {o})
      BY <1>6 DEF RevokeCredential
    <3>2. QED BY <3>1, RevokedSessions
  <2>5. /\ c \in Creds /\ cred[c].state = "active"
        /\ \A d \in Creds : d # c => cred'[d] = cred[d]
    BY <1>6, RevokedPasskey
  <2> HIDE DEF c, o
  <2>6. QED BY <2>1, <2>3, <2>4, <2>5
<1>7. ASSUME NEW r \in Requests, RevokeSessions(r) PROVE Bound'
  BY <1>7, RevokingSteps DEF RevokeSessions
<1>8. CASE UNCHANGED <<cred, session>>
  BY <1>8
<1>9. QED BY <1>1, <1>2, <1>3, <1>4, <1>5, <1>6, <1>7, <1>8, PasskeySteps

\* A session that is there keeps its row and its passkey until it is purged, which
\* no request that names it lives to see.
LEMMA SessionsStay ==
    ASSUME Typed, Shaped, [Next]_vars, account' # "erased", NEW s \in Sessions, session[s].state # "none",
           NEW r \in Requests, req[r].session = s
    PROVE  session'[s].state # "none" /\ session'[s].cred = session[s].cred
<1>1. CASE Time
  BY <1>1, Expiries
<1>2. CASE Erase
  BY <1>2 DEF Erase
<1>3. ASSUME NEW q \in Requests, NEW c \in Creds, InsertSession(q, c)
      PROVE  session'[s].state # "none" /\ session'[s].cred = session[s].cred
  BY <1>3, InsertedSession
<1>4. ASSUME NEW q \in Requests, Enrol(q) \/ CompleteAuthentication(q)
      PROVE  session'[s].state # "none" /\ session'[s].cred = session[s].cred
  BY <1>3, <1>4 DEF Enrol, CompleteAuthentication, Shaped
<1>5. ASSUME NEW q \in Requests, RevokeCredential(q) \/ RevokeSessions(q)
      PROVE  session'[s].state # "none" /\ session'[s].cred = session[s].cred
  BY <1>5, RevokingSteps
<1>6. ASSUME NEW q \in Requests, AddCredential(q) PROVE UNCHANGED session
  BY <1>6 DEF AddCredential
<1>7. QED BY <1>1, <1>2, <1>4, <1>5, <1>6, PasskeySteps

\* The session that asks to revoke a passkey stays the one of another passkey.
LEMMA SparesKept == ASSUME Typed, Shaped, Spares, Bound, [Next]_vars PROVE Spares'
<1> DEFINE Revoking(q) == q.pc = "admitted" /\ q.op = "revoke"
           Spared(q) == session[q.session].state # "none" /\ session[q.session].cred # q.target
<1> SUFFICES ASSUME account' # "erased", NEW q \in Requests, Revoking(req'[q])
             PROVE  /\ session'[req'[q].session].state # "none"
                    /\ session'[req'[q].session].cred # req'[q].target
  BY DEF Spares
<1>1. CASE req'[q] = req[q]
  <2>1. req[q].session \in Sessions /\ Spared(req[q])
    BY <1>1, ConsumedStays DEF Shaped, Spares
  <2>2. QED BY <1>1, <2>1, SessionsStay
<1>2. ASSUME NEW s \in Sessions, NEW op, NEW target, Admit(q, s, op, target)
      PROVE  /\ session'[req'[q].session].state # "none"
             /\ session'[req'[q].session].cred # req'[q].target
  <2>1. op = "revoke" /\ req'[q].session = s /\ req'[q].target = target
    BY <1>2, RequestSteps
  <2>2. session' = session /\ session[s].state = "live" /\ target # session[s].cred
    BY <1>2, <2>1 DEF Admit, Accepted
  <2>3. QED BY <2>1, <2>2
<1>3. ASSUME NEW r \in Requests, NEW rec, Goto(r, rec), ~Revoking(req'[r]) PROVE req'[q] = req[q]
  BY <1>3, OtherRequests
<1>4. CASE Quiet
  BY <1>1, <1>4, QuietSteps
<1>5. ASSUME NEW r \in Requests, Ending(r) PROVE req'[q] = req[q]
  BY <1>5, EndingSteps, RequestsOver
<1>6. ASSUME NEW r \in Requests, ReadCredential(r) PROVE req'[q] = req[q]
  BY <1>3, <1>6, RequestSteps DEF ReadCredential
<1>7. ASSUME NEW r \in Requests, NEW t \in Tokens, CheckToken(r, t) PROVE req'[q] = req[q]
  BY <1>3, <1>7, RequestSteps DEF CheckToken
<1>8. ASSUME NEW r \in Requests, NEW h \in Challenges, NEW c \in Creds,
             ConsumeRegistration(r, h, c) \/ ConsumeLogin(r, h, c)
      PROVE  req'[q] = req[q]
  <2>1. ~Revoking(req'[r])
    BY <1>8, RequestSteps
  <2>2. QED BY <1>3, <1>8, <2>1 DEF ConsumeRegistration, ConsumeLogin
<1>9. ASSUME NEW r \in Requests, r # q, NEW s \in Sessions, NEW op, NEW target, Admit(r, s, op, target)
      PROVE  req'[q] = req[q]
  BY <1>9, OtherRequests DEF Admit
<1> HIDE DEF Revoking
<1>10. QED BY <1>1, <1>2, <1>4, <1>5, <1>6, <1>7, <1>8, <1>9, NextCases

\* Nothing is written for an account that was erased.
LEMMA GoneKept == ASSUME Typed, Shaped, Gone, [Next]_vars PROVE Gone'
<1>1. CASE Erase
  BY <1>1 DEF Erase, Gone, NoSession
<1>2. CASE account = "erased" /\ ~Erase
  <2>1. /\ \A c \in Creds : cred[c].state = "none" /\ born[c] = Unborn
        /\ \A s \in Sessions : session[s].state = "none" /\ opened[s] = None
    BY <1>2 DEF Gone
  <2>2. \A r \in Requests : ~Enrol(r) /\ ~AddCredential(r) /\ ~CompleteAuthentication(r)
    BY <1>2 DEF Enrol, TokenValid, AddCredential, CompleteAuthentication
  <2>3. \A r \in Requests : ~RevokeCredential(r)
    BY <2>1 DEF RevokeCredential, Active
  <2>4. CASE Time
    BY <2>1, <2>4, Expiries DEF Time, Gone
  <2>5. ASSUME NEW r \in Requests, RevokeSessions(r) PROVE Gone'
    BY <2>1, <2>5, RevokingSteps DEF RevokeSessions, Gone
  <2>6. CASE Quiet /\ ~Time
    BY <2>1, <2>6, <1>2 DEF Quiet, Issue, AuthenticationOptions, AdditionalRegistrationOptions,
       BootstrapRegistrationOptions, CreateChallenge, SetUserBan, vars, Gone
  <2>7. ASSUME UNCHANGED <<cred, born, session, opened>> PROVE Gone'
    BY <2>1, <2>7 DEF Gone
  <2>8. ASSUME NEW r \in Requests, NEW s, NEW op, NEW target, Admit(r, s, op, target) PROVE Gone'
    BY <2>7, <2>8 DEF Admit
  <2>9. ASSUME NEW r \in Requests,
               \/ ReadCredential(r) \/ GiveUp(r) \/ \E t \in Tokens : CheckToken(r, t)
               \/ \E h \in Challenges, c \in Creds : ConsumeRegistration(r, h, c) \/ ConsumeLogin(r, h, c)
        PROVE  Gone'
    BY <2>7, <2>9 DEF ReadCredential, GiveUp, CheckToken, ConsumeRegistration, ConsumeLogin
  <2>10. QED BY <2>2, <2>3, <2>4, <2>5, <2>6, <2>8, <2>9, NextCases DEF Ending
<1>3. CASE account # "erased" /\ ~Erase
  <2>1. account' # "erased"
    <3>1. ASSUME NEW r \in Requests, NEW s, NEW op, NEW target, Admit(r, s, op, target) PROVE account' = account
      BY <3>1 DEF Admit
    <3>2. ASSUME NEW r \in Requests,
               \/ Ending(r) \/ ReadCredential(r) \/ \E t \in Tokens : CheckToken(r, t)
               \/ \E h \in Challenges, c \in Creds : ConsumeRegistration(r, h, c) \/ ConsumeLogin(r, h, c)
          PROVE  account' = account
      BY <3>2 DEF Ending, ReadCredential, GiveUp, CheckToken, ConsumeRegistration, ConsumeLogin, Enrol,
                  AddCredential, CompleteAuthentication, RevokeCredential, RevokeSessions
    <3>3. CASE Quiet
      BY <3>3, <1>3 DEF Quiet, Issue, AuthenticationOptions, AdditionalRegistrationOptions,
         BootstrapRegistrationOptions, CreateChallenge, Time, SetUserBan, vars
    <3>4. QED BY <1>3, <3>1, <3>2, <3>3, NextCases
  <2>2. QED BY <2>1 DEF Gone
<1>4. QED BY <1>1, <1>2, <1>3

\* A challenge and a token are used once.
LEMMA UsedOnceKept ==
    ASSUME Typed, Shaped, Spent, Apart, UsedOnce, Gone', [Next]_vars PROVE UsedOnce'
<1>1. CASE account' = "erased"
  BY <1>1 DEF Gone, UsedOnce, Unborn
<1>2. CASE account' # "erased"
  <2>0. account # "erased"
    BY <1>2, ConsumedStays
  <2>1. ASSUME NEW r \in Requests, Holding(r),
               \A s \in Sessions : \/ opened'[s] = opened[s]
                                   \/ /\ opened'[s] = req[r].challenge
                                      /\ \A o \in Sessions : o # s => opened'[o] = opened[o]
        PROVE  \A s1, s2 \in Sessions : s1 # s2 /\ opened'[s1] = opened'[s2] => opened'[s1] = None
    <3>1. \A s \in Sessions : opened[s] # req[r].challenge
      BY <2>0, <2>1 DEF Apart
    <3>2. QED BY <2>1, <3>1 DEF UsedOnce
  <2>2. ASSUME NEW r \in Requests, Holding(r),
               \A c \in Creds : \/ born'[c] = born[c]
                                \/ /\ born'[c].challenge = req[r].challenge /\ born'[c].token = req[r].token
                                   /\ req[r].token # None => token[req[r].token] = "active"
                                   /\ \A d \in Creds : d # c => born'[d] = born[d]
        PROVE  \A c1, c2 \in Creds : c1 # c2 =>
                 /\ born'[c1].challenge = born'[c2].challenge => born'[c1].challenge = None
                 /\ born'[c1].token = born'[c2].token => born'[c1].token = None
    <3>1. \A c \in Creds : /\ born[c].challenge # req[r].challenge
                           /\ born[c].token # None => token[born[c].token] = "consumed"
      BY <2>0, <2>2 DEF Apart, Spent
    <3>2. QED BY <2>2, <3>1 DEF UsedOnce
  <2>3. ASSUME born' = born, \A s \in Sessions : opened'[s] = opened[s] \/ opened'[s] = None PROVE UsedOnce'
    BY <2>3 DEF UsedOnce
  <2>4. QED BY <1>2, <2>1, <2>2, <2>3, HistorySteps DEF UsedOnce
<1>3. QED BY <1>1, <1>2

-----------------------------------------------------------------------------
(* The theorems.                                                           *)

\* The inductive invariant holds in every state.
LEMMA Invariance == Spec => []IInv
<1>1. Init => IInv
  <2> SUFFICES ASSUME Init PROVE IInv
    OBVIOUS
  <2> USE DEF Init
  <2>1. Typed
    <3>1. NoSession \in SessionType /\ NoChallenge \in ChallengeType /\ Unborn \in BirthType
          /\ [state |-> "none", counter |-> 0] \in CredType
      BY AdminAuthAssumption DEF NoSession, NoChallenge, Unborn, SessionType, ChallengeType, BirthType, CredType
    <3>2. signed \in [Creds -> 0..MaxCounter]
      BY AdminAuthAssumption
    <3>3. QED BY <3>1, <3>2, IdleRequest DEF Typed
  <2>2. OneToken
    BY DEF OneToken, Usable
  <2>3. Shaped /\ Spares
    BY IdleRequest DEF Shaped, Spares
  <2>4. Spent /\ Apart
    BY IdleRequest DEF Spent, Apart, Holding, Unborn
  <2>5. Bound /\ Gone /\ UsedOnce
    BY DEF Bound, Gone, UsedOnce, NoSession, Unborn
  <2>6. QED BY <2>1, <2>2, <2>3, <2>4, <2>5 DEF IInv
<1>2. IInv /\ [Next]_vars => IInv'
  <2> SUFFICES ASSUME IInv, [Next]_vars PROVE IInv'
    OBVIOUS
  <2> USE DEF IInv
  <2>1. Typed' /\ OneToken' /\ Shaped'
    BY TypesKept, OneTokenKept, ShapesKept
  <2>2. Spent' /\ Apart'
    BY SpentKept, ApartKept
  <2>3. Bound' /\ Spares' /\ Gone'
    BY BoundKept, SparesKept, GoneKept
  <2>4. UsedOnce'
    BY <2>3, UsedOnceKept
  <2>5. QED BY <2>1, <2>2, <2>3, <2>4
<1>3. QED BY <1>1, <1>2, PTL DEF Spec

\* One enrolment token is usable at most; a challenge is good for one passkey or one
\* session, and a token for one passkey, however many requests carry them at once;
\* and no session is left with a passkey that was revoked.
THEOREM AdministratorSafe == Spec => []AdminConsistent
<1>1. IInv => AdminConsistent
  <2>1. Bound => NoSessionOutlivesCredential
    BY DEF Bound, NoSessionOutlivesCredential, LiveSessions
  <2>2. QED BY <2>1, TypeParts DEF IInv, AdminConsistent
<1>2. QED BY <1>1, Invariance, PTL

\* Sessions that revoke the passkeys of each other leave one, and logins that
\* overtake each other do not take a counter back.
THEOREM LastPasskeyKept == Spec => PasskeysKept
<1>1. IInv /\ [Next]_vars => [Active # {} /\ account' # "erased" => Active' # {}]_vars
  <2> SUFFICES ASSUME IInv, [Next]_vars, Active # {}, account' # "erased" PROVE Active' # {}
    OBVIOUS
  <2> USE DEF IInv
  <2>1. PICK c \in Creds : cred[c].state = "active"
    BY DEF Active
  <2>2. SUFFICES \E d \in Creds : cred'[d].state = "active"
    BY DEF Active
  <2>3. ASSUME NEW r \in Requests, Enrol(r) \/ AddCredential(r) PROVE cred'[c].state = "active"
    BY <2>1, <2>3, InsertedCredential DEF Enrol, AddCredential, Shaped
  <2>4. ASSUME NEW r \in Requests, CompleteAuthentication(r) PROVE cred'[c].state = "active"
    BY <2>1, <2>4, CountedPasskey
  <2>5. ASSUME NEW r \in Requests, RevokeCredential(r) PROVE \E d \in Creds : cred'[d].state = "active"
    BY <2>5, RevokedPasskey
  <2>6. ASSUME NEW r \in Requests, RevokeSessions(r) PROVE cred' = cred
    BY <2>6 DEF RevokeSessions
  <2>7. CASE Time
    BY <2>1, <2>7 DEF Time
  <2>8. CASE Erase
    BY <2>8 DEF Erase
  <2>9. QED BY <2>1, <2>3, <2>4, <2>5, <2>6, <2>7, <2>8, PasskeySteps
<1>2. IInv /\ [Next]_vars =>
        [\A c \in Creds : cred[c].state = "active" /\ cred'[c].state = "active" => cred'[c].counter >= cred[c].counter]_vars
  <2> SUFFICES ASSUME IInv, [Next]_vars, NEW c \in Creds, cred[c].state = "active", cred'[c].state = "active"
               PROVE  cred'[c].counter >= cred[c].counter
    OBVIOUS
  <2> USE DEF IInv
  <2>0. cred[c].counter \in Nat /\ cred'[c].counter \in Nat
    BY TypesKept, AdminAuthAssumption DEF Typed, CredType
  <2>1. ASSUME cred'[c] = cred[c] PROVE cred'[c].counter >= cred[c].counter
    BY <2>0, <2>1
  <2>2. ASSUME NEW r \in Requests, Enrol(r) \/ AddCredential(r) PROVE cred'[c] = cred[c]
    BY <2>2, InsertedCredential DEF Enrol, AddCredential, Shaped
  <2>3. ASSUME NEW r \in Requests, CompleteAuthentication(r) PROVE cred'[c].counter >= cred[c].counter
    BY <2>0, <2>3, CountedPasskey
  <2>4. ASSUME NEW r \in Requests, RevokeCredential(r) PROVE cred'[c] = cred[c]
    BY <2>4, RevokedPasskey
  <2>5. ASSUME NEW r \in Requests, RevokeSessions(r) PROVE cred' = cred
    BY <2>5 DEF RevokeSessions
  <2>6. CASE Time
    BY <2>1, <2>6 DEF Time
  <2>7. CASE Erase
    BY <2>7 DEF Erase
  <2>8. QED BY <2>1, <2>2, <2>3, <2>4, <2>5, <2>6, <2>7, PasskeySteps
<1>3. QED BY <1>1, <1>2, Invariance, PTL DEF Spec, PasskeysKept, LastCredentialKept, CounterNeverFalls

-----------------------------------------------------------------------------
(* ContentModeration.                                                      *)

\* The types of a case and of what an administrator has on the screen.
CaseType == [source: Content!Sources \cup {None}, status: {"none", "pending", "approved", "rejected", "gone"},
             version: 0..MaxVersion]

ScreenType == [case: Cases \cup {None}, version: 0..MaxVersion, text: Texts \cup {NoText}]

\* Every variable has its type.
ContentTyped ==
    /\ owner \in {"open", "closed", "erased"} /\ question \subseteq Questions
    /\ text \in [Content!Sources -> Texts \cup {NoText}] /\ case \in [Cases -> CaseType]
    /\ open \in [Admins -> ScreenType] /\ seen \in [Cases -> Texts \cup {NoText}]

\* The unique indexes on the source, and a case that is not used has none.
OneCase ==
    /\ \A c, d \in Cases : case[c].source = case[d].source /\ case[c].source # None => c = d
    /\ \A c \in Cases : case[c].status = "none" => case[c].source = None

\* A screen whose version is that of the case shows the text of the case.
ScreenCurrent(s) ==
    s.case # None =>
      /\ case[s.case].status # "none" /\ s.version <= case[s.case].version
      /\ case[s.case].source # None /\ s.version = case[s.case].version => s.text = text[case[s.case].source]

\* The inductive invariant of ContentModeration.
ContentInv ==
    /\ ContentTyped /\ OneCase /\ (\A a \in Admins : ScreenCurrent(open[a]))
    /\ Content!StatusEarned /\ Content!EveryTextHasACase

\* The source of a text is the bio or a question, and neither stands for nothing.
ContentNames ==
    /\ MaxVersion \in Nat \ {0} /\ NoText \notin Texts
    /\ "bio" \notin Questions /\ None \notin Questions \cup {"bio"}

\* A case without a source is told from one of the bio.
LEMMA SourceNames == ASSUME ContentNames PROVE None \notin Content!Sources /\ Content!Bio \in Content!Sources
BY DEF ContentNames, Content!Sources, Content!Bio

-----------------------------------------------------------------------------
\* What a step may do to a case: leave it and its text alone, remove it, start it
\* again for a new text, insert it, or decide on it.
CaseStays(c) ==
    /\ case'[c] = case[c] /\ seen'[c] = seen[c]
    /\ case[c].source # None => text'[case[c].source] = text[case[c].source]

\* The source is deleted, and its case with it.
CaseGone(c) == case'[c].source = None /\ case'[c].status = "gone" /\ case'[c].version = case[c].version

\* The text is replaced, and its case starts again.
CaseAgain(c) ==
    /\ case'[c].source = case[c].source /\ case'[c].version = case[c].version + 1
    /\ case[c].source # None /\ case'[c].status = Content!Analyze(text'[case[c].source])

\* A text without a case gets one.
CaseNew(c) ==
    /\ case[c].status = "none" /\ case'[c].status = Content!Analyze(text'[case'[c].source])
    /\ case'[c].source # None

\* An administrator decides on the case.
CaseDecided(c) ==
    /\ case'[c].source = case[c].source /\ case'[c].version = case[c].version + 1
    /\ case[c].source # None /\ text'[case[c].source] = text[case[c].source] /\ seen'[c] = text[case[c].source]
    /\ case'[c].status # "none"

\* One of these.
CaseStep(c) == CaseStays(c) \/ CaseGone(c) \/ CaseAgain(c) \/ CaseNew(c) \/ CaseDecided(c)

\* analyze never leaves a case unused.
LEMMA Analyzed == \A t : Content!Analyze(t) \in {"pending", "approved"}
BY DEF Content!Analyze

\* A screen whose version is still that of the case still shows its text.
LEMMA ScreenKept ==
    ASSUME ContentNames, ContentTyped, ContentTyped', NEW s \in ScreenType, ScreenCurrent(s),
           \A c \in Cases : CaseStep(c), s.case \in Cases
    PROVE  s.case # None => /\ case'[s.case].status # "none" /\ s.version <= case'[s.case].version
                            /\ case'[s.case].source # None /\ s.version = case'[s.case].version =>
                                 s.text = text'[case'[s.case].source]
<1> DEFINE c == s.case
<1>1. SUFFICES ASSUME c # None
               PROVE  /\ case'[c].status # "none" /\ s.version <= case'[c].version
                      /\ case'[c].source # None /\ s.version = case'[c].version => s.text = text'[case'[c].source]
  OBVIOUS
<1>2. /\ c \in Cases /\ s.version \in Nat /\ case[c].version \in Nat /\ case[c].status # "none"
      /\ s.version <= case[c].version
      /\ case[c].source # None /\ s.version = case[c].version => s.text = text[case[c].source]
  BY <1>1 DEF ScreenCurrent, ScreenType, ContentTyped, CaseType, ContentNames
<1> HIDE DEF c
<1>3. CASE CaseStays(c)
  BY <1>2, <1>3 DEF CaseStays
<1>4. CASE CaseGone(c)
  BY <1>2, <1>4 DEF CaseGone
<1>5. CASE CaseAgain(c) \/ CaseDecided(c)
  <2>1. s.version < case'[c].version /\ s.version <= case'[c].version
    BY <1>2, <1>5 DEF CaseAgain, CaseDecided
  <2>2. case'[c].status # "none"
    BY <1>5, Analyzed DEF CaseAgain, CaseDecided
  <2>3. s.version # case'[c].version
    BY <1>2, <1>5 DEF CaseAgain, CaseDecided
  <2>4. QED BY <2>1, <2>2, <2>3
<1>6. CASE CaseNew(c)
  BY <1>2, <1>6 DEF CaseNew
<1>7. QED BY <1>2, <1>3, <1>4, <1>5, <1>6 DEF CaseStep

\* A status still comes from the rules or from one who has read the text.
LEMMA EarnedKept ==
    ASSUME ContentNames, Content!StatusEarned, OneCase, \A c \in Cases : CaseStep(c)
    PROVE  Content!StatusEarned'
<1>1. SUFFICES ASSUME NEW c \in Cases, case'[c].source # None
               PROVE  seen'[c] = text'[case'[c].source] \/ case'[c].status = Content!Analyze(text'[case'[c].source])
  BY DEF Content!StatusEarned, Content!Analyze
<1>2. CASE CaseStays(c)
  BY <1>1, <1>2 DEF CaseStays, Content!StatusEarned
<1>3. CASE CaseGone(c)
  BY <1>1, <1>3 DEF CaseGone
<1>4. CASE CaseAgain(c)
  BY <1>4 DEF CaseAgain
<1>5. CASE CaseNew(c)
  BY <1>5 DEF CaseNew
<1>6. CASE CaseDecided(c)
  BY <1>6 DEF CaseDecided
<1>7. QED BY <1>2, <1>3, <1>4, <1>5, <1>6 DEF CaseStep

\* A step that does one of these to every case keeps the invariant, given that
\* every text has its case.
LEMMA ContentKept ==
    ASSUME ContentNames, ContentInv, ContentTyped', OneCase', Content!EveryTextHasACase',
           \A c \in Cases : CaseStep(c),
           \A a \in Admins : open'[a] = open[a] \/ open'[a] = Content!Closed
    PROVE  ContentInv'
<1>1. ASSUME NEW a \in Admins PROVE ScreenCurrent(open[a])'
  <2>1. CASE open'[a].case = None
    BY <2>1 DEF ScreenCurrent
  <2>2. CASE open'[a].case # None
    <3>1. open'[a] = open[a] /\ open[a] \in ScreenType /\ open[a].case \in Cases
      BY <2>2 DEF Content!Closed, ContentInv, ContentTyped, ScreenType
    <3>2. ScreenCurrent(open[a])
      BY DEF ContentInv
    <3>3. QED
      BY <3>1, <3>2, ScreenKept DEF ScreenCurrent, ContentInv
  <2>3. QED BY <2>1, <2>2
<1>2. Content!StatusEarned'
  BY EarnedKept DEF ContentInv
<1>3. QED BY <1>1, <1>2 DEF ContentInv

-----------------------------------------------------------------------------
\* The cases of some sources go with their texts.
LEMMA SourcesRemoved ==
    ASSUME ContentNames, ContentInv, NEW S \in SUBSET Content!Sources,
           owner' \in {"open", "closed", "erased"}, question' \subseteq Questions,
           text' = [s \in Content!Sources |-> IF s \in S THEN NoText ELSE text[s]],
           case' = [c \in Cases |-> IF case[c].source \in S THEN Content!Gone(case[c]) ELSE case[c]],
           UNCHANGED <<open, seen>>
    PROVE  ContentInv'
<1>1. ASSUME NEW c \in Cases
      PROVE  /\ case'[c] \in CaseType
             /\ case[c].source \in S => CaseGone(c)
             /\ case[c].source \notin S => case'[c] = case[c]
  <2>1. case[c] \in CaseType /\ case'[c] = IF case[c].source \in S THEN Content!Gone(case[c]) ELSE case[c]
    BY DEF ContentInv, ContentTyped
  <2>2. CASE case[c].source \in S
    BY <2>1, <2>2 DEF Content!Gone, CaseType, CaseGone
  <2>3. QED BY <2>1, <2>2
<1>2. ContentTyped'
  <2>1. text' \in [Content!Sources -> Texts \cup {NoText}]
    BY DEF ContentInv, ContentTyped
  <2>2. case' \in [Cases -> CaseType]
    BY <1>1, Zenon
  <2>3. QED BY <2>1, <2>2 DEF ContentInv, ContentTyped, CaseType, ScreenType, Content!Sources
<1>3. ASSUME NEW c \in Cases PROVE CaseStep(c)
  <2>1. CASE case[c].source \in S
    BY <1>1, <2>1 DEF CaseStep
  <2>2. CASE case[c].source \notin S
    <3>1. case[c].source \in Content!Sources \cup {None}
      BY DEF ContentInv, ContentTyped, CaseType
    <3>2. case[c].source # None => text'[case[c].source] = text[case[c].source]
      BY <3>1, <2>2
    <3>3. QED BY <1>1, <2>2, <3>2 DEF CaseStays, CaseStep
  <2>3. QED BY <2>1, <2>2
<1>4. \A c \in Cases : /\ case'[c].source # None => case'[c] = case[c]
                       /\ case'[c].status = "none" => case'[c] = case[c]
  BY <1>1 DEF CaseGone
<1>5. OneCase'
  BY <1>4 DEF OneCase, ContentInv
<1>6. Content!EveryTextHasACase'
  <2>1. SUFFICES ASSUME NEW s \in Content!Sources
                 PROVE  text'[s] # NoText <=> \E c \in Cases : case'[c].source = s
    BY DEF Content!EveryTextHasACase, Content!CasesOf, Content!Sources, Content!Bio
  <2>2. text[s] # NoText <=> \E c \in Cases : case[c].source = s
    BY DEF ContentInv, Content!EveryTextHasACase, Content!CasesOf
  <2>3. CASE s \in S
    <3>1. \A c \in Cases : case'[c].source # s
      <4>1. SUFFICES ASSUME NEW c \in Cases, case'[c].source = s PROVE FALSE
        OBVIOUS
      <4>2. case'[c] = case[c]
        BY <4>1, <1>4, SourceNames
      <4>3. CaseGone(c)
        BY <4>1, <4>2, <2>3, <1>1
      <4>4. QED BY <4>1, <4>3, SourceNames DEF CaseGone
    <3>2. text'[s] = NoText
      BY <2>3
    <3>3. QED BY <3>1, <3>2
  <2>4. CASE s \notin S
    <3>1. text'[s] = text[s]
      BY <2>4
    <3>2. \A c \in Cases : case'[c].source = s <=> case[c].source = s
      <4>1. SUFFICES ASSUME NEW c \in Cases PROVE case'[c].source = s <=> case[c].source = s
        OBVIOUS
      <4>2. CASE case[c].source \in S
        BY <4>2, <1>1, <2>4, SourceNames DEF CaseGone
      <4>3. CASE case[c].source \notin S
        BY <4>3, <1>1
      <4>4. QED BY <4>2, <4>3
    <3>3. QED BY <2>2, <3>1, <3>2
  <2>5. QED BY <2>3, <2>4
<1>7. QED BY <1>2, <1>3, <1>5, <1>6, ContentKept

\* upsertProfile with an empty bio.
LEMMA BioRemoved ==
    ASSUME ContentNames, ContentInv, Content!UpsertBio(NoText)
    PROVE  ContentInv'
<1>1. text' = [s \in Content!Sources |-> IF s \in {Content!Bio} THEN NoText ELSE text[s]]
  BY SourceNames DEF Content!UpsertBio, ContentInv, ContentTyped
<1>2. case' = [c \in Cases |-> IF case[c].source \in {Content!Bio} THEN Content!Gone(case[c]) ELSE case[c]]
  BY DEF Content!UpsertBio, Content!CasesOf
<1>3. /\ owner' \in {"open", "closed", "erased"} /\ question' \subseteq Questions /\ UNCHANGED <<open, seen>>
  BY DEF Content!UpsertBio, ContentInv, ContentTyped
<1>4. {Content!Bio} \in SUBSET Content!Sources
  BY SourceNames
<1>5. QED BY <1>1, <1>2, <1>3, <1>4, SourcesRemoved

\* The deletion of a question by an administrator.
LEMMA QuestionDeleted ==
    ASSUME ContentNames, ContentInv, NEW q \in Questions, Content!DeleteQuestion(q)
    PROVE  ContentInv'
<1>1. {q} \in SUBSET Content!Sources
  BY DEF Content!Sources
<1>2. text' = [s \in Content!Sources |-> IF s \in {q} THEN NoText ELSE text[s]]
  BY <1>1 DEF Content!DeleteQuestion, ContentInv, ContentTyped
<1>3. case' = [c \in Cases |-> IF case[c].source \in {q} THEN Content!Gone(case[c]) ELSE case[c]]
  BY DEF Content!DeleteQuestion, Content!CasesOf
<1>4. /\ owner' \in {"open", "closed", "erased"} /\ question' \subseteq Questions /\ UNCHANGED <<open, seen>>
  BY DEF Content!DeleteQuestion, ContentInv, ContentTyped
<1>5. QED BY <1>1, <1>2, <1>3, <1>4, SourcesRemoved

\* The erasure of the account.
LEMMA ProfileDeleted ==
    ASSUME ContentNames, ContentInv, Content!Anonymize
    PROVE  ContentInv'
<1>1. text' = [s \in Content!Sources |-> IF s \in Content!Sources THEN NoText ELSE text[s]]
  BY DEF Content!Anonymize
<1>2. \A c \in Cases : case[c].source # None <=> case[c].source \in Content!Sources
  BY SourceNames DEF ContentInv, ContentTyped, CaseType
<1>3. case' = [c \in Cases |-> IF case[c].source \in Content!Sources THEN Content!Gone(case[c]) ELSE case[c]]
  BY <1>2 DEF Content!Anonymize
<1>4. /\ owner' \in {"open", "closed", "erased"} /\ question' \subseteq Questions /\ UNCHANGED <<open, seen>>
  BY DEF Content!Anonymize, ContentInv, ContentTyped
<1>5. QED BY <1>1, <1>3, <1>4, SourcesRemoved

-----------------------------------------------------------------------------
\* The owner writes a bio, or answers.
LEMMA BioRewritten ==
    ASSUME ContentNames, ContentInv, NEW t \in Texts, Content!UpsertBio(t), t # text[Content!Bio],
           Content!CasesOf(Content!Bio) # {}
    PROVE  ContentInv'
<1> DEFINE Mine == Content!CasesOf(Content!Bio)
<1>1. /\ case' = [c \in Cases |-> IF c \in Mine
                                  THEN [case[c] EXCEPT !.status = Content!Analyze(t), !.version = @ + 1] ELSE case[c]]
      /\ seen' = [c \in Cases |-> IF c \in Mine THEN NoText ELSE seen[c]]
      /\ \A c \in Mine : case[c].version < MaxVersion
      /\ text' = [text EXCEPT ![Content!Bio] = t] /\ UNCHANGED <<owner, question, open>>
  BY DEF Content!UpsertBio, ContentNames
<1>2. \A c \in Cases : c \in Mine <=> case[c].source = Content!Bio
  BY DEF Content!CasesOf
<1> HIDE DEF Mine
<1>3. \A s \in Content!Sources : text'[s] = IF s = Content!Bio THEN t ELSE text[s]
  BY <1>1 DEF ContentInv, ContentTyped
<1>4. ASSUME NEW c \in Cases
      PROVE  /\ case'[c] \in CaseType /\ case'[c].source = case[c].source
             /\ case'[c].status = "none" => case'[c] = case[c]
             /\ CaseStep(c)
  <2>1. case[c] \in CaseType /\ case[c].version \in Nat
    BY DEF ContentInv, ContentTyped, CaseType, ContentNames
  <2>2. CASE c \in Mine
    <3>1. case'[c] = [case[c] EXCEPT !.status = Content!Analyze(t), !.version = case[c].version + 1]
      BY <1>1, <2>2
    <3>2. case[c].version + 1 \in 0..MaxVersion
      <4>1. case[c].version < MaxVersion /\ case[c].version \in Nat /\ MaxVersion \in Nat
        BY <1>1, <2>1, <2>2 DEF ContentNames
      <4>2. QED BY <4>1
    <3>3. case'[c] \in CaseType /\ case'[c].source = case[c].source /\ case'[c].status = Content!Analyze(t)
          /\ case'[c].version = case[c].version + 1
      BY <2>1, <3>1, <3>2, Analyzed DEF CaseType
    <3>4. case[c].source = Content!Bio /\ case[c].source # None /\ text'[case[c].source] = t
      BY <1>2, <1>3, <2>2, SourceNames
    <3>5. CaseAgain(c)
      BY <3>3, <3>4 DEF CaseAgain
    <3>6. QED BY <3>3, <3>5, Analyzed DEF CaseStep
  <2>3. CASE c \notin Mine
    <3>1. case'[c] = case[c] /\ seen'[c] = seen[c]
      BY <1>1, <2>3
    <3>2. case[c].source # None => text'[case[c].source] = text[case[c].source]
      BY <1>2, <1>3, <2>1, <2>3 DEF CaseType
    <3>3. QED BY <2>1, <3>1, <3>2 DEF CaseStays, CaseStep
  <2>4. QED BY <2>2, <2>3
<1>5. ContentTyped'
  <2>1. text' \in [Content!Sources -> Texts \cup {NoText}]
    BY <1>1, SourceNames DEF ContentInv, ContentTyped
  <2>2. seen' \in [Cases -> Texts \cup {NoText}]
    BY <1>1 DEF ContentInv, ContentTyped
  <2>3. case' \in [Cases -> CaseType]
    <3>1. case' = [c \in Cases |-> case'[c]]
      BY <1>1
    <3>2. \A c \in Cases : case'[c] \in CaseType
      BY <1>4
    <3>3. QED BY <3>1, <3>2, Zenon
  <2>4. QED BY <1>1, <2>1, <2>2, <2>3 DEF ContentInv, ContentTyped, CaseType, ScreenType, Content!Sources
<1>6. OneCase'
  BY <1>4 DEF OneCase, ContentInv
<1>7. Content!EveryTextHasACase'
  <2>1. SUFFICES ASSUME NEW s \in Content!Sources
                 PROVE  text'[s] # NoText <=> \E c \in Cases : case'[c].source = s
    BY DEF Content!EveryTextHasACase, Content!CasesOf, Content!Sources, Content!Bio
  <2>2. text[s] # NoText <=> \E c \in Cases : case[c].source = s
    BY DEF ContentInv, Content!EveryTextHasACase, Content!CasesOf
  <2>3. s = Content!Bio => \E c \in Cases : case[c].source = s
    BY <1>2 DEF Content!CasesOf
  <2>4. QED BY <1>3, <1>4, <2>2, <2>3 DEF ContentNames
<1>8. \A a \in Admins : open'[a] = open[a]
  BY <1>1
<1>9. QED BY <1>4, <1>5, <1>6, <1>7, <1>8, ContentKept

\* upsertProfile with a bio.
LEMMA BioInserted ==
    ASSUME ContentNames, ContentInv, NEW t \in Texts, Content!UpsertBio(t), t # text[Content!Bio],
           Content!CasesOf(Content!Bio) = {}
    PROVE  ContentInv'
<1>1. PICK n \in Content!Unused :
        case' = [case EXCEPT ![n] = [source |-> Content!Bio, status |-> Content!Analyze(t), version |-> 1]]
  BY DEF Content!UpsertBio, ContentNames
<1>2. text' = [text EXCEPT ![Content!Bio] = t] /\ UNCHANGED <<owner, question, open, seen>>
  BY DEF Content!UpsertBio, ContentNames
<1>3. \A s \in Content!Sources : text'[s] = IF s = Content!Bio THEN t ELSE text[s]
  BY <1>2 DEF ContentInv, ContentTyped
<1>4. n \in Cases /\ case[n].status = "none" /\ case[n].source = None
  BY DEF Content!Unused, OneCase, ContentInv
<1>5. \A c \in Cases : case[c].source # Content!Bio
  BY DEF Content!CasesOf
<1>6. case'[n] \in CaseType /\ case'[n].source = Content!Bio /\ case'[n].status = Content!Analyze(t)
  <2> DEFINE new == [source |-> Content!Bio, status |-> Content!Analyze(t), version |-> 1]
  <2>1. new \in CaseType /\ new.source = Content!Bio /\ new.status = Content!Analyze(t)
    BY SourceNames, Analyzed DEF CaseType, ContentNames
  <2> HIDE DEF new
  <2>2. case'[n] = new
    BY <1>1, <1>4 DEF ContentInv, ContentTyped, new
  <2>3. QED BY <2>1, <2>2
<1>7. \A c \in Cases : c # n => case'[c] = case[c]
  BY <1>1 DEF ContentInv, ContentTyped
<1>8. ContentTyped'
  <2>1. text' \in [Content!Sources -> Texts \cup {NoText}]
    BY <1>2, SourceNames DEF ContentInv, ContentTyped
  <2>2. case' = [c \in Cases |-> case'[c]] /\ \A c \in Cases : case[c] \in CaseType
    BY <1>1 DEF ContentInv, ContentTyped
  <2>3. case' \in [Cases -> CaseType]
    BY <1>6, <1>7, <2>2, Zenon
  <2>4. QED BY <1>2, <2>1, <2>3 DEF ContentInv, ContentTyped, CaseType, ScreenType, Content!Sources
<1>9. ASSUME NEW c \in Cases PROVE CaseStep(c)
  <2>1. CASE c = n
    <3>1. text'[Content!Bio] = t /\ Content!Bio # None
      BY <1>3, SourceNames
    <3>2. CaseNew(c)
      BY <1>4, <1>6, <2>1, <3>1 DEF CaseNew
    <3>3. QED BY <3>2 DEF CaseStep
  <2>2. CASE c # n
    <3>1. case[c].source # None => text'[case[c].source] = text[case[c].source]
      BY <1>3, <1>5 DEF ContentInv, ContentTyped, CaseType
    <3>2. case'[c] = case[c] /\ seen'[c] = seen[c]
      BY <1>2, <1>7, <2>2
    <3>3. QED BY <3>1, <3>2 DEF CaseStays, CaseStep
  <2>3. QED BY <2>1, <2>2
<1>10. OneCase'
  <2>1. \A c \in Cases : case'[c].source = IF c = n THEN Content!Bio ELSE case[c].source
    BY <1>6, <1>7
  <2>2. \A c \in Cases : case'[c].status = "none" => c # n
    BY <1>6, Analyzed
  <2>3. QED BY <1>5, <1>7, <2>1, <2>2 DEF OneCase, ContentInv
<1>11. Content!EveryTextHasACase'
  <2>1. SUFFICES ASSUME NEW s \in Content!Sources
                 PROVE  text'[s] # NoText <=> \E c \in Cases : case'[c].source = s
    BY DEF Content!EveryTextHasACase, Content!CasesOf, Content!Sources, Content!Bio
  <2>2. text[s] # NoText <=> \E c \in Cases : case[c].source = s
    BY DEF ContentInv, Content!EveryTextHasACase, Content!CasesOf
  <2>3. \A c \in Cases : case'[c].source = IF c = n THEN Content!Bio ELSE case[c].source
    BY <1>6, <1>7
  <2>4. CASE s = Content!Bio
    BY <1>3, <1>4, <2>3, <2>4 DEF ContentNames
  <2>5. CASE s # Content!Bio
    BY <1>3, <1>4, <2>2, <2>3, <2>5, SourceNames
  <2>6. QED BY <2>4, <2>5
<1>12. \A a \in Admins : open'[a] = open[a]
  BY <1>2
<1>13. QED BY <1>8, <1>9, <1>10, <1>11, <1>12, ContentKept

\* replaceForUser with answers.
LEMMA AnswersReplaced ==
    ASSUME ContentNames, ContentInv, NEW A \in SUBSET Questions, NEW answers \in [A -> Texts],
           Content!ReplaceForUser(answers)
    PROVE  ContentInv'
<1>1. DOMAIN answers = A
  OBVIOUS
<1>2. PICK id \in [A -> Content!Unused] :
        /\ \A p, q \in A : p # q => id[p] # id[q]
        /\ case' = [c \in Cases |->
             IF \E q \in A : id[q] = c
             THEN LET q == CHOOSE q \in A : id[q] = c IN
                  [source |-> q, status |-> Content!Analyze(answers[q]), version |-> 1]
             ELSE IF case[c].source \in Questions THEN Content!Gone(case[c]) ELSE case[c]]
  BY <1>1 DEF Content!ReplaceForUser
<1>3. /\ text' = [s \in Content!Sources |-> IF s \in A THEN answers[s] ELSE IF s = Content!Bio THEN text[s] ELSE NoText]
      /\ UNCHANGED <<owner, question, open, seen>>
  BY <1>1 DEF Content!ReplaceForUser
<1>4. /\ A \subseteq Content!Sources /\ Content!Bio \notin A /\ None \notin A
      /\ \A s \in Content!Sources : s \in Questions \/ s = Content!Bio
      /\ Content!Bio \notin Questions /\ None \notin Questions
  BY DEF ContentNames, Content!Sources, Content!Bio
<1>5. \A q \in A : id[q] \in Cases /\ case[id[q]].status = "none" /\ case[id[q]].source = None
  BY DEF Content!Unused, OneCase, ContentInv
<1>6. ASSUME NEW q \in A
      PROVE  /\ case'[id[q]] \in CaseType /\ case'[id[q]].source = q
             /\ case'[id[q]].status = Content!Analyze(answers[q])
  <2> DEFINE new == [source |-> q, status |-> Content!Analyze(answers[q]), version |-> 1]
  <2>1. new \in CaseType /\ new.source = q /\ new.status = Content!Analyze(answers[q])
    BY <1>4, Analyzed DEF CaseType, ContentNames
  <2>2. q = CHOOSE p \in A : id[p] = id[q]
    BY <1>2
  <2>3. case'[id[q]] = new
    BY <1>2, <1>5, <2>2
  <2> HIDE DEF new
  <2>4. QED BY <2>1, <2>3
<1>7. ASSUME NEW c \in Cases, \A q \in A : id[q] # c
      PROVE  /\ case'[c] \in CaseType
             /\ case[c].source \in Questions => CaseGone(c)
             /\ case[c].source \notin Questions => case'[c] = case[c]
  <2>1. case[c] \in CaseType /\ case'[c] = IF case[c].source \in Questions THEN Content!Gone(case[c]) ELSE case[c]
    BY <1>2, <1>7 DEF ContentInv, ContentTyped
  <2>2. CASE case[c].source \in Questions
    BY <2>1, <2>2 DEF Content!Gone, CaseType, CaseGone
  <2>3. QED BY <2>1, <2>2
<1>8. ContentTyped'
  <2>1. text' \in [Content!Sources -> Texts \cup {NoText}]
    BY <1>3 DEF ContentInv, ContentTyped
  <2>2. \A c \in Cases : case'[c] \in CaseType
    BY <1>6, <1>7
  <2>3. case' = [c \in Cases |-> case'[c]]
    BY <1>2
  <2>4. case' \in [Cases -> CaseType]
    BY <2>2, <2>3, Zenon
  <2>5. QED BY <1>3, <2>1, <2>4 DEF ContentInv, ContentTyped, CaseType, ScreenType, Content!Sources
<1>9. \A c \in Cases : case[c].source \in Content!Sources \cup {None}
  BY DEF ContentInv, ContentTyped, CaseType
<1>10. ASSUME NEW c \in Cases PROVE CaseStep(c)
  <2>1. CASE \E q \in A : id[q] = c
    <3>1. PICK q \in A : id[q] = c
      BY <2>1
    <3>2. text'[q] = answers[q] /\ q # None
      BY <1>3, <1>4
    <3>3. CaseNew(c)
      BY <1>5, <1>6, <3>1, <3>2 DEF CaseNew
    <3>4. QED BY <3>3 DEF CaseStep
  <2>2. CASE \A q \in A : id[q] # c
    <3>1. CASE case[c].source \in Questions
      BY <1>7, <2>2, <3>1 DEF CaseStep
    <3>2. CASE case[c].source \notin Questions
      <4>1. case'[c] = case[c] /\ seen'[c] = seen[c]
        BY <1>3, <1>7, <2>2, <3>2
      <4>2. case[c].source # None => text'[case[c].source] = text[case[c].source]
        BY <1>3, <1>4, <1>9, <3>2
      <4>3. QED BY <4>1, <4>2 DEF CaseStays, CaseStep
    <3>3. QED BY <3>1, <3>2
  <2>3. QED BY <2>1, <2>2
<1>11. \A c \in Cases : case'[c].source # None =>
         \/ \E q \in A : id[q] = c /\ case'[c].source = q
         \/ case'[c] = case[c] /\ case[c].source \notin Questions
  BY <1>6, <1>7 DEF CaseGone
<1>12. OneCase'
  <2>1. ASSUME NEW c \in Cases, NEW d \in Cases, case'[c].source = case'[d].source, case'[c].source # None
        PROVE  c = d
    <3>1. CASE \E q \in A : id[q] = c /\ case'[c].source = q
      <4>1. case'[d].source \in Questions
        BY <2>1, <3>1
      <4>2. \E q \in A : id[q] = d /\ case'[d].source = q
        BY <1>11, <2>1, <4>1
      <4>3. QED BY <2>1, <3>1, <4>2
    <3>2. CASE case'[c] = case[c] /\ case[c].source \notin Questions
      <4>1. case'[d].source \notin Questions
        BY <2>1, <3>2
      <4>2. case'[d] = case[d]
        BY <1>11, <2>1, <4>1
      <4>3. QED BY <2>1, <3>2, <4>2 DEF OneCase, ContentInv
    <3>3. QED BY <1>11, <2>1, <3>1, <3>2
  <2>2. ASSUME NEW c \in Cases, case'[c].status = "none" PROVE case'[c].source = None
    <3>1. \A q \in A : id[q] # c
      BY <1>6, <2>2, Analyzed
    <3>2. QED BY <1>7, <2>2, <3>1 DEF CaseGone, OneCase, ContentInv
  <2>3. QED BY <2>1, <2>2 DEF OneCase
<1>13. Content!EveryTextHasACase'
  <2>1. SUFFICES ASSUME NEW s \in Content!Sources
                 PROVE  text'[s] # NoText <=> \E c \in Cases : case'[c].source = s
    BY DEF Content!EveryTextHasACase, Content!CasesOf, Content!Sources, Content!Bio
  <2>2. CASE s \in A
    <3>1. text'[s] \in Texts
      BY <1>3, <2>2
    <3>2. id[s] \in Cases /\ case'[id[s]].source = s
      BY <1>5, <1>6, <2>2
    <3>3. QED BY <3>1, <3>2 DEF ContentNames
  <2>3. CASE s = Content!Bio
    <3>1. text'[s] = text[s]
      BY <1>3, <1>4, <2>3
    <3>2. text[s] # NoText <=> \E c \in Cases : case[c].source = s
      BY DEF ContentInv, Content!EveryTextHasACase, Content!CasesOf
    <3>3. ASSUME NEW c \in Cases PROVE case'[c].source = s <=> case[c].source = s
      <4>1. CASE \E q \in A : id[q] = c
        BY <1>4, <1>5, <1>6, <2>3, <4>1, SourceNames
      <4>2. CASE \A q \in A : id[q] # c
        BY <1>4, <1>7, <2>3, <4>2, SourceNames DEF CaseGone
      <4>3. QED BY <4>1, <4>2
    <3>4. QED BY <3>1, <3>2, <3>3
  <2>4. CASE s \notin A /\ s # Content!Bio
    <3>1. text'[s] = NoText
      BY <1>3, <2>4
    <3>2. \A c \in Cases : case'[c].source # s
      BY <1>4, <1>11, <2>4, SourceNames
    <3>3. QED BY <3>1, <3>2
  <2>5. QED BY <2>2, <2>3, <2>4
<1>14. \A a \in Admins : open'[a] = open[a]
  BY <1>3
<1>15. QED BY <1>8, <1>10, <1>12, <1>13, <1>14, ContentKept

-----------------------------------------------------------------------------
\* The administrators.

\* Neither the texts nor the cases change.
LEMMA CasesUntouched ==
    ASSUME ContentNames, ContentInv, ContentTyped', UNCHANGED <<text, case, seen>>,
           \A a \in Admins : open'[a] = open[a] \/ open'[a] = Content!Closed
    PROVE  ContentInv'
<1>1. OneCase' /\ Content!EveryTextHasACase'
  BY DEF ContentInv, OneCase, Content!EveryTextHasACase, Content!CasesOf, Content!Sources, Content!Bio
<1>2. \A c \in Cases : CaseStep(c)
  BY DEF CaseStays, CaseStep
<1>3. QED BY <1>1, <1>2, ContentKept

\* An administrator opens a case.
LEMMA CaseShown ==
    ASSUME ContentNames, ContentInv, NEW a \in Admins, NEW c \in Cases, Content!Detail(a, c)
    PROVE  ContentInv'
<1> DEFINE onScreen == [case |-> c, version |-> case[c].version, text |-> text[case[c].source]]
<1>1. /\ case[c] \in CaseType /\ case[c].version \in Nat /\ case[c].source # None
      /\ case[c].source \in Content!Sources
  BY DEF ContentInv, ContentTyped, CaseType, ContentNames, Content!Detail
<1>2. /\ onScreen \in ScreenType /\ onScreen.case = c /\ onScreen.version = case[c].version
      /\ onScreen.text = text[case[c].source]
  BY <1>1 DEF ScreenType, CaseType, ContentInv, ContentTyped
<1>3. open' = [open EXCEPT ![a] = onScreen] /\ UNCHANGED <<owner, question, text, case, seen>>
  BY DEF Content!Detail
<1> HIDE DEF onScreen
<1>4. ScreenCurrent(onScreen)
  BY <1>1, <1>2 DEF ScreenCurrent, OneCase, ContentInv
<1>5. open' \in [Admins -> ScreenType]
  BY <1>2, <1>3 DEF ContentInv, ContentTyped
<1>6. ContentTyped'
  BY <1>3, <1>5 DEF ContentInv, ContentTyped, CaseType, ScreenType, Content!Sources
<1>7. ASSUME NEW b \in Admins PROVE ScreenCurrent(open[b])'
  <2>1. open'[b] = IF b = a THEN onScreen ELSE open[b]
    BY <1>3 DEF ContentInv, ContentTyped
  <2>2. ScreenCurrent(open'[b])
    BY <1>4, <2>1 DEF ContentInv
  <2>3. QED BY <1>3, <2>2 DEF ScreenCurrent
<1>8. OneCase' /\ Content!EveryTextHasACase' /\ Content!StatusEarned'
  BY <1>3 DEF ContentInv, OneCase, Content!EveryTextHasACase, Content!CasesOf, Content!Sources, Content!Bio,
              Content!StatusEarned, Content!Analyze
<1>9. QED BY <1>6, <1>7, <1>8 DEF ContentInv

\* review of the case on the screen: it succeeds on the version that was read only.
LEMMA CaseReviewed ==
    ASSUME ContentNames, ContentInv, NEW a \in Admins, NEW d \in {"approved", "rejected"}, Content!Review(a, d)
    PROVE  /\ ContentInv'
           /\ open[a].version = case[open[a].case].version
           /\ open[a].text = text[case[open[a].case].source]
           /\ \A b \in Admins : b # a => open'[b] = open[b]
<1>1. PICK c \in Cases : c = open[a].case
  BY DEF Content!Review, ContentInv, ContentTyped, ScreenType
<1>2. /\ case' = [case EXCEPT ![c].status = d, ![c].version = @ + 1]
      /\ seen' = [seen EXCEPT ![c] = open[a].text] /\ open' = [open EXCEPT ![a] = Content!Closed]
      /\ case[c].version < MaxVersion /\ case[c].version = open[a].version /\ case[c].source # None /\ c # None
      /\ UNCHANGED <<owner, question, text>>
  BY <1>1 DEF Content!Review
<1>3. open[a].text = text[case[c].source]
  BY <1>1, <1>2 DEF ContentInv, ScreenCurrent
<1>4. case[c] \in CaseType /\ case[c].version \in Nat
  BY DEF ContentInv, ContentTyped, CaseType, ContentNames
<1>5. case[c].version + 1 \in 0..MaxVersion
  BY <1>2, <1>4 DEF ContentNames
<1>6. case'[c] = [case[c] EXCEPT !.status = d, !.version = case[c].version + 1]
  BY <1>2 DEF ContentInv, ContentTyped
<1>7. /\ case'[c] \in CaseType /\ case'[c].source = case[c].source /\ case'[c].status = d
      /\ case'[c].version = case[c].version + 1
  BY <1>4, <1>5, <1>6 DEF CaseType
<1>8. \A b \in Cases : b # c => case'[b] = case[b] /\ seen'[b] = seen[b]
  BY <1>2 DEF ContentInv, ContentTyped
<1>9. ContentTyped'
  <2>1. case' = [b \in Cases |-> case'[b]] /\ \A b \in Cases : case[b] \in CaseType
    BY <1>2 DEF ContentInv, ContentTyped
  <2>2. case' \in [Cases -> CaseType]
    BY <1>7, <1>8, <2>1, Zenon
  <2>3. open[a].text \in Texts \cup {NoText}
    BY DEF ContentInv, ContentTyped, ScreenType
  <2>4. seen' \in [Cases -> Texts \cup {NoText}]
    BY <1>2, <2>3 DEF ContentInv, ContentTyped
  <2>5. Content!Closed \in ScreenType
    BY DEF Content!Closed, ScreenType, ContentNames
  <2>6. open' \in [Admins -> ScreenType]
    BY <1>2, <2>5 DEF ContentInv, ContentTyped
  <2>7. QED BY <1>2, <2>2, <2>4, <2>6 DEF ContentInv, ContentTyped, CaseType, ScreenType, Content!Sources
<1>10. ASSUME NEW b \in Cases PROVE CaseStep(b)
  <2>1. CASE b = c
    <3>1. seen'[c] = text[case[c].source]
      BY <1>2, <1>3 DEF ContentInv, ContentTyped
    <3>2. CaseDecided(c)
      BY <1>2, <1>7, <3>1 DEF CaseDecided
    <3>3. QED BY <2>1, <3>2 DEF CaseStep
  <2>2. CASE b # c
    BY <1>2, <1>8, <2>2 DEF CaseStays, CaseStep
  <2>3. QED BY <2>1, <2>2
<1>11. \A b \in Cases : case'[b].source = case[b].source /\ (case'[b].status = "none" => case[b].status = "none")
  BY <1>7, <1>8
<1>12. OneCase'
  BY <1>11 DEF OneCase, ContentInv
<1>13. Content!EveryTextHasACase'
  <2>1. SUFFICES ASSUME NEW s \in Content!Sources
                 PROVE  text'[s] # NoText <=> \E b \in Cases : case'[b].source = s
    BY DEF Content!EveryTextHasACase, Content!CasesOf, Content!Sources, Content!Bio
  <2>2. text[s] # NoText <=> \E b \in Cases : case[b].source = s
    BY DEF ContentInv, Content!EveryTextHasACase, Content!CasesOf
  <2>3. QED BY <1>2, <1>11, <2>2
<1>14. \A b \in Admins : open'[b] = open[b] \/ (b = a /\ open'[b] = Content!Closed)
  BY <1>2 DEF ContentInv, ContentTyped
<1>15. ContentInv'
  BY <1>9, <1>10, <1>12, <1>13, <1>14, ContentKept
<1>16. QED BY <1>1, <1>2, <1>3, <1>14, <1>15

\* An administrator closes the case without a decision.
LEMMA ScreenLeft ==
    ASSUME ContentNames, ContentInv, NEW a \in Admins, Content!Leave(a)
    PROVE  ContentInv'
<1>1. open' = [open EXCEPT ![a] = Content!Closed] /\ UNCHANGED <<owner, question, text, case, seen>>
  BY DEF Content!Leave
<1>2. Content!Closed \in ScreenType
  BY DEF Content!Closed, ScreenType, ContentNames
<1>3. open' \in [Admins -> ScreenType]
  BY <1>1, <1>2 DEF ContentInv, ContentTyped
<1>4. ContentTyped'
  BY <1>1, <1>3 DEF ContentInv, ContentTyped, CaseType, ScreenType, Content!Sources
<1>5. \A b \in Admins : open'[b] = open[b] \/ open'[b] = Content!Closed
  BY <1>1 DEF ContentInv, ContentTyped
<1>6. QED BY <1>1, <1>4, <1>5, CasesUntouched

-----------------------------------------------------------------------------
\* The invariant holds before any text.
LEMMA ContentStarts == ASSUME ContentNames, Content!Init PROVE ContentInv
<1>1. Content!NoCase \in CaseType /\ Content!NoCase.source = None
  BY DEF Content!NoCase, CaseType, ContentNames
<1>2. Content!Closed \in ScreenType /\ Content!Closed.case = None
  BY DEF Content!Closed, ScreenType, ContentNames
<1>3. /\ case = [c \in Cases |-> Content!NoCase] /\ open = [a \in Admins |-> Content!Closed]
      /\ text = [s \in Content!Sources |-> NoText] /\ seen = [c \in Cases |-> NoText]
      /\ owner = "open" /\ question \in SUBSET Questions
  BY DEF Content!Init
<1>4. ContentTyped
  BY <1>1, <1>2, <1>3 DEF ContentTyped
<1>5. \A c \in Cases : case[c].source = None
  BY <1>1, <1>3
<1>6. \A a \in Admins : ScreenCurrent(open[a])
  BY <1>2, <1>3 DEF ScreenCurrent
<1>7. Content!EveryTextHasACase
  BY <1>3, <1>5, SourceNames DEF Content!EveryTextHasACase, Content!CasesOf
<1>8. QED BY <1>4, <1>5, <1>6, <1>7 DEF ContentInv, OneCase, Content!StatusEarned

\* Every step keeps it.
LEMMA ContentStep == ASSUME ContentNames, ContentInv, [Content!Next]_(Content!vars) PROVE ContentInv'
<1>1. ASSUME NEW t \in Texts \cup {NoText}, Content!UpsertBio(t) PROVE ContentInv'
  <2>1. CASE t = NoText
    BY <1>1, <2>1, BioRemoved
  <2>2. CASE t # NoText /\ t = text[Content!Bio]
    <3>1. UNCHANGED <<owner, question, text, case, seen, open>>
      BY <1>1, <2>2, SourceNames DEF Content!UpsertBio, ContentInv, ContentTyped
    <3>2. ContentTyped'
      BY <3>1 DEF ContentInv, ContentTyped, CaseType, ScreenType, Content!Sources
    <3>3. QED BY <3>1, <3>2, CasesUntouched
  <2>3. CASE t # NoText /\ t # text[Content!Bio]
    BY <1>1, <2>3, BioRewritten, BioInserted
  <2>4. QED BY <2>1, <2>2, <2>3
<1>2. ASSUME NEW A \in SUBSET Questions, NEW answers \in [A -> Texts], Content!ReplaceForUser(answers)
      PROVE  ContentInv'
  BY <1>2, AnswersReplaced
<1>3. ASSUME NEW q \in Questions, Content!CreateQuestion(q) PROVE ContentInv'
  <2>1. ContentTyped'
    BY <1>3 DEF Content!CreateQuestion, ContentInv, ContentTyped, CaseType, ScreenType, Content!Sources
  <2>2. QED BY <1>3, <2>1, CasesUntouched DEF Content!CreateQuestion
<1>4. ASSUME NEW q \in Questions, Content!DeleteQuestion(q) PROVE ContentInv'
  BY <1>4, QuestionDeleted
<1>5. ASSUME NEW a \in Admins,
             (\E c \in Cases : Content!Detail(a, c)) \/ (\E d \in {"approved", "rejected"} : Content!Review(a, d))
               \/ Content!Leave(a)
      PROVE  ContentInv'
  BY <1>5, CaseShown, CaseReviewed, ScreenLeft
<1>6. ASSUME Content!CloseAccount PROVE ContentInv'
  <2>1. ContentTyped'
    BY <1>6 DEF Content!CloseAccount, ContentInv, ContentTyped, CaseType, ScreenType, Content!Sources
  <2>2. QED BY <1>6, <2>1, CasesUntouched DEF Content!CloseAccount
<1>7. ASSUME UNCHANGED Content!vars PROVE ContentInv'
  <2>1. UNCHANGED <<owner, question, text, case, open, seen>>
    BY <1>7 DEF Content!vars
  <2>2. ContentTyped'
    BY <2>1 DEF ContentInv, ContentTyped, CaseType, ScreenType, Content!Sources
  <2>3. QED BY <2>1, <2>2, CasesUntouched
<1>8. QED
  BY <1>1, <1>2, <1>3, <1>4, <1>5, <1>6, <1>7, ProfileDeleted DEF Content!Next

\* It gives the property.
LEMMA ContentConsistent == ASSUME ContentNames, ContentInv PROVE Content!TextsConsistent
<1>1. ASSUME NEW s \in Content!Sources PROVE Content!Cardinality(Content!CasesOf(s)) <= 1
  <2>1. \A S : Content!Cardinality(S) = Cardinality(S)
    BY DEF Content!Cardinality, Cardinality
  <2>2. CASE Content!CasesOf(s) = {}
    <3>1. Cardinality(Content!CasesOf(s)) = 0
      BY <2>2, FS_EmptySet
    <3>2. QED BY <2>1, <3>1
  <2>3. CASE Content!CasesOf(s) # {}
    <3>1. PICK c \in Content!CasesOf(s) : TRUE
      BY <2>3
    <3>2. Content!CasesOf(s) = {c}
      BY <3>1, SourceNames DEF Content!CasesOf, OneCase, ContentInv
    <3>3. Cardinality(Content!CasesOf(s)) = 1
      BY <3>2, FS_Singleton
    <3>4. QED BY <2>1, <3>3
  <2>4. QED BY <2>2, <2>3
<1>2. \A c \in Cases : /\ case[c].source \in Content!Sources \cup {None} /\ case[c].version \in 0..MaxVersion
                       /\ case[c].status \in {"none", "pending", "approved", "rejected", "gone"}
  BY DEF ContentInv, ContentTyped, CaseType
<1>3. Content!TypeOK
  BY <1>1, <1>2 DEF ContentInv, ContentTyped, ScreenType, Content!TypeOK
<1>4. QED BY <1>3 DEF ContentInv, Content!TextsConsistent

\* The decision that closes a screen was taken on the version and the text it showed.
LEMMA DecisionSeen ==
    ASSUME ContentNames, ContentInv, [Content!Next]_(Content!vars), NEW a \in Admins,
           open[a].case # None, open'[a] = Content!Closed, case[open[a].case].source # None,
           case'[open[a].case].version > case[open[a].case].version
    PROVE  open[a].version = case[open[a].case].version /\ open[a].text = text[case[open[a].case].source]
<1>1. open'[a] # open[a]
  BY DEF Content!Closed
<1>2. case' # case
  BY DEF ContentInv, ContentTyped, ScreenType, CaseType
<1>3. PICK b \in Admins : \E d \in {"approved", "rejected"} : Content!Review(b, d)
  BY <1>1, <1>2 DEF Content!Next, Content!vars, Content!UpsertBio, Content!ReplaceForUser, Content!CreateQuestion,
     Content!DeleteQuestion, Content!Detail, Content!Leave, Content!CloseAccount, Content!Anonymize
<1>4. b = a
  BY <1>1, <1>3, CaseReviewed
<1>5. QED BY <1>3, <1>4, CaseReviewed

\* upsertProfile, replaceForUser and review: every text has one case and no case is
\* without a text, and its status comes from the rules for this text or from an
\* administrator who had this text on the screen, whatever the order of edits,
\* readings and decisions, for any number of questions, cases and administrators.
THEOREM TextsSound == ASSUME ContentNames PROVE Content!Spec => []TextsConsistent
<1>1. Content!Init => ContentInv
  BY ContentStarts
<1>2. ContentInv /\ [Content!Next]_(Content!vars) => ContentInv'
  BY ContentStep
<1>3. ContentInv => TextsConsistent
  BY ContentConsistent DEF TextsConsistent
<1>4. QED BY <1>1, <1>2, <1>3, PTL DEF Content!Spec

\* review, which compares the version: a decision is never replaced by an
\* administrator who has not seen it, nor put on a text that was not read.
THEOREM NoBlindOverrides == ASSUME ContentNames PROVE Content!Spec => NoBlindOverride
<1>1. Content!Init => ContentInv
  BY ContentStarts
<1>2. ContentInv /\ [Content!Next]_(Content!vars) => ContentInv'
  BY ContentStep
<1>3. ContentInv /\ [Content!Next]_(Content!vars) =>
        [\A a \in Admins : LET c == open[a].case IN
           c # None /\ open'[a] = Content!Closed /\ case[c].source # None /\ case'[c].version > case[c].version =>
             open[a].version = case[c].version /\ open[a].text = text[case[c].source]]_(Content!vars)
  BY DecisionSeen
<1>4. QED BY <1>1, <1>2, <1>3, PTL DEF Content!Spec, NoBlindOverride, Content!NoBlindOverride

-----------------------------------------------------------------------------
(* KeysetPaging: walks through the lists.                                  *)

\* Finitely many rows with ordered ids, a page has a row, and time is counted in
\* parts of a millisecond.
PagingNames ==
    /\ Ids \subseteq Nat /\ IsFiniteSet(Ids) /\ MaxTime \in Nat /\ TicksPerMilli \in Nat \ {0}
    /\ Limit \in Nat \ {0} /\ Offsets \subseteq Nat /\ MaxChanges \in Nat

\* The rows of a list that are ordered.
Dated(S) == S \in SUBSET Ids /\ \A i \in S : rows[i] \in Paging!Times

\* A set of naturals that is not empty has a least member.
LEMMA LeastNat ==
    ASSUME NEW T \in SUBSET Nat, T # {}
    PROVE  \E n \in T : \A m \in T : n <= m
<1>1. PICK R : IsWellFoundedOn(R, Nat) /\ \A m, n \in Nat : m < n => <<m, n>> \in R
  <2>1. \A m, n \in Nat : m < n => <<m, n>> \in OpToRel(<, Nat)
    BY DEF OpToRel
  <2>2. IsWellFoundedOn(OpToRel(<, Nat), Nat)
    BY NatLessThanWellFounded
  <2>3. QED BY <2>1, <2>2, Zenon
<1>2. T \subseteq Nat /\ T # {} /\ IsWellFoundedOn(R, Nat)
  BY <1>1
<1>3. \E x \in T : \A y \in T : ~(<<y, x>> \in R)
  BY <1>2, WFMin, Zenon
<1>4. PICK n \in T : \A m \in T : ~(<<m, n>> \in R)
  BY <1>3
<1>5. \A m \in T : ~(m < n)
  BY <1>1, <1>4
<1>6. QED BY <1>4, <1>5

\* ORDER BY at DESC, id DESC is one order of the rows.
LEMMA OneOrder ==
    ASSUME PagingNames, NEW S, Dated(S)
    PROVE  /\ \A i \in S : ~Paging!Before(i, i)
           /\ \A i, j \in S : i = j \/ Paging!Before(i, j) \/ Paging!Before(j, i)
           /\ \A i, j, k \in S : Paging!Before(i, j) /\ Paging!Before(j, k) => Paging!Before(i, k)
<1>1. \A i \in S : i \in Int /\ rows[i] \in Int
  BY DEF Dated, PagingNames, Paging!Times
<1>2. \A i, j : Paging!Before(i, j) <=> rows[i] > rows[j] \/ (rows[i] = rows[j] /\ i > j)
  BY DEF Paging!Before
<1>3. QED BY <1>1, <1>2

\* The rows before a row.
Ahead(S, i) == {j \in S : Paging!Before(j, i)}

\* The rank of a row is the number of the rows before it.
LEMMA Ranks ==
    ASSUME PagingNames, NEW S, Dated(S), NEW i \in S
    PROVE  /\ IsFiniteSet(S) /\ Ahead(S, i) \in SUBSET S /\ IsFiniteSet(Ahead(S, i))
           /\ Paging!Rank(S, i) = Cardinality(Ahead(S, i)) /\ Paging!Rank(S, i) \in Nat
<1>1. IsFiniteSet(S) /\ Ahead(S, i) \in SUBSET S
  BY FS_Subset DEF Dated, PagingNames, Ahead
<1>2. IsFiniteSet(Ahead(S, i)) /\ Cardinality(Ahead(S, i)) \in Nat
  BY <1>1, FS_Subset, FS_CardinalityType
<1>3. Paging!Cardinality(Ahead(S, i)) = Cardinality(Ahead(S, i))
  BY DEF Paging!Cardinality, Cardinality
<1>4. QED BY <1>1, <1>2, <1>3 DEF Paging!Rank, Ahead

\* A row that is before another has a lower rank.
LEMMA RankGrows ==
    ASSUME PagingNames, NEW S, Dated(S), NEW i \in S, NEW j \in S
    PROVE  Paging!Before(i, j) <=> Paging!Rank(S, i) < Paging!Rank(S, j)
<1>1. ASSUME NEW a \in S, NEW b \in S, Paging!Before(a, b) PROVE Paging!Rank(S, a) < Paging!Rank(S, b)
  <2>1. Ahead(S, a) \in SUBSET Ahead(S, b) /\ a \in Ahead(S, b) /\ a \notin Ahead(S, a)
    BY <1>1, OneOrder DEF Ahead
  <2>2. /\ Cardinality(Ahead(S, a)) <= Cardinality(Ahead(S, b))
        /\ Cardinality(Ahead(S, a)) # Cardinality(Ahead(S, b))
    BY <2>1, Ranks, FS_Subset
  <2>3. PICK m \in Nat, n \in Nat : m = Paging!Rank(S, a) /\ n = Paging!Rank(S, b)
    BY Ranks
  <2>4. m <= n /\ m # n
    BY <2>2, <2>3, Ranks
  <2>5. QED BY <2>3, <2>4
<1>2. PICK m \in Nat, n \in Nat : m = Paging!Rank(S, i) /\ n = Paging!Rank(S, j)
  BY Ranks
<1>3. CASE i = j
  BY <1>2, <1>3, OneOrder
<1>4. CASE Paging!Before(i, j)
  BY <1>1, <1>4
<1>5. CASE Paging!Before(j, i)
  BY <1>1, <1>2, <1>5, OneOrder
<1>6. QED BY <1>3, <1>4, <1>5, OneOrder

\* A row that others are after has the first of them.
LEMMA Least ==
    ASSUME PagingNames, NEW S, Dated(S), NEW C \in SUBSET S, C # {}
    PROVE  \E i \in C : \A j \in C : Paging!Rank(S, i) <= Paging!Rank(S, j)
<1> DEFINE T == {Paging!Rank(S, i) : i \in C}
<1>1. T \in SUBSET Nat /\ T # {}
  BY Ranks
<1>2. PICK n \in T : \A m \in T : n <= m
  BY <1>1, LeastNat
<1>3. QED BY <1>2

\* LastOf: a page that is not empty has a last row.
LEMMA Latest ==
    ASSUME PagingNames, NEW S, Dated(S), S # {}
    PROVE  Paging!LastOf(S) \in S /\ \A j \in S : j # Paging!LastOf(S) => Paging!Before(j, Paging!LastOf(S))
<1> DEFINE After(i) == {j \in S : Paging!Before(i, j)}
<1> DEFINE T == {Cardinality(After(i)) : i \in S}
<1>1. IsFiniteSet(S)
  BY Ranks
<1>2. \A i \in S : IsFiniteSet(After(i)) /\ Cardinality(After(i)) \in Nat
  BY <1>1, FS_Subset, FS_CardinalityType
<1>3. T \in SUBSET Nat /\ T # {}
  BY <1>2
<1>4. PICK i \in S : \A j \in S : Cardinality(After(i)) <= Cardinality(After(j))
  <2>1. PICK n \in T : \A m \in T : n <= m
    BY <1>3, LeastNat
  <2>2. QED BY <2>1
<1>5. ASSUME NEW j \in S, Paging!Before(i, j) PROVE FALSE
  <2>1. After(j) \in SUBSET After(i) /\ j \in After(i) /\ j \notin After(j)
    BY <1>5, OneOrder
  <2>2. PICK m \in Nat, n \in Nat : m = Cardinality(After(j)) /\ n = Cardinality(After(i))
    BY <1>2
  <2>3. m <= n /\ m # n
    BY <1>2, <2>1, <2>2, FS_Subset
  <2>4. n <= m
    BY <1>4, <2>2
  <2>5. QED BY <2>3, <2>4
<1>6. \E l \in S : \A j \in S : ~Paging!Before(l, j)
  BY <1>5
<1>7. Paging!LastOf(S) \in S /\ \A j \in S : ~Paging!Before(Paging!LastOf(S), j)
  BY <1>6 DEF Paging!LastOf
<1>8. QED BY <1>7, OneOrder

\* The first n rows are n at most: all but the last of them are before it.
LEMMA FirstFew ==
    ASSUME PagingNames, NEW S, Dated(S), NEW n \in Nat, NEW C, C = {i \in S : Paging!Rank(S, i) < n}
    PROVE  IsFiniteSet(C) /\ Cardinality(C) \in Nat /\ Cardinality(C) <= n
<1>1. IsFiniteSet(S) /\ C \in SUBSET S /\ Dated(C)
  BY FS_Subset DEF Dated, PagingNames
<1>2. IsFiniteSet(C) /\ Cardinality(C) \in Nat
  BY <1>1, FS_Subset, FS_CardinalityType
<1>3. CASE C = {}
  BY <1>2, <1>3, FS_EmptySet
<1>4. CASE C # {}
  <2>1. PICK l \in C : \A j \in C : j # l => Paging!Before(j, l)
    BY <1>1, <1>4, Latest
  <2>2. C \ {l} \in SUBSET Ahead(S, l) /\ l \in S /\ Paging!Rank(S, l) < n
    BY <1>1, <2>1 DEF Ahead
  <2>3. IsFiniteSet(C \ {l}) /\ Cardinality(C \ {l}) = Cardinality(C) - 1
    BY <1>2, <2>1, FS_RemoveElement
  <2>4. Cardinality(C \ {l}) <= Paging!Rank(S, l) /\ Paging!Rank(S, l) \in Nat
    BY <2>2, Ranks, FS_Subset
  <2>5. QED BY <1>2, <2>2, <2>3, <2>4
<1>5. QED BY <1>3, <1>4

\* LIMIT n OFFSET m: fewer rows than n are all the rows after the first m.  Of the
\* rows that are missing the first would have them and m others before it.
LEMMA ShortMeansAll ==
    ASSUME PagingNames, NEW S, Dated(S), NEW m \in Nat, NEW n \in Nat,
           Cardinality(Paging!Slice(S, m, n)) < n, NEW i \in S, m <= Paging!Rank(S, i)
    PROVE  i \in Paging!Slice(S, m, n)
<1> DEFINE C == Paging!Slice(S, m, n)
           F == {j \in S : Paging!Rank(S, j) < m}
           Z == {j \in S : m + n <= Paging!Rank(S, j)}
<1>1. C = {j \in S : m <= Paging!Rank(S, j) /\ Paging!Rank(S, j) < m + n}
  BY DEF Paging!Slice
<1>2. \A j \in S : Paging!Rank(S, j) \in Nat
  BY Ranks
<1>3. SUFFICES ASSUME i \in Z PROVE FALSE
  BY <1>1, <1>2
<1>4. PICK z \in Z : \A j \in Z : Paging!Rank(S, z) <= Paging!Rank(S, j)
  BY <1>3, Least
<1>5. Ahead(S, z) \in SUBSET (F \cup C)
  <2>1. ASSUME NEW j \in Ahead(S, z) PROVE Paging!Rank(S, j) < m + n
    <3>1. j \in S /\ Paging!Rank(S, j) < Paging!Rank(S, z)
      BY <2>1, RankGrows DEF Ahead
    <3>2. QED BY <1>2, <1>4, <3>1
  <2>2. QED BY <1>1, <1>2, <2>1 DEF Ahead
<1>6. IsFiniteSet(F) /\ Cardinality(F) \in Nat /\ Cardinality(F) <= m
  BY FirstFew
<1>7. IsFiniteSet(C) /\ Cardinality(C) \in Nat
  BY <1>1, <1>3, Ranks, FS_Subset, FS_CardinalityType
<1>8. F \cap C = {}
  BY <1>1, <1>2
<1>9. IsFiniteSet(F \cup C) /\ Cardinality(F \cup C) = Cardinality(F) + Cardinality(C)
  BY <1>6, <1>7, <1>8, FS_Union, FS_EmptySet
<1>10. Cardinality(Ahead(S, z)) <= Cardinality(F \cup C) /\ Paging!Rank(S, z) = Cardinality(Ahead(S, z))
  BY <1>5, <1>9, Ranks, FS_Subset
<1>11. QED BY <1>2, <1>4, <1>6, <1>7, <1>9, <1>10

-----------------------------------------------------------------------------
\* A set of rows within another one, with all the rows before one of them.
LEMMA SameRank ==
    ASSUME PagingNames, NEW S, Dated(S), NEW U \in SUBSET S, NEW i \in U, Ahead(S, i) \subseteq U
    PROVE  Paging!Rank(U, i) = Paging!Rank(S, i)
<1>1. Dated(U) /\ Ahead(U, i) = Ahead(S, i)
  BY DEF Dated, Ahead
<1>2. QED BY <1>1, Ranks

\* In a part of the rows no rank is higher.
LEMMA LowerRank ==
    ASSUME PagingNames, NEW S, Dated(S), NEW U \in SUBSET S, NEW i \in U
    PROVE  Paging!Rank(U, i) <= Paging!Rank(S, i)
<1>1. Dated(U) /\ Ahead(U, i) \in SUBSET Ahead(S, i)
  BY DEF Dated, Ahead
<1>2. QED BY <1>1, Ranks, FS_Subset

\* The rows after the cursor.
After(c) == {i \in Paging!Visible : Paging!Beyond(i, c)}

\* The branches of a list share its rows.
LEMMA Branches ==
    ASSUME PagingNames, list \in Paging!Lists, NEW i \in Ids
    PROVE  list.branches \in {1, 2} /\ Paging!Branch(i) \in 0..(list.branches - 1)
<1>1. list.branches \in {1, 2}
  BY DEF Paging!Lists, Paging!ListOf, Paging!listUsers, Paging!listDetailedForUser, Paging!listForUser,
         Paging!messagesForUser, Paging!adminMessages, Paging!moderationList, Paging!listPhotoReconciliation,
         Paging!requestsForAdmin, Paging!accessLogs, Paging!listSessions, Paging!reportsList, Paging!deadLetters,
         Paging!reconciliationList, Paging!authEvents
<1>2. i \in Nat
  BY DEF PagingNames
<1>3. i % 1 \in 0..0 /\ i % 2 \in 0..1
  BY <1>2
<1>4. QED BY <1>1, <1>3 DEF Paging!Branch

\* A part of the rows that has the first n + m of them gives the same n after m.
LEMMA CutsAgree ==
    ASSUME PagingNames, NEW V, Dated(V), NEW U \in SUBSET V, NEW n \in Nat, NEW m \in Nat,
           \A i \in V : Paging!Rank(V, i) < n + m => i \in U
    PROVE  Paging!Slice(U, m, n) = Paging!Slice(V, m, n)
<1>1. Dated(U)
  BY DEF Dated
<1>2. /\ \A i \in V : Paging!Rank(V, i) \in Nat
      /\ \A i \in U : Paging!Rank(U, i) \in Nat /\ i \in V
  BY <1>1, Ranks
<1>3. ASSUME NEW i \in V, Paging!Rank(V, i) < n + m PROVE i \in U /\ Paging!Rank(U, i) = Paging!Rank(V, i)
  <2>1. ASSUME NEW j \in Ahead(V, i) PROVE j \in U
    <3>1. j \in V /\ Paging!Rank(V, j) < Paging!Rank(V, i)
      BY <2>1, RankGrows DEF Ahead
    <3>2. Paging!Rank(V, j) < n + m
      BY <1>2, <1>3, <3>1
    <3>3. QED BY <3>1, <3>2
  <2>2. i \in U
    BY <1>3
  <2>3. QED BY <2>1, <2>2, SameRank
<1>4. ASSUME NEW i \in U, Paging!Rank(U, i) < n + m PROVE Paging!Rank(V, i) < n + m
  <2>1. PICK P : P = Ahead(V, i)
    OBVIOUS
  <2>2. PICK L : L = Paging!Slice(P, 0, n + m)
    OBVIOUS
  <2>3. P \in SUBSET V /\ Dated(P) /\ i \in V
    BY <2>1 DEF Ahead, Dated
  <2>4. IsFiniteSet(Ahead(U, i))
    BY <1>1, Ranks
  <2>5. L = {j \in P : 0 <= Paging!Rank(P, j) /\ Paging!Rank(P, j) < 0 + (n + m)}
    BY <2>2 DEF Paging!Slice
  <2>6. ASSUME NEW j \in L PROVE j \in Ahead(U, i)
    <3>1. j \in P /\ j \in V /\ Paging!Before(j, i) /\ Paging!Rank(P, j) < n + m
      BY <2>1, <2>3, <2>5 DEF Ahead
    <3>2. Ahead(V, j) \subseteq P
      BY <2>1, <2>3, <3>1, OneOrder DEF Ahead
    <3>3. Paging!Rank(P, j) = Paging!Rank(V, j)
      BY <2>3, <3>1, <3>2, SameRank
    <3>4. QED BY <3>1, <3>3 DEF Ahead
  <2>7. Cardinality(L) <= Cardinality(Ahead(U, i)) /\ IsFiniteSet(L) /\ Cardinality(L) \in Nat
    <3>1. L \in SUBSET Ahead(U, i)
      BY <2>6
    <3>2. QED BY <2>4, <3>1, FS_Subset, FS_CardinalityType
  <2>8. Paging!Rank(U, i) = Cardinality(Ahead(U, i)) /\ Paging!Rank(U, i) \in Nat
    BY <1>1, Ranks
  <2>9. Cardinality(L) < n + m
    BY <1>4, <2>7, <2>8
  <2>10. ASSUME NEW j \in P PROVE j \in U
    <3>1. Paging!Rank(P, j) \in Nat /\ 0 \in Nat /\ n + m \in Nat
      BY <2>3, Ranks
    <3>2. 0 <= Paging!Rank(P, j)
      BY <3>1
    <3>3. j \in Paging!Slice(P, 0, n + m)
      BY <2>2, <2>3, <2>9, <3>1, <3>2, ShortMeansAll
    <3>4. QED BY <2>2, <2>6, <3>3 DEF Ahead
  <2>11. Paging!Rank(U, i) = Paging!Rank(V, i)
    BY <2>1, <2>10, SameRank
  <2>12. QED BY <1>4, <2>11
<1>5. ASSUME NEW i PROVE i \in Paging!Slice(U, m, n) <=> i \in Paging!Slice(V, m, n)
  <2>1. \A S : i \in Paging!Slice(S, m, n) <=> i \in S /\ m <= Paging!Rank(S, i) /\ Paging!Rank(S, i) < m + n
    BY DEF Paging!Slice
  <2>2. CASE i \in U /\ Paging!Rank(U, i) < n + m
    BY <1>2, <1>3, <1>4, <2>1, <2>2
  <2>3. CASE i \in V /\ Paging!Rank(V, i) < n + m
    BY <1>2, <1>3, <2>1, <2>3
  <2>4. QED BY <1>2, <2>1, <2>2, <2>3
<1>6. QED BY <1>5

\* MATCH_PAGE_CTE: cutting each branch at the rows the page can take from it, then
\* all of them together, gives the same rows as cutting the list.
LEMMA PageIsSlice ==
    ASSUME PagingNames, list \in Paging!Lists, NEW c, Dated(After(c)), NEW n \in Nat, NEW m \in Nat
    PROVE  Paging!Page(c, n, m) = Paging!Slice(After(c), m, n)
<1> DEFINE Side(b) == {i \in Paging!Visible : Paging!Branch(i) = b /\ Paging!Beyond(i, c)}
           found(b) == Paging!Slice(Side(b), 0, n + m)
           U == UNION {found(b) : b \in 0..(list.branches - 1)}
<1>1. Paging!Page(c, n, m) = Paging!Slice(U, m, n)
  BY DEF Paging!Page
<1>2. ASSUME NEW b PROVE Side(b) \in SUBSET After(c) /\ Dated(Side(b))
  BY DEF After, Dated
<1>3. \A b : \A i \in After(c) : i \in Side(b) <=> Paging!Branch(i) = b
  BY DEF After
<1>4. \A b, i : i \in found(b) <=> i \in Side(b) /\ 0 <= Paging!Rank(Side(b), i) /\ Paging!Rank(Side(b), i) < 0 + (n + m)
  BY DEF Paging!Slice
<1>5. \A i : i \in U <=> \E b \in 0..(list.branches - 1) : i \in found(b)
  OBVIOUS
<1> HIDE DEF U, found, Side
<1>6. U \in SUBSET After(c)
  BY <1>2, <1>4, <1>5
<1>7. ASSUME NEW i \in After(c), Paging!Rank(After(c), i) < n + m PROVE i \in U
  <2>1. PICK b \in 0..(list.branches - 1) : b = Paging!Branch(i)
    BY Branches DEF Dated
  <2>2. i \in Side(b)
    BY <1>3, <2>1
  <2>3. /\ Paging!Rank(Side(b), i) <= Paging!Rank(After(c), i)
        /\ Paging!Rank(Side(b), i) \in Nat /\ Paging!Rank(After(c), i) \in Nat
    BY <1>2, <2>2, LowerRank, Ranks
  <2>4. i \in found(b)
    BY <1>4, <1>7, <2>2, <2>3
  <2>5. QED BY <1>5, <2>1, <2>4
<1>8. Paging!Slice(U, m, n) = Paging!Slice(After(c), m, n)
  BY <1>6, <1>7, CutsAgree
<1>9. QED BY <1>1, <1>8

-----------------------------------------------------------------------------
(* Dates and cursors.                                                      *)

\* A date is not before its millisecond, and what lies between them is in the same one.
LEMMA Milliseconds ==
    ASSUME PagingNames, NEW t \in Nat
    PROVE  /\ Paging!Millisecond(t) \in Nat /\ Paging!Millisecond(t) <= t
           /\ \A s \in Nat : Paging!Millisecond(t) <= s /\ s <= t => Paging!Millisecond(s) = Paging!Millisecond(t)
<1>1. TicksPerMilli \in Nat \ {0}
  BY DEF PagingNames
<1>2. t % TicksPerMilli \in Nat /\ t % TicksPerMilli <= t
  BY <1>1
<1>3. ASSUME NEW s \in Nat, t - (t % TicksPerMilli) <= s, s <= t
      PROVE  s % TicksPerMilli = s - (t - (t % TicksPerMilli))
  BY <1>1, <1>3, SMTT(30)
<1>4. QED BY <1>2, <1>3 DEF Paging!Millisecond

\* A row the cursor tells from all others: its list keeps what it writes, or no
\* other row is in its millisecond.
Told(i) ==
    \/ list.keeps = list.writes
    \/ \A j \in Ids \ {i} : rows[j] = Paging!Gone \/ Paging!Millisecond(rows[j]) # Paging!Millisecond(rows[i])

\* Every row has a date the code gives in its list.
RowsDated == list \in Paging!Lists /\ rows \in [Ids -> Paging!Dates \cup {Paging!Gone}]

\* The rows of a list are ordered, whichever of them are taken.
LEMMA DatedRows ==
    ASSUME PagingNames, RowsDated
    PROVE  /\ \A i \in Paging!Visible : i \in Ids /\ rows[i] \in Paging!Times /\ rows[i] \in Nat
           /\ \A i \in Paging!Visible : list.writes # "micro" => Paging!Millisecond(rows[i]) = rows[i]
           /\ \A S \in SUBSET Paging!Visible : Dated(S)
<1>1. Paging!Dates \subseteq Paging!Times /\ Paging!Times \subseteq Nat
  BY DEF Paging!Dates, Paging!Times
<1>2. \A t \in Paging!Dates : list.writes # "micro" => Paging!Millisecond(t) = t
  BY DEF Paging!Dates
<1>3. \A i \in Paging!Visible : i \in Ids /\ rows[i] \in Paging!Dates
  BY DEF Paging!Visible, RowsDated
<1>4. QED BY <1>1, <1>2, <1>3 DEF Dated

\* A list gives and keeps microseconds or milliseconds.
LEMMA Keeps ==
    ASSUME list \in Paging!Lists
    PROVE  list.keeps \in {"micro", "milli"} /\ list.writes \in {"micro", "milli"}
BY DEF Paging!Lists, Paging!ListOf, Paging!listUsers, Paging!listDetailedForUser, Paging!listForUser,
       Paging!messagesForUser, Paging!adminMessages, Paging!moderationList, Paging!listPhotoReconciliation,
       Paging!requestsForAdmin, Paging!accessLogs, Paging!listSessions, Paging!reportsList, Paging!deadLetters,
       Paging!reconciliationList, Paging!authEvents

\* encodeCursor: the cursor of a row has a date that is not after it.
LEMMA Encoded ==
    ASSUME PagingNames, RowsDated, NEW l \in Paging!Visible
    PROVE  /\ Paging!EncodeCursor(l) \in [at: Paging!Times, id: Ids] /\ Paging!EncodeCursor(l) # Paging!NoCursor
           /\ Paging!EncodeCursor(l).id = l /\ Paging!EncodeCursor(l).at <= rows[l]
           /\ Paging!EncodeCursor(l).at \in {rows[l], Paging!Millisecond(rows[l])}
           /\ list.keeps = list.writes => Paging!EncodeCursor(l).at = rows[l]
<1>1. l \in Ids /\ rows[l] \in Paging!Times /\ rows[l] \in Nat
  BY DatedRows
<1>2. /\ Paging!Millisecond(rows[l]) \in Nat /\ Paging!Millisecond(rows[l]) <= rows[l]
      /\ list.writes # "micro" => Paging!Millisecond(rows[l]) = rows[l]
  BY <1>1, Milliseconds, DatedRows
<1>3. Paging!Millisecond(rows[l]) \in Paging!Times
  BY <1>1, <1>2 DEF Paging!Times, PagingNames
<1>4. PICK t \in Paging!Times :
        t = IF list.keeps = "micro" THEN rows[l] ELSE Paging!Millisecond(rows[l])
  BY <1>1, <1>3
<1>5. Paging!EncodeCursor(l) = [at |-> t, id |-> l]
  BY <1>4 DEF Paging!EncodeCursor
<1>6. /\ t \in {rows[l], Paging!Millisecond(rows[l])} /\ t <= rows[l]
      /\ list.keeps = list.writes => t = rows[l]
  BY <1>1, <1>2, <1>4, Keeps DEF RowsDated
<1>7. l # -1
  BY <1>1 DEF PagingNames
<1>8. QED BY <1>1, <1>5, <1>6, <1>7 DEF Paging!NoCursor

\* The next page begins after the last row of this one, for a row that is told.
LEMMA CursorTells ==
    ASSUME PagingNames, RowsDated, NEW l \in Paging!Visible, NEW i \in Paging!Visible, Told(i)
    PROVE  Paging!Beyond(i, Paging!EncodeCursor(l)) <=> Paging!Before(l, i)
<1> DEFINE c == Paging!EncodeCursor(l)
<1>1. /\ rows[i] \in Nat /\ rows[l] \in Nat /\ i \in Nat /\ l \in Nat /\ l \in Ids /\ rows[l] # Paging!Gone
  BY DatedRows DEF PagingNames, Paging!Visible
<1>2. PICK t : /\ t = c.at /\ c.id = l /\ c # Paging!NoCursor /\ t <= rows[l] /\ t \in {rows[l], Paging!Millisecond(rows[l])}
               /\ list.keeps = list.writes => t = rows[l]
  BY Encoded
<1>3. Paging!Beyond(i, c) <=> rows[i] < t \/ (rows[i] = t /\ i < l)
  BY <1>2 DEF Paging!Beyond
<1>4. Paging!Before(l, i) <=> rows[l] > rows[i] \/ (rows[l] = rows[i] /\ l > i)
  BY DEF Paging!Before
<1>5. CASE t = rows[l]
  BY <1>1, <1>3, <1>4, <1>5
<1>6. CASE t # rows[l]
  <2>1. t = Paging!Millisecond(rows[l]) /\ t \in Nat
    BY <1>1, <1>2, <1>6, Milliseconds
  <2>2. CASE i = l
    BY <1>1, <1>2, <1>3, <1>4, <1>6, <2>1, <2>2
  <2>3. CASE i # l
    <3>1. Paging!Millisecond(rows[l]) # Paging!Millisecond(rows[i])
      BY <1>1, <1>2, <1>6, <2>3 DEF Told
    <3>2. ~(t <= rows[i] /\ rows[i] <= rows[l])
      BY <1>1, <2>1, <3>1, Milliseconds
    <3>3. QED BY <1>1, <1>2, <1>3, <1>4, <2>1, <3>2
  <2>4. QED BY <2>2, <2>3
<1>7. QED BY <1>5, <1>6

\* The cursor goes on: what was not after the last one is not after this one.
LEMMA CursorGoesOn ==
    ASSUME PagingNames, RowsDated, NEW c, c \in [at: Paging!Times, id: Ids], NEW l \in After(c), NEW i \in Paging!Visible,
           ~Paging!Beyond(i, c)
    PROVE  ~Paging!Beyond(i, Paging!EncodeCursor(l))
<1>1. l \in Paging!Visible /\ Paging!Beyond(l, c)
  BY DEF After
<1>2. /\ rows[i] \in Nat /\ rows[l] \in Nat /\ i \in Nat /\ l \in Nat /\ c.at \in Nat /\ c.id \in Nat /\ c # Paging!NoCursor
  <2>1. /\ rows[i] \in Nat /\ rows[l] \in Nat /\ i \in Ids /\ l \in Ids
    BY <1>1, DatedRows
  <2>2. c.at \in Nat /\ c.id \in Ids
    BY DEF Paging!Times
  <2>3. Paging!NoCursor.id = -1
    BY DEF Paging!NoCursor
  <2>4. Ids \subseteq Nat
    BY DEF PagingNames
  <2>5. rows[i] \in Nat /\ rows[l] \in Nat /\ i \in Nat /\ l \in Nat /\ c.at \in Nat /\ c.id \in Nat
    BY <2>1, <2>2, <2>4
  <2>6. c.id # -1
    BY <2>5
  <2>7. c # Paging!NoCursor
    BY <2>3, <2>6
  <2>8. QED BY <2>5, <2>7
<1>3. PICK t : /\ t = Paging!EncodeCursor(l).at /\ Paging!EncodeCursor(l).id = l /\ Paging!EncodeCursor(l) # Paging!NoCursor
               /\ t <= rows[l] /\ t \in {rows[l], Paging!Millisecond(rows[l])}
  BY <1>1, Encoded
<1>4. t \in Nat
  BY <1>2, <1>3, Milliseconds
<1>5. Paging!Beyond(i, Paging!EncodeCursor(l)) <=> rows[i] < t \/ (rows[i] = t /\ i < l)
  BY <1>3 DEF Paging!Beyond
<1>6. ~(rows[i] < c.at \/ (rows[i] = c.at /\ i < c.id)) /\ (rows[l] < c.at \/ (rows[l] = c.at /\ l < c.id))
  BY <1>1, <1>2 DEF Paging!Beyond
<1>7. QED BY <1>2, <1>3, <1>4, <1>5, <1>6

-----------------------------------------------------------------------------
(* The inductive invariant of KeysetPaging.                                *)

\* Every variable has its type.
PagingTyped ==
    /\ RowsDated /\ walk \in {"new", "on", "over"}
    /\ cursor \in [at: Paging!Times, id: Ids] \cup {Paging!NoCursor}
    /\ shown \in [Ids -> 0..2] /\ stable \subseteq Paging!Visible /\ changes \in 0..MaxChanges
    /\ walk = "on" <=> cursor # Paging!NoCursor

\* Before the walk nothing is owed or shown.
NothingYet == walk = "new" => stable = {} /\ shown = [i \in Ids |-> 0]

\* A row that is owed is told from the others, and has been shown once when it is
\* not after the cursor.
Placed ==
    \A i \in stable : Told(i) /\ shown[i] = IF walk = "on" /\ Paging!Beyond(i, cursor) THEN 0 ELSE 1

PagingInv == PagingTyped /\ NothingYet /\ Placed

\* It holds before the walk.
LEMMA PagingStarts == ASSUME PagingNames, Paging!Init PROVE PagingInv
BY DEF Paging!Init, PagingNames, PagingInv, PagingTyped, RowsDated, NothingYet, Placed

\* It gives the property.
LEMMA PagingHolds == ASSUME PagingNames, PagingInv PROVE Paging!ListsConsistent
<1>1. Paging!TypeOK
  BY DEF PagingInv, PagingTyped, RowsDated, Paging!TypeOK
<1>2. Paging!EachShownOnce
  BY DEF PagingInv, Placed, NothingYet, Paging!EachShownOnce
<1>3. QED BY <1>1, <1>2 DEF Paging!ListsConsistent

\* Owed: the rows of s that are told.
LEMMA OwedTold ==
    ASSUME NEW s, NEW dates, NEW i
    PROVE  i \in Paging!Owed(s, dates) <=>
             /\ i \in s
             /\ \/ list.keeps = list.writes
                \/ \A j \in Ids \ {i} : dates[j] = Paging!Gone \/ Paging!Millisecond(dates[j]) # Paging!Millisecond(dates[i])
BY DEF Paging!Owed

\* Owed, after a change of the rows.
LEMMA OwedNow ==
    ASSUME NEW s, stable' = Paging!Owed(s, rows')
    PROVE  /\ stable' \subseteq s
           /\ \A j \in stable' : list.keeps = list.writes \/
                \A k \in Ids \ {j} : rows'[k] = Paging!Gone \/ Paging!Millisecond(rows'[k]) # Paging!Millisecond(rows'[j])
<1>1. PICK dates : dates = rows'
  OBVIOUS
<1>2. stable' = Paging!Owed(s, dates)
  BY <1>1
<1>3. /\ stable' \subseteq s
      /\ \A j \in stable' : list.keeps = list.writes \/
           \A k \in Ids \ {j} : dates[k] = Paging!Gone \/ Paging!Millisecond(dates[k]) # Paging!Millisecond(dates[j])
  BY <1>2, OwedTold
<1>4. QED BY <1>1, <1>3

\* A page counts the rows on it.
LEMMA Counted ==
    ASSUME NEW found, shown \in [Ids -> 0..2]
    PROVE  /\ Paging!Count(found) \in [Ids -> 0..2]
           /\ \A i \in Ids : shown[i] < 2 =>
                Paging!Count(found)[i] = shown[i] + (IF i \in Paging!Items(found) THEN 1 ELSE 0)
<1>1. \A i \in Ids : shown[i] \in 0..2
  OBVIOUS
<1>2. \A i \in Ids : Paging!Count(found)[i] =
        IF i \in Paging!Items(found) /\ shown[i] < 2 THEN shown[i] + 1 ELSE shown[i]
  BY DEF Paging!Count
<1>3. ASSUME NEW i \in Ids PROVE Paging!Count(found)[i] \in 0..2
  <2>1. PICK n \in 0..2 : n = shown[i]
    BY <1>1
  <2>2. Paging!Count(found)[i] = n \/ (n < 2 /\ Paging!Count(found)[i] = n + 1)
    BY <1>2, <2>1
  <2>3. QED BY <2>2
<1>4. Paging!Count(found) = [i \in Ids |-> Paging!Count(found)[i]]
  BY DEF Paging!Count
<1>5. QED BY <1>1, <1>2, <1>3, <1>4

\* cursorPage: which rows a page shows, and which ones its cursor leaves.
LEMMA PageParts ==
    ASSUME PagingNames, RowsDated, NEW c, NEW m \in Nat,
           NEW found, found = Paging!Page(c, Limit + 1, m)
    PROVE  /\ Paging!Items(found) \subseteq After(c)
           /\ Paging!NextCursor(found) = Paging!NoCursor =>
                \A i \in After(c) : m <= Paging!Rank(After(c), i) => i \in Paging!Items(found)
           /\ Paging!NextCursor(found) # Paging!NoCursor =>
                \E l \in After(c) :
                  /\ Paging!NextCursor(found) = Paging!EncodeCursor(l)
                  /\ \A i \in After(c) : m <= Paging!Rank(After(c), i) =>
                       (i \in Paging!Items(found) <=> ~Paging!Before(l, i))
<1> DEFINE V == After(c)
<1>0. V \in SUBSET Paging!Visible /\ Dated(V) /\ Limit \in Nat \ {0} /\ Limit + 1 \in Nat
  BY DatedRows DEF After, PagingNames
<1> HIDE DEF V
<1>1. found = Paging!Slice(V, m, Limit + 1)
  BY <1>0, PageIsSlice DEF V, RowsDated
<1>2. found \in SUBSET V /\ Dated(found) /\ Paging!Items(found) \subseteq found
  BY <1>0, <1>1 DEF Paging!Slice, Paging!Items, Dated
<1>3. IsFiniteSet(found) /\ Cardinality(found) \in Nat /\ Paging!Cardinality(found) = Cardinality(found)
  <2>1. IsFiniteSet(V)
    BY <1>0, FS_Subset DEF Dated, PagingNames
  <2>2. QED BY <1>2, <2>1, FS_Subset, FS_CardinalityType DEF Paging!Cardinality, Cardinality
<1>4. \A i \in found : Paging!Rank(found, i) \in Nat /\ Paging!Rank(V, i) \in Nat /\ i \in V
  BY <1>0, <1>2, Ranks
<1>5. \A i : i \in Paging!Items(found) <=> i \in found /\ Paging!Rank(found, i) < Limit
  BY <1>0, <1>4 DEF Paging!Items, Paging!Slice
<1>6. CASE Cardinality(found) <= Limit
  <2>1. Paging!NextCursor(found) = Paging!NoCursor
    BY <1>0, <1>3, <1>6 DEF Paging!NextCursor
  <2>2. ASSUME NEW i \in V, m <= Paging!Rank(V, i) PROVE i \in Paging!Items(found)
    <3>1. Cardinality(Paging!Slice(V, m, Limit + 1)) < Limit + 1
      BY <1>0, <1>1, <1>3, <1>6
    <3>2. i \in found
      BY <1>0, <1>1, <2>2, <3>1, ShortMeansAll
    <3>3. Ahead(found, i) \in SUBSET (found \ {i}) /\ Paging!Rank(found, i) = Cardinality(Ahead(found, i))
      BY <1>2, <3>2, Ranks, OneOrder DEF Ahead
    <3>4. IsFiniteSet(found \ {i}) /\ Cardinality(found \ {i}) = Cardinality(found) - 1
      BY <1>3, <3>2, FS_RemoveElement
    <3>5. Paging!Rank(found, i) <= Cardinality(found) - 1
      BY <3>3, <3>4, FS_Subset
    <3>6. Paging!Rank(found, i) < Limit
      BY <1>0, <1>3, <1>4, <1>6, <3>2, <3>5
    <3>7. QED BY <1>5, <3>2, <3>6
  <2>3. QED BY <1>2, <2>1, <2>2 DEF V
<1>7. CASE ~(Cardinality(found) <= Limit)
  <2>1. found # {}
    BY <1>0, <1>3, <1>7, FS_EmptySet
  <2>2. PICK f \in found : \A j \in found : Paging!Rank(found, f) <= Paging!Rank(found, j)
    <3>1. found \in SUBSET found
      OBVIOUS
    <3>2. QED BY <1>2, <2>1, <3>1, Least
  <2>3. Ahead(found, f) = {}
    <3>1. ASSUME NEW j \in Ahead(found, f) PROVE FALSE
      <4>1. j \in found /\ Paging!Rank(found, j) < Paging!Rank(found, f)
        BY <1>2, RankGrows DEF Ahead
      <4>2. QED BY <1>4, <2>2, <4>1
    <3>2. QED BY <3>1
  <2>4. f \in Paging!Items(found)
    <3>1. Paging!Rank(found, f) = 0
      BY <1>2, <2>3, Ranks, FS_EmptySet
    <3>2. QED BY <1>0, <1>5, <3>1
  <2>5. PICK l : l = Paging!LastOf(Paging!Items(found))
    OBVIOUS
  <2>6. l \in Paging!Items(found) /\ \A j \in Paging!Items(found) : j # l => Paging!Before(j, l)
    BY <1>2, <2>4, <2>5, Latest DEF Dated
  <2>7. l \in found /\ l \in V /\ Paging!Rank(found, l) < Limit
    BY <1>2, <1>5, <2>6
  <2>8. Paging!NextCursor(found) = Paging!EncodeCursor(l)
    BY <1>0, <1>3, <1>7, <2>5 DEF Paging!NextCursor
  <2>9. Paging!NextCursor(found) # Paging!NoCursor
    BY <1>0, <2>7, <2>8, Encoded
  <2>10. ASSUME NEW i \in V, m <= Paging!Rank(V, i) PROVE i \in Paging!Items(found) <=> ~Paging!Before(l, i)
    <3>1. ASSUME i \in Paging!Items(found), Paging!Before(l, i) PROVE FALSE
      BY <1>0, <2>6, <2>7, <3>1, OneOrder
    <3>2. ASSUME ~Paging!Before(l, i) PROVE i \in Paging!Items(found)
      <4>1. i = l \/ Paging!Before(i, l)
        BY <1>0, <2>7, <3>2, OneOrder
      <4>2. CASE i = l
        BY <2>6, <4>2
      <4>3. CASE Paging!Before(i, l)
        <5>1. Paging!Rank(V, i) < Paging!Rank(V, l) /\ Paging!Rank(V, i) \in Nat
          BY <1>0, <2>7, <4>3, RankGrows, Ranks
        <5>2. Paging!Rank(V, l) < m + (Limit + 1) /\ Paging!Rank(V, l) \in Nat
          BY <1>1, <1>4, <2>7 DEF Paging!Slice
        <5>3. Paging!Rank(V, i) < m + (Limit + 1)
          BY <1>0, <5>1, <5>2
        <5>4. i \in found
          BY <1>1, <2>10, <5>3 DEF Paging!Slice
        <5>5. Paging!Rank(found, i) < Paging!Rank(found, l)
          BY <1>2, <2>7, <4>3, <5>4, RankGrows
        <5>6. Paging!Rank(found, i) < Limit
          BY <1>0, <1>4, <2>7, <5>4, <5>5
        <5>7. QED BY <1>5, <5>4, <5>6
      <4>4. QED BY <4>1, <4>2, <4>3
    <3>3. QED BY <3>1, <3>2
  <2>11. QED BY <1>2, <2>7, <2>8, <2>9, <2>10 DEF V
<1>8. QED BY <1>6, <1>7

\* What does not change when the list, its rows and the cursor stay.
LEMMA SameView ==
    ASSUME UNCHANGED <<list, rows>>
    PROVE  /\ Paging!Visible' = Paging!Visible /\ RowsDated' <=> RowsDated
           /\ \A i : Told(i)' <=> Told(i)
           /\ \A i, c : Paging!Beyond(i, c)' <=> Paging!Beyond(i, c)
BY DEF Paging!Visible, RowsDated, Paging!Dates, Told, Paging!Beyond

\* A page keeps the invariant, when the rows owed after it have been placed by the
\* cursor it was asked with.
LEMMA PageKeeps ==
    ASSUME PagingNames, PagingInv, NEW m \in Nat, NEW c, c \in [at: Paging!Times, id: Ids] \cup {Paging!NoCursor},
           NEW found, found = Paging!Page(c, Limit + 1, m),
           shown' = Paging!Count(found), cursor' = Paging!NextCursor(found),
           walk' = IF Paging!NextCursor(found) = Paging!NoCursor THEN "over" ELSE "on",
           UNCHANGED <<list, rows, changes>>, stable' \subseteq Paging!Visible,
           \A i \in stable' :
             /\ Told(i) /\ shown[i] = IF i \in After(c) THEN 0 ELSE 1
             /\ i \in After(c) => m <= Paging!Rank(After(c), i)
    PROVE  PagingInv'
<1>1. /\ RowsDated /\ shown \in [Ids -> 0..2] /\ changes \in 0..MaxChanges
      /\ After(c) \subseteq Paging!Visible /\ Paging!Visible \subseteq Ids
  BY DEF PagingInv, PagingTyped, After, Paging!Visible
<1>2. /\ Paging!Items(found) \subseteq After(c)
      /\ Paging!NextCursor(found) = Paging!NoCursor =>
           \A i \in After(c) : m <= Paging!Rank(After(c), i) => i \in Paging!Items(found)
      /\ Paging!NextCursor(found) # Paging!NoCursor =>
           \E l \in After(c) :
             /\ Paging!NextCursor(found) = Paging!EncodeCursor(l)
             /\ \A i \in After(c) : m <= Paging!Rank(After(c), i) =>
                  (i \in Paging!Items(found) <=> ~Paging!Before(l, i))
  BY <1>1, PageParts
<1>3. /\ shown' \in [Ids -> 0..2]
      /\ \A i \in Ids : shown[i] < 2 => shown'[i] = shown[i] + (IF i \in Paging!Items(found) THEN 1 ELSE 0)
  BY <1>1, Counted
<1>4. cursor' \in [at: Paging!Times, id: Ids] \cup {Paging!NoCursor}
  <2>1. CASE Paging!NextCursor(found) = Paging!NoCursor
    BY <2>1
  <2>2. CASE Paging!NextCursor(found) # Paging!NoCursor
    BY <1>1, <1>2, <2>2, Encoded
  <2>3. QED BY <2>1, <2>2
<1>5. RowsDated' /\ stable' \subseteq Paging!Visible'
  BY <1>1, SameView
<1>6. PagingTyped'
  BY <1>1, <1>3, <1>4, <1>5 DEF PagingTyped, Paging!NoCursor, Paging!Times
<1>7. ASSUME NEW i \in stable'
      PROVE  Told(i)' /\ shown'[i] = IF walk' = "on" /\ Paging!Beyond(i, cursor') THEN 0 ELSE 1
  <2>1. i \in Ids /\ Told(i) /\ Told(i)' /\ i \in Paging!Visible
    BY <1>1, <1>7, SameView
  <2>2. shown'[i] = (IF i \in After(c) THEN 0 ELSE 1) + (IF i \in Paging!Items(found) THEN 1 ELSE 0)
    BY <1>3, <1>7, <2>1
  <2>3. CASE Paging!NextCursor(found) = Paging!NoCursor
    BY <1>2, <1>7, <2>1, <2>2, <2>3
  <2>4. CASE Paging!NextCursor(found) # Paging!NoCursor
    <3>1. PICK l \in After(c) : /\ cursor' = Paging!EncodeCursor(l) /\ l \in Paging!Visible
                                /\ i \in After(c) => (i \in Paging!Items(found) <=> ~Paging!Before(l, i))
      BY <1>1, <1>2, <1>7, <2>4
    <3>2. CASE i \in After(c)
      BY <1>1, <2>1, <2>2, <2>4, <3>1, <3>2, CursorTells
    <3>3. CASE i \notin After(c)
      <4>1. ~Paging!Beyond(i, c)
        BY <2>1, <3>3 DEF After
      <4>2. c # Paging!NoCursor
        BY <4>1 DEF Paging!Beyond
      <4>3. ~Paging!Beyond(i, cursor')
        BY <1>1, <2>1, <3>1, <4>1, <4>2, CursorGoesOn
      <4>4. shown'[i] = 1
        BY <1>2, <2>2, <3>3
      <4>5. QED BY <2>1, <4>3, <4>4
    <3>4. QED BY <3>2, <3>3
  <2>5. QED BY <2>3, <2>4
<1>8. Placed'
  BY <1>7, SameView DEF Placed
<1>9. QED BY <1>6, <1>8 DEF PagingInv, NothingYet

\* The first page, from an offset or not.
LEMMA FirstPageKeeps ==
    ASSUME PagingNames, PagingInv, NEW offset \in Offsets, Paging!FirstPage(offset)
    PROVE  PagingInv'
<1>1. PICK found : found = Paging!Page(Paging!NoCursor, Limit + 1, offset)
  OBVIOUS
<1>2. /\ walk = "new" /\ stable' = Paging!Owed({i \in Paging!Visible : Paging!Rank(Paging!Visible, i) >= offset}, rows)
      /\ shown' = Paging!Count(found) /\ cursor' = Paging!NextCursor(found)
      /\ walk' = IF Paging!NextCursor(found) = Paging!NoCursor THEN "over" ELSE "on"
      /\ UNCHANGED <<list, rows, changes>>
  BY <1>1 DEF Paging!FirstPage
<1>3. After(Paging!NoCursor) = Paging!Visible
  BY DEF After, Paging!Beyond
<1>4. offset \in Nat /\ Paging!Visible \subseteq Ids
  BY DEF PagingNames, Paging!Visible
<1>5. ASSUME NEW i \in stable'
      PROVE  i \in Paging!Visible /\ Told(i) /\ shown[i] = 0 /\ offset <= Paging!Rank(Paging!Visible, i)
  <2>1. /\ i \in {j \in Paging!Visible : Paging!Rank(Paging!Visible, j) >= offset} /\ Told(i)
    BY <1>2, <1>5, OwedTold DEF Told
  <2>2. Paging!Visible \in SUBSET Paging!Visible
    OBVIOUS
  <2>3. Paging!Rank(Paging!Visible, i) \in Nat
    BY <2>1, <2>2, DatedRows, Ranks DEF PagingInv, PagingTyped
  <2>4. QED BY <1>2, <1>4, <2>1, <2>3 DEF PagingInv, NothingYet
<1>6. stable' \subseteq Paging!Visible
  BY <1>5
<1>7. QED BY <1>1, <1>2, <1>3, <1>4, <1>5, <1>6, PageKeeps

\* Another page.
LEMMA MorePageKeeps ==
    ASSUME PagingNames, PagingInv, Paging!MorePage
    PROVE  PagingInv'
<1>1. PICK found : found = Paging!Page(cursor, Limit + 1, 0)
  OBVIOUS
<1>2. /\ walk = "on" /\ shown' = Paging!Count(found) /\ cursor' = Paging!NextCursor(found)
      /\ walk' = IF Paging!NextCursor(found) = Paging!NoCursor THEN "over" ELSE "on"
      /\ UNCHANGED <<list, rows, stable, changes>>
  BY <1>1 DEF Paging!MorePage
<1>3. RowsDated /\ stable \subseteq Paging!Visible /\ cursor \in [at: Paging!Times, id: Ids] \cup {Paging!NoCursor}
  BY DEF PagingInv, PagingTyped
<1>4. After(cursor) \in SUBSET Paging!Visible
  BY DEF After
<1>5. ASSUME NEW i \in After(cursor) PROVE 0 <= Paging!Rank(After(cursor), i)
  <2>1. Paging!Rank(After(cursor), i) \in Nat
    BY <1>3, <1>4, DatedRows, Ranks
  <2>2. QED BY <2>1
<1>6. ASSUME NEW i \in stable PROVE Told(i) /\ shown[i] = IF i \in After(cursor) THEN 0 ELSE 1
  BY <1>2, <1>3, <1>6 DEF PagingInv, Placed, After
<1>7. 0 \in Nat
  OBVIOUS
<1>8. QED BY <1>1, <1>2, <1>3, <1>5, <1>6, <1>7, PageKeeps

\* Between two pages rows come, go and move.
LEMMA RowsKeep ==
    ASSUME PagingNames, PagingInv, NEW i \in Ids, NEW t \in Paging!Dates \cup {Paging!Gone},
           rows' = [rows EXCEPT ![i] = t], stable' \subseteq stable \ {i}, walk = "on",
           \A j \in stable' : list.keeps = list.writes \/
             \A k \in Ids \ {j} : rows'[k] = Paging!Gone \/ Paging!Millisecond(rows'[k]) # Paging!Millisecond(rows'[j]),
           changes' \in 0..MaxChanges, UNCHANGED <<list, walk, cursor, shown>>
    PROVE  PagingInv'
<1>1. rows \in [Ids -> Paging!Dates \cup {Paging!Gone}] /\ list \in Paging!Lists
  BY DEF PagingInv, PagingTyped, RowsDated
<1>2. rows' \in [Ids -> Paging!Dates \cup {Paging!Gone}] /\ \A j \in Ids \ {i} : rows'[j] = rows[j]
  BY <1>1
<1>3. Paging!Dates' = Paging!Dates
  BY DEF Paging!Dates
<1>4. RowsDated'
  BY <1>1, <1>2, <1>3 DEF RowsDated
<1>5. ASSUME NEW j \in stable' PROVE j \in stable /\ j \in Ids /\ rows'[j] = rows[j] /\ j \in Paging!Visible'
  BY <1>2 DEF PagingInv, PagingTyped, Paging!Visible
<1>6. PagingTyped'
  BY <1>4, <1>5 DEF PagingInv, PagingTyped
<1>7. Placed'
  BY <1>5 DEF PagingInv, Placed, Told, Paging!Beyond
<1>8. QED BY <1>6, <1>7 DEF PagingInv, NothingYet

\* Every step keeps the invariant.
LEMMA PagingStep == ASSUME PagingNames, PagingInv, [Paging!Next]_(Paging!vars) PROVE PagingInv'
<1>0. /\ changes \in 0..MaxChanges /\ MaxChanges \in Nat /\ stable \subseteq Paging!Visible
      /\ rows \in [Ids -> Paging!Dates \cup {Paging!Gone}]
  BY DEF PagingInv, PagingTyped, PagingNames, RowsDated
<1>1. ASSUME NEW offset \in Offsets, Paging!FirstPage(offset) PROVE PagingInv'
  BY <1>1, FirstPageKeeps
<1>2. ASSUME Paging!MorePage PROVE PagingInv'
  BY <1>2, MorePageKeeps
<1>3. ASSUME NEW i \in Ids, NEW t \in Paging!Dates, Paging!Appears(i, t) PROVE PagingInv'
  <2>1. /\ walk = "on" /\ changes < MaxChanges /\ rows[i] = Paging!Gone /\ rows' = [rows EXCEPT ![i] = t]
        /\ stable' = Paging!Owed(stable, rows') /\ changes' = changes + 1 /\ UNCHANGED <<list, walk, cursor, shown>>
    BY <1>3 DEF Paging!Appears
  <2>2. i \notin stable /\ changes' \in 0..MaxChanges
    BY <1>0, <2>1 DEF Paging!Visible
  <2>3. /\ stable' \subseteq stable
        /\ \A j \in stable' : list.keeps = list.writes \/
             \A k \in Ids \ {j} : rows'[k] = Paging!Gone \/ Paging!Millisecond(rows'[k]) # Paging!Millisecond(rows'[j])
    BY <2>1, OwedNow
  <2>4. stable' \subseteq stable \ {i}
    BY <2>2, <2>3
  <2>5. QED BY <2>1, <2>2, <2>3, <2>4, RowsKeep
<1>4. ASSUME NEW i \in Ids, NEW t \in Paging!Dates, Paging!Moves(i, t) PROVE PagingInv'
  <2>1. /\ walk = "on" /\ changes < MaxChanges /\ rows' = [rows EXCEPT ![i] = t]
        /\ stable' = Paging!Owed(stable \ {i}, rows') /\ changes' = changes + 1 /\ UNCHANGED <<list, walk, cursor, shown>>
    BY <1>4 DEF Paging!Moves
  <2>2. changes' \in 0..MaxChanges
    BY <1>0, <2>1
  <2>3. /\ stable' \subseteq stable \ {i}
        /\ \A j \in stable' : list.keeps = list.writes \/
             \A k \in Ids \ {j} : rows'[k] = Paging!Gone \/ Paging!Millisecond(rows'[k]) # Paging!Millisecond(rows'[j])
    BY <2>1, OwedNow
  <2>4. QED BY <2>1, <2>2, <2>3, RowsKeep
<1>5. ASSUME NEW i \in Ids, Paging!Disappears(i) PROVE PagingInv'
  <2>1. /\ walk = "on" /\ changes < MaxChanges /\ rows' = [rows EXCEPT ![i] = Paging!Gone]
        /\ stable' = stable \ {i} /\ changes' = changes + 1 /\ UNCHANGED <<list, walk, cursor, shown>>
    BY <1>5 DEF Paging!Disappears
  <2>2. changes' \in 0..MaxChanges
    BY <1>0, <2>1
  <2>3. ASSUME NEW j \in stable', ~(list.keeps = list.writes), NEW k \in Ids \ {j}
        PROVE  rows'[k] = Paging!Gone \/ Paging!Millisecond(rows'[k]) # Paging!Millisecond(rows'[j])
    <3>1. j \in stable /\ j # i /\ j \in Ids
      BY <1>0, <2>1, <2>3 DEF Paging!Visible
    <3>2. rows'[j] = rows[j] /\ (rows'[k] = Paging!Gone \/ rows'[k] = rows[k])
      BY <1>0, <2>1, <3>1
    <3>3. rows[k] = Paging!Gone \/ Paging!Millisecond(rows[k]) # Paging!Millisecond(rows[j])
      BY <2>3, <3>1 DEF PagingInv, Placed, Told
    <3>4. QED BY <3>2, <3>3
  <2>4. \A j \in stable' : list.keeps = list.writes \/
          \A k \in Ids \ {j} : rows'[k] = Paging!Gone \/ Paging!Millisecond(rows'[k]) # Paging!Millisecond(rows'[j])
    BY <2>3
  <2>5. QED BY <2>1, <2>2, <2>4, RowsKeep
<1>6. ASSUME UNCHANGED Paging!vars PROVE PagingInv'
  <2>1. UNCHANGED <<list, rows, walk, cursor, shown, stable, changes>>
    BY <1>6 DEF Paging!vars
  <2>2. QED BY <2>1, SameView DEF PagingInv, PagingTyped, NothingYet, Placed
<1>7. QED BY <1>1, <1>2, <1>3, <1>4, <1>5, <1>6 DEF Paging!Next

\* The paginated lists, for any number of rows, any limit, offset and dates, and any
\* number of changes: a walk shows a row that stays where it is on one page at most,
\* and when its cursor is null it has shown it.
THEOREM ListsSound == ASSUME PagingNames PROVE Paging!Spec => []ListsConsistent
<1>1. Paging!Init => PagingInv
  BY PagingStarts
<1>2. PagingInv /\ [Paging!Next]_(Paging!vars) => PagingInv'
  BY PagingStep
<1>3. PagingInv => ListsConsistent
  BY PagingHolds DEF ListsConsistent
<1>4. QED BY <1>1, <1>2, <1>3, PTL DEF Paging!Spec

=============================================================================
