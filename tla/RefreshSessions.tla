--------------------------- MODULE RefreshSessions ---------------------------
(***************************************************************************)
(* Mobile sessions: the tables refresh_token_family, refresh_tokens and    *)
(* device_token, and the transactions of RefreshSessionRepository,         *)
(* MobileRepository, the ban and the account deletion that share the lock  *)
(* on user_account.                                                        *)
(*                                                                         *)
(* A request first reads without a lock (the account found by verifyOtp,   *)
(* the family checked by the guard, the candidate token of lockToken) and  *)
(* later runs one transaction under the account lock, which is one step.   *)
(* Everything may happen in between.  A refresh token with a wrong secret  *)
(* is rejected by the first read and has no action.                        *)
(*                                                                         *)
(* Expiry dates are kept as an order: all refresh tokens have the same     *)
(* lifetime, so the tokens of a family expire in the order they were       *)
(* issued (gen), and expires_at of a family is that of one of its tokens   *)
(* (until).                                                                *)
(***************************************************************************)
EXTENDS Integers, FiniteSets

CONSTANTS
    Users, Families, Tokens, Devices,   \* ids; the first two are random UUIDs
    Clients,                            \* concurrent HTTP requests
    NoFamily, NoToken, NoUser

ASSUME ConstantsAssumption ==
    NoFamily \notin Families /\ NoToken \notin Tokens /\ NoUser \notin Users

VARIABLES
    account,    \* account[u]: is_banned and deleted_at
    family,     \* refresh_token_family
    token,      \* refresh_tokens
    device,     \* device_token, by its push token
    request,    \* request[c]: what request c has read so far
    uses        \* history: rotate transactions that found the stored token, up to 2

vars == <<account, family, token, device, request, uses>>

-----------------------------------------------------------------------------

\* user_id of a family and family_id of a token never change; they are kept
\* when the row is deleted ("gone").
Family == [status: {"none", "active", "revoked", "gone"}, user: Users \cup {NoUser},
           until: Tokens \cup {NoToken}]

\* live: revoked = false.  rotated and revoked: revoked = true, with and
\* without rotated_at.
Token == [status: {"none", "live", "rotated", "revoked", "gone"},
          family: Families \cup {NoFamily}, gen: Nat, expired: BOOLEAN]

\* A device registered before sessions existed has no session.
Device == [user: Users \cup {NoUser}, session: Families \cup {NoFamily}]

\* seen: the status of the candidate token at the unlocked read.
Request == [op: {"idle", "login", "refresh", "logout", "revoke", "register"},
            user: Users \cup {NoUser}, session: Families \cup {NoFamily},
            token: Tokens \cup {NoToken}, seen: {"none", "live", "rotated", "revoked"}]

NoRow == [user |-> NoUser, session |-> NoFamily]

Idle == [op |-> "idle", user |-> NoUser, session |-> NoFamily, token |-> NoToken, seen |-> "none"]

\* Every column has its type, and a stored token belongs to a stored family
\* (fk_refresh_family_owner): no deletion leaves a token behind.
TypeOK ==
    /\ account \in [Users -> {"active", "banned", "deleted"}]
    /\ family \in [Families -> Family]
    /\ token \in [Tokens -> Token]
    /\ device \in [Devices -> Device]
    /\ request \in [Clients -> Request]
    /\ uses \in [Tokens -> 0..2]
    /\ \A t \in Tokens : token[t].status \in {"live", "rotated", "revoked"} =>
         token[t].family \in Families /\ family[token[t].family].status \in {"active", "revoked"}

Init ==
    /\ account = [u \in Users |-> "active"]
    /\ family = [f \in Families |-> [status |-> "none", user |-> NoUser, until |-> NoToken]]
    /\ token = [t \in Tokens |->
                  [status |-> "none", family |-> NoFamily, gen |-> 0, expired |-> FALSE]]
    /\ device \in [Devices -> {NoRow} \cup {[user |-> u, session |-> NoFamily] : u \in Users}]
    /\ request = [c \in Clients |-> Idle]
    /\ uses = [t \in Tokens |-> 0]

-----------------------------------------------------------------------------
(* What the statements look up and write.                                  *)

Stored(t) == token[t].status \in {"live", "rotated", "revoked"}

TokensOf(f) == {t \in Tokens : Stored(t) /\ token[t].family = f}

FamiliesOf(u) == {f \in Families : family[f].user = u /\ family[f].status \in {"active", "revoked"}}

\* expires_at <= now.  Only expired tokens are purged from a stored family.
Expired(t) == t # NoToken => token[t].expired \/ token[t].status = "gone"

\* activeFamily, and the WHERE clauses of the guard and of registerDevice.
ActiveFamily(f) == family[f].status = "active" /\ ~Expired(family[f].until)

\* lockActiveAccount
ActiveAccount(u) == account[u] = "active"

DevicesIn(F) == {d \in Devices : device[d].session \in F}

DevicesOf(u) == {d \in Devices : device[d].user = u}

WithoutDevices(D) == [d \in Devices |-> IF d \in D THEN NoRow ELSE device[d]]

\* revokeFamilies: the families, their live tokens and the devices D.
RevokeFamilies(F, D) ==
    /\ family' = [f \in Families |-> IF f \in F /\ family[f].status = "active"
                                     THEN [family[f] EXCEPT !.status = "revoked"] ELSE family[f]]
    /\ token' = [t \in Tokens |-> IF token[t].family \in F /\ token[t].status = "live"
                                  THEN [token[t] EXCEPT !.status = "revoked"] ELSE token[t]]
    /\ device' = WithoutDevices(D)

\* DELETE FROM refresh_token_family: tokens and devices follow by cascade.
DeleteFamilies(F) ==
    /\ family' = [f \in Families |-> IF f \in F THEN [family[f] EXCEPT !.status = "gone"]
                                     ELSE family[f]]
    /\ token' = [t \in Tokens |-> IF token[t].family \in F THEN [token[t] EXCEPT !.status = "gone"]
                                  ELSE token[t]]
    /\ device' = WithoutDevices(DevicesIn(F))

\* insertToken
NewToken(f, gen) == [status |-> "live", family |-> f, gen |-> gen, expired |-> FALSE]

Done(c) == request' = [request EXCEPT ![c] = Idle]

\* The transaction found nothing to do and the request is refused.
Refused(c) == Done(c) /\ UNCHANGED <<account, family, token, device, uses>>

-----------------------------------------------------------------------------
(* Login.                                                                  *)

\* verifyOtp: the code was consumed and the account is not banned.
VerifyOtp(c, u) ==
    /\ request[c].op = "idle"
    /\ account[u] = "active"
    /\ request' = [request EXCEPT ![c] = [Idle EXCEPT !.op = "login", !.user = u]]
    /\ UNCHANGED <<account, family, token, device, uses>>

\* Mutant: create trusts the account that verifyOtp read.
CreateUnlocked(c) ==
    /\ request[c].op = "login"
    /\ \E f \in Families, t \in Tokens :
         /\ family[f].status = "none" /\ token[t].status = "none"
         /\ family' = [family EXCEPT ![f] =
                         [status |-> "active", user |-> request[c].user, until |-> t]]
         /\ token' = [token EXCEPT ![t] = NewToken(f, 1)]
    /\ Done(c)
    /\ UNCHANGED <<account, device, uses>>

Create(c) ==
    /\ request[c].op = "login"
    /\ \/ ~ActiveAccount(request[c].user) /\ Refused(c)
       \/ /\ ActiveAccount(request[c].user)
          /\ \E f \in Families, t \in Tokens :
               /\ family[f].status = "none" /\ token[t].status = "none"
               /\ family' = [family EXCEPT ![f] =
                               [status |-> "active", user |-> request[c].user, until |-> t]]
               /\ token' = [token EXCEPT ![t] = NewToken(f, 1)]
          /\ Done(c)
          /\ UNCHANGED <<account, device, uses>>

-----------------------------------------------------------------------------
(* Refresh.                                                                *)

\* The unlocked read of lockToken finds the token and the secret matches.
Present(c, t) ==
    /\ request[c].op = "idle"
    /\ Stored(t)
    /\ request' = [request EXCEPT ![c] =
                     [op |-> "refresh", user |-> family[token[t].family].user,
                      session |-> token[t].family, token |-> t, seen |-> token[t].status]]
    /\ UNCHANGED <<account, family, token, device, uses>>

\* Mutant: the candidate is not read again under the lock.
RereadCandidate(c) == request[c].seen

\* The status of the token when it is read again under the lock.
Reread(c) == token[request[c].token].status

\* lockToken returns the stored, unexpired token of an active account.
TokenLocked(c) ==
    /\ ActiveAccount(request[c].user)
    /\ Stored(request[c].token) /\ ~Expired(request[c].token)

CountUse(t) == uses' = [uses EXCEPT ![t] = IF @ < 2 THEN @ + 1 ELSE 2]

\* UPDATE refresh_token_family SET last_refreshed_at, expires_at
Extend(f, next) == family' = [family EXCEPT ![f].until = next]

\* The token is consumed and its child issued, or its replay revokes the family.
Rotate(c) ==
    LET t == request[c].token  f == request[c].session IN
    /\ request[c].op = "refresh"
    /\ \/ ~TokenLocked(c) /\ Refused(c)
       \/ /\ TokenLocked(c) /\ (~ActiveFamily(f) \/ Reread(c) = "revoked")
          /\ CountUse(t) /\ Done(c)
          /\ UNCHANGED <<account, family, token, device>>
       \/ /\ TokenLocked(c) /\ ActiveFamily(f) /\ Reread(c) = "rotated"
          /\ RevokeFamilies({f}, DevicesIn({f}))
          /\ CountUse(t) /\ Done(c)
          /\ UNCHANGED account
       \/ /\ TokenLocked(c) /\ ActiveFamily(f) /\ Reread(c) = "live"
          /\ \E next \in Tokens :
               /\ token[next].status = "none"
               /\ token' = [token EXCEPT ![t].status = "rotated",
                                         ![next] = NewToken(f, token[t].gen + 1)]
               /\ Extend(f, next)
          /\ CountUse(t) /\ Done(c)
          /\ UNCHANGED <<account, device>>

-----------------------------------------------------------------------------
(* Requests with an access token.                                          *)

\* AuthGuard: the family of the access token is active, the account too.
Admit(c, op, f) ==
    /\ request[c].op = "idle"
    /\ ActiveFamily(f) /\ ActiveAccount(family[f].user)
    /\ request' = [request EXCEPT ![c] =
                     [Idle EXCEPT !.op = op, !.user = family[f].user, !.session = f]]
    /\ UNCHANGED <<account, family, token, device, uses>>

\* The unlocked read of lockToken for a logout; another owner's token is refused.
PresentLogout(c, t) ==
    /\ request[c].op = "logout" /\ request[c].token = NoToken
    /\ Stored(t)
    /\ \/ /\ family[token[t].family].user = request[c].user
          /\ request' = [request EXCEPT ![c].token = t]
       \/ /\ family[token[t].family].user # request[c].user
          /\ Done(c)
    /\ UNCHANGED <<account, family, token, device, uses>>

\* Any stored, unexpired token of the session will do, and one device of the
\* account may be removed along with those of the session.
Logout(c) ==
    LET t == request[c].token  f == request[c].session IN
    /\ request[c].op = "logout" /\ t # NoToken
    /\ \/ ~(TokenLocked(c) /\ token[t].family = f /\ ActiveFamily(f)) /\ Refused(c)
       \/ /\ TokenLocked(c) /\ token[t].family = f /\ ActiveFamily(f)
          /\ \E D \in SUBSET DevicesOf(request[c].user) :
               /\ Cardinality(D) <= 1
               /\ RevokeFamilies({f}, DevicesIn({f}) \cup D)
          /\ Done(c)
          /\ UNCHANGED <<account, uses>>

\* revoke with a target: revokeSession.  The target may be revoked already.
RevokeSession(c, target) ==
    /\ request[c].op = "revoke"
    /\ \/ ~(ActiveAccount(request[c].user) /\ ActiveFamily(request[c].session)
            /\ target \in FamiliesOf(request[c].user)) /\ Refused(c)
       \/ /\ ActiveAccount(request[c].user) /\ ActiveFamily(request[c].session)
          /\ target \in FamiliesOf(request[c].user)
          /\ RevokeFamilies({target}, DevicesIn({target}))
          /\ Done(c)
          /\ UNCHANGED <<account, uses>>

\* revoke without a target: logoutAll.
LogoutAll(c) ==
    LET u == request[c].user IN
    /\ request[c].op = "revoke"
    /\ \/ ~(ActiveAccount(u) /\ ActiveFamily(request[c].session)) /\ Refused(c)
       \/ /\ ActiveAccount(u) /\ ActiveFamily(request[c].session)
          /\ RevokeFamilies(FamiliesOf(u), DevicesOf(u))
          /\ Done(c)
          /\ UNCHANGED <<account, uses>>

\* Mutant: registerDevice relies on the guard for the state of the session.
RegisterUnchecked(c, d) ==
    /\ request[c].op = "register"
    /\ family[request[c].session].status # "gone"
    /\ device' = [device EXCEPT ![d] =
                    [user |-> request[c].user, session |-> request[c].session]]
    /\ Done(c)
    /\ UNCHANGED <<account, family, token, uses>>

\* A push token registered by someone else changes hands.
RegisterDevice(c, d) ==
    /\ request[c].op = "register"
    /\ \/ ~(ActiveAccount(request[c].user) /\ ActiveFamily(request[c].session)) /\ Refused(c)
       \/ /\ ActiveAccount(request[c].user) /\ ActiveFamily(request[c].session)
          /\ device' = [device EXCEPT ![d] =
                          [user |-> request[c].user, session |-> request[c].session]]
          /\ Done(c)
          /\ UNCHANGED <<account, family, token, uses>>

\* removeDevice by its owner, removeToken when FCM no longer knows it.
RemoveDevice(d) ==
    /\ device[d] # NoRow
    /\ device' = [device EXCEPT ![d] = NoRow]
    /\ UNCHANGED <<account, family, token, request, uses>>

\* The connection or the process dies: an open transaction is rolled back.
Abandon(c) == request[c].op # "idle" /\ Refused(c)

-----------------------------------------------------------------------------
(* Bans, erasure and maintenance.                                          *)

\* setUserBan; a ban may be repeated.
Ban(u) ==
    /\ account[u] # "deleted"
    /\ account' = [account EXCEPT ![u] = "banned"]
    /\ RevokeFamilies(FamiliesOf(u), DevicesOf(u))
    /\ UNCHANGED <<request, uses>>

Unban(u) ==
    /\ account[u] = "banned"
    /\ account' = [account EXCEPT ![u] = "active"]
    /\ UNCHANGED <<family, token, device, request, uses>>

\* enqueueAccountErasure sets deleted_at; the trigger deletes the sessions.
Deactivate(u) ==
    /\ account[u] # "deleted"
    /\ account' = [account EXCEPT ![u] = "deleted"]
    /\ DeleteFamilies(FamiliesOf(u))
    /\ UNCHANGED <<request, uses>>

\* fct_anonymize_user: devices that never had a session go last.
Anonymize(u) ==
    /\ account[u] = "deleted"
    /\ DevicesOf(u) # {}
    /\ device' = WithoutDevices(DevicesOf(u))
    /\ UNCHANGED <<account, family, token, request, uses>>

\* Tokens of a family expire in the order of their issue.
TokenExpires(t) ==
    /\ Stored(t) /\ ~token[t].expired
    /\ \A s \in TokensOf(token[t].family) : token[s].gen < token[t].gen => token[s].expired
    /\ token' = [token EXCEPT ![t].expired = TRUE]
    /\ UNCHANGED <<account, family, device, request, uses>>

\* A batch of the privacy maintenance; children of a purged token remain.
PurgeTokens(S) ==
    /\ S # {}
    /\ token' = [t \in Tokens |-> IF t \in S THEN [token[t] EXCEPT !.status = "gone"] ELSE token[t]]
    /\ UNCHANGED <<account, family, device, request, uses>>

\* Only expired families without tokens are deleted.
PurgeFamily(f) ==
    /\ family[f].status \in {"active", "revoked"}
    /\ Expired(family[f].until)
    /\ TokensOf(f) = {}
    /\ DeleteFamilies({f})
    /\ UNCHANGED <<account, request, uses>>

-----------------------------------------------------------------------------

Http(c) ==
    \/ \E u \in Users : VerifyOtp(c, u)
    \/ Create(c) \/ Rotate(c) \/ Logout(c) \/ LogoutAll(c) \/ Abandon(c)
    \/ \E t \in Tokens : Present(c, t) \/ PresentLogout(c, t)
    \/ \E f \in Families, op \in {"logout", "revoke", "register"} : Admit(c, op, f)
    \/ \E f \in Families : RevokeSession(c, f)
    \/ \E d \in Devices : RegisterDevice(c, d)

Operator(u) == Ban(u) \/ Unban(u) \/ Deactivate(u) \/ Anonymize(u)

Maintenance ==
    \/ \E t \in Tokens : TokenExpires(t)
    \/ \E S \in SUBSET {t \in Tokens : Stored(t) /\ token[t].expired} : PurgeTokens(S)
    \/ \E f \in Families : PurgeFamily(f)

Next ==
    \/ \E c \in Clients : Http(c)
    \/ \E d \in Devices : RemoveDevice(d)
    \/ \E u \in Users : Operator(u)
    \/ Maintenance

Spec == Init /\ [][Next]_vars

-----------------------------------------------------------------------------
(* Properties.                                                             *)

\* "deux demandes avec le même token provoquent une révocation": however the
\* unlocked reads, the transactions and the expiry of two refreshes of the
\* same unexpired token interleave, the second one leaves the session closed.
DoubleUseRevokes ==
    \A t \in Tokens : uses[t] = 2 => family[token[t].family].status \in {"revoked", "gone"}

\* The unique indexes uq_refresh_family_active and uq_refresh_token_child are
\* never what stops a transaction: a session has at most one live token, and
\* no two tokens of a session are children of the same one.
OneLineage ==
    \A s, t \in Tokens : s # t /\ Stored(s) /\ Stored(t) /\ token[s].family = token[t].family =>
        /\ token[s].gen # token[t].gen
        /\ ~(token[s].status = "live" /\ token[t].status = "live")

\* A live token can be used until it expires: its session is active and
\* expires with it, so no client is signed out early, and no revocation
\* leaves a live token behind.
LiveTokenUsable ==
    \A t \in Tokens : token[t].status = "live" =>
        family[token[t].family].status = "active" /\ family[token[t].family].until = t

\* A push registration that belongs to a session disappears with it, and
\* belongs to the account of the session.
DevicesFollowSession ==
    \A d \in Devices : device[d].session # NoFamily =>
        /\ family[device[d].session].status = "active"
        /\ family[device[d].session].user = device[d].user

\* No banned or deleted account has an active session, so that lifting the
\* ban revives nothing, even for a login or refresh under way during the ban.
ClosedAccountNoSession ==
    \A f \in Families : family[f].status = "active" => account[family[f].user] = "active"

=============================================================================
