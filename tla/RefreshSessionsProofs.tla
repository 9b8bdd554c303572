----------------------- MODULE RefreshSessionsProofs -----------------------
(***************************************************************************)
(* Proofs about RefreshSessions, for any number of users, sessions,        *)
(* tokens, devices and concurrent requests.                                *)
(*                                                                         *)
(* The properties rest on one inductive invariant.  What DoubleUseRevokes  *)
(* needs beyond the other properties is that an unexpired token has an     *)
(* unexpired session (Outlives), which in turn needs that the token whose  *)
(* date the session carries is the newest of its lineage (Newest).         *)
(*                                                                         *)
(* Three parts about Services follow: RetentionMaintenance, which deletes  *)
(* sessions and tokens, for any number of processes, rows and faults, and  *)
(* any bounds on a batch and on a pass; DiscoveryFeed, for any number of   *)
(* candidates and distances, and any bounds on a page, a batch and a       *)
(* request; and DataExport, for any number of requests, collections, rows  *)
(* and faults, and any bounds on a page, a document and the exports.       *)
(***************************************************************************)
EXTENDS RefreshSessions, Services, Sequences, FiniteSetTheorems, WellFoundedInduction, TLAPS

\* The types without the foreign key.
Typed ==
    /\ account \in [Users -> {"active", "banned", "deleted"}]
    /\ family \in [Families -> Family]
    /\ token \in [Tokens -> Token]
    /\ device \in [Devices -> Device]
    /\ request \in [Clients -> Request]
    /\ uses \in [Tokens -> 0..2]

\* Ids that were issued point at each other.
Linked ==
    /\ \A t \in Tokens : token[t].status = "none" => token[t].family = NoFamily
    /\ \A t \in Tokens : token[t].status # "none" =>
         token[t].family \in Families /\ family[token[t].family].status # "none"
    /\ \A f \in Families : family[f].status # "none" =>
         /\ family[f].user \in Users
         /\ family[f].until \in Tokens
         /\ token[family[f].until].status # "none"
         /\ token[family[f].until].family = f

\* Stored tokens have a stored family.
Owned == \A t \in Tokens : Stored(t) => family[token[t].family].status \in {"active", "revoked"}

\* The token whose date the session carries is the last one issued.
Newest ==
    \A t \in Tokens : token[t].status # "none" /\ t # family[token[t].family].until =>
        token[t].gen < token[family[token[t].family].until].gen

\* Every token of a session has its own generation.
Generations ==
    \A s, t \in Tokens : s # t /\ token[s].status # "none" /\ token[t].status # "none"
                         /\ token[s].family = token[t].family => token[s].gen # token[t].gen

\* A session does not expire before one of its tokens.
Outlives == \A t \in Tokens : Stored(t) /\ ~token[t].expired => ~Expired(family[token[t].family].until)

\* Tokens are revoked without rotation only with their session.
RevokedTogether ==
    \A t \in Tokens : token[t].status = "revoked" => family[token[t].family].status # "active"

\* A token that was used is consumed or closed.
UsedConsumed == \A t \in Tokens : uses[t] # 0 => token[t].status \notin {"none", "live"}

\* What a request has read, other than the status, cannot change.
RequestOf(r) ==
    /\ r.op # "idle" => r.user \in Users
    /\ r.op \notin {"idle", "login"} =>
         /\ r.session \in Families
         /\ family[r.session].status # "none"
         /\ family[r.session].user = r.user
    /\ r.op = "refresh" =>
         /\ r.token \in Tokens
         /\ token[r.token].status # "none"
         /\ token[r.token].family = r.session

\* Every request remembers what is still true of columns that never change.
RequestsConsistent == \A c \in Clients : RequestOf(request[c])

\* How the tokens of a session follow each other.
Lineage == Linked /\ Owned /\ Newest /\ Generations /\ Outlives

\* What is left of a session that is used, replayed or closed.
Closing == LiveTokenUsable /\ RevokedTogether /\ UsedConsumed /\ DoubleUseRevokes

\* The inductive invariant.
IInv == /\ Typed /\ Lineage /\ Closing
        /\ DevicesFollowSession /\ ClosedAccountNoSession /\ RequestsConsistent

-----------------------------------------------------------------------------
(* Type correctness.                                                       *)

\* What a transaction writes in a family, a token or a request is well typed.
LEMMA Rows ==
    /\ NoRow \in Device /\ Idle \in Request
    /\ \A u \in Users, f \in Families : [user |-> u, session |-> f] \in Device
    /\ \A u \in Users, t \in Tokens : [status |-> "active", user |-> u, until |-> t] \in Family
    /\ \A f \in Families, n \in Nat : NewToken(f, n) \in Token
    /\ \A r \in Family : /\ [r EXCEPT !.status = "revoked"] \in Family
                         /\ [r EXCEPT !.status = "gone"] \in Family
                         /\ \A t \in Tokens : [r EXCEPT !.until = t] \in Family
    /\ \A r \in Token : /\ [r EXCEPT !.status = "revoked"] \in Token
                        /\ [r EXCEPT !.status = "rotated"] \in Token
                        /\ [r EXCEPT !.status = "gone"] \in Token
                        /\ [r EXCEPT !.expired = TRUE] \in Token
                        /\ r.gen + 1 \in Nat
<1>1. NoRow \in Device /\ \A u \in Users, f \in Families : [user |-> u, session |-> f] \in Device
  BY DEF NoRow, Device
<1>2. Idle \in Request
  BY DEF Idle, Request
<1>3. \A u \in Users, t \in Tokens : [status |-> "active", user |-> u, until |-> t] \in Family
  BY DEF Family
<1>4. \A f \in Families, n \in Nat : NewToken(f, n) \in Token
  BY DEF Token, NewToken
<1>5. ASSUME NEW r \in Family
      PROVE  /\ [r EXCEPT !.status = "revoked"] \in Family
             /\ [r EXCEPT !.status = "gone"] \in Family
             /\ \A t \in Tokens : [r EXCEPT !.until = t] \in Family
  BY DEF Family
<1>6. ASSUME NEW r \in Token
      PROVE  /\ [r EXCEPT !.status = "revoked"] \in Token
             /\ [r EXCEPT !.status = "rotated"] \in Token
             /\ [r EXCEPT !.status = "gone"] \in Token
             /\ [r EXCEPT !.expired = TRUE] \in Token
             /\ r.gen + 1 \in Nat
  <2>1. [r EXCEPT !.status = "revoked"] \in Token
    BY DEF Token
  <2>2. [r EXCEPT !.status = "rotated"] \in Token
    BY DEF Token
  <2>3. [r EXCEPT !.status = "gone"] \in Token
    BY DEF Token
  <2>4. [r EXCEPT !.expired = TRUE] \in Token
    BY DEF Token
  <2>5. r.gen + 1 \in Nat
    BY DEF Token
  <2>6. QED BY <2>1, <2>2, <2>3, <2>4, <2>5
<1>7. QED BY <1>1, <1>2, <1>3, <1>4, <1>5, <1>6

\* Revoking and deleting families keep the tables well typed.
LEMMA BulkTyped ==
    ASSUME Typed, NEW F, NEW D, RevokeFamilies(F, D) \/ DeleteFamilies(F)
    PROVE  /\ family' \in [Families -> Family]
           /\ token' \in [Tokens -> Token]
           /\ device' \in [Devices -> Device]
<1>1. CASE RevokeFamilies(F, D)
  <2>1. family' \in [Families -> Family]
    BY <1>1, Rows DEF RevokeFamilies, Typed
  <2>2. token' \in [Tokens -> Token]
    BY <1>1, Rows DEF RevokeFamilies, Typed
  <2>3. device' \in [Devices -> Device]
    BY <1>1, Rows DEF RevokeFamilies, WithoutDevices, Typed
  <2>4. QED BY <2>1, <2>2, <2>3
<1>2. CASE DeleteFamilies(F)
  <2>1. family' \in [Families -> Family]
    BY <1>2, Rows DEF DeleteFamilies, Typed
  <2>2. token' \in [Tokens -> Token]
    BY <1>2, Rows DEF DeleteFamilies, Typed
  <2>3. device' \in [Devices -> Device]
    BY <1>2, Rows DEF DeleteFamilies, WithoutDevices, Typed
  <2>4. QED BY <2>1, <2>2, <2>3
<1>3. QED BY <1>1, <1>2

-----------------------------------------------------------------------------
(* What the statements change, row by row.                                 *)

\* Columns of a token and of a family that no bulk statement touches.
SameToken(t) == /\ token'[t].family = token[t].family
                /\ token'[t].gen = token[t].gen
                /\ token'[t].expired = token[t].expired

\* A step leaves the owner and the expiry of f alone.
SameFamily(f) == family'[f].user = family[f].user /\ family'[f].until = family[f].until

\* Ids once issued keep their owner.
Persist ==
    /\ \A f \in Families : family[f].status # "none" =>
         family'[f].status # "none" /\ family'[f].user = family[f].user
    /\ \A t \in Tokens : token[t].status # "none" =>
         token'[t].status # "none" /\ token'[t].family = token[t].family

\* Closed sessions stay closed and tokens already used stay used.
StaysClosed ==
    /\ \A f \in Families : family[f].status \in {"revoked", "gone"} =>
         family'[f].status \in {"revoked", "gone"}
    /\ \A t \in Tokens : token[t].status \notin {"none", "live"} =>
         token'[t].status \notin {"none", "live"}

\* revokeFamilies, row by row.
LEMMA RevokeEffect ==
    ASSUME Typed, NEW F, NEW D, RevokeFamilies(F, D)
    PROVE  /\ \A f \in Families : /\ SameFamily(f)
                                   /\ family'[f].status = IF f \in F /\ family[f].status = "active"
                                                          THEN "revoked" ELSE family[f].status
           /\ \A t \in Tokens : /\ SameToken(t)
                                 /\ token'[t].status = IF token[t].family \in F /\ token[t].status = "live"
                                                       THEN "revoked" ELSE token[t].status
           /\ \A d \in Devices : device'[d] = IF d \in D THEN NoRow ELSE device[d]
<1>1. ASSUME NEW f \in Families
      PROVE  /\ SameFamily(f)
             /\ family'[f].status = IF f \in F /\ family[f].status = "active"
                                    THEN "revoked" ELSE family[f].status
  BY DEF RevokeFamilies, Typed, Family, SameFamily
<1>2. ASSUME NEW t \in Tokens
      PROVE  /\ SameToken(t)
             /\ token'[t].status = IF token[t].family \in F /\ token[t].status = "live"
                                   THEN "revoked" ELSE token[t].status
  BY DEF RevokeFamilies, Typed, Token, SameToken
<1>3. \A d \in Devices : device'[d] = IF d \in D THEN NoRow ELSE device[d]
  BY DEF RevokeFamilies, WithoutDevices
<1>4. QED BY <1>1, <1>2, <1>3

\* A cascading deletion, row by row.
LEMMA DeleteEffect ==
    ASSUME Typed, NEW F, DeleteFamilies(F)
    PROVE  /\ \A f \in Families : /\ SameFamily(f)
                                   /\ family'[f].status = IF f \in F THEN "gone" ELSE family[f].status
           /\ \A t \in Tokens : /\ SameToken(t)
                                 /\ token'[t].status = IF token[t].family \in F THEN "gone" ELSE token[t].status
           /\ \A d \in Devices : device'[d] = IF device[d].session \in F THEN NoRow ELSE device[d]
<1>1. ASSUME NEW f \in Families
      PROVE  /\ SameFamily(f)
             /\ family'[f].status = IF f \in F THEN "gone" ELSE family[f].status
  BY DEF DeleteFamilies, Typed, Family, SameFamily
<1>2. ASSUME NEW t \in Tokens
      PROVE  /\ SameToken(t)
             /\ token'[t].status = IF token[t].family \in F THEN "gone" ELSE token[t].status
  BY DEF DeleteFamilies, Typed, Token, SameToken
<1>3. \A d \in Devices : device'[d] = IF device[d].session \in F THEN NoRow ELSE device[d]
  BY DEF DeleteFamilies, WithoutDevices, DevicesIn
<1>4. QED BY <1>1, <1>2, <1>3

-----------------------------------------------------------------------------
(* Each kind of change keeps the tables consistent.                        *)

\* The part of the invariant about families and tokens alone.
Tables == Lineage /\ LiveTokenUsable /\ RevokedTogether

\* Used tokens and doubly used families are only ever closed further.
LEMMA UsesKept ==
    ASSUME UsedConsumed, DoubleUseRevokes, StaysClosed, Persist, Linked, UNCHANGED uses
    PROVE  UsedConsumed' /\ DoubleUseRevokes'
<1>1. UsedConsumed'
  BY DEF UsedConsumed, StaysClosed
<1>2. ASSUME NEW t \in Tokens, uses[t] = 2
      PROVE  family'[token'[t].family].status \in {"revoked", "gone"}
  <2>1. token[t].status # "none" /\ family[token[t].family].status \in {"revoked", "gone"}
    BY <1>2 DEF UsedConsumed, DoubleUseRevokes
  <2>2. token[t].family \in Families /\ token'[t].family = token[t].family
    BY <2>1 DEF Linked, Persist
  <2>3. QED BY <2>1, <2>2 DEF StaysClosed
<1>3. QED BY <1>1, <1>2 DEF DoubleUseRevokes

\* revokeFamilies keeps the tables consistent and closes the families.
LEMMA RevokeKeeps ==
    ASSUME Typed, Tables, NEW F, NEW D, RevokeFamilies(F, D)
    PROVE  /\ Tables' /\ Persist /\ StaysClosed
           /\ \A f \in Families : family'[f].status = "active" =>
                family[f].status = "active" /\ f \notin F
<1> USE DEF Tables, Lineage
<1>1. Persist /\ StaysClosed
  BY RevokeEffect DEF Persist, StaysClosed, SameToken, SameFamily
<1>2. \A f \in Families : family'[f].status = "active" => family[f].status = "active" /\ f \notin F
  BY RevokeEffect
<1>3. Linked'
  BY RevokeEffect DEF Linked, SameToken, SameFamily
<1>4. Owned'
  BY RevokeEffect DEF Owned, Stored, Linked, SameToken, SameFamily
<1>5. Newest'
  BY RevokeEffect DEF Newest, Linked, SameToken, SameFamily
<1>6. Generations'
  BY RevokeEffect DEF Generations, SameToken
<1>7. Outlives'
  BY RevokeEffect, ConstantsAssumption DEF Outlives, Stored, Expired, Linked, SameToken, SameFamily
<1>8. LiveTokenUsable'
  BY RevokeEffect DEF LiveTokenUsable, Linked, SameToken, SameFamily
<1>9. RevokedTogether'
  BY RevokeEffect DEF RevokedTogether, LiveTokenUsable, Linked, SameToken, SameFamily
<1>10. QED BY <1>1, <1>2, <1>3, <1>4, <1>5, <1>6, <1>7, <1>8, <1>9

\* So does a cascading deletion of stored families.
LEMMA DeleteKeeps ==
    ASSUME Typed, Tables, NEW F \in SUBSET Families, DeleteFamilies(F),
           \A f \in F : family[f].status # "none"
    PROVE  /\ Tables' /\ Persist /\ StaysClosed
           /\ \A f \in Families : family'[f].status = "active" =>
                family[f].status = "active" /\ f \notin F
<1> USE DEF Tables, Lineage
<1>0. \A t \in Tokens : token[t].family \in F => token[t].status # "none"
  BY ConstantsAssumption DEF Linked
<1> USE <1>0
<1>1. Persist /\ StaysClosed
  BY DeleteEffect DEF Persist, StaysClosed, SameToken, SameFamily
<1>2. \A f \in Families : family'[f].status = "active" => family[f].status = "active" /\ f \notin F
  BY DeleteEffect
<1>3. Linked'
  BY DeleteEffect DEF Linked, SameToken, SameFamily
<1>4. Owned'
  BY DeleteEffect DEF Owned, Stored, Linked, SameToken, SameFamily
<1>5. Newest'
  BY DeleteEffect DEF Newest, Linked, SameToken, SameFamily
<1>6. Generations'
  BY DeleteEffect DEF Generations, Linked, SameToken
<1>7. Outlives'
  BY DeleteEffect, ConstantsAssumption DEF Outlives, Stored, Expired, Linked, SameToken, SameFamily
<1>8. LiveTokenUsable'
  BY DeleteEffect DEF LiveTokenUsable, Linked, SameToken, SameFamily
<1>9. RevokedTogether'
  BY DeleteEffect DEF RevokedTogether, Linked, SameToken, SameFamily
<1>10. QED BY <1>1, <1>2, <1>3, <1>4, <1>5, <1>6, <1>7, <1>8, <1>9

\* A new session and its first token, row by row.
CreateEffect(f, t, u) ==
    /\ family'[f].status = "active" /\ family'[f].user = u /\ family'[f].until = t
    /\ \A g \in Families : g # f => family'[g] = family[g]
    /\ token'[t].status = "live" /\ token'[t].family = f /\ token'[t].expired = FALSE
    /\ \A s \in Tokens : s # t => token'[s] = token[s]

\* A new session keeps the tables consistent.
LEMMA CreateKeeps ==
    ASSUME Typed, Tables, NEW f \in Families, NEW t \in Tokens, NEW u \in Users,
           family[f].status = "none", token[t].status = "none", CreateEffect(f, t, u)
    PROVE  Tables' /\ Persist /\ StaysClosed
<1> USE DEF Tables, Lineage
<1>1. /\ family'[f].status = "active" /\ family'[f].user = u /\ family'[f].until = t
      /\ \A g \in Families : g # f => family'[g] = family[g]
  BY DEF CreateEffect
<1>2. /\ token'[t].status = "live" /\ token'[t].family = f /\ token'[t].expired = FALSE
      /\ \A s \in Tokens : s # t => token'[s] = token[s]
  BY DEF CreateEffect
<1>3. \A s \in Tokens : token[s].status # "none" => token[s].family # f /\ token[s].family \in Families
  BY DEF Linked
<1>4. \A g \in Families : family[g].status # "none" => family[g].until # t
  BY DEF Linked
<1> HIDE DEF Tables, Lineage
<1>5. Linked /\ Owned /\ Newest /\ Generations /\ Outlives /\ LiveTokenUsable /\ RevokedTogether
  BY DEF Tables, Lineage
<1>6. Persist /\ StaysClosed
  BY <1>1, <1>2 DEF Persist, StaysClosed
<1>7. Linked'
  BY <1>1, <1>2, <1>3, <1>4, <1>5 DEF Linked
<1>8. Owned'
  BY <1>1, <1>2, <1>3, <1>5 DEF Owned, Stored
<1>9. Newest'
  BY <1>1, <1>2, <1>3, <1>4, <1>5 DEF Newest, Linked
<1>10. Generations'
  BY <1>1, <1>2, <1>3, <1>5 DEF Generations
<1>11. Outlives'
  BY <1>1, <1>2, <1>3, <1>4, <1>5, ConstantsAssumption DEF Outlives, Stored, Expired, Linked
<1>12. LiveTokenUsable'
  BY <1>1, <1>2, <1>3, <1>5 DEF LiveTokenUsable
<1>13. RevokedTogether'
  BY <1>1, <1>2, <1>3, <1>5 DEF RevokedTogether
<1>14. QED BY <1>6, <1>7, <1>8, <1>9, <1>10, <1>11, <1>12, <1>13 DEF Tables, Lineage

\* A rotation, row by row.
RotateEffect(t, next, f) ==
    /\ family'[f].status = family[f].status /\ family'[f].user = family[f].user
    /\ family'[f].until = next
    /\ \A g \in Families : g # f => family'[g] = family[g]
    /\ token'[t].status = "rotated" /\ token'[t].family = f /\ token'[t].gen = token[t].gen
    /\ token'[t].expired = token[t].expired
    /\ token'[next].status = "live" /\ token'[next].family = f
    /\ token'[next].gen = token[t].gen + 1 /\ token'[next].expired = FALSE
    /\ \A s \in Tokens : s \notin {t, next} => token'[s] = token[s]

\* In a rotation the live token is the newest and its child becomes the newest.
LEMMA RotateKeeps ==
    ASSUME Typed, Tables, NEW t \in Tokens, NEW next \in Tokens, NEW f \in Families,
           token[t].family = f, token[t].status = "live", token[next].status = "none",
           RotateEffect(t, next, f)
    PROVE  Tables' /\ Persist /\ StaysClosed
<1>0. Linked /\ Owned /\ Newest /\ Generations /\ Outlives /\ LiveTokenUsable /\ RevokedTogether
  BY DEF Tables, Lineage
<1>1. /\ family'[f].status = family[f].status /\ family'[f].user = family[f].user
      /\ family'[f].until = next
      /\ \A g \in Families : g # f => family'[g] = family[g]
  BY DEF RotateEffect
<1>2. /\ token'[t].status = "rotated" /\ token'[t].family = f /\ token'[t].gen = token[t].gen
      /\ token'[t].expired = token[t].expired
      /\ \A s \in Tokens : s \notin {t, next} => token'[s] = token[s]
  BY DEF RotateEffect
<1>3. /\ token'[next].status = "live" /\ token'[next].family = f
      /\ token'[next].gen = token[t].gen + 1 /\ token'[next].expired = FALSE
  BY DEF RotateEffect
<1>4. t # next /\ family[f].until = t /\ family[f].status = "active"
  BY <1>0 DEF LiveTokenUsable
<1>5. \A s \in Tokens : token[s].gen \in Nat
  BY DEF Typed, Token
<1>6. \A s \in Tokens : token[s].status # "none" /\ token[s].family = f /\ s # t => token[s].gen < token[t].gen
  BY <1>0, <1>4 DEF Newest
<1>7. \A s \in Tokens : token[s].status # "none" => token[s].family \in Families
  BY <1>0 DEF Linked
<1>8. \A g \in Families : family[g].status # "none" /\ g # f => family[g].until \notin {t, next}
  BY <1>0 DEF Linked
<1>9. Persist /\ StaysClosed
  BY <1>1, <1>2, <1>3 DEF Persist, StaysClosed
<1>10. Linked'
  BY <1>0, <1>1, <1>2, <1>3, <1>4, <1>8 DEF Linked
<1>11. Owned'
  BY <1>0, <1>1, <1>2, <1>3, <1>4, <1>7 DEF Owned, Stored
<1>12. Newest'
  <2>1. ASSUME NEW s \in Tokens, token'[s].status # "none", s # family'[token'[s].family].until
        PROVE  token'[s].gen < token'[family'[token'[s].family].until].gen
    <3>1. CASE token'[s].family = f
      BY <2>1, <3>1, <1>1, <1>2, <1>3, <1>5, <1>6
    <3>2. CASE token'[s].family # f
      <4>1. s \notin {t, next} /\ token'[s] = token[s] /\ token[s].family \in Families
        BY <2>1, <3>2, <1>2, <1>3, <1>7
      <4>2. family'[token[s].family] = family[token[s].family] /\ family[token[s].family].status # "none"
        BY <2>1, <3>2, <4>1, <1>0, <1>1 DEF Linked
      <4>3. family[token[s].family].until \in Tokens \ {t, next}
        BY <3>2, <4>1, <4>2, <1>0, <1>8 DEF Linked
      <4>4. QED BY <2>1, <4>1, <4>2, <4>3, <1>0, <1>2 DEF Newest
    <3>3. QED BY <3>1, <3>2
  <2>2. QED BY <2>1 DEF Newest
<1>13. Generations'
  BY <1>0, <1>2, <1>3, <1>4, <1>5, <1>6 DEF Generations
<1>14. Outlives'
  <2>1. ASSUME NEW s \in Tokens, Stored(s)', ~token'[s].expired
        PROVE  ~Expired(family[token[s].family].until)'
    <3>1. CASE token'[s].family = f
      BY <3>1, <1>1, <1>3, ConstantsAssumption DEF Expired
    <3>2. CASE token'[s].family # f
      <4>1. s \notin {t, next} /\ token'[s] = token[s] /\ token[s].family \in Families
        BY <2>1, <3>2, <1>2, <1>3, <1>7 DEF Stored
      <4>2. family'[token[s].family] = family[token[s].family] /\ family[token[s].family].status # "none"
        BY <2>1, <3>2, <4>1, <1>0, <1>1 DEF Linked, Stored
      <4>3. family[token[s].family].until \in Tokens \ {t, next}
        BY <3>2, <4>1, <4>2, <1>0, <1>8 DEF Linked
      <4>4. QED BY <2>1, <4>1, <4>2, <4>3, <1>0, <1>2 DEF Outlives, Expired, Stored
    <3>3. QED BY <3>1, <3>2
  <2>2. QED BY <2>1 DEF Outlives
<1>15. LiveTokenUsable'
  BY <1>0, <1>1, <1>2, <1>3, <1>4, <1>7 DEF LiveTokenUsable
<1>16. RevokedTogether'
  BY <1>0, <1>1, <1>2, <1>3, <1>4, <1>7 DEF RevokedTogether
<1>17. QED BY <1>9, <1>10, <1>11, <1>12, <1>13, <1>14, <1>15, <1>16 DEF Tables, Lineage

\* The tokens of a session expire in the order of their issue, the newest last.
LEMMA ExpireKeeps ==
    ASSUME Typed, Tables, NEW t \in Tokens, TokenExpires(t)
    PROVE  Tables' /\ Persist /\ StaysClosed
<1>0. Linked /\ Owned /\ Newest /\ Generations /\ Outlives /\ LiveTokenUsable /\ RevokedTogether
  BY DEF Tables, Lineage
<1>1. family' = family
  BY DEF TokenExpires
<1>2. \A s \in Tokens : /\ token'[s].status = token[s].status
                        /\ token'[s].family = token[s].family
                        /\ token'[s].gen = token[s].gen
  BY DEF TokenExpires, Typed, Token
<1>2a. token'[t].expired /\ \A s \in Tokens : s # t => token'[s].expired = token[s].expired
  BY DEF TokenExpires, Typed, Token
<1>3. Stored(t) /\ \A s \in Tokens :
        Stored(s) /\ token[s].family = token[t].family /\ token[s].gen < token[t].gen => token[s].expired
  BY DEF TokenExpires, TokensOf
<1>4. Persist /\ StaysClosed
  BY <1>1, <1>2 DEF Persist, StaysClosed
<1>5. Linked'
  BY <1>0, <1>1, <1>2 DEF Linked
<1>6. Owned' /\ LiveTokenUsable' /\ RevokedTogether'
  BY <1>0, <1>1, <1>2 DEF Owned, Stored, LiveTokenUsable, RevokedTogether
<1>7. Newest'
  BY <1>0, <1>1, <1>2 DEF Newest, Linked
<1>8. Generations'
  BY <1>0, <1>2 DEF Generations
<1>9. Outlives'
  <2>1. ASSUME NEW s \in Tokens, Stored(s), s # t, ~token[s].expired
        PROVE  ~Expired(family[token[s].family].until)'
    <3> DEFINE n == family[token[s].family].until
    <3>1. token[s].family \in Families /\ n \in Tokens /\ token[n].family = token[s].family
      BY <2>1, <1>0 DEF Linked, Stored
    <3>2. ~token[n].expired /\ token[n].status # "gone"
      BY <2>1, <3>1, <1>0, ConstantsAssumption DEF Outlives, Expired
    <3>3. n # t
      <4>1. CASE s = n
        BY <2>1, <4>1
      <4>2. CASE s # n
        BY <2>1, <3>1, <4>2, <1>0, <1>3 DEF Newest, Stored
      <4>3. QED BY <4>1, <4>2
    <3>4. QED BY <3>1, <3>2, <3>3, <1>1, <1>2, <1>2a, ConstantsAssumption DEF Expired
  <2>2. QED BY <2>1, <1>1, <1>2, <1>2a DEF Outlives, Stored
<1>10. QED BY <1>4, <1>5, <1>6, <1>7, <1>8, <1>9 DEF Tables, Lineage

\* Purging expired tokens changes nothing for the others.
LEMMA PurgeKeeps ==
    ASSUME Typed, Tables, NEW S \in SUBSET {t \in Tokens : Stored(t) /\ token[t].expired}, PurgeTokens(S)
    PROVE  Tables' /\ Persist /\ StaysClosed
<1>0. Linked /\ Owned /\ Newest /\ Generations /\ Outlives /\ LiveTokenUsable /\ RevokedTogether
  BY DEF Tables, Lineage
<1>1. family' = family
  BY DEF PurgeTokens
<1>2. \A s \in Tokens : /\ token'[s].status = IF s \in S THEN "gone" ELSE token[s].status
                        /\ token'[s].family = token[s].family
                        /\ token'[s].gen = token[s].gen
                        /\ token'[s].expired = token[s].expired
  BY DEF PurgeTokens, Typed, Token
<1>3. \A s \in S : s \in Tokens /\ token[s].status # "none" /\ token[s].expired
  BY DEF Stored
<1>4. Persist /\ StaysClosed
  BY <1>1, <1>2, <1>3 DEF Persist, StaysClosed
<1>5. Linked'
  BY <1>0, <1>1, <1>2, <1>3 DEF Linked
<1>6. Owned' /\ LiveTokenUsable' /\ RevokedTogether'
  BY <1>0, <1>1, <1>2 DEF Owned, Stored, LiveTokenUsable, RevokedTogether
<1>7. Newest'
  BY <1>0, <1>1, <1>2, <1>3 DEF Newest, Linked
<1>8. Generations'
  BY <1>0, <1>2, <1>3 DEF Generations
<1>9. Outlives'
  BY <1>0, <1>1, <1>2, <1>3, ConstantsAssumption DEF Outlives, Stored, Expired, Linked
<1>10. QED BY <1>4, <1>5, <1>6, <1>7, <1>8, <1>9 DEF Tables, Lineage

-----------------------------------------------------------------------------
(* Every action keeps the invariant.                                       *)

\* The parts of the invariant that are not about lineage.
Others == /\ Closing /\ DevicesFollowSession /\ ClosedAccountNoSession /\ RequestsConsistent

\* The parts that the steps are proved for make up the invariant.
LEMMA IInvParts == IInv <=> Typed /\ Tables /\ Others
BY DEF IInv, Tables, Others, Closing

\* The requests that an action does not end keep what they have read.
LEMMA RequestsKept ==
    ASSUME RequestsConsistent, Persist,
           \A c \in Clients : request'[c] \in {request[c], Idle}
    PROVE  RequestsConsistent'
<1>1. ASSUME NEW c \in Clients PROVE RequestOf(request[c])'
  <2>1. CASE request'[c] = Idle
    BY <2>1 DEF RequestOf, Idle
  <2>2. CASE request'[c] = request[c]
    BY <2>2 DEF RequestsConsistent, RequestOf, Persist
  <2>3. QED BY <2>1, <2>2
<1>2. QED BY <1>1 DEF RequestsConsistent

\* Closing families together with their devices.
LEMMA DevicesKept ==
    ASSUME Typed, DevicesFollowSession, Linked, Persist, NEW F,
           \A f \in Families : family[f].status = "active" /\ f \notin F => family'[f].status = "active",
           \A d \in Devices : device'[d] \in {device[d], NoRow},
           \A d \in Devices : device[d].session \in F => device'[d] = NoRow
    PROVE  DevicesFollowSession'
<1>1. ASSUME NEW d \in Devices, device'[d].session # NoFamily
      PROVE  /\ family'[device'[d].session].status = "active"
             /\ family'[device'[d].session].user = device'[d].user
  <2>1. device'[d] = device[d] /\ device[d].session \notin F
    BY <1>1 DEF NoRow
  <2>2. device[d].session \in Families
    BY <1>1, <2>1 DEF Typed, Device
  <2>3. family[device[d].session].status = "active" /\ family[device[d].session].user = device[d].user
    BY <1>1, <2>1 DEF DevicesFollowSession
  <2>4. QED BY <2>1, <2>2, <2>3 DEF Persist
<1>2. QED BY <1>1 DEF DevicesFollowSession

\* A revocation, with the devices of the families and maybe others.
LEMMA RevokeStep ==
    ASSUME IInv, NEW F, NEW D, RevokeFamilies(F, D), DevicesIn(F) \subseteq D,
           \A f \in Families \ F : family[f].status = "active" => account'[family[f].user] = "active",
           \A c \in Clients : request'[c] \in {request[c], Idle}
    PROVE  /\ Tables' /\ DevicesFollowSession' /\ ClosedAccountNoSession' /\ RequestsConsistent'
           /\ StaysClosed /\ Persist
<1>1. Typed /\ Tables /\ Others /\ Linked
  BY IInvParts DEF Tables, Lineage
<1>2. /\ Tables' /\ Persist /\ StaysClosed
      /\ \A f \in Families : family'[f].status = "active" => family[f].status = "active" /\ f \notin F
  BY <1>1, RevokeKeeps
<1>3. RequestsConsistent'
  BY <1>1, <1>2, RequestsKept DEF Others
<1>4. /\ \A f \in Families : family[f].status = "active" /\ f \notin F => family'[f].status = "active"
      /\ \A f \in Families : family'[f].user = family[f].user
      /\ \A d \in Devices : device'[d] = IF d \in D THEN NoRow ELSE device[d]
  BY <1>1, RevokeEffect DEF SameFamily
<1>5. DevicesFollowSession'
  BY <1>1, <1>2, <1>4, DevicesKept DEF Others, DevicesIn
<1>6. ClosedAccountNoSession'
  BY <1>2, <1>4 DEF ClosedAccountNoSession
<1>7. QED BY <1>2, <1>3, <1>5, <1>6

\* Steps that leave families, tokens, devices and uses alone.
LEMMA QuietStep ==
    ASSUME IInv, UNCHANGED <<family, token, device, uses>>, RequestsConsistent',
           \A u \in Users : account[u] = "active" => account'[u] = "active"
    PROVE  Tables' /\ Others'
<1>1. Tables /\ Others /\ Linked
  BY IInvParts DEF Tables, Lineage
<1>2. Tables'
  BY <1>1 DEF Tables, Lineage, Linked, Owned, Newest, Generations, Outlives, Stored, Expired,
              LiveTokenUsable, RevokedTogether
<1>3. Closing' /\ DevicesFollowSession'
  BY <1>1 DEF Others, Closing, LiveTokenUsable, RevokedTogether, UsedConsumed, DoubleUseRevokes,
              DevicesFollowSession
<1>4. ClosedAccountNoSession'
  BY <1>1 DEF Others, ClosedAccountNoSession, Linked
<1>5. QED BY <1>2, <1>3, <1>4 DEF Others

\* A refused request changes nothing but itself.
LEMMA RefusedStep ==
    ASSUME IInv, NEW c \in Clients, Refused(c)
    PROVE  Tables' /\ Others'
<1>1. /\ UNCHANGED <<account, family, token, device, uses>>
      /\ \A b \in Clients : request'[b] \in {request[b], Idle}
  BY DEF Refused, Done, IInv, Typed
<1>2. RequestsConsistent'
  BY <1>1, RequestsKept DEF IInv, Persist
<1>3. QED BY <1>1, <1>2, QuietStep

\* The unlocked reads: verifyOtp, the guard and the candidate token.
LEMMA ReadStep ==
    ASSUME IInv, NEW c \in Clients,
           \/ \E u \in Users : VerifyOtp(c, u)
           \/ \E f \in Families, op \in {"logout", "revoke", "register"} : Admit(c, op, f)
           \/ \E t \in Tokens : Present(c, t) \/ PresentLogout(c, t)
    PROVE  Tables' /\ Others'
<1>0. UNCHANGED <<account, family, token, device, uses>>
  BY DEF VerifyOtp, Admit, Present, PresentLogout
<1>1. Typed /\ Linked /\ Owned /\ RequestsConsistent
  BY DEF IInv, Lineage
<1>2. ASSUME NEW b \in Clients PROVE RequestOf(request[b])'
  <2>0. RequestOf(request[b]) /\ RequestOf(request[c])
    BY <1>1 DEF RequestsConsistent
  <2>1. ASSUME NEW u \in Users, VerifyOtp(c, u) PROVE RequestOf(request[b])'
    <3>1. b # c => request'[b] = request[b]
      BY <2>1, <1>1 DEF VerifyOtp, Typed
    <3>2. request'[c].op = "login" /\ request'[c].user = u
      BY <2>1, <1>1 DEF VerifyOtp, Typed, Idle
    <3>3. QED BY <1>0, <2>0, <3>1, <3>2 DEF RequestOf
  <2>2. ASSUME NEW f \in Families, NEW op \in {"logout", "revoke", "register"}, Admit(c, op, f)
        PROVE  RequestOf(request[b])'
    <3>1. b # c => request'[b] = request[b]
      BY <2>2, <1>1 DEF Admit, Typed
    <3>2. /\ request'[c].op = op /\ request'[c].user = family[f].user /\ request'[c].session = f
          /\ family[f].status # "none" /\ family[f].user \in Users
      BY <2>2, <1>1 DEF Admit, Typed, Idle, ActiveFamily, Linked
    <3>3. QED BY <1>0, <2>0, <3>1, <3>2 DEF RequestOf
  <2>3. ASSUME NEW t \in Tokens, Present(c, t) PROVE RequestOf(request[b])'
    <3>1. b # c => request'[b] = request[b]
      BY <2>3, <1>1 DEF Present, Typed
    <3>2. token[t].status # "none"
      BY <2>3 DEF Present, Stored
    <3>3. /\ request'[c].op = "refresh" /\ request'[c].user = family[token[t].family].user
          /\ request'[c].session = token[t].family /\ request'[c].token = t
      BY <2>3, <1>1 DEF Present, Typed
    <3>4. /\ token[t].family \in Families /\ family[token[t].family].status # "none"
          /\ family[token[t].family].user \in Users
      BY <1>1, <3>2 DEF Linked
    <3>5. QED BY <1>0, <2>0, <3>1, <3>2, <3>3, <3>4 DEF RequestOf
  <2>4. ASSUME NEW t \in Tokens, PresentLogout(c, t) PROVE RequestOf(request[b])'
    <3>1. b # c => request'[b] = request[b]
      BY <2>4, <1>1 DEF PresentLogout, Typed, Done
    <3>2. \/ request'[c] = Idle
          \/ /\ request'[c].op = "logout" /\ request[c].op = "logout"
             /\ request'[c].user = request[c].user /\ request'[c].session = request[c].session
      BY <2>4, <1>1 DEF PresentLogout, Typed, Done, Request
    <3>3. QED BY <1>0, <2>0, <3>1, <3>2 DEF RequestOf, Idle
  <2>5. QED BY <2>1, <2>2, <2>3, <2>4
<1>3. QED BY <1>0, <1>2, QuietStep DEF RequestsConsistent

\* Login: the account is active under the lock.
LEMMA CreateStep ==
    ASSUME IInv, NEW c \in Clients, Create(c)
    PROVE  Tables' /\ Others'
<1>1. CASE Refused(c)
  BY <1>1, RefusedStep
<1>2. CASE ~Refused(c)
  <2>1. PICK f \in Families, t \in Tokens :
          /\ family[f].status = "none" /\ token[t].status = "none"
          /\ family' = [family EXCEPT ![f] =
                          [status |-> "active", user |-> request[c].user, until |-> t]]
          /\ token' = [token EXCEPT ![t] = NewToken(f, 1)]
    BY <1>2 DEF Create
  <2>2. /\ Typed /\ Tables /\ Others /\ Linked
    BY IInvParts DEF Tables, Lineage
  <2>3. /\ account[request[c].user] = "active" /\ Done(c)
        /\ UNCHANGED <<account, device, uses>>
    BY <1>2 DEF Create, ActiveAccount
  <2>4. request[c].user \in Users
    <3>1. request[c].op = "login"
      BY DEF Create
    <3>2. QED BY <2>2, <3>1 DEF Others, RequestsConsistent, RequestOf
  <2>5. CreateEffect(f, t, request[c].user)
    BY <2>1, <2>2 DEF CreateEffect, Typed, NewToken
  <2>6. Tables' /\ Persist /\ StaysClosed
    BY <2>1, <2>2, <2>4, <2>5, CreateKeeps
  <2>7. UsedConsumed' /\ DoubleUseRevokes'
    BY <2>2, <2>3, <2>6, UsesKept DEF Others, Closing
  <2>8. RequestsConsistent'
    BY <2>2, <2>3, <2>6, RequestsKept DEF Others, Done, Typed
  <2>9. \A g \in Families : g # f => family'[g] = family[g]
    BY <2>5 DEF CreateEffect
  <2>10. DevicesFollowSession'
    <3>1. ASSUME NEW d \in Devices, device[d].session # NoFamily
          PROVE  device[d].session \in Families /\ device[d].session # f
      BY <2>1, <2>2, <3>1 DEF Typed, Device, Others, DevicesFollowSession
    <3>2. QED BY <2>2, <2>3, <2>9, <3>1 DEF Others, DevicesFollowSession
  <2>11. ClosedAccountNoSession'
    BY <2>2, <2>3, <2>5, <2>9 DEF Others, ClosedAccountNoSession, CreateEffect
  <2>12. QED BY <2>6, <2>7, <2>8, <2>10, <2>11 DEF Others, Closing, Tables
<1>3. QED BY <1>1, <1>2

\* Refresh: the second use of a token finds its session closed or closes it.
LEMMA RotateStep ==
    ASSUME IInv, NEW c \in Clients, Rotate(c)
    PROVE  Tables' /\ Others'
<1> DEFINE t == request[c].token
           f == request[c].session
<1>1. CASE Refused(c)
  BY <1>1, RefusedStep
<1>2. CASE ~Refused(c)
  <2>1. /\ Typed /\ Tables /\ Others /\ Linked /\ Owned /\ Outlives
        /\ LiveTokenUsable /\ RevokedTogether /\ UsedConsumed /\ DoubleUseRevokes
    BY IInvParts DEF Tables, Lineage, Others, Closing
  <2>2. /\ TokenLocked(c) /\ CountUse(t) /\ Done(c) /\ UNCHANGED account /\ request[c].op = "refresh"
    BY <1>2 DEF Rotate
  <2>3. /\ t \in Tokens /\ token[t].family = f /\ f \in Families
        /\ family[f].status # "none" /\ family[f].user = request[c].user
    BY <2>1, <2>2 DEF Others, RequestsConsistent, RequestOf
  <2>4. /\ Stored(t) /\ ~token[t].expired /\ account[request[c].user] = "active"
    BY <2>2, <2>3, ConstantsAssumption DEF TokenLocked, Expired, ActiveAccount
  <2>5. /\ family[f].status \in {"active", "revoked"}
        /\ family[f].status = "active" => ActiveFamily(f)
    BY <2>1, <2>3, <2>4 DEF Owned, Outlives, ActiveFamily
  <2>6. /\ \A b \in Clients : request'[b] \in {request[b], Idle}
        /\ \A s \in Tokens : s # t => uses'[s] = uses[s]
        /\ uses'[t] = 2 => uses[t] # 0
    BY <2>1, <2>2, <2>3 DEF Done, CountUse, Typed
  <2>7. \A s \in Tokens : token[s].status # "none" => token[s].family \in Families
    BY <2>1 DEF Linked
  <2>8. CASE /\ ~ActiveFamily(f) \/ Reread(c) = "revoked"
             /\ UNCHANGED <<account, family, token, device>>
    <3>1. family[f].status = "revoked"
      BY <2>1, <2>3, <2>5, <2>8 DEF Reread, RevokedTogether
    <3>2. token[t].status \notin {"none", "live"}
      BY <2>1, <2>3, <2>4, <3>1 DEF Stored, LiveTokenUsable
    <3>3. UsedConsumed'
      BY <2>1, <2>6, <2>8, <3>2 DEF UsedConsumed
    <3>4. DoubleUseRevokes'
      BY <2>1, <2>3, <2>6, <2>8, <3>1 DEF DoubleUseRevokes
    <3>5. Persist
      BY <2>8 DEF Persist
    <3>6. RequestsConsistent'
      BY <2>1, <2>6, <3>5, RequestsKept DEF Others
    <3>7. Tables' /\ DevicesFollowSession' /\ ClosedAccountNoSession'
      BY <2>1, <2>8 DEF Tables, Lineage, Linked, Owned, Newest, Generations, Outlives, Stored, Expired,
                        LiveTokenUsable, RevokedTogether, Others, DevicesFollowSession, ClosedAccountNoSession
    <3>8. QED BY <3>3, <3>4, <3>6, <3>7 DEF Others, Closing, Tables
  <2>9. CASE RevokeFamilies({f}, DevicesIn({f})) /\ Reread(c) = "rotated"
    <3>1. \A g \in Families \ {f} : family[g].status = "active" => account'[family[g].user] = "active"
      BY <2>1, <2>2 DEF Others, ClosedAccountNoSession
    <3>2. /\ Tables' /\ DevicesFollowSession' /\ ClosedAccountNoSession' /\ RequestsConsistent'
          /\ StaysClosed /\ Persist
      BY <2>6, <2>9, <3>1, RevokeStep
    <3>3. family'[f].status = "revoked" /\ token'[t].family = f /\ token[t].status = "rotated"
      BY <2>1, <2>3, <2>5, <2>9, RevokeEffect DEF SameToken, Reread
    <3>4. UsedConsumed'
      BY <2>1, <2>3, <2>6, <3>2, <3>3 DEF UsedConsumed, StaysClosed
    <3>5. ASSUME NEW s \in Tokens, uses'[s] = 2
          PROVE  family'[token'[s].family].status \in {"revoked", "gone"}
      <4>1. CASE s = t
        BY <3>3, <4>1
      <4>2. CASE s # t
        <5>1. token[s].status # "none" /\ family[token[s].family].status \in {"revoked", "gone"}
          BY <2>1, <2>6, <3>5, <4>2 DEF UsedConsumed, DoubleUseRevokes
        <5>2. QED BY <2>7, <3>2, <5>1 DEF StaysClosed, Persist
      <4>3. QED BY <4>1, <4>2
    <3>6. QED BY <3>2, <3>4, <3>5 DEF Others, Closing, Tables, DoubleUseRevokes
  <2>10. CASE /\ Reread(c) = "live" /\ UNCHANGED <<account, device>>
              /\ \E next \in Tokens :
                   /\ token[next].status = "none"
                   /\ token' = [token EXCEPT ![t].status = "rotated",
                                             ![next] = NewToken(f, token[t].gen + 1)]
                   /\ Extend(f, next)
    <3>1. PICK next \in Tokens :
            /\ token[next].status = "none"
            /\ token' = [token EXCEPT ![t].status = "rotated",
                                      ![next] = NewToken(f, token[t].gen + 1)]
            /\ Extend(f, next)
      BY <2>10
    <3>2. token[t].status = "live" /\ t # next
      BY <2>10, <3>1 DEF Reread
    <3>3. RotateEffect(t, next, f)
      <4>1. /\ family'[f].status = family[f].status /\ family'[f].user = family[f].user
            /\ family'[f].until = next
            /\ \A g \in Families : g # f => family'[g] = family[g]
        BY <2>1, <2>3, <3>1 DEF Extend, Typed, Family
      <4>2. token'[next] = NewToken(f, token[t].gen + 1)
        BY <2>1, <3>1 DEF Typed
      <4>3. token'[t] = [token[t] EXCEPT !.status = "rotated"]
        BY <2>1, <2>3, <3>1, <3>2 DEF Typed
      <4>4. \A s \in Tokens : s \notin {t, next} => token'[s] = token[s]
        BY <2>1, <3>1 DEF Typed
      <4>5. token[t] \in Token
        BY <2>1, <2>3 DEF Typed
      <4>6. /\ token'[t].status = "rotated" /\ token'[t].family = f /\ token'[t].gen = token[t].gen
            /\ token'[t].expired = token[t].expired
        BY <2>3, <4>3, <4>5 DEF Token
      <4>7. /\ token'[next].status = "live" /\ token'[next].family = f
            /\ token'[next].gen = token[t].gen + 1 /\ token'[next].expired = FALSE
        BY <4>2 DEF NewToken
      <4>8. QED BY <4>1, <4>4, <4>6, <4>7 DEF RotateEffect
    <3>4. Tables' /\ Persist /\ StaysClosed
      BY <2>1, <2>3, <3>1, <3>2, <3>3, RotateKeeps
    <3>5. uses[t] = 0
      BY <2>1, <2>3, <3>2 DEF UsedConsumed
    <3>6. UsedConsumed'
      <4>1. token'[t].status = "rotated"
        BY <3>3 DEF RotateEffect
      <4>2. QED BY <2>1, <2>3, <2>6, <3>4, <4>1 DEF UsedConsumed, StaysClosed
    <3>7. ASSUME NEW s \in Tokens, uses'[s] = 2
          PROVE  family'[token'[s].family].status \in {"revoked", "gone"}
      <4>1. s # t
        BY <2>6, <3>5, <3>7
      <4>2. token[s].status # "none" /\ family[token[s].family].status \in {"revoked", "gone"}
        BY <2>1, <2>6, <3>7, <4>1 DEF UsedConsumed, DoubleUseRevokes
      <4>3. QED BY <2>7, <3>4, <4>2 DEF StaysClosed, Persist
    <3>8. RequestsConsistent'
      BY <2>1, <2>6, <3>4, RequestsKept DEF Others
    <3>9. \A g \in Families : family'[g].status = family[g].status /\ family'[g].user = family[g].user
      BY <3>3 DEF RotateEffect
    <3>10. DevicesFollowSession'
      <4>1. \A d \in Devices : device[d].session # NoFamily => device[d].session \in Families
        BY <2>1 DEF Typed, Device
      <4>2. QED BY <2>1, <2>10, <3>9, <4>1 DEF Others, DevicesFollowSession
    <3>11. ClosedAccountNoSession'
      BY <2>1, <2>10, <3>9 DEF Others, ClosedAccountNoSession
    <3>12. QED BY <3>4, <3>6, <3>7, <3>8, <3>10, <3>11 DEF Others, Closing, Tables, DoubleUseRevokes
  <2>11. QED BY <1>2, <2>8, <2>9, <2>10 DEF Rotate
<1>3. QED BY <1>1, <1>2

\* A revocation by the owner of an active account, which ends the request.
LEMMA OwnerRevokes ==
    ASSUME IInv, NEW c \in Clients, NEW F, NEW D, RevokeFamilies(F, D), DevicesIn(F) \subseteq D,
           Done(c), UNCHANGED <<account, uses>>
    PROVE  Tables' /\ Others'
<1>1. Typed /\ Others /\ Linked
  BY IInvParts DEF IInv, Lineage
<1>2. \A b \in Clients : request'[b] \in {request[b], Idle}
  BY <1>1 DEF Done, Typed
<1>3. \A f \in Families \ F : family[f].status = "active" => account'[family[f].user] = "active"
  BY <1>1 DEF Others, ClosedAccountNoSession
<1>4. /\ Tables' /\ DevicesFollowSession' /\ ClosedAccountNoSession' /\ RequestsConsistent'
      /\ StaysClosed /\ Persist
  BY <1>2, <1>3, RevokeStep
<1>5. UsedConsumed' /\ DoubleUseRevokes'
  BY <1>1, <1>4, UsesKept DEF Others, Closing
<1>6. QED BY <1>4, <1>5 DEF Others, Closing, Tables

\* logout, revokeSession and logoutAll.
LEMMA CloseStep ==
    ASSUME IInv, NEW c \in Clients,
           Logout(c) \/ LogoutAll(c) \/ \E g \in Families : RevokeSession(c, g)
    PROVE  Tables' /\ Others'
<1>1. CASE Refused(c)
  BY <1>1, RefusedStep
<1>2. CASE ~Refused(c) /\ Logout(c)
  <2>1. PICK D \in SUBSET DevicesOf(request[c].user) :
          RevokeFamilies({request[c].session}, DevicesIn({request[c].session}) \cup D)
    BY <1>2 DEF Logout
  <2>2. Done(c) /\ UNCHANGED <<account, uses>>
    BY <1>2 DEF Logout
  <2>3. QED BY <2>1, <2>2, OwnerRevokes
<1>3. CASE ~Refused(c) /\ LogoutAll(c)
  <2>1. /\ RevokeFamilies(FamiliesOf(request[c].user), DevicesOf(request[c].user))
        /\ Done(c) /\ UNCHANGED <<account, uses>>
    BY <1>3 DEF LogoutAll
  <2>2. DevicesIn(FamiliesOf(request[c].user)) \subseteq DevicesOf(request[c].user)
    BY ConstantsAssumption DEF DevicesIn, DevicesOf, FamiliesOf, IInv, DevicesFollowSession
  <2>3. QED BY <2>1, <2>2, OwnerRevokes
<1>4. ASSUME NEW g \in Families, RevokeSession(c, g), ~Refused(c) PROVE Tables' /\ Others'
  <2>1. RevokeFamilies({g}, DevicesIn({g})) /\ Done(c) /\ UNCHANGED <<account, uses>>
    BY <1>4 DEF RevokeSession
  <2>2. QED BY <2>1, OwnerRevokes
<1>5. QED BY <1>1, <1>2, <1>3, <1>4

\* Changes of device_token alone.
LEMMA DeviceStep ==
    ASSUME IInv, UNCHANGED <<account, family, token, uses>>, RequestsConsistent', DevicesFollowSession'
    PROVE  Tables' /\ Others'
<1>1. Tables /\ Others
  BY IInvParts
<1>2. Tables'
  BY <1>1 DEF Tables, Lineage, Linked, Owned, Newest, Generations, Outlives, Stored, Expired,
              LiveTokenUsable, RevokedTogether
<1>3. Closing' /\ ClosedAccountNoSession'
  BY <1>1 DEF Others, Closing, LiveTokenUsable, RevokedTogether, UsedConsumed, DoubleUseRevokes,
              ClosedAccountNoSession
<1>4. QED BY <1>2, <1>3 DEF Others

\* registerDevice binds the device to a session that is active under the lock.
LEMMA RegisterStep ==
    ASSUME IInv, NEW c \in Clients, NEW d \in Devices, RegisterDevice(c, d)
    PROVE  Tables' /\ Others'
<1>1. CASE Refused(c)
  BY <1>1, RefusedStep
<1>2. CASE ~Refused(c)
  <2>1. /\ ActiveFamily(request[c].session) /\ Done(c) /\ UNCHANGED <<account, family, token, uses>>
        /\ device' = [device EXCEPT ![d] = [user |-> request[c].user, session |-> request[c].session]]
        /\ request[c].op = "register"
    BY <1>2 DEF RegisterDevice
  <2>2. Typed /\ RequestsConsistent /\ DevicesFollowSession
    BY DEF IInv
  <2>3. family[request[c].session].user = request[c].user /\ family[request[c].session].status = "active"
    BY <2>1, <2>2 DEF RequestsConsistent, RequestOf, ActiveFamily
  <2>4. DevicesFollowSession'
    BY <2>1, <2>2, <2>3 DEF DevicesFollowSession, Typed
  <2>5. RequestsConsistent'
    <3>1. Persist
      BY <2>1 DEF Persist
    <3>2. \A b \in Clients : request'[b] \in {request[b], Idle}
      BY <2>1, <2>2 DEF Done, Typed
    <3>3. QED BY <2>2, <3>1, <3>2, RequestsKept
  <2>6. QED BY <2>1, <2>4, <2>5, DeviceStep
<1>3. QED BY <1>1, <1>2

\* Devices removed one by one, or with an anonymized account.
LEMMA RemoveStep ==
    ASSUME IInv, (\E d \in Devices : RemoveDevice(d)) \/ (\E u \in Users : Anonymize(u))
    PROVE  Tables' /\ Others'
<1>1. /\ UNCHANGED <<account, family, token, request, uses>>
      /\ \A d \in Devices : device'[d] \in {device[d], NoRow}
  BY DEF RemoveDevice, Anonymize, WithoutDevices, IInv, Typed
<1>2. RequestsConsistent'
  BY <1>1, RequestsKept DEF IInv, Persist
<1>3. DevicesFollowSession'
  BY <1>1 DEF IInv, DevicesFollowSession, NoRow
<1>4. QED BY <1>1, <1>2, <1>3, DeviceStep

\* Ban, unban and the deactivation of an account.
LEMMA AccountStep ==
    ASSUME IInv, NEW u \in Users, Ban(u) \/ Unban(u) \/ Deactivate(u)
    PROVE  Tables' /\ Others'
<1>0. Typed /\ Tables /\ Others /\ Linked
  BY IInvParts DEF Tables, Lineage
<1>1. CASE Ban(u)
  <2>1. /\ RevokeFamilies(FamiliesOf(u), DevicesOf(u)) /\ UNCHANGED <<request, uses>>
        /\ account' = [account EXCEPT ![u] = "banned"]
    BY <1>1 DEF Ban
  <2>2. DevicesIn(FamiliesOf(u)) \subseteq DevicesOf(u)
    BY ConstantsAssumption DEF DevicesIn, DevicesOf, FamiliesOf, IInv, DevicesFollowSession
  <2>3. \A f \in Families \ FamiliesOf(u) : family[f].status = "active" =>
          account'[family[f].user] = "active"
    BY <1>0, <2>1 DEF FamiliesOf, Others, ClosedAccountNoSession, Typed, Linked
  <2>4. /\ Tables' /\ DevicesFollowSession' /\ ClosedAccountNoSession' /\ RequestsConsistent'
        /\ StaysClosed /\ Persist
    BY <2>1, <2>2, <2>3, RevokeStep
  <2>5. UsedConsumed' /\ DoubleUseRevokes'
    BY <1>0, <2>1, <2>4, UsesKept DEF Others, Closing
  <2>6. QED BY <2>4, <2>5 DEF Others, Closing, Tables
<1>2. CASE Unban(u)
  <2>1. /\ UNCHANGED <<family, token, device, request, uses>>
        /\ \A v \in Users : account[v] = "active" => account'[v] = "active"
    BY <1>0, <1>2 DEF Unban, Typed
  <2>2. RequestsConsistent'
    BY <1>0, <2>1, RequestsKept DEF Others, Persist
  <2>3. QED BY <2>1, <2>2, QuietStep
<1>3. CASE Deactivate(u)
  <2>1. /\ DeleteFamilies(FamiliesOf(u)) /\ UNCHANGED <<request, uses>>
        /\ account' = [account EXCEPT ![u] = "deleted"]
    BY <1>3 DEF Deactivate
  <2>2. /\ FamiliesOf(u) \in SUBSET Families
        /\ \A f \in FamiliesOf(u) : family[f].status # "none"
    BY DEF FamiliesOf
  <2>3. /\ Tables' /\ Persist /\ StaysClosed
        /\ \A f \in Families : family'[f].status = "active" =>
             family[f].status = "active" /\ f \notin FamiliesOf(u)
    BY <1>0, <2>1, <2>2, DeleteKeeps
  <2>4. /\ \A f \in Families : SameFamily(f)
        /\ \A f \in Families : f \notin FamiliesOf(u) => family'[f].status = family[f].status
        /\ \A d \in Devices : device'[d] = IF device[d].session \in FamiliesOf(u) THEN NoRow ELSE device[d]
    BY <1>0, <2>1, DeleteEffect
  <2>5. DevicesFollowSession'
    BY <1>0, <2>3, <2>4, DevicesKept DEF Others
  <2>6. ClosedAccountNoSession'
    <3>1. ASSUME NEW f \in Families, family'[f].status = "active"
          PROVE  account'[family'[f].user] = "active"
      <4>1. /\ family[f].status = "active" /\ family[f].user # u /\ family[f].user \in Users
            /\ family'[f].user = family[f].user
        BY <1>0, <2>3, <2>4, <3>1 DEF FamiliesOf, SameFamily, Linked
      <4>2. QED BY <1>0, <2>1, <4>1 DEF Typed, Others, ClosedAccountNoSession
    <3>2. QED BY <3>1 DEF ClosedAccountNoSession
  <2>7. RequestsConsistent'
    BY <1>0, <2>1, <2>3, RequestsKept DEF Others
  <2>8. UsedConsumed' /\ DoubleUseRevokes'
    BY <1>0, <2>1, <2>3, UsesKept DEF Others, Closing
  <2>9. QED BY <2>3, <2>5, <2>6, <2>7, <2>8 DEF Others, Closing, Tables
<1>4. QED BY <1>1, <1>2, <1>3

\* Expiry and the two purges.
LEMMA MaintenanceStep ==
    ASSUME IInv, Maintenance
    PROVE  Tables' /\ Others'
<1>0. Typed /\ Tables /\ Others /\ Linked
  BY IInvParts DEF Tables, Lineage
<1>1. ASSUME Tables', Persist, StaysClosed, UNCHANGED <<account, family, device, request, uses>>
      PROVE  Tables' /\ Others'
  <2>1. RequestsConsistent'
    BY <1>0, <1>1, RequestsKept DEF Others
  <2>2. UsedConsumed' /\ DoubleUseRevokes'
    BY <1>0, <1>1, UsesKept DEF Others, Closing
  <2>3. DevicesFollowSession' /\ ClosedAccountNoSession'
    BY <1>0, <1>1 DEF Others, DevicesFollowSession, ClosedAccountNoSession
  <2>4. QED BY <1>1, <2>1, <2>2, <2>3 DEF Others, Closing, Tables
<1>2. ASSUME NEW t \in Tokens, TokenExpires(t) PROVE Tables' /\ Others'
  <2>1. UNCHANGED <<account, family, device, request, uses>>
    BY <1>2 DEF TokenExpires
  <2>2. QED BY <1>0, <1>1, <1>2, <2>1, ExpireKeeps
<1>3. ASSUME NEW S \in SUBSET {t \in Tokens : Stored(t) /\ token[t].expired}, PurgeTokens(S)
      PROVE  Tables' /\ Others'
  <2>1. UNCHANGED <<account, family, device, request, uses>>
    BY <1>3 DEF PurgeTokens
  <2>2. QED BY <1>0, <1>1, <1>3, <2>1, PurgeKeeps
<1>4. ASSUME NEW f \in Families, PurgeFamily(f) PROVE Tables' /\ Others'
  <2>1. /\ DeleteFamilies({f}) /\ UNCHANGED <<account, request, uses>> /\ family[f].status # "none"
    BY <1>4 DEF PurgeFamily
  <2>2. {f} \in SUBSET Families /\ \A g \in {f} : family[g].status # "none"
    BY <2>1
  <2>3. /\ Tables' /\ Persist /\ StaysClosed
        /\ \A g \in Families : family'[g].status = "active" => family[g].status = "active" /\ g \notin {f}
    BY <1>0, <2>1, <2>2, DeleteKeeps
  <2>4. /\ \A g \in Families : SameFamily(g)
        /\ \A g \in Families : g \notin {f} => family'[g].status = family[g].status
        /\ \A d \in Devices : device'[d] = IF device[d].session \in {f} THEN NoRow ELSE device[d]
    BY <1>0, <2>1, DeleteEffect
  <2>5. DevicesFollowSession'
    BY <1>0, <2>3, <2>4, DevicesKept DEF Others
  <2>6. ClosedAccountNoSession'
    BY <1>0, <2>1, <2>3, <2>4 DEF Others, ClosedAccountNoSession, SameFamily
  <2>7. RequestsConsistent'
    BY <1>0, <2>1, <2>3, RequestsKept DEF Others
  <2>8. UsedConsumed' /\ DoubleUseRevokes'
    BY <1>0, <2>1, <2>3, UsesKept DEF Others, Closing
  <2>9. QED BY <2>3, <2>5, <2>6, <2>7, <2>8 DEF Others, Closing, Tables
<1>5. QED BY <1>2, <1>3, <1>4 DEF Maintenance

\* Every action writes values of the right type.
LEMMA TypedNext ==
    ASSUME IInv, [Next]_vars
    PROVE  Typed'
<1>0. Typed /\ Linked /\ RequestsConsistent
  BY DEF IInv, Lineage
<1>1. ASSUME NEW c \in Clients, Done(c) PROVE request' \in [Clients -> Request]
  BY <1>0, <1>1, Rows DEF Done, Typed
<1>2. ASSUME NEW c \in Clients, Refused(c) PROVE Typed'
  BY <1>0, <1>1, <1>2 DEF Refused, Typed
<1>3. ASSUME NEW F, NEW D, NEW c \in Clients, RevokeFamilies(F, D), Done(c), UNCHANGED account,
             uses' \in [Tokens -> 0..2]
      PROVE  Typed'
  BY <1>0, <1>1, <1>3, BulkTyped DEF Typed
<1>4. CASE UNCHANGED vars
  BY <1>0, <1>4 DEF vars, Typed
<1>5. ASSUME NEW c \in Clients, Http(c) PROVE Typed'
  <2>0. CASE Refused(c)
    BY <1>2, <2>0
  <2>1. ASSUME NEW u \in Users, VerifyOtp(c, u) PROVE Typed'
    <3>1. [Idle EXCEPT !.op = "login", !.user = u] \in Request
      BY DEF Idle, Request
    <3>2. QED BY <1>0, <2>1, <3>1 DEF VerifyOtp, Typed
  <2>2. CASE Create(c) /\ ~Refused(c)
    <3>1. request[c].user \in Users
      BY <1>0, <2>2 DEF Create, RequestsConsistent, RequestOf
    <3>2. PICK f \in Families, t \in Tokens :
            /\ family' = [family EXCEPT ![f] =
                            [status |-> "active", user |-> request[c].user, until |-> t]]
            /\ token' = [token EXCEPT ![t] = NewToken(f, 1)]
      BY <2>2 DEF Create
    <3>3. family' \in [Families -> Family] /\ token' \in [Tokens -> Token]
      BY <1>0, <3>1, <3>2, Rows DEF Typed
    <3>4. Done(c) /\ UNCHANGED <<account, device, uses>>
      BY <2>2 DEF Create
    <3>5. QED BY <1>0, <1>1, <3>3, <3>4 DEF Typed
  <2>3. CASE Rotate(c) /\ ~Refused(c)
    <3>1. /\ request[c].token \in Tokens /\ request[c].session \in Families
          /\ CountUse(request[c].token) /\ Done(c) /\ UNCHANGED account
      BY <1>0, <2>3 DEF Rotate, RequestsConsistent, RequestOf
    <3>2. uses' \in [Tokens -> 0..2]
      BY <1>0, <3>1 DEF CountUse, Typed
    <3>3. CASE UNCHANGED <<account, family, token, device>>
      BY <1>0, <1>1, <3>1, <3>2, <3>3 DEF Typed
    <3>4. CASE RevokeFamilies({request[c].session}, DevicesIn({request[c].session}))
      BY <1>3, <3>1, <3>2, <3>4
    <3>5. ASSUME NEW next \in Tokens, UNCHANGED device,
                 token' = [token EXCEPT ![request[c].token].status = "rotated",
                             ![next] = NewToken(request[c].session, token[request[c].token].gen + 1)],
                 Extend(request[c].session, next)
          PROVE  Typed'
      <4>1. family' \in [Families -> Family]
        BY <1>0, <3>1, <3>5, Rows DEF Extend, Typed
      <4>2. token[request[c].token] \in Token
        BY <1>0, <3>1 DEF Typed
      <4>3. token' \in [Tokens -> Token]
        BY <1>0, <3>1, <3>5, <4>2, Rows DEF Typed
      <4>4. QED BY <1>0, <1>1, <3>1, <3>2, <3>5, <4>1, <4>3 DEF Typed
    <3>6. QED BY <2>3, <3>3, <3>4, <3>5 DEF Rotate
  <2>4. CASE (Logout(c) \/ LogoutAll(c)) /\ ~Refused(c)
    <3>1. /\ \E F, D : RevokeFamilies(F, D)
          /\ Done(c) /\ UNCHANGED <<account, uses>>
      BY <2>4 DEF Logout, LogoutAll
    <3>2. QED BY <1>0, <1>3, <3>1 DEF Typed
  <2>5. ASSUME NEW f \in Families, RevokeSession(c, f), ~Refused(c) PROVE Typed'
    <3>1. /\ RevokeFamilies({f}, DevicesIn({f})) /\ Done(c) /\ UNCHANGED <<account, uses>>
      BY <2>5 DEF RevokeSession
    <3>2. QED BY <1>0, <1>3, <3>1 DEF Typed
  <2>6. ASSUME NEW t \in Tokens, Present(c, t) PROVE Typed'
    <3>1. /\ token[t].family \in Families /\ family[token[t].family].user \in Users
          /\ token[t].status \in {"live", "rotated", "revoked"}
      BY <1>0, <2>6 DEF Present, Stored, Linked
    <3>2. [op |-> "refresh", user |-> family[token[t].family].user,
           session |-> token[t].family, token |-> t, seen |-> token[t].status] \in Request
      BY <3>1 DEF Request
    <3>3. QED BY <1>0, <2>6, <3>2 DEF Present, Typed
  <2>7. ASSUME NEW t \in Tokens, PresentLogout(c, t) PROVE Typed'
    <3>1. request' \in [Clients -> Request]
      <4>1. CASE Done(c)
        BY <1>1, <4>1
      <4>2. CASE request' = [request EXCEPT ![c].token = t]
        BY <1>0, <4>2 DEF Typed, Request
      <4>3. QED BY <2>7, <4>1, <4>2 DEF PresentLogout
    <3>2. QED BY <1>0, <2>7, <3>1 DEF PresentLogout, Typed
  <2>8. ASSUME NEW f \in Families, NEW op \in {"logout", "revoke", "register"}, Admit(c, op, f)
        PROVE  Typed'
    <3>1. family[f].user \in Users
      BY <1>0, <2>8 DEF Admit, ActiveFamily, Linked
    <3>2. [Idle EXCEPT !.op = op, !.user = family[f].user, !.session = f] \in Request
      BY <3>1 DEF Idle, Request
    <3>3. QED BY <1>0, <2>8, <3>2 DEF Admit, Typed
  <2>9. ASSUME NEW d \in Devices, RegisterDevice(c, d), ~Refused(c) PROVE Typed'
    <3>1. request[c].user \in Users /\ request[c].session \in Families
      BY <1>0, <2>9 DEF RegisterDevice, RequestsConsistent, RequestOf
    <3>2. /\ device' = [device EXCEPT ![d] = [user |-> request[c].user, session |-> request[c].session]]
          /\ Done(c) /\ UNCHANGED <<account, family, token, uses>>
      BY <2>9 DEF RegisterDevice
    <3>3. device' \in [Devices -> Device]
      BY <1>0, <3>1, <3>2, Rows DEF Typed
    <3>4. QED BY <1>0, <1>1, <3>2, <3>3 DEF Typed
  <2>10. QED
    BY <1>5, <2>0, <2>1, <2>2, <2>3, <2>4, <2>5, <2>6, <2>7, <2>8, <2>9 DEF Http, Abandon
<1>6. ASSUME NEW d \in Devices, RemoveDevice(d) PROVE Typed'
  BY <1>0, <1>6, Rows DEF RemoveDevice, Typed
<1>7. ASSUME NEW u \in Users, Operator(u) PROVE Typed'
  <2>1. CASE Ban(u)
    BY <1>0, <2>1, BulkTyped DEF Ban, Typed
  <2>2. CASE Unban(u)
    BY <1>0, <2>2 DEF Unban, Typed
  <2>3. CASE Deactivate(u)
    BY <1>0, <2>3, BulkTyped DEF Deactivate, Typed
  <2>4. CASE Anonymize(u)
    BY <1>0, <2>4, Rows DEF Anonymize, WithoutDevices, Typed
  <2>5. QED BY <1>7, <2>1, <2>2, <2>3, <2>4 DEF Operator
<1>8. CASE Maintenance
  <2>1. ASSUME NEW t \in Tokens, TokenExpires(t) PROVE Typed'
    BY <1>0, <2>1, Rows DEF TokenExpires, Typed
  <2>2. ASSUME NEW S, PurgeTokens(S) PROVE Typed'
    BY <1>0, <2>2, Rows DEF PurgeTokens, Typed
  <2>3. ASSUME NEW f \in Families, PurgeFamily(f) PROVE Typed'
    BY <1>0, <2>3, BulkTyped DEF PurgeFamily, Typed
  <2>4. QED BY <1>8, <2>1, <2>2, <2>3 DEF Maintenance
<1>9. QED BY <1>4, <1>5, <1>6, <1>7, <1>8 DEF Next

\* The invariant is inductive.
LEMMA IInvNext ==
    ASSUME IInv, [Next]_vars
    PROVE  IInv'
<1>1. ASSUME Next PROVE Tables' /\ Others'
  <2>1. ASSUME NEW c \in Clients, Http(c) PROVE Tables' /\ Others'
    BY <2>1, RefusedStep, ReadStep, CreateStep, RotateStep, CloseStep, RegisterStep
    DEF Http, Abandon
  <2>2. ASSUME NEW u \in Users, Operator(u) PROVE Tables' /\ Others'
    BY <2>2, AccountStep, RemoveStep DEF Operator
  <2>3. QED BY <1>1, <2>1, <2>2, RemoveStep, MaintenanceStep DEF Next
<1>2. ASSUME UNCHANGED vars PROVE Tables' /\ Others'
  <2>1. RequestsConsistent'
    BY <1>2, RequestsKept DEF vars, IInv, Persist
  <2>2. QED BY <1>2, <2>1, QuietStep DEF vars
<1>3. Typed'
  BY TypedNext
<1>4. QED BY <1>1, <1>2, <1>3 DEF IInv, Tables, Others

\* The initial tables are empty but for devices without a session.
LEMMA IInvInit == Init => IInv
<1> SUFFICES ASSUME Init PROVE IInv
  OBVIOUS
<1>1. Typed
  <2>1. family \in [Families -> Family] /\ token \in [Tokens -> Token] /\ request \in [Clients -> Request]
    BY DEF Init, Family, Token, Request, Idle
  <2>2. device \in [Devices -> Device]
    BY Rows DEF Init, Device
  <2>3. account \in [Users -> {"active", "banned", "deleted"}] /\ uses \in [Tokens -> 0..2]
    BY DEF Init
  <2>4. QED BY <2>1, <2>2, <2>3 DEF Typed
<1>2. Lineage /\ Closing
  BY DEF Init, Lineage, Closing, Linked, Owned, Newest, Generations, Outlives, Stored,
         LiveTokenUsable, RevokedTogether, UsedConsumed, DoubleUseRevokes
<1>3. DevicesFollowSession
  BY DEF Init, DevicesFollowSession, NoRow
<1>4. ClosedAccountNoSession /\ RequestsConsistent
  BY DEF Init, ClosedAccountNoSession, RequestsConsistent, RequestOf, Idle
<1>5. QED BY <1>1, <1>2, <1>3, <1>4 DEF IInv

\* The invariant holds throughout.
LEMMA Invariance == Spec => []IInv
BY IInvInit, IInvNext, PTL DEF Spec

\* Columns keep their types and no transaction leaves a token without family.
THEOREM TypeCorrect == Spec => []TypeOK
<1>1. IInv => TypeOK
  BY DEF IInv, Lineage, Typed, TypeOK, Owned, Linked, Stored
<1>2. QED BY <1>1, Invariance, PTL

\* Two refreshes of the same unexpired token, in any interleaving with any
\* other request, always leave the session closed.
THEOREM ReplayCloses == Spec => []DoubleUseRevokes
<1>1. IInv => DoubleUseRevokes
  BY DEF IInv, Closing
<1>2. QED BY <1>1, Invariance, PTL

\* Neither unique index of refresh_tokens can ever fail a transaction, and a
\* live token always has an active session that expires with it.
THEOREM LineageKept == Spec => [](OneLineage /\ LiveTokenUsable)
<1>1. IInv => OneLineage
  <2> SUFFICES ASSUME IInv, NEW s \in Tokens, NEW t \in Tokens, s # t, Stored(s), Stored(t),
                      token[s].family = token[t].family
               PROVE  token[s].gen # token[t].gen /\ ~(token[s].status = "live" /\ token[t].status = "live")
    BY DEF OneLineage
  <2>1. Generations /\ LiveTokenUsable
    BY DEF IInv, Lineage, Closing
  <2>2. token[s].gen # token[t].gen
    BY <2>1 DEF Generations, Stored
  <2>3. ~(token[s].status = "live" /\ token[t].status = "live")
    BY <2>1 DEF LiveTokenUsable
  <2>4. QED BY <2>2, <2>3
<1>2. IInv => LiveTokenUsable
  BY DEF IInv, Closing
<1>3. QED BY <1>1, <1>2, Invariance, PTL

\* Closing a session takes its device rows with it, whatever requests were
\* under way.
THEOREM DevicesFollow == Spec => []DevicesFollowSession
<1>1. IInv => DevicesFollowSession
  BY DEF IInv
<1>2. QED BY <1>1, Invariance, PTL

\* A ban or a deletion closes every session of the account, and no login or
\* refresh that was under way opens another.
THEOREM NothingSurvivesClosing == Spec => []ClosedAccountNoSession
<1>1. IInv => ClosedAccountNoSession
  BY DEF IInv
<1>2. QED BY <1>1, Invariance, PTL

-----------------------------------------------------------------------------
(* RetentionMaintenance, which deletes the tokens and families that are    *)
(* past their date.                                                        *)

\* Three tables of finitely many rows, a token has a family, and a batch and a
\* pass are not empty.
RetentionNames ==
    /\ IsFiniteSet(TokenRows) /\ IsFiniteSet(FamilyRows) /\ IsFiniteSet(DatedRows)
    /\ TokenRows \cap FamilyRows = {} /\ TokenRows \cap DatedRows = {} /\ FamilyRows \cap DatedRows = {}
    /\ FamilyOf \in [TokenRows -> FamilyRows]
    /\ RowsPerBatch \in Nat \ {0} /\ MaxBatches \in Nat \ {0} /\ MaxPassFaults \in Nat /\ NoLeader \notin Procs

\* The types of a pass and of the row about it.
PassType == [at : {"idle", "date", "lock", "batch", "end"}, batch : 0..MaxBatches,
             full : BOOLEAN, clash : BOOLEAN, cut : SUBSET Retention!Rows,
             status : {"running", "succeeded", "failed", "skipped"}]
StatusType == [by : Procs \cup {NoLeader}, remaining : BOOLEAN,
               status : {"missing", "running", "succeeded", "failed", "skipped"}]

\* The dates of each table are in one order.
Dates ==
    /\ expired \subseteq stored /\ older \subseteq expired \X expired
    /\ \A q, r \in expired : q \in Retention!TableOf(r) => q = r \/ (<<q, r>> \in older <=> <<r, q>> \notin older)
    /\ \A r \in expired : <<r, r>> \notin older
    /\ \A q, r \in expired : <<q, r>> \in older => q \in Retention!TableOf(r)
    /\ \A q, r, s \in expired : <<q, r>> \in older /\ <<r, s>> \in older => <<q, s>> \in older

\* A family is there as long as its tokens, and is not past its date before them.
FamilyDates ==
    \A t \in TokenRows : t \in stored =>
      FamilyOf[t] \in stored /\ (FamilyOf[t] \in expired => t \in expired)

\* What is known of the rows.
RowsSound == stored \subseteq Retention!Rows /\ Dates /\ FamilyDates

\* A row that was past its date still is, or is not there any more; and with a
\* family its tokens were.
CutSound(c) ==
    /\ \A r \in c : r \in stored => r \in expired
    /\ \A t \in TokenRows : t \in stored /\ FamilyOf[t] \in c /\ FamilyOf[t] \in expired => t \in c

\* A pass that calls itself done has left nothing.
Clean(x) ==
    x.at = "end" /\ x.status = "succeeded" /\ ~x.full /\ ~x.clash => x.cut \cap expired = {}

\* What is known of a pass.
PassSound(p) ==
    /\ CutSound(pass[p].cut) /\ Clean(pass[p])
    /\ pass[p].at \in {"date", "lock", "batch"} => pass[p].batch < MaxBatches
    /\ pass[p].at = "batch" <=> leader = p

\* The inductive invariant of RetentionMaintenance.
RetentionInv ==
    /\ RowsSound /\ pass \in [Procs -> PassType] /\ jobStatus \in StatusType
    /\ leader \in Procs \cup {NoLeader} /\ passFaults \in 0..MaxPassFaults
    /\ \A p \in Procs : PassSound(p)

\* A row is of one table.
LEMMA RowTables ==
    ASSUME RetentionNames
    PROVE  /\ \A r \in Retention!Rows : r \in Retention!TableOf(r)
           /\ \A q, r \in Retention!Rows : q \in Retention!TableOf(r) => Retention!TableOf(q) = Retention!TableOf(r)
<1>1. ASSUME NEW r \in Retention!Rows
      PROVE  r \in Retention!TableOf(r) /\ Retention!TableOf(r) \in {TokenRows, FamilyRows, DatedRows}
  <2>1. \E table \in {TokenRows, FamilyRows, DatedRows} : r \in table
    BY DEF Retention!Rows
  <2>2. QED BY <2>1, Zenon DEF Retention!TableOf
<1>2. ASSUME NEW q \in Retention!Rows, NEW r \in Retention!Rows, q \in Retention!TableOf(r)
      PROVE  Retention!TableOf(q) = Retention!TableOf(r)
  <2>1. \A A, B \in {TokenRows, FamilyRows, DatedRows} : A = B \/ A \cap B = {}
    BY DEF RetentionNames
  <2>2. q \in Retention!TableOf(q) /\ Retention!TableOf(q) \in {TokenRows, FamilyRows, DatedRows}
    BY <1>1
  <2>3. Retention!TableOf(r) \in {TokenRows, FamilyRows, DatedRows}
    BY <1>1
  <2>4. QED BY <1>2, <2>1, <2>2, <2>3
<1>3. QED BY <1>1, <1>2

\* A nonempty set of naturals has a least member.
LEMMA LeastNat ==
    ASSUME NEW T \in SUBSET Nat, T # {}
    PROVE  \E n \in T : \A m \in T : n <= m
<1>1. PICK R : IsWellFoundedOn(R, Nat) /\ \A m, n \in Nat : m < n => <<m, n>> \in R
  <2>1. \A m, n \in Nat : m < n => <<m, n>> \in OpToRel(<, Nat)
    BY DEF OpToRel
  <2>2. IsWellFoundedOn(OpToRel(<, Nat), Nat)
    BY NatLessThanWellFounded
  <2>3. QED BY <2>1, <2>2, Zenon
<1>2. T \subseteq Nat /\ T # {} /\ IsWellFoundedOn(R, Nat)
  BY <1>1
<1>3. \E x \in T : \A y \in T : ~(<<y, x>> \in R)
  BY <1>2, WFMin, Zenon
<1>4. PICK n \in T : \A m \in T : ~(<<m, n>> \in R)
  BY <1>3
<1>5. \A m \in T : ~(m < n)
  BY <1>1, <1>4
<1>6. QED BY <1>4, <1>5

\* LIMIT: a statement that deletes fewer rows than a batch has left none of A.  A row
\* it leaves, the oldest of them, would have a whole batch of older rows before it,
\* and all of them would be deleted.
LEMMA ShortMeansAll ==
    ASSUME RetentionNames, Dates, NEW A \in SUBSET expired, IsFiniteSet(A),
           Cardinality(Retention!OldestRows(A)) < RowsPerBatch
    PROVE  Retention!OldestRows(A) = A
<1> DEFINE Before(r) == {q \in A : <<q, r>> \in older}
<1> DEFINE First == Retention!OldestRows(A)
<1>1. First = {r \in A : Cardinality(Before(r)) < RowsPerBatch}
  <2>1. \A S : Retention!Cardinality(S) = Cardinality(S)
    BY DEF Retention!Cardinality, Cardinality
  <2>2. QED BY <2>1 DEF Retention!OldestRows
<1>2. \A r \in A : IsFiniteSet(Before(r)) /\ Cardinality(Before(r)) \in Nat
  BY FS_Subset, FS_CardinalityType
<1>3. SUFFICES ASSUME NEW z \in A, z \notin First PROVE FALSE
  BY <1>1
<1>4. PICK r \in A \ First : \A s \in A \ First : Cardinality(Before(r)) <= Cardinality(Before(s))
  <2> DEFINE T == {Cardinality(Before(s)) : s \in A \ First}
  <2>1. T \in SUBSET Nat /\ T # {}
    BY <1>2, <1>3
  <2>2. PICK n \in T : \A m \in T : n <= m
    BY <2>1, LeastNat
  <2>3. QED BY <2>2
<1>5. PICK b \in Nat : b = Cardinality(Before(r)) /\ IsFiniteSet(Before(r)) /\ ~(b < RowsPerBatch)
  BY <1>1, <1>2, <1>4
<1>6. ASSUME NEW q \in Before(r) PROVE q \in First
  <2>1. Before(q) \in SUBSET Before(r) /\ Before(q) # Before(r) /\ q \in A
    BY <1>6 DEF Dates
  <2>2. PICK a \in Nat : a = Cardinality(Before(q))
    BY <1>2, <2>1
  <2>3. a <= b /\ a # b
    BY <1>5, <2>1, <2>2, FS_Subset
  <2>4. ~(b <= a)
    BY <2>3
  <2>5. QED BY <1>4, <1>5, <2>1, <2>2, <2>4
<1>7. PICK f \in Nat : f = Cardinality(First) /\ IsFiniteSet(First)
  BY <1>1, FS_Subset, FS_CardinalityType
<1>8. b <= f
  BY <1>5, <1>6, <1>7, FS_Subset
<1>9. f < RowsPerBatch /\ RowsPerBatch \in Nat
  BY <1>7 DEF RetentionNames
<1>10. QED BY <1>5, <1>8, <1>9

-----------------------------------------------------------------------------
(* The rows.                                                               *)

\* Rows that take the tokens of their families with them leave the tables in order.
LEMMA DeletedRows ==
    ASSUME RowsSound, NEW R, Retention!Delete(R),
           \A t \in TokenRows : t \in stored /\ FamilyOf[t] \in R => t \in R
    PROVE  RowsSound'
<1>1. /\ stored' = stored \ R /\ expired' = expired \ R
      /\ older' = older \cap ((expired \ R) \X (expired \ R))
  BY DEF Retention!Delete
<1>2. \A q, r : q \in expired' /\ r \in expired' => (<<q, r>> \in older' <=> <<q, r>> \in older)
  BY <1>1
<1>3. \A r : r \in expired' => r \in expired
  BY <1>1
<1>4. expired' \subseteq stored' /\ older' \subseteq expired' \X expired'
  BY <1>1 DEF RowsSound, Dates
<1>5. \A q, r \in expired' : q \in Retention!TableOf(r) => q = r \/ (<<q, r>> \in older' <=> <<r, q>> \notin older')
  BY <1>2, <1>3 DEF RowsSound, Dates
<1>6. /\ \A r \in expired' : <<r, r>> \notin older'
      /\ \A q, r \in expired' : <<q, r>> \in older' => q \in Retention!TableOf(r)
      /\ \A q, r, s \in expired' : <<q, r>> \in older' /\ <<r, s>> \in older' => <<q, s>> \in older'
  BY <1>2, <1>3 DEF RowsSound, Dates
<1>7. Dates'
  BY <1>4, <1>5, <1>6 DEF Dates, Retention!TableOf
<1>8. FamilyDates'
  BY <1>1 DEF RowsSound, FamilyDates
<1>9. stored' \subseteq Retention!Rows
  BY <1>1 DEF RowsSound
<1>10. QED BY <1>7, <1>8, <1>9 DEF RowsSound, Retention!Rows

\* What was past its date when rows are deleted.
LEMMA DeletedCut ==
    ASSUME NEW R, Retention!Delete(R), NEW c, CutSound(c)
    PROVE  /\ \A r \in c : r \in stored' => r \in expired'
           /\ \A t \in TokenRows : t \in stored' /\ FamilyOf[t] \in c /\ FamilyOf[t] \in expired' => t \in c
BY DEF Retention!Delete, CutSound

\* Deleting rows leaves what the passes know true.
LEMMA DeletedPass ==
    ASSUME NEW R, Retention!Delete(R), NEW p \in Procs, PassSound(p), UNCHANGED <<leader, pass>>
    PROVE  PassSound(p)'
<1>1. CutSound(pass[p].cut)'
  BY DeletedCut DEF PassSound, CutSound
<1>2. Clean(pass[p])'
  BY DEF PassSound, Clean, Retention!Delete
<1>3. QED BY <1>1, <1>2 DEF PassSound

\* Another transaction deletes a family with its tokens, or another row.
LEMMA EraseKept ==
    ASSUME RetentionNames, RetentionInv, NEW r \in Retention!Rows, Retention!Erase(r)
    PROVE  RetentionInv'
<1> DEFINE R == {r} \cup {t \in TokenRows : FamilyOf[t] = r}
<1>1. Retention!Delete(R) /\ r \notin TokenRows /\ UNCHANGED <<leader, pass, jobStatus, passFaults>>
  BY DEF Retention!Erase
<1>2. \A t \in TokenRows : t \in stored /\ FamilyOf[t] \in R => t \in R
  BY DEF RetentionNames
<1> HIDE DEF R
<1>3. RowsSound'
  BY <1>1, <1>2, DeletedRows DEF RetentionInv
<1>4. \A p \in Procs : PassSound(p)'
  BY <1>1, DeletedPass DEF RetentionInv
<1>5. QED BY <1>1, <1>3, <1>4 DEF RetentionInv, PassType, StatusType, Retention!Rows

\* A row comes: a token into a family that is not past its date.
LEMMA CreateKept ==
    ASSUME RetentionNames, RetentionInv, NEW r \in Retention!Rows, Retention!Create(r)
    PROVE  RetentionInv'
<1>1. /\ r \notin stored /\ (r \in TokenRows => FamilyOf[r] \in stored \ expired)
      /\ stored' = stored \cup {r} /\ pass' = [p \in Procs |-> [pass[p] EXCEPT !.cut = @ \ {r}]]
      /\ UNCHANGED <<expired, older, leader, jobStatus, passFaults>>
  BY DEF Retention!Create
<1>2. Dates'
  <2>1. Dates
    BY DEF RetentionInv, RowsSound
  <2>2. expired' \subseteq stored' /\ older' \subseteq expired' \X expired'
    BY <1>1, <2>1 DEF Dates
  <2>3. QED BY <1>1, <2>1, <2>2 DEF Dates, Retention!TableOf
<1>3. FamilyDates'
  BY <1>1 DEF RetentionInv, RowsSound, FamilyDates
<1>4. RowsSound'
  BY <1>1, <1>2, <1>3 DEF RetentionInv, RowsSound, Retention!Rows
<1>5. ASSUME NEW p \in Procs PROVE pass'[p] \in PassType /\ PassSound(p)'
  <2>1. pass[p] \in PassType /\ PassSound(p)
    BY DEF RetentionInv
  <2>2. pass'[p] = [pass[p] EXCEPT !.cut = pass[p].cut \ {r}]
    BY <1>1
  <2>3. pass'[p] \in PassType /\ pass'[p].cut = pass[p].cut \ {r} /\ pass'[p].at = pass[p].at
        /\ pass'[p].status = pass[p].status /\ pass'[p].full = pass[p].full /\ pass'[p].clash = pass[p].clash
        /\ pass'[p].batch = pass[p].batch
    BY <2>1, <2>2 DEF PassType
  <2>4. CutSound(pass[p].cut)'
    <3>1. CutSound(pass[p].cut)
      BY <2>1 DEF PassSound
    <3>2. \A q \in pass'[p].cut : q \in pass[p].cut /\ q # r
      BY <2>3
    <3>3. \A q \in pass'[p].cut : q \in stored' => q \in expired'
      BY <1>1, <3>1, <3>2 DEF CutSound
    <3>4. ASSUME NEW t \in TokenRows, t \in stored', FamilyOf[t] \in pass'[p].cut, FamilyOf[t] \in expired'
          PROVE  t \in pass'[p].cut
      <4>1. t # r /\ t \in stored /\ FamilyOf[t] \in expired /\ FamilyOf[t] \in pass[p].cut
        BY <1>1, <3>2, <3>4
      <4>2. QED BY <2>3, <3>1, <4>1 DEF CutSound
    <3>5. QED BY <3>3, <3>4 DEF CutSound
  <2>5. Clean(pass[p])'
    BY <1>1, <2>1, <2>3 DEF PassSound, Clean
  <2>6. QED BY <1>1, <2>1, <2>3, <2>4, <2>5 DEF PassSound
<1>6. pass' \in [Procs -> PassType]
  BY <1>1, <1>5
<1>7. QED BY <1>1, <1>4, <1>5, <1>6 DEF RetentionInv, PassType, StatusType, Retention!Rows

\* A row passes its date, as the newest of its table.
LEMMA ExpireKept ==
    ASSUME RetentionNames, RetentionInv, NEW r \in Retention!Rows, Retention!Expire(r)
    PROVE  RetentionInv'
<1>1. /\ r \in stored /\ r \notin expired /\ expired' = expired \cup {r}
      /\ r \in FamilyRows => \A t \in TokenRows \cap stored : FamilyOf[t] = r => t \in expired
      /\ older' = older \cup ((expired \cap Retention!TableOf(r)) \X {r})
      /\ UNCHANGED <<stored, leader, pass, jobStatus, passFaults>>
  BY DEF Retention!Expire
<1>2. Dates /\ expired \subseteq Retention!Rows
  BY DEF RetentionInv, RowsSound, Dates
<1>3. /\ \A q, s : q \in expired /\ s \in expired => (<<q, s>> \in older' <=> <<q, s>> \in older)
      /\ \A q : <<q, r>> \in older' <=> q \in expired /\ q \in Retention!TableOf(r)
      /\ \A s : <<r, s>> \notin older'
  BY <1>1, <1>2 DEF Dates
<1>4. \A q, s \in Retention!Rows : q \in Retention!TableOf(s) <=> s \in Retention!TableOf(q)
  BY RowTables
<1>5. \A q, s, u \in Retention!Rows : q \in Retention!TableOf(s) /\ s \in Retention!TableOf(u) => q \in Retention!TableOf(u)
  BY RowTables
<1>6. expired' \subseteq stored' /\ older' \subseteq expired' \X expired'
  BY <1>1, <1>2 DEF Dates
<1>7. ASSUME NEW q \in expired', NEW s \in expired', q \in Retention!TableOf(s)
      PROVE  q = s \/ (<<q, s>> \in older' <=> <<s, q>> \notin older')
  <2>1. CASE q \in expired /\ s \in expired
    BY <1>2, <1>3, <1>7, <2>1 DEF Dates
  <2>2. CASE q \in expired /\ s = r
    BY <1>3, <1>7, <2>2
  <2>3. CASE q = r /\ s \in expired
    BY <1>2, <1>3, <1>4, <1>7, <2>3
  <2>4. QED BY <1>1, <2>1, <2>2, <2>3
<1>8. \A q \in expired' : <<q, q>> \notin older'
  BY <1>1, <1>2, <1>3 DEF Dates
<1>9. \A q, s \in expired' : <<q, s>> \in older' => q \in Retention!TableOf(s)
  BY <1>1, <1>2, <1>3 DEF Dates
<1>10. ASSUME NEW q \in expired', NEW s \in expired', NEW u \in expired', <<q, s>> \in older', <<s, u>> \in older'
       PROVE  <<q, u>> \in older'
  <2>1. q \in expired /\ s \in expired
    BY <1>1, <1>3, <1>10
  <2>2. CASE u \in expired
    BY <1>2, <1>3, <1>10, <2>1, <2>2 DEF Dates
  <2>3. CASE u = r
    <3>1. q \in Retention!TableOf(s) /\ s \in Retention!TableOf(r)
      BY <1>3, <1>9, <1>10, <2>3
    <3>2. QED BY <1>2, <1>3, <1>5, <2>1, <2>3, <3>1
  <2>4. QED BY <1>1, <2>2, <2>3
<1>11. Dates'
  BY <1>6, <1>7, <1>8, <1>9, <1>10 DEF Dates, Retention!TableOf
<1>12. FamilyDates'
  BY <1>1 DEF RetentionInv, RowsSound, FamilyDates, RetentionNames
<1>13. RowsSound'
  BY <1>1, <1>11, <1>12 DEF RetentionInv, RowsSound, Retention!Rows
<1>14. ASSUME NEW p \in Procs PROVE PassSound(p)'
  <2>1. PassSound(p) /\ r \notin pass[p].cut
    BY <1>1 DEF RetentionInv, PassSound, CutSound
  <2>2. CutSound(pass[p].cut)'
    BY <1>1, <2>1 DEF PassSound, CutSound
  <2>3. Clean(pass[p])'
    BY <1>1, <2>1 DEF PassSound, Clean
  <2>4. QED BY <1>1, <2>1, <2>2, <2>3 DEF PassSound
<1>15. QED BY <1>1, <1>13, <1>14 DEF RetentionInv, PassType, StatusType, Retention!Rows

-----------------------------------------------------------------------------
(* The passes.                                                             *)

\* A step that leaves the rows alone and moves one pass.
LEMMA OnePassKept ==
    ASSUME RetentionInv, NEW p \in Procs, NEW x \in PassType, pass' = [pass EXCEPT ![p] = x],
           UNCHANGED <<stored, expired, older>>, jobStatus' \in StatusType, passFaults' \in 0..MaxPassFaults,
           leader' \in Procs \cup {NoLeader}, \A q \in Procs \ {p} : leader' = q <=> leader = q,
           CutSound(x.cut), Clean(x), x.at \in {"date", "lock", "batch"} => x.batch < MaxBatches,
           x.at = "batch" <=> leader' = p
    PROVE  RetentionInv'
<1>1. RowsSound'
  BY DEF RetentionInv, RowsSound, Dates, FamilyDates, Retention!Rows, Retention!TableOf
<1>2. pass' \in [Procs -> PassType] /\ pass'[p] = x /\ \A q \in Procs \ {p} : pass'[q] = pass[q]
  BY DEF RetentionInv
<1>3. ASSUME NEW q \in Procs PROVE PassSound(q)'
  <2>1. CASE q = p
    <3>1. CutSound(pass[q].cut)'
      BY <1>2, <2>1 DEF CutSound
    <3>2. Clean(pass[q])'
      BY <1>2, <2>1 DEF Clean
    <3>3. QED BY <1>2, <2>1, <3>1, <3>2 DEF PassSound
  <2>2. CASE q # p
    <3>1. PassSound(q) /\ pass'[q] = pass[q]
      BY <1>2, <2>2 DEF RetentionInv
    <3>2. CutSound(pass[q].cut)'
      BY <3>1 DEF CutSound, PassSound
    <3>3. Clean(pass[q])'
      BY <3>1 DEF Clean, PassSound
    <3>4. leader' = q <=> leader = q
      BY <2>2
    <3>5. QED BY <3>1, <3>2, <3>3, <3>4 DEF PassSound
  <2>3. QED BY <2>1, <2>2
<1>4. QED BY <1>1, <1>2, <1>3 DEF RetentionInv, PassType, StatusType, Retention!Rows

\* An idle pass, the nothing it knows, and the bounds it starts with.
LEMMA NothingKnown ==
    ASSUME RetentionNames
    PROVE  /\ Retention!Idle \in PassType /\ CutSound({}) /\ Retention!Idle.cut = {} /\ Retention!Idle.at = "idle"
           /\ Clean(Retention!Idle) /\ 0 < MaxBatches
           /\ LET x == [Retention!Idle EXCEPT !.at = "date"]
              IN  x \in PassType /\ x.at = "date" /\ x.cut = {} /\ x.batch = 0
<1>1. 0 \in 0..MaxBatches /\ 0 < MaxBatches
  BY DEF RetentionNames
<1>2. Retention!Idle \in PassType
  BY <1>1 DEF PassType, Retention!Idle
<1>3. QED BY <1>1, <1>2 DEF Retention!Idle, PassType, CutSound, Clean

\* A fault more is within the bound.
LEMMA FaultsBounded ==
    ASSUME RetentionNames, RetentionInv
    PROVE  /\ passFaults < MaxPassFaults => passFaults + 1 \in 0..MaxPassFaults
           /\ \A b \in BOOLEAN : Retention!Lost(b) => passFaults' \in 0..MaxPassFaults
<1>1. passFaults \in 0..MaxPassFaults /\ MaxPassFaults \in Nat
  BY DEF RetentionInv, RetentionNames
<1>2. passFaults < MaxPassFaults => passFaults + 1 \in 0..MaxPassFaults
  BY <1>1
<1>3. QED BY <1>1, <1>2 DEF Retention!Lost

\* start() and finish() of the tracker.
LEMMA TrackedKept ==
    ASSUME RetentionNames, RetentionInv, NEW p \in Procs, NEW recorded \in BOOLEAN,
           Retention!Start(p, recorded) \/ Retention!Finish(p, recorded)
    PROVE  RetentionInv'
<1>1. pass[p] \in PassType /\ PassSound(p) /\ jobStatus \in StatusType /\ leader \in Procs \cup {NoLeader}
  BY DEF RetentionInv
<1>2. leader # p /\ passFaults' \in 0..MaxPassFaults /\ UNCHANGED <<stored, expired, older, leader>>
  BY <1>1, FaultsBounded DEF Retention!Start, Retention!Finish, PassSound
<1>3. CASE Retention!Start(p, recorded)
  <2> DEFINE x == [Retention!Idle EXCEPT !.at = "date"]
  <2>1. x \in PassType /\ x.at = "date" /\ x.cut = {} /\ x.batch = 0 /\ 0 < MaxBatches
    BY NothingKnown
  <2>2. pass' = [pass EXCEPT ![p] = x]
    BY <1>3 DEF Retention!Start
  <2>3. jobStatus' \in StatusType
    <3>1. [by |-> p, status |-> "running", remaining |-> FALSE] \in StatusType
      BY DEF StatusType
    <3>2. \A b \in Procs \cup {NoLeader} : [jobStatus EXCEPT !.by = b] \in StatusType
      BY <1>1 DEF StatusType
    <3>3. jobStatus.by \in Procs \cup {NoLeader}
      BY <1>1 DEF StatusType
    <3>4. QED BY <1>3, <3>1, <3>2, <3>3 DEF Retention!Start
  <2> HIDE DEF x
  <2>4. CutSound(x.cut) /\ Clean(x)
    BY <2>1, NothingKnown DEF Clean
  <2>5. QED BY <1>1, <1>2, <2>1, <2>2, <2>3, <2>4, OnePassKept
<1>4. CASE Retention!Finish(p, recorded)
  <2>1. pass' = [pass EXCEPT ![p] = Retention!Idle]
    BY <1>4 DEF Retention!Finish
  <2>2. jobStatus' \in StatusType
    <3>1. Retention!Outcome(p) \in StatusType
      BY <1>1 DEF Retention!Outcome, StatusType, PassType
    <3>2. QED BY <1>1, <1>4, <3>1 DEF Retention!Finish
  <2>3. QED BY <1>1, <1>2, <2>1, <2>2, NothingKnown, OnePassKept
<1>5. QED BY <1>3, <1>4

\* new Date(): everything past its date is known to be.
LEMMA TakeDateKept ==
    ASSUME RetentionNames, RetentionInv, NEW p \in Procs, Retention!TakeDate(p)
    PROVE  RetentionInv'
<1> DEFINE x == [pass[p] EXCEPT !.at = "lock", !.cut = expired]
<1>1. /\ pass[p] \in PassType /\ PassSound(p) /\ jobStatus \in StatusType /\ leader \in Procs \cup {NoLeader}
      /\ pass \in [Procs -> PassType] /\ RowsSound /\ passFaults \in 0..MaxPassFaults
  BY DEF RetentionInv
<1>2. pass[p].at = "date" /\ pass' = [pass EXCEPT ![p] = x] /\ UNCHANGED <<stored, expired, older, leader, jobStatus, passFaults>>
  BY DEF Retention!TakeDate
<1>3. expired \in SUBSET Retention!Rows
  BY <1>1 DEF RowsSound, Dates
<1>4. x \in PassType /\ x.at = "lock" /\ x.cut = expired /\ x.batch = pass[p].batch
  BY <1>1, <1>3 DEF PassType
<1> HIDE DEF x
<1>5. CutSound(x.cut) /\ Clean(x)
  BY <1>1, <1>4 DEF CutSound, Clean, RowsSound, FamilyDates
<1>6. leader # p /\ x.batch < MaxBatches
  BY <1>1, <1>2, <1>4 DEF PassSound
<1>7. QED BY <1>1, <1>2, <1>4, <1>5, <1>6, OnePassKept

\* The lock is tried.
LEMMA LeadKept ==
    ASSUME RetentionNames, RetentionInv, NEW p \in Procs, Retention!Lead(p)
    PROVE  RetentionInv'
<1>1. /\ pass[p] \in PassType /\ PassSound(p) /\ jobStatus \in StatusType /\ leader \in Procs \cup {NoLeader}
      /\ pass \in [Procs -> PassType] /\ passFaults \in 0..MaxPassFaults /\ NoLeader \notin Procs
  BY DEF RetentionInv, RetentionNames
<1>2. pass[p].at = "lock" /\ leader # p /\ pass[p].batch < MaxBatches /\ UNCHANGED <<stored, expired, older, jobStatus, passFaults>>
  BY <1>1 DEF Retention!Lead, PassSound
<1>3. CASE leader = NoLeader
  <2> DEFINE x == [pass[p] EXCEPT !.at = "batch"]
  <2>1. pass' = [pass EXCEPT ![p] = x] /\ leader' = p
    BY <1>3 DEF Retention!Lead
  <2>2. x \in PassType /\ x.at = "batch" /\ x.cut = pass[p].cut /\ x.batch = pass[p].batch
    BY <1>1 DEF PassType
  <2> HIDE DEF x
  <2>3. CutSound(x.cut) /\ Clean(x)
    BY <1>1, <2>2 DEF PassSound, Clean
  <2>4. \A q \in Procs \ {p} : leader' = q <=> leader = q
    BY <1>1, <1>3, <2>1
  <2>5. QED BY <1>1, <1>2, <2>1, <2>2, <2>3, <2>4, OnePassKept
<1>4. CASE leader # NoLeader
  <2> DEFINE s == IF pass[p].batch > 0 THEN "succeeded" ELSE "skipped"
  <2> DEFINE x == [pass[p] EXCEPT !.at = "end", !.full = pass[p].batch > 0, !.cut = {}, !.status = s]
  <2>1. pass' = [pass EXCEPT ![p] = x] /\ leader' = leader
    BY <1>4 DEF Retention!Lead
  <2>2. (pass[p].batch > 0) \in BOOLEAN /\ s \in {"succeeded", "skipped"}
    OBVIOUS
  <2> HIDE DEF s
  <2>3. x \in PassType /\ x.at = "end" /\ x.cut = {}
    BY <1>1, <2>2 DEF PassType
  <2> HIDE DEF x
  <2>4. CutSound(x.cut) /\ Clean(x)
    BY <2>3, NothingKnown DEF Clean
  <2>5. QED BY <1>1, <1>2, <2>1, <2>3, <2>4, OnePassKept
<1>5. QED BY <1>3, <1>4

\* A transaction fails, or a process dies: the lock is released.
LEMMA StoppedKept ==
    ASSUME RetentionNames, RetentionInv, NEW p \in Procs, Retention!Fail(p) \/ Retention!Crash(p)
    PROVE  RetentionInv'
<1>1. /\ pass[p] \in PassType /\ PassSound(p) /\ jobStatus \in StatusType /\ leader \in Procs \cup {NoLeader}
      /\ pass \in [Procs -> PassType] /\ NoLeader \notin Procs
  BY DEF RetentionInv, RetentionNames
<1>2. leader' = (IF leader = p THEN NoLeader ELSE leader) /\ passFaults' \in 0..MaxPassFaults /\ UNCHANGED <<stored, expired, older>>
  BY FaultsBounded DEF Retention!Fail, Retention!Crash
<1>3. leader' \in Procs \cup {NoLeader} /\ leader' # p /\ \A q \in Procs \ {p} : leader' = q <=> leader = q
  BY <1>1, <1>2
<1>4. CASE Retention!Fail(p)
  <2> DEFINE x == [pass[p] EXCEPT !.at = "end", !.status = "failed", !.cut = {}]
  <2>1. pass' = [pass EXCEPT ![p] = x] /\ jobStatus' = jobStatus
    BY <1>4 DEF Retention!Fail
  <2>2. x \in PassType /\ x.at = "end" /\ x.cut = {}
    BY <1>1 DEF PassType
  <2> HIDE DEF x
  <2>3. CutSound(x.cut) /\ Clean(x)
    BY <2>2, NothingKnown DEF Clean
  <2>4. QED BY <1>1, <1>2, <1>3, <2>1, <2>2, <2>3, OnePassKept
<1>5. CASE Retention!Crash(p)
  <2>1. pass' = [pass EXCEPT ![p] = Retention!Idle]
    BY <1>5 DEF Retention!Crash
  <2>2. \A b \in Procs \cup {NoLeader} : [jobStatus EXCEPT !.by = b] \in StatusType
    BY <1>1 DEF StatusType
  <2>3. jobStatus.by \in Procs \cup {NoLeader}
    BY <1>1 DEF StatusType
  <2>4. jobStatus' \in StatusType
    BY <1>5, <2>2, <2>3 DEF Retention!Crash
  <2>5. QED BY <1>1, <1>2, <1>3, <2>1, <2>4, NothingKnown, OnePassKept
<1>6. QED BY <1>4, <1>5

\* A batch deletes rows that are past their date, a family only without tokens; and
\* when no statement deleted a whole batch, all of them.
LEMMA BatchRows ==
    ASSUME RetentionNames, RetentionInv, NEW p \in Procs, NEW b, b = Retention!Batch(p)
    PROVE  /\ \A t \in TokenRows : t \in stored /\ FamilyOf[t] \in b.token \cup b.family \cup b.other => t \in b.token
           /\ b.other \subseteq DatedRows
           /\ ~Retention!Full(Retention!Cardinality(b.token)) /\ ~Retention!Full(Retention!Cardinality(b.family))
              /\ ~Retention!Full(Retention!Cardinality(b.other)) =>
                pass[p].cut \cap expired \subseteq b.token \cup b.family \cup b.other
<1>1. /\ RowsSound /\ Dates /\ FamilyDates /\ CutSound(pass[p].cut) /\ expired \subseteq Retention!Rows
  BY DEF RetentionInv, RowsSound, Dates, PassSound
<1> DEFINE ripe == pass[p].cut \cap expired
<1> DEFINE families == ripe \cap Retention!EmptyFamilies(stored \ b.token)
<1>2. /\ b.token = Retention!OldestRows(ripe \cap TokenRows) /\ b.other = Retention!OldestRows(ripe \cap DatedRows)
      /\ b.family = Retention!OldestRows(families)
  BY DEF Retention!Batch
<1>3. \A A : Retention!OldestRows(A) \subseteq A
  BY DEF Retention!OldestRows
<1>4. /\ families \subseteq FamilyRows
      /\ \A f \in families : \A t \in TokenRows : t \in stored /\ FamilyOf[t] = f => t \in b.token
  BY DEF Retention!EmptyFamilies
<1>5. b.token \subseteq TokenRows /\ b.other \subseteq DatedRows /\ b.family \subseteq families
  BY <1>2, <1>3
<1>6. ASSUME NEW t \in TokenRows, t \in stored, FamilyOf[t] \in b.token \cup b.family \cup b.other
      PROVE  t \in b.token
  <2>1. FamilyOf[t] \in FamilyRows
    BY DEF RetentionNames
  <2>2. FamilyOf[t] \in b.family
    BY <1>5, <1>6, <2>1 DEF RetentionNames
  <2>3. QED BY <1>4, <1>5, <1>6, <2>2
<1>7. ASSUME ~Retention!Full(Retention!Cardinality(b.token)), ~Retention!Full(Retention!Cardinality(b.family)),
             ~Retention!Full(Retention!Cardinality(b.other))
      PROVE  ripe \subseteq b.token \cup b.family \cup b.other
  <2>1. \A S : Retention!Cardinality(S) = Cardinality(S)
    BY DEF Retention!Cardinality, Cardinality
  <2>2. /\ ripe \cap TokenRows \in SUBSET expired /\ ripe \cap DatedRows \in SUBSET expired /\ families \in SUBSET expired
        /\ IsFiniteSet(ripe \cap TokenRows) /\ IsFiniteSet(ripe \cap DatedRows) /\ IsFiniteSet(families)
    <3>1. ripe \cap TokenRows \in SUBSET TokenRows /\ ripe \cap DatedRows \in SUBSET DatedRows /\ families \in SUBSET FamilyRows
      BY <1>4
    <3>2. IsFiniteSet(ripe \cap TokenRows) /\ IsFiniteSet(ripe \cap DatedRows) /\ IsFiniteSet(families)
      BY <3>1, FS_Subset DEF RetentionNames
    <3>3. QED BY <3>2
  <2>3. /\ IsFiniteSet(b.token) /\ IsFiniteSet(b.other) /\ IsFiniteSet(b.family)
    BY <1>2, <1>3, <2>2, FS_Subset
  <2>4. \A S : IsFiniteSet(S) /\ ~Retention!Full(Retention!Cardinality(S)) => Cardinality(S) < RowsPerBatch
    BY <2>1, FS_CardinalityType DEF Retention!Full, RetentionNames
  <2> HIDE DEF families, ripe
  <2>5. b.token = ripe \cap TokenRows
    BY <1>1, <1>2, <1>7, <2>2, <2>3, <2>4, ShortMeansAll
  <2>6. b.other = ripe \cap DatedRows
    BY <1>1, <1>2, <1>7, <2>2, <2>3, <2>4, ShortMeansAll
  <2>7. b.family = families
    BY <1>1, <1>2, <1>7, <2>2, <2>3, <2>4, ShortMeansAll
  <2>8. ASSUME NEW f \in ripe, f \in FamilyRows PROVE f \in families
    <3>1. ASSUME NEW t \in TokenRows, t \in stored \ b.token PROVE FamilyOf[t] # f
      <4>1. SUFFICES ASSUME FamilyOf[t] = f PROVE FALSE
        OBVIOUS
      <4>2. f \in pass[p].cut /\ f \in expired
        BY DEF ripe
      <4>3. t \in expired /\ t \in pass[p].cut
        BY <1>1, <3>1, <4>1, <4>2 DEF FamilyDates, CutSound
      <4>4. QED BY <2>5, <3>1, <4>3 DEF ripe
    <3>2. QED BY <2>8, <3>1 DEF families, Retention!EmptyFamilies
  <2>9. ripe \subseteq Retention!Rows
    BY <1>1 DEF ripe
  <2>10. QED BY <2>5, <2>6, <2>7, <2>8, <2>9 DEF Retention!Rows
<1>8. QED BY <1>5, <1>6, <1>7

\* The batch commits.
LEMMA SweepKept ==
    ASSUME RetentionNames, RetentionInv, NEW p \in Procs, NEW gone \in SUBSET DatedRows, Retention!Sweep(p, gone)
    PROVE  RetentionInv'
<1>1. PICK b : b = Retention!Batch(p)
  OBVIOUS
<1>2. PICK R : R = b.token \cup b.family \cup b.other
  OBVIOUS
<1>3. PICK full \in BOOLEAN :
        full = (\/ Retention!Full(Retention!Cardinality(b.token)) \/ Retention!Full(Retention!Cardinality(b.family))
                \/ Retention!Full(Retention!Cardinality(b.other \ gone)))
  OBVIOUS
<1>4. PICK more \in BOOLEAN : more = (full /\ pass[p].batch + 1 < MaxBatches)
  OBVIOUS
<1>5. PICK x : x = [at |-> IF more THEN "date" ELSE "end", batch |-> pass[p].batch + 1,
                    full |-> full, clash |-> ~full /\ gone # {},
                    cut |-> IF full THEN {} ELSE pass[p].cut,
                    status |-> IF more THEN "running" ELSE "succeeded"]
  OBVIOUS
<1>6. /\ pass[p].at = "batch" /\ Retention!Delete(R) /\ leader' = NoLeader /\ UNCHANGED <<jobStatus, passFaults>>
      /\ pass' = [pass EXCEPT ![p] = x]
  BY <1>1, <1>2, <1>3, <1>4, <1>5 DEF Retention!Sweep
<1>7. /\ pass \in [Procs -> PassType] /\ pass[p] \in PassType /\ PassSound(p) /\ leader = p /\ RowsSound
      /\ pass[p].batch < MaxBatches /\ NoLeader \notin Procs
  BY <1>6 DEF RetentionInv, PassSound, RetentionNames
<1>8. x \in PassType /\ (x.at = "date" => x.batch < MaxBatches) /\ x.at \in {"date", "end"} /\ x.full = full
      /\ x.clash = (~full /\ gone # {}) /\ x.cut = (IF full THEN {} ELSE pass[p].cut)
  <2>1. pass[p].batch \in 0..MaxBatches /\ MaxBatches \in Nat /\ pass[p].cut \in SUBSET Retention!Rows
    BY <1>7 DEF PassType, RetentionNames
  <2>2. pass[p].batch + 1 \in 0..MaxBatches
    BY <1>7, <2>1
  <2>3. x \in PassType
    BY <1>5, <2>1, <2>2 DEF PassType
  <2>4. QED BY <1>4, <1>5, <2>3
<1>9. RowsSound'
  <2>1. \A t \in TokenRows : t \in stored /\ FamilyOf[t] \in R => t \in R
    BY <1>1, <1>2, BatchRows
  <2>2. QED BY <1>6, <1>7, <2>1, DeletedRows
<1>10. pass' \in [Procs -> PassType] /\ pass'[p] = x /\ \A q \in Procs \ {p} : pass'[q] = pass[q]
  BY <1>6, <1>7, <1>8
<1>11. PassSound(p)'
  <2>1. CutSound(pass[p].cut)'
    <3>1. CASE full
      BY <1>8, <1>10, <3>1 DEF CutSound
    <3>2. CASE ~full
      <4>1. pass'[p].cut = pass[p].cut
        BY <1>8, <1>10, <3>2
      <4>2. QED BY <1>6, <1>7, <4>1, DeletedCut DEF PassSound, CutSound
    <3>3. QED BY <3>1, <3>2
  <2>2. Clean(pass[p])'
    <3>1. SUFFICES ASSUME ~x.full, ~x.clash PROVE x.cut \cap expired' = {}
      BY <1>10 DEF Clean
    <3>2. ~full /\ gone = {} /\ x.cut = pass[p].cut /\ b.other \ gone = b.other
      BY <1>8, <3>1
    <3>3. pass[p].cut \cap expired \subseteq R
      BY <1>1, <1>2, <1>3, <3>2, BatchRows
    <3>4. expired' = expired \ R
      BY <1>6 DEF Retention!Delete
    <3>5. QED BY <3>2, <3>3, <3>4
  <2>3. leader' # p /\ pass'[p].at # "batch" /\ (pass'[p].at \in {"date", "lock", "batch"} => pass'[p].batch < MaxBatches)
    BY <1>6, <1>7, <1>8, <1>10
  <2>4. QED BY <2>1, <2>2, <2>3 DEF PassSound
<1>12. ASSUME NEW q \in Procs, q # p PROVE PassSound(q)'
  <2>1. PassSound(q) /\ pass'[q] = pass[q] /\ leader # q /\ leader' # q
    BY <1>6, <1>7, <1>10, <1>12 DEF RetentionInv
  <2>2. CutSound(pass[q].cut)'
    BY <1>6, <2>1, DeletedCut DEF PassSound, CutSound
  <2>3. Clean(pass[q])'
    BY <1>6, <2>1 DEF PassSound, Clean, Retention!Delete
  <2>4. QED BY <2>1, <2>2, <2>3 DEF PassSound
<1>13. QED BY <1>6, <1>9, <1>10, <1>11, <1>12 DEF RetentionInv, PassType, StatusType, Retention!Rows

\* The invariant holds before the first pass.
LEMMA RetentionStarts == ASSUME RetentionNames, Retention!Init PROVE RetentionInv
<1>1. /\ stored \subseteq Retention!Rows /\ \A t \in TokenRows \cap stored : FamilyOf[t] \in stored
  BY DEF Retention!Init
<1>2. /\ expired = {} /\ older = {} /\ leader = NoLeader /\ passFaults = 0 /\ pass = [p \in Procs |-> Retention!Idle]
      /\ jobStatus = [by |-> NoLeader, status |-> "missing", remaining |-> FALSE]
  BY DEF Retention!Init
<1>3. RowsSound
  BY <1>1, <1>2 DEF RowsSound, Dates, FamilyDates
<1>4. /\ pass \in [Procs -> PassType] /\ jobStatus \in StatusType /\ passFaults \in 0..MaxPassFaults
  BY <1>2, NothingKnown DEF StatusType, RetentionNames
<1>5. ASSUME NEW p \in Procs PROVE PassSound(p)
  <2>1. pass[p] = Retention!Idle /\ leader # p
    BY <1>2 DEF RetentionNames
  <2>2. QED BY <2>1, NothingKnown DEF PassSound
<1>6. QED BY <1>2, <1>3, <1>4, <1>5 DEF RetentionInv

\* Every step keeps it.
LEMMA RetentionStep == ASSUME RetentionNames, RetentionInv, [Retention!Next]_(Retention!vars) PROVE RetentionInv'
<1>1. CASE UNCHANGED Retention!vars
  BY <1>1 DEF Retention!vars, RetentionInv, RowsSound, Dates, FamilyDates, PassSound, CutSound, Clean,
       PassType, StatusType, Retention!Rows, Retention!TableOf
<1>2. CASE Retention!Next
  BY <1>2, CreateKept, ExpireKept, EraseKept, TrackedKept, TakeDateKept, LeadKept, SweepKept, StoppedKept
     DEF Retention!Next, Retention!Pass
<1>3. QED BY <1>1, <1>2

\* It gives the property.
LEMMA RetentionImplies == ASSUME RetentionNames, RetentionInv PROVE Retention!RetentionConsistent
<1>1. \A r \in expired : \A q \in expired \cap Retention!TableOf(r) : q = r \/ (<<q, r>> \in older <=> <<r, q>> \notin older)
  BY DEF RetentionInv, RowsSound, Dates
<1>2. \A p \in Procs : pass[p].at = "batch" <=> leader = p
  BY DEF RetentionInv, PassSound
<1>3. Retention!TypeOK
  BY <1>1, <1>2 DEF RetentionInv, RowsSound, Dates, Retention!TypeOK, PassType, StatusType
<1>4. Retention!FamiliesGoLast
  BY DEF RetentionInv, RowsSound, FamilyDates, Retention!FamiliesGoLast
<1>5. Retention!CleanMeansClean
  BY DEF RetentionInv, PassSound, Clean, Retention!CleanMeansClean
<1>6. QED BY <1>3, <1>4, <1>5 DEF Retention!RetentionConsistent

\* runMaintenance in several processes, for any number of processes, rows, batches
\* and faults and any batch size: one process at a time is inside a batch, no family
\* is deleted before its tokens, and a pass that succeeds without work remaining has
\* left no row that was past its date when its last batch began, whatever is created,
\* expires or is erased meanwhile.
THEOREM RetentionSound == ASSUME RetentionNames PROVE Retention!Spec => []RetentionConsistent
<1>1. Retention!Init => RetentionInv
  BY RetentionStarts
<1>2. RetentionInv /\ [Retention!Next]_(Retention!vars) => RetentionInv'
  BY RetentionStep
<1>3. RetentionInv => RetentionConsistent
  BY RetentionImplies DEF RetentionConsistent
<1>4. QED BY <1>1, <1>2, <1>3, PTL DEF Retention!Spec

-----------------------------------------------------------------------------
(* DiscoveryFeed: a walk through the feed.                                 *)

\* Finitely many candidates with ordered ids; a page, a batch and a request have
\* room for something.
FeedNames ==
    /\ Candidates \subseteq Nat /\ IsFiniteSet(Candidates) /\ MaxDistance \in Nat
    /\ PageLimit \in Nat \ {0} /\ FeedBatchSize \in Nat \ {0} /\ FeedBatches \in Nat \ {0}
    /\ MaxFeedChanges \in Nat /\ MaxFeedFaults \in Nat

\* The places a walk can stand at.
Places == Feed!Rows \cup {Feed!NoCursor}

\* ORDER BY distance_km, user_id is one order of the rows, and the start of the
\* walk is before them all.
LEMMA FeedOrder ==
    ASSUME FeedNames
    PROVE  /\ \A r \in Places : ~Feed!Nearer(r, r)
           /\ \A r, s \in Places : r = s \/ Feed!Nearer(r, s) \/ Feed!Nearer(s, r)
           /\ \A r, s, t \in Places : Feed!Nearer(r, s) /\ Feed!Nearer(s, t) => Feed!Nearer(r, t)
           /\ \A r, s \in Places : ~(Feed!Nearer(r, s) /\ Feed!Nearer(s, r))
           /\ \A r \in Feed!Rows : \A c \in Places : Feed!Beyond(r, c) <=> Feed!Nearer(c, r)
           /\ Feed!NoCursor \notin Feed!Rows
<1>1. \A r \in Feed!Rows : /\ r.distance_km \in Nat /\ r.id \in Nat /\ r = [distance_km |-> r.distance_km, id |-> r.id]
  <2>1. Feed!Distances \subseteq Nat /\ Candidates \subseteq Nat
    BY DEF Feed!Distances, FeedNames
  <2>2. ASSUME NEW r \in Feed!Rows
        PROVE  r.distance_km \in Feed!Distances /\ r.id \in Candidates /\ r = [distance_km |-> r.distance_km, id |-> r.id]
    BY DEF Feed!Rows
  <2>3. QED BY <2>1, <2>2
<1>2. Feed!NoCursor.distance_km = -1 /\ Feed!NoCursor.id = -1
  BY DEF Feed!NoCursor
<1>3. \A r \in Feed!Rows : r # Feed!NoCursor
  BY <1>1, <1>2
<1>4. /\ \A r \in Places : r.distance_km \in Int /\ r.id \in Int
      /\ \A r, s \in Places : r.distance_km = s.distance_km /\ r.id = s.id => r = s
  BY <1>1, <1>2, <1>3 DEF Places
<1>5. \A r, s : Feed!Nearer(r, s) <=> r.distance_km < s.distance_km \/ (r.distance_km = s.distance_km /\ r.id < s.id)
  BY DEF Feed!Nearer
<1>6. \A r \in Feed!Rows : Feed!Nearer(Feed!NoCursor, r)
  BY <1>1, <1>2, <1>5
<1>7. \A r \in Feed!Rows : \A c \in Places : Feed!Beyond(r, c) <=> Feed!Nearer(c, r)
  BY <1>6 DEF Feed!Beyond
<1>8. QED BY <1>3, <1>4, <1>5, <1>7

\* Some of the rows, finitely many.
FewRows(S) == S \in SUBSET Feed!Rows /\ IsFiniteSet(S)

\* The rows before a row.
InFront(S, r) == {s \in S : Feed!Nearer(s, r)}

\* The cardinality of DiscoveryFeed.
LEMMA FeedCounts == \A S : Feed!Cardinality(S) = Cardinality(S)
BY DEF Feed!Cardinality, Cardinality

\* The rank of a row is the number of the rows before it.
LEMMA FeedRanks ==
    ASSUME FeedNames, NEW S, FewRows(S), NEW r \in S
    PROVE  /\ InFront(S, r) \in SUBSET S /\ r \notin InFront(S, r)
           /\ IsFiniteSet(InFront(S, r)) /\ Cardinality(S) \in Nat
           /\ Feed!Rank(S, r) = Cardinality(InFront(S, r)) /\ Feed!Rank(S, r) \in Nat
<1>1. InFront(S, r) \in SUBSET S /\ r \notin InFront(S, r)
  BY FeedOrder DEF InFront, FewRows, Places
<1>2. IsFiniteSet(InFront(S, r)) /\ Cardinality(InFront(S, r)) \in Nat /\ Cardinality(S) \in Nat
  BY <1>1, FS_Subset, FS_CardinalityType DEF FewRows
<1>3. Feed!Rank(S, r) = Cardinality(InFront(S, r))
  BY FeedCounts DEF Feed!Rank, InFront
<1>4. QED BY <1>1, <1>2, <1>3

\* A row that is nearer has a lower rank.
LEMMA FeedRankGrows ==
    ASSUME FeedNames, NEW S, FewRows(S), NEW r \in S, NEW s \in S, Feed!Nearer(r, s)
    PROVE  Feed!Rank(S, r) < Feed!Rank(S, s)
<1>1. r \in Places /\ s \in Places /\ \A t \in S : t \in Places
  BY DEF FewRows, Places
<1>2. InFront(S, r) \in SUBSET InFront(S, s) /\ r \in InFront(S, s) /\ r \notin InFront(S, r)
  BY <1>1, FeedOrder DEF InFront
<1>3. /\ Cardinality(InFront(S, r)) <= Cardinality(InFront(S, s))
      /\ Cardinality(InFront(S, r)) # Cardinality(InFront(S, s))
  BY <1>2, FeedRanks, FS_Subset
<1>4. PICK m \in Nat, n \in Nat : m = Feed!Rank(S, r) /\ n = Feed!Rank(S, s)
  BY FeedRanks
<1>5. m <= n /\ m # n
  BY <1>3, <1>4, FeedRanks
<1>6. QED BY <1>4, <1>5

\* LastOf: rows that are not empty have a last one.
LEMMA FeedLast ==
    ASSUME FeedNames, NEW S, FewRows(S), S # {}
    PROVE  /\ Feed!LastOf(S) \in S /\ Feed!LastOf(S) \in Feed!Rows
           /\ \A s \in S : s = Feed!LastOf(S) \/ Feed!Nearer(s, Feed!LastOf(S))
<1>1. \E l \in S : \A s \in S : ~Feed!Nearer(l, s)
  <2> DEFINE Behind(r) == {s \in S : Feed!Nearer(r, s)}
             T == {Cardinality(Behind(r)) : r \in S}
  <2>1. IsFiniteSet(S) /\ \A s \in S : s \in Places
    BY DEF FewRows, Places
  <2>2. \A r \in S : IsFiniteSet(Behind(r)) /\ Cardinality(Behind(r)) \in Nat
    BY <2>1, FS_Subset, FS_CardinalityType
  <2>3. T \in SUBSET Nat /\ T # {}
    BY <2>2
  <2>4. PICK l \in S : \A s \in S : Cardinality(Behind(l)) <= Cardinality(Behind(s))
    <3>1. PICK n \in T : \A m \in T : n <= m
      BY <2>3, LeastNat
    <3>2. QED BY <3>1
  <2>5. ASSUME NEW s \in S, Feed!Nearer(l, s) PROVE FALSE
    <3>1. Behind(s) \in SUBSET Behind(l) /\ s \in Behind(l) /\ s \notin Behind(s)
      BY <2>1, <2>5, FeedOrder
    <3>2. PICK m \in Nat, n \in Nat : m = Cardinality(Behind(s)) /\ n = Cardinality(Behind(l))
      BY <2>2
    <3>3. m <= n /\ m # n
      BY <2>2, <3>1, <3>2, FS_Subset
    <3>4. n <= m
      BY <2>4, <3>2
    <3>5. QED BY <3>3, <3>4
  <2>6. QED BY <2>5
<1>2. Feed!LastOf(S) \in S /\ \A s \in S : ~Feed!Nearer(Feed!LastOf(S), s)
  BY <1>1 DEF Feed!LastOf
<1>3. QED BY <1>2, FeedOrder DEF FewRows, Places

\* LIMIT n: some of the rows, n at most; nothing is before them that they leave
\* out; and they are all of them when they are fewer or there are no more.
LEMMA Taken ==
    ASSUME FeedNames, NEW S, FewRows(S), NEW n \in Nat
    PROVE  /\ Feed!Take(S, n) \in SUBSET S /\ FewRows(Feed!Take(S, n))
           /\ Cardinality(Feed!Take(S, n)) \in Nat /\ Cardinality(Feed!Take(S, n)) <= n
           /\ \A r \in Feed!Take(S, n) : \A s \in S : Feed!Nearer(s, r) => s \in Feed!Take(S, n)
           /\ Cardinality(Feed!Take(S, n)) < n => Feed!Take(S, n) = S
           /\ Cardinality(S) <= n => Feed!Take(S, n) = S
           /\ n # 0 /\ S # {} => Feed!Take(S, n) # {}
<1>0. PICK T : T = Feed!Take(S, n)
  OBVIOUS
<1>1. \A r : r \in T <=> r \in S /\ Feed!Rank(S, r) < n
  BY <1>0 DEF Feed!Take
<1>2. T \in SUBSET S /\ FewRows(T) /\ Cardinality(T) \in Nat
  BY <1>1, FS_Subset, FS_CardinalityType DEF FewRows
<1>3. \A r \in S : Feed!Rank(S, r) \in Nat
  BY FeedRanks
<1>4. \A r \in T : \A s \in S : Feed!Nearer(s, r) => s \in T
  BY <1>1, <1>3, FeedRankGrows
<1>5. Cardinality(T) <= n
  <2>1. CASE T = {}
    BY <2>1, FS_EmptySet
  <2>2. CASE T # {}
    <3>1. PICK l \in T : \A s \in T : s = l \/ Feed!Nearer(s, l)
      BY <1>2, <2>2, FeedLast
    <3>2. T \ {l} \in SUBSET InFront(S, l) /\ l \in S /\ Feed!Rank(S, l) < n
      BY <1>1, <3>1 DEF InFront
    <3>3. IsFiniteSet(T \ {l}) /\ Cardinality(T \ {l}) = Cardinality(T) - 1
      BY <1>2, <3>1, FS_RemoveElement DEF FewRows
    <3>4. Cardinality(T \ {l}) <= Feed!Rank(S, l) /\ Feed!Rank(S, l) \in Nat
      BY <3>2, FeedRanks, FS_Subset
    <3>5. QED BY <1>2, <3>2, <3>3, <3>4
  <2>3. QED BY <2>1, <2>2
<1>6. ASSUME Cardinality(T) < n PROVE T = S
  <2>1. SUFFICES ASSUME S \ T # {} PROVE FALSE
    BY <1>2
  <2>2. PICK K : K = {Feed!Rank(S, r) : r \in S \ T}
    OBVIOUS
  <2>3. K \in SUBSET Nat /\ K # {}
    BY <1>3, <2>1, <2>2
  <2>4. PICK r \in S \ T : \A s \in S \ T : Feed!Rank(S, r) <= Feed!Rank(S, s)
    <3>1. PICK k \in K : \A m \in K : k <= m
      BY <2>3, LeastNat
    <3>2. QED BY <2>2, <3>1
  <2>5. InFront(S, r) \in SUBSET T
    <3>1. ASSUME NEW s \in InFront(S, r), s \notin T PROVE FALSE
      <4>1. s \in S \ T /\ Feed!Rank(S, s) < Feed!Rank(S, r)
        BY <2>4, <3>1, FeedRankGrows DEF InFront
      <4>2. QED BY <1>3, <2>4, <4>1
    <3>2. QED BY <3>1
  <2>6. Feed!Rank(S, r) <= Cardinality(T)
    BY <1>2, <2>4, <2>5, FeedRanks, FS_Subset DEF FewRows
  <2>7. QED BY <1>1, <1>2, <1>3, <1>6, <2>4, <2>6
<1>7. ASSUME Cardinality(S) <= n PROVE T = S
  <2>1. ASSUME NEW r \in S PROVE r \in T
    <3>1. InFront(S, r) \in SUBSET (S \ {r})
      BY FeedRanks
    <3>2. IsFiniteSet(S \ {r}) /\ Cardinality(S \ {r}) = Cardinality(S) - 1 /\ Cardinality(S) \in Nat
      BY FS_RemoveElement, FS_CardinalityType DEF FewRows
    <3>3. Feed!Rank(S, r) <= Cardinality(S) - 1
      BY <3>1, <3>2, FeedRanks, FS_Subset
    <3>4. QED BY <1>1, <1>3, <1>7, <3>2, <3>3
  <2>2. QED BY <1>2, <2>1
<1>8. ASSUME n # 0, S # {} PROVE T # {}
  BY <1>6, <1>8, FS_EmptySet
<1>9. QED BY <1>0, <1>2, <1>4, <1>5, <1>6, <1>7, <1>8

-----------------------------------------------------------------------------
(* The inductive invariant of DiscoveryFeed.                               *)

FeedRequest == [pc: {"none", "batch", "filter"}, cursor: Places, visible: SUBSET Feed!Rows, found: SUBSET Feed!Rows,
                batch: 0..FeedBatches, exhausted: BOOLEAN]

\* Every variable has its type.
FeedTyped ==
    /\ distance \in [Candidates -> Feed!Distances \cup {Feed!Out}]
    /\ swiped \subseteq Candidates
    /\ feedWalk \in {"new", "on", "over"}
    /\ feedCursor \in Places /\ feedRequest \in FeedRequest
    /\ feedShown \in [Candidates -> 0..2] /\ feedStable \subseteq Feed!Eligible \ swiped
    /\ feedChanges \in 0..MaxFeedChanges /\ feedFaults \in 0..MaxFeedFaults

\* A batch is read when the page is not full and there are batches to come, and it
\* is not empty.
FeedSized ==
    /\ FewRows(feedRequest.visible) /\ Cardinality(feedRequest.visible) <= PageLimit + FeedBatchSize
    /\ FewRows(feedRequest.found) /\ Cardinality(feedRequest.found) <= FeedBatchSize
    /\ feedRequest.pc = "filter" =>
         /\ Cardinality(feedRequest.visible) <= PageLimit
         /\ feedRequest.batch < FeedBatches /\ feedRequest.found # {}

\* Before the walk nothing is owed or shown, and between requests nothing is read.
FeedBegins ==
    /\ feedWalk = "new" => feedStable = {} /\ feedCursor = Feed!NoCursor /\ feedShown = [c \in Candidates |-> 0]
    /\ feedRequest.pc # "none" => feedWalk = "on"

\* What a request has read lies between the cursor of the client and its own, and
\* what it has just read lies after its own.
FeedReads ==
    feedRequest.pc # "none" =>
      /\ feedCursor = feedRequest.cursor \/ Feed!Nearer(feedCursor, feedRequest.cursor)
      /\ \A r \in feedRequest.visible :
           /\ Feed!Nearer(feedCursor, r)
           /\ r = feedRequest.cursor \/ Feed!Nearer(r, feedRequest.cursor)
      /\ \A r \in feedRequest.found : Feed!Nearer(feedRequest.cursor, r)
      /\ feedRequest.batch > 0 => feedRequest.cursor # Feed!NoCursor

\* Where a candidate is that the walk owes, in the request under way.
Met(c) ==
    /\ \A r \in feedRequest.visible \cup feedRequest.found : r.id = c => r = Feed!CursorTo(c)
    /\ feedRequest.pc # "none" =>
         (Feed!CursorTo(c) \in feedRequest.visible <=>
            Feed!Nearer(feedCursor, Feed!CursorTo(c)) /\ ~Feed!Nearer(feedRequest.cursor, Feed!CursorTo(c)))
    /\ feedRequest.pc = "filter" =>
         /\ Feed!CursorTo(c) \in feedRequest.found <=>
              /\ Feed!Nearer(feedRequest.cursor, Feed!CursorTo(c))
              /\ ~Feed!Nearer(Feed!LastOf(feedRequest.found), Feed!CursorTo(c))
         /\ Cardinality(feedRequest.found) < FeedBatchSize /\ Feed!Nearer(feedRequest.cursor, Feed!CursorTo(c))
              => Feed!CursorTo(c) \in feedRequest.found
    /\ feedRequest.pc = "batch" /\ feedRequest.exhausted => ~Feed!Nearer(feedRequest.cursor, Feed!CursorTo(c))

\* It has been shown once when it is not after the cursor of the client.
Counted(c) == feedShown[c] = IF feedWalk # "over" /\ Feed!Nearer(feedCursor, Feed!CursorTo(c)) THEN 0 ELSE 1

FeedInv == FeedTyped /\ FeedSized /\ FeedBegins /\ FeedReads /\ \A c \in feedStable : Met(c) /\ Counted(c)

\* A candidate that is owed has a place.
LEMMA OwedPlaces ==
    ASSUME FeedNames, FeedTyped
    PROVE  /\ \A c \in Feed!Eligible : c \in Candidates /\ Feed!CursorTo(c) \in Feed!Rows /\ Feed!CursorTo(c).id = c
           /\ \A c \in feedStable : c \in Feed!Eligible /\ c \in Candidates /\ c \notin swiped
<1>1. \A c \in Feed!Eligible : c \in Candidates /\ distance[c] \in Feed!Distances
  BY DEF Feed!Eligible, FeedTyped
<1>2. QED BY <1>1 DEF Feed!CursorTo, Feed!Rows, FeedTyped

\* It holds before the walk.
LEMMA FeedStarts == ASSUME FeedNames, Feed!Init PROVE FeedInv
<1>1. feedRequest = [pc |-> "none", cursor |-> Feed!NoCursor, visible |-> {}, found |-> {}, batch |-> 0, exhausted |-> FALSE]
  BY DEF Feed!Init, Feed!NoRequest
<1>2. feedRequest \in FeedRequest
  BY <1>1 DEF FeedRequest, Places, FeedNames
<1>3. FeedTyped
  BY <1>2 DEF Feed!Init, FeedTyped, Places, FeedNames
<1>4. FewRows({}) /\ Cardinality({}) = 0
  BY FS_EmptySet DEF FewRows
<1>5. FeedSized
  BY <1>1, <1>4 DEF FeedSized, FeedNames
<1>6. QED BY <1>1, <1>3, <1>5 DEF FeedInv, FeedBegins, FeedReads, Feed!Init

\* It gives the property.
LEMMA FeedHolds == ASSUME FeedNames, FeedInv PROVE Feed!FeedConsistent
<1>1. Feed!TypeOK
  BY FeedCounts DEF FeedInv, FeedTyped, FeedSized, FeedRequest, FewRows, Places, Feed!TypeOK
<1>2. Feed!EachProfileOnce
  BY DEF FeedInv, FeedBegins, Counted, Feed!EachProfileOnce
<1>3. QED BY <1>1, <1>2 DEF Feed!FeedConsistent

\* The client asks.
LEMMA AskKeeps == ASSUME FeedNames, FeedInv, Feed!Ask PROVE FeedInv'
<1>1. /\ feedRequest.pc = "none" /\ feedWalk # "over" /\ feedWalk' = "on"
      /\ feedRequest' = [pc |-> "batch", cursor |-> feedCursor, visible |-> {}, found |-> {}, batch |-> 0, exhausted |-> FALSE]
      /\ feedStable' = IF feedWalk = "new" THEN Feed!Eligible \ swiped ELSE feedStable
      /\ UNCHANGED <<distance, swiped, feedCursor, feedShown, feedChanges, feedFaults>>
  BY DEF Feed!Ask, Feed!NewRequest, Feed!NoRequest
<1>2. feedRequest' \in FeedRequest
  BY <1>1 DEF FeedInv, FeedTyped, FeedRequest, FeedNames
<1>3. FeedTyped'
  BY <1>1, <1>2 DEF FeedInv, FeedTyped, Feed!Eligible, Feed!Distances, Places, Feed!Rows, FeedRequest
<1>4. FewRows({}) /\ Cardinality({}) = 0
  BY FS_EmptySet DEF FewRows
<1>5. FeedSized'
  BY <1>1, <1>4 DEF FeedSized, FeedNames, FewRows, Feed!Rows, Feed!Distances
<1>6. FeedBegins' /\ FeedReads'
  BY <1>1 DEF FeedBegins, FeedReads
<1>7. ASSUME NEW c \in feedStable' PROVE Met(c)' /\ Counted(c)'
  <2>1. c \in Feed!Eligible /\ c \in Candidates /\ Feed!CursorTo(c) \in Feed!Rows /\ Feed!CursorTo(c)' = Feed!CursorTo(c)
    BY <1>1, <1>7, OwedPlaces DEF FeedInv, Feed!CursorTo
  <2>2. Counted(c)'
    <3>1. CASE feedWalk = "new"
      BY <1>1, <2>1, <3>1, FeedOrder DEF FeedInv, FeedBegins, Counted, Feed!Beyond, Places, Feed!NoCursor, Feed!Nearer
    <3>2. CASE feedWalk # "new"
      BY <1>1, <1>7, <2>1, <3>2 DEF FeedInv, Counted, Feed!Nearer
    <3>3. QED BY <3>1, <3>2
  <2>3. Met(c)'
    BY <1>1, <2>1 DEF Met, Feed!Nearer
  <2>4. QED BY <2>2, <2>3
<1>8. QED BY <1>3, <1>5, <1>6, <1>7 DEF FeedInv

\* A batch is read.
LEMMA BatchKeeps == ASSUME FeedNames, FeedInv, Feed!CandidateBatch PROVE FeedInv'
<1> DEFINE near == {r \in {Feed!CursorTo(c) : c \in Feed!Eligible} : Feed!Beyond(r, feedRequest.cursor)}
<1>1. /\ feedRequest.pc = "batch" /\ ~feedRequest.exhausted /\ feedRequest.batch < FeedBatches
      /\ Feed!Cardinality(feedRequest.visible) < PageLimit + 1
      /\ feedRequest' = IF Feed!Batch = {} THEN [feedRequest EXCEPT !.exhausted = TRUE]
                        ELSE [feedRequest EXCEPT !.pc = "filter", !.found = Feed!Batch]
      /\ UNCHANGED <<distance, swiped, feedWalk, feedCursor, feedShown, feedStable, feedChanges, feedFaults>>
  BY DEF Feed!CandidateBatch, Feed!Reads
<1>2. feedRequest \in FeedRequest /\ feedRequest.cursor \in Places
  BY DEF FeedInv, FeedTyped, FeedRequest
<1>3. FewRows(near) /\ \A r \in near : Feed!Nearer(feedRequest.cursor, r) /\ r = Feed!CursorTo(r.id)
  <2>1. \A c \in Feed!Eligible : Feed!CursorTo(c) \in Feed!Rows /\ Feed!CursorTo(c).id = c
    BY OwedPlaces DEF FeedInv
  <2>2. IsFiniteSet(Feed!Eligible)
    <3>1. Feed!Eligible \subseteq Candidates /\ IsFiniteSet(Candidates)
      BY DEF Feed!Eligible, FeedNames
    <3>2. QED BY <3>1, FS_Subset
  <2>3. IsFiniteSet({Feed!CursorTo(c) : c \in Feed!Eligible})
    <3>1. PICK f : f = [c \in Feed!Eligible |-> Feed!CursorTo(c)]
      OBVIOUS
    <3>2. PICK T : T = {Feed!CursorTo(c) : c \in Feed!Eligible}
      OBVIOUS
    <3>3. f \in Surjection(Feed!Eligible, T)
      BY <3>1, <3>2 DEF Surjection
    <3>4. QED BY <2>2, <3>2, <3>3, FS_Surjection
  <2>4. near \in SUBSET {Feed!CursorTo(c) : c \in Feed!Eligible}
    OBVIOUS
  <2>5. IsFiniteSet(near)
    BY <2>3, <2>4, FS_Subset
  <2>6. near \in SUBSET Feed!Rows
    BY <2>1
  <2>7. \A r \in near : Feed!Nearer(feedRequest.cursor, r)
    BY <1>2, <2>6, FeedOrder
  <2>8. QED BY <2>1, <2>5, <2>6, <2>7 DEF FewRows
<1>4. \A c \in Feed!Eligible : Feed!CursorTo(c) \in near <=> Feed!Nearer(feedRequest.cursor, Feed!CursorTo(c))
  BY <1>2, OwedPlaces, FeedOrder DEF FeedInv
<1>5. Feed!Batch = Feed!Take(near, FeedBatchSize)
  BY DEF Feed!Batch
<1> HIDE DEF near
<1>6. PICK B : B = Feed!Batch
  OBVIOUS
<1>7. /\ B \in SUBSET near /\ FewRows(B) /\ Cardinality(B) \in Nat /\ Cardinality(B) <= FeedBatchSize
      /\ \A r \in B : \A s \in near : Feed!Nearer(s, r) => s \in B
      /\ Cardinality(B) < FeedBatchSize => B = near
      /\ near # {} => B # {}
  BY <1>3, <1>5, <1>6, Taken DEF FeedNames
<1>8. UNCHANGED <<Feed!Eligible, Feed!Rows>> /\ \A c : Feed!CursorTo(c)' = Feed!CursorTo(c)
  BY <1>1 DEF Feed!Eligible, Feed!Rows, Feed!Distances, Feed!CursorTo, Feed!Out
<1>9. CASE B = {}
  <2>1. feedRequest' = [feedRequest EXCEPT !.exhausted = TRUE]
    BY <1>1, <1>6, <1>9
  <2>2. /\ feedRequest' \in FeedRequest
        /\ feedRequest'.pc = "batch" /\ feedRequest'.cursor = feedRequest.cursor
        /\ feedRequest'.visible = feedRequest.visible /\ feedRequest'.found = feedRequest.found
        /\ feedRequest'.batch = feedRequest.batch
    BY <1>1, <1>2, <2>1 DEF FeedRequest
  <2>3. FeedTyped'
    BY <1>1, <1>8, <2>2 DEF FeedInv, FeedTyped, FeedRequest, Feed!Distances, Places, Feed!Out, Feed!NoCursor
  <2>4. FeedSized' /\ FeedBegins' /\ FeedReads'
    BY <1>1, <1>8, <2>2 DEF FeedInv, FeedSized, FewRows, FeedBegins, FeedReads, Feed!Nearer, Feed!NoCursor
  <2>5. ASSUME NEW c \in feedStable' PROVE Met(c)' /\ Counted(c)'
    <3>1. Met(c) /\ Counted(c) /\ ~Feed!Nearer(feedRequest.cursor, Feed!CursorTo(c))
      BY <1>1, <1>4, <1>7, <1>9, <2>5, OwedPlaces DEF FeedInv
    <3>2. Counted(c)'
      BY <1>1, <1>8, <3>1 DEF Counted, Feed!Nearer
    <3>3. Met(c)'
      BY <1>1, <1>8, <2>2, <3>1 DEF Met, Feed!Nearer
    <3>4. QED BY <3>2, <3>3
  <2>6. QED BY <2>3, <2>4, <2>5 DEF FeedInv
<1>10. CASE B # {}
  <2>1. feedRequest' = [feedRequest EXCEPT !.pc = "filter", !.found = B]
    BY <1>1, <1>6, <1>10
  <2>2. /\ feedRequest' \in FeedRequest
        /\ feedRequest'.pc = "filter" /\ feedRequest'.cursor = feedRequest.cursor
        /\ feedRequest'.visible = feedRequest.visible /\ feedRequest'.found = B
        /\ feedRequest'.batch = feedRequest.batch
    BY <1>2, <1>7, <2>1 DEF FeedRequest, FewRows
  <2>3. FeedTyped'
    BY <1>1, <1>8, <2>2 DEF FeedInv, FeedTyped, FeedRequest, Feed!Distances, Places, Feed!Out, Feed!NoCursor
  <2>4. FeedSized'
    <3>1. Cardinality(feedRequest.visible) \in Nat
      BY FS_CardinalityType DEF FeedInv, FeedSized, FewRows
    <3>2. Cardinality(feedRequest.visible) <= PageLimit
      BY <1>1, <3>1, FeedCounts DEF FeedNames
    <3>3. QED BY <1>1, <1>7, <1>8, <1>10, <2>2, <3>2 DEF FeedInv, FeedSized, FewRows
  <2>5. FeedBegins' /\ FeedReads'
    BY <1>1, <1>3, <1>7, <2>2 DEF FeedInv, FeedBegins, FeedReads, Feed!Nearer, Feed!NoCursor
  <2>6. ASSUME NEW c \in feedStable' PROVE Met(c)' /\ Counted(c)'
    <3>1. Met(c) /\ Counted(c) /\ c \in Feed!Eligible /\ Feed!CursorTo(c) \in Places
      BY <1>1, <2>6, OwedPlaces DEF FeedInv, Places
    <3>2. Counted(c)'
      BY <1>1, <1>8, <3>1 DEF Counted, Feed!Nearer
    <3>3. /\ Feed!LastOf(B) \in B /\ Feed!LastOf(B) \in Places
          /\ \A s \in B : s = Feed!LastOf(B) \/ Feed!Nearer(s, Feed!LastOf(B))
      BY <1>7, <1>10, FeedLast DEF Places
    <3>4. Feed!CursorTo(c) \in B <=>
            Feed!Nearer(feedRequest.cursor, Feed!CursorTo(c)) /\ ~Feed!Nearer(Feed!LastOf(B), Feed!CursorTo(c))
      BY <1>3, <1>4, <1>7, <3>1, <3>3, FeedOrder
    <3>5. Cardinality(B) < FeedBatchSize /\ Feed!Nearer(feedRequest.cursor, Feed!CursorTo(c)) => Feed!CursorTo(c) \in B
      BY <1>4, <1>7, <3>1
    <3>6. \A r \in B : r.id = c => r = Feed!CursorTo(c)
      BY <1>3, <1>7
    <3>7. Met(c)'
      <4>1. PICK l : l = Feed!LastOf(B)
        OBVIOUS
      <4>2. Feed!LastOf(feedRequest'.found) = l
        BY <2>2, <4>1
      <4>3. Feed!LastOf(feedRequest.found)' = l
        BY <4>2 DEF Feed!LastOf, Feed!Nearer
      <4>4. QED BY <1>1, <1>8, <2>2, <3>1, <3>4, <3>5, <3>6, <4>1, <4>3 DEF Met, Feed!Nearer
    <3>8. QED BY <3>2, <3>7
  <2>7. QED BY <2>3, <2>4, <2>5, <2>6 DEF FeedInv
<1>11. QED BY <1>9, <1>10

\* The decisions on a batch are read.
LEMMA FilterKeeps == ASSUME FeedNames, FeedInv, Feed!SwipedTargetIds PROVE FeedInv'
<1>1. PICK l, L : l = Feed!LastOf(feedRequest.found) /\ L = Feed!Left
  OBVIOUS
<1>2. /\ feedRequest.pc = "filter"
      /\ feedRequest' = [feedRequest EXCEPT !.pc = "batch", !.found = {}, !.batch = feedRequest.batch + 1,
                           !.visible = feedRequest.visible \cup L, !.cursor = l,
                           !.exhausted = Feed!Cardinality(feedRequest.found) < FeedBatchSize]
      /\ UNCHANGED <<distance, swiped, feedWalk, feedCursor, feedShown, feedStable, feedChanges, feedFaults>>
  BY <1>1 DEF Feed!SwipedTargetIds
<1>3. /\ feedRequest \in FeedRequest /\ feedRequest.cursor \in Places /\ feedCursor \in Places
      /\ feedRequest.visible \in SUBSET Feed!Rows /\ feedRequest.found \in SUBSET Feed!Rows
      /\ feedRequest.batch \in 0..FeedBatches /\ feedRequest.batch < FeedBatches /\ FeedBatches \in Nat
  BY <1>2 DEF FeedInv, FeedTyped, FeedSized, FeedRequest, FeedNames
<1>4. /\ l \in feedRequest.found /\ l \in Feed!Rows /\ l \in Places /\ l # Feed!NoCursor
      /\ \A r \in feedRequest.found : r = l \/ Feed!Nearer(r, l)
  BY <1>1, <1>2, FeedLast, FeedOrder DEF FeedInv, FeedSized, Places
<1>5. \A r : r \in L <=> r \in feedRequest.found /\ r.id \notin swiped
  BY <1>1 DEF Feed!Left
<1>6. PICK ended : ended \in BOOLEAN /\ ended = (Feed!Cardinality(feedRequest.found) < FeedBatchSize)
                    /\ (ended <=> Cardinality(feedRequest.found) < FeedBatchSize)
  <2> DEFINE short == Feed!Cardinality(feedRequest.found) < FeedBatchSize
  <2>1. short \in BOOLEAN /\ short = (Feed!Cardinality(feedRequest.found) < FeedBatchSize)
    OBVIOUS
  <2>2. short <=> Cardinality(feedRequest.found) < FeedBatchSize
    BY FeedCounts
  <2> HIDE DEF short
  <2>3. QED BY <2>1, <2>2, Zenon
<1>7. /\ feedRequest' \in FeedRequest
      /\ feedRequest'.pc = "batch" /\ feedRequest'.cursor = l /\ feedRequest'.found = {}
      /\ feedRequest'.visible = feedRequest.visible \cup L /\ feedRequest'.exhausted = ended
      /\ feedRequest'.batch = feedRequest.batch + 1
  <2>1. feedRequest' = [feedRequest EXCEPT !.pc = "batch", !.found = {}, !.batch = feedRequest.batch + 1,
                           !.visible = feedRequest.visible \cup L, !.cursor = l, !.exhausted = ended]
    BY <1>2, <1>6, Zenon
  <2>2. feedRequest.batch + 1 \in 0..FeedBatches /\ feedRequest.visible \cup L \in SUBSET Feed!Rows
    BY <1>3, <1>5
  <2>3. ended \in BOOLEAN
    BY <1>6
  <2>4. QED BY <1>3, <1>4, <2>1, <2>2, <2>3 DEF FeedRequest
<1>8. UNCHANGED <<Feed!Eligible, Feed!Rows>> /\ \A c : Feed!CursorTo(c)' = Feed!CursorTo(c)
  BY <1>2 DEF Feed!Eligible, Feed!Rows, Feed!Distances, Feed!CursorTo, Feed!Out
<1>9. FeedTyped'
  BY <1>2, <1>7, <1>8 DEF FeedInv, FeedTyped, FeedRequest, Feed!Distances, Places, Feed!Out, Feed!NoCursor
<1>10. FeedSized'
  <2>1. FewRows(feedRequest.visible) /\ FewRows(feedRequest.found) /\ Cardinality(feedRequest.visible) <= PageLimit
    BY <1>2 DEF FeedInv, FeedSized
  <2>2. IsFiniteSet(L) /\ Cardinality(L) <= Cardinality(feedRequest.found) /\ Cardinality(L) \in Nat
    <3>1. L \in SUBSET feedRequest.found
      BY <1>5
    <3>2. QED BY <2>1, <3>1, FS_Subset, FS_CardinalityType DEF FewRows
  <2>3. /\ IsFiniteSet(feedRequest.visible \cup L)
        /\ Cardinality(feedRequest.visible \cup L) <= Cardinality(feedRequest.visible) + Cardinality(L)
    <3>1. PICK B : B = feedRequest.visible \cap L
      OBVIOUS
    <3>2. /\ IsFiniteSet(feedRequest.visible \cup L)
          /\ Cardinality(feedRequest.visible \cup L) = Cardinality(feedRequest.visible) + Cardinality(L) - Cardinality(B)
      BY <2>1, <2>2, <3>1, FS_Union DEF FewRows
    <3>3. Cardinality(B) \in Nat /\ Cardinality(feedRequest.visible) \in Nat
      <4>1. B \in SUBSET L
        BY <3>1
      <4>2. QED BY <2>1, <2>2, <4>1, FS_Subset, FS_CardinalityType DEF FewRows
    <3>4. QED BY <2>2, <3>2, <3>3
  <2>4. Cardinality(feedRequest.found) <= FeedBatchSize
    BY DEF FeedInv, FeedSized
  <2>5. Cardinality(feedRequest.visible) \in Nat /\ Cardinality(feedRequest.found) \in Nat
    BY <2>1, FS_CardinalityType DEF FewRows
  <2>6. Cardinality(feedRequest.visible \cup L) <= PageLimit + FeedBatchSize
    <3>1. Cardinality(feedRequest.visible \cup L) \in Nat
      BY <2>3, FS_CardinalityType
    <3>2. QED BY <2>1, <2>2, <2>3, <2>4, <2>5, <3>1 DEF FeedNames
  <2>7. FewRows(feedRequest.visible \cup L)
    BY <1>3, <1>5, <2>3 DEF FewRows
  <2>8. FewRows({}) /\ Cardinality({}) = 0
    BY FS_EmptySet DEF FewRows
  <2>9. QED BY <1>7, <1>8, <2>6, <2>7, <2>8 DEF FeedSized, FewRows, FeedNames
<1>11. FeedBegins'
  BY <1>2, <1>7 DEF FeedInv, FeedBegins, Feed!NoCursor
<1>12. feedCursor = feedRequest.cursor \/ Feed!Nearer(feedCursor, feedRequest.cursor)
  BY <1>2 DEF FeedInv, FeedReads
<1>13. \A r \in feedRequest.found : Feed!Nearer(feedRequest.cursor, r) /\ r \in Places
  BY <1>2, <1>3 DEF FeedInv, FeedReads, Places
<1>14. FeedReads'
  <2>1. Feed!Nearer(feedCursor, l)
    BY <1>3, <1>4, <1>12, <1>13, FeedOrder
  <2>2. ASSUME NEW r \in feedRequest.visible \cup L
        PROVE  Feed!Nearer(feedCursor, r) /\ (r = l \/ Feed!Nearer(r, l))
    <3>1. CASE r \in feedRequest.visible
      <4>1. Feed!Nearer(feedCursor, r) /\ (r = feedRequest.cursor \/ Feed!Nearer(r, feedRequest.cursor)) /\ r \in Places
        BY <1>2, <1>3, <3>1 DEF FeedInv, FeedReads, Places
      <4>2. QED BY <1>3, <1>4, <1>13, <4>1, FeedOrder
    <3>2. CASE r \in L
      BY <1>3, <1>4, <1>5, <1>12, <1>13, <3>2, FeedOrder
    <3>3. QED BY <2>2, <3>1, <3>2
  <2>3. QED BY <1>2, <1>4, <1>7, <2>1, <2>2 DEF FeedReads, Feed!Nearer, Feed!NoCursor
<1>15. ASSUME NEW c \in feedStable' PROVE Met(c)' /\ Counted(c)'
  <2>1. Met(c) /\ Counted(c) /\ Feed!CursorTo(c) \in Places /\ c \notin swiped /\ Feed!CursorTo(c).id = c
    BY <1>2, <1>15, OwedPlaces DEF FeedInv, Places
  <2>2. Counted(c)'
    BY <1>2, <1>8, <2>1 DEF Counted, Feed!Nearer
  <2>3. PICK R : R = Feed!CursorTo(c)
    OBVIOUS
  <2>4. /\ \A r \in feedRequest.visible \cup feedRequest.found : r.id = c => r = R
        /\ R \in feedRequest.visible <=> Feed!Nearer(feedCursor, R) /\ ~Feed!Nearer(feedRequest.cursor, R)
        /\ R \in feedRequest.found <=> Feed!Nearer(feedRequest.cursor, R) /\ ~Feed!Nearer(l, R)
        /\ ended /\ Feed!Nearer(feedRequest.cursor, R) => R \in feedRequest.found
    BY <1>1, <1>2, <1>6, <2>1, <2>3 DEF Met
  <2>5. \A r \in feedRequest.visible \cup L : r.id = c => r = R
    BY <1>5, <2>4
  <2>6. R \in feedRequest.visible \cup L <=> Feed!Nearer(feedCursor, R) /\ ~Feed!Nearer(l, R)
    <3>1. R \in L <=> R \in feedRequest.found
      BY <1>5, <2>1, <2>3
    <3>2. Feed!Nearer(feedRequest.cursor, l)
      BY <1>4, <1>13
    <3>3. R \in Places
      BY <2>1, <2>3
    <3>4. Feed!Nearer(l, R) => Feed!Nearer(feedRequest.cursor, R)
      BY <1>3, <1>4, <3>2, <3>3, FeedOrder
    <3>5. Feed!Nearer(feedRequest.cursor, R) => Feed!Nearer(feedCursor, R)
      BY <1>3, <1>12, <3>3, FeedOrder
    <3>6. QED BY <2>4, <3>1, <3>4, <3>5
  <2>7. ended => ~Feed!Nearer(l, R)
    <3>1. Feed!Nearer(l, R) => Feed!Nearer(feedRequest.cursor, R)
      BY <1>3, <1>4, <1>13, <2>1, <2>3, FeedOrder
    <3>2. QED BY <2>4, <3>1
  <2>8. Met(c)'
    BY <1>2, <1>7, <1>8, <2>3, <2>5, <2>6, <2>7 DEF Met, Feed!Nearer
  <2>9. QED BY <2>2, <2>8
<1>16. QED BY <1>9, <1>10, <1>11, <1>14, <1>15 DEF FeedInv

\* A page counts the candidates on it.
LEMMA PageCounts ==
    ASSUME NEW page, feedShown \in [Candidates -> 0..2],
           feedShown' = [c \in Candidates |-> IF c \in page /\ feedShown[c] < 2 THEN feedShown[c] + 1 ELSE feedShown[c]]
    PROVE  /\ feedShown' \in [Candidates -> 0..2]
           /\ \A c \in Candidates : feedShown[c] < 2 => feedShown'[c] = feedShown[c] + (IF c \in page THEN 1 ELSE 0)
<1>1. \A c \in Candidates : feedShown[c] \in 0..2
  OBVIOUS
<1>2. \A n \in 0..2 : n < 2 => n + 1 \in 0..2
  OBVIOUS
<1>3. \A c \in Candidates : (IF c \in page /\ feedShown[c] < 2 THEN feedShown[c] + 1 ELSE feedShown[c]) \in 0..2
  BY <1>1, <1>2
<1>4. QED BY <1>1, <1>3

\* Reply: what the page shows, and where its cursor is, of the rows that were read.
LEMMA PageEnds ==
    ASSUME FeedNames, FeedInv, feedRequest.pc = "batch", ~Feed!Reads, NEW c \in feedStable,
           NEW R, R = Feed!CursorTo(c), NEW page, page = Feed!Take(feedRequest.visible, PageLimit)
    PROVE  /\ \A r \in page : r.id = c => r = R
           /\ Feed!NextCursor = Feed!NoCursor => (R \in page <=> Feed!Nearer(feedCursor, R))
           /\ Feed!NextCursor # Feed!NoCursor =>
                (R \in page <=> Feed!Nearer(feedCursor, R) /\ ~Feed!Nearer(Feed!NextCursor, R))
           /\ Feed!NextCursor # Feed!NoCursor => feedCursor = Feed!NextCursor \/ Feed!Nearer(feedCursor, Feed!NextCursor)
<1>1. PICK V, rc : V = feedRequest.visible /\ rc = feedRequest.cursor
  OBVIOUS
<1>2. FewRows(V) /\ Cardinality(V) \in Nat /\ rc \in Places /\ feedCursor \in Places /\ PageLimit \in Nat \ {0}
  BY <1>1, FS_CardinalityType DEF FeedInv, FeedSized, FeedTyped, FeedRequest, FewRows, FeedNames
<1>3. /\ R \in Places /\ \A r \in V : r.id = c => r = R
      /\ R \in V <=> Feed!Nearer(feedCursor, R) /\ ~Feed!Nearer(rc, R)
      /\ feedRequest.exhausted => ~Feed!Nearer(rc, R)
  BY <1>1, OwedPlaces DEF FeedInv, Met, Places
<1>4. /\ feedCursor = rc \/ Feed!Nearer(feedCursor, rc)
      /\ \A r \in V : /\ Feed!Nearer(feedCursor, r) /\ (r = rc \/ Feed!Nearer(r, rc)) /\ r \in Places
      /\ feedRequest.batch > 0 => rc # Feed!NoCursor
  BY <1>1, <1>2 DEF FeedInv, FeedReads, FewRows, Places
<1>5. /\ page \in SUBSET V /\ FewRows(page)
      /\ \A r \in page : \A s \in V : Feed!Nearer(s, r) => s \in page
      /\ Cardinality(V) <= PageLimit => page = V
      /\ V # {} => page # {}
  BY <1>1, <1>2, Taken
<1>6. \A r \in page : r.id = c => r = R
  BY <1>3, <1>5
<1>7. CASE Cardinality(V) > PageLimit
  <2>1. PICK l : l = Feed!LastOf(page)
    OBVIOUS
  <2>2. Feed!NextCursor = l
    BY <1>1, <1>7, <2>1, FeedCounts DEF Feed!NextCursor, Feed!HasMore
  <2>3. page # {}
    BY <1>2, <1>5, <1>7, FS_EmptySet
  <2>4. l \in page /\ l \in V /\ l \in Feed!Rows /\ l \in Places /\ \A s \in page : s = l \/ Feed!Nearer(s, l)
    BY <1>5, <2>1, <2>3, FeedLast DEF Places
  <2>5. l # Feed!NoCursor /\ Feed!Nearer(feedCursor, l) /\ (l = rc \/ Feed!Nearer(l, rc))
    BY <1>4, <2>4, FeedOrder
  <2>6. R \in page => Feed!Nearer(feedCursor, R) /\ ~Feed!Nearer(l, R)
    BY <1>3, <1>5, <2>4, FeedOrder
  <2>7. ASSUME Feed!Nearer(feedCursor, R), ~Feed!Nearer(l, R) PROVE R \in page
    <3>1. R = l \/ Feed!Nearer(R, l)
      BY <1>3, <2>4, <2>7, FeedOrder
    <3>2. ~Feed!Nearer(rc, R)
      BY <1>2, <1>3, <2>4, <2>5, <3>1, FeedOrder
    <3>3. R \in V
      BY <1>3, <2>7, <3>2
    <3>4. QED BY <1>5, <2>4, <3>1, <3>3
  <2>8. QED BY <1>6, <2>2, <2>5, <2>6, <2>7
<1>8. CASE ~(Cardinality(V) > PageLimit)
  <2>1. page = V
    BY <1>2, <1>5, <1>8
  <2>2. CASE feedRequest.exhausted
    <3>1. Feed!NextCursor = Feed!NoCursor
      BY <1>1, <1>8, <2>2, FeedCounts DEF Feed!NextCursor, Feed!HasMore
    <3>2. QED BY <1>3, <1>6, <2>1, <2>2, <3>1
  <2>3. CASE ~feedRequest.exhausted
    <3>1. Feed!NextCursor = rc
      BY <1>1, <1>8, <2>3, FeedCounts DEF Feed!NextCursor, Feed!HasMore
    <3>2. Cardinality(V) < PageLimit + 1
      BY <1>2, <1>8
    <3>3. ~(feedRequest.batch < FeedBatches)
      BY <1>1, <2>3, <3>2, FeedCounts DEF Feed!Reads
    <3>4. feedRequest.batch > 0
      BY <3>3 DEF FeedInv, FeedTyped, FeedRequest, FeedNames
    <3>5. QED BY <1>3, <1>4, <1>6, <2>1, <3>1, <3>4
  <2>4. QED BY <2>2, <2>3
<1>9. QED BY <1>7, <1>8

\* The cursor of a page is a place.
LEMMA CursorPlaced ==
    ASSUME FeedNames, FeedInv
    PROVE  Feed!NextCursor \in Places
<1>1. PICK V, page : V = feedRequest.visible /\ page = Feed!Take(V, PageLimit)
  OBVIOUS
<1>2. FewRows(V) /\ feedRequest.cursor \in Places /\ PageLimit \in Nat \ {0}
  BY <1>1 DEF FeedInv, FeedSized, FeedTyped, FeedRequest, FeedNames
<1>3. CASE Feed!Cardinality(V) > PageLimit
  <2>1. V # {}
    BY <1>2, <1>3, FeedCounts, FS_EmptySet
  <2>2. FewRows(page) /\ page # {}
    BY <1>1, <1>2, <2>1, Taken
  <2>3. Feed!LastOf(page) \in Feed!Rows
    BY <2>2, FeedLast
  <2>4. QED BY <1>1, <1>3, <2>3 DEF Feed!NextCursor, Places
<1>4. CASE ~(Feed!Cardinality(V) > PageLimit)
  BY <1>1, <1>2, <1>4 DEF Feed!NextCursor, Places
<1>5. QED BY <1>3, <1>4

\* The page is sent.
LEMMA ReplyKeeps == ASSUME FeedNames, FeedInv, Feed!Reply PROVE FeedInv'
<1>1. PICK P, page, N : /\ P = Feed!Take(feedRequest.visible, PageLimit)
                        /\ page = {row.id : row \in P} /\ N = Feed!NextCursor
  OBVIOUS
<1>2. /\ feedRequest.pc = "batch" /\ ~Feed!Reads
      /\ feedShown' = [c \in Candidates |-> IF c \in page /\ feedShown[c] < 2 THEN feedShown[c] + 1 ELSE feedShown[c]]
      /\ feedCursor' = N /\ feedWalk' = (IF N = Feed!NoCursor THEN "over" ELSE "on")
      /\ feedRequest' = Feed!NoRequest
      /\ UNCHANGED <<distance, swiped, feedStable, feedChanges, feedFaults>>
  BY <1>1 DEF Feed!Reply
<1>3. feedShown \in [Candidates -> 0..2] /\ N \in Places
  BY <1>1, CursorPlaced DEF FeedInv, FeedTyped
<1>4. /\ feedShown' \in [Candidates -> 0..2]
      /\ \A c \in Candidates : feedShown[c] < 2 => feedShown'[c] = feedShown[c] + (IF c \in page THEN 1 ELSE 0)
  BY <1>2, <1>3, PageCounts
<1>5. UNCHANGED <<Feed!Eligible, Feed!Rows, Feed!Distances, Feed!NoCursor>> /\ \A c : Feed!CursorTo(c)' = Feed!CursorTo(c)
  BY <1>2 DEF Feed!Eligible, Feed!Rows, Feed!Distances, Feed!CursorTo, Feed!Out, Feed!NoCursor
<1>6. feedRequest' = [pc |-> "none", cursor |-> Feed!NoCursor, visible |-> {}, found |-> {}, batch |-> 0, exhausted |-> FALSE]
  BY <1>2 DEF Feed!NoRequest
<1>7. feedRequest' \in FeedRequest
  BY <1>6 DEF FeedRequest, Places, FeedNames
<1>8. FeedTyped'
  BY <1>2, <1>3, <1>4, <1>5, <1>7 DEF FeedInv, FeedTyped, FeedRequest, Places, Feed!Out
<1>9. FewRows({}) /\ Cardinality({}) = 0
  BY FS_EmptySet DEF FewRows
<1>10. FeedSized'
  BY <1>5, <1>6, <1>9 DEF FeedSized, FeedNames, FewRows
<1>11. FeedBegins' /\ FeedReads'
  BY <1>2, <1>6 DEF FeedBegins, FeedReads
<1>12. ASSUME NEW c \in feedStable' PROVE Met(c)' /\ Counted(c)'
  <2>1. c \in feedStable /\ c \in Candidates /\ Counted(c) /\ feedWalk = "on"
    BY <1>2, <1>12, OwedPlaces DEF FeedInv, FeedBegins
  <2>2. PICK R : R = Feed!CursorTo(c)
    OBVIOUS
  <2>3. R \in Feed!Rows /\ R \in Places /\ R.id = c /\ feedCursor \in Places
    BY <2>1, <2>2, OwedPlaces DEF FeedInv, Places, FeedTyped
  <2>4. /\ \A r \in P : r.id = c => r = R
        /\ N = Feed!NoCursor => (R \in P <=> Feed!Nearer(feedCursor, R))
        /\ N # Feed!NoCursor => (R \in P <=> Feed!Nearer(feedCursor, R) /\ ~Feed!Nearer(N, R))
        /\ N # Feed!NoCursor => feedCursor = N \/ Feed!Nearer(feedCursor, N)
    BY <1>1, <1>2, <2>1, <2>2, PageEnds
  <2>5. c \in page <=> R \in P
    BY <1>1, <2>3, <2>4
  <2>6. feedShown[c] = IF Feed!Nearer(feedCursor, R) THEN 0 ELSE 1
    BY <2>1, <2>2 DEF Counted
  <2>7. feedShown'[c] = feedShown[c] + (IF c \in page THEN 1 ELSE 0)
    BY <1>4, <2>1, <2>6
  <2>8. feedShown'[c] = IF N # Feed!NoCursor /\ Feed!Nearer(N, R) THEN 0 ELSE 1
    <3>1. N # Feed!NoCursor /\ Feed!Nearer(N, R) => Feed!Nearer(feedCursor, R)
      BY <1>3, <2>3, <2>4, FeedOrder
    <3>2. QED BY <2>4, <2>5, <2>6, <2>7, <3>1
  <2>9. Counted(c)'
    BY <1>2, <1>5, <2>2, <2>8 DEF Counted, Feed!Nearer
  <2>10. Met(c)'
    BY <1>6 DEF Met
  <2>11. QED BY <2>9, <2>10
<1>13. QED BY <1>8, <1>10, <1>11, <1>12 DEF FeedInv

\* A request fails.
LEMMA FailsKeep == ASSUME FeedNames, FeedInv, Feed!Fails PROVE FeedInv'
<1>1. /\ feedRequest' = [pc |-> "none", cursor |-> Feed!NoCursor, visible |-> {}, found |-> {}, batch |-> 0, exhausted |-> FALSE]
      /\ feedFaults < MaxFeedFaults /\ feedFaults' = feedFaults + 1
      /\ UNCHANGED <<distance, swiped, feedWalk, feedCursor, feedShown, feedStable, feedChanges>>
  BY DEF Feed!Fails, Feed!NoRequest
<1>2. feedRequest' \in FeedRequest
  BY <1>1 DEF FeedRequest, Places, FeedNames
<1>3. feedFaults' \in 0..MaxFeedFaults
  BY <1>1 DEF FeedInv, FeedTyped, FeedNames
<1>4. UNCHANGED <<Feed!Eligible, Feed!Rows, Feed!Distances, Feed!NoCursor>> /\ \A c : Feed!CursorTo(c)' = Feed!CursorTo(c)
  BY <1>1 DEF Feed!Eligible, Feed!Rows, Feed!Distances, Feed!CursorTo, Feed!Out, Feed!NoCursor
<1>5. FeedTyped'
  BY <1>1, <1>2, <1>3, <1>4 DEF FeedInv, FeedTyped, FeedRequest, Places, Feed!Out
<1>6. FewRows({}) /\ Cardinality({}) = 0
  BY FS_EmptySet DEF FewRows
<1>7. FeedSized'
  BY <1>1, <1>4, <1>6 DEF FeedSized, FeedNames, FewRows
<1>8. FeedBegins' /\ FeedReads'
  BY <1>1, <1>4 DEF FeedInv, FeedBegins, FeedReads
<1>9. ASSUME NEW c \in feedStable' PROVE Met(c)' /\ Counted(c)'
  <2>1. Counted(c)
    BY <1>1, <1>9 DEF FeedInv
  <2>2. Counted(c)'
    BY <1>1, <1>4, <2>1 DEF Counted, Feed!Nearer
  <2>3. Met(c)'
    BY <1>1 DEF Met
  <2>4. QED BY <2>2, <2>3
<1>10. QED BY <1>5, <1>7, <1>8, <1>9 DEF FeedInv

\* What the others do: the walk does not move, and the candidates it still owes
\* are where they were.
LEMMA OthersKeep ==
    ASSUME FeedNames, FeedInv, FeedTyped', feedStable' \subseteq feedStable,
           feedWalk = "on" \/ feedStable' = feedStable,
           \A c \in feedStable' : distance'[c] = distance[c],
           UNCHANGED <<feedWalk, feedCursor, feedRequest, feedShown>>
    PROVE  FeedInv'
<1>1. UNCHANGED <<Feed!Rows, Feed!NoCursor>>
  BY DEF Feed!Rows, Feed!Distances, Feed!NoCursor
<1>2. FeedSized'
  BY <1>1 DEF FeedInv, FeedSized, FewRows
<1>3. FeedBegins' /\ FeedReads'
  BY <1>1 DEF FeedInv, FeedBegins, FeedReads, Feed!Nearer
<1>4. ASSUME NEW c \in feedStable' PROVE Met(c)' /\ Counted(c)'
  <2>1. Met(c) /\ Counted(c) /\ Feed!CursorTo(c)' = Feed!CursorTo(c)
    BY <1>4 DEF FeedInv, Feed!CursorTo
  <2>2. Counted(c)'
    BY <2>1 DEF Counted, Feed!Nearer
  <2>3. Feed!LastOf(feedRequest.found)' = Feed!LastOf(feedRequest.found)
    BY DEF Feed!LastOf, Feed!Nearer
  <2>4. Met(c)'
    BY <2>1, <2>3 DEF Met, Feed!Nearer
  <2>5. QED BY <2>2, <2>4
<1>5. QED BY <1>2, <1>3, <1>4 DEF FeedInv

\* A candidate moves, comes or goes.
LEMMA MovesKeep ==
    ASSUME FeedNames, FeedInv, NEW c \in Candidates, NEW d \in Feed!Distances \cup {Feed!Out}, Feed!Moves(c, d)
    PROVE  FeedInv'
<1>1. /\ feedWalk = "on" /\ feedChanges < MaxFeedChanges /\ feedChanges' = feedChanges + 1
      /\ distance' = [distance EXCEPT ![c] = d] /\ feedStable' = feedStable \ {c}
      /\ UNCHANGED <<swiped, feedWalk, feedCursor, feedRequest, feedShown, feedFaults>>
  BY DEF Feed!Moves
<1>2. /\ distance \in [Candidates -> Feed!Distances \cup {Feed!Out}]
      /\ UNCHANGED <<Feed!Rows, Feed!Distances, Feed!NoCursor, Feed!Out>>
  BY DEF FeedInv, FeedTyped, Feed!Rows, Feed!Distances, Feed!NoCursor, Feed!Out
<1>3. \A e \in feedStable' : e \in Candidates /\ distance'[e] = distance[e] /\ distance[e] # Feed!Out /\ e \notin swiped
  BY <1>1, <1>2 DEF FeedInv, FeedTyped, Feed!Eligible
<1>4. distance' \in [Candidates -> Feed!Distances \cup {Feed!Out}] /\ feedChanges' \in 0..MaxFeedChanges
  BY <1>1, <1>2 DEF FeedInv, FeedTyped, FeedNames
<1>5. feedStable' \subseteq Feed!Eligible' \ swiped'
  BY <1>1, <1>2, <1>3 DEF Feed!Eligible
<1>6. FeedTyped'
  BY <1>1, <1>2, <1>4, <1>5 DEF FeedInv, FeedTyped, FeedRequest, Places
<1>7. QED BY <1>1, <1>3, <1>6, OthersKeep

\* The viewer decides, or a decision expires.
LEMMA SwipesKeep ==
    ASSUME FeedNames, FeedInv, NEW c \in Candidates, Feed!Swipe(c) \/ Feed!SwipeExpires(c)
    PROVE  FeedInv'
<1>1. /\ feedWalk = "on" /\ feedChanges < MaxFeedChanges /\ feedChanges' = feedChanges + 1
      /\ swiped' \subseteq Candidates /\ feedStable' \subseteq feedStable /\ feedStable' \cap swiped' = {}
      /\ UNCHANGED <<distance, feedWalk, feedCursor, feedRequest, feedShown, feedFaults>>
  BY DEF Feed!Swipe, Feed!SwipeExpires, FeedInv, FeedTyped
<1>2. UNCHANGED <<Feed!Eligible, Feed!Rows, Feed!Distances, Feed!NoCursor, Feed!Out>>
  BY <1>1 DEF Feed!Eligible, Feed!Rows, Feed!Distances, Feed!NoCursor, Feed!Out
<1>3. feedChanges' \in 0..MaxFeedChanges
  BY <1>1 DEF FeedInv, FeedTyped, FeedNames
<1>4. FeedTyped'
  BY <1>1, <1>2, <1>3 DEF FeedInv, FeedTyped, FeedRequest, Places
<1>5. QED BY <1>1, <1>4, OthersKeep

\* Every step keeps the invariant.
LEMMA FeedStep == ASSUME FeedNames, FeedInv, [Feed!Next]_(Feed!vars) PROVE FeedInv'
<1>1. ASSUME UNCHANGED Feed!vars PROVE FeedInv'
  <2>1. UNCHANGED <<distance, swiped, feedWalk, feedCursor, feedRequest, feedShown, feedStable, feedChanges, feedFaults>>
    BY <1>1 DEF Feed!vars
  <2>2. FeedTyped'
    BY <2>1 DEF FeedInv, FeedTyped, FeedRequest, Places, Feed!Eligible, Feed!Rows, Feed!Distances, Feed!NoCursor, Feed!Out
  <2>3. QED BY <2>1, <2>2, OthersKeep
<1>2. QED BY <1>1, AskKeeps, BatchKeeps, FilterKeeps, ReplyKeeps, FailsKeep, MovesKeep, SwipesKeep DEF Feed!Next

\* The feed, for any number of candidates and distances, any limit, batch size and
\* number of batches: a candidate that stays where it is and is not swiped is shown
\* by a walk that ends, and never twice, and a request reads no further than the
\* batch that fills its page.
THEOREM FeedSound == ASSUME FeedNames PROVE Feed!Spec => []FeedConsistent
<1>1. Feed!Init => FeedInv
  BY FeedStarts
<1>2. FeedInv /\ [Feed!Next]_(Feed!vars) => FeedInv'
  BY FeedStep
<1>3. FeedInv => FeedConsistent
  BY FeedHolds DEF FeedConsistent
<1>4. QED BY <1>1, <1>2, <1>3, PTL DEF Feed!Spec

-----------------------------------------------------------------------------
(* DataExport: the download of an account's data.                          *)

\* Finitely many exports and rows with ordered keys; a page has a row.
ExportNames ==
    /\ IsFiniteSet(Exports) /\ Collections \in Nat /\ RowKeys \subseteq Nat \ {0} /\ IsFiniteSet(RowKeys)
    /\ ExportPageSize \in Nat \ {0} /\ MaxExportBytes \in Nat /\ MaxExports \in Nat
    /\ MaxExportChanges \in Nat /\ MaxExportFaults \in Nat

\* The cardinality of DataExport.
LEMMA ExportCounts == \A S : Export!Cardinality(S) = Cardinality(S)
BY DEF Export!Cardinality, Cardinality

\* The least member of a finite set of keys, and the last one.
LEMMA LastKey ==
    ASSUME ExportNames, NEW S \in SUBSET RowKeys, S # {}
    PROVE  Export!LastOf(S) \in S /\ \A k \in S : k <= Export!LastOf(S)
<1> DEFINE Behind(k) == {j \in S : k < j}
           T == {Cardinality(Behind(k)) : k \in S}
<1>1. IsFiniteSet(S) /\ \A k \in S : k \in Nat
  BY FS_Subset DEF ExportNames
<1>2. \A k \in S : IsFiniteSet(Behind(k)) /\ Cardinality(Behind(k)) \in Nat
  BY <1>1, FS_Subset, FS_CardinalityType
<1>3. T \in SUBSET Nat /\ T # {}
  BY <1>2
<1>4. PICK l \in S : \A k \in S : Cardinality(Behind(l)) <= Cardinality(Behind(k))
  <2>1. PICK n \in T : \A m \in T : n <= m
    BY <1>3, LeastNat
  <2>2. QED BY <2>1
<1>5. ASSUME NEW k \in S, l < k PROVE FALSE
  <2>1. Behind(k) \in SUBSET Behind(l) /\ k \in Behind(l) /\ k \notin Behind(k)
    BY <1>1, <1>5
  <2>2. PICK m \in Nat, n \in Nat : m = Cardinality(Behind(k)) /\ n = Cardinality(Behind(l))
    BY <1>2
  <2>3. m <= n /\ m # n
    BY <1>2, <2>1, <2>2, FS_Subset
  <2>4. n <= m
    BY <1>4, <2>2
  <2>5. QED BY <2>3, <2>4
<1>6. \E k \in S : \A j \in S : j <= k
  BY <1>1, <1>5
<1>7. QED BY <1>6 DEF Export!LastOf

\* The page of the rows that are left.
FirstPage(S) == {k \in S : Export!Cardinality({j \in S : j < k}) < ExportPageSize}

\* ORDER BY key LIMIT pageSize: a page has no row before which it leaves one out, is
\* all there is when it is not full, and is not empty when it is.
LEMMA PageOfKeys ==
    ASSUME ExportNames, NEW S \in SUBSET RowKeys, NEW P, P = FirstPage(S)
    PROVE  /\ P \in SUBSET S /\ Cardinality(P) \in Nat
           /\ \A k \in P : \A j \in S : j < k => j \in P
           /\ Cardinality(P) < ExportPageSize => P = S
           /\ ~(Cardinality(P) < ExportPageSize) => P # {}
<1>1. /\ IsFiniteSet(S) /\ P \in SUBSET S /\ IsFiniteSet(P) /\ Cardinality(P) \in Nat
      /\ \A k \in S : k \in Nat
  BY FS_Subset, FS_CardinalityType DEF ExportNames, FirstPage
<1>2. PICK before : before = [k \in S |-> {j \in S : j < k}]
  OBVIOUS
<1>3. /\ \A k \in S : before[k] = {j \in S : j < k}
      /\ \A k : k \in P <=> k \in S /\ Cardinality(before[k]) < ExportPageSize
  BY <1>2, ExportCounts DEF FirstPage
<1>4. \A k \in S : IsFiniteSet(before[k]) /\ Cardinality(before[k]) \in Nat
  BY <1>1, <1>3, FS_Subset, FS_CardinalityType
<1>5. ASSUME NEW j \in S, NEW k \in S, j < k PROVE Cardinality(before[j]) < Cardinality(before[k])
  <2>1. before[j] \in SUBSET before[k] /\ j \in before[k] /\ j \notin before[j]
    BY <1>1, <1>3, <1>5
  <2>2. PICK m \in Nat, n \in Nat : m = Cardinality(before[j]) /\ n = Cardinality(before[k])
    BY <1>4
  <2>3. m <= n /\ m # n
    BY <1>4, <2>1, <2>2, FS_Subset
  <2>4. QED BY <2>2, <2>3
<1>6. ASSUME NEW k \in P, NEW j \in S, j < k PROVE j \in P
  <2>1. k \in S /\ Cardinality(before[k]) < ExportPageSize
    BY <1>3
  <2>2. PICK m \in Nat, n \in Nat : m = Cardinality(before[j]) /\ n = Cardinality(before[k])
    BY <1>4, <2>1
  <2>3. m < n /\ n < ExportPageSize /\ ExportPageSize \in Nat
    BY <1>5, <1>6, <2>1, <2>2 DEF ExportNames
  <2>4. Cardinality(before[j]) < ExportPageSize
    BY <2>2, <2>3
  <2>5. QED BY <1>3, <2>4
<1>7. ASSUME Cardinality(P) < ExportPageSize, S \ P # {} PROVE FALSE
  <2>1. PICK k \in S \ P : \A j \in S \ P : k <= j
    <3>1. S \ P \in SUBSET Nat
      BY <1>1
    <3>2. QED BY <1>7, <3>1, LeastNat
  <2>2. before[k] \in SUBSET P
    <3>1. ASSUME NEW j \in before[k], j \notin P PROVE FALSE
      <4>1. j \in S /\ j < k /\ j \in Nat /\ k \in Nat
        BY <1>1, <1>3, <2>1, <3>1
      <4>2. k <= j
        BY <2>1, <3>1, <4>1
      <4>3. QED BY <4>1, <4>2
    <3>2. QED BY <3>1
  <2>3. Cardinality(before[k]) <= Cardinality(P)
    BY <1>1, <2>2, FS_Subset
  <2>4. ~(Cardinality(before[k]) < ExportPageSize)
    BY <1>3, <2>1
  <2>5. PICK m \in Nat, n \in Nat : m = Cardinality(before[k]) /\ n = Cardinality(P)
    BY <1>1, <1>4, <2>1
  <2>6. ExportPageSize \in Nat
    BY DEF ExportNames
  <2>7. m <= n /\ n < ExportPageSize /\ ~(m < ExportPageSize)
    BY <1>7, <2>3, <2>4, <2>5
  <2>8. QED BY <2>6, <2>7
<1>8. ASSUME P = {} PROVE Cardinality(P) < ExportPageSize
  <2>1. ExportPageSize \in Nat \ {0} /\ Cardinality({}) = 0
    BY FS_EmptySet DEF ExportNames
  <2>2. Cardinality(P) = 0
    BY <1>8, <2>1
  <2>3. QED BY <2>1, <2>2
<1>9. Cardinality(P) < ExportPageSize => S \ P = {}
  BY <1>7
<1>10. Cardinality(P) < ExportPageSize => P = S
  BY <1>1, <1>9
<1>11. ~(Cardinality(P) < ExportPageSize) => P # {}
  BY <1>8
<1>12. QED
  BY <1>1, <1>6, <1>10, <1>11, Zenon

-----------------------------------------------------------------------------
(* The inductive invariant of DataExport.                                  *)

ExportRecord ==
    [pc: {"none"} \cup Export!Holding \cup Export!Ended, bytes: 0..MaxExportBytes,
     contexts: {<<>>, <<"object">>, <<"object", "array">>},
     section: 1..(Collections + 1), cursor: RowKeys \cup {0},
     snapshot: [Export!Sections -> SUBSET RowKeys], document: [Export!Sections -> [RowKeys -> 0..2]],
     errored: BOOLEAN, closed: BOOLEAN, released: BOOLEAN]

\* A document holds a snapshot up to a key of a section, or with all of the section.
UpTo(document, snapshot, section, cursor) ==
    \A s \in Export!Sections, k \in RowKeys :
        document[s][k] = IF k \in snapshot[s] /\ (s < section \/ (s = section /\ k <= cursor)) THEN 1 ELSE 0

Through(document, snapshot, section) ==
    \A s \in Export!Sections, k \in RowKeys :
        document[s][k] = IF k \in snapshot[s] /\ (s < section \/ s = section) THEN 1 ELSE 0

Holds(q, section, cursor) == UpTo(q.document, q.snapshot, section, cursor)

\* Nothing is written yet.
Blank(q) == q.section = 1 /\ q.cursor = 0 /\ \A s \in Export!Sections, k \in RowKeys : q.document[s][k] = 0

\* The sections that are over, and the rows of this one up to the cursor; the array
\* of this one is open when rows of it are written.
ReadSoFar(q) ==
    /\ Holds(q, q.section, q.cursor)
    /\ q.contexts = IF q.cursor = 0 THEN <<"object">> ELSE <<"object", "array">>
    /\ q.section = Collections + 1 => q.cursor = 0

\* The whole snapshot.
Complete(q) == Holds(q, Collections + 1, 0) /\ q.contexts = <<>>

\* A request that holds a place has not given it back, and its document is as far
\* as its step.
SoundExport(q) ==
    /\ q \in ExportRecord
    /\ q.pc # "over" => ~q.released
    /\ q.pc \in {"none", "slot", "directory", "file"} => Blank(q)
    /\ q.pc = "file" => q.contexts = <<"object">>
    /\ q.pc = "pages" => ReadSoFar(q)
    /\ q.pc \in {"closed", "streaming", "cleaning"} => Complete(q)

\* It is in the access log from its response on.
Noted(q, noted) ==
    /\ q.pc \in {"streaming", "cleaning"} => noted
    /\ noted => q.pc \in {"streaming", "cleaning", "over", "dead"} /\ Complete(q)

\* It has a directory as long as it needs one.
Filed(q, filed, left) ==
    /\ q.pc \in {"directory", "file", "pages", "closed", "streaming"} => filed
    /\ q.pc \in {"none", "refused"} => ~filed
    /\ q.pc = "over" /\ filed => left

Held == {r \in Exports : export[r].pc \in Export!Holding}

ExportInv ==
    /\ exportTable \in [Export!Sections -> SUBSET RowKeys]
    /\ export \in [Exports -> ExportRecord]
    /\ directory \subseteq Exports /\ exportLog \subseteq Exports /\ keptFiles \subseteq Exports
    /\ exportChanges \in 0..MaxExportChanges /\ exportFaults \in 0..MaxExportFaults
    /\ activeExports \in 0..MaxExports /\ activeExports = Cardinality(Held)
    /\ \A r \in Exports :
         /\ SoundExport(export[r]) /\ Noted(export[r], r \in exportLog)
         /\ Filed(export[r], r \in directory, r \in keptFiles)

\* It holds before the first request.
LEMMA ExportStarts == ASSUME ExportNames, Export!Init PROVE ExportInv
<1>1. Export!Idle \in ExportRecord /\ Export!Idle.pc = "none" /\ ~Export!Idle.released /\ Blank(Export!Idle)
  <2>1. 1 \in 1..(Collections + 1) /\ 0 \in 0..MaxExportBytes
    BY DEF ExportNames
  <2>2. QED BY <2>1 DEF Export!Idle, ExportRecord, Blank
<1>2. \A r \in Exports : export[r] = Export!Idle
  BY DEF Export!Init
<1>3. SoundExport(Export!Idle)
  BY <1>1 DEF SoundExport, Export!Holding, Export!Working
<1>4. Held = {} /\ Cardinality({}) = 0
  BY <1>1, <1>2, FS_EmptySet DEF Held, Export!Holding, Export!Working
<1>5. QED BY <1>1, <1>2, <1>3, <1>4 DEF ExportInv, Export!Init, Noted, Filed, ExportNames

\* It gives the property.
LEMMA ExportHolds == ASSUME ExportNames, ExportInv PROVE Export!ExportConsistent
<1>1. Export!TypeOK
  BY DEF ExportInv, ExportRecord, Export!TypeOK
<1>2. Export!ExportIsSnapshot
  <2>1. ASSUME NEW r \in Export!Streamed
        PROVE  /\ export[r].document = [s \in Export!Sections |-> [k \in RowKeys |-> IF k \in export[r].snapshot[s] THEN 1 ELSE 0]]
               /\ export[r].contexts = <<>> /\ r \in exportLog
    <3>1. r \in Exports /\ Complete(export[r]) /\ r \in exportLog
      BY DEF Export!Streamed, ExportInv, Noted
    <3>2. export[r].document \in [Export!Sections -> [RowKeys -> 0..2]]
      BY <3>1 DEF ExportInv, ExportRecord
    <3>3. \A s \in Export!Sections, k \in RowKeys : export[r].document[s][k] = IF k \in export[r].snapshot[s] THEN 1 ELSE 0
      BY <3>1 DEF Complete, Holds, UpTo, Export!Sections, ExportNames
    <3>4. QED BY <3>1, <3>2, <3>3 DEF Complete
  <2>2. QED BY <2>1 DEF Export!ExportIsSnapshot
<1>3. Export!SlotsAccounted
  BY ExportCounts DEF Export!SlotsAccounted, ExportInv, Held
<1>4. Export!NothingLeftBehind
  BY DEF Export!NothingLeftBehind, ExportInv, Filed
<1>5. QED BY <1>1, <1>2, <1>3, <1>4 DEF Export!ExportConsistent

\* A request moves, and nothing of the others changes.
LEMMA ExportMoves ==
    ASSUME ExportNames, ExportInv, NEW r \in Exports, NEW q, export' = [export EXCEPT ![r] = q], SoundExport(q),
           directory' \subseteq directory \cup {r}, directory \ {r} \subseteq directory',
           exportLog' \subseteq exportLog \cup {r}, exportLog \ {r} \subseteq exportLog',
           keptFiles' \subseteq keptFiles \cup {r}, keptFiles \subseteq keptFiles',
           Noted(q, r \in exportLog'), Filed(q, r \in directory', r \in keptFiles'),
           UNCHANGED <<exportTable, exportChanges>>, exportFaults' \in 0..MaxExportFaults,
           \/ (q.pc \in Export!Holding <=> export[r].pc \in Export!Holding) /\ activeExports' = activeExports
           \/ /\ q.pc \in Export!Holding /\ export[r].pc \notin Export!Holding
              /\ activeExports' = activeExports + 1 /\ activeExports < MaxExports
           \/ /\ q.pc \notin Export!Holding /\ export[r].pc \in Export!Holding
              /\ activeExports' = activeExports - 1
    PROVE  ExportInv'
<1>1. q \in ExportRecord /\ export' \in [Exports -> ExportRecord]
      /\ export'[r] = q /\ \A o \in Exports \ {r} : export'[o] = export[o]
  BY DEF SoundExport, ExportInv
<1>2. /\ directory' \subseteq Exports /\ exportLog' \subseteq Exports /\ keptFiles' \subseteq Exports
      /\ exportTable' \in [Export!Sections -> SUBSET RowKeys] /\ exportChanges' \in 0..MaxExportChanges
  BY DEF ExportInv
<1>3. ASSUME NEW o \in Exports
      PROVE  /\ SoundExport(export'[o]) /\ Noted(export'[o], o \in exportLog')
             /\ Filed(export'[o], o \in directory', o \in keptFiles')
  <2>1. CASE o = r
    BY <1>1, <2>1
  <2>2. CASE o # r
    <3>1. /\ export'[o] = export[o] /\ SoundExport(export[o]) /\ Noted(export[o], o \in exportLog)
          /\ Filed(export[o], o \in directory, o \in keptFiles)
      BY <1>1, <2>2 DEF ExportInv
    <3>2. (o \in exportLog' <=> o \in exportLog) /\ (o \in directory' <=> o \in directory) /\ (o \in keptFiles' <=> o \in keptFiles)
      BY <2>2
    <3>3. Noted(export[o], o \in exportLog') /\ Filed(export[o], o \in directory', o \in keptFiles')
      BY <3>1, <3>2 DEF Noted, Filed
    <3>4. QED BY <3>1, <3>3
  <2>3. QED BY <2>1, <2>2
<1>4. activeExports' \in 0..MaxExports /\ activeExports' = Cardinality(Held')
  <2>1. /\ IsFiniteSet(Held) /\ Cardinality(Held) \in Nat /\ activeExports = Cardinality(Held)
        /\ activeExports \in 0..MaxExports /\ MaxExports \in Nat
    BY FS_Subset, FS_CardinalityType DEF Held, ExportNames, ExportInv
  <2>2. Held' = IF q.pc \in Export!Holding THEN Held \cup {r} ELSE Held \ {r}
    BY <1>1 DEF Held
  <2>3. r \in Held <=> export[r].pc \in Export!Holding
    BY DEF Held
  <2>4. CASE (q.pc \in Export!Holding <=> export[r].pc \in Export!Holding) /\ activeExports' = activeExports
    <3>1. Held' = Held
      BY <2>2, <2>3, <2>4
    <3>2. QED BY <2>1, <2>4, <3>1
  <2>5. CASE /\ q.pc \in Export!Holding /\ export[r].pc \notin Export!Holding
             /\ activeExports' = activeExports + 1 /\ activeExports < MaxExports
    <3>1. Held' = Held \cup {r} /\ r \notin Held
      BY <2>2, <2>3, <2>5
    <3>2. Cardinality(Held') = Cardinality(Held) + 1
      BY <2>1, <3>1, FS_AddElement
    <3>3. QED BY <2>1, <2>5, <3>2
  <2>6. CASE /\ q.pc \notin Export!Holding /\ export[r].pc \in Export!Holding
             /\ activeExports' = activeExports - 1
    <3>1. Held' = Held \ {r} /\ r \in Held
      BY <2>2, <2>3, <2>6
    <3>2. Cardinality(Held') = Cardinality(Held) - 1 /\ Cardinality(Held') \in Nat
      BY <2>1, <3>1, FS_RemoveElement, FS_CardinalityType
    <3>3. QED BY <2>1, <2>6, <3>2
  <2>7. QED BY <2>4, <2>5, <2>6
<1>5. QED BY <1>1, <1>2, <1>3, <1>4 DEF ExportInv

\* A request moves on with what it has written.
LEMMA ExportStays ==
    ASSUME ExportNames, NEW q, SoundExport(q), NEW w \in ExportRecord,
           w.section = q.section, w.cursor = q.cursor, w.document = q.document, w.snapshot = q.snapshot, w.contexts = q.contexts,
           w.pc \notin {"none", "file", "pages"},
           w.pc # "over" => ~w.released,
           w.pc \in {"slot", "directory"} => q.pc \in {"none", "slot"},
           w.pc \in {"closed", "streaming", "cleaning"} => q.pc \in {"closed", "streaming", "cleaning"}
    PROVE  SoundExport(w) /\ (Complete(q) => Complete(w))
<1>1. (Complete(q) => Complete(w)) /\ (Blank(q) => Blank(w))
  BY DEF Complete, Blank, Holds
<1>2. QED BY <1>1 DEF SoundExport

\* What a write makes of a request.
Outcome(o, rest, contexts, q) ==
    \/ q = [o EXCEPT !.pc = "failed"] /\ SoundExport(q)
    \/ \E bytes \in 0..MaxExportBytes : q = [rest EXCEPT !.bytes = bytes, !.contexts = contexts] /\ q \in ExportRecord

\* A write goes over the limit and fails, or counts its bytes in.
LEMMA ExportWrites ==
    ASSUME ExportNames, ExportInv, NEW r \in Exports, NEW tokens \in Nat, NEW contexts \in {<<>>, <<"object">>, <<"object", "array">>},
           NEW rest \in ExportRecord, rest.bytes = export[r].bytes,
           Export!Write(r, tokens, contexts, rest), export[r].pc \in Export!Working
    PROVE  \E q : export' = [export EXCEPT ![r] = q] /\ Outcome(export[r], rest, contexts, q)
<1>1. SoundExport(export[r]) /\ export[r] \in ExportRecord /\ export[r].bytes \in 0..MaxExportBytes
  BY DEF ExportInv, ExportRecord
<1>2. CASE export[r].bytes + tokens > MaxExportBytes
  <2> DEFINE q == [export[r] EXCEPT !.pc = "failed"]
  <2>1. export' = [export EXCEPT ![r] = q]
    BY <1>2 DEF Export!Write
  <2>2. ~export[r].released
    BY <1>1 DEF SoundExport, Export!Working
  <2>3. q \in ExportRecord /\ q.pc = "failed" /\ ~q.released
    BY <1>1, <2>2 DEF ExportRecord, Export!Holding
  <2>4. SoundExport(q)
    BY <2>3 DEF SoundExport
  <2>5. QED BY <2>1, <2>4 DEF Outcome
<1>3. CASE ~(export[r].bytes + tokens > MaxExportBytes)
  <2> DEFINE bytes == export[r].bytes + tokens
             q == [rest EXCEPT !.bytes = bytes, !.contexts = contexts]
  <2>1. bytes \in 0..MaxExportBytes
    BY <1>1, <1>3 DEF ExportNames
  <2>2. export' = [export EXCEPT ![r] = [rest EXCEPT !.bytes = bytes, !.contexts = contexts]]
    BY <1>3 DEF Export!Write
  <2>3. q \in ExportRecord
    BY <2>1 DEF ExportRecord
  <2>4. QED BY <2>1, <2>2, <2>3 DEF Outcome
<1>4. QED BY <1>2, <1>3

\* The page a request reads from its snapshot.
NextPage(N, n, c) == FirstPage({k \in N[n] : k > c})

\* A page puts the rows of its section in that come next, each once.
LEMMA PageRead ==
    ASSUME ExportNames, NEW n \in Export!Sections, NEW c \in RowKeys \cup {0}, NEW N \in [Export!Sections -> SUBSET RowKeys],
           NEW D \in [Export!Sections -> [RowKeys -> 0..2]],
           UpTo(D, N, n, c)
    PROVE  LET P == NextPage(N, n, c)  d == Export!With(D, n, P) IN
           /\ d \in [Export!Sections -> [RowKeys -> 0..2]] /\ Cardinality(P) \in Nat
           /\ Cardinality(P) < ExportPageSize => Through(d, N, n)
           /\ ~(Cardinality(P) < ExportPageSize) => Export!LastOf(P) \in RowKeys /\ UpTo(d, N, n, Export!LastOf(P))
<1>1. PICK rest : rest = {k \in N[n] : k > c}
  OBVIOUS
<1>2. PICK P : P = FirstPage(rest) /\ P = NextPage(N, n, c)
  BY <1>1 DEF NextPage
<1>3. PICK d : d = Export!With(D, n, P)
  OBVIOUS
<1>4. /\ RowKeys \subseteq Nat \ {0} /\ Export!Sections \subseteq Nat /\ c \in Nat /\ rest \in SUBSET RowKeys
      /\ N[n] \in SUBSET RowKeys
  BY <1>1 DEF ExportNames, Export!Sections
<1>5. /\ P \in SUBSET rest /\ Cardinality(P) \in Nat
      /\ \A k \in P : \A j \in rest : j < k => j \in P
      /\ Cardinality(P) < ExportPageSize => P = rest
      /\ ~(Cardinality(P) < ExportPageSize) => P # {}
  BY <1>2, <1>4, PageOfKeys
<1>6. \A s \in Export!Sections, k \in RowKeys :
          D[s][k] = IF k \in N[s] /\ (s < n \/ (s = n /\ k <= c)) THEN 1 ELSE 0
  BY DEF UpTo
<1>7. d = [D EXCEPT ![n] = [k \in RowKeys |-> IF k \in P /\ D[n][k] < 2 THEN D[n][k] + 1 ELSE D[n][k]]]
  BY <1>4, <1>3 DEF Export!With
<1>8. d \in [Export!Sections -> [RowKeys -> 0..2]]
  <2>1. \A k \in RowKeys : D[n][k] \in 0..2
    BY <1>4
  <2>2. [k \in RowKeys |-> IF k \in P /\ D[n][k] < 2 THEN D[n][k] + 1 ELSE D[n][k]] \in [RowKeys -> 0..2]
    BY <2>1
  <2>3. QED BY <1>4, <1>7, <2>2
<1>9. \A k \in P : k \in N[n] /\ k > c
  BY <1>5, <1>1
<1>10. \A s \in Export!Sections, k \in RowKeys :
          d[s][k] = IF k \in N[s] /\ (s < n \/ (s = n /\ (k <= c \/ k \in P))) THEN 1 ELSE 0
  <2>1. ASSUME NEW s \in Export!Sections, NEW k \in RowKeys, s # n
        PROVE  d[s][k] = D[s][k]
    BY <1>4, <1>7, <2>1
  <2>2. ASSUME NEW k \in RowKeys
        PROVE  d[n][k] = IF k \in P THEN 1 ELSE D[n][k]
    <3>1. d[n][k] = IF k \in P /\ D[n][k] < 2 THEN D[n][k] + 1 ELSE D[n][k]
      BY <1>4, <1>7
    <3>2. k \in P => D[n][k] = 0
      <4>1. k \in P => k > c /\ k \in Nat
        BY <1>4, <1>9
      <4>2. k \in P => ~(k <= c)
        BY <1>4, <4>1
      <4>3. D[n][k] = IF k \in N[n] /\ (n < n \/ (n = n /\ k <= c)) THEN 1 ELSE 0
        BY <1>6
      <4>4. ~(n < n)
        BY <1>4
      <4>5. QED BY <4>2, <4>3, <4>4
    <3>3. QED BY <3>1, <3>2
  <2>3. ASSUME NEW s \in Export!Sections, NEW k \in RowKeys
        PROVE  d[s][k] = IF k \in N[s] /\ (s < n \/ (s = n /\ (k <= c \/ k \in P))) THEN 1 ELSE 0
    <3>1. CASE s = n
      <4>1. D[n][k] = IF k \in N[n] /\ (n < n \/ (n = n /\ k <= c)) THEN 1 ELSE 0
        BY <1>6
      <4>2. d[n][k] = IF k \in P THEN 1 ELSE D[n][k]
        BY <2>2
      <4>3. k \in P => k \in N[n]
        BY <1>9
      <4>4. QED BY <3>1, <4>1, <4>2, <4>3
    <3>2. CASE s # n
      <4>1. D[s][k] = IF k \in N[s] /\ (s < n \/ (s = n /\ k <= c)) THEN 1 ELSE 0
        BY <1>6
      <4>2. d[s][k] = D[s][k]
        BY <2>1, <3>2
      <4>3. QED BY <3>2, <4>1, <4>2
    <3>3. QED BY <3>1, <3>2
  <2>4. QED BY <2>3
<1>11. ASSUME Cardinality(P) < ExportPageSize, NEW s \in Export!Sections, NEW k \in RowKeys
      PROVE  d[s][k] = IF k \in N[s] /\ (s < n \/ s = n) THEN 1 ELSE 0
  <2>1. k \in N[n] => k <= c \/ k \in P
    <3>1. ASSUME k \in N[n], ~(k <= c) PROVE k \in rest
      BY <1>4, <1>1, <3>1
    <3>2. QED BY <1>5, <1>11, <3>1
  <2>2. k \in N[s] /\ (s < n \/ (s = n /\ (k <= c \/ k \in P))) <=> k \in N[s] /\ (s < n \/ s = n)
    BY <2>1
  <2>3. d[s][k] = IF k \in N[s] /\ (s < n \/ (s = n /\ (k <= c \/ k \in P))) THEN 1 ELSE 0
    BY <1>10
  <2>4. QED BY <2>2, <2>3
<1>12. ASSUME ~(Cardinality(P) < ExportPageSize)
      PROVE  /\ Export!LastOf(P) \in RowKeys
             /\ \A s \in Export!Sections, k \in RowKeys :
                    d[s][k] = IF k \in N[s] /\ (s < n \/ (s = n /\ k <= Export!LastOf(P))) THEN 1 ELSE 0
  <2>1. P \in SUBSET RowKeys /\ P # {}
    BY <1>4, <1>5, <1>12
  <2>2. PICK l : l = Export!LastOf(P)
    OBVIOUS
  <2>3. l \in P /\ l \in RowKeys /\ \A k \in P : k <= l
    BY <2>1, <2>2, LastKey
  <2>4. ASSUME NEW k \in RowKeys, k \in N[n]
        PROVE  (k <= c \/ k \in P) <=> k <= l
    <3>1. k \in Nat /\ l \in Nat /\ c < l
      BY <1>4, <1>9, <2>3
    <3>2. k \in P => k <= l
      BY <2>3
    <3>3. k < l /\ ~(k <= c) => k \in P
      BY <1>4, <1>5, <1>1, <2>3, <2>4
    <3>4. QED BY <1>4, <2>3, <3>1, <3>2, <3>3
  <2>5. ASSUME NEW s \in Export!Sections, NEW k \in RowKeys
        PROVE  d[s][k] = IF k \in N[s] /\ (s < n \/ (s = n /\ k <= l)) THEN 1 ELSE 0
    <3>1. k \in N[s] /\ (s < n \/ (s = n /\ (k <= c \/ k \in P))) <=> k \in N[s] /\ (s < n \/ (s = n /\ k <= l))
      BY <2>4
    <3>2. d[s][k] = IF k \in N[s] /\ (s < n \/ (s = n /\ (k <= c \/ k \in P))) THEN 1 ELSE 0
      BY <1>10
    <3>3. QED BY <3>1, <3>2
  <2>6. QED BY <2>2, <2>3, <2>5
<1>13. /\ d \in [Export!Sections -> [RowKeys -> 0..2]] /\ Cardinality(P) \in Nat
       /\ Cardinality(P) < ExportPageSize => Through(d, N, n)
       /\ ~(Cardinality(P) < ExportPageSize) => Export!LastOf(P) \in RowKeys /\ UpTo(d, N, n, Export!LastOf(P))
  BY <1>5, <1>8, <1>11, <1>12 DEF UpTo, Through
<1>14. QED BY <1>13, <1>2, <1>3

\* A page is written: the export has read one page more of its snapshot.
LEMMA PageWritten ==
    ASSUME ExportNames, ExportInv, NEW r \in Exports, Export!WritePage(r)
    PROVE  ExportInv'
<1> DEFINE o == export[r]
           n == export[r].section
           c == export[r].cursor
<1>1. /\ export[r] \in ExportRecord /\ SoundExport(o) /\ o.pc = "pages" /\ n \in Export!Sections /\ ReadSoFar(o)
      /\ ~o.released /\ Noted(o, r \in exportLog) /\ Filed(o, r \in directory, r \in keptFiles)
      /\ n \in Nat /\ RowKeys \subseteq Nat \ {0} /\ Collections \in Nat
  BY DEF ExportInv, SoundExport, Export!WritePage, Export!Holding, Export!Working, ExportNames, Export!Sections
<1>2. /\ r \in directory /\ r \notin exportLog /\ o.pc \in Export!Working /\ o.pc \in Export!Holding
  BY <1>1 DEF Noted, Filed, Export!Holding, Export!Working
<1>3. PICK P : P = NextPage(o.snapshot, n, c) /\ P = Export!Page(r)
  BY DEF NextPage, FirstPage, Export!Page, Export!Source
<1>4. PICK d : d = Export!With(o.document, n, P)
  OBVIOUS
<1>5. /\ d \in [Export!Sections -> [RowKeys -> 0..2]] /\ Cardinality(P) \in Nat
      /\ Cardinality(P) < ExportPageSize => Through(d, o.snapshot, n)
      /\ ~(Cardinality(P) < ExportPageSize) => Export!LastOf(P) \in RowKeys /\ UpTo(d, o.snapshot, n, Export!LastOf(P))
  <2>1. PICK N, D, m, b : N = o.snapshot /\ D = o.document /\ m = n /\ b = c
    OBVIOUS
  <2>2. /\ N \in [Export!Sections -> SUBSET RowKeys] /\ D \in [Export!Sections -> [RowKeys -> 0..2]]
        /\ m \in Export!Sections /\ b \in RowKeys \cup {0}
    BY <1>1, <2>1 DEF ExportRecord
  <2>3. UpTo(D, N, m, b)
    BY <1>1, <2>1 DEF ReadSoFar, Holds
  <2>4. P = NextPage(N, m, b) /\ d = Export!With(D, m, P)
    BY <1>3, <1>4, <2>1
  <2>5. /\ d \in [Export!Sections -> [RowKeys -> 0..2]] /\ Cardinality(P) \in Nat
        /\ Cardinality(P) < ExportPageSize => Through(d, N, m)
        /\ ~(Cardinality(P) < ExportPageSize) => Export!LastOf(P) \in RowKeys /\ UpTo(d, N, m, Export!LastOf(P))
    BY <2>2, <2>3, <2>4, PageRead
  <2>6. QED BY <2>1, <2>5
<1>6. PICK w : w = [export[r] EXCEPT !.document = d]
  OBVIOUS
<1>7. w \in ExportRecord /\ w.pc = o.pc /\ w.bytes = o.bytes /\ w.section = n /\ w.released = o.released
      /\ w.snapshot = o.snapshot /\ w.document = d
  BY <1>1, <1>5, <1>6 DEF ExportRecord
<1> DEFINE last == Cardinality(P) < ExportPageSize
           contexts == IF last THEN <<"object">> ELSE <<"object", "array">>
           next == IF last THEN [w EXCEPT !.section = n + 1, !.cursor = 0] ELSE [w EXCEPT !.cursor = Export!LastOf(P)]
           tokens == (IF o.contexts = <<"object">> THEN 1 ELSE 0) + Cardinality(P) + (IF last THEN 1 ELSE 0)
<1>8. /\ Export!Write(r, tokens, contexts, next)
      /\ UNCHANGED <<exportTable, activeExports, directory, exportLog, keptFiles, exportChanges, exportFaults>>
  <2>1. /\ IF last THEN Export!Write(r, tokens, <<"object">>, [w EXCEPT !.section = w.section + 1, !.cursor = 0])
           ELSE Export!Write(r, tokens, <<"object", "array">>, [w EXCEPT !.cursor = Export!LastOf(P)])
        /\ UNCHANGED <<exportTable, activeExports, directory, exportLog, keptFiles, exportChanges, exportFaults>>
    BY <1>3, <1>4, <1>6, ExportCounts DEF Export!WritePage
  <2>2. w.section = n
    BY <1>7
  <2>3. QED BY <2>1, <2>2
<1>9. /\ tokens \in Nat /\ contexts \in {<<>>, <<"object">>, <<"object", "array">>}
      /\ next \in ExportRecord /\ next.bytes = o.bytes /\ next.pc = "pages" /\ ~next.released
      /\ next.snapshot = o.snapshot /\ next.document = d
      /\ next.section = IF last THEN n + 1 ELSE n
      /\ next.cursor = IF last THEN 0 ELSE Export!LastOf(P)
  <2>1. n + 1 \in 1..(Collections + 1) /\ n \in 1..(Collections + 1)
    BY <1>1 DEF Export!Sections
  <2>2. tokens \in Nat /\ contexts \in {<<>>, <<"object">>, <<"object", "array">>}
    BY <1>5
  <2>3. CASE last
    <3>1. next = [w EXCEPT !.section = n + 1, !.cursor = 0]
      BY <2>3
    <3>2. QED
      <4> HIDE DEF next, tokens, contexts
      <4>1. QED BY <1>1, <1>7, <2>1, <2>2, <2>3, <3>1 DEF ExportRecord
  <2>4. CASE ~last
    <3>1. next = [w EXCEPT !.cursor = Export!LastOf(P)] /\ Export!LastOf(P) \in RowKeys
      BY <1>5, <2>4
    <3>2. QED
      <4> HIDE DEF next, tokens, contexts
      <4>1. QED BY <1>1, <1>7, <2>1, <2>2, <2>4, <3>1 DEF ExportRecord
  <2>5. QED BY <2>3, <2>4
<1>10. PICK q : export' = [export EXCEPT ![r] = q] /\ Outcome(o, next, contexts, q)
  <2>1. PICK t, v, x : t = tokens /\ v = next /\ x = contexts
    OBVIOUS
  <2>2. /\ t \in Nat /\ x \in {<<>>, <<"object">>, <<"object", "array">>} /\ v \in ExportRecord
        /\ v.bytes = export[r].bytes /\ Export!Write(r, t, x, v) /\ export[r].pc \in Export!Working
    BY <1>2, <1>8, <1>9, <2>1
  <2>3. \E q : export' = [export EXCEPT ![r] = q] /\ Outcome(export[r], v, x, q)
    BY <2>2, ExportWrites
  <2>4. QED BY <2>1, <2>3
<1>11. SoundExport(q) /\ q.pc \in {"failed", "pages"}
  <2>1. CASE q = [o EXCEPT !.pc = "failed"] /\ SoundExport(q)
    BY <1>1, <2>1 DEF ExportRecord
  <2>2. CASE \E bytes \in 0..MaxExportBytes : q = [next EXCEPT !.bytes = bytes, !.contexts = contexts] /\ q \in ExportRecord
    <3>1. /\ q \in ExportRecord /\ q.pc = "pages" /\ ~q.released /\ q.contexts = contexts
          /\ q.snapshot = o.snapshot /\ q.document = d
          /\ q.section = IF last THEN n + 1 ELSE n
          /\ q.cursor = IF last THEN 0 ELSE Export!LastOf(P)
      <4> HIDE DEF next, contexts
      <4>1. QED BY <1>9, <2>2 DEF ExportRecord
    <3>2. Holds(q, q.section, q.cursor)
      <4>1. CASE last
        <5>1. ASSUME NEW s \in Export!Sections, NEW k \in RowKeys
              PROVE  k \in o.snapshot[s] /\ (s < n + 1 \/ (s = n + 1 /\ k <= 0)) <=> k \in o.snapshot[s] /\ (s < n \/ s = n)
          BY <1>1 DEF Export!Sections
        <5>2. Through(d, o.snapshot, n)
          BY <1>5, <4>1
        <5>3. UpTo(d, o.snapshot, n + 1, 0)
          BY <5>1, <5>2 DEF UpTo, Through
        <5>4. q.section = n + 1 /\ q.cursor = 0
          BY <3>1, <4>1
        <5>5. QED BY <3>1, <5>3, <5>4 DEF Holds
      <4>2. CASE ~last
        <5>1. q.section = n /\ q.cursor = Export!LastOf(P)
          BY <3>1, <4>2
        <5>2. QED BY <1>5, <3>1, <4>2, <5>1 DEF Holds
      <4>3. QED BY <4>1, <4>2
    <3>3. q.contexts = IF q.cursor = 0 THEN <<"object">> ELSE <<"object", "array">>
      <4>1. ~last => Export!LastOf(P) # 0
        BY <1>1, <1>5
      <4>2. QED BY <3>1, <4>1
    <3>4. q.section = Collections + 1 => q.cursor = 0
      BY <1>1, <3>1 DEF Export!Sections
    <3>5. QED BY <3>1, <3>2, <3>3, <3>4 DEF SoundExport, ReadSoFar
  <2>3. QED BY <1>10, <2>1, <2>2 DEF Outcome
<1>12. Noted(q, r \in exportLog') /\ Filed(q, r \in directory', r \in keptFiles')
       /\ q.pc \in Export!Holding
  BY <1>2, <1>8, <1>11 DEF Noted, Filed, Export!Holding, Export!Working
<1>13. QED
  <2>1. exportFaults' \in 0..MaxExportFaults
    BY <1>8 DEF ExportInv
  <2>2. QED BY <1>2, <1>8, <1>10, <1>11, <1>12, <2>1, ExportMoves

\* A written step with no page.
LEMMA ExportWriteMoves ==
    ASSUME ExportNames, ExportInv, NEW r \in Exports, NEW tokens \in Nat, NEW contexts \in {<<>>, <<"object">>, <<"object", "array">>},
           NEW pc \in {"file", "closed"}, Export!Write(r, tokens, contexts, [export[r] EXCEPT !.pc = pc]),
           UNCHANGED <<exportTable, activeExports, directory, exportLog, keptFiles, exportChanges, exportFaults>>,
           export[r].pc \in {"directory", "pages"},
           pc = "file" => export[r].pc = "directory" /\ contexts = <<"object">>,
           pc = "closed" => Holds(export[r], Collections + 1, 0) /\ contexts = <<>>
    PROVE  ExportInv'
<1>1. /\ export[r] \in ExportRecord /\ SoundExport(export[r]) /\ export[r].pc \in Export!Working
      /\ ~export[r].released /\ Noted(export[r], r \in exportLog) /\ Filed(export[r], r \in directory, r \in keptFiles)
  BY DEF ExportInv, SoundExport, Export!Holding, Export!Working
<1>2. r \in directory /\ r \notin exportLog
  BY <1>1 DEF Noted, Filed
<1>3. PICK v : v = [export[r] EXCEPT !.pc = pc]
  OBVIOUS
<1>4. /\ v \in ExportRecord /\ v.bytes = export[r].bytes /\ v.pc = pc /\ ~v.released /\ v.section = export[r].section
      /\ v.cursor = export[r].cursor /\ v.snapshot = export[r].snapshot /\ v.document = export[r].document
  BY <1>1, <1>3 DEF ExportRecord, Export!Holding, Export!Working
<1>5. PICK q : export' = [export EXCEPT ![r] = q] /\ Outcome(export[r], v, contexts, q)
  <2>1. Export!Write(r, tokens, contexts, v)
    BY <1>3
  <2>2. QED BY <1>1, <1>4, <2>1, ExportWrites
<1>6. SoundExport(q) /\ q.pc \in {"failed", "file", "closed"}
  <2>1. CASE q = [export[r] EXCEPT !.pc = "failed"] /\ SoundExport(q)
    BY <1>1, <2>1 DEF ExportRecord
  <2>2. CASE \E bytes \in 0..MaxExportBytes : q = [v EXCEPT !.bytes = bytes, !.contexts = contexts] /\ q \in ExportRecord
    <3>1. /\ q \in ExportRecord /\ q.pc = pc /\ ~q.released /\ q.contexts = contexts /\ q.section = export[r].section
          /\ q.cursor = export[r].cursor /\ q.snapshot = export[r].snapshot /\ q.document = export[r].document
      BY <1>4, <2>2 DEF ExportRecord
    <3>2. CASE pc = "file"
      <4>1. Blank(export[r])
        BY <1>1, <3>2 DEF SoundExport
      <4>2. Blank(q)
        BY <3>1, <4>1 DEF Blank
      <4>3. QED BY <3>1, <3>2, <4>2 DEF SoundExport
    <3>3. CASE pc = "closed"
      <4>1. Complete(q)
        BY <3>1, <3>3 DEF Complete, Holds
      <4>2. QED BY <3>1, <3>3, <4>1 DEF SoundExport
    <3>4. QED BY <3>2, <3>3
  <2>3. QED BY <1>5, <2>1, <2>2 DEF Outcome
<1>7. Noted(q, r \in exportLog') /\ Filed(q, r \in directory', r \in keptFiles')
      /\ q.pc \in Export!Holding /\ export[r].pc \in Export!Holding
  BY <1>1, <1>2, <1>6 DEF Noted, Filed, Export!Holding, Export!Working
<1>8. exportFaults' \in 0..MaxExportFaults
  BY DEF ExportInv
<1>9. QED BY <1>5, <1>6, <1>7, <1>8, ExportMoves

LEMMA FileOpened == ASSUME ExportNames, ExportInv, NEW r \in Exports, Export!OpenFile(r) PROVE ExportInv'
<1>1. /\ export[r].pc = "directory" /\ Export!Write(r, 1, <<"object">>, [export[r] EXCEPT !.pc = "file"])
      /\ UNCHANGED <<exportTable, activeExports, directory, exportLog, keptFiles, exportChanges, exportFaults>>
  BY DEF Export!OpenFile
<1>2. QED BY <1>1, ExportWriteMoves

LEMMA FileClosed == ASSUME ExportNames, ExportInv, NEW r \in Exports, Export!CloseFile(r) PROVE ExportInv'
<1>1. /\ export[r].pc = "pages" /\ export[r].section = Collections + 1
      /\ Export!Write(r, 2, SubSeq(export[r].contexts, 1, Len(export[r].contexts) - 1), [export[r] EXCEPT !.pc = "closed"])
      /\ UNCHANGED <<exportTable, activeExports, directory, exportLog, keptFiles, exportChanges, exportFaults>>
  BY DEF Export!CloseFile
<1>2. SoundExport(export[r]) /\ ReadSoFar(export[r])
  BY <1>1 DEF ExportInv, SoundExport
<1>3. export[r].cursor = 0 /\ export[r].contexts = <<"object">> /\ Holds(export[r], Collections + 1, 0)
  BY <1>1, <1>2 DEF ReadSoFar
<1>4. SubSeq(<<"object">>, 1, Len(<<"object">>) - 1) = <<>>
  OBVIOUS
<1>5. Export!Write(r, 2, <<>>, [export[r] EXCEPT !.pc = "closed"])
  BY <1>1, <1>3, <1>4
<1>6. QED BY <1>1, <1>3, <1>5, ExportWriteMoves

LEMMA SnapshotBegun == ASSUME ExportNames, ExportInv, NEW r \in Exports, Export!BeginSnapshot(r) PROVE ExportInv'
<1>1. /\ export[r].pc = "file" /\ export' = [export EXCEPT ![r].pc = "pages", ![r].snapshot = exportTable]
      /\ UNCHANGED <<exportTable, activeExports, directory, exportLog, keptFiles, exportChanges, exportFaults>>
  BY DEF Export!BeginSnapshot
<1>2. /\ export[r] \in ExportRecord /\ Blank(export[r]) /\ ~export[r].released /\ export[r].contexts = <<"object">>
      /\ Noted(export[r], r \in exportLog) /\ Filed(export[r], r \in directory, r \in keptFiles)
      /\ exportTable \in [Export!Sections -> SUBSET RowKeys]
  BY <1>1 DEF ExportInv, SoundExport, Export!Holding, Export!Working
<1>3. PICK q : q = [export[r] EXCEPT !.pc = "pages", !.snapshot = exportTable]
  OBVIOUS
<1>4. /\ q \in ExportRecord /\ q.pc = "pages" /\ ~q.released /\ q.contexts = <<"object">> /\ q.section = export[r].section
      /\ q.cursor = export[r].cursor /\ q.document = export[r].document
  BY <1>2, <1>3 DEF ExportRecord, Export!Holding, Export!Working
<1>5. export' = [export EXCEPT ![r] = q]
  BY <1>1, <1>2, <1>3 DEF ExportInv
<1>6. q.section = 1 /\ q.cursor = 0 /\ \A s \in Export!Sections, k \in RowKeys : q.document[s][k] = 0
  BY <1>2, <1>4 DEF Blank
<1>7. Holds(q, 1, 0)
  <2>1. ASSUME NEW s \in Export!Sections, NEW k \in RowKeys PROVE ~(s < 1 \/ (s = 1 /\ k <= 0))
    BY DEF Export!Sections, ExportNames
  <2>2. QED BY <1>6, <2>1 DEF Holds, UpTo
<1>8. SoundExport(q)
  BY <1>4, <1>6, <1>7 DEF SoundExport, ReadSoFar
<1>9. /\ Noted(q, r \in exportLog') /\ Filed(q, r \in directory', r \in keptFiles')
      /\ q.pc \in Export!Holding /\ export[r].pc \in Export!Holding
  BY <1>1, <1>2, <1>4 DEF Noted, Filed, Export!Holding, Export!Working
<1>10. exportFaults' \in 0..MaxExportFaults
  BY <1>1 DEF ExportInv
<1>11. QED BY <1>1, <1>5, <1>8, <1>9, <1>10, ExportMoves

LEMMA SlotAcquired == ASSUME ExportNames, ExportInv, NEW r \in Exports, Export!AcquireSlot(r) PROVE ExportInv'
<1>1. /\ export[r] \in ExportRecord /\ SoundExport(export[r]) /\ export[r].pc = "none"
      /\ Noted(export[r], r \in exportLog) /\ Filed(export[r], r \in directory, r \in keptFiles)
      /\ activeExports \in 0..MaxExports /\ MaxExports \in Nat
  BY DEF Export!AcquireSlot, ExportInv, ExportNames
<1>2. PICK q : q = [export[r] EXCEPT !.pc = IF activeExports >= MaxExports THEN "refused" ELSE "slot"]
  OBVIOUS
<1>3. /\ export' = [export EXCEPT ![r] = q]
      /\ activeExports' = IF activeExports >= MaxExports THEN activeExports ELSE activeExports + 1
      /\ UNCHANGED <<exportTable, directory, exportLog, keptFiles, exportChanges, exportFaults>>
  BY <1>2 DEF Export!AcquireSlot
<1>4. ~export[r].released
  BY <1>1 DEF SoundExport
<1>5. /\ q \in ExportRecord /\ q.pc = (IF activeExports >= MaxExports THEN "refused" ELSE "slot") /\ ~q.released
      /\ q.section = export[r].section /\ q.cursor = export[r].cursor /\ q.document = export[r].document
      /\ q.snapshot = export[r].snapshot /\ q.contexts = export[r].contexts
  BY <1>1, <1>2, <1>4 DEF ExportRecord, Export!Holding, Export!Working, Export!Ended
<1>6. SoundExport(q)
  BY <1>1, <1>5, ExportStays
<1>7. Noted(q, r \in exportLog') /\ Filed(q, r \in directory', r \in keptFiles')
  BY <1>1, <1>3, <1>5 DEF Noted, Filed
<1>8. /\ export[r].pc \notin Export!Holding
      /\ q.pc \in Export!Holding <=> activeExports < MaxExports
      /\ activeExports >= MaxExports => activeExports' = activeExports
      /\ activeExports < MaxExports => activeExports' = activeExports + 1
  BY <1>1, <1>3, <1>5 DEF Export!Holding, Export!Working
<1>9. exportFaults' \in 0..MaxExportFaults
  BY <1>3 DEF ExportInv
<1>10. CASE activeExports >= MaxExports
  <2>1. (q.pc \in Export!Holding <=> export[r].pc \in Export!Holding) /\ activeExports' = activeExports
    BY <1>1, <1>8, <1>10
  <2>2. QED BY <1>3, <1>6, <1>7, <1>9, <2>1, ExportMoves
<1>11. CASE activeExports < MaxExports
  <2>1. q.pc \in Export!Holding /\ export[r].pc \notin Export!Holding /\ activeExports' = activeExports + 1
    BY <1>8, <1>11
  <2>2. QED BY <1>3, <1>6, <1>7, <1>9, <1>11, <2>1, ExportMoves
<1>12. QED BY <1>1, <1>10, <1>11

LEMMA DirectoryMade == ASSUME ExportNames, ExportInv, NEW r \in Exports, Export!MakeDirectory(r) PROVE ExportInv'
<1>1. /\ export[r] \in ExportRecord /\ SoundExport(export[r]) /\ export[r].pc = "slot" /\ ~export[r].released
      /\ Noted(export[r], r \in exportLog)
  BY DEF Export!MakeDirectory, ExportInv, SoundExport, Export!Holding, Export!Working
<1>2. PICK q : q = [export[r] EXCEPT !.pc = "directory"]
  OBVIOUS
<1>3. /\ export' = [export EXCEPT ![r] = q] /\ directory' = directory \cup {r}
      /\ UNCHANGED <<exportTable, activeExports, exportLog, keptFiles, exportChanges, exportFaults>>
  BY <1>2 DEF Export!MakeDirectory
<1>4. /\ q \in ExportRecord /\ q.pc = "directory" /\ ~q.released
      /\ q.section = export[r].section /\ q.cursor = export[r].cursor /\ q.document = export[r].document
      /\ q.snapshot = export[r].snapshot /\ q.contexts = export[r].contexts
  BY <1>1, <1>2 DEF ExportRecord, Export!Holding, Export!Working
<1>5. SoundExport(q)
  BY <1>1, <1>4, ExportStays
<1>6. /\ Noted(q, r \in exportLog') /\ Filed(q, r \in directory', r \in keptFiles')
      /\ q.pc \in Export!Holding /\ export[r].pc \in Export!Holding
  BY <1>1, <1>3, <1>4 DEF Noted, Filed, Export!Holding, Export!Working
<1>7. exportFaults' \in 0..MaxExportFaults
  BY <1>3 DEF ExportInv
<1>8. QED BY <1>3, <1>5, <1>6, <1>7, ExportMoves

LEMMA SelfExportRecorded == ASSUME ExportNames, ExportInv, NEW r \in Exports, Export!RecordSelfExport(r) PROVE ExportInv'
<1>1. /\ export[r] \in ExportRecord /\ SoundExport(export[r]) /\ export[r].pc = "closed" /\ ~export[r].released
      /\ Complete(export[r]) /\ Filed(export[r], r \in directory, r \in keptFiles)
  BY DEF Export!RecordSelfExport, ExportInv, SoundExport, Export!Holding, Export!Working
<1>2. PICK q : q = [export[r] EXCEPT !.pc = "streaming"]
  OBVIOUS
<1>3. /\ export' = [export EXCEPT ![r] = q] /\ exportLog' = exportLog \cup {r}
      /\ UNCHANGED <<exportTable, activeExports, directory, keptFiles, exportChanges, exportFaults>>
  BY <1>2 DEF Export!RecordSelfExport
<1>4. /\ q \in ExportRecord /\ q.pc = "streaming" /\ ~q.released
      /\ q.section = export[r].section /\ q.cursor = export[r].cursor /\ q.document = export[r].document
      /\ q.snapshot = export[r].snapshot /\ q.contexts = export[r].contexts
  BY <1>1, <1>2 DEF ExportRecord, Export!Holding, Export!Working
<1>5. SoundExport(q) /\ Complete(q)
  BY <1>1, <1>4, ExportStays
<1>6. /\ Noted(q, r \in exportLog') /\ Filed(q, r \in directory', r \in keptFiles')
      /\ q.pc \in Export!Holding /\ export[r].pc \in Export!Holding
  BY <1>1, <1>3, <1>4, <1>5 DEF Noted, Filed, Export!Holding, Export!Working
<1>7. exportFaults' \in 0..MaxExportFaults
  BY <1>3 DEF ExportInv
<1>8. QED BY <1>3, <1>5, <1>6, <1>7, ExportMoves

LEMMA StreamEnded ==
    ASSUME ExportNames, ExportInv, NEW r \in Exports, NEW event \in {"close", "error"}, Export!StreamEvent(r, event)
    PROVE  ExportInv'
<1>1. /\ export[r] \in ExportRecord /\ SoundExport(export[r]) /\ export[r].pc \in {"streaming", "cleaning", "over"}
      /\ Noted(export[r], r \in exportLog) /\ Filed(export[r], r \in directory, r \in keptFiles)
  BY DEF Export!StreamEvent, ExportInv
<1>2. PICK e \in BOOLEAN, c \in BOOLEAN : e = (export[r].errored \/ event = "error") /\ c = (event = "close")
  BY Zenon
<1>3. /\ export' = [export EXCEPT ![r] = [export[r] EXCEPT !.pc = IF export[r].pc = "streaming" THEN "cleaning" ELSE export[r].pc,
                                                           !.errored = e, !.closed = c]]
      /\ exportFaults' = (IF event = "error" THEN exportFaults + 1 ELSE exportFaults)
      /\ event = "error" => exportFaults < MaxExportFaults
      /\ UNCHANGED <<exportTable, activeExports, directory, exportLog, keptFiles, exportChanges>>
  <2>1. /\ export' = [export EXCEPT ![r].pc = IF export[r].pc = "streaming" THEN "cleaning" ELSE export[r].pc,
                                    ![r].errored = (export[r].errored \/ event = "error"), ![r].closed = (event = "close")]
        /\ exportFaults' = (IF event = "error" THEN exportFaults + 1 ELSE exportFaults)
        /\ event = "error" => exportFaults < MaxExportFaults
        /\ UNCHANGED <<exportTable, activeExports, directory, exportLog, keptFiles, exportChanges>>
    BY Zenon DEF Export!StreamEvent
  <2>2. export' = [export EXCEPT ![r].pc = IF export[r].pc = "streaming" THEN "cleaning" ELSE export[r].pc,
                                 ![r].errored = e, ![r].closed = c]
    BY <1>2, <2>1, Zenon
  <2>3. export \in [Exports -> ExportRecord]
    BY DEF ExportInv
  <2>4. QED BY <2>1, <2>2, <2>3
<1>4. PICK q : /\ q = [export[r] EXCEPT !.pc = IF export[r].pc = "streaming" THEN "cleaning" ELSE export[r].pc,
                                        !.errored = e, !.closed = c]
               /\ export' = [export EXCEPT ![r] = q]
  BY <1>3
<1>5. /\ q \in ExportRecord /\ q.pc = (IF export[r].pc = "streaming" THEN "cleaning" ELSE export[r].pc)
       /\ q.released = export[r].released
       /\ q.section = export[r].section /\ q.cursor = export[r].cursor /\ q.document = export[r].document
       /\ q.snapshot = export[r].snapshot /\ q.contexts = export[r].contexts
  BY <1>1, <1>4 DEF ExportRecord, Export!Holding, Export!Working
<1>6. export[r].pc \in {"streaming", "cleaning"} => ~export[r].released /\ q.pc = "cleaning"
  BY <1>1, <1>5 DEF SoundExport, Export!Holding
<1>7. SoundExport(q) /\ (Complete(export[r]) => Complete(q))
  <2>1. /\ q.pc \notin {"none", "file", "pages", "slot", "directory"} /\ (q.pc # "over" => ~q.released)
        /\ q.pc \in {"closed", "streaming", "cleaning"} => export[r].pc \in {"closed", "streaming", "cleaning"}
    BY <1>1, <1>5, <1>6 DEF Export!Holding, Export!Working
  <2>2. QED BY <1>1, <1>5, <2>1, ExportStays
<1>8. /\ Noted(q, r \in exportLog') /\ Filed(q, r \in directory', r \in keptFiles')
      /\ q.pc \in Export!Holding <=> export[r].pc \in Export!Holding
  BY <1>1, <1>3, <1>5, <1>7 DEF Noted, Filed, Export!Holding, Export!Working
<1>9. exportFaults' \in 0..MaxExportFaults
  BY <1>3 DEF ExportInv, ExportNames
<1>10. QED BY <1>3, <1>4, <1>7, <1>8, <1>9, ExportMoves

\* cleanup and the catch block of prepare.
LEMMA ExportOver ==
    ASSUME ExportNames, ExportInv, NEW r \in Exports, NEW removed \in BOOLEAN,
           Export!CleanUp(r, removed) \/ Export!Catch(r, removed)
    PROVE  ExportInv'
<1>1. /\ export[r] \in ExportRecord /\ SoundExport(export[r]) /\ export[r].pc \in {"cleaning", "failed"}
      /\ Noted(export[r], r \in exportLog) /\ Filed(export[r], r \in directory, r \in keptFiles)
      /\ exportFaults \in 0..MaxExportFaults /\ directory \subseteq Exports /\ keptFiles \subseteq Exports
  BY DEF Export!CleanUp, Export!Catch, ExportInv
<1>2. PICK q : q = [export[r] EXCEPT !.pc = "over", !.released = TRUE]
  OBVIOUS
<1>3. /\ export' = [export EXCEPT ![r].pc = "over", ![r].released = TRUE]
      /\ Export!Release(r) /\ Export!RemoveDirectory(r, removed)
      /\ UNCHANGED <<exportTable, exportLog, exportChanges>>
  BY DEF Export!CleanUp, Export!Catch
<1>4. export' = [export EXCEPT ![r] = q]
  BY <1>1, <1>2, <1>3 DEF ExportInv
<1>5. /\ q \in ExportRecord /\ q.pc = "over"
      /\ q.section = export[r].section /\ q.cursor = export[r].cursor /\ q.document = export[r].document
      /\ q.snapshot = export[r].snapshot /\ q.contexts = export[r].contexts
  BY <1>1, <1>2 DEF ExportRecord, Export!Ended
<1>6. ~export[r].released /\ export[r].pc \in Export!Holding /\ q.pc \notin Export!Holding
  BY <1>1, <1>5 DEF SoundExport, Export!Holding, Export!Working
<1>7. activeExports' = activeExports - 1
  BY <1>3, <1>6 DEF Export!Release
<1>8. SoundExport(q) /\ (Complete(export[r]) => Complete(q))
  BY <1>1, <1>5, <1>6, ExportStays
<1>9. /\ directory' \subseteq directory \cup {r} /\ directory \ {r} \subseteq directory'
      /\ keptFiles' \subseteq keptFiles \cup {r} /\ keptFiles \subseteq keptFiles'
      /\ r \in directory' => r \in keptFiles'
      /\ exportFaults' \in 0..MaxExportFaults
  BY <1>1, <1>3 DEF Export!RemoveDirectory, ExportNames
<1>10. Noted(q, r \in exportLog') /\ Filed(q, r \in directory', r \in keptFiles')
  BY <1>1, <1>3, <1>5, <1>8, <1>9 DEF Noted, Filed
<1>11. exportLog' \subseteq exportLog \cup {r} /\ exportLog \ {r} \subseteq exportLog' /\ UNCHANGED <<exportTable, exportChanges>>
  BY <1>3
<1>12. QED BY <1>4, <1>6, <1>7, <1>8, <1>9, <1>10, <1>11, ExportMoves

LEMMA ExportFails == ASSUME ExportNames, ExportInv, NEW r \in Exports, Export!Fails(r) PROVE ExportInv'
<1>1. /\ export[r] \in ExportRecord /\ SoundExport(export[r]) /\ export[r].pc \in Export!Working
      /\ Noted(export[r], r \in exportLog) /\ Filed(export[r], r \in directory, r \in keptFiles)
  BY DEF Export!Fails, ExportInv
<1>2. PICK q : q = [export[r] EXCEPT !.pc = "failed"]
  OBVIOUS
<1>3. /\ export' = [export EXCEPT ![r] = q] /\ exportFaults' = exportFaults + 1 /\ exportFaults < MaxExportFaults
      /\ UNCHANGED <<exportTable, activeExports, directory, exportLog, keptFiles, exportChanges>>
  BY <1>2 DEF Export!Fails
<1>4. ~export[r].released
  BY <1>1 DEF SoundExport, Export!Working
<1>5. /\ q \in ExportRecord /\ q.pc = "failed" /\ ~q.released
      /\ q.section = export[r].section /\ q.cursor = export[r].cursor /\ q.document = export[r].document
      /\ q.snapshot = export[r].snapshot /\ q.contexts = export[r].contexts
  BY <1>1, <1>2, <1>4 DEF ExportRecord, Export!Holding
<1>6. SoundExport(q)
  BY <1>1, <1>5, ExportStays
<1>7. /\ Noted(q, r \in exportLog') /\ Filed(q, r \in directory', r \in keptFiles')
      /\ q.pc \in Export!Holding /\ export[r].pc \in Export!Holding
  BY <1>1, <1>3, <1>5 DEF Noted, Filed, Export!Holding, Export!Working
<1>8. exportFaults' \in 0..MaxExportFaults
  BY <1>3 DEF ExportInv, ExportNames
<1>9. QED BY <1>3, <1>6, <1>7, <1>8, ExportMoves

\* The process dies: no request holds a place of the next one.
LEMMA ExportCrash == ASSUME ExportNames, ExportInv, Export!Crash PROVE ExportInv'
<1>1. /\ exportFaults' = exportFaults + 1 /\ exportFaults < MaxExportFaults /\ activeExports' = 0
      /\ export' = [r \in Exports |-> IF export[r].pc \in Export!Holding THEN [export[r] EXCEPT !.pc = "dead"] ELSE export[r]]
      /\ keptFiles' = keptFiles \cup directory /\ UNCHANGED <<exportTable, directory, exportLog, exportChanges>>
  BY DEF Export!Crash
<1>2. ASSUME NEW r \in Exports
      PROVE  /\ export'[r] \in ExportRecord /\ SoundExport(export'[r]) /\ Noted(export'[r], r \in exportLog')
             /\ Filed(export'[r], r \in directory', r \in keptFiles') /\ export'[r].pc \notin Export!Holding
  <2>1. /\ export[r] \in ExportRecord /\ SoundExport(export[r]) /\ Noted(export[r], r \in exportLog)
        /\ Filed(export[r], r \in directory, r \in keptFiles)
    BY DEF ExportInv
  <2>2. PICK q : q = export'[r]
    OBVIOUS
  <2>3. CASE export[r].pc \in Export!Holding
    <3>1. q = [export[r] EXCEPT !.pc = "dead"]
      BY <1>1, <2>2, <2>3
    <3>2. /\ q \in ExportRecord /\ q.pc = "dead" /\ q.released = export[r].released /\ export[r].pc # "over"
          /\ q.section = export[r].section /\ q.cursor = export[r].cursor /\ q.document = export[r].document
          /\ q.snapshot = export[r].snapshot /\ q.contexts = export[r].contexts
      BY <2>1, <2>3, <3>1 DEF ExportRecord, Export!Ended, Export!Holding, Export!Working
    <3>3. q.pc \notin Export!Holding
      BY <3>2 DEF Export!Holding, Export!Working
    <3>4. SoundExport(q) /\ (Complete(export[r]) => Complete(q))
      <4>1. ~q.released
        BY <2>1, <3>2 DEF SoundExport
      <4>2. QED BY <2>1, <3>2, <4>1, ExportStays
    <3>5. Noted(q, r \in exportLog') /\ Filed(q, r \in directory', r \in keptFiles')
      BY <1>1, <2>1, <3>2, <3>4 DEF Noted, Filed
    <3>6. QED BY <2>2, <3>2, <3>3, <3>4, <3>5
  <2>4. CASE export[r].pc \notin Export!Holding
    <3>1. q = export[r]
      BY <1>1, <2>2, <2>4
    <3>2. Noted(q, r \in exportLog') /\ Filed(q, r \in directory', r \in keptFiles')
      BY <1>1, <2>1, <2>4, <3>1 DEF Noted, Filed
    <3>3. QED BY <2>1, <2>2, <2>4, <3>1, <3>2
  <2>5. QED BY <2>3, <2>4
<1>3. export' \in [Exports -> ExportRecord]
  <2>1. export' = [r \in Exports |-> export'[r]]
    BY <1>1
  <2>2. QED BY <1>2, <2>1
<1>4. Held' = {} /\ Cardinality({}) = 0
  BY <1>2, FS_EmptySet DEF Held
<1>5. /\ exportTable' \in [Export!Sections -> SUBSET RowKeys] /\ exportChanges' \in 0..MaxExportChanges
      /\ directory' \subseteq Exports /\ exportLog' \subseteq Exports /\ keptFiles' \subseteq Exports
      /\ exportFaults' \in 0..MaxExportFaults /\ activeExports' \in 0..MaxExports
  BY <1>1 DEF ExportInv, ExportNames
<1>6. QED BY <1>1, <1>2, <1>3, <1>4, <1>5 DEF ExportInv

\* A row comes or goes: the snapshots stay.
LEMMA ExportChange ==
    ASSUME ExportNames, ExportInv, NEW s \in Export!Sections, NEW k \in RowKeys, Export!Change(s, k)
    PROVE  ExportInv'
<1>1. /\ exportTable \in [Export!Sections -> SUBSET RowKeys] /\ exportChanges \in 0..MaxExportChanges
      /\ exportChanges < MaxExportChanges /\ exportChanges' = exportChanges + 1
      /\ exportTable' = [exportTable EXCEPT ![s] = IF k \in exportTable[s] THEN exportTable[s] \ {k} ELSE exportTable[s] \cup {k}]
      /\ UNCHANGED <<activeExports, export, directory, exportLog, keptFiles, exportFaults>>
  BY DEF Export!Change, ExportInv
<1>2. exportTable' \in [Export!Sections -> SUBSET RowKeys] /\ exportChanges' \in 0..MaxExportChanges
  BY <1>1 DEF ExportNames
<1>3. Held' = Held
  BY <1>1 DEF Held
<1>4. QED BY <1>1, <1>2, <1>3 DEF ExportInv

LEMMA ExportStep == ASSUME ExportNames, ExportInv, [Export!Next]_(Export!vars) PROVE ExportInv'
<1>1. CASE UNCHANGED Export!vars
  BY <1>1 DEF Export!vars, ExportInv, Held
<1>2. CASE Export!Crash
  BY <1>2, ExportCrash
<1>3. CASE \E s \in Export!Sections, k \in RowKeys : Export!Change(s, k)
  BY <1>3, ExportChange
<1>4. CASE \E r \in Exports : Export!Fails(r) \/ \E event \in {"close", "error"} : Export!StreamEvent(r, event)
  BY <1>4, ExportFails, StreamEnded
<1>5. CASE \E r \in Exports : Export!Step(r)
  <2>1. PICK r \in Exports : Export!Step(r)
    BY <1>5
  <2>2. CASE Export!AcquireSlot(r) \/ Export!MakeDirectory(r) \/ Export!OpenFile(r) \/ Export!BeginSnapshot(r)
    BY <2>2, SlotAcquired, DirectoryMade, FileOpened, SnapshotBegun
  <2>3. CASE Export!WritePage(r) \/ Export!CloseFile(r) \/ Export!RecordSelfExport(r)
    BY <2>3, PageWritten, FileClosed, SelfExportRecorded
  <2>4. CASE \E removed \in BOOLEAN : Export!CleanUp(r, removed) \/ Export!Catch(r, removed)
    BY <2>4, ExportOver
  <2>5. QED BY <2>1, <2>2, <2>3, <2>4 DEF Export!Step
<1>6. QED BY <1>1, <1>2, <1>3, <1>4, <1>5 DEF Export!Next

\* Whatever step of an export fails, the process among them: a response is one
\* whole instant of the database and in the access log, its place is given back
\* once, and its file is removed or known to be left.
THEOREM ExportSound == ASSUME ExportNames PROVE Export!Spec => []ExportConsistent
<1>1. Export!Init => ExportInv
  BY ExportStarts
<1>2. ExportInv /\ [Export!Next]_(Export!vars) => ExportInv'
  BY ExportStep
<1>3. ExportInv => ExportConsistent
  BY ExportHolds DEF ExportConsistent
<1>4. QED BY <1>1, <1>2, <1>3, PTL DEF Export!Spec

=============================================================================
