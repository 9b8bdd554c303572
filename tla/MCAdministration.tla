------------------------- MODULE MCAdministration --------------------------
(***************************************************************************)
(* A small instance of Administration (AdminAuth, ContentModeration and    *)
(* KeysetPaging) for TLC.  part says which one runs, the others stay in an *)
(* initial state.  AdminAuth is checked twice: two enrolments with two     *)
(* tokens and two challenges, and passkeys that count, with one token and  *)
(* three challenges.  The identifiers of AdminAuth serve as the cases, the *)
(* administrators and the questions of ContentModeration too, so that one  *)
(* set of permutations does for both.  The lists have three rows on four   *)
(* ticks of two milliseconds, pages of one row, and two changes of rows    *)
(* during a walk.                                                          *)
(***************************************************************************)
EXTENDS Administration, TLC

CONSTANTS t2

VARIABLE part

allVars == <<part, vars, contentVars, pagingVars>>

Symmetry == Permutations(Challenges) \cup Permutations(Requests) \cup Permutations(Sessions)

InAuth(A) ==
    /\ part \in {"enrolment", "passkeys"} /\ A /\ UNCHANGED <<part, contentVars, pagingVars>>
    /\ \/ /\ part = "enrolment" /\ \A c \in Creds : signed'[c] <= 1
          /\ Cardinality({h \in Challenges : challenge'[h] # NoChallenge}) <= 2
       \/ part = "passkeys" /\ token'[t2] = "none"

InContent(A) == part = "content" /\ A /\ UNCHANGED <<part, vars, pagingVars>>

InPaging(A) == part = "paging" /\ A /\ UNCHANGED <<part, vars, contentVars>>

MCInit ==
    /\ part \in {"enrolment", "passkeys", "content", "paging"}
    /\ Init /\ (part \in {"content", "paging"} => signed = [c \in Creds |-> 0])
    /\ Content!Init /\ (part # "content" => question = {})
    /\ IF part = "paging" THEN Paging!Init
       ELSE Paging!Init /\ list = Paging!listUsers /\ \A i \in Ids : rows[i] = Paging!Gone

MCNext == InAuth(Next) \/ InContent(Content!Next) \/ InPaging(Paging!Next)

MCSpec == MCInit /\ [][MCNext]_allVars

=============================================================================
