------------------------------ MODULE MCMatch -------------------------------
(***************************************************************************)
(* Small instances of MatchLifecycle and SwipeMatch for TLC.  ann is in    *)
(* both matches.  part says what runs: the consents of the two matches and *)
(* their quota, the conversation of one match, or the swipes of bob and    *)
(* cat; the variables of the others stay in their initial state.  The plan *)
(* of bob and cat is unlimited, ann's changes.  Beside a mark of read only *)
(* a message is sent.                                                      *)
(***************************************************************************)
EXTENDS Matching, TLC

CONSTANTS ann, bob, cat, m1, m2

VARIABLES part

allVars == <<part, vars, swipeVars>>

TwoMatches == m1 :> {ann, bob} @@ m2 :> {ann, cat}

\* bob and cat may be exchanged together with their matches.
Swap == bob :> cat @@ cat :> bob @@ m1 :> m2 @@ m2 :> m1
Symmetry == Permutations(Requests) \cup {Swap} \cup {p @@ Swap : p \in Permutations(Requests)}

InLife(A) ==
    /\ part # "swipes" /\ A /\ UNCHANGED <<part, swipeVars>>
    /\ \/ /\ part = "quota" /\ reported' = {} /\ \A u \in Users : limit'[u] = Unlimited <=> u # ann
          /\ \A r \in Requests : req'[r].op \in {"none", "continue"}
       \/ /\ part = "talk" /\ limit' = limit
          /\ \A r \in Requests : req'[r].op # "continue"
          /\ \A r, s \in Requests : req'[r].op = "read" => r = s \/ req'[s].op \in {"none", "send"}

InSwipes(A) == part = "swipes" /\ A /\ UNCHANGED <<part, vars>>

MCInit ==
    /\ part \in {"quota", "talk", "swipes"} /\ Init /\ Swipes!Init
    /\ limit \in {[u \in Users |-> IF u = ann THEN l ELSE Unlimited] : l \in IF part = "quota" THEN {0, 1} ELSE {1}}
    /\ Cardinality({m \in Matches : row[m] # NoRow}) = IF part = "talk" THEN 1 ELSE 2

MCNext == InLife(Next) \/ InSwipes(Swipes!Next)

MCSpec == MCInit /\ [][MCNext]_allVars

=============================================================================
