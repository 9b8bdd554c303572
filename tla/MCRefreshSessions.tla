-------------------------- MODULE MCRefreshSessions --------------------------
(***************************************************************************)
(* A small instance of RefreshSessions for TLC: one account with three     *)
(* tokens, or two accounts with two.                                       *)
(***************************************************************************)
EXTENDS RefreshSessions, FiniteSets, TLC

Symmetry == Permutations(Users) \cup Permutations(Families)
            \cup Permutations(Tokens) \cup Permutations(Clients)

UsedTokens == {t \in Tokens : token[t].status # "none"}

UsedAccounts ==
    {u \in Users : \/ account[u] # "active" \/ \E f \in Families : family[f].user = u
                   \/ \E d \in Devices : device[d].user = u \/ \E c \in Clients : request[c].user = u}

Few == Cardinality(UsedTokens) <= 2 \/ Cardinality(UsedAccounts) <= 1

MCSpec == Init /\ [][Next /\ Few']_vars

=============================================================================
