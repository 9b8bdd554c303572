-------------------------- MODULE ErasureContract --------------------------
(***************************************************************************)
(* What the erasure of an account promises, without its machinery: the     *)
(* account is frozen once, for good; what it still holds then only         *)
(* disappears, except for what an operation that was already under way     *)
(* adds; and it is declared erased once, when nothing is left.             *)
(***************************************************************************)
CONSTANT Items  \* what an account may own: customers, photos, swipes

VARIABLES
    phase,      \* "active", "frozen" or "erased"
    owned,      \* the items that exist
    pending     \* the items whose creation is under way

vars == <<phase, owned, pending>>

Init == phase = "active" /\ owned = {} /\ pending = {}

\* An operation of the owner begins, which needs an active account.
Begin(i) ==
    /\ phase = "active" /\ i \notin owned \cup pending
    /\ pending' = pending \cup {i}
    /\ UNCHANGED <<phase, owned>>

\* It ends, with the item or without it; i was under way before any freeze.
End(i) ==
    /\ i \in pending
    /\ pending' = pending \ {i}
    /\ owned' \in {owned, owned \cup {i}}
    /\ phase # "erased"
    /\ UNCHANGED phase

Freeze == phase = "active" /\ phase' = "frozen" /\ UNCHANGED <<owned, pending>>

Remove ==
    /\ phase = "frozen" /\ owned' \in SUBSET owned /\ UNCHANGED <<phase, pending>>

Erase ==
    /\ phase = "frozen" /\ owned = {} /\ pending = {}
    /\ phase' = "erased" /\ UNCHANGED <<owned, pending>>

Next == Freeze \/ Remove \/ Erase \/ \E i \in Items : Begin(i) \/ End(i)

Spec == Init /\ [][Next]_vars

=============================================================================
