---------------------------- MODULE MCSwipeMatch ----------------------------
(* Small instances of SwipeMatch for TLC.                                  *)
EXTENDS SwipeMatch, TLC

Symmetry == Permutations(Users) \cup Permutations(Requests)

=============================================================================
