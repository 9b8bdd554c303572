------------------------------ MODULE Matching ------------------------------
(***************************************************************************)
(* A match from the swipes it comes from (SwipeMatch) to its purge         *)
(* (MatchLifecycle, where a match begins with its row of match_init).      *)
(***************************************************************************)
EXTENDS MatchLifecycle

CONSTANTS
    Swipers,     \* the accounts that swipe
    MaxBlocks, MaxFaults

VARIABLES account, swipe, match, block, swiping, blocking, hindered, made, calls, faults

swipeVars == <<account, swipe, match, block, swiping, blocking, hindered, made, calls, faults>>

Swipes == INSTANCE SwipeMatch WITH Users <- Swipers, req <- swiping

\* SwipeMatch: two likes that hold at once have their match, and one only.
SwipesConsistent == Swipes!SwipesConsistent

=============================================================================
