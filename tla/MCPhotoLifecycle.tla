-------------------------- MODULE MCPhotoLifecycle --------------------------
(* Small instances of PhotoLifecycle for TLC.                              *)
EXTENDS PhotoLifecycle, TLC

Symmetry == Permutations(Photos) \cup Permutations(Handlers) \cup Permutations(Keys)

=============================================================================
