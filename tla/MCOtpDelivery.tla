---------------------------- MODULE MCOtpDelivery ----------------------------
(* Small instances of OtpDelivery for TLC.                                 *)
EXTENDS OtpDelivery, TLC

Symmetry == Permutations(Phones) \cup Permutations(Keys) \cup Permutations(Codes)
            \cup Permutations(Messages) \cup Permutations(Transactions)

=============================================================================
