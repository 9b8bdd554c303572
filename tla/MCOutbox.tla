------------------------------ MODULE MCOutbox ------------------------------
(* Small instances of Outbox for TLC.                                      *)
EXTENDS Outbox, TLC

CONSTANTS photo, push, billing, erase, w1, w2

\* The type of each event, by the model value's name.
MCEventType ==
    [e \in Events |-> CASE e = photo   -> "photo.delete"
                        [] e = push    -> "notification.push"
                        [] e = billing -> "billing.reconcile"
                        [] e = erase   -> "account.erase"]

WorkerSymmetry == Permutations(Workers)

=============================================================================
