----------------------------- MODULE MCBilling -----------------------------
(***************************************************************************)
(* Small instances of the two halves of billing for TLC: BillingProjection *)
(* and CheckoutCustomer.  They do not interact here; part says which one   *)
(* runs, and the other one stays in its initial state.  The customers are  *)
(* checked twice: two attempts of one request at a time, and two requests  *)
(* at a time with one attempt.                                             *)
(***************************************************************************)
EXTENDS Billing, TLC

CONSTANTS k1, k2, r1, r2

VARIABLES part

allVars == <<part, vars, customerVars>>

InProjection(A) == part = "projection" /\ A /\ UNCHANGED <<part, customerVars>>

InCustomers(A) ==
    /\ part # "projection" /\ A /\ UNCHANGED <<part, vars>>
    /\ \/ part = "two attempts" /\ req'[r2] = req[r2] /\ faults' <= 1
       \/ part = "two requests" /\ attempt'[k2] = attempt[k2]

MCInit == part \in {"projection", "two attempts", "two requests"} /\ Init /\ Customers!Init

MCNext == InProjection(Next) \/ InCustomers(Customers!Next)

\* scheduleDue and the worker go on, and a reconciliation succeeds now and
\* then; no webhook needs to arrive.  A checkout request ends, 23 hours pass,
\* and the watchdog is scheduled and run.
MCSpec ==
    /\ MCInit /\ [][MCNext]_allVars
    /\ WF_allVars(InProjection(BeginReconciliation \/ ReadStripe))
    /\ SF_allVars(InProjection(ApplySubscription))
    /\ WF_allVars(InCustomers(Customers!Proceed(r1))) /\ WF_allVars(InCustomers(Customers!Proceed(r2)))
    /\ \A k \in {k1, k2} : WF_allVars(InCustomers(Customers!TurnsLate(k) \/ Customers!ScheduleDue(k)))
    /\ WF_allVars(InCustomers(Customers!Watchdog))

\* CheckoutCustomer: a creation whose answer was lost is resolved in the end.
CreationResolved == Customers!CreationResolved

=============================================================================
