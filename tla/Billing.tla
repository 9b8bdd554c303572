------------------------------ MODULE Billing ------------------------------
(***************************************************************************)
(* The two halves of billing: the subscription projected from Stripe       *)
(* (BillingProjection), and the customer a checkout creates there          *)
(* (CheckoutCustomer).  They write different tables; what they share is    *)
(* None and whether an operator may delete a customer.                     *)
(***************************************************************************)
EXTENDS BillingProjection

CONSTANTS Keys, Requests, BatchSize, MaxFaults

VARIABLES attempt, mapping, stripe, replay, event, req, worker, erasure, owner, faults

customerVars == <<attempt, mapping, stripe, replay, event, req, worker, erasure, owner, faults>>

\* The account is that of the checkouts.
Customers == INSTANCE CheckoutCustomer WITH account <- owner

\* CheckoutCustomer: every customer at Stripe is attached or looked for, one for
\* each attempt, and none is left after the Stripe step of the erasure.
CustomersConsistent == Customers!CustomersConsistent

=============================================================================
