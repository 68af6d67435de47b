------------------------------ MODULE MCBilling ------------------------------
(* Billing with one workspace, for the run in which Stripe's events overtake *)
(* each other. *)
EXTENDS Billing, TLC

CONSTANTS k1, w1

MCBuyer == k1 :> w1
=============================================================================
