----------------------------- MODULE MCBilling -----------------------------
(* Small instances of Billing for TLC.                                     *)
EXTENDS Billing, TLC

CONSTANTS c1, c2, h1, h2

TwoCharges      == 1 .. 2
BillingSymmetry == Permutations({c1, c2}) \cup Permutations({h1, h2})
=============================================================================
