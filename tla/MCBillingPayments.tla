------------------------- MODULE MCBillingPayments -------------------------
(* BillingPayments for TLC. *)
EXTENDS BillingPayments, TLC

Sym == Permutations(Charges) \cup Permutations(Checkouts) \cup Permutations(Workers)
=============================================================================
