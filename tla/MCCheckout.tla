----------------------------- MODULE MCCheckout -----------------------------
(* Small instances of Checkout for TLC. *)
EXTENDS Checkout, TLC

Symmetry == Permutations(Handler) \cup Permutations(Paid)
=============================================================================
