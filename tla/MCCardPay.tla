----------------------------- MODULE MCCardPay -----------------------------
(* CardPay on small instances. *)
EXTENDS CardPay, TLC

Symmetry == Permutations(Payments) \cup Permutations(Sweeps)
=============================================================================
