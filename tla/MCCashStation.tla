--------------------------- MODULE MCCashStation ---------------------------
(* CashStation on small instances. *)
EXTENDS CashStation, TLC

Symmetry == Permutations(Clients) \cup Permutations(Txs)
=============================================================================
