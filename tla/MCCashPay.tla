----------------------------- MODULE MCCashPay -----------------------------
(* CashPay on small instances. *)
EXTENDS CashPay

CONSTANT k1

\* Every payment is of one kiosk.
OneKiosk == [p \in Txs |-> k1]
=============================================================================
