---------------------------- MODULE MCDelivery ----------------------------
(* Delivery on small instances. *)
EXTENDS Delivery
=============================================================================
