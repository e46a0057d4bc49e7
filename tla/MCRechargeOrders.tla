-------------------------- MODULE MCRechargeOrders --------------------------
(* Small instances of RechargeOrders for TLC. *)
EXTENDS RechargeOrders, TLC

Symmetric == Permutations(Orders) \cup Permutations(Admins)
=============================================================================
