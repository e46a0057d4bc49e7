---------------------------- MODULE MCSpending ----------------------------
(* Small instances of Spending for TLC. *)
EXTENDS Spending
=============================================================================
