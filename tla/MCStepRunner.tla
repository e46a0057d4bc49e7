---------------------------- MODULE MCStepRunner ----------------------------
(* The step runner; nothing in it is symmetric. *)
EXTENDS StepRunner
=============================================================================
