-------------------------- MODULE MCCreditsService --------------------------
(* Small instances of CreditsService for TLC. *)
EXTENDS CreditsService, TLC

Symmetric == Permutations(Procs)
=============================================================================
