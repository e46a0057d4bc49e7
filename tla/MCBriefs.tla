----------------------------- MODULE MCBriefs -------------------------------
(* Briefs with symmetric requests. *)
EXTENDS Briefs, TLC
RequestSymmetry == Permutations(Requests)
=============================================================================
