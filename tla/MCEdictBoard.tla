---------------------------- MODULE MCEdictBoard ----------------------------
(* The edict board with a few rounds; its actors all differ. *)
EXTENDS EdictBoard
=============================================================================
