---------------------------- MODULE MCMediaJobs ----------------------------
(* Small instances of MediaJobs for TLC. *)
EXTENDS MediaJobs
=============================================================================
