--------------------------- MODULE MCRaftRuntime ---------------------------
(* Instances of RaftRuntime small enough for TLC. *)
EXTENDS RaftRuntime
=============================================================================
