----------------------------- MODULE MCRaftLog -----------------------------
(* Instance of RaftLogApi small enough for TLC. *)
EXTENDS RaftLogApi
=============================================================================
