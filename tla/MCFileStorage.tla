----------------------------- MODULE MCFileStorage ---------------------------
(* Instances of FileStorage small enough for TLC. *)
EXTENDS FileStorage
=============================================================================
