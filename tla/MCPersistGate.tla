---------------------------- MODULE MCPersistGate ----------------------------
(* Instances of PersistGate small enough for TLC. *)
EXTENDS PersistGate
=============================================================================
