------------------------ MODULE MCServerApplication ------------------------
(* Instances of ServerApplication small enough for TLC. *)
EXTENDS ServerApplication
=============================================================================
