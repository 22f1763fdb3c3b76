---------------------------- MODULE MCIOManager ----------------------------
(* Instances of IOManager for TLC. *)
EXTENDS IOManager
=============================================================================
