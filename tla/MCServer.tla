------------------------------ MODULE MCServer ------------------------------
(* Server on small sets of numbers of descriptors and calls, for TLC. *)
EXTENDS Server
=============================================================================
