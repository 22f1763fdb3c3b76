---------------------------- MODULE MCFdEvents -----------------------------
(* Instances of FdEvents for TLC. *)
EXTENDS FdEvents
=============================================================================
