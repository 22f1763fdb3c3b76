----------------------------- MODULE MCFdTable -----------------------------
(* FdTable with the sizes of the code divided by 16, for TLC. *)
EXTENDS FdTable
=============================================================================
