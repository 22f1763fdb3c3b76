------------------------------ MODULE MCFiber ------------------------------
(* Fiber with the owner, a worker, the root fiber and two others, for TLC. *)
EXTENDS Fiber
=============================================================================
