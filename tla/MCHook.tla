------------------------------- MODULE MCHook -------------------------------
(* Hook on small sets of fibers and descriptor numbers, for TLC. *)
EXTENDS Hook, TLC

CONSTANTS f1, f2

MCFibers == {f1, f2}
MCMaxCalls == f1 :> 2 @@ f2 :> 1
=============================================================================
