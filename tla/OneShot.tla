------------------------------ MODULE OneShot ------------------------------
(***************************************************************************)
(* What a fiber that waits for an event may rely on, without descriptors,  *)
(* epoll or locks: a registration (src/src/iomanager.cc, addEvent) is      *)
(* answered by one notification or is deleted, and only a notified fiber   *)
(* runs on.                                                                *)
(***************************************************************************)
CONSTANT Fibers
VARIABLE phase

Init == phase = [f \in Fibers |-> "idle"]

Register(f) ==
  /\ phase[f] = "idle"
  /\ phase' = [phase EXCEPT ![f] = "registered"]

(* One step may notify several fibers: cancelAll, or one epoll event. *)
Notify ==
  \E S \in SUBSET {f \in Fibers : phase[f] = "registered"} :
    phase' = [f \in Fibers |-> IF f \in S THEN "notified" ELSE phase[f]]

Delete(f) ==
  /\ phase[f] = "registered"
  /\ phase' = [phase EXCEPT ![f] = "dropped"]

Proceed(f) ==
  /\ phase[f] = "notified"
  /\ phase' = [phase EXCEPT ![f] = "idle"]

Next == Notify \/ \E f \in Fibers : Register(f) \/ Delete(f) \/ Proceed(f)

Spec == Init /\ [][Next]_phase
=============================================================================
