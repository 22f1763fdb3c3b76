------------------------------ MODULE TaskPool ------------------------------
(***************************************************************************)
(* What the scheduler promises, without queue, counters, locks or states   *)
(* (src/include/scheduler.h): a task submitted once runs to its end once,  *)
(* on one thread at a time, its fiber may give the thread up and waits     *)
(* again, and stop() returns only when nothing waits and nothing runs.     *)
(***************************************************************************)
CONSTANTS Tasks, Threads, None
VARIABLES waiting, running, ended, stopped

vars == <<waiting, running, ended, stopped>>

Init ==
  /\ waiting = {}
  /\ running = [p \in Threads |-> None]
  /\ ended = {}
  /\ stopped = FALSE

Submit(t) ==
  /\ ~stopped /\ t \notin waiting \cup ended
  /\ \A p \in Threads : running[p] # t
  /\ waiting' = waiting \cup {t}
  /\ UNCHANGED <<running, ended, stopped>>

Begin(p, t) ==
  /\ running[p] = None /\ t \in waiting
  /\ running' = [running EXCEPT ![p] = t]
  /\ waiting' = waiting \ {t}
  /\ UNCHANGED <<ended, stopped>>

Yield(p, t) ==
  /\ running[p] = t
  /\ running' = [running EXCEPT ![p] = None]
  /\ waiting' = waiting \cup {t}
  /\ UNCHANGED <<ended, stopped>>

End(p, t) ==
  /\ running[p] = t
  /\ running' = [running EXCEPT ![p] = None]
  /\ ended' = ended \cup {t}
  /\ UNCHANGED <<waiting, stopped>>

Stop ==
  /\ waiting = {} /\ \A p \in Threads : running[p] = None
  /\ stopped' = TRUE
  /\ UNCHANGED <<waiting, running, ended>>

Next ==
  \/ Stop
  \/ \E t \in Tasks :
       Submit(t) \/ \E p \in Threads : Begin(p, t) \/ Yield(p, t) \/ End(p, t)

Spec == Init /\ [][Next]_vars
=============================================================================
