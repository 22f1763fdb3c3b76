------------------------------- MODULE Alarm -------------------------------
(***************************************************************************)
(* What a timer promises to those who set it (src/src/timer.cc), without   *)
(* the ordered set, its keys, the locks or the sleep of the idle loop: no  *)
(* alarm rings before its time, a one-shot alarm rings once at most, a     *)
(* cancelled one rings no more, a recurring one rings again no sooner than *)
(* one period after the time it was due.                                   *)
(***************************************************************************)
EXTENDS Integers

CONSTANTS
  Timers,
  Idlers,   \* threads that collect the alarms that ring
  Delays,
  Boot      \* the first reading of the clock

VARIABLES
  clock,
  state,    \* of each timer: "new", "set" or "over"
  at,       \* when it is due
  period,
  recurring,
  handed    \* alarms each thread has been handed and not dealt with yet

vars == <<clock, state, at, period, recurring, handed>>

Init ==
  /\ clock = Boot
  /\ state = [t \in Timers |-> "new"]
  /\ at = [t \in Timers |-> 0] /\ period = [t \in Timers |-> 0]
  /\ recurring = [t \in Timers |-> FALSE]
  /\ handed = [i \in Idlers |-> {}]

Set(t, d, again) ==
  /\ state[t] = "new"
  /\ state' = [state EXCEPT ![t] = "set"]
  /\ at' = [at EXCEPT ![t] = clock + d]
  /\ period' = [period EXCEPT ![t] = d]
  /\ recurring' = [recurring EXCEPT ![t] = again]
  /\ UNCHANGED <<clock, handed>>

Cancel(t) ==
  /\ state[t] = "set"
  /\ state' = [state EXCEPT ![t] = "over"]
  /\ UNCHANGED <<clock, at, period, recurring, handed>>

(* A whole period from now. *)
Refresh(t) ==
  /\ state[t] = "set"
  /\ at' = [at EXCEPT ![t] = clock + period[t]]
  /\ UNCHANGED <<clock, state, period, recurring, handed>>

(* Another period, from now or from when the present one began. *)
Reset(t, d, from_now) ==
  /\ state[t] = "set"
  /\ at' = [at EXCEPT ![t] = (IF from_now THEN clock ELSE @ - period[t]) + d]
  /\ period' = [period EXCEPT ![t] = d]
  /\ UNCHANGED <<clock, state, recurring, handed>>

(* Alarms that were due at some instant, the present one or one before.    *)
Ring(i, S) ==
  /\ handed[i] = {}
  /\ \A t \in S : state[t] = "set"
  /\ \E now \in Boot .. clock :
       /\ \A t \in S : at[t] <= now
       /\ at' = [t \in Timers |-> IF t \in S /\ recurring[t]
                                    THEN now + period[t] ELSE at[t]]
  /\ state' = [t \in Timers |-> IF t \in S /\ ~recurring[t]
                                  THEN "over" ELSE state[t]]
  /\ handed' = [handed EXCEPT ![i] = S]
  /\ UNCHANGED <<clock, period, recurring>>

DealtWith(i) ==
  /\ handed' = [handed EXCEPT ![i] = {}]
  /\ UNCHANGED <<clock, state, at, period, recurring>>

Tick == clock' = clock + 1 /\ UNCHANGED <<state, at, period, recurring, handed>>

Next ==
  \/ \E t \in Timers :
       \/ Cancel(t) \/ Refresh(t)
       \/ \E d \in Delays, b \in BOOLEAN : Set(t, d, b) \/ Reset(t, d, b)
  \/ \E i \in Idlers : DealtWith(i) \/ \E S \in SUBSET Timers : Ring(i, S)
  \/ Tick

Spec == Init /\ [][Next]_vars
=============================================================================
