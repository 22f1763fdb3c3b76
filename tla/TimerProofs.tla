---------------------------- MODULE TimerProofs ----------------------------
(***************************************************************************)
(* Theorems about Timer, for every number of timers, clients and idle      *)
(* threads, every set of delays and every bound of the clock.              *)
(***************************************************************************)
EXTENDS Timer, TLAPS

(***************************************************************************)
(* Type correctness.  A step moves the flags, the timers or the threads:   *)
(* one lemma for each part.                                                *)
(***************************************************************************)
LEMMA FlagsNext == TypeFlags /\ [Next]_vars => TypeFlags'
<1> SUFFICES ASSUME TypeFlags, [Next]_vars PROVE TypeFlags'
  OBVIOUS
<1> USE DEF TypeFlags, timerVars, clientVars, idlerVars
<1>1. ASSUME NEW c \in Clients, ClientStep(c) PROVE TypeFlags'
  <2>1. CASE \E t \in Timers, ms \in Delays, b \in BOOLEAN : Reset(c, t, ms, b)
    BY <2>1 DEF Reset, InsertLocked
  <2>2. CASE Insert(c)
    BY <2>2 DEF Insert, InsertLocked
  <2>3. CASE Notify(c)
    BY <2>3 DEF Notify
  <2>4. CASE UNCHANGED <<m_tickled, piped>>
    BY <2>4
  <2> QED
    BY <1>1, <2>1, <2>2, <2>3, <2>4 DEF ClientStep, Construct, Cancel, Refresh
<1>2. ASSUME NEW i \in Idlers, IdlerStep(i) PROVE TypeFlags'
  BY <1>2 DEF IdlerStep, GetNextTimer, Interrupted, WakeUp, ListExpiredCb, Drain
<1> QED
  BY <1>1, <1>2 DEF Next, vars, Tick

(* uint64_t is closed under the arithmetic of timer.cc. *)
LEMMA Closed ==
  ASSUME NEW a \in Uint64, NEW b \in Uint64
  PROVE  Plus(a, b) \in Uint64 /\ Minus(a, b) \in Uint64
BY NumbersAssumption DEF Uint64, Plus, Minus

LEMMA TimersNext ==
  ASSUME TypeTimers, TypeThreads, [Next]_vars
  PROVE  TypeTimers'
<1> USE DEF TypeTimers, timerVars, clientVars, idlerVars
<1>1. ASSUME NEW c \in Clients, NEW t \in Timers, NEW ms \in Delays,
             NEW r \in BOOLEAN, Construct(c, t, ms, r)
      PROVE  TypeTimers'
  <2>1. Plus(clock, ms) \in Uint64 /\ ms \in Uint64
    BY Closed, DelaysAssumption DEF Uint64
  <2> QED
    BY <1>1, <2>1 DEF Construct
<1>2. ASSUME NEW c \in Clients, Insert(c) PROVE TypeTimers'
  BY <1>2 DEF Insert, InsertLocked, Key, TypeThreads
<1>3. ASSUME NEW c \in Clients, NEW t \in Timers, Cancel(c, t)
      PROVE  TypeTimers'
  BY <1>3 DEF Cancel, Without
<1>4. ASSUME NEW c \in Clients, NEW t \in Timers, Refresh(c, t)
      PROVE  TypeTimers'
  <2>1. Plus(clock, m_ms[t]) \in Uint64
    BY Closed
  <2> QED
    BY <1>4, <2>1 DEF Refresh, Without
<1>5. ASSUME NEW c \in Clients, NEW t \in Timers, NEW ms \in Delays,
             NEW b \in BOOLEAN, Reset(c, t, ms, b)
      PROVE  TypeTimers'
  <2>1. ms \in Uint64 /\ Start(t, ms, b) \in Uint64
    BY Closed, DelaysAssumption DEF Start, Uint64
  <2>2. Plus(Start(t, ms, b), ms) \in Uint64
    BY <2>1, Closed
  <2> QED
    BY <1>5, <2>1, <2>2 DEF Reset, InsertLocked, Without
<1>6. ASSUME NEW i \in Idlers, ListExpiredCb(i) PROVE TypeTimers'
  <2>1. \A t \in Timers : Plus(now[i], m_ms[t]) \in Uint64
    BY Closed DEF TypeThreads
  <2>2. now[i] \in Uint64 /\ Expired(now[i]) \subseteq m_timers
    BY DEF TypeThreads, Expired
  <2> QED
    BY <1>6, <2>1, <2>2 DEF ListExpiredCb, KeepsCallback
<1>7. CASE UNCHANGED <<timerVars, m_previouseTime>> /\ clock' \in Uint64
  BY <1>7
<1>8. CASE Tick
  BY <1>8, NumbersAssumption DEF Tick, Uint64
<1> QED
  BY <1>1, <1>2, <1>3, <1>4, <1>5, <1>6, <1>7, <1>8
     DEF Next, ClientStep, IdlerStep, vars, Notify, GetNextTimer, Interrupted,
         WakeUp, Drain

LEMMA WaitType ==
  ASSUME NEW n \in Int, clock \in Uint64
  PROVE  EpollTimeout(n) \in Int /\ ToUint64(n) \in Int /\ EndOf(n) \in Int
<1>1. ToInt(n) \in Int
  BY NumbersAssumption DEF ToInt
<1> QED
  BY <1>1, NumbersAssumption DEF EpollTimeout, EndOf, Never, ToUint64, Uint64

LEMMA ThreadsNext == TypeTimers /\ TypeThreads /\ [Next]_vars => TypeThreads'
<1> SUFFICES ASSUME TypeTimers, TypeThreads, [Next]_vars PROVE TypeThreads'
  OBVIOUS
<1> USE NumbersAssumption
        DEF TypeTimers, TypeThreads, timerVars, clientVars, waitVars, idlerVars
<1>1. ASSUME NEW c \in Clients, ClientStep(c) PROVE TypeThreads'
  <2>1. UNCHANGED idlerVars
    BY <1>1 DEF ClientStep, Construct, Insert, Notify, Cancel, Refresh, Reset
  <2>2. carg' \in [Clients -> Nat]
    <3>1. \/ UNCHANGED carg
          \/ \E n \in Nat : carg' = [carg EXCEPT ![c] = n]
      BY <1>1, TimersAssumption
         DEF ClientStep, Construct, Insert, Notify, Cancel, Refresh, Reset
    <3> QED
      BY <3>1
  <2>4. \A d \in Clients : cpc'[d] = "insert" => carg'[d] \in Timers
    <3>1. \/ UNCHANGED <<cpc, carg>>
          \/ \E x \in {"free", "notify"}, n \in Nat :
               /\ cpc' = [cpc EXCEPT ![c] = x]
               /\ carg' = [carg EXCEPT ![c] = n] \/ UNCHANGED carg
          \/ \E t \in Timers : /\ cpc' = [cpc EXCEPT ![c] = "insert"]
                               /\ carg' = [carg EXCEPT ![c] = t]
      BY ZenonT(60), <1>1
         DEF ClientStep, Construct, Insert, InsertLocked, Notify, Cancel,
             Refresh, Reset
    <3> QED
      BY <3>1
  <2>3. cpc' \in [Clients -> {"free", "insert", "notify"}]
    <3>1. \/ UNCHANGED cpc
          \/ \E x \in {"free", "insert", "notify"} : cpc' = [cpc EXCEPT ![c] = x]
      BY ZenonT(60), <1>1
         DEF ClientStep, Construct, Insert, InsertLocked, Notify, Cancel,
             Refresh, Reset
    <3> QED
      BY <3>1
  <2> QED
    BY <2>1, <2>2, <2>3, <2>4
<1>w. ASSUME NEW i \in Idlers, NEW n \in Int, EpollWait(i, EpollTimeout(n))
      PROVE  timeout' \in [Idlers -> Int] /\ until' \in [Idlers -> Int]
  <2>1. EpollTimeout(n) \in Int /\ EndOf(EpollTimeout(n)) \in Int
    BY WaitType
  <2> QED
    BY <1>w, <2>1 DEF EpollWait
<1>2. ASSUME NEW i \in Idlers, GetNextTimer(i) PROVE TypeThreads'
  <2>1. Wrap - 1 \in Int /\ \A e \in m_timers : NextTimer(e) \in Int
    BY DEF NextTimer, Uint64
  <2>2. timeout' \in [Idlers -> Int] /\ until' \in [Idlers -> Int]
    <3>1. CASE EpollWait(i, EpollTimeout(Wrap - 1))
      BY <2>1, <3>1, <1>w
    <3>2. ASSUME NEW e \in m_timers, EpollWait(i, EpollTimeout(NextTimer(e)))
          PROVE  timeout' \in [Idlers -> Int] /\ until' \in [Idlers -> Int]
      BY <2>1, <3>2, <1>w
    <3> QED
      BY <1>2, <3>1, <3>2 DEF GetNextTimer
  <2>3. /\ ipc' \in [Idlers -> {"run", "wait", "list"}]
        /\ overslept' \in [Idlers -> Int]
        /\ cbs' \in [Idlers -> SUBSET Timers]
    BY <1>2 DEF GetNextTimer
  <2>4. UNCHANGED <<cpc, carg, now, drains>>
    BY <1>2 DEF GetNextTimer
  <2> QED
    BY <2>2, <2>3, <2>4
<1>6. ASSUME NEW i \in Idlers, Interrupted(i) PROVE TypeThreads'
  <2>1. timeout[i] \in Int /\ ToUint64(timeout[i]) \in Int
    BY WaitType
  <2>2. timeout' \in [Idlers -> Int] /\ until' \in [Idlers -> Int]
    BY <1>6, <1>w, <2>1 DEF Interrupted
  <2>3. EndOf(EpollTimeout(ToUint64(timeout[i]))) \in Int
    BY <2>1, WaitType
  <2>4. overslept' \in [Idlers -> Int]
    BY <1>6, <2>3 DEF Interrupted
  <2> QED
    BY <1>6, <2>2, <2>4 DEF Interrupted
<1>3. ASSUME NEW i \in Idlers, WakeUp(i) PROVE TypeThreads'
  <2>1. /\ ipc' \in [Idlers -> {"run", "wait", "list"}]
        /\ now' \in [Idlers -> Uint64]
        /\ timeout' \in [Idlers -> Int] /\ until' \in [Idlers -> Int]
        /\ overslept' \in [Idlers -> Int]
    BY <1>3 DEF WakeUp
  <2>2. drains' \subseteq Idlers
    BY <1>3 DEF WakeUp
  <2> QED
    BY <1>3, <2>1, <2>2 DEF WakeUp
<1>4. ASSUME NEW i \in Idlers, ListExpiredCb(i) PROVE TypeThreads'
  <2>1. {e[2] : e \in Expired(now[i])} \subseteq Timers
    BY DEF Expired
  <2>2. cbs' \in [Idlers -> SUBSET Timers]
    BY <1>4, <2>1 DEF ListExpiredCb
  <2>3. /\ ipc' \in [Idlers -> {"run", "wait", "list"}]
        /\ now' \in [Idlers -> Uint64]
    BY <1>4 DEF ListExpiredCb, Uint64
  <2>4. UNCHANGED <<cpc, carg, timeout, until, overslept, drains>>
    BY <1>4 DEF ListExpiredCb
  <2> QED
    BY <2>2, <2>3, <2>4
<1>5. ASSUME NEW i \in Idlers, Drain(i) PROVE TypeThreads'
  BY <1>5 DEF Drain
<1> QED
  BY <1>1, <1>2, <1>3, <1>4, <1>5, <1>6 DEF Next, IdlerStep, vars, Tick

LEMMA TypeInit == Init => TypeOK
<1> SUFFICES ASSUME Init PROVE TypeOK
  OBVIOUS
<1> USE NumbersAssumption DEF Init, Uint64
<1>1. TypeFlags
  BY DEF TypeFlags
<1>2. TypeTimers
  BY DEF TypeTimers
<1>3. TypeThreads
  BY DEF TypeThreads
<1> QED
  BY <1>1, <1>2, <1>3 DEF TypeOK

LEMMA TypeNext == TypeOK /\ [Next]_vars => TypeOK'
BY FlagsNext, TimersNext, ThreadsNext DEF TypeOK

LEMMA TypeAlways == Spec => []TypeOK
BY TypeInit, TypeNext, PTL DEF Spec

(***************************************************************************)
(* Deadlines.  The sums of timer.cc are true sums if no delay reaches      *)
(* beyond 2^64 (NoWrap): then no deadline is more than its interval ahead  *)
(* and none before it, given that the clock readings of idle threads lie   *)
(* in the past (Readings).                                                 *)
(***************************************************************************)
NoWrap == \A d \in Delays : MaxTime + d < Wrap

Readings == clock <= MaxTime /\ \A i \in Idlers : now[i] <= clock
SmallIntervals == \A t \in Timers : MaxTime + m_ms[t] < Wrap
Fits == Readings /\ SmallIntervals /\ DeadlinesFitIntervals

LEMMA TrueSum ==
  ASSUME NEW a \in Nat, NEW b \in Nat, a <= MaxTime, MaxTime + b < Wrap
  PROVE  Plus(a, b) = a + b
BY NumbersAssumption DEF Plus

(* A reset counts from the past. *)
LEMMA ResetStart ==
  ASSUME TypeTimers, DeadlinesFitIntervals,
         NEW t \in Timers, NEW ms \in Nat, NEW b \in BOOLEAN
  PROVE  Start(t, ms, b) \in Nat /\ Start(t, ms, b) <= clock
<1>1. CASE b
  BY <1>1 DEF Start, TypeTimers, Uint64
<1>2. CASE ~b
  BY <1>2, NumbersAssumption
     DEF Start, Minus, TypeTimers, DeadlinesFitIntervals, Uint64
<1> QED
  BY <1>1, <1>2

LEMMA FitsNext ==
  ASSUME NoWrap, TypeOK, Fits, [Next]_vars
  PROVE  Fits'
<1>t. TypeTimers /\ TypeThreads
  BY DEF TypeOK
<1> USE <1>t, NumbersAssumption, DelaysAssumption
        DEF TypeTimers, TypeThreads, timerVars, clientVars, idlerVars,
            Fits, DeadlinesFitIntervals, SmallIntervals, Readings, Uint64
<1>1. ASSUME NEW c \in Clients, NEW t \in Timers, NEW ms \in Delays,
             NEW r \in BOOLEAN, Construct(c, t, ms, r)
      PROVE  Fits'
  <2>1. Plus(clock, ms) = clock + ms /\ MaxTime + ms < Wrap
    BY TrueSum DEF NoWrap
  <2> QED
    BY <1>1, <2>1 DEF Construct
<1>2. ASSUME NEW c \in Clients, NEW t \in Timers, Refresh(c, t)
      PROVE  Fits'
  <2>1. Plus(clock, m_ms[t]) = clock + m_ms[t]
    BY TrueSum
  <2> QED
    BY <1>2, <2>1 DEF Refresh
<1>3. ASSUME NEW c \in Clients, NEW t \in Timers, NEW ms \in Delays,
             NEW b \in BOOLEAN, Reset(c, t, ms, b)
      PROVE  Fits'
  <2>0. ms \in Nat /\ Start(t, ms, b) \in Nat /\ Start(t, ms, b) <= clock
    BY ResetStart
  <2>1. PICK start \in Nat :
          /\ start <= clock
          /\ m_ms' = [m_ms EXCEPT ![t] = ms]
          /\ m_next' = [m_next EXCEPT ![t] = Plus(start, ms)]
          /\ UNCHANGED <<clock, now>>
    BY <1>3, <2>0 DEF Reset
  <2>2. Plus(start, ms) = start + ms /\ MaxTime + ms < Wrap
    BY <2>1, TrueSum DEF NoWrap
  <2> QED
    BY <2>1, <2>2
<1>4. ASSUME NEW i \in Idlers, ListExpiredCb(i) PROVE Fits'
  <2>1. \A t \in Timers : Plus(now[i], m_ms[t]) = now[i] + m_ms[t]
    BY TrueSum
  <2>2. \A t \in Timers : m_next'[t] = m_next[t]
                          \/ m_next'[t] = now[i] + m_ms[t]
    BY <1>4, <2>1 DEF ListExpiredCb
  <2>3. UNCHANGED <<clock, m_ms>> /\ now' = [now EXCEPT ![i] = 0]
    BY <1>4 DEF ListExpiredCb
  <2> QED
    BY <2>2, <2>3
<1>5. ASSUME NEW i \in Idlers, WakeUp(i) PROVE Fits'
  BY <1>5 DEF WakeUp
<1>6. CASE UNCHANGED <<m_ms, m_next, now>> /\ clock' \in Nat
            /\ clock <= clock' /\ clock' <= MaxTime
  BY <1>6
<1> QED
  BY <1>1, <1>2, <1>3, <1>4, <1>5, <1>6
     DEF Next, ClientStep, IdlerStep, vars, Insert, Cancel, Notify,
         GetNextTimer, Interrupted, Drain, Tick

Typed == TypeOK /\ Fits

LEMMA TypedNext == NoWrap /\ Typed /\ [Next]_vars => Typed'
BY TypeNext, FitsNext DEF Typed

LEMMA TypedAlways == NoWrap => (Spec => []Typed)
<1> SUFFICES ASSUME NoWrap PROVE Spec => []Typed
  OBVIOUS
<1>1. Init => Fits
  BY NumbersAssumption DEF Init, Fits, Readings, SmallIntervals,
                           DeadlinesFitIntervals
<1> QED
  BY <1>1, TypeInit, TypedNext, PTL DEF Typed, Spec

(***************************************************************************)
(* The ordered set.  A timer under construction is armed but not published *)
(* (Building), so that the set holds exactly the published timers that     *)
(* still have a callback; a timer in a list of callbacks has lost its own, *)
(* unless it is recurring; a cancelled timer has none (Outcomes).          *)
(***************************************************************************)
Building ==
  /\ \A c \in Clients : cpc[c] = "insert" => carg[c] \notin known
                                             /\ m_cb[carg[c]]
  /\ \A c, d \in Clients :
       cpc[c] = "insert" /\ cpc[d] = "insert" /\ c # d => carg[c] # carg[d]

Outcomes ==
  /\ \A t \in cancelled : t \in known /\ ~m_cb[t]
  /\ \A i \in Idlers : \A t \in cbs[i] :
       t \in known /\ (m_cb[t] => m_recurring[t])

SetInv == Building /\ SetMatchesCallbacks /\ Outcomes /\ CancelledNeverRuns

LEMMA SetInit == Init => SetInv
BY DEF Init, SetInv, Building, SetMatchesCallbacks, Outcomes, CancelledNeverRuns

LEMMA SetNext == TypeOK /\ SetInv /\ [Next]_vars => SetInv'
<1> SUFFICES ASSUME TypeTimers, TypeThreads, SetInv, [Next]_vars PROVE SetInv'
  BY DEF TypeOK
<1> USE NumbersAssumption
        DEF TypeTimers, TypeThreads, timerVars, clientVars, idlerVars, SetInv,
            Building, SetMatchesCallbacks, Outcomes, CancelledNeverRuns, Key
<1>1. ASSUME NEW c \in Clients, NEW t \in Timers, NEW ms \in Delays,
             NEW r \in BOOLEAN, Construct(c, t, ms, r)
      PROVE  SetInv'
  BY <1>1 DEF Construct
<1>2. ASSUME NEW c \in Clients, Insert(c) PROVE SetInv'
  BY <1>2 DEF Insert, InsertLocked
<1>3. ASSUME NEW c \in Clients, Notify(c) PROVE SetInv'
  BY <1>3 DEF Notify
<1>4. ASSUME NEW c \in Clients, NEW t \in Timers, Cancel(c, t) PROVE SetInv'
  BY <1>4 DEF Cancel, Without
<1>5. ASSUME NEW c \in Clients, NEW t \in Timers, Refresh(c, t) PROVE SetInv'
  BY <1>5 DEF Refresh, Without
<1>6. ASSUME NEW c \in Clients, NEW t \in Timers, NEW ms \in Delays,
             NEW b \in BOOLEAN, Reset(c, t, ms, b)
      PROVE  SetInv'
  BY <1>6 DEF Reset, InsertLocked, Without
<1>7. ASSUME NEW i \in Idlers, GetNextTimer(i) PROVE SetInv'
  BY <1>7 DEF GetNextTimer
<1>8. ASSUME NEW i \in Idlers, WakeUp(i) PROVE SetInv'
  BY <1>8 DEF WakeUp
<1>9. ASSUME NEW i \in Idlers, ListExpiredCb(i) PROVE SetInv'
  BY <1>9 DEF ListExpiredCb, Expired, KeepsCallback
<1>10. ASSUME NEW i \in Idlers, Drain(i) PROVE SetInv'
  BY <1>10 DEF Drain
<1>11. ASSUME NEW i \in Idlers, Interrupted(i) PROVE SetInv'
  BY <1>11 DEF Interrupted
<1>12. CASE Tick \/ UNCHANGED vars
  BY <1>12 DEF Tick, vars
<1> QED
  BY <1>1, <1>2, <1>3, <1>4, <1>5, <1>6, <1>7, <1>8, <1>9, <1>10, <1>11, <1>12
     DEF Next, ClientStep, IdlerStep

LEMMA SetAlways == Spec => []SetInv
BY SetInit, SetNext, TypeAlways, PTL DEF Spec

(* Whatever the delays, those included that wrap uint64_t: the set holds   *)
(* the published timers with a callback under their current keys, so that  *)
(* cancel() finds its timer and no empty callback is collected.            *)
THEOREM SetMatchesCallbacksCorrect == Spec => [](TypeOK /\ SetMatchesCallbacks)
<1>1. SetInv => SetMatchesCallbacks
  BY DEF SetInv
<1> QED
  BY <1>1, TypeAlways, SetAlways, PTL

(* Types, deadlines and keys, for delays that do not wrap uint64_t:        *)
(* moreover reset() computes no start before zero and refresh() only       *)
(* postpones.                                                              *)
THEOREM SetConsistentCorrect == NoWrap => (Spec => []SetConsistent)
<1> SUFFICES ASSUME NoWrap PROVE Spec => []SetConsistent
  OBVIOUS
<1>1. Typed /\ SetInv => SetConsistent
  BY DEF Typed, Fits, SetInv, SetConsistent
<1> QED
  BY <1>1, TypedAlways, SetAlways, PTL

(* A one-shot timer whose cancel() returned true never runs its callback. *)
THEOREM CancelledNeverRunsCorrect == Spec => []CancelledNeverRuns
<1>1. SetInv => CancelledNeverRuns
  BY DEF SetInv
<1> QED
  BY <1>1, SetAlways, PTL

(***************************************************************************)
(* Wake-ups.  m_tickled suppresses a second notification; that is sound    *)
(* because while it is set some thread is still to call getNextTimer or    *)
(* the notification is still to be consumed: the first conjunct of         *)
(* CoverInv, without which FrontTimerCovered is not inductive.             *)
(***************************************************************************)
ShortDelays == \A d \in Delays : d < IntMax
ShortIntervals == \A t \in Timers : m_ms[t] < IntMax
CoverInv == (m_tickled => Alert) /\ FrontTimerCovered

LEMMA ShortAlways == ShortDelays => (Spec => []ShortIntervals)
<1> SUFFICES ASSUME ShortDelays PROVE Spec => []ShortIntervals
  OBVIOUS
<1> USE NumbersAssumption, DelaysAssumption DEF ShortIntervals, ShortDelays
<1>1. Init => ShortIntervals
  BY DEF Init
<1>2. TypeTimers /\ ShortIntervals /\ [Next]_vars => ShortIntervals'
  <2> SUFFICES ASSUME TypeTimers, ShortIntervals, [Next]_vars
               PROVE  ShortIntervals'
    OBVIOUS
  <2>1. \/ UNCHANGED m_ms
        \/ \E t \in Timers, ms \in Delays : m_ms' = [m_ms EXCEPT ![t] = ms]
    BY ZenonT(60)
       DEF Next, ClientStep, IdlerStep, vars, timerVars, Construct, Insert,
           Notify, Cancel, Refresh, Reset, GetNextTimer, Interrupted, WakeUp,
           ListExpiredCb, Drain, Tick
  <2> QED
    BY <2>1 DEF TypeTimers
<1>3. TypeOK => TypeTimers
  BY DEF TypeOK
<1> QED
  BY <1>1, <1>2, <1>3, TypeAlways, PTL DEF Spec

(* The timeout derived from a deadline never overshoots it. *)
LEMMA SleepBounded ==
  ASSUME NEW e \in Uint64 \X Timers, clock \in Uint64, e[1] < clock + IntMax,
         NEW ms, ms = EpollTimeout(NextTimer(e))
  PROVE  /\ ms \in 0 .. MaxTimeout
         /\ clock + ms <= clock \/ clock + ms <= e[1]
<1>1. NextTimer(e) \in Nat /\ NextTimer(e) < IntMax
      /\ (NextTimer(e) = 0 \/ clock + NextTimer(e) = e[1])
  BY NumbersAssumption DEF NextTimer, Uint64
<1> HIDE DEF NextTimer
<1>2. ms \in Nat /\ ms <= NextTimer(e) /\ ms <= MaxTimeout
  BY <1>1, NumbersAssumption DEF EpollTimeout, ToInt
<1> QED
  BY <1>1, <1>2, NumbersAssumption DEF Uint64

(* What a signal makes of a timeout that idle() computed. *)
LEMMA SameTimeout ==
  ASSUME NEW ms \in 0 .. MaxTimeout
  PROVE  EpollTimeout(ToUint64(ms)) = ms
BY NumbersAssumption DEF EpollTimeout, ToUint64, ToInt

(***************************************************************************)
(* epoll_wait never blocks beyond MAX_TIMEOUT: idle() calls it with a      *)
(* bound, a signal makes it call again with the same one, and a wait under *)
(* way only gets older.                                                    *)
(***************************************************************************)
WaitInv ==
  \A i \in Idlers : ipc[i] = "wait" =>
    /\ timeout[i] \in 0 .. MaxTimeout
    /\ until[i] \in Nat /\ until[i] <= clock + timeout[i]

LEMMA WaitNext ==
  ASSUME Typed, SetInv, ShortIntervals, WaitInv, [Next]_vars
  PROVE  WaitInv'
<1>0. TypeTimers /\ TypeThreads /\ DeadlinesFitIntervals
  BY DEF Typed, TypeOK, Fits
<1> USE <1>0, NumbersAssumption
        DEF TypeTimers, TypeThreads, WaitInv, timerVars, clientVars, waitVars,
            idlerVars, Uint64
<1>1. ASSUME NEW c \in Clients, ClientStep(c) PROVE WaitInv'
  <2>1. UNCHANGED <<clock, ipc, waitVars>>
    BY <1>1 DEF ClientStep, Construct, Insert, Notify, Cancel, Refresh, Reset
  <2> QED
    BY <2>1
<1>w. ASSUME NEW i \in Idlers, NEW ms \in 0 .. MaxTimeout, EpollWait(i, ms),
             UNCHANGED clock, \A j \in Idlers : j # i => ipc'[j] = ipc[j]
      PROVE  WaitInv'
  <2>1. EndOf(ms) = clock + ms
    BY DEF EndOf
  <2> QED
    BY <1>w, <2>1 DEF EpollWait
<1>2. ASSUME NEW i \in Idlers, GetNextTimer(i) PROVE WaitInv'
  <2>1. CASE EpollWait(i, EpollTimeout(Wrap - 1))
    <3>1. EpollTimeout(Wrap - 1) \in 0 .. MaxTimeout
      BY DEF EpollTimeout
    <3> QED
      BY <1>2, <2>1, <3>1, <1>w DEF GetNextTimer
  <2>2. ASSUME NEW e \in m_timers, EpollWait(i, EpollTimeout(NextTimer(e)))
        PROVE  WaitInv'
    <3>1. e[1] < clock + IntMax
      BY DEF SetInv, SetMatchesCallbacks, ShortIntervals, DeadlinesFitIntervals
    <3>2. EpollTimeout(NextTimer(e)) \in 0 .. MaxTimeout
      BY <3>1, SleepBounded
    <3> QED
      BY <1>2, <2>2, <3>2, <1>w DEF GetNextTimer
  <2> QED
    BY <1>2, <2>1, <2>2 DEF GetNextTimer
<1>3. ASSUME NEW i \in Idlers, Interrupted(i) PROVE WaitInv'
  <2>1. EpollWait(i, timeout[i]) /\ timeout[i] \in 0 .. MaxTimeout
    BY <1>3, SameTimeout DEF Interrupted
  <2> QED
    BY <1>3, <2>1, <1>w DEF Interrupted
<1>4. ASSUME NEW i \in Idlers, WakeUp(i) \/ ListExpiredCb(i) \/ Drain(i)
      PROVE  WaitInv'
  BY <1>4 DEF WakeUp, ListExpiredCb, Drain
<1>5. CASE Tick \/ UNCHANGED vars
  BY <1>5 DEF Tick, vars
<1> QED
  BY <1>1, <1>2, <1>3, <1>4, <1>5 DEF Next, IdlerStep

LEMMA WaitAlways == NoWrap /\ ShortDelays => (Spec => []WaitInv)
<1> SUFFICES ASSUME NoWrap, ShortDelays PROVE Spec => []WaitInv
  OBVIOUS
<1>1. Init => WaitInv
  BY DEF Init, WaitInv
<1>2. Typed /\ SetInv /\ ShortIntervals /\ WaitInv /\ [Next]_vars => WaitInv'
  BY WaitNext
<1>3. Spec => []ShortIntervals
  BY ShortAlways
<1> QED
  BY <1>1, <1>2, <1>3, TypedAlways, SetAlways, PTL DEF Spec

(* epoll_wait never blocks beyond MAX_TIMEOUT, if the delays fit an int:   *)
(* signals included, for MAX_TIMEOUT then runs from the last one.          *)
THEOREM WaitIsBoundedCorrect ==
  NoWrap /\ ShortDelays => (Spec => []WaitIsBounded)
<1> SUFFICES ASSUME NoWrap, ShortDelays PROVE Spec => []WaitIsBounded
  OBVIOUS
<1>1. Typed /\ WaitInv => WaitIsBounded
  BY NumbersAssumption
     DEF Typed, TypeOK, TypeTimers, WaitInv, WaitIsBounded, Never, Uint64
<1> QED
  BY <1>1, TypedAlways, WaitAlways, PTL

(* addTimer(val, lock), for any element and any part of the set. *)
LEMMA InsertionCovered ==
  ASSUME TypeTimers, TypeThreads, CoverInv,
         NEW c \in Clients, cpc[c] # "notify",
         NEW e \in Uint64 \X Timers, NEW rest \in SUBSET m_timers,
         InsertLocked(c, e, rest), UNCHANGED <<clock, ipc, waitVars, piped>>
  PROVE  CoverInv'
<1> USE NumbersAssumption DEF TypeTimers, TypeThreads, waitVars, Uint64
<1>1. CASE FrontInsertion(e, rest)
  <2>1. cpc'[c] = "notify"
    BY <1>1 DEF InsertLocked
  <2> QED
    BY <2>1 DEF CoverInv, FrontTimerCovered, Alert
<1>2. CASE ~FrontInsertion(e, rest)
  <2>1. Alert => Alert'
    BY <1>2 DEF InsertLocked, Alert
  <2>2. m_tickled' = (m_tickled \/ FALSE)
    BY <1>2, Zenon DEF InsertLocked
  <2>3. m_tickled' => m_tickled
    BY <2>2, Zenon
  <2>4. CASE m_tickled
    BY <2>1, <2>4 DEF CoverInv, FrontTimerCovered
  <2>5. CASE ~m_tickled
    <3>1. PICK f \in rest : Before(f, e)
      BY <1>2, <2>5 DEF FrontInsertion, AtFront
    <3>2. f[1] <= e[1] /\ f \in m_timers
      BY <3>1 DEF Before
    <3>3. m_timers' \subseteq m_timers \cup {e}
      BY DEF InsertLocked
    <3>4. ASSUME NEW i \in Idlers, WaitCovers(i) PROVE WaitCovers(i)'
      BY <3>2, <3>3, <3>4 DEF WaitCovers
    <3>5. FrontTimerCovered'
      BY <2>1, <3>2, <3>4 DEF CoverInv, FrontTimerCovered
    <3> QED
      BY <2>3, <2>5, <3>5 DEF CoverInv
  <2> QED
    BY <2>4, <2>5
<1> QED
  BY <1>1, <1>2

(* Without an insertion, deadlines only disappear or move later. *)
LEMMA RemovalCovered ==
  ASSUME TypeTimers, TypeThreads, CoverInv,
         UNCHANGED <<m_tickled, cpc, ipc, waitVars, piped>>,
         clock' \in Nat, clock <= clock',
         \A g \in m_timers' : \E f \in m_timers : f[1] <= g[1],
         m_timers' \subseteq Uint64 \X Timers
  PROVE  CoverInv'
<1>1. ASSUME NEW i \in Idlers, WaitCovers(i) PROVE WaitCovers(i)'
  BY <1>1, NumbersAssumption
     DEF WaitCovers, TypeTimers, TypeThreads, waitVars, Uint64
<1>2. Alert => Alert'
  BY DEF Alert
<1>3. FrontTimerCovered'
  BY <1>1, <1>2 DEF CoverInv, FrontTimerCovered
<1> QED
  BY <1>2, <1>3 DEF CoverInv

LEMMA CoverNext ==
  ASSUME Typed, SetInv, ShortIntervals, WaitInv, CoverInv, [Next]_vars
  PROVE  CoverInv'
<1>0. TypeTimers /\ TypeThreads /\ Fits /\ DeadlinesFitIntervals /\ TypeOK'
  BY TypeNext DEF Typed, TypeOK, Fits
<1> USE <1>0, NumbersAssumption, DelaysAssumption, IdlersAssumption
        DEF timerVars, clientVars, idlerVars
<1>1. ASSUME NEW c \in Clients, Insert(c) PROVE CoverInv'
  <2>1. Key(carg[c]) \in Uint64 \X Timers
    BY <1>1 DEF Insert, Key, TypeTimers, TypeThreads
  <2> QED
    BY <1>1, <2>1, InsertionCovered DEF Insert
<1>2. ASSUME NEW c \in Clients, NEW t \in Timers, NEW ms \in Delays,
             NEW b \in BOOLEAN, Reset(c, t, ms, b)
      PROVE  CoverInv'
  <2>1. ms \in Uint64 /\ Start(t, ms, b) \in Uint64
    BY Closed DEF Start, TypeTimers, Uint64
  <2>2. <<Plus(Start(t, ms, b), ms), t>> \in Uint64 \X Timers
    BY <2>1, Closed
  <2> QED
    BY <1>2, <2>2, InsertionCovered DEF Reset, MayCall, Without
<1>3. ASSUME NEW c \in Clients, Notify(c) PROVE CoverInv'
  <2>1. piped' \/ \E i \in Idlers : ipc[i] = "run"
    BY <1>3 DEF Notify
  <2>2. Alert'
    BY <1>3, <2>1 DEF Notify, Alert
  <2> QED
    BY <2>2 DEF CoverInv, FrontTimerCovered
<1>4. ASSUME NEW c \in Clients, NEW t \in Timers, Refresh(c, t)
      PROVE  CoverInv'
  <2>0. Plus(clock, m_ms[t]) = clock + m_ms[t]
    BY TrueSum DEF Fits, Readings, SmallIntervals, TypeTimers, Uint64
  <2>1. \A g \in m_timers' : \E f \in m_timers : f[1] <= g[1]
    BY <1>4, <2>0
       DEF Refresh, Without, Key, TypeTimers, DeadlinesFitIntervals, Uint64
  <2> QED
    BY <1>4, <2>1, RemovalCovered DEF Refresh, TypeTimers, TypeOK, Uint64
<1>5. ASSUME NEW c \in Clients, NEW t \in Timers, Cancel(c, t)
      PROVE  CoverInv'
  <2>1. \A g \in m_timers' : \E f \in m_timers : f[1] <= g[1]
    BY <1>5 DEF Cancel, Without, TypeTimers, Uint64
  <2> QED
    BY <1>5, <2>1, RemovalCovered DEF Cancel, TypeTimers, TypeOK, Uint64
<1>6. ASSUME NEW i \in Idlers, GetNextTimer(i) PROVE CoverInv'
  <2>1. m_tickled' = FALSE
    BY <1>6 DEF GetNextTimer
  <2>2. ASSUME NEW e \in m_timers, AtFront(e, m_timers),
               EpollWait(i, EpollTimeout(NextTimer(e)))
        PROVE  WaitCovers(i)'
    <3>1. \A f \in m_timers : e[1] <= f[1]
      BY <2>2 DEF AtFront, Before, TypeTimers, Uint64
    <3>2. e[1] < clock + IntMax
      BY DEF SetInv, SetMatchesCallbacks, ShortIntervals, TypeTimers,
             DeadlinesFitIntervals, Uint64
    <3>3. PICK ms \in 0 .. MaxTimeout :
            /\ ms = EpollTimeout(NextTimer(e))
            /\ clock + ms <= clock \/ clock + ms <= e[1]
      BY <3>2, SleepBounded DEF TypeTimers
    <3>4. until'[i] = clock + ms /\ overslept'[i] = 0
      BY <1>6, <2>2, <3>3
         DEF EpollWait, EndOf, GetNextTimer, TypeThreads
    <3> QED
      BY <1>6, <3>1, <3>3, <3>4
         DEF GetNextTimer, WaitCovers, Never, TypeTimers, Uint64
  <2>4. m_timers = {} => FrontTimerCovered'
    BY <1>6 DEF GetNextTimer, FrontTimerCovered
  <2>3. FrontTimerCovered'
    BY <1>6, <2>2, <2>4 DEF GetNextTimer, FrontTimerCovered
  <2> QED
    BY <2>1, <2>3 DEF CoverInv
<1>7. ASSUME NEW i \in Idlers, WakeUp(i) \/ ListExpiredCb(i) \/ Drain(i)
      PROVE  CoverInv'
  <2>1. Alert'
    BY <1>7 DEF WakeUp, ListExpiredCb, Drain, Alert, TypeThreads
  <2> QED
    BY <2>1 DEF CoverInv, FrontTimerCovered
<1>8. ASSUME NEW c \in Clients, NEW t \in Timers, NEW ms \in Delays,
             NEW r \in BOOLEAN, Construct(c, t, ms, r)
      PROVE  CoverInv'
  <2>1. Alert => Alert'
    BY <1>8 DEF Construct, MayCall, Alert, TypeThreads
  <2> QED
    BY <1>8, <2>1
       DEF Construct, CoverInv, FrontTimerCovered, WaitCovers, waitVars
<1>9. CASE Tick \/ UNCHANGED vars
  <2>1. \A g \in m_timers' : \E f \in m_timers : f[1] <= g[1]
    BY <1>9 DEF Tick, vars, TypeTimers, Uint64
  <2> QED
    BY <1>9, <2>1, RemovalCovered DEF Tick, vars, TypeTimers, TypeOK, Uint64
<1>10. ASSUME NEW i \in Idlers, Interrupted(i) PROVE CoverInv'
  <2>1. /\ timeout[i] \in 0 .. MaxTimeout /\ until[i] \in Nat
        /\ EpollTimeout(ToUint64(timeout[i])) = timeout[i]
    BY <1>10, SameTimeout DEF Interrupted, WaitInv
  <2>2. EndOf(timeout[i]) = clock + timeout[i] /\ clock \in Nat
    BY <2>1 DEF EndOf, TypeTimers, Uint64
  <2>3. /\ until' = [until EXCEPT ![i] = clock + timeout[i]]
        /\ overslept' = [overslept EXCEPT
                           ![i] = overslept[i] + (clock + timeout[i]) - until[i]]
    <3>1. until[i] # Never
      BY <2>1 DEF Never
    <3> QED
      BY <1>10, <2>1, <2>2, <3>1 DEF Interrupted, EpollWait
  <2>4. \A j \in Idlers : WaitCovers(j) => WaitCovers(j)'
    BY <1>10, <2>1, <2>2, <2>3
       DEF Interrupted, WaitCovers, Never, TypeThreads
  <2>5. Alert => Alert'
    BY <1>10 DEF Interrupted, Alert
  <2> QED
    BY <1>10, <2>4, <2>5 DEF Interrupted, CoverInv, FrontTimerCovered
<1> QED
  BY <1>1, <1>2, <1>3, <1>4, <1>5, <1>6, <1>7, <1>8, <1>9, <1>10
     DEF Next, ClientStep, IdlerStep

(***************************************************************************)
(* No timer wake-up is lost, whatever the number of idle threads, if the   *)
(* delays fit an int: without signals some thread wakes for the front      *)
(* timer, with signals it oversleeps by what they have added.              *)
(***************************************************************************)
THEOREM FrontTimerCoveredCorrect ==
  NoWrap /\ ShortDelays => (Spec => []FrontTimerCovered)
<1> SUFFICES ASSUME NoWrap, ShortDelays PROVE Spec => []FrontTimerCovered
  OBVIOUS
<1>1. Init => CoverInv
  BY DEF Init, CoverInv, FrontTimerCovered
<1>2. /\ Typed /\ SetInv /\ ShortIntervals /\ WaitInv /\ CoverInv
      /\ [Next]_vars
      => CoverInv'
  BY CoverNext
<1>3. CoverInv => FrontTimerCovered
  BY DEF CoverInv
<1>4. Spec => []ShortIntervals
  BY ShortAlways
<1> QED
  BY <1>1, <1>2, <1>3, <1>4, TypedAlways, SetAlways, WaitAlways, PTL DEF Spec

(***************************************************************************)
(* Punctuality.  Once the machine has been up for longer than the rollover *)
(* threshold, and while no thread sleeps that long between reading now_ms  *)
(* and taking the lock, detectClockRollover stays silent and no callback   *)
(* is collected before its deadline.                                       *)
(***************************************************************************)
Recent ==
  /\ Boot <= m_previouseTime /\ m_previouseTime <= clock
  /\ \A i \in Idlers : ipc[i] = "list" => /\ Boot <= now[i]
                                          /\ now[i] <= clock
                                          /\ clock <= now[i] + MaxStall

LEMMA RecentNext ==
  ASSUME TypeTimers, TypeThreads, Recent, Boot <= clock, [Next]_vars
  PROVE  Recent' /\ Boot <= clock'
<1> USE NumbersAssumption DEF TypeTimers, TypeThreads, Recent, timerVars,
                              clientVars, idlerVars, Uint64
<1>1. ASSUME NEW c \in Clients, ClientStep(c) PROVE Recent' /\ Boot <= clock'
  <2>1. UNCHANGED <<clock, m_previouseTime, ipc, now>>
    BY <1>1 DEF ClientStep, Construct, Insert, Notify, Cancel, Refresh, Reset
  <2> QED
    BY <2>1
<1>2. ASSUME NEW i \in Idlers, GetNextTimer(i) PROVE Recent' /\ Boot <= clock'
  BY <1>2 DEF GetNextTimer
<1>3. ASSUME NEW i \in Idlers, WakeUp(i) PROVE Recent' /\ Boot <= clock'
  BY <1>3 DEF WakeUp
<1>4. ASSUME NEW i \in Idlers, ListExpiredCb(i) PROVE Recent' /\ Boot <= clock'
  BY <1>4 DEF ListExpiredCb
<1>5. ASSUME NEW i \in Idlers, Drain(i) PROVE Recent' /\ Boot <= clock'
  BY <1>5 DEF Drain
<1>6. CASE Tick
  BY <1>6 DEF Tick
<1>7. ASSUME NEW i \in Idlers, Interrupted(i) PROVE Recent' /\ Boot <= clock'
  BY <1>7 DEF Interrupted
<1> QED
  BY <1>1, <1>2, <1>3, <1>4, <1>5, <1>6, <1>7 DEF Next, IdlerStep, vars

LEMMA RecentAlways == Spec => [](Recent /\ Boot <= clock)
<1>1. Init => Recent /\ Boot <= clock
  BY NumbersAssumption DEF Init, Recent
<1>2. TypeOK /\ Recent /\ Boot <= clock /\ [Next]_vars
        => (Recent /\ Boot <= clock)'
  BY RecentNext DEF TypeOK
<1> QED
  BY <1>1, <1>2, TypeAlways, PTL DEF Spec

(* No reading of the clock is taken for a rollover. *)
LEMMA NoRollover ==
  ASSUME Hour <= Boot, MaxStall <= Hour, TypeTimers, TypeThreads, Recent,
         NEW i \in Idlers, ipc[i] = "list"
  PROVE  Expired(now[i]) = {e \in m_timers : e[1] <= now[i]}
<1>1. ~Rollover(now[i])
  BY NumbersAssumption
     DEF Rollover, Minus, TypeTimers, TypeThreads, Recent, Uint64
<1> QED
  BY <1>1 DEF Expired

THEOREM NeverEarlyCorrect ==
  Hour <= Boot /\ MaxStall <= Hour => (Spec => NeverEarly)
<1> SUFFICES ASSUME Hour <= Boot, MaxStall <= Hour PROVE Spec => NeverEarly
  OBVIOUS
<1> DEFINE R == Recent /\ Boot <= clock
           Step == \A i \in Idlers :
                     ListExpiredCb(i) => \A t \in cbs'[i] : m_next[t] <= clock
<1>3. TypeOK /\ R /\ SetInv => Step
  <2> SUFFICES ASSUME TypeTimers, TypeThreads, R, SetInv, NEW i \in Idlers,
                      ListExpiredCb(i), NEW t \in cbs'[i]
               PROVE  m_next[t] <= clock
    BY DEF TypeOK
  <2> USE NumbersAssumption DEF TypeTimers, TypeThreads, Recent, Uint64
  <2>1. Expired(now[i]) = {e \in m_timers : e[1] <= now[i]}
    BY NoRollover DEF ListExpiredCb
  <2>2. PICK e \in m_timers : e[1] <= now[i] /\ e[2] = t
    BY <2>1 DEF ListExpiredCb
  <2>3. m_next[t] = e[1] /\ now[i] <= clock
    BY <2>2 DEF SetInv, SetMatchesCallbacks, ListExpiredCb
  <2> QED
    BY <2>2, <2>3
<1>4. Spec => [][Step]_vars
  BY <1>3, RecentAlways, TypeAlways, SetAlways, PTL
<1> QED
  BY <1>4 DEF NeverEarly

----------------------------------------------------------------------------
(***************************************************************************)
(* Refinement of Alarm.  A thread in epoll_wait or before the lock has     *)
(* dealt with what its last listExpiredCb returned.                        *)
(***************************************************************************)
HandsFree == \A i \in Idlers : ipc[i] # "run" => cbs[i] = {}

LEMMA HandsFreeAlways == Spec => []HandsFree
<1>1. Init => HandsFree
  BY DEF Init, HandsFree
<1>2. TypeThreads /\ HandsFree /\ [Next]_vars => HandsFree'
  <2> SUFFICES ASSUME TypeThreads, HandsFree, [Next]_vars PROVE HandsFree'
    OBVIOUS
  <2> USE DEF TypeThreads, HandsFree, idlerVars
  <2>1. ASSUME NEW c \in Clients, ClientStep(c) PROVE HandsFree'
    <3>1. UNCHANGED <<ipc, cbs>>
      BY <2>1 DEF ClientStep, Construct, Insert, Notify, Cancel, Refresh, Reset
    <3> QED
      BY <3>1
  <2>2. ASSUME NEW i \in Idlers, IdlerStep(i) PROVE HandsFree'
    <3>1. CASE GetNextTimer(i)
      BY <3>1 DEF GetNextTimer
    <3>2. CASE WakeUp(i)
      BY <3>2 DEF WakeUp
    <3>3. CASE ListExpiredCb(i)
      BY <3>3 DEF ListExpiredCb
    <3>4. CASE Drain(i)
      BY <3>4 DEF Drain
    <3>5. CASE Interrupted(i)
      BY <3>5 DEF Interrupted
    <3> QED
      BY <2>2, <3>1, <3>2, <3>3, <3>4, <3>5 DEF IdlerStep
  <2> QED
    BY <2>1, <2>2 DEF Next, vars, Tick
<1>3. TypeOK => TypeThreads
  BY DEF TypeOK
<1> QED
  BY <1>1, <1>2, <1>3, TypeAlways, PTL DEF Spec

states == [t \in Timers |-> StateOf(t)]
mapped == <<clock, states, m_next, m_ms, m_recurring, cbs>>

(* The records and the list of callbacks are all that Alarm sees. *)
LEMMA Unseen ==
  ASSUME UNCHANGED <<clock, m_next, m_ms, m_recurring, m_cb, cbs>>,
         \A t \in known' \ known : m_cb[t], known \subseteq known'
  PROVE  UNCHANGED mapped
<1>1. \A t \in Timers : StateOf(t)' = StateOf(t)
  BY DEF StateOf
<1> QED
  BY <1>1 DEF mapped, states

LEMMA ClientKeepsPromise ==
  ASSUME NoWrap, Typed, SetInv, NEW c \in Clients, ClientStep(c)
  PROVE  [Promise!Next]_mapped
<1> USE DEF timerVars, clientVars, idlerVars
<1>t. TypeTimers /\ TypeThreads /\ Fits
  BY DEF Typed, TypeOK
<1>s. \A d \in Nat : MaxTime + d < Wrap =>
        \A a \in Nat : a <= clock => Plus(a, d) = a + d
  BY <1>t, TrueSum, NumbersAssumption
     DEF Fits, Readings, TypeTimers, Uint64
<1>d. clock \in Nat /\ \A d \in Delays : d \in Nat /\ MaxTime + d < Wrap
  BY <1>t, DelaysAssumption, NumbersAssumption DEF NoWrap, TypeTimers, Uint64
<1>1. ASSUME NEW t \in Timers, NEW ms \in Delays, NEW r \in BOOLEAN,
             Construct(c, t, ms, r)
      PROVE  [Promise!Next]_mapped
  <2>1. StateOf(t) = "new" /\ m_cb' = [m_cb EXCEPT ![t] = TRUE]
    BY <1>1 DEF Construct, StateOf
  <2>2. \A u \in Timers : StateOf(u)' = IF u = t THEN "set" ELSE StateOf(u)
    BY <1>1, <1>t, <2>1 DEF Construct, StateOf, TypeTimers
  <2>3. Plus(clock, ms) = clock + ms
    BY <1>s, <1>d
  <2>4. Promise!Set(t, ms, r)
    BY <1>1, <2>1, <2>2, <2>3 DEF Construct, Promise!Set
  <2> QED
    BY <2>4 DEF Promise!Next
<1>2. CASE Insert(c)
  <2>1. known' = known \cup {carg[c]} /\ m_cb[carg[c]]
    BY <1>2 DEF Insert, SetInv, Building
  <2> QED
    BY <1>2, <2>1, Unseen DEF Insert
<1>3. CASE Notify(c)
  BY <1>3, Unseen DEF Notify
<1>4. ASSUME NEW t \in Timers, Cancel(c, t)
      PROVE  [Promise!Next]_mapped
  <2>1. StateOf(t) = "set" /\ t \in known
    BY <1>4 DEF Cancel, StateOf
  <2>2. \A u \in Timers : StateOf(u)' = IF u = t THEN "over" ELSE StateOf(u)
    BY <1>4, <1>t, <2>1 DEF Cancel, StateOf, TypeTimers
  <2>3. Promise!Cancel(t)
    BY <1>4, <2>1, <2>2 DEF Cancel, Promise!Cancel
  <2> QED
    BY <2>3 DEF Promise!Next
<1>5. ASSUME NEW t \in Timers, Refresh(c, t)
      PROVE  [Promise!Next]_mapped
  <2>1. StateOf(t) = "set" /\ \A u \in Timers : StateOf(u)' = StateOf(u)
    BY <1>5 DEF Refresh, StateOf
  <2>3. Plus(clock, m_ms[t]) = clock + m_ms[t]
    BY <1>t, <1>s, <1>d DEF Fits, SmallIntervals, TypeTimers, Uint64
  <2>2. Promise!Refresh(t)
    BY <1>5, <2>1, <2>3 DEF Refresh, Promise!Refresh
  <2> QED
    BY <2>2 DEF Promise!Next
<1>6. ASSUME NEW t \in Timers, NEW ms \in Delays, NEW b \in BOOLEAN,
             Reset(c, t, ms, b)
      PROVE  [Promise!Next]_mapped
  <2>1. StateOf(t) = "set" /\ \A u \in Timers : StateOf(u)' = StateOf(u)
    BY <1>6 DEF Reset, StateOf
  <2>2. Start(t, ms, b) = IF b THEN clock ELSE m_next[t] - m_ms[t]
    BY <1>t, NumbersAssumption
       DEF Start, Minus, Fits, DeadlinesFitIntervals, TypeTimers, Uint64
  <2>6. Plus(Start(t, ms, b), ms) = Start(t, ms, b) + ms
    BY <1>t, <1>s, <1>d, ResetStart DEF Fits
  <2>3. m_next' = [m_next EXCEPT ![t] = Start(t, ms, b) + ms]
    BY <1>6, <2>6 DEF Reset
  <2>4. m_next' = [m_next EXCEPT ![t] = (IF b THEN clock ELSE @ - m_ms[t]) + ms]
    BY <2>2, <2>3
  <2>5. Promise!Reset(t, ms, b)
    BY <1>6, <2>1, <2>4 DEF Reset, Promise!Reset
  <2> QED
    BY <2>5 DEF Promise!Next
<1> QED
  BY <1>1, <1>2, <1>3, <1>4, <1>5, <1>6 DEF ClientStep

(* What listExpiredCb takes was due when it read the clock. *)
LEMMA ListRings ==
  ASSUME Hour <= Boot, MaxStall <= Hour, NoWrap, Typed, SetInv, Recent, HandsFree,
         NEW i \in Idlers, ListExpiredCb(i)
  PROVE  [Promise!Next]_mapped
<1> DEFINE S == {e[2] : e \in Expired(now[i])}
<1> USE DEF idlerVars
<1>t. TypeTimers /\ TypeThreads /\ Fits
  BY DEF Typed, TypeOK
<1>1. ipc[i] = "list" /\ cbs[i] = {} /\ now[i] \in Boot .. clock
  BY <1>t, NumbersAssumption
     DEF ListExpiredCb, HandsFree, Recent, TypeTimers, TypeThreads, Uint64
<1>s. \A t \in Timers : Plus(now[i], m_ms[t]) = now[i] + m_ms[t]
  BY <1>t, <1>1, TrueSum, NumbersAssumption
     DEF Fits, Readings, SmallIntervals, TypeTimers, Uint64
<1>2. Expired(now[i]) = {e \in m_timers : e[1] <= now[i]}
  BY <1>t, <1>1, NoRollover
<1>3. \A t \in S : /\ t \in Timers /\ t \in known
                   /\ m_cb[t] /\ m_next[t] <= now[i]
  BY <1>t, <1>2 DEF SetInv, SetMatchesCallbacks, TypeTimers, Uint64
<1>4. \A t \in S : StateOf(t) = "set"
  BY <1>3 DEF StateOf
<1>5. /\ m_next' = [t \in Timers |-> IF t \in S /\ m_recurring[t]
                                       THEN now[i] + m_ms[t] ELSE m_next[t]]
      /\ m_cb' = [t \in Timers |-> IF t \in S THEN m_recurring[t] ELSE m_cb[t]]
      /\ cbs' = [cbs EXCEPT ![i] = S]
      /\ UNCHANGED <<clock, m_ms, m_recurring, known>>
  BY <1>s DEF ListExpiredCb, KeepsCallback
<1> HIDE DEF S
<1>6. ASSUME NEW t \in Timers
      PROVE  StateOf(t)' = IF t \in S /\ ~m_recurring[t] THEN "over"
                           ELSE StateOf(t)
  <2>1. m_cb'[t] = IF t \in S THEN m_recurring[t] ELSE m_cb[t]
    BY <1>5
  <2> QED
    BY <1>3, <1>4, <1>5, <2>1 DEF StateOf
<1>7. S \in SUBSET Timers
  BY <1>3
<1>8. Promise!Ring(i, S)
  BY <1>1, <1>3, <1>4, <1>5, <1>6 DEF Promise!Ring
<1> QED
  BY <1>7, <1>8 DEF Promise!Next

(***************************************************************************)
(* TimerManager keeps the promise of Alarm, for any number of timers,      *)
(* clients and idle threads: a one-shot callback is handed out once at     *)
(* most and never after a cancel(), none is handed out before its time,    *)
(* and refresh(), reset() and the reinsertion of a recurring timer give    *)
(* exactly the deadline the caller asked for.                              *)
(***************************************************************************)
THEOREM AlarmImplemented ==
  NoWrap /\ Hour <= Boot /\ MaxStall <= Hour => (Spec => ImplementsAlarm)
<1> SUFFICES ASSUME NoWrap, Hour <= Boot, MaxStall <= Hour
             PROVE  Spec => ImplementsAlarm
  OBVIOUS
<1>1. Init => Promise!Init
  BY DEF Init, Promise!Init, StateOf
<1>2. ASSUME Typed, SetInv, Recent, HandsFree, [Next]_vars
      PROVE  [Promise!Next]_mapped
  <2>1. ASSUME NEW i \in Idlers, GetNextTimer(i)
        PROVE  [Promise!Next]_mapped
    <3>1. UNCHANGED states
      BY <2>1 DEF GetNextTimer, timerVars, states, StateOf
    <3>2. Promise!DealtWith(i)
      BY <2>1, <3>1 DEF GetNextTimer, timerVars, Promise!DealtWith, states
    <3> QED
      BY <3>2 DEF Promise!Next
  <2>2. ASSUME NEW i \in Idlers, Interrupted(i) \/ WakeUp(i) \/ Drain(i)
        PROVE  [Promise!Next]_mapped
    BY <2>2, Unseen DEF Interrupted, WakeUp, Drain, timerVars
  <2>3. CASE Tick
    <3>1. UNCHANGED states
      BY <2>3 DEF Tick, timerVars, states, StateOf
    <3>2. Promise!Tick
      BY <2>3, <3>1 DEF Tick, timerVars, idlerVars, Promise!Tick, states
    <3> QED
      BY <3>2 DEF Promise!Next
  <2>4. CASE UNCHANGED vars
    BY <2>4, Unseen DEF vars, timerVars, idlerVars
  <2> QED
    BY <1>2, <2>1, <2>2, <2>3, <2>4, ClientKeepsPromise, ListRings
       DEF Next, IdlerStep
<1> QED
  BY <1>1, <1>2, TypedAlways, SetAlways, RecentAlways, HandsFreeAlways, PTL
     DEF Spec, ImplementsAlarm, Promise!Spec, Promise!vars, mapped, states
=============================================================================
