----------------------------- MODULE IOManager -----------------------------
(***************************************************************************)
(* The scheduler of Scheduler.tla with what IOManager overrides: tickle(), *)
(* stopping() and idle() (src/src/iomanager.cc).  A thread without work    *)
(* sleeps in epoll_wait, and is woken by the tickle pipe, by an event a    *)
(* fiber waits for, or by the timeout of at most five seconds.             *)
(*                                                                         *)
(* A wait of a fiber for an event is one registration; the tables behind   *)
(* it are in FdEvents.tla.  Of the timers of Timer.tla this module keeps   *)
(* what stopping() and idle() see: which callbacks an armed one-shot timer *)
(* holds and which of these are due.                                       *)
(***************************************************************************)
EXTENDS Scheduler

Pipe == "pipe"   \* the read end of the tickle pipe, among the tasks of a batch

ASSUME PipeAssumption == Pipe \notin Tasks

VARIABLES
  piped,       \* kernel: epoll_wait would return the tickle pipe
  m_pendingEventCount,
  waiting,     \* fibers registered for an event
  fired,       \* kernel: fibers whose event is on the ready list
  batch,       \* each thread: what epoll_wait returned and is not yet handled
  toTickle,    \* tickles that stop() has still to send
  noEvents,    \* threads that have read m_pendingEventCount == 0
  timers,      \* callbacks of the armed timers
  due,         \* those of them whose timer has expired
  cbs,         \* each thread: what listExpiredCb returned, not yet scheduled
  noTimers     \* threads that have read getNextTimer() == ~0ull

timerVars == <<timers, due, cbs, noTimers>>
ioVars == <<piped, m_pendingEventCount, waiting, fired, batch,
            toTickle, noEvents, timerVars>>
allVars == <<vars, ioVars>>

IOInit ==
  /\ Init
  /\ piped = FALSE
  /\ m_pendingEventCount = 0
  /\ waiting = {} /\ fired = {}
  /\ batch = [p \in Threads |-> {}]
  /\ toTickle = 0
  /\ noEvents = {}
  /\ timers = {} /\ due = {} /\ noTimers = {}
  /\ cbs = [p \in Threads |-> {}]

----------------------------------------------------------------------------
(* IOManager::tickle: nothing is written when no thread counts as idle. *)
TickleWrites == m_idleThreadCount > 0

IOTickle(p) ==
  /\ Tickle(p)
  /\ piped' = (piped \/ TickleWrites)
  /\ UNCHANGED <<m_pendingEventCount, waiting, fired, batch, toTickle,
                 noEvents, timerVars>>

(* stop(): one tickle for each worker, one more for the caller's fiber. *)
IOStop ==
  /\ pc[Main] = "main" /\ started
  /\ m_stopping' = TRUE
  /\ toTickle' = Cardinality(Pool)
  /\ pc' = [pc EXCEPT ![Main] = "stop"]
  /\ UNCHANGED <<m_tasks, fiberVars, countVars, started, m_threadIds, ret, cur,
                 idleTerm, piped, m_pendingEventCount, waiting, fired, batch,
                 noEvents, timerVars>>

StopTickles ==
  /\ pc[Main] = "stop" /\ toTickle > 0
  /\ toTickle' = toTickle - 1
  /\ pc' = [pc EXCEPT ![Main] = "tickle"]
  /\ ret' = [ret EXCEPT ![Main] = "stop"]
  /\ UNCHANGED <<m_tasks, fiberVars, countVars, startVars, cur,
                 idleTerm, piped, m_pendingEventCount, waiting,
                 fired, batch, noEvents, timerVars>>

StopJoins ==
  /\ pc[Main] = "stop" /\ toTickle = 0
  /\ pc' = [pc EXCEPT ![Main] = IF UseCaller THEN "run" ELSE "join"]
  /\ UNCHANGED <<m_tasks, fiberVars, countVars, startVars, ret, cur,
                 idleTerm, ioVars>>

----------------------------------------------------------------------------
(* The running task registers itself for an event and yields. *)
TaskWaits(p) ==
  /\ pc[p] = "task"
  /\ yields[cur[p]] < MaxYields
  /\ yields' = [yields EXCEPT ![cur[p]] = @ + 1]
  /\ m_pendingEventCount' = m_pendingEventCount + 1
  /\ waiting' = waiting \cup {cur[p]}
  /\ pc' = [pc EXCEPT ![p] = "yield"]
  /\ UNCHANGED <<m_tasks, m_state, saved, countVars, startVars, ret,
                 cur, idleTerm, piped, fired, batch, toTickle,
                 noEvents, timerVars>>

(* The event a fiber waits for occurs (external). *)
EventOccurs(t) ==
  /\ t \in waiting /\ t \notin fired
  /\ \A p \in Threads : t \notin batch[p]
  /\ fired' = fired \cup {t}
  /\ UNCHANGED <<vars, piped, m_pendingEventCount, waiting, batch,
                 toTickle, noEvents, timerVars>>

(***************************************************************************)
(* A task, or the owner, adds a one-shot timer whose callback is t; if it  *)
(* is the first to expire, onTimerInsertedAtFront() tickles.               *)
(***************************************************************************)
Held == timers \cup UNION {cbs[p] : p \in Threads}

AddsTimer(p, t) ==
  /\ pc[p] = "task" \/ (pc[p] = "main" /\ started)
  /\ m_state[t] = "NEW" /\ t \notin Held
  /\ timers' = timers \cup {t}
  /\ \/ UNCHANGED <<pc, ret>>
     \/ /\ pc' = [pc EXCEPT ![p] = "tickle"]
        /\ ret' = [ret EXCEPT ![p] = pc[p]]
  /\ UNCHANGED <<m_tasks, fiberVars, countVars, startVars, cur, idleTerm,
                 piped, m_pendingEventCount, waiting, fired, batch, toTickle,
                 noEvents, due, cbs, noTimers>>

(* The clock passes the expiry of a timer (external). *)
TimerDue(t) ==
  /\ t \in timers /\ t \notin due
  /\ due' = due \cup {t}
  /\ UNCHANGED <<vars, piped, m_pendingEventCount, waiting, fired, batch,
                 toTickle, noEvents, timers, cbs, noTimers>>

----------------------------------------------------------------------------
(***************************************************************************)
(* IOManager::stopping asks for the next timer first, then reads           *)
(* m_pendingEventCount, then takes the scheduler's lock for the rest.      *)
(***************************************************************************)
SeesNoTimer == timers = {}

IdleReadsTimers(p) ==
  /\ pc[p] = "idle" /\ p \notin noTimers \cup noEvents
  /\ IF SeesNoTimer
       THEN noTimers' = noTimers \cup {p} /\ UNCHANGED pc
       ELSE pc' = [pc EXCEPT ![p] = "wait"] /\ UNCHANGED noTimers
  /\ UNCHANGED <<m_tasks, fiberVars, countVars, startVars, ret, cur,
                 idleTerm, piped, m_pendingEventCount, waiting,
                 fired, batch, toTickle, noEvents, timers, due, cbs>>

SeesNoPendingAlways == TRUE
SeesNoPending == m_pendingEventCount = 0

IdleReadsPending(p) ==
  /\ pc[p] = "idle" /\ p \in noTimers
  /\ noTimers' = noTimers \ {p}
  /\ IF SeesNoPending
       THEN noEvents' = noEvents \cup {p} /\ UNCHANGED pc
       ELSE pc' = [pc EXCEPT ![p] = "wait"] /\ UNCHANGED noEvents
  /\ UNCHANGED <<m_tasks, fiberVars, countVars, startVars, ret, cur,
                 idleTerm, piped, m_pendingEventCount, waiting,
                 fired, batch, toTickle, timers, due, cbs>>

(* idle() ends when Scheduler::stopping also holds; else it will wait. *)
IdleReadsStopping(p) ==
  /\ pc[p] = "idle" /\ p \in noEvents
  /\ noEvents' = noEvents \ {p}
  /\ IF Stopping
       THEN /\ idleTerm' = idleTerm \cup {p}
            /\ m_idleThreadCount' = IdleUncounted
            /\ pc' = [pc EXCEPT ![p] = "run"]
       ELSE /\ pc' = [pc EXCEPT ![p] = "wait"]
            /\ UNCHANGED <<idleTerm, m_idleThreadCount>>
  /\ UNCHANGED <<m_tasks, fiberVars, m_activeThreadCount, startVars,
                 ret, cur, piped, m_pendingEventCount, waiting,
                 fired, batch, toTickle, timerVars>>

(* epoll_wait returns what is ready, or nothing after its timeout. *)
EpollReturns(p) ==
  /\ pc[p] = "wait"
  /\ pc' = [pc EXCEPT ![p] = "list"]
  /\ batch' = [batch EXCEPT ![p] = fired \cup (IF piped THEN {Pipe} ELSE {})]
  /\ fired' = {}
  /\ piped' = FALSE
  /\ UNCHANGED <<m_tasks, fiberVars, countVars, startVars, ret, cur,
                 idleTerm, m_pendingEventCount, waiting, toTickle, noEvents,
                 timerVars>>

(* listExpiredCb takes the callbacks of the timers that are due ... *)
ListExpired(p) ==
  /\ pc[p] = "list"
  /\ cbs' = [cbs EXCEPT ![p] = due]
  /\ timers' = timers \ due
  /\ due' = {}
  /\ pc' = [pc EXCEPT ![p] = "collect"]
  /\ UNCHANGED <<m_tasks, fiberVars, countVars, startVars, ret, cur,
                 idleTerm, piped, m_pendingEventCount, waiting, fired, batch,
                 toTickle, noEvents, noTimers>>

(* ... and idle() schedules each of them before it looks at the events. *)
CallbackScheduled(p, t) ==
  /\ pc[p] = "collect" /\ t \in cbs[p]
  /\ m_state[t] = "NEW"
  /\ m_state' = [m_state EXCEPT ![t] = "READY"]
  /\ cbs' = [cbs EXCEPT ![p] = @ \ {t}]
  /\ Schedule(p, t, Any, "collect")
  /\ UNCHANGED <<saved, yields, countVars, startVars, cur, idleTerm, piped,
                 m_pendingEventCount, waiting, fired, batch, toTickle,
                 noEvents, timers, due, noTimers>>

CallbacksScheduled(p) == pc[p] = "collect" /\ cbs[p] = {}

(* The pipe of the batch is read until it is empty, later bytes included. *)
Drain(p) ==
  /\ CallbacksScheduled(p) /\ Pipe \in batch[p]
  /\ batch' = [batch EXCEPT ![p] = @ \ {Pipe}]
  /\ piped' = FALSE
  /\ UNCHANGED <<vars, m_pendingEventCount, waiting, fired, toTickle, noEvents,
                 timerVars>>

(* triggerEvent clears the event, ... *)
StillRegistered(t) == waiting
Unregistered(t) == waiting \ {t}

(* ... for one event of the batch, and the fiber is scheduled. *)
Triggers(p, t) ==
  /\ CallbacksScheduled(p) /\ t \in batch[p]
  /\ batch' = [batch EXCEPT ![p] = @ \ {t}]
  /\ waiting' = Unregistered(t)
  /\ Schedule(p, t, Any, "count")
  /\ UNCHANGED <<fiberVars, countVars, startVars, cur, idleTerm,
                 piped, m_pendingEventCount, fired, toTickle,
                 noEvents, timerVars>>

(* --m_pendingEventCount, after triggerEvent. *)
NoEventLess == m_pendingEventCount
OneEventLess == m_pendingEventCount - 1

CountsDown(p) ==
  /\ pc[p] = "count"
  /\ m_pendingEventCount' = OneEventLess
  /\ pc' = [pc EXCEPT ![p] = "collect"]
  /\ UNCHANGED <<m_tasks, fiberVars, countVars, startVars, ret, cur,
                 idleTerm, piped, waiting, fired, batch, toTickle,
                 noEvents, timerVars>>

(* The batch is done: idle yields to run(). *)
IdleYields(p) ==
  /\ CallbacksScheduled(p) /\ batch[p] = {}
  /\ m_idleThreadCount' = IdleUncounted
  /\ pc' = [pc EXCEPT ![p] = "run"]
  /\ UNCHANGED <<m_tasks, fiberVars, m_activeThreadCount, startVars,
                 ret, cur, idleTerm, ioVars>>

IdleLoop(p) ==
  \/ IdleReadsTimers(p) \/ IdleReadsPending(p) \/ IdleReadsStopping(p)
  \/ EpollReturns(p) \/ ListExpired(p) \/ Drain(p)
  \/ \E t \in Tasks : CallbackScheduled(p, t) \/ Triggers(p, t)
  \/ CountsDown(p) \/ IdleYields(p)

(* A callback that a timer holds is scheduled by idle() only. *)
HeldLeftAlone == \A t \in Held : m_state'[t] = m_state[t]

Inherited(p) ==
  (RunLoop(p) \/ RunTask(p)) /\ HeldLeftAlone /\ UNCHANGED ioVars
IOOwner ==
  \/ /\ \/ Start \/ Starting \/ Join
        \/ started /\ \E t \in Tasks, th \in Pins : MainSchedules(t, th)
     /\ HeldLeftAlone /\ UNCHANGED ioVars
  \/ IOStop \/ StopTickles \/ StopJoins

External == \E t \in Tasks : EventOccurs(t) \/ TimerDue(t)
IODone == pc[Main] = "done" /\ UNCHANGED allVars

IONext ==
  \/ IOOwner
  \/ \E p \in Threads :
       \/ Inherited(p) \/ TaskWaits(p) \/ IOTickle(p) \/ IdleLoop(p)
       \/ \E t \in Tasks : AddsTimer(p, t)
  \/ External
  \/ IODone

IOSpec == IOInit /\ [][IONext]_allVars

(***************************************************************************)
(* The constructor calls start(), threads keep running, epoll_wait returns *)
(* after its timeout at the latest, and every event a fiber waits for and  *)
(* every deadline of a timer comes in the end.                             *)
(***************************************************************************)
IOFairness ==
  /\ WF_allVars(Start /\ UNCHANGED ioVars)
  /\ WF_allVars(IOOwner /\ pc[Main] # "main")
  /\ \A p \in Threads :
       WF_allVars(Inherited(p) \/ TaskWaits(p) \/ IOTickle(p) \/ IdleLoop(p))
  /\ \A t \in Tasks : WF_allVars(EventOccurs(t)) /\ WF_allVars(TimerDue(t))

IOFairSpec == IOSpec /\ IOFairness

----------------------------------------------------------------------------
IOPCs == PCs \cup {"stop", "wait", "list", "collect", "count"}

(* Every variable has its type. *)
IOTypeOK ==
  /\ m_tasks \in Seq(Entries)
  /\ m_state \in [Tasks -> {"NEW", "READY", "RUNNING", "TERM"}]
  /\ saved \subseteq Tasks
  /\ m_activeThreadCount \in Nat /\ m_idleThreadCount \in Nat
  /\ pc \in [Threads -> IOPCs]
  /\ cur \in [Threads -> Tasks \cup {None}]
  /\ piped \in BOOLEAN
  /\ m_pendingEventCount \in Nat /\ toTickle \in Nat
  /\ waiting \subseteq Tasks /\ fired \subseteq waiting
  /\ batch \in [Threads -> SUBSET (Tasks \cup {Pipe})]
  /\ noEvents \subseteq Threads /\ noTimers \subseteq Threads
  /\ timers \subseteq Tasks /\ due \subseteq timers
  /\ cbs \in [Threads -> SUBSET Tasks]

(* A thread between ++m_idleThreadCount and --m_idleThreadCount. *)
InIdle(p) == \/ pc[p] \in {"idle", "wait", "list", "collect", "count"}
             \/ pc[p] = "tickle" /\ ret[p] \in {"collect", "count"}

(***************************************************************************)
(* tickle() decides from m_idleThreadCount whether a byte is needed: it is *)
(* the number of threads that are in idle(), on every path through it.     *)
(***************************************************************************)
IdleCountExact ==
  m_idleThreadCount = Cardinality({p \in Threads : InIdle(p)})

(* The counters of both classes are sound: their types, and the idle count. *)
IdleConsistent == IOTypeOK /\ IdleCountExact

(***************************************************************************)
(* m_pendingEventCount never undercounts: it covers every registered fiber *)
(* and every event whose fiber has been scheduled but not counted down, so *)
(* that a thread reading zero knows that no wake-up is under way.          *)
(***************************************************************************)
Counting(p) == pc[p] = "count" \/ (pc[p] = "tickle" /\ ret[p] = "count")
PendingCoversWakeUps ==
  m_pendingEventCount =
    Cardinality(waiting) + Cardinality({p \in Threads : Counting(p)})

(***************************************************************************)
(* stop() returns when every task has ended (scheduler.h:84), the waits    *)
(* for events included (iomanager.cc:335).                                 *)
(***************************************************************************)
IOStopWaits ==
  pc[Main] = "done" =>
    waiting = {} /\ \A t \in Tasks : m_state[t] \in {"NEW", "TERM"}

(***************************************************************************)
(* stop(), once called, returns, if the awaited events occur and the armed *)
(* timers, none of them recurring, expire (iomanager.cc:335-339): each of  *)
(* them is collected and scheduled, and none keeps stopping() false.       *)
(***************************************************************************)
IOStopReturns == m_stopping ~> pc[Main] = "done"

(* With the timeout of epoll_wait, no queued task stays queued for ever. *)
QueuedTaskRuns ==
  \A t \in Tasks : (\E k \in DOMAIN m_tasks : m_tasks[k].task = t)
                     ~> m_state[t] \in {"RUNNING", "TERM"}

(***************************************************************************)
(* IOManager keeps the promise of TaskPool: a fiber that waits for an      *)
(* event waits like one in the queue, triggerEvent only moves it from one  *)
(* place to the other, and it is resumed once for one wait, whichever      *)
(* thread polls.  That stop() outlasts the tasks is promised if one thread *)
(* takes part in run(); with more of them it does not.                     *)
(***************************************************************************)
OneThread == \E w \in Threads : Pool = {w}

IOWaits(t) ==
  /\ \/ Queued(t) \/ t \in waiting
     \/ \E p \in Threads : ToResume(p) /\ cur[p] = t
  /\ \A p \in Threads : RunningOn(p) # t

IOPromise == INSTANCE TaskPool WITH
  waiting <- {t \in Tasks : IOWaits(t)},
  running <- [p \in Threads |-> RunningOn(p)],
  ended <- {t \in Tasks : m_state[t] = "TERM"},
  stopped <- OneThread /\ pc[Main] = "done"
IOImplementsTaskPool == IOPromise!Spec
=============================================================================
