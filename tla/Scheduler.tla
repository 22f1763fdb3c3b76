----------------------------- MODULE Scheduler -----------------------------
(***************************************************************************)
(* The coroutine scheduler: src/src/scheduler.cc, src/include/scheduler.h, *)
(* the threads it creates (src/src/thread.cc) and the part of Fiber it     *)
(* drives (resume, yield, MainFunc of src/src/fiber.cc).  A fiber and a    *)
(* callback task are alike here: run() wraps a callback in a new fiber     *)
(* before it resumes it.                                                   *)
(*                                                                         *)
(* A critical section under m_mutex is one action; the counters, m_stopping*)
(* and m_state, which the code writes without that lock, move in actions   *)
(* of their own.  yield() takes two: m_state becomes READY before          *)
(* swapcontext has saved the context.                                      *)
(***************************************************************************)
EXTENDS Integers, Sequences, FiniteSets

CONSTANTS
  Workers,     \* the threads start() creates
  Main,        \* the thread that owns the scheduler and calls stop()
  UseCaller,   \* use_caller: Main runs run() inside stop()
  Tasks,       \* the fibers and callbacks that may be scheduled
  Any,         \* thread = -1
  None,        \* no current task
  Pins,        \* the thread arguments that schedule() is called with
  RequeuePins, \* the pins ("own" or Any) a fiber requeues itself with
  MaxYields,   \* bound of the yields of one fiber
  WindowMissed \* TRUE: only executions in which no thread swaps a fiber in
               \* between the two steps of its yield, which is undefined

Pool == IF UseCaller THEN Workers \cup {Main} ELSE Workers
Threads == Workers \cup {Main}

ASSUME PoolAssumption ==
  /\ UseCaller \in BOOLEAN
  /\ Main \notin Workers
  /\ Pool # {} /\ IsFiniteSet(Workers)          \* LT_ASSERT(threads > 0)
  /\ Any \notin Threads
  /\ Pins \subseteq Pool \cup {Any}
  /\ RequeuePins \subseteq {"own", Any}
  /\ None \notin Tasks \cup Workers
  /\ MaxYields \in Nat /\ WindowMissed \in BOOLEAN

VARIABLES
  m_tasks,     \* the std::list of ScheduleTask: [task, thread]
  m_state,     \* Fiber::m_state; "NEW" until the task is first scheduled
  saved,       \* fibers whose m_ctx holds the point where they stopped
  yields,      \* how often each fiber has yielded
  m_activeThreadCount,
  m_idleThreadCount,
  m_stopping,
  started,     \* start() has returned
  m_threadIds, \* ids start() has recorded; None for one read too early
  pc, ret,     \* each thread: where it is, where tickle() returns to
  cur,         \* the task each thread has taken
  idleTerm     \* threads whose idle fiber has terminated

fiberVars == <<m_state, saved, yields>>
countVars == <<m_activeThreadCount, m_idleThreadCount>>
startVars == <<m_stopping, started, m_threadIds>>
vars == <<m_tasks, fiberVars, countVars, startVars, pc, ret, cur, idleTerm>>

Init ==
  /\ m_tasks = <<>>
  /\ m_state = [t \in Tasks |-> "NEW"]
  /\ saved = Tasks                  \* makecontext: the entry point
  /\ yields = [t \in Tasks |-> 0]
  /\ m_activeThreadCount = 0
  /\ m_idleThreadCount = 0
  /\ m_stopping = FALSE
  /\ started = FALSE
  /\ m_threadIds = {}
  /\ pc = [p \in Threads |-> IF p = Main THEN "main" ELSE "unborn"]
  /\ ret = [p \in Threads |-> "run"]
  /\ cur = [p \in Threads |-> None]
  /\ idleTerm = {}

----------------------------------------------------------------------------
(* scheduleNoLock: the queue grows; a tickle is due only if it was empty. *)
Enqueue(t, thread) == Append(m_tasks, [task |-> t, thread |-> thread])

(* schedule(): thread p continues at next, through tickle() if needed. *)
Schedule(p, t, thread, next) ==
  /\ m_tasks' = Enqueue(t, thread)
  /\ IF m_tasks = <<>>
       THEN pc' = [pc EXCEPT ![p] = "tickle"] /\ ret' = [ret EXCEPT ![p] = next]
       ELSE pc' = [pc EXCEPT ![p] = next] /\ UNCHANGED ret

(* m_mutex is free: start() holds it while it creates the threads. *)
Unlocked == pc[Main] \notin {"create", "semaphore"}

(* The owner adds a task, before stop(); workers have no id before start(). *)
MainSchedules(t, thread) ==
  /\ pc[Main] = "main"
  /\ m_state[t] = "NEW"
  /\ thread \in Workers => started
  /\ m_state' = [m_state EXCEPT ![t] = "READY"]
  /\ Schedule(Main, t, thread, "main")
  /\ UNCHANGED <<saved, yields, countVars, startVars, cur, idleTerm>>

(* Scheduler::start, with m_mutex held from here to its end. *)
Start ==
  /\ pc[Main] = "main" /\ ~started
  /\ pc' = [pc EXCEPT ![Main] = "create"]
  /\ UNCHANGED <<m_tasks, fiberVars, countVars, startVars, ret, cur, idleTerm>>

(* The Thread constructor: pthread_create, then it waits for the thread. *)
CreateThread(w) ==
  /\ pc[Main] = "create" /\ pc[w] = "unborn"
  /\ pc' = [pc EXCEPT ![w] = "born", ![Main] = "semaphore"]
  /\ UNCHANGED <<m_tasks, fiberVars, countVars, startVars, ret, cur, idleTerm>>

(* Thread::run sets m_id, posts the semaphore and enters Scheduler::run. *)
ThreadRuns(w) ==
  /\ pc[w] = "born"
  /\ pc' = [pc EXCEPT ![w] = "run"]
  /\ UNCHANGED <<m_tasks, fiberVars, countVars, startVars, ret, cur, idleTerm>>

PostedAtOnce(w) == TRUE
Posted(w) == pc[w] # "born"

(* The semaphore lets the constructor return, and start() reads m_id. *)
RecordThread(w) ==
  /\ pc[Main] = "semaphore" /\ pc[w] # "unborn" /\ w \notin m_threadIds
  /\ Posted(w)
  /\ m_threadIds' = m_threadIds \cup {IF pc[w] = "born" THEN None ELSE w}
  /\ pc' = [pc EXCEPT ![Main] = "create"]
  /\ UNCHANGED <<m_tasks, fiberVars, countVars, m_stopping, started, ret, cur,
                 idleTerm>>

StartReturns ==
  /\ pc[Main] = "create" /\ \A w \in Workers : pc[w] # "unborn"
  /\ started' = TRUE
  /\ pc' = [pc EXCEPT ![Main] = "main"]
  /\ UNCHANGED <<m_tasks, fiberVars, countVars, m_stopping, m_threadIds, ret,
                 cur, idleTerm>>

(* Scheduler::stop up to the resumption of m_rootFiber or the joins. *)
Stop ==
  /\ pc[Main] = "main" /\ started
  /\ m_stopping' = TRUE
  /\ pc' = [pc EXCEPT ![Main] = IF UseCaller THEN "run" ELSE "join"]
  /\ UNCHANGED <<m_tasks, fiberVars, countVars, started, m_threadIds, ret, cur,
                 idleTerm>>

(* The joins at the end of stop(). *)
Join ==
  /\ pc[Main] = "join"
  /\ \A w \in Workers : pc[w] = "exit"
  /\ pc' = [pc EXCEPT ![Main] = "done"]
  /\ UNCHANGED <<m_tasks, fiberVars, countVars, startVars, ret, cur,
                 idleTerm>>

----------------------------------------------------------------------------
(* The task at k may run on thread p now. *)
EligibleAnywhere(p, k) == m_state[m_tasks[k].task] # "RUNNING"
EligibleIfPinned(p, k) ==
  /\ m_tasks[k].thread = p
  /\ m_state[m_tasks[k].task] # "RUNNING"
Eligible(p, k) ==
  /\ m_tasks[k].thread \in {Any, p}
  /\ m_state[m_tasks[k].task] # "RUNNING"

ElsewhereBefore(p, k) ==
  \E j \in 1 .. k - 1 : m_tasks[j].thread \notin {Any, p}

RemoveAt(s, k) == SubSeq(s, 1, k - 1) \o SubSeq(s, k + 1, Len(s))

(* The first half of run()'s loop, which finds a task and takes it. *)
Take(p) ==
  /\ pc[p] = "run" /\ Unlocked
  /\ \E k \in 1 .. Len(m_tasks) :
       /\ Eligible(p, k)
       /\ \A j \in 1 .. k - 1 : ~Eligible(p, j)
       /\ cur' = [cur EXCEPT ![p] = m_tasks[k].task]
       /\ m_tasks' = RemoveAt(m_tasks, k)
       /\ m_activeThreadCount' = m_activeThreadCount + 1
       /\ IF ElsewhereBefore(p, k) \/ k < Len(m_tasks)
            THEN pc' = [pc EXCEPT ![p] = "tickle"]
                 /\ ret' = [ret EXCEPT ![p] = "resume"]
            ELSE pc' = [pc EXCEPT ![p] = "resume"] /\ UNCHANGED ret
  /\ UNCHANGED <<fiberVars, m_idleThreadCount, startVars, idleTerm>>

(* The same half when the queue holds nothing for this thread. *)
FindNothing(p) ==
  /\ pc[p] = "run" /\ Unlocked
  /\ \A k \in 1 .. Len(m_tasks) : ~Eligible(p, k)
  /\ IF ElsewhereBefore(p, Len(m_tasks) + 1)
       THEN pc' = [pc EXCEPT ![p] = "tickle"]
            /\ ret' = [ret EXCEPT ![p] = "empty"]
       ELSE pc' = [pc EXCEPT ![p] = "empty"] /\ UNCHANGED ret
  /\ UNCHANGED <<m_tasks, fiberVars, countVars, startVars, cur,
                 idleTerm>>

(* Scheduler::tickle only logs; IOManager overrides it. *)
Tickle(p) ==
  /\ pc[p] = "tickle"
  /\ pc' = [pc EXCEPT ![p] = ret[p]]
  /\ UNCHANGED <<m_tasks, fiberVars, countVars, startVars, ret, cur,
                 idleTerm>>

(* The else branch of run(): resume the idle fiber, or leave for good. *)
EnterIdle(p) ==
  /\ pc[p] = "empty" /\ p \notin idleTerm
  /\ m_idleThreadCount' = m_idleThreadCount + 1
  /\ pc' = [pc EXCEPT ![p] = "idle"]
  /\ UNCHANGED <<m_tasks, fiberVars, m_activeThreadCount, startVars,
                 ret, cur, idleTerm>>

Leave(p) ==
  /\ pc[p] = "empty" /\ p \in idleTerm
  /\ pc' = [pc EXCEPT ![p] = IF p = Main THEN "join" ELSE "exit"]
  /\ UNCHANGED <<m_tasks, fiberVars, countVars, startVars, ret, cur,
                 idleTerm>>

(* Scheduler::stopping, one critical section. *)
StoppingIgnoresQueue == m_stopping /\ m_activeThreadCount = 0
StoppingIgnoresActive == m_stopping /\ m_tasks = <<>>
Stopping == m_stopping /\ m_tasks = <<>> /\ m_activeThreadCount = 0

(* run() after the idle fiber has yielded or ended. *)
IdleNotUncounted == m_idleThreadCount
IdleUncounted == m_idleThreadCount - 1

(* Scheduler::idle until it yields or ends, and the return to run(). *)
Idle(p) ==
  /\ pc[p] = "idle"
  /\ idleTerm' = IF Stopping THEN idleTerm \cup {p} ELSE idleTerm
  /\ m_idleThreadCount' = IdleUncounted
  /\ pc' = [pc EXCEPT ![p] = "run"]
  /\ UNCHANGED <<m_tasks, fiberVars, m_activeThreadCount, startVars,
                 ret, cur>>

----------------------------------------------------------------------------
(* m_state of the fiber that is resumed. *)
NotMarkedRunning(t) == m_state
MarkedRunning(t) == [m_state EXCEPT ![t] = "RUNNING"]

(* Fiber::resume; its assertion aborts on a RUNNING or terminated fiber. *)
Resume(p) ==
  /\ pc[p] = "resume"
  /\ m_state[cur[p]] = "READY"
  /\ WindowMissed => cur[p] \in saved
  /\ m_state' = MarkedRunning(cur[p])
  /\ saved' = saved \ {cur[p]}
  /\ pc' = [pc EXCEPT ![p] = "task"]
  /\ UNCHANGED <<m_tasks, yields, countVars, startVars, ret, cur,
                 idleTerm>>

(* The running task schedules a new one. *)
TaskSchedules(p, t, thread) ==
  /\ pc[p] = "task"
  /\ m_state[t] = "NEW"
  /\ m_state' = [m_state EXCEPT ![t] = "READY"]
  /\ Schedule(p, t, thread, "task")
  /\ UNCHANGED <<saved, yields, countVars, startVars, cur, idleTerm>>

(* It schedules itself, as a fiber must before it yields. *)
Requeue(p, pin) ==
  /\ pc[p] = "task"
  /\ yields[cur[p]] < MaxYields
  /\ yields' = [yields EXCEPT ![cur[p]] = @ + 1]
  /\ Schedule(p, cur[p], IF pin = "own" THEN p ELSE Any, "yield")
  /\ UNCHANGED <<m_state, saved, countVars, startVars, cur, idleTerm>>

(* Fiber::yield: first m_state, then swapcontext. *)
YieldState(p) ==
  /\ pc[p] = "yield"
  /\ m_state' = [m_state EXCEPT ![cur[p]] = "READY"]
  /\ pc' = [pc EXCEPT ![p] = "swap"]
  /\ UNCHANGED <<m_tasks, saved, yields, countVars, startVars, ret,
                 cur, idleTerm>>

YieldSwap(p) ==
  /\ pc[p] = "swap"
  /\ saved' = saved \cup {cur[p]}
  /\ pc' = [pc EXCEPT ![p] = "back"]
  /\ UNCHANGED <<m_tasks, m_state, yields, countVars, startVars, ret,
                 cur, idleTerm>>

(* The callback returns: MainFunc marks the fiber TERM and leaves it. *)
Finish(p) ==
  /\ pc[p] = "task"
  /\ m_state' = [m_state EXCEPT ![cur[p]] = "TERM"]
  /\ pc' = [pc EXCEPT ![p] = "back"]
  /\ UNCHANGED <<m_tasks, saved, yields, countVars, startVars, ret,
                 cur, idleTerm>>

UncountTwice == m_activeThreadCount - 2
Uncount == m_activeThreadCount - 1

(* run() after resume(): --m_activeThreadCount, task.reset(). *)
Back(p) ==
  /\ pc[p] = "back"
  /\ m_activeThreadCount' = Uncount
  /\ cur' = [cur EXCEPT ![p] = None]
  /\ pc' = [pc EXCEPT ![p] = "run"]
  /\ UNCHANGED <<m_tasks, fiberVars, m_idleThreadCount, startVars,
                 ret, idleTerm>>

RunTask(p) ==
  \/ Resume(p) \/ YieldState(p) \/ YieldSwap(p) \/ Finish(p) \/ Back(p)
  \/ \E t \in Tasks, th \in Pins : TaskSchedules(p, t, th)
  \/ \E pin \in RequeuePins : Requeue(p, pin)

RunLoop(p) ==
  ThreadRuns(p) \/ Take(p) \/ FindNothing(p) \/ EnterIdle(p) \/ Leave(p)

Starting == StartReturns \/ \E w \in Workers : CreateThread(w) \/ RecordThread(w)

Owner == \/ Start \/ Starting \/ Stop \/ Join
         \/ \E t \in Tasks, th \in Pins : MainSchedules(t, th)

(* The system has ended: stop() has returned. *)
Done == pc[Main] = "done" /\ UNCHANGED vars

Next == \/ Owner
        \/ \E p \in Threads : RunLoop(p) \/ RunTask(p) \/ Tickle(p) \/ Idle(p)
        \/ Done

Spec == Init /\ [][Next]_vars

(* Every thread keeps being scheduled by the operating system. *)
Fairness ==
  /\ WF_vars(Starting \/ Join)
  /\ \A p \in Threads :
       WF_vars(RunLoop(p) \/ RunTask(p) \/ Tickle(p) \/ Idle(p))

FairSpec == Spec /\ Fairness

----------------------------------------------------------------------------
Entries == [task : Tasks, thread : Pool \cup {Any}]
PCs == {"main", "create", "semaphore", "unborn", "born", "run", "tickle",
        "empty", "idle", "resume", "task", "yield", "swap", "back", "exit",
        "join", "done"}

(* Every variable has its type. *)
TypeQueue == m_tasks \in Seq(Entries)
TypeFibers ==
  /\ m_state \in [Tasks -> {"NEW", "READY", "RUNNING", "TERM"}]
  /\ saved \subseteq Tasks
  /\ yields \in [Tasks -> Nat]
TypeCounts == m_activeThreadCount \in Nat /\ m_idleThreadCount \in Nat
TypeFlags == m_stopping \in BOOLEAN /\ started \in BOOLEAN
TypeThreads ==
  /\ m_threadIds \subseteq Workers \cup {None}
  /\ pc \in [Threads -> PCs]
  /\ ret \in [Threads -> {"run", "main", "resume", "empty", "task", "yield"}]
  /\ cur \in [Threads -> Tasks \cup {None}]
  /\ idleTerm \subseteq Threads
TypeOK == TypeQueue /\ TypeFibers /\ TypeCounts /\ TypeFlags /\ TypeThreads

(***************************************************************************)
(* start() records the ids of its threads, and no other value: the Thread  *)
(* constructor returns only after the new thread has set its m_id, and     *)
(* the thread does not need m_mutex, which start() holds, to do so.        *)
(***************************************************************************)
ThreadIdsValid ==
  None \notin m_threadIds /\ (started => m_threadIds = Workers)

(* A thread that has taken a task and not yet counted itself out. *)
Busy(p) == cur[p] # None

(***************************************************************************)
(* The counter that decides whether stop() may finish is the number of     *)
(* threads that hold a task, however takes, yields and ends interleave.    *)
(***************************************************************************)
ActiveCountExact ==
  m_activeThreadCount = Cardinality({p \in Threads : Busy(p)})

(***************************************************************************)
(* swapcontext never restores a stale context: when a fiber is resumed,    *)
(* whichever thread it last ran on has saved the point where it yielded.   *)
(***************************************************************************)
ResumesSavedContext ==
  [][\A p \in Threads : Resume(p) => cur[p] \in saved]_vars

(***************************************************************************)
(* No fiber executes on two threads at once: one that is about to be       *)
(* resumed, some steps after it was taken from the queue, is still READY   *)
(* (the assertion of fiber.cc:147), and one that executes is RUNNING, the  *)
(* test that keeps other threads from taking it.                           *)
(***************************************************************************)
Executing(p) ==
  \/ pc[p] \in {"task", "yield"}
  \/ pc[p] = "tickle" /\ ret[p] \in {"task", "yield"}

OneThreadPerFiber ==
  /\ \A p \in Threads : pc[p] = "resume" => m_state[cur[p]] = "READY"
  /\ \A p \in Threads : Executing(p) => m_state[cur[p]] = "RUNNING"
  /\ \A p, q \in Threads :
       Executing(p) /\ Executing(q) /\ cur[p] = cur[q] => p = q

(***************************************************************************)
(* A thread leaves run() only when nothing is queued or under way, and     *)
(* nothing is afterwards: a task scheduled by a running task, by a fiber   *)
(* that requeued itself or by the owner before stop() always finds the     *)
(* threads still there.                                                    *)
(***************************************************************************)
NoEarlyLeave ==
  \A p \in Threads : p \in idleTerm =>
    m_stopping /\ m_tasks = <<>> /\ \A q \in Threads : ~Busy(q)

(***************************************************************************)
(* stop() returns when every scheduled task has run to its end             *)
(* (scheduler.h:84).                                                       *)
(***************************************************************************)
StopWaitsForTasks ==
  pc[Main] = "done" =>
    /\ \A t \in Tasks : m_state[t] \in {"NEW", "TERM"}
    /\ \A w \in Workers : pc[w] = "exit"

(* stop(), once called, returns; with StopWaitsForTasks, tasks complete. *)
StopReturns == m_stopping ~> pc[Main] = "done"

(***************************************************************************)
(* The bookkeeping of run(): the types, the count of the threads that hold *)
(* a task and the ids start() hands to schedule() for pinned tasks.        *)
(***************************************************************************)
PoolConsistent == TypeOK /\ ActiveCountExact /\ ThreadIdsValid

(***************************************************************************)
(* The scheduler keeps the promise of TaskPool: no task is lost between    *)
(* the queue, the hands of a thread and its own yield, none is queued or   *)
(* resumed twice for one submission, and stop() outlasts them all.  A task *)
(* waits while it is queued or held by a thread that is about to resume    *)
(* it; the entry a fiber queues of itself counts once the fiber has let go.*)
(***************************************************************************)
RunningOn(p) == IF Executing(p) THEN cur[p] ELSE None
ToResume(p) == pc[p] = "resume" \/ (pc[p] = "tickle" /\ ret[p] = "resume")
Queued(t) == \E k \in 1 .. Len(m_tasks) : m_tasks[k].task = t
Waits(t) ==
  /\ Queued(t) \/ \E p \in Threads : ToResume(p) /\ cur[p] = t
  /\ \A p \in Threads : RunningOn(p) # t

Promise == INSTANCE TaskPool WITH
  waiting <- {t \in Tasks : Waits(t)},
  running <- [p \in Threads |-> RunningOn(p)],
  ended <- {t \in Tasks : m_state[t] = "TERM"},
  stopped <- pc[Main] = "done"
ImplementsTaskPool == Promise!Spec
=============================================================================
