--------------------------- MODULE IOManagerProofs ---------------------------
(***************************************************************************)
(* The counters of IOManager for any finite set of workers, with or        *)
(* without the caller, any tasks and pins, and whether or not a fiber is   *)
(* swapped in too early.                                                   *)
(***************************************************************************)
EXTENDS IOManager, SchedulerProofs

(***************************************************************************)
(* Where threads are.  As in Scheduler, a thread holds a task exactly      *)
(* between taking it and counting itself out, and an owner that does not   *)
(* take part in run() stays in start(), stop() or its own code.            *)
(***************************************************************************)
IORets == {"run", "main", "resume", "empty", "task", "yield", "stop",
           "collect", "count"}
OwnerPhases == {"main", "create", "semaphore", "stop", "join", "done"}

IOThreads ==
  /\ pc \in [Threads -> IOPCs]
  /\ ret \in [Threads -> IORets]
  /\ cur \in [Threads -> Tasks \cup {None}]
IOShape ==
  /\ \A p \in Threads : Busy(p) <=> HasTask(p)
  /\ ~UseCaller => Phase(Main) \in OwnerPhases

IOFrame == TypeQueue /\ IOThreads /\ IOShape

LEMMA HolderInPool ==
  ASSUME IOFrame, NEW p \in Threads, HasTask(p)
  PROVE  cur[p] \in Tasks /\ p \in Pool
<1>1. cur[p] \in Tasks
  BY DEF IOFrame, IOThreads, IOShape, Busy
<1>2. Phase(p) \notin OwnerPhases
  BY DEF HasTask, Phase, OwnerPhases
<1> QED
  BY <1>1, <1>2 DEF IOFrame, IOShape, Pool, Threads

LEMMA IOQueueNext ==
  ASSUME IOFrame, [IONext]_allVars
  PROVE  TypeQueue'
<1> USE DEF IOFrame, TypeQueue
<1>1. ASSUME NEW t \in Tasks, NEW th \in Pool \cup {Any}
      PROVE  Enqueue(t, th) \in Seq(Entries)
  BY <1>1 DEF Enqueue, Entries
<1>2. ASSUME NEW k \in 1 .. Len(m_tasks)
      PROVE  RemoveAt(m_tasks, k) \in Seq(Entries)
  <2>1. SubSeq(m_tasks, 1, k - 1) \in Seq(Entries)
    BY SubSeqProperties
  <2>2. SubSeq(m_tasks, k + 1, Len(m_tasks)) \in Seq(Entries)
    BY SubSeqProperties
  <2> QED
    BY <2>1, <2>2, ConcatProperties DEF RemoveAt
<1>3. CASE IOOwner
  BY <1>1, <1>3, PoolAssumption
     DEF IOOwner, IOStop, StopTickles, StopJoins, Start, Starting,
         StartReturns, CreateThread, RecordThread, Join, MainSchedules,
         Schedule
<1>4. ASSUME NEW p \in Threads, RunTask(p) PROVE TypeQueue'
  <2>1. ASSUME NEW pin \in RequeuePins, Requeue(p, pin) PROVE TypeQueue'
    <3>1. cur[p] \in Tasks /\ p \in Pool
      BY <2>1, HolderInPool DEF Requeue, HasTask
    <3> QED
      BY <1>1, <2>1, <3>1 DEF Requeue, Schedule
  <2>2. ASSUME NEW t \in Tasks, NEW th \in Pins, TaskSchedules(p, t, th)
        PROVE  TypeQueue'
    BY <1>1, <2>2, PoolAssumption DEF TaskSchedules, Schedule
  <2>3. CASE UNCHANGED m_tasks
    BY <2>3
  <2> QED
    BY <1>4, <2>1, <2>2, <2>3
       DEF RunTask, Resume, YieldState, YieldSwap, Finish, Back
<1>5. ASSUME NEW p \in Threads, RunLoop(p) PROVE TypeQueue'
  BY <1>2, <1>5 DEF RunLoop, ThreadRuns, Take, FindNothing, EnterIdle, Leave
<1>6. ASSUME NEW p \in Threads,
             \/ TaskWaits(p) \/ IOTickle(p) \/ IdleLoop(p)
             \/ \E t \in Tasks : AddsTimer(p, t)
      PROVE  TypeQueue'
  BY <1>1, <1>6
     DEF TaskWaits, AddsTimer, IOTickle, Tickle, IdleLoop, IdleReadsTimers,
         IdleReadsPending, IdleReadsStopping, EpollReturns, ListExpired,
         CallbackScheduled, CallbacksScheduled, Drain, Triggers, CountsDown,
         IdleYields, Schedule, vars
<1>7. CASE External \/ UNCHANGED allVars
  BY <1>7 DEF External, EventOccurs, TimerDue, allVars, vars
<1> QED
  BY <1>3, <1>4, <1>5, <1>6, <1>7 DEF IONext, Inherited, IODone

LEMMA IOThreadsNext ==
  ASSUME IOFrame, [IONext]_allVars
  PROVE  IOThreads'
<1> USE PoolAssumption DEF IOFrame, IOThreads, IOPCs, PCs, IORets, Threads
<1>1. CASE IOOwner
  BY <1>1 DEF IOOwner, IOStop, StopTickles, StopJoins, Start, Starting,
              StartReturns, CreateThread, RecordThread, Join, MainSchedules,
              Schedule, startVars
<1>2. ASSUME NEW p \in Threads, RunLoop(p) PROVE IOThreads'
  BY ZenonT(60), <1>2, TakenEntry
     DEF RunLoop, ThreadRuns, Take, FindNothing, EnterIdle,
         Leave
<1>3. ASSUME NEW p \in Threads, RunTask(p) PROVE IOThreads'
  BY <1>3 DEF RunTask, Resume, YieldState, YieldSwap, Finish, Back,
              TaskSchedules, Requeue, Schedule
<1>4. ASSUME NEW p \in Threads,
             \/ TaskWaits(p) \/ IOTickle(p) \/ IdleLoop(p)
             \/ \E t \in Tasks : AddsTimer(p, t)
      PROVE  IOThreads'
  BY <1>4
     DEF TaskWaits, AddsTimer, IOTickle, Tickle, IdleLoop, IdleReadsTimers,
         IdleReadsPending, IdleReadsStopping, EpollReturns, ListExpired,
         CallbackScheduled, CallbacksScheduled, Drain, Triggers, CountsDown,
         IdleYields, Schedule, vars
<1>5. CASE External \/ UNCHANGED allVars
  BY <1>5 DEF External, EventOccurs, TimerDue, allVars, vars
<1> QED
  BY <1>1, <1>2, <1>3, <1>4, <1>5 DEF IONext, Inherited, IODone

LEMMA IOShapeNext ==
  ASSUME IOFrame, [IONext]_allVars
  PROVE  IOShape'
<1> USE PoolAssumption DEF IOFrame, IOThreads, Threads, Phase, OwnerPhases
<1>1. CASE IOOwner
  BY <1>1 DEF IOOwner, IOStop, StopTickles, StopJoins, Start, Starting,
              StartReturns, CreateThread, RecordThread, Join, MainSchedules,
              Schedule, IOShape, Busy, HasTask
<1>2. ASSUME NEW p \in Threads, RunLoop(p) PROVE IOShape'
  <2>1. CASE Take(p)
    <3>1. PICK k \in 1 .. Len(m_tasks) :
             cur' = [cur EXCEPT ![p] = m_tasks[k].task]
      BY <2>1 DEF Take
    <3>2. cur'[p] # None
      BY <3>1, TakenEntry
    <3>3. /\ \A q \in Threads \ {p} : /\ cur'[q] = cur[q] /\ pc'[q] = pc[q]
                                       /\ ret'[q] = ret[q]
          /\ pc[p] = "run"
          /\ \/ pc'[p] = "resume"
             \/ pc'[p] = "tickle" /\ ret'[p] = "resume"
      BY <2>1, <3>1 DEF Take
    <3> QED
      BY <3>2, <3>3 DEF IOShape, Busy, HasTask
  <2> QED
    BY <1>2, <2>1 DEF RunLoop, ThreadRuns, FindNothing, EnterIdle, Leave,
                      IOShape, Busy, HasTask
<1>3. ASSUME NEW p \in Threads, RunTask(p) PROVE IOShape'
  BY <1>3 DEF RunTask, Resume, YieldState, YieldSwap, Finish, Back,
              TaskSchedules, Requeue, Schedule, IOShape, Busy, HasTask
<1>4. ASSUME NEW p \in Threads,
             \/ TaskWaits(p) \/ IOTickle(p) \/ IdleLoop(p)
             \/ \E t \in Tasks : AddsTimer(p, t)
      PROVE  IOShape'
  <2>1. CASE TaskWaits(p) \/ Tickle(p)
    BY <2>1 DEF TaskWaits, Tickle, IORets, IOShape, Busy, HasTask
  <2>2. CASE \/ IdleReadsTimers(p) \/ IdleReadsPending(p)
             \/ IdleReadsStopping(p) \/ EpollReturns(p) \/ ListExpired(p)
    BY <2>2 DEF IdleReadsTimers, IdleReadsPending, IdleReadsStopping,
                EpollReturns, ListExpired, IOShape, Busy, HasTask
  <2>3. CASE Drain(p) \/ CountsDown(p) \/ IdleYields(p)
    BY <2>3 DEF CallbacksScheduled, Drain, CountsDown, IdleYields, vars,
                IOShape, Busy, HasTask
  <2>4. ASSUME NEW t \in Tasks, Triggers(p, t) PROVE IOShape'
    BY <2>4 DEF CallbacksScheduled, Triggers, Schedule, IOShape, Busy, HasTask
  <2>5. ASSUME NEW t \in Tasks, CallbackScheduled(p, t) PROVE IOShape'
    BY <2>5 DEF CallbackScheduled, Schedule, IOShape, Busy, HasTask
  <2>6. ASSUME NEW t \in Tasks, AddsTimer(p, t) PROVE IOShape'
    BY <2>6 DEF AddsTimer, IOShape, Busy, HasTask
  <2> QED
    BY <1>4, <2>1, <2>2, <2>3, <2>4, <2>5, <2>6 DEF IOTickle, IdleLoop
<1>5. CASE External \/ UNCHANGED allVars
  BY <1>5 DEF External, EventOccurs, TimerDue, allVars, vars, IOShape, Busy,
              HasTask
<1> QED
  BY <1>1, <1>2, <1>3, <1>4, <1>5 DEF IONext, Inherited, IODone

----------------------------------------------------------------------------
(***************************************************************************)
(* The two counters of the scheduler.  Take and Back change which threads  *)
(* hold a task; EnterIdle and the two ends of idle() which are inside it.  *)
(***************************************************************************)
InIdleThreads == {p \in Threads : InIdle(p)}

LEMMA IOBusyNext ==
  ASSUME IOFrame, ActiveCountExact, [IONext]_allVars
  PROVE  ActiveCountExact'
<1> USE DEF IOFrame, IOThreads
<1>1. IsFiniteSet(BusyThreads)
  BY ThreadsFinite, FS_Subset DEF BusyThreads
<1>2. ASSUME NEW p \in Threads, Take(p) PROVE ActiveCountExact'
  <2>1. PICK k \in 1 .. Len(m_tasks) :
           cur' = [cur EXCEPT ![p] = m_tasks[k].task]
    BY <1>2 DEF Take
  <2>2. m_tasks[k].task # None
    BY TakenEntry, PoolAssumption
  <2>3. p \notin BusyThreads
    BY <1>2 DEF Take, IOShape, HasTask, BusyThreads
  <2>4. BusyThreads' = BusyThreads \cup {p}
    BY <2>1, <2>2 DEF BusyThreads, Busy
  <2>5. Cardinality(BusyThreads') = Cardinality(BusyThreads) + 1
    BY <1>1, <2>3, <2>4, FS_AddElement
  <2> QED
    BY <1>2, <2>5 DEF Take, ActiveCountExact, BusyThreads
<1>3. ASSUME NEW p \in Threads, Back(p) PROVE ActiveCountExact'
  <2>1. p \in BusyThreads
    BY <1>3 DEF Back, IOShape, HasTask, BusyThreads
  <2>2. BusyThreads' = BusyThreads \ {p}
    BY <1>3 DEF BusyThreads, Busy, Back
  <2>3. Cardinality(BusyThreads') = Cardinality(BusyThreads) - 1
    BY <1>1, <2>1, <2>2, FS_RemoveElement
  <2> QED
    BY <1>3, <2>3 DEF Back, Uncount, ActiveCountExact, BusyThreads
<1>4. CASE UNCHANGED <<cur, m_activeThreadCount>>
  BY <1>4 DEF ActiveCountExact, Busy
<1>5. CASE IOOwner
  BY <1>4, <1>5
     DEF IOOwner, IOStop, StopTickles, StopJoins, Start, Starting,
         StartReturns, CreateThread, RecordThread, Join, MainSchedules,
         countVars
<1>6. ASSUME NEW p \in Threads, RunLoop(p) \/ RunTask(p)
      PROVE  ActiveCountExact'
  BY <1>2, <1>3, <1>4, <1>6
     DEF RunLoop, RunTask, ThreadRuns, FindNothing, EnterIdle, Leave, Resume,
         YieldState, YieldSwap, Finish, TaskSchedules, Requeue, countVars
<1>7. ASSUME NEW p \in Threads,
             \/ TaskWaits(p) \/ IOTickle(p) \/ IdleLoop(p)
             \/ \E t \in Tasks : AddsTimer(p, t)
      PROVE  ActiveCountExact'
  BY <1>4, <1>7
     DEF TaskWaits, AddsTimer, IOTickle, Tickle, IdleLoop, IdleReadsTimers,
         IdleReadsPending, IdleReadsStopping, EpollReturns, ListExpired,
         CallbackScheduled, CallbacksScheduled, Drain, Triggers, CountsDown,
         IdleYields, vars, countVars
<1>8. CASE External \/ UNCHANGED allVars
  BY <1>4, <1>8 DEF External, EventOccurs, TimerDue, allVars, vars, countVars
<1> QED
  BY <1>5, <1>6, <1>7, <1>8 DEF IONext, Inherited, IODone

LEMMA IOIdleNext ==
  ASSUME IOFrame, IdleCountExact, [IONext]_allVars
  PROVE  IdleCountExact'
<1> USE DEF IOFrame, IOThreads
<1>1. IsFiniteSet(InIdleThreads)
  BY ThreadsFinite, FS_Subset DEF InIdleThreads
<1>2. ASSUME NEW p \in Threads, EnterIdle(p) PROVE IdleCountExact'
  <2>1. p \notin InIdleThreads /\ InIdleThreads' = InIdleThreads \cup {p}
    BY <1>2 DEF EnterIdle, InIdleThreads, InIdle
  <2>2. Cardinality(InIdleThreads') = Cardinality(InIdleThreads) + 1
    BY <1>1, <2>1, FS_AddElement
  <2> QED
    BY <1>2, <2>2 DEF EnterIdle, IdleCountExact, InIdleThreads
<1>3. ASSUME NEW p \in Threads, InIdle(p), pc' = [pc EXCEPT ![p] = "run"],
             UNCHANGED ret, m_idleThreadCount' = IdleUncounted
      PROVE  IdleCountExact'
  <2>1. p \in InIdleThreads /\ InIdleThreads' = InIdleThreads \ {p}
    BY <1>3 DEF InIdleThreads, InIdle
  <2>2. Cardinality(InIdleThreads') = Cardinality(InIdleThreads) - 1
    BY <1>1, <2>1, FS_RemoveElement
  <2> QED
    BY <1>3, <2>2 DEF IdleUncounted, IdleCountExact, InIdleThreads
<1>4. ASSUME UNCHANGED m_idleThreadCount,
             \A p \in Threads : InIdle(p)' <=> InIdle(p)
      PROVE  IdleCountExact'
  BY <1>4 DEF IdleCountExact
<1>5. CASE IOOwner
  BY <1>4, <1>5, PoolAssumption
     DEF IOOwner, IOStop, StopTickles, StopJoins, Start, Starting,
         StartReturns, CreateThread, RecordThread, Join, MainSchedules,
         Schedule, countVars, InIdle, Threads
<1>6. ASSUME NEW p \in Threads, RunLoop(p) PROVE IdleCountExact'
  BY <1>2, <1>4, <1>6
     DEF RunLoop, ThreadRuns, Take, FindNothing, Leave, countVars, InIdle
<1>7. ASSUME NEW p \in Threads, RunTask(p) PROVE IdleCountExact'
  BY <1>4, <1>7
     DEF RunTask, Resume, YieldState, YieldSwap, Finish, Back, TaskSchedules,
         Requeue, Schedule, countVars, InIdle
<1>8. ASSUME NEW p \in Threads, TaskWaits(p) \/ IOTickle(p)
                       \/ (\E t \in Tasks : AddsTimer(p, t))
      PROVE  IdleCountExact'
  <2>1. ASSUME TaskWaits(p) \/ Tickle(p) PROVE IdleCountExact'
    BY <1>4, <2>1 DEF TaskWaits, Tickle, IORets, countVars, InIdle
  <2>2. ASSUME NEW t \in Tasks, AddsTimer(p, t) PROVE IdleCountExact'
    BY <1>4, <2>2 DEF AddsTimer, countVars, InIdle
  <2> QED
    BY <1>8, <2>1, <2>2 DEF IOTickle
<1>9. ASSUME NEW p \in Threads, IdleLoop(p) PROVE IdleCountExact'
  <2>1. CASE IdleReadsStopping(p) \/ IdleYields(p)
    BY <1>3, <1>4, <2>1
       DEF IdleReadsStopping, CallbacksScheduled, IdleYields, InIdle
  <2>2. CASE \/ IdleReadsTimers(p) \/ IdleReadsPending(p) \/ EpollReturns(p)
             \/ ListExpired(p) \/ Drain(p) \/ CountsDown(p)
    BY <1>4, <2>2
       DEF IdleReadsTimers, IdleReadsPending, EpollReturns, ListExpired,
           CallbacksScheduled, Drain, CountsDown, countVars, vars, InIdle
  <2>3. ASSUME NEW t \in Tasks, Triggers(p, t) PROVE IdleCountExact'
    BY <1>4, <2>3 DEF CallbacksScheduled, Triggers, Schedule, countVars, InIdle
  <2>4. ASSUME NEW t \in Tasks, CallbackScheduled(p, t) PROVE IdleCountExact'
    BY <1>4, <2>4 DEF CallbackScheduled, Schedule, countVars, InIdle
  <2> QED
    BY <1>9, <2>1, <2>2, <2>3, <2>4 DEF IdleLoop
<1>10. CASE External \/ UNCHANGED allVars
  BY <1>4, <1>10
     DEF External, EventOccurs, TimerDue, allVars, vars, countVars, InIdle
<1> QED
  BY <1>5, <1>6, <1>7, <1>8, <1>9, <1>10 DEF IONext, Inherited, IODone

----------------------------------------------------------------------------
(***************************************************************************)
(* What epoll_wait returned: an event of a batch belongs to a registered   *)
(* fiber and is in one place only, a batch or the ready list, so that it   *)
(* is handled once.                                                        *)
(***************************************************************************)
Registered ==
  /\ waiting \subseteq Tasks /\ IsFiniteSet(waiting)
  /\ batch \in [Threads -> SUBSET (Tasks \cup {Pipe})]
  /\ fired \subseteq waiting
  /\ \A p \in Threads, t \in Tasks :
       t \in batch[p] => t \in waiting /\ t \notin fired
  /\ \A p, q \in Threads, t \in Tasks :
       t \in batch[p] /\ t \in batch[q] => p = q

LEMMA RegisteredNext ==
  ASSUME IOFrame, Registered, [IONext]_allVars
  PROVE  Registered'
<1> USE PipeAssumption DEF Registered
<1>1. ASSUME NEW p \in Threads, TaskWaits(p) PROVE Registered'
  <2>1. cur[p] \in Tasks
    BY <1>1, HolderInPool DEF TaskWaits, HasTask
  <2>2. IsFiniteSet(waiting')
    BY <1>1, FS_AddElement DEF TaskWaits
  <2> QED
    BY <1>1, <2>1, <2>2 DEF TaskWaits
<1>2. ASSUME NEW p \in Threads, EpollReturns(p) PROVE Registered'
  <2>1. /\ batch' = [batch EXCEPT ![p] = fired \cup (IF piped THEN {Pipe} ELSE {})]
        /\ fired' = {} /\ waiting' = waiting
    BY <1>2 DEF EpollReturns
  <2>2. \A t \in Tasks : t \in batch'[p] <=> t \in fired
    BY <2>1
  <2>3. \A q \in Threads \ {p} : batch'[q] = batch[q]
    BY <2>1
  <2>4. batch' \in [Threads -> SUBSET (Tasks \cup {Pipe})]
    BY <2>1
  <2> QED
    BY <2>1, <2>2, <2>3, <2>4
<1>3. ASSUME NEW p \in Threads, Drain(p) PROVE Registered'
  BY <1>3 DEF Drain
<1>4. ASSUME NEW p \in Threads, NEW t \in Tasks, Triggers(p, t)
      PROVE  Registered'
  <2>1. IsFiniteSet(waiting')
    BY <1>4, FS_RemoveElement DEF Triggers, Unregistered
  <2>2. /\ batch' = [batch EXCEPT ![p] = @ \ {t}] /\ t \in batch[p]
        /\ fired' = fired /\ waiting' = waiting \ {t}
    BY <1>4 DEF Triggers, Unregistered
  <2>3. \A q \in Threads, u \in Tasks :
          u \in batch'[q] <=> u \in batch[q] /\ u # t
    BY <2>2
  <2> QED
    BY <2>1, <2>2, <2>3
<1>5. ASSUME NEW t \in Tasks, EventOccurs(t) PROVE Registered'
  BY <1>5 DEF EventOccurs
<1>6. CASE UNCHANGED <<waiting, fired, batch>>
  BY <1>6
<1>7. CASE IOOwner
  BY <1>6, <1>7 DEF IOOwner, IOStop, StopTickles, StopJoins, ioVars
<1>8. ASSUME NEW p \in Threads,
             \/ Inherited(p) \/ IOTickle(p) \/ IdleLoop(p)
             \/ \E t \in Tasks : AddsTimer(p, t)
      PROVE  Registered'
  BY <1>2, <1>3, <1>4, <1>6, <1>8
     DEF Inherited, AddsTimer, IOTickle, IdleLoop, IdleReadsTimers,
         IdleReadsPending, IdleReadsStopping, ListExpired, CallbackScheduled,
         CountsDown, IdleYields, ioVars
<1>9. ASSUME NEW t \in Tasks, TimerDue(t) PROVE Registered'
  BY <1>6, <1>9 DEF TimerDue
<1> QED
  BY <1>1, <1>5, <1>6, <1>7, <1>8, <1>9
     DEF IONext, External, IODone, allVars, ioVars

(* The registered fibers and the pending count.                            *)
CountingThreads == {p \in Threads : Counting(p)}

LEMMA CountingFinite == IsFiniteSet(CountingThreads)
BY ThreadsFinite, FS_Subset DEF CountingThreads


----------------------------------------------------------------------------
(***************************************************************************)
(* The tokens of Scheduler with a third place where a task may be: it is   *)
(* registered for an event.  A task that yields is queued or registered.   *)
(***************************************************************************)
States == {"NEW", "READY", "RUNNING", "TERM"}

Exclusive(t) ==
  /\ t \in waiting =>
       /\ \A k \in Nat : ~InQueue(k, t)
       /\ \A p \in Threads : ~At(p, t, "resume") /\ ~At(p, t, "task")
  /\ m_state[t] \in {"NEW", "TERM"} => t \notin waiting

Known(t) ==
  /\ \/ m_state[t] \in {"NEW", "TERM"}
     \/ \E k \in Nat : InQueue(k, t)
     \/ \E p \in Threads : Holds(p, t)
     \/ t \in waiting
  /\ \A p \in Threads :
       At(p, t, "yield") => t \in waiting \/ \E k \in Nat : InQueue(k, t)

IOTokens ==
  /\ m_state \in [Tasks -> States] /\ saved \subseteq Tasks
  /\ \A t \in Tasks : Token(t) /\ Exclusive(t) /\ Known(t)

(* Two more kinds of step. *)
IsWait(p) ==
  /\ Moves(p, "task", "yield") /\ waiting' = waiting \cup {cur[p]}
  /\ UNCHANGED <<cur, m_tasks, m_state>>
IsTriggered(t) ==
  /\ t \in waiting /\ waiting' = waiting \ {t} /\ Queues(t, Any)
  /\ UNCHANGED m_state
  /\ \A p \in Threads, u \in Tasks, phase \in {"resume", "task", "yield"} :
       At(p, u, phase)' <=> At(p, u, phase)

LEMMA IOTaskKinds ==
  ASSUME IOFrame, NEW p \in Threads, RunTask(p)
  PROVE  \/ \E t \in Tasks, th \in Pins : IsNew(t, th)
         \/ \E th \in Pool \cup {Any} : IsRequeue(p, th)
         \/ IsStateChange(p, "resume", "RUNNING", "task")
         \/ IsStateChange(p, "yield", "READY", "swap")
         \/ IsStateChange(p, "task", "TERM", "back")
         \/ IsOther
<1> USE DEF IOFrame, IOThreads, Phase
<1>1. ASSUME NEW t \in Tasks, NEW th \in Pins, TaskSchedules(p, t, th)
      PROVE  IsNew(t, th)
  BY <1>1 DEF TaskSchedules, Schedule, IsNew, SetsState, Queues
<1>2. ASSUME NEW pin \in RequeuePins, Requeue(p, pin)
      PROVE  \E th \in Pool \cup {Any} : IsRequeue(p, th)
  <2>1. p \in Pool
    BY <1>2, HolderInPool DEF Requeue, HasTask
  <2>2. IsRequeue(p, IF pin = "own" THEN p ELSE Any)
    BY <1>2 DEF Requeue, Schedule, IsRequeue, Queues, Moves
  <2> QED
    BY <2>1, <2>2
<1>3. CASE Resume(p)
  BY <1>3 DEF Resume, MarkedRunning, IsStateChange, Moves, SetsState
<1>4. CASE YieldState(p)
  BY <1>4 DEF YieldState, IsStateChange, Moves, SetsState
<1>5. CASE Finish(p)
  BY <1>5 DEF Finish, IsStateChange, Moves, SetsState
<1>6. CASE YieldSwap(p)
  BY <1>6 DEF YieldSwap, IsOther, At
<1>7. CASE Back(p)
  BY <1>7 DEF Back, IsOther, At, fiberVars
<1> QED
  BY <1>1, <1>2, <1>3, <1>4, <1>5, <1>6, <1>7 DEF RunTask

LEMMA IOKinds ==
  ASSUME IOFrame, Registered, [IONext]_allVars
  PROVE  \/ /\ UNCHANGED waiting
            /\ \/ \E t \in Tasks, th \in Pins \cup {Any} : IsNew(t, th)
               \/ \E p \in Threads, k \in 1 .. Len(m_tasks) : IsTake(p, k)
               \/ \E p \in Threads, th \in Pool \cup {Any} : IsRequeue(p, th)
               \/ \E p \in Threads :
                    \/ IsStateChange(p, "resume", "RUNNING", "task")
                    \/ IsStateChange(p, "yield", "READY", "swap")
                    \/ IsStateChange(p, "task", "TERM", "back")
               \/ IsOther
         \/ \E p \in Threads : IsWait(p)
         \/ \E t \in Tasks : IsTriggered(t)
<1> USE DEF IOFrame, IOThreads, Phase
<1>1. ASSUME NEW t \in Tasks, NEW th \in Pins, MainSchedules(t, th)
      PROVE  IsNew(t, th)
  BY <1>1 DEF MainSchedules, Schedule, IsNew, SetsState, Queues, Threads
<1>2. ASSUME Start \/ Starting \/ Join \/ IOStop \/ StopTickles \/ StopJoins
      PROVE  IsOther
  <2>1. CASE Start \/ Starting \/ Join
    BY <2>1, PoolAssumption
       DEF Start, Starting, StartReturns, CreateThread, RecordThread, Join,
           IsOther, At, fiberVars, Threads
  <2>2. CASE IOStop \/ StopTickles \/ StopJoins
    BY <2>2, PoolAssumption
       DEF IOStop, StopTickles, StopJoins, IsOther, At, fiberVars, Threads
  <2> QED
    BY <1>2, <2>1, <2>2
<1>3. CASE IOOwner
  BY <1>1, <1>2, <1>3
     DEF IOOwner, IOStop, StopTickles, StopJoins, ioVars
<1>4. ASSUME NEW p \in Threads, RunLoop(p)
      PROVE  (\E k \in 1 .. Len(m_tasks) : IsTake(p, k)) \/ IsOther
  <2>1. CASE Take(p)
    BY <2>1 DEF Take, Eligible, IsTake, Moves, fiberVars
  <2>2. CASE ThreadRuns(p) \/ FindNothing(p) \/ EnterIdle(p) \/ Leave(p)
    BY <2>2 DEF ThreadRuns, FindNothing, EnterIdle, Leave, IsOther, At,
                fiberVars
  <2> QED
    BY <1>4, <2>1, <2>2 DEF RunLoop
<1>5. ASSUME NEW p \in Threads, TaskWaits(p) PROVE IsWait(p)
  BY <1>5 DEF TaskWaits, IsWait, Moves
<1>6. ASSUME NEW p \in Threads, NEW t \in Tasks, Triggers(p, t)
      PROVE  IsTriggered(t)
  BY <1>6
     DEF CallbacksScheduled, Triggers, Unregistered, Schedule, IsTriggered,
         Queues, At, Registered, fiberVars
<1>7. ASSUME NEW p \in Threads, IOTickle(p) \/ IdleLoop(p)
      PROVE  \/ \E t \in Tasks : IsTriggered(t)
             \/ UNCHANGED waiting /\ \E t \in Tasks : IsNew(t, Any)
             \/ UNCHANGED waiting /\ IsOther
  <2>1. CASE IOTickle(p)
    BY <2>1 DEF IOTickle, Tickle, IsOther, At, fiberVars
  <2>2. CASE \/ IdleReadsTimers(p) \/ IdleReadsPending(p)
             \/ IdleReadsStopping(p) \/ EpollReturns(p) \/ ListExpired(p)
    BY <2>2 DEF IdleReadsTimers, IdleReadsPending, IdleReadsStopping,
                EpollReturns, ListExpired, IsOther, At, fiberVars
  <2>3. CASE Drain(p) \/ CountsDown(p) \/ IdleYields(p)
    BY <2>3
       DEF CallbacksScheduled, Drain, CountsDown, IdleYields, vars, ioVars,
           IsOther, At, fiberVars
  <2>4. ASSUME NEW t \in Tasks, CallbackScheduled(p, t)
        PROVE  UNCHANGED waiting /\ IsNew(t, Any)
    BY <2>4 DEF CallbackScheduled, Schedule, IsNew, SetsState, Queues
  <2> QED
    BY <1>6, <1>7, <2>1, <2>2, <2>3, <2>4 DEF IdleLoop
<1>8. External \/ UNCHANGED allVars => IsOther
  BY DEF External, EventOccurs, TimerDue, allVars, vars, fiberVars, IsOther, At
<1>9. External \/ UNCHANGED allVars => UNCHANGED waiting
  BY DEF External, EventOccurs, TimerDue, allVars, ioVars
<1>10. ASSUME IOOwner PROVE UNCHANGED waiting
  BY <1>10 DEF IOOwner, IOStop, StopTickles, StopJoins, ioVars
<1>11. ASSUME NEW p \in Threads, Inherited(p)
       PROVE  UNCHANGED waiting /\ (RunLoop(p) \/ RunTask(p))
  BY <1>11 DEF Inherited, ioVars
<1>12. CASE \E p \in Threads : Inherited(p)
  BY <1>4, <1>11, <1>12, IOTaskKinds
<1>13. ASSUME NEW p \in Threads, NEW t \in Tasks, AddsTimer(p, t)
       PROVE  UNCHANGED waiting /\ IsOther
  BY <1>13 DEF AddsTimer, IsOther, At, fiberVars
<1> QED
  BY <1>3, <1>5, <1>7, <1>8, <1>9, <1>10, <1>12, <1>13 DEF IONext, IODone

Placed(t) == Token(t) /\ Exclusive(t) /\ Known(t)

LEMMA PlacedWhenNew ==
  ASSUME IOFrame, IOTokens, NEW t \in Tasks, UNCHANGED waiting,
         NEW u \in Tasks, NEW th \in Pins \cup {Any}, IsNew(u, th)
  PROVE  Placed(t)'
<1> USE DEF IOFrame, IOTokens, IOThreads
<1>1. Token(t) /\ Exclusive(t) /\ Known(t)
  OBVIOUS
<1>2. \A k \in Nat :
        InQueue(k, t)' <=> InQueue(k, t) \/ (k = Len(m_tasks) + 1 /\ t = u)
  BY AfterEnqueue, PoolAssumption DEF IsNew
<1>3. \A p \in Threads, phase \in {"resume", "task", "yield"} :
        At(p, t, phase)' <=> At(p, t, phase)
  BY DEF IsNew, At
<1>4. m_state'[t] = IF t = u THEN "READY" ELSE m_state[t]
  BY DEF IsNew, SetsState
<1>5. Len(m_tasks) + 1 \in Nat
  BY DEF TypeQueue
<1>6. Token(t)' /\ Exclusive(t)'
  BY <1>1, <1>2, <1>3, <1>4 DEF IsNew, Token, Exclusive, Holds
<1>7. Known(t)'
  BY <1>1, <1>2, <1>3, <1>4, <1>5 DEF Known, Holds
<1> QED
  BY <1>6, <1>7 DEF Placed

LEMMA PlacedWhenTaken ==
  ASSUME IOFrame, IOTokens, NEW t \in Tasks, UNCHANGED waiting,
         NEW p \in Threads, NEW k \in 1 .. Len(m_tasks), IsTake(p, k)
  PROVE  Placed(t)'
<1> USE DEF IOFrame, IOTokens, IOThreads
<1> DEFINE u == m_tasks[k].task
<1>1. u \in Tasks /\ k \in Nat /\ InQueue(k, u)
  BY TakenEntry DEF InQueue, TypeQueue
<1>2. \A j \in Nat :
        InQueue(j, t)' <=>
          \/ j < k /\ InQueue(j, t)
          \/ j >= k /\ InQueue(j + 1, t)
  <2>1. TypeQueue /\ m_tasks' = RemoveAt(m_tasks, k)
    BY DEF IsTake
  <2> QED
    BY <2>1, AfterTake
<1>3. \A q \in Threads, phase \in {"resume", "task", "yield"} :
        At(q, t, phase)' <=>
          IF q = p THEN t = u /\ phase = "resume" ELSE At(q, t, phase)
  BY <1>1 DEF IsTake, Moves, At
<1>4. m_state' = m_state /\ m_state[u] # "RUNNING"
  BY DEF IsTake
<1>5. \A phase \in {"resume", "task", "yield"} : ~At(p, t, phase)
  BY DEF IsTake, Moves, At
<1>6. Token(t) /\ Exclusive(t) /\ Known(t)
  OBVIOUS
<1> HIDE DEF u
<1>7. CASE t = u
  <2>1. m_state[t] = "READY"
    BY <1>1, <1>4, <1>6, <1>7 DEF Token, States
  <2>2. \A j \in Nat : ~InQueue(j, t)'
    BY <1>1, <1>2, <1>6, <1>7 DEF Token
  <2>3. \A q \in Threads : ~Holds(q, t)
    BY <1>1, <1>4, <1>6, <1>7 DEF Token, Holds
  <2>4. t \notin waiting
    BY <1>1, <1>6, <1>7 DEF Exclusive
  <2>5. Token(t)'
    BY <1>3, <1>4, <1>7, <2>1, <2>2, <2>3 DEF Token, Holds
  <2>6. Exclusive(t)' /\ Known(t)'
    BY <1>3, <1>4, <1>7, <2>1, <2>3, <2>4 DEF Exclusive, Known, Holds
  <2> QED
    BY <2>5, <2>6 DEF Placed
<1>8. CASE t # u
  <2>1. Token(t)'
    BY SMTT(30), <1>1, <1>2, <1>3, <1>4, <1>5, <1>6, <1>8 DEF Token, Holds
  <2>2. Exclusive(t)'
    BY <1>1, <1>2, <1>3, <1>4, <1>6, <1>8 DEF Exclusive
  <2>3. ASSUME NEW j \in Nat, InQueue(j, t)
        PROVE  \E i \in Nat : InQueue(i, t)'
    <3>1. j # k
      BY <1>1, <1>8, <2>3 DEF InQueue, u
    <3>2. CASE j < k
      BY <1>1, <1>2, <2>3, <3>2
    <3>3. CASE j > k
      <4>1. j - 1 \in Nat /\ j - 1 >= k /\ (j - 1) + 1 = j
        BY <1>1, <3>3
      <4> QED
        BY <1>2, <2>3, <4>1
    <3> QED
      BY <1>1, <3>1, <3>2, <3>3
  <2>4. Known(t)'
    BY <1>3, <1>4, <1>5, <1>6, <1>8, <2>3 DEF Known, Holds
  <2> QED
    BY <2>1, <2>2, <2>4 DEF Placed
<1> QED
  BY <1>7, <1>8

LEMMA PlacedWhenYielding ==
  ASSUME IOFrame, IOTokens, NEW t \in Tasks, NEW p \in Threads,
         \/ UNCHANGED waiting /\ \E th \in Pool \cup {Any} : IsRequeue(p, th)
         \/ IsWait(p)
  PROVE  Placed(t)'
<1> USE DEF IOFrame, IOTokens, IOThreads
<1>1. Moves(p, "task", "yield") /\ UNCHANGED <<cur, m_state>>
  BY DEF IsRequeue, IsWait
<1>2. cur[p] \in Tasks
  BY <1>1, HolderInPool DEF Moves, Phase, HasTask
<1>3. \A q \in Threads, phase \in {"resume", "task", "yield"} :
        At(q, t, phase)' <=>
          IF q = p THEN t = cur[p] /\ phase = "yield" ELSE At(q, t, phase)
  BY <1>1 DEF Moves, At
<1>4. \A phase \in {"resume", "task", "yield"} :
        At(p, t, phase) <=> t = cur[p] /\ phase = "task"
  BY <1>1 DEF Moves, At
<1>5. Token(t) /\ Exclusive(t) /\ Known(t)
  OBVIOUS
<1>6. CASE UNCHANGED waiting /\ \E th \in Pool \cup {Any} : IsRequeue(p, th)
  <2>1. \A k \in Nat :
          InQueue(k, t)' <=>
            InQueue(k, t) \/ (k = Len(m_tasks) + 1 /\ t = cur[p])
    BY <1>2, <1>6, AfterEnqueue DEF IsRequeue
  <2>2. Len(m_tasks) + 1 \in Nat
    BY DEF TypeQueue
  <2>3. Token(t)'
    BY <1>1, <1>3, <1>4, <1>5, <2>1 DEF Token, Holds
  <2>4. Exclusive(t)' /\ Known(t)'
    BY <1>1, <1>3, <1>4, <1>5, <1>6, <2>1, <2>2 DEF Exclusive, Known, Holds
  <2> QED
    BY <2>3, <2>4 DEF Placed
<1>7. CASE IsWait(p)
  <2>1. \A k \in Nat : InQueue(k, t)' <=> InQueue(k, t)
    BY <1>7 DEF IsWait, InQueue
  <2>2. t \in waiting' <=> t \in waiting \/ t = cur[p]
    BY <1>7 DEF IsWait
  <2>3. t = cur[p] => m_state[t] = "RUNNING" /\ \A k \in Nat : ~InQueue(k, t)
    BY <1>4, <1>5 DEF Token
  <2>4. Token(t)'
    BY <1>1, <1>3, <1>4, <1>5, <2>1 DEF Token, Holds
  <2>5. \A q \in Threads : t = cur[p] =>
          ~At(q, t, "resume")' /\ ~At(q, t, "task")'
    BY <1>3, <1>4, <1>5 DEF Token, Holds
  <2>6. Exclusive(t)'
    BY <1>1, <1>3, <1>5, <2>1, <2>2, <2>3, <2>5 DEF Exclusive
  <2>7. Known(t)'
    BY <1>1, <1>3, <1>4, <1>5, <2>1, <2>2 DEF Known, Holds
  <2> QED
    BY <2>4, <2>6, <2>7 DEF Placed
<1> QED
  BY <1>6, <1>7

LEMMA PlacedWhenResumed ==
  ASSUME IOFrame, IOTokens, NEW t \in Tasks, UNCHANGED waiting,
         NEW p \in Threads,
         \/ IsStateChange(p, "resume", "RUNNING", "task")
         \/ IsStateChange(p, "yield", "READY", "swap")
         \/ IsStateChange(p, "task", "TERM", "back")
  PROVE  Placed(t)'
<1> USE DEF IOFrame, IOTokens, IOThreads
<1>1. cur[p] \in Tasks
  BY HolderInPool DEF IsStateChange, Moves, Phase, HasTask
<1>2. \A k \in Nat : InQueue(k, t)' <=> InQueue(k, t)
  BY DEF IsStateChange, InQueue
<1>3. ASSUME NEW q \in Threads \ {p}, NEW phase \in {"resume", "task", "yield"}
      PROVE  At(q, t, phase)' <=> At(q, t, phase)
  BY <1>3 DEF IsStateChange, Moves, At
<1>4. t # cur[p] => m_state'[t] = m_state[t]
  BY <1>1 DEF IsStateChange, SetsState
<1>5. Token(t) /\ Exclusive(t) /\ Known(t)
  OBVIOUS
<1>6. CASE t # cur[p]
  <2>1. \A phase \in {"resume", "task", "yield"} :
          ~At(p, t, phase) /\ ~At(p, t, phase)'
    BY <1>6 DEF IsStateChange, At
  <2>2. Token(t)'
    BY <1>2, <1>3, <1>4, <1>5, <1>6, <2>1 DEF Token, Holds
  <2>3. Exclusive(t)' /\ Known(t)'
    BY <1>2, <1>3, <1>4, <1>5, <1>6, <2>1 DEF Exclusive, Known, Holds
  <2> QED
    BY <2>2, <2>3 DEF Placed
<1>7. CASE t = cur[p] /\ IsStateChange(p, "resume", "RUNNING", "task")
  <2>1. At(p, t, "resume") /\ \A phase \in {"resume", "task", "yield"} :
                                At(p, t, phase)' <=> phase = "task"
    BY <1>7 DEF IsStateChange, Moves, At
  <2>2. m_state'[t] = "RUNNING"
    BY <1>1, <1>7 DEF IsStateChange, SetsState
  <2>3. Token(t)'
    BY <1>2, <1>3, <1>5, <2>1, <2>2 DEF Token, Holds
  <2>4. Exclusive(t)' /\ Known(t)'
    BY <1>2, <1>3, <1>5, <2>1, <2>2 DEF Exclusive, Known, Holds
  <2> QED
    BY <2>3, <2>4 DEF Placed
<1>8. CASE t = cur[p] /\ IsStateChange(p, "yield", "READY", "swap")
  <2>1. At(p, t, "yield") /\ \A phase \in {"resume", "task", "yield"} :
                                ~At(p, t, phase)'
    BY <1>8 DEF IsStateChange, Moves, At
  <2>2. m_state'[t] = "READY"
    BY <1>1, <1>8 DEF IsStateChange, SetsState
  <2>3. Token(t)'
    BY <1>2, <1>3, <1>5, <2>1, <2>2 DEF Token, Holds
  <2>4. Exclusive(t)' /\ Known(t)'
    BY <1>2, <1>3, <1>5, <2>1, <2>2 DEF Token, Exclusive, Known, Holds
  <2> QED
    BY <2>3, <2>4 DEF Placed
<1>9. CASE t = cur[p] /\ IsStateChange(p, "task", "TERM", "back")
  <2>1. At(p, t, "task") /\ \A phase \in {"resume", "task", "yield"} :
                                ~At(p, t, phase)'
    BY <1>9 DEF IsStateChange, Moves, At
  <2>2. m_state'[t] = "TERM"
    BY <1>1, <1>9 DEF IsStateChange, SetsState
  <2>3. Token(t)'
    BY <1>2, <1>3, <1>5, <2>1, <2>2 DEF Token, Holds
  <2>4. Exclusive(t)' /\ Known(t)'
    BY <1>2, <1>3, <1>5, <2>1, <2>2 DEF Token, Exclusive, Known, Holds
  <2> QED
    BY <2>3, <2>4 DEF Placed
<1> QED
  BY <1>6, <1>7, <1>8, <1>9

LEMMA PlacedWhenTriggered ==
  ASSUME IOFrame, IOTokens, NEW t \in Tasks, NEW u \in Tasks, IsTriggered(u)
  PROVE  Placed(t)'
<1> USE DEF IOFrame, IOTokens, IOThreads
<1>1. \A k \in Nat :
        InQueue(k, t)' <=> InQueue(k, t) \/ (k = Len(m_tasks) + 1 /\ t = u)
  BY AfterEnqueue DEF IsTriggered
<1>2. \A p \in Threads, phase \in {"resume", "task", "yield"} :
        At(p, t, phase)' <=> At(p, t, phase)
  BY DEF IsTriggered
<1>3. m_state' = m_state /\ (t \in waiting' <=> t \in waiting /\ t # u)
  BY DEF IsTriggered
<1>4. Token(t) /\ Exclusive(t) /\ Known(t) /\ u \in waiting
  BY DEF IsTriggered
<1>5. Len(m_tasks) + 1 \in Nat
  BY DEF TypeQueue
<1>6. Token(t)'
  BY <1>1, <1>2, <1>3, <1>4 DEF Token, Exclusive, Holds
<1>7. Exclusive(t)'
  BY <1>1, <1>2, <1>3, <1>4 DEF Exclusive
<1>8. Known(t)'
  BY <1>1, <1>2, <1>3, <1>4, <1>5 DEF Known, Holds
<1> QED
  BY <1>6, <1>7, <1>8 DEF Placed

LEMMA IOTokensNext ==
  ASSUME IOFrame, Registered, IOTokens, [IONext]_allVars
  PROVE  IOTokens'
<1>1. ASSUME NEW t \in Tasks PROVE Placed(t)'
  <2>1. CASE UNCHANGED waiting /\ IsOther
    BY <2>1 DEF IOTokens, IsOther, Placed, Token, Exclusive, Known, Holds,
                InQueue
  <2> QED
    BY <2>1, IOKinds, PlacedWhenNew, PlacedWhenTaken, PlacedWhenYielding,
       PlacedWhenResumed, PlacedWhenTriggered
<1>2. (m_state \in [Tasks -> States])'
  <2>1. \A p \in Threads :
          Phase(p) \in {"resume", "task", "yield"} => cur[p] \in Tasks
    BY HolderInPool DEF HasTask, Phase
  <2> QED
    BY <2>1, IOKinds
       DEF IOTokens, States, IsNew, IsTake, IsRequeue, IsStateChange, IsWait,
           IsTriggered, IsOther, SetsState, Moves
<1>3. saved' \subseteq Tasks
  <2> USE DEF IOTokens, fiberVars
  <2>1. ASSUME NEW p \in Threads, YieldSwap(p) PROVE cur[p] \in Tasks
    BY <2>1, HolderInPool DEF YieldSwap, HasTask
  <2>2. CASE IOOwner
    BY <2>2 DEF IOOwner, IOStop, StopTickles, StopJoins, Start, Starting,
         StartReturns, CreateThread, RecordThread, Join, MainSchedules
  <2>3. ASSUME NEW p \in Threads, Inherited(p) PROVE saved' \subseteq Tasks
    BY <2>1, <2>3
       DEF Inherited, RunLoop, RunTask, ThreadRuns, Take, FindNothing,
           EnterIdle, Leave, Resume, YieldState, YieldSwap, Finish, Back,
           TaskSchedules, Requeue
  <2>4. ASSUME NEW p \in Threads,
             \/ TaskWaits(p) \/ IOTickle(p) \/ IdleLoop(p)
             \/ \E t \in Tasks : AddsTimer(p, t)
        PROVE  saved' \subseteq Tasks
    BY <2>4
       DEF TaskWaits, AddsTimer, IOTickle, Tickle, IdleLoop, IdleReadsTimers,
           IdleReadsPending, IdleReadsStopping, EpollReturns, ListExpired,
           CallbackScheduled, CallbacksScheduled, Drain, Triggers, CountsDown,
           IdleYields, vars
  <2> QED
    BY <2>2, <2>3, <2>4
       DEF IONext, IODone, External, EventOccurs, TimerDue, allVars, vars
<1> QED
  BY <1>1, <1>2, <1>3 DEF IOTokens, Placed

----------------------------------------------------------------------------
(* A wait adds a registration, a trigger turns one into a wake-up that is  *)
(* still to be counted down.                                               *)
LEMMA PendingNext ==
  ASSUME IOFrame, Registered, IOTokens, PendingCoversWakeUps,
         [IONext]_allVars
  PROVE  PendingCoversWakeUps'
<1> USE DEF IOFrame, IOThreads
<1>1. /\ IsFiniteSet(CountingThreads) /\ IsFiniteSet(waiting)
      /\ Cardinality(CountingThreads) \in Nat /\ Cardinality(waiting) \in Nat
  BY CountingFinite, FS_CardinalityType DEF Registered
<1>2. m_pendingEventCount = Cardinality(waiting) + Cardinality(CountingThreads)
  BY DEF PendingCoversWakeUps, CountingThreads
<1>3. ASSUME NEW p \in Threads, TaskWaits(p) PROVE PendingCoversWakeUps'
  <2>1. At(p, cur[p], "task") /\ cur[p] \in Tasks
    BY <1>3, HolderInPool DEF TaskWaits, HasTask, At, Phase
  <2>2. cur[p] \notin waiting
    BY <2>1 DEF IOTokens, Exclusive
  <2>3. Cardinality(waiting') = Cardinality(waiting) + 1
    BY <1>1, <1>3, <2>2, FS_AddElement DEF TaskWaits
  <2>4. CountingThreads' = CountingThreads
    BY <1>3 DEF TaskWaits, CountingThreads, Counting
  <2>5. Cardinality(CountingThreads') = Cardinality(CountingThreads)
    BY <2>4
  <2>6. m_pendingEventCount' = m_pendingEventCount + 1
    BY <1>3 DEF TaskWaits
  <2> QED
    BY <1>1, <1>2, <2>3, <2>5, <2>6 DEF PendingCoversWakeUps, CountingThreads
<1>4. ASSUME NEW p \in Threads, NEW t \in Tasks, Triggers(p, t)
      PROVE  PendingCoversWakeUps'
  <2>1. t \in waiting
    BY <1>4 DEF Triggers, Registered
  <2>2. Cardinality(waiting') = Cardinality(waiting) - 1
    BY <1>1, <1>4, <2>1, FS_RemoveElement DEF Triggers, Unregistered
  <2>3. p \notin CountingThreads /\ CountingThreads' = CountingThreads \cup {p}
    BY <1>4
       DEF CallbacksScheduled, Triggers, Schedule, CountingThreads, Counting
  <2>4. Cardinality(CountingThreads') = Cardinality(CountingThreads) + 1
    BY <1>1, <2>3, FS_AddElement
  <2> QED
    BY <1>1, <1>2, <1>4, <2>2, <2>4
       DEF Triggers, PendingCoversWakeUps, CountingThreads
<1>5. ASSUME NEW p \in Threads, CountsDown(p) PROVE PendingCoversWakeUps'
  <2>1. p \in CountingThreads /\ CountingThreads' = CountingThreads \ {p}
    BY <1>5 DEF CountsDown, CountingThreads, Counting
  <2>2. Cardinality(CountingThreads') = Cardinality(CountingThreads) - 1
    BY <1>1, <2>1, FS_RemoveElement
  <2> QED
    BY <1>1, <1>2, <1>5, <2>2
       DEF CountsDown, OneEventLess, PendingCoversWakeUps, CountingThreads
<1>6. ASSUME UNCHANGED <<m_pendingEventCount, waiting>>,
             \A p \in Threads : Counting(p)' <=> Counting(p)
      PROVE  PendingCoversWakeUps'
  BY <1>6 DEF PendingCoversWakeUps
<1>7. CASE IOOwner
  BY <1>6, <1>7, PoolAssumption
     DEF IOOwner, IOStop, StopTickles, StopJoins, Start, Starting,
         StartReturns, CreateThread, RecordThread, Join, MainSchedules,
         Schedule, ioVars, Counting, Threads
<1>8. ASSUME NEW p \in Threads, RunLoop(p), UNCHANGED ioVars
      PROVE  PendingCoversWakeUps'
  BY <1>6, <1>8
     DEF RunLoop, ThreadRuns, Take, FindNothing, EnterIdle, Leave, ioVars,
         Counting
<1>9. ASSUME NEW p \in Threads, RunTask(p), UNCHANGED ioVars
      PROVE  PendingCoversWakeUps'
  BY <1>6, <1>9
     DEF RunTask, Resume, YieldState, YieldSwap, Finish, Back, TaskSchedules,
         Requeue, Schedule, ioVars, Counting
<1>10. ASSUME NEW p \in Threads, IOTickle(p) PROVE PendingCoversWakeUps'
  <2>1. Tickle(p) /\ UNCHANGED <<m_pendingEventCount, waiting>>
    BY <1>10 DEF IOTickle
  <2>2. \A q \in Threads : Counting(q)' <=> Counting(q)
    BY <2>1 DEF Tickle, IORets, Counting
  <2> QED
    BY <1>6, <2>1, <2>2
<1>11. ASSUME NEW p \in Threads, IdleLoop(p) PROVE PendingCoversWakeUps'
  <2>1. CASE \/ IdleReadsTimers(p) \/ IdleReadsPending(p)
             \/ IdleReadsStopping(p) \/ EpollReturns(p) \/ ListExpired(p)
             \/ Drain(p) \/ IdleYields(p)
    BY <1>6, <2>1
       DEF IdleReadsTimers, IdleReadsPending, IdleReadsStopping, EpollReturns,
           ListExpired, CallbacksScheduled, Drain, IdleYields, vars, ioVars,
           Counting
  <2>2. ASSUME NEW t \in Tasks, CallbackScheduled(p, t)
        PROVE  PendingCoversWakeUps'
    BY <1>6, <2>2 DEF CallbackScheduled, Schedule, Counting
  <2> QED
    BY <1>4, <1>5, <1>11, <2>1, <2>2 DEF IdleLoop
<1>12. CASE External \/ UNCHANGED allVars
  BY <1>6, <1>12
     DEF External, EventOccurs, TimerDue, allVars, vars, ioVars, Counting
<1>13. ASSUME NEW p \in Threads, NEW t \in Tasks, AddsTimer(p, t)
       PROVE  PendingCoversWakeUps'
  BY <1>6, <1>13 DEF AddsTimer, Counting
<1> QED
  BY <1>3, <1>7, <1>8, <1>9, <1>10, <1>11, <1>12, <1>13
     DEF IONext, Inherited, IODone

----------------------------------------------------------------------------
(* The types that are left, and where a thread is between the reads of     *)
(* stopping().                                                             *)
IOFlags ==
  /\ toTickle \in Nat
  /\ noEvents \cup noTimers \subseteq {p \in Threads : pc[p] = "idle"}
  /\ noEvents \cap noTimers = {}

LEMMA IOFlagsNext ==
  ASSUME IOFrame, IOFlags, [IONext]_allVars
  PROVE  IOFlags'
<1> USE PoolAssumption DEF IOFrame, IOThreads, IOFlags, Threads
<1>1. Cardinality(Pool) \in Nat
  BY ThreadsFinite, FS_Subset, FS_CardinalityType DEF Pool
<1>2. CASE IOOwner
  BY <1>1, <1>2
     DEF IOOwner, IOStop, StopTickles, StopJoins, Start, Starting,
         StartReturns, CreateThread, RecordThread, Join, MainSchedules,
         Schedule, ioVars, timerVars
<1>3. ASSUME NEW p \in Threads, Inherited(p) PROVE IOFlags'
  <2>1. CASE RunLoop(p)
    BY <1>3, <2>1 DEF Inherited, RunLoop, ThreadRuns, Take, FindNothing,
                      EnterIdle, Leave, ioVars, timerVars
  <2>2. CASE RunTask(p)
    BY <1>3, <2>2
       DEF Inherited, RunTask, Resume, YieldState, YieldSwap, Finish, Back,
           TaskSchedules, Requeue, Schedule, ioVars, timerVars
  <2> QED
    BY <1>3, <2>1, <2>2 DEF Inherited
<1>4. ASSUME NEW p \in Threads, TaskWaits(p) \/ IOTickle(p)
                       \/ (\E t \in Tasks : AddsTimer(p, t))
      PROVE  IOFlags'
  <2>1. TaskWaits(p) \/ Tickle(p) \/ \E t \in Tasks : AddsTimer(p, t)
    BY <1>4 DEF IOTickle
  <2>2. UNCHANGED <<toTickle, noEvents, noTimers>>
    BY <1>4 DEF IOTickle, TaskWaits, AddsTimer, timerVars
  <2> QED
    BY <2>1, <2>2 DEF TaskWaits, AddsTimer, Tickle
<1>5. ASSUME NEW p \in Threads, IdleLoop(p) PROVE IOFlags'
  <2>1. CASE IdleReadsTimers(p) \/ IdleReadsPending(p) \/ IdleReadsStopping(p)
    BY <2>1 DEF IdleReadsTimers, IdleReadsPending, IdleReadsStopping, timerVars
  <2>2. CASE EpollReturns(p) \/ ListExpired(p) \/ CountsDown(p)
    BY <2>2 DEF EpollReturns, ListExpired, CountsDown, timerVars
  <2>3. CASE Drain(p) \/ IdleYields(p)
    BY <2>3 DEF CallbacksScheduled, Drain, IdleYields, vars, ioVars, timerVars
  <2>4. ASSUME NEW t \in Tasks, CallbackScheduled(p, t) \/ Triggers(p, t)
        PROVE  IOFlags'
    BY <2>4 DEF CallbackScheduled, CallbacksScheduled, Triggers, Schedule,
                timerVars
  <2> QED
    BY <1>5, <2>1, <2>2, <2>3, <2>4 DEF IdleLoop
<1>6. CASE External \/ UNCHANGED allVars
  BY <1>6 DEF External, EventOccurs, TimerDue, allVars, vars, ioVars, timerVars
<1> QED
  BY <1>2, <1>3, <1>4, <1>5, <1>6 DEF IONext, IODone

LEMMA PipedNext ==
  ASSUME piped \in BOOLEAN, [IONext]_allVars
  PROVE  piped' \in BOOLEAN
<1>1. ASSUME NEW p \in Threads, IOTickle(p) PROVE piped' \in BOOLEAN
  BY <1>1 DEF IOTickle
<1>2. ASSUME NEW p \in Threads, IdleLoop(p) PROVE piped' \in BOOLEAN
  BY <1>2
     DEF IdleLoop, IdleReadsTimers, IdleReadsPending, IdleReadsStopping,
         EpollReturns, ListExpired, CallbackScheduled, Drain, Triggers,
         CountsDown, IdleYields, ioVars
<1>3. ASSUME NEW p \in Threads,
             \/ Inherited(p) \/ TaskWaits(p)
             \/ \E t \in Tasks : AddsTimer(p, t)
      PROVE  piped' \in BOOLEAN
  BY <1>3 DEF Inherited, TaskWaits, AddsTimer, ioVars
<1>4. CASE IOOwner
  BY <1>4 DEF IOOwner, IOStop, StopTickles, StopJoins, ioVars
<1> QED
  BY <1>1, <1>2, <1>3, <1>4
     DEF IONext, IODone, External, EventOccurs, TimerDue, allVars, ioVars

(* Where callbacks of timers are.                                          *)
TimerTypes ==
  /\ timers \subseteq Tasks /\ due \subseteq timers
  /\ cbs \in [Threads -> SUBSET Tasks]

LEMMA TimerTypesNext ==
  ASSUME TimerTypes, [IONext]_allVars
  PROVE  TimerTypes'
<1> USE DEF TimerTypes, timerVars
<1>1. ASSUME NEW p \in Threads, IOTickle(p) \/ IdleLoop(p) PROVE TimerTypes'
  BY <1>1
     DEF IOTickle, IdleLoop, IdleReadsTimers, IdleReadsPending,
         IdleReadsStopping, EpollReturns, ListExpired, CallbackScheduled,
         Drain, Triggers, CountsDown, IdleYields, ioVars
<1>2. ASSUME NEW p \in Threads,
             \/ Inherited(p) \/ TaskWaits(p)
             \/ \E t \in Tasks : AddsTimer(p, t)
      PROVE  TimerTypes'
  BY <1>2 DEF Inherited, TaskWaits, AddsTimer, ioVars
<1>3. CASE IOOwner
  BY <1>3 DEF IOOwner, IOStop, StopTickles, StopJoins, ioVars
<1>4. CASE External \/ UNCHANGED allVars
  BY <1>4 DEF External, EventOccurs, TimerDue, allVars, ioVars
<1> QED
  BY <1>1, <1>2, <1>3, <1>4 DEF IONext, IODone

(* A thread whose idle fiber has ended takes part in run() and is not in   *)
(* idle() any more.                                                        *)
IdleEnded == \A p \in idleTerm : p \in Pool /\ ~InIdle(p)

LEMMA IdleEndedNext ==
  ASSUME IOFrame, IdleEnded, [IONext]_allVars
  PROVE  IdleEnded'
<1> USE DEF IOFrame, IOThreads, IdleEnded
<1>1. ASSUME UNCHANGED idleTerm,
             \A p \in Threads : InIdle(p)' => InIdle(p)
      PROVE  IdleEnded'
  BY <1>1 DEF Pool, Threads
<1>2. CASE IOOwner
  BY <1>1, <1>2, PoolAssumption
     DEF IOOwner, IOStop, StopTickles, StopJoins, Start, Starting,
         StartReturns, CreateThread, RecordThread, Join, MainSchedules,
         Schedule, InIdle, Threads
<1>3. ASSUME NEW p \in Threads, RunLoop(p) PROVE IdleEnded'
  <2>1. CASE EnterIdle(p)
    BY <2>1 DEF EnterIdle, InIdle, Pool, Threads
  <2> QED
    BY <1>1, <1>3, <2>1
       DEF RunLoop, ThreadRuns, Take, FindNothing, Leave, InIdle
<1>4. ASSUME NEW p \in Threads, RunTask(p) PROVE IdleEnded'
  BY <1>1, <1>4
     DEF RunTask, Resume, YieldState, YieldSwap, Finish, Back, TaskSchedules,
         Requeue, Schedule, InIdle
<1>5. ASSUME NEW p \in Threads,
             \/ TaskWaits(p) \/ Tickle(p) \/ \E t \in Tasks : AddsTimer(p, t)
      PROVE  IdleEnded'
  BY <1>1, <1>5 DEF TaskWaits, Tickle, AddsTimer, IORets, InIdle
<1>6. ASSUME NEW p \in Threads, IdleLoop(p) PROVE IdleEnded'
  <2>1. CASE IdleReadsStopping(p)
    <3>1. p \in Pool
      BY <2>1 DEF IdleReadsStopping, IOShape, OwnerPhases, Phase, Pool, Threads
    <3> QED
      BY <2>1, <3>1 DEF IdleReadsStopping, InIdle, Pool, Threads
  <2>2. CASE \/ IdleReadsTimers(p) \/ IdleReadsPending(p) \/ EpollReturns(p)
             \/ ListExpired(p) \/ Drain(p) \/ CountsDown(p) \/ IdleYields(p)
    BY <1>1, <2>2
       DEF IdleReadsTimers, IdleReadsPending, EpollReturns, ListExpired,
           CallbacksScheduled, Drain, CountsDown, IdleYields, vars, InIdle
  <2>3. ASSUME NEW t \in Tasks, CallbackScheduled(p, t) \/ Triggers(p, t)
        PROVE  IdleEnded'
    BY <1>1, <2>3
       DEF CallbackScheduled, CallbacksScheduled, Triggers, Schedule, InIdle
  <2> QED
    BY <1>6, <2>1, <2>2, <2>3 DEF IdleLoop
<1>7. CASE External \/ UNCHANGED allVars
  BY <1>1, <1>7 DEF External, EventOccurs, TimerDue, allVars, vars, InIdle
<1> QED
  BY <1>2, <1>3, <1>4, <1>5, <1>6, <1>7 DEF IONext, Inherited, IOTickle, IODone

----------------------------------------------------------------------------
IOInv ==
  /\ IOFrame /\ Registered /\ IOTokens /\ IOFlags /\ piped \in BOOLEAN
  /\ TimerTypes /\ IdleEnded
  /\ ActiveCountExact /\ IdleCountExact /\ PendingCoversWakeUps

LEMMA IOInvInit == IOInit => IOInv
<1> SUFFICES ASSUME IOInit PROVE IOInv
  OBVIOUS
<1> USE PoolAssumption DEF IOInit, Init, Threads
<1>1. IOFrame
  <2>1. TypeQueue
    BY DEF TypeQueue
  <2>2. IOThreads
    BY DEF IOThreads, IOPCs, PCs, IORets
  <2>3. IOShape
    BY DEF IOShape, Busy, HasTask, Phase, OwnerPhases
  <2> QED
    BY <2>1, <2>2, <2>3 DEF IOFrame
<1>2. Registered
  BY FS_EmptySet DEF Registered
<1>3. IOTokens
  BY DEF IOTokens, States, Token, Exclusive, Known, InQueue, Holds, At, Phase
<1>4. IOFlags
  BY DEF IOFlags
<1>5. piped \in BOOLEAN /\ TimerTypes /\ IdleEnded
  BY DEF TimerTypes, IdleEnded
<1>6. ActiveCountExact /\ IdleCountExact /\ PendingCoversWakeUps
  <2>1. /\ {p \in Threads : Busy(p)} = {} /\ {p \in Threads : InIdle(p)} = {}
        /\ {p \in Threads : Counting(p)} = {} /\ waiting = {}
    BY DEF Busy, InIdle, Counting
  <2>2. ActiveCountExact
    BY <2>1, FS_EmptySet DEF ActiveCountExact
  <2>3. IdleCountExact
    BY <2>1, FS_EmptySet DEF IdleCountExact
  <2>4. /\ Cardinality({p \in Threads : Counting(p)}) = 0
        /\ Cardinality(waiting) = 0 /\ m_pendingEventCount = 0
    BY <2>1, FS_EmptySet
  <2> QED
    BY <2>2, <2>3, <2>4 DEF PendingCoversWakeUps
<1> QED
  BY <1>1, <1>2, <1>3, <1>4, <1>5, <1>6 DEF IOInv

LEMMA IOInvNext == IOInv /\ [IONext]_allVars => IOInv'
<1> SUFFICES ASSUME IOInv, [IONext]_allVars PROVE IOInv'
  OBVIOUS
<1> USE DEF IOInv
<1>1. IOFrame'
  BY IOQueueNext, IOThreadsNext, IOShapeNext DEF IOFrame
<1>2. Registered' /\ IOTokens'
  BY RegisteredNext, IOTokensNext
<1>3. IOFlags'
  BY IOFlagsNext
<1>4. piped' \in BOOLEAN /\ TimerTypes' /\ IdleEnded'
  BY PipedNext, TimerTypesNext, IdleEndedNext
<1>5. ActiveCountExact' /\ IdleCountExact' /\ PendingCoversWakeUps'
  BY IOBusyNext, IOIdleNext, PendingNext
<1> QED
  BY <1>1, <1>2, <1>3, <1>4, <1>5

LEMMA IOInvariant == IOSpec => []IOInv
BY IOInvInit, IOInvNext, PTL DEF IOSpec

LEMMA IOTyped == IOInv => IOTypeOK
<1> SUFFICES ASSUME IOInv PROVE IOTypeOK
  OBVIOUS
<1> USE DEF IOInv
<1>1. m_activeThreadCount \in Nat /\ m_idleThreadCount \in Nat
  <2>1. IsFiniteSet(BusyThreads) /\ IsFiniteSet(InIdleThreads)
    BY ThreadsFinite, FS_Subset DEF BusyThreads, InIdleThreads
  <2> QED
    BY <2>1, FS_CardinalityType
       DEF ActiveCountExact, IdleCountExact, BusyThreads, InIdleThreads
<1>2. m_pendingEventCount \in Nat
  <2>1. /\ Cardinality(waiting) \in Nat /\ Cardinality(CountingThreads) \in Nat
        /\ m_pendingEventCount =
             Cardinality(waiting) + Cardinality(CountingThreads)
    BY CountingFinite, FS_CardinalityType
       DEF Registered, PendingCoversWakeUps, CountingThreads
  <2> QED
    BY <2>1
<1>3. /\ m_tasks \in Seq(Entries)
      /\ pc \in [Threads -> IOPCs] /\ cur \in [Threads -> Tasks \cup {None}]
  BY DEF IOFrame, TypeQueue, IOThreads
<1>4. m_state \in [Tasks -> {"NEW", "READY", "RUNNING", "TERM"}]
  BY DEF IOTokens, States
<1>5. saved \subseteq Tasks
  BY DEF IOTokens
<1>6. /\ waiting \subseteq Tasks /\ fired \subseteq waiting
      /\ batch \in [Threads -> SUBSET (Tasks \cup {Pipe})]
  BY DEF Registered
<1>7. /\ toTickle \in Nat /\ noEvents \subseteq Threads
      /\ noTimers \subseteq Threads /\ TimerTypes
  BY DEF IOFlags
<1> QED
  BY <1>1, <1>2, <1>3, <1>4, <1>5, <1>6, <1>7 DEF IOTypeOK, TimerTypes

(***************************************************************************)
(* The counters that tickle() and stopping() of IOManager read are sound   *)
(* on every path through idle() (iomanager.cc:317, 339).                   *)
(***************************************************************************)
THEOREM IdleConsistentCorrect == IOSpec => []IdleConsistent
<1>1. IOInv => IdleConsistent
  BY IOTyped DEF IOInv, IdleConsistent
<1> QED
  BY <1>1, IOInvariant, PTL

(***************************************************************************)
(* m_pendingEventCount is the number of registered fibers and of wake-ups  *)
(* that are not yet counted down (iomanager.cc:442).                       *)
(***************************************************************************)
THEOREM PendingCoversWakeUpsCorrect == IOSpec => []PendingCoversWakeUps
BY IOInvariant, PTL DEF IOInv

(***************************************************************************)
(* With events that wake fibers beside schedule() (fiber.cc:147,           *)
(* scheduler.cc:168), a fiber still executes on one thread at a time.      *)
(***************************************************************************)
THEOREM IOOneThreadPerFiber == IOSpec => []OneThreadPerFiber
<1>1. IOInv => OneThreadPerFiber
  <2> SUFFICES ASSUME IOInv PROVE OneThreadPerFiber
    OBVIOUS
  <2>1. ASSUME NEW p \in Threads, Phase(p) \in {"resume", "task", "yield"}
        PROVE  cur[p] \in Tasks /\ Token(cur[p])
    BY <2>1, HolderInPool DEF HasTask, Phase, IOInv, IOTokens
  <2>2. \A p \in Threads : pc[p] = "resume" => m_state[cur[p]] = "READY"
    BY <2>1 DEF Phase, At, Token
  <2>3. \A p \in Threads : Executing(p) => m_state[cur[p]] = "RUNNING"
    BY <2>1 DEF Executing, Phase, At, Token
  <2>4. \A p, q \in Threads :
          Executing(p) /\ Executing(q) /\ cur[p] = cur[q] => p = q
    BY <2>1 DEF Executing, Phase, At, Holds, Token
  <2> QED
    BY <2>2, <2>3, <2>4 DEF OneThreadPerFiber
<1> QED
  BY <1>1, IOInvariant, PTL

----------------------------------------------------------------------------
(***************************************************************************)
(* stop() with one thread in run(), the owner or a worker: nobody else can *)
(* register a fiber between the two reads of stopping(), and a thread that *)
(* saw both conditions leaves nothing behind.                              *)
(***************************************************************************)
Nothing == waiting = {} /\ m_tasks = <<>> /\ \A p \in Threads : ~Busy(p)

Rest ==
  /\ Phase(Main) \in {"main", "create", "semaphore"} => ~m_stopping
  /\ noEvents # {} => waiting = {}
  /\ idleTerm # {} => m_stopping /\ Nothing

IOEnds ==
  /\ \A p \in Threads : pc[p] = "exit" => p \in idleTerm
  /\ UseCaller /\ pc[Main] \in {"join", "done"} => Main \in idleTerm
  /\ pc[Main] = "done" => \A w \in Workers : pc[w] = "exit"

LEMMA IOEndsNext ==
  ASSUME IOFrame, IOEnds, [IONext]_allVars
  PROVE  IOEnds'
<1> USE PoolAssumption DEF IOFrame, IOThreads, Threads, IOEnds
<1>1. CASE IOOwner
  BY <1>1
     DEF IOOwner, IOStop, StopTickles, StopJoins, Start, Starting,
         StartReturns, CreateThread, RecordThread, Join, MainSchedules,
         Schedule
<1>2. ASSUME NEW p \in Threads, RunLoop(p) PROVE IOEnds'
  BY <1>2 DEF RunLoop, ThreadRuns, Take, FindNothing, EnterIdle, Leave
<1>3. ASSUME NEW p \in Threads, RunTask(p) PROVE IOEnds'
  BY <1>3 DEF RunTask, Resume, YieldState, YieldSwap, Finish, Back,
              TaskSchedules, Requeue, Schedule
<1>4. ASSUME NEW p \in Threads, TaskWaits(p) \/ IOTickle(p)
                       \/ (\E t \in Tasks : AddsTimer(p, t))
      PROVE  IOEnds'
  <2>1. TaskWaits(p) \/ Tickle(p) \/ \E t \in Tasks : AddsTimer(p, t)
    BY <1>4 DEF IOTickle
  <2> QED
    BY <2>1 DEF TaskWaits, AddsTimer, Tickle, IORets
<1>5. ASSUME NEW p \in Threads, IdleLoop(p) PROVE IOEnds'
  BY <1>5
     DEF IdleLoop, IdleReadsTimers, IdleReadsPending, IdleReadsStopping,
         EpollReturns, ListExpired, CallbackScheduled, CallbacksScheduled,
         Drain, Triggers, CountsDown, IdleYields, Schedule, vars
<1>6. CASE External \/ UNCHANGED allVars
  BY <1>6 DEF External, EventOccurs, TimerDue, allVars, vars
<1> QED
  BY <1>1, <1>2, <1>3, <1>4, <1>5, <1>6 DEF IONext, Inherited, IODone

(* Where the one thread is excludes what would disturb Rest.               *)
LEMMA RestNext ==
  ASSUME OneThread, IOInv, Rest, [IONext]_allVars
  PROVE  Rest'
<1> USE DEF IOInv, IOFrame, IOThreads, Rest, Nothing
<1>1. PICK w \in Threads : Pool = {w}
  BY DEF OneThread
<1>2. ASSUME NEW p \in Threads, Phase(p) \notin OwnerPhases,
             pc[p] \notin {"unborn", "born", "exit"}
      PROVE  p = w
  BY <1>1, <1>2 DEF IOShape, Pool, Threads
<1>3. noEvents \subseteq {w}
  BY <1>2 DEF IOFlags, Phase, OwnerPhases
<1>4. Phase(Main)' \in {"main", "create", "semaphore"} => ~m_stopping'
  <2> USE PoolAssumption DEF Phase, Threads
  <2>1. CASE IOOwner
    BY <2>1
       DEF IOOwner, IOStop, StopTickles, StopJoins, Start, Starting,
           StartReturns, CreateThread, RecordThread, Join, MainSchedules,
           Schedule, startVars
  <2>2. ASSUME NEW p \in Threads, RunLoop(p)
        PROVE  Phase(Main)' \in {"main", "create", "semaphore"} => ~m_stopping'
    BY <2>2 DEF RunLoop, ThreadRuns, Take, FindNothing, EnterIdle, Leave,
                startVars
  <2>3. ASSUME NEW p \in Threads, RunTask(p)
        PROVE  Phase(Main)' \in {"main", "create", "semaphore"} => ~m_stopping'
    BY <2>3 DEF RunTask, Resume, YieldState, YieldSwap, Finish, Back,
                TaskSchedules, Requeue, Schedule, startVars
  <2>4. ASSUME NEW p \in Threads,
               \/ TaskWaits(p) \/ Tickle(p) \/ \E t \in Tasks : AddsTimer(p, t)
        PROVE  Phase(Main)' \in {"main", "create", "semaphore"} => ~m_stopping'
    BY <2>4 DEF TaskWaits, AddsTimer, Tickle, startVars, IORets
  <2>5. ASSUME NEW p \in Threads, IdleLoop(p)
        PROVE  Phase(Main)' \in {"main", "create", "semaphore"} => ~m_stopping'
    BY <2>5
       DEF IdleLoop, IdleReadsTimers, IdleReadsPending, IdleReadsStopping,
           EpollReturns, ListExpired, CallbackScheduled, CallbacksScheduled,
           Drain, Triggers, CountsDown, IdleYields, Schedule, vars, startVars
  <2>6. CASE External \/ UNCHANGED allVars
    BY <2>6 DEF External, EventOccurs, TimerDue, allVars, vars, startVars
  <2> QED
    BY <2>1, <2>2, <2>3, <2>4, <2>5, <2>6
       DEF IONext, Inherited, IODone, IOTickle
<1>5. ASSUME NEW p \in Threads, IdleReadsPending(p) PROVE Rest'
  <2>1. SeesNoPending => waiting = {}
    <3>1. /\ IsFiniteSet(waiting) /\ Cardinality(waiting) \in Nat
          /\ Cardinality(CountingThreads) \in Nat
          /\ m_pendingEventCount =
               Cardinality(waiting) + Cardinality(CountingThreads)
      BY CountingFinite, FS_CardinalityType
         DEF Registered, PendingCoversWakeUps, CountingThreads
    <3>2. SeesNoPending => Cardinality(waiting) = 0
      BY <3>1 DEF SeesNoPending
    <3> QED
      BY <3>1, <3>2, FS_EmptySet
  <2> QED
    BY <1>4, <1>5, <2>1 DEF IdleReadsPending, startVars, Busy
<1>6. ASSUME NEW p \in Threads, IdleReadsStopping(p) PROVE Rest'
  <2>1. Stopping => m_stopping /\ m_tasks = <<>> /\ \A q \in Threads : ~Busy(q)
    <3>1. Stopping => {q \in Threads : Busy(q)} = {}
      <4>1. IsFiniteSet({q \in Threads : Busy(q)})
        BY ThreadsFinite, FS_Subset
      <4> QED
        BY <4>1, FS_EmptySet DEF Stopping, ActiveCountExact
    <3> QED
      BY <3>1 DEF Stopping
  <2>2. waiting = {}
    BY <1>6 DEF IdleReadsStopping
  <2>3. UNCHANGED <<waiting, m_tasks, cur, m_stopping>>
    BY <1>6 DEF IdleReadsStopping, startVars
  <2>4. idleTerm' # {} => idleTerm # {} \/ Stopping
    BY <1>6 DEF IdleReadsStopping
  <2> QED
    BY <1>4, <2>1, <2>2, <2>3, <2>4 DEF Busy
<1>7. ASSUME NEW p \in Threads, TaskWaits(p) PROVE Rest'
  <2>1. Busy(p) /\ p = w /\ noEvents = {}
    BY <1>2, <1>3, <1>7
       DEF TaskWaits, IOShape, HasTask, IOFlags, Phase, OwnerPhases
  <2> QED
    BY <1>4, <1>7, <2>1 DEF TaskWaits
<1>8. ASSUME NEW p \in Threads, NEW t \in Tasks, Triggers(p, t) PROVE Rest'
  <2>1. t \in waiting
    BY <1>8 DEF Triggers, Registered
  <2> QED
    BY <1>4, <1>8, <2>1 DEF Triggers
<1>9. ASSUME UNCHANGED <<waiting, noEvents, idleTerm, m_stopping>>,
             idleTerm # {} => UNCHANGED <<m_tasks, cur>>
      PROVE  Rest'
  BY <1>4, <1>9 DEF Busy
<1>10. CASE IOOwner
  <2>1. ASSUME NEW t \in Tasks, NEW th \in Pins, MainSchedules(t, th)
        PROVE  idleTerm = {}
    BY <2>1 DEF MainSchedules, Phase
  <2>2. CASE IOStop
    BY <1>4, <2>2 DEF IOStop, Busy, Phase
  <2>3. CASE StopTickles \/ StopJoins
    BY <1>9, <2>3 DEF StopTickles, StopJoins, startVars, ioVars
  <2> QED
    BY <1>9, <1>10, <2>1, <2>2, <2>3
       DEF IOOwner, Start, Starting, StartReturns, CreateThread, RecordThread,
           Join, MainSchedules, startVars, ioVars
<1>11. ASSUME NEW p \in Threads, Inherited(p) PROVE Rest'
  <2>1. CASE RunLoop(p)
    BY <1>9, <1>11, <2>1
       DEF Inherited, RunLoop, ThreadRuns, Take, FindNothing, EnterIdle, Leave,
           startVars, ioVars
  <2>2. CASE RunTask(p)
    <3>1. Busy(p)
      BY <2>2 DEF RunTask, Resume, YieldState, YieldSwap, Finish, Back,
                  TaskSchedules, Requeue, IOShape, HasTask
    <3> QED
      BY <1>9, <1>11, <2>2, <3>1
         DEF Inherited, RunTask, Resume, YieldState, YieldSwap, Finish, Back,
             TaskSchedules, Requeue, startVars, ioVars
  <2> QED
    BY <1>11, <2>1, <2>2 DEF Inherited
<1>12. ASSUME NEW p \in Threads,
              \/ IOTickle(p) \/ IdleReadsTimers(p) \/ EpollReturns(p)
              \/ ListExpired(p) \/ Drain(p) \/ CountsDown(p) \/ IdleYields(p)
              \/ \E t \in Tasks : AddsTimer(p, t)
       PROVE  Rest'
  BY <1>9, <1>12
     DEF IOTickle, Tickle, IdleReadsTimers, EpollReturns, ListExpired, Drain,
         CountsDown, IdleYields, AddsTimer, vars, startVars, ioVars
<1>13. CASE External \/ UNCHANGED allVars
  BY <1>9, <1>13
     DEF External, EventOccurs, TimerDue, allVars, vars, startVars, ioVars
<1>14. ASSUME NEW p \in Threads, NEW t \in Tasks, CallbackScheduled(p, t)
       PROVE  Rest'
  <2>1. p = w /\ InIdle(p)
    BY <1>2, <1>14 DEF CallbackScheduled, InIdle, Phase, OwnerPhases
  <2>2. idleTerm = {}
    BY <1>1, <2>1 DEF IdleEnded
  <2> QED
    BY <1>4, <1>14, <2>2 DEF CallbackScheduled, startVars
<1> QED
  BY <1>5, <1>6, <1>7, <1>8, <1>10, <1>11, <1>12, <1>13, <1>14
     DEF IONext, IdleLoop, IODone

(***************************************************************************)
(* With one thread in run(), stop() outlasts every task and every awaited  *)
(* event (scheduler.h:84, iomanager.cc:335); with two it does not, as the  *)
(* run iomanager_stop shows.                                               *)
(***************************************************************************)
THEOREM StopWaitsWithOneThread ==
  OneThread => (IOSpec => []IOStopWaits)
<1> SUFFICES ASSUME OneThread PROVE IOSpec => []IOStopWaits
  OBVIOUS
<1>1. IOInit => IOInv /\ Rest /\ IOEnds
  BY IOInvInit, PoolAssumption DEF IOInit, Init, Rest, IOEnds, Phase, Threads
<1>2. IOInv /\ Rest /\ IOEnds /\ [IONext]_allVars => IOInv' /\ Rest' /\ IOEnds'
  BY IOInvNext, RestNext, IOEndsNext DEF IOInv
<1>3. IOInv /\ Rest /\ IOEnds => IOStopWaits
  <2> SUFFICES ASSUME IOInv, Rest, IOEnds, pc[Main] = "done"
               PROVE  waiting = {} /\ \A t \in Tasks : m_state[t] \in {"NEW", "TERM"}
    BY DEF IOStopWaits
  <2>1. idleTerm # {}
    BY PoolAssumption DEF IOEnds, Pool, Threads
  <2>2. Nothing
    BY <2>1 DEF Rest
  <2>3. ASSUME NEW t \in Tasks PROVE m_state[t] \in {"NEW", "TERM"}
    <3>1. Known(t)
      BY DEF IOInv, IOTokens
    <3>2. \A k \in Nat : ~InQueue(k, t)
      BY <2>2 DEF Nothing, InQueue
    <3>3. \A p \in Threads : ~Holds(p, t)
      BY <2>2 DEF Nothing, IOInv, IOFrame, IOShape, HasTask, Holds, At, Phase
    <3> QED
      BY <2>2, <3>1, <3>2, <3>3 DEF Known, Nothing
  <2> QED
    BY <2>2, <2>3 DEF Nothing
<1> QED
  BY <1>1, <1>2, <1>3, PTL DEF IOSpec

----------------------------------------------------------------------------
(***************************************************************************)
(* IOManager implements TaskPool.  A task is available when it is queued,  *)
(* registered or about to be resumed; being triggered and registering keep *)
(* that as it is, so TaskPool sees neither of them.                        *)
(***************************************************************************)
IOAvailable(t) == Available(t) \/ t \in waiting

IOMapped ==
  /\ \A p \in Threads : RunningOn(p) \in Tasks \cup {None}
  /\ \A p \in Threads, t \in Tasks : RunningOn(p) = t <=> On(p, t)
  /\ \A t \in Tasks :
       IOWaits(t) <=> IOAvailable(t) /\ \A p \in Threads : ~On(p, t)

LEMMA IOMappedHolds == IOInv => IOMapped
<1> SUFFICES ASSUME IOInv PROVE IOMapped
  OBVIOUS
<1> USE DEF IOInv, IOFrame, IOThreads, TypeQueue
<1>1. \A p \in Threads : Executing(p) => cur[p] \in Tasks
  BY DEF Executing, IOShape, Busy, HasTask
<1>2. \A p \in Threads : RunningOn(p) \in Tasks \cup {None}
  BY <1>1 DEF RunningOn
<1>3. \A p \in Threads, t \in Tasks : RunningOn(p) = t <=> On(p, t)
  BY PoolAssumption DEF RunningOn, Executing, On, At, Phase
<1>4. ASSUME NEW t \in Tasks
      PROVE  Queued(t) <=> \E k \in Nat : InQueue(k, t)
  BY DEF Queued, InQueue
<1>5. ASSUME NEW t \in Tasks, NEW p \in Threads
      PROVE  (ToResume(p) /\ cur[p] = t) <=> At(p, t, "resume")
  BY DEF ToResume, At, Phase
<1>6. \A t \in Tasks :
        IOWaits(t) <=> IOAvailable(t) /\ \A p \in Threads : ~On(p, t)
  BY <1>3, <1>4, <1>5 DEF IOWaits, IOAvailable, Available
<1> QED
  BY <1>2, <1>3, <1>6 DEF IOMapped

ioWaits == {t \in Tasks : IOWaits(t)}
ioDone == OneThread /\ pc[Main] = "done"
ioMapped == <<ioWaits, runs, ends, ioDone>>

IOKeeps(t) ==
  /\ IOAvailable(t)' <=> IOAvailable(t)
  /\ \A p \in Threads : On(p, t)' <=> On(p, t)
  /\ m_state'[t] = "TERM" <=> m_state[t] = "TERM"

LEMMA IOKeepsAll ==
  ASSUME IOMapped, IOMapped', \A t \in Tasks : IOKeeps(t)
  PROVE  UNCHANGED <<ioWaits, runs, ends>>
<1> USE DEF IOMapped, IOKeeps
<1>1. ioWaits' = ioWaits /\ ends' = ends
  BY DEF ioWaits, ends
<1>2. ASSUME NEW p \in Threads PROVE RunningOn(p)' = RunningOn(p)
  BY PoolAssumption
<1>3. runs' = runs
  BY <1>2 DEF runs
<1> QED
  BY <1>1, <1>3

(* The steps that TaskPool does not see.                                   *)
LEMMA IOTakeIsHidden ==
  ASSUME IOInv, IOMapped, IOMapped', UNCHANGED waiting,
         NEW p \in Threads, NEW k \in 1 .. Len(m_tasks), IsTake(p, k)
  PROVE  UNCHANGED <<ioWaits, runs, ends>>
<1> USE DEF IOInv, IOFrame, IOThreads, IOTokens
<1> DEFINE u == m_tasks[k].task
<1>1. u \in Tasks /\ k \in Nat /\ InQueue(k, u)
  BY TakenEntry DEF InQueue, TypeQueue
<1>2. ASSUME NEW t \in Tasks PROVE IOKeeps(t)
  <2>1. \A j \in Nat :
          InQueue(j, t)' <=>
            \/ j < k /\ InQueue(j, t)
            \/ j >= k /\ InQueue(j + 1, t)
    <3>1. TypeQueue /\ m_tasks' = RemoveAt(m_tasks, k)
      BY DEF IsTake
    <3> QED
      BY <3>1, AfterTake
  <2>2. ASSUME t # u
        PROVE  (\E j \in Nat : InQueue(j, t)') <=> \E j \in Nat : InQueue(j, t)
    <3>1. ~InQueue(k, t)
      BY <2>2 DEF InQueue
    <3>2. ASSUME NEW j \in Nat, InQueue(j, t)
          PROVE  \E i \in Nat : InQueue(i, t)'
      <4>1. CASE j < k
        BY <2>1, <3>2, <4>1
      <4>2. CASE j > k
        <5>1. j - 1 \in Nat /\ j - 1 >= k /\ (j - 1) + 1 = j
          BY <1>1, <4>2
        <5>2. InQueue(j - 1, t)'
          BY <2>1, <3>2, <5>1
        <5> QED
          BY <5>1, <5>2
      <4> QED
        BY <1>1, <3>1, <3>2, <4>1, <4>2
    <3>3. ASSUME NEW j \in Nat, InQueue(j, t)'
          PROVE  \E i \in Nat : InQueue(i, t)
      <4>1. j + 1 \in Nat
        OBVIOUS
      <4> QED
        BY <2>1, <3>3, <4>1
    <3> QED
      BY <3>2, <3>3
  <2>3. \A q \in Threads, phase \in {"task", "yield"} :
          At(q, t, phase)' <=> At(q, t, phase)
    BY DEF IsTake, Moves, At
  <2>4. \A q \in Threads :
          At(q, t, "resume")' <=> At(q, t, "resume") \/ (q = p /\ t = u)
    BY <1>1 DEF IsTake, Moves, At
  <2>5. Available(t)' <=> Available(t)
    <3>1. CASE t = u
      BY <1>1, <2>4, <3>1 DEF Available
    <3>2. CASE t # u
      BY <2>2, <2>4, <3>2 DEF Available
    <3> QED
      BY <3>1, <3>2
  <2> QED
    BY <2>3, <2>5 DEF IOKeeps, IOAvailable, On, IsTake
<1> QED
  BY <1>2, IOKeepsAll

LEMMA YieldingIsHidden ==
  ASSUME IOInv, IOMapped, IOMapped', NEW p \in Threads,
         \/ UNCHANGED waiting /\ \E th \in Pool \cup {Any} : IsRequeue(p, th)
         \/ IsWait(p)
  PROVE  UNCHANGED <<ioWaits, runs, ends>>
<1> USE DEF IOInv, IOFrame, IOThreads, IOTokens, IOMapped
<1>1. Moves(p, "task", "yield") /\ UNCHANGED <<cur, m_state>>
  BY DEF IsRequeue, IsWait
<1>2. cur[p] \in Tasks
  BY <1>1, HolderInPool DEF Moves, Phase, HasTask
<1>3. \A q \in Threads, t \in Tasks :
        /\ On(q, t)' <=> On(q, t)
        /\ At(q, t, "resume")' <=> At(q, t, "resume")
  BY <1>1 DEF Moves, At, On
<1>4. On(p, cur[p])
  BY <1>1 DEF Moves, On, At
<1>5. ASSUME NEW t \in Tasks, t # cur[p]
      PROVE  IOAvailable(t)' <=> IOAvailable(t)
  <2>1. CASE UNCHANGED waiting /\ \E th \in Pool \cup {Any} : IsRequeue(p, th)
    <3>1. \A k \in Nat : InQueue(k, t)' <=> InQueue(k, t)
      BY <1>2, <1>5, <2>1, AfterEnqueue DEF IsRequeue
    <3> QED
      BY <1>3, <2>1, <3>1 DEF IOAvailable, Available
  <2>2. CASE IsWait(p)
    <3>1. /\ \A k \in Nat : InQueue(k, t)' <=> InQueue(k, t)
          /\ t \in waiting' <=> t \in waiting
      BY <1>5, <2>2 DEF IsWait, InQueue
    <3> QED
      BY <1>3, <3>1 DEF IOAvailable, Available
  <2> QED
    BY <2>1, <2>2
<1>6. ioWaits' = ioWaits
  BY <1>3, <1>4, <1>5 DEF ioWaits
<1>7. ends' = ends
  BY <1>1 DEF ends
<1>8. ASSUME NEW q \in Threads PROVE RunningOn(q)' = RunningOn(q)
  BY <1>3, PoolAssumption
<1>9. runs' = runs
  BY <1>8 DEF runs
<1> QED
  BY <1>6, <1>7, <1>9

LEMMA TriggerIsHidden ==
  ASSUME IOInv, IOMapped, IOMapped', NEW u \in Tasks, IsTriggered(u)
  PROVE  UNCHANGED <<ioWaits, runs, ends>>
<1>1. ASSUME NEW t \in Tasks PROVE IOKeeps(t)
  <2>1. \A k \in Nat :
          InQueue(k, t)' <=> InQueue(k, t) \/ (k = Len(m_tasks) + 1 /\ t = u)
    BY AfterEnqueue DEF IsTriggered, IOInv, IOFrame
  <2>2. Len(m_tasks) + 1 \in Nat
    BY DEF IOInv, IOFrame, TypeQueue
  <2>3. \A p \in Threads, phase \in {"resume", "task", "yield"} :
          At(p, t, phase)' <=> At(p, t, phase)
    BY DEF IsTriggered
  <2>4. m_state' = m_state /\ u \in waiting /\ waiting' = waiting \ {u}
    BY DEF IsTriggered
  <2>5. IOAvailable(t)' <=> IOAvailable(t)
    BY <2>1, <2>2, <2>3, <2>4 DEF IOAvailable, Available
  <2> QED
    BY <2>3, <2>4, <2>5 DEF IOKeeps, On
<1> QED
  BY <1>1, IOKeepsAll

LEMMA OtherIsHidden ==
  ASSUME IOMapped, IOMapped', IsOther, UNCHANGED waiting
  PROVE  UNCHANGED <<ioWaits, runs, ends>>
<1>1. \A t \in Tasks : IOKeeps(t)
  BY DEF IsOther, IOKeeps, IOAvailable, Available, On, InQueue
<1> QED
  BY <1>1, IOKeepsAll

(* The steps that TaskPool sees.                                           *)
LEMMA IONewSubmits ==
  ASSUME IOInv, IOMapped, IOMapped', ~ioDone, UNCHANGED <<ioDone, waiting>>,
         NEW u \in Tasks, NEW th \in Pins \cup {Any}, IsNew(u, th)
  PROVE  IOPromise!Submit(u)
<1> USE DEF IOInv, IOFrame, IOThreads, IOTokens, IOMapped
<1>1. /\ Token(u) /\ Exclusive(u) /\ m_state[u] = "NEW"
      /\ th \in Pool \cup {Any}
  BY PoolAssumption DEF IsNew
<1>2. ~IOAvailable(u) /\ \A p \in Threads : ~On(p, u)
  BY <1>1 DEF IOAvailable, Available, On, Token, Exclusive
<1>3. ASSUME NEW t \in Tasks
      PROVE  /\ IOAvailable(t)' <=> IOAvailable(t) \/ t = u
             /\ \A p \in Threads : On(p, t)' <=> On(p, t)
             /\ m_state'[t] = IF t = u THEN "READY" ELSE m_state[t]
  <2>1. \A k \in Nat :
          InQueue(k, t)' <=> InQueue(k, t) \/ (k = Len(m_tasks) + 1 /\ t = u)
    BY <1>1, AfterEnqueue DEF IsNew
  <2>2. \A p \in Threads, phase \in {"resume", "task", "yield"} :
          At(p, t, phase)' <=> At(p, t, phase)
    BY DEF IsNew, At
  <2>3. Len(m_tasks) + 1 \in Nat
    BY DEF TypeQueue
  <2> QED
    BY <2>1, <2>2, <2>3 DEF IsNew, SetsState, IOAvailable, Available, On
<1>4. ioWaits' = ioWaits \cup {u} /\ ends' = ends
  BY <1>1, <1>2, <1>3 DEF ioWaits, ends
<1>5. ASSUME NEW p \in Threads PROVE RunningOn(p)' = RunningOn(p)
  BY <1>3, PoolAssumption
<1>6. runs' = runs
  BY <1>5 DEF runs
<1>7. u \notin ioWaits \cup ends /\ \A p \in Threads : runs[p] # u
  BY <1>1, <1>2 DEF ioWaits, ends, runs
<1> QED
  BY <1>4, <1>6, <1>7 DEF IOPromise!Submit, ioWaits, runs, ends, ioDone

LEMMA IOResumeBegins ==
  ASSUME IOInv, IOMapped, IOMapped', UNCHANGED <<ioDone, waiting>>,
         NEW p \in Threads, NEW u \in Tasks, cur[p] = u,
         IsStateChange(p, "resume", "RUNNING", "task")
  PROVE  IOPromise!Begin(p, u)
<1> USE DEF IOInv, IOFrame, IOThreads, IOTokens, IOMapped
<1>1. /\ Token(u) /\ At(p, u, "resume") /\ m_state[u] = "READY"
      /\ m_state' = [m_state EXCEPT ![u] = "RUNNING"]
  BY DEF IsStateChange, Moves, SetsState, At, Token
<1>2. \A q \in Threads : ~On(q, u)
  BY <1>1 DEF Token, On
<1>3. \A q \in Threads, t \in Tasks :
        /\ On(q, t)' <=> On(q, t) \/ (q = p /\ t = u)
        /\ At(q, t, "resume")' <=> At(q, t, "resume") /\ q # p
  BY DEF IsStateChange, Moves, On, At
<1>4. \A t \in Tasks : t # u => ~At(p, t, "resume")
  BY DEF At
<1>5. \A k \in Nat, t \in Tasks : InQueue(k, t)' <=> InQueue(k, t)
  BY DEF IsStateChange, InQueue
<1>6. \A t \in Tasks : t # u => (IOAvailable(t)' <=> IOAvailable(t))
  BY <1>3, <1>4, <1>5 DEF IOAvailable, Available
<1>7. IOAvailable(u) /\ On(p, u)'
  BY <1>1, <1>3 DEF IOAvailable, Available
<1>8. ioWaits' = ioWaits \ {u} /\ u \in ioWaits
  BY <1>2, <1>3, <1>6, <1>7 DEF ioWaits
<1>9. ends' = ends
  BY <1>1 DEF ends
<1>10. ASSUME NEW q \in Threads
       PROVE  RunningOn(q)' = IF q = p THEN u ELSE RunningOn(q)
  BY <1>1, <1>3, PoolAssumption
<1>11. RunningOn(p) = None
  <2>1. \A t \in Tasks : ~On(p, t)
    BY <1>1 DEF On, At
  <2> QED
    BY <2>1
<1>12. runs' = [runs EXCEPT ![p] = u]
  BY ONLY <1>10, RunsChange
<1>13. runs[p] = None
  BY ONLY <1>11 DEF runs
<1> QED
  BY <1>8, <1>9, <1>12, <1>13
     DEF IOPromise!Begin, ioWaits, runs, ends, ioDone

LEMMA IOThreadLeft ==
  ASSUME IOInv, IOMapped, IOMapped', UNCHANGED waiting,
         NEW p \in Threads, NEW u \in Tasks, cur[p] = u,
         NEW from \in {"task", "yield"}, NEW to \in {"swap", "back"},
         NEW state, IsStateChange(p, from, state, to)
  PROVE  /\ runs[p] = u /\ runs' = [runs EXCEPT ![p] = None]
         /\ m_state' = [m_state EXCEPT ![u] = state]
         /\ \A q \in Threads : ~On(q, u)'
         /\ \A t \in Tasks : IOAvailable(t)' <=> IOAvailable(t)
         /\ \A t \in Tasks \ {u}, q \in Threads : On(q, t)' <=> On(q, t)
<1> USE DEF IOInv, IOFrame, IOThreads, IOTokens, IOMapped
<1>1. Token(u) /\ On(p, u)
  BY DEF IsStateChange, Moves, On, At
<1>2. \A q \in Threads : On(q, u) => q = p
  BY <1>1 DEF Token, Holds, On
<1>3. \A q \in Threads, t \in Tasks :
        /\ On(q, t)' <=> On(q, t) /\ q # p
        /\ At(q, t, "resume")' <=> At(q, t, "resume")
  BY DEF IsStateChange, Moves, On, At
<1>4. \A t \in Tasks : IOAvailable(t)' <=> IOAvailable(t)
  BY <1>3 DEF IOAvailable, Available, InQueue, IsStateChange
<1>5. \A t \in Tasks : t # u => ~On(p, t)
  BY DEF On, At
<1>6. RunningOn(p) = u
  BY <1>1
<1>7. ASSUME NEW q \in Threads
      PROVE  RunningOn(q)' = IF q = p THEN None ELSE RunningOn(q)
  BY <1>1, <1>3, PoolAssumption
<1>8. runs' = [runs EXCEPT ![p] = None]
  BY ONLY <1>7, RunsChange
<1>9. runs[p] = u
  BY ONLY <1>6 DEF runs
<1> QED
  BY <1>2, <1>3, <1>4, <1>5, <1>8, <1>9 DEF IsStateChange, SetsState

LEMMA IOYieldWaits ==
  ASSUME IOInv, IOMapped, IOMapped', UNCHANGED <<ioDone, waiting>>,
         NEW p \in Threads, NEW u \in Tasks, cur[p] = u,
         IsStateChange(p, "yield", "READY", "swap")
  PROVE  IOPromise!Yield(p, u)
<1> USE DEF IOInv, IOFrame, IOThreads, IOTokens, IOMapped
<1>1. /\ runs[p] = u /\ runs' = [runs EXCEPT ![p] = None]
      /\ m_state' = [m_state EXCEPT ![u] = "READY"]
      /\ \A q \in Threads : ~On(q, u)'
      /\ \A t \in Tasks : IOAvailable(t)' <=> IOAvailable(t)
      /\ \A t \in Tasks \ {u}, q \in Threads : On(q, t)' <=> On(q, t)
  BY IOThreadLeft
<1>2. At(p, u, "yield") /\ Token(u) /\ Known(u)
  BY DEF IsStateChange, Moves, At
<1>3. IOAvailable(u) /\ m_state[u] = "RUNNING"
  BY <1>2 DEF Known, IOAvailable, Available, Token
<1>4. ioWaits' = ioWaits \cup {u}
  BY <1>1, <1>3 DEF ioWaits
<1>5. ends' = ends
  BY <1>1, <1>3 DEF ends
<1> QED
  BY <1>1, <1>4, <1>5 DEF IOPromise!Yield, ioWaits, runs, ends, ioDone

LEMMA IOFinishEnds ==
  ASSUME IOInv, IOMapped, IOMapped', UNCHANGED <<ioDone, waiting>>,
         NEW p \in Threads, NEW u \in Tasks, cur[p] = u,
         IsStateChange(p, "task", "TERM", "back")
  PROVE  IOPromise!End(p, u)
<1> USE DEF IOInv, IOFrame, IOThreads, IOTokens, IOMapped
<1>1. /\ runs[p] = u /\ runs' = [runs EXCEPT ![p] = None]
      /\ m_state' = [m_state EXCEPT ![u] = "TERM"]
      /\ \A q \in Threads : ~On(q, u)'
      /\ \A t \in Tasks : IOAvailable(t)' <=> IOAvailable(t)
      /\ \A t \in Tasks \ {u}, q \in Threads : On(q, t)' <=> On(q, t)
  BY IOThreadLeft
<1>2. At(p, u, "task") /\ Token(u) /\ Exclusive(u)
  BY DEF IsStateChange, Moves, At
<1>3. ~IOAvailable(u)
  BY <1>2 DEF IOAvailable, Available, Token, Exclusive, Holds, At
<1>4. ioWaits' = ioWaits
  BY <1>1, <1>3 DEF ioWaits
<1>5. ends' = ends \cup {u}
  BY <1>1 DEF ends
<1> QED
  BY <1>1, <1>4, <1>5 DEF IOPromise!End, ioWaits, runs, ends, ioDone

(* Once stop() has returned, only the kernel moves; and only the join lets *)
(* it return.                                                              *)
LEMMA IODoneIsQuiet ==
  ASSUME IOInv, IOEnds, pc[Main] = "done", [IONext]_allVars
  PROVE  IsOther /\ UNCHANGED <<waiting, pc>>
<1> USE PoolAssumption DEF IOInv, IOFrame, IOThreads, Threads
<1>1. \A w \in Workers : pc[w] = "exit"
  BY DEF IOEnds
<1>2. ~IOOwner
  BY <1>1 DEF IOOwner, Start, Starting, StartReturns, CreateThread,
              RecordThread, Join, MainSchedules, IOStop, StopTickles, StopJoins
<1>3. ASSUME NEW p \in Threads
      PROVE  pc[p] \in {"done", "exit"}
  BY <1>1
<1>4. ASSUME NEW p \in Threads
      PROVE  /\ ~RunLoop(p) /\ ~RunTask(p) /\ ~TaskWaits(p)
             /\ \A t \in Tasks : ~AddsTimer(p, t)
  BY <1>3
     DEF RunLoop, ThreadRuns, Take, FindNothing, EnterIdle, Leave, RunTask,
         Resume, YieldState, YieldSwap, Finish, Back, TaskSchedules, Requeue,
         TaskWaits, AddsTimer
<1>5. ASSUME NEW p \in Threads
      PROVE  ~IOTickle(p) /\ ~IdleLoop(p)
  BY <1>3
     DEF IOTickle, Tickle, IdleLoop, IdleReadsTimers, IdleReadsPending,
         IdleReadsStopping, EpollReturns, ListExpired, CallbackScheduled,
         CallbacksScheduled, Drain, Triggers, CountsDown, IdleYields
<1>6. External \/ UNCHANGED allVars
  BY <1>2, <1>4, <1>5 DEF IONext, Inherited, IODone
<1> QED
  BY <1>6
     DEF External, EventOccurs, TimerDue, allVars, ioVars, vars, fiberVars,
         IsOther, At, Phase

LEMMA OnlyJoinReturns ==
  ASSUME IOInv, pc[Main] # "done", [IONext]_allVars, ~Join
  PROVE  pc'[Main] # "done"
<1> USE PoolAssumption DEF IOInv, IOFrame, IOThreads, Threads
<1>1. CASE IOOwner
  BY <1>1 DEF IOOwner, IOStop, StopTickles, StopJoins, Start, Starting,
              StartReturns, CreateThread, RecordThread, MainSchedules, Schedule
<1>2. ASSUME NEW p \in Threads, RunLoop(p) \/ RunTask(p)
      PROVE  pc'[Main] # "done"
  BY <1>2
     DEF RunLoop, ThreadRuns, Take, FindNothing, EnterIdle, Leave, RunTask,
         Resume, YieldState, YieldSwap, Finish, Back, TaskSchedules, Requeue,
         Schedule
<1>3. ASSUME NEW p \in Threads,
             \/ TaskWaits(p) \/ IOTickle(p) \/ IdleLoop(p)
             \/ \E t \in Tasks : AddsTimer(p, t)
      PROVE  pc'[Main] # "done"
  BY <1>3
     DEF TaskWaits, AddsTimer, IOTickle, Tickle, IORets, IdleLoop,
         IdleReadsTimers, IdleReadsPending, IdleReadsStopping, EpollReturns,
         ListExpired, CallbackScheduled, CallbacksScheduled, Drain, Triggers,
         CountsDown, IdleYields, Schedule, vars
<1>4. CASE External \/ UNCHANGED allVars
  BY <1>4 DEF External, EventOccurs, TimerDue, allVars, vars
<1> QED
  BY <1>1, <1>2, <1>3, <1>4 DEF IONext, Inherited, IODone

(* With one thread in run() the join finds no task anywhere.               *)
LEMMA IOJoinStops ==
  ASSUME OneThread, IOInv, Rest, IOEnds, Rest', IOMapped, IOMapped', Join
  PROVE  IOPromise!Stop
<1> USE PoolAssumption DEF IOInv, IOFrame, IOThreads, Threads
<1>1. idleTerm # {} /\ idleTerm' = idleTerm
  <2>1. UseCaller => Main \in idleTerm
    BY DEF Join, IOEnds
  <2>2. \A w \in Workers : w \in idleTerm
    BY DEF Join, IOEnds
  <2> QED
    BY <2>1, <2>2 DEF Join, Pool
<1>2. Nothing /\ waiting' = {}
  BY <1>1 DEF Rest, Nothing
<1>3. IsOther /\ UNCHANGED waiting
  BY <1>2 DEF Join, IsOther, At, Phase, fiberVars, Nothing
<1>4. UNCHANGED <<ioWaits, runs, ends>>
  BY <1>3, OtherIsHidden
<1>5. ASSUME NEW t \in Tasks
      PROVE  ~IOAvailable(t) /\ \A p \in Threads : ~On(p, t)
  <2>1. \A p \in Threads : ~Holds(p, t)
    BY <1>2 DEF Nothing, IOShape, HasTask, Holds, At, Phase
  <2>2. \A k \in Nat : ~InQueue(k, t)
    BY <1>2 DEF Nothing, InQueue
  <2> QED
    BY <1>2, <2>1, <2>2 DEF IOAvailable, Available, On, Holds, Nothing
<1>6. ioWaits = {}
  BY <1>5 DEF ioWaits, IOMapped
<1>7. \A p \in Threads : runs[p] = None
  BY <1>5 DEF runs, IOMapped
<1>8. ioDone' = TRUE
  BY DEF Join, ioDone
<1> QED
  BY <1>4, <1>6, <1>7, <1>8 DEF IOPromise!Stop, ioWaits, runs, ends, ioDone

(* The invariant of StopWaitsWithOneThread, for any number of threads.     *)
Rests == OneThread => Rest

LEMMA IOPromiseStep ==
  ASSUME IOInv, IOEnds, IOMapped, IOMapped', [IONext]_allVars,
         OneThread => Rest /\ Rest'
  PROVE  [IOPromise!Next]_ioMapped
<1>1. CASE pc[Main] = "done"
  <2>1. IsOther /\ UNCHANGED <<waiting, pc>>
    BY <1>1, IODoneIsQuiet
  <2>2. UNCHANGED <<ioWaits, runs, ends>>
    BY <2>1, OtherIsHidden
  <2>3. UNCHANGED ioDone
    BY <2>1 DEF ioDone
  <2> QED
    BY <2>2, <2>3 DEF ioMapped
<1>2. CASE pc[Main] # "done" /\ pc'[Main] = "done" /\ OneThread
  <2>1. Join
    BY <1>2, OnlyJoinReturns
  <2> QED
    BY <1>2, <2>1, IOJoinStops DEF IOPromise!Next
<1>3. CASE pc[Main] # "done" /\ ~(pc'[Main] = "done" /\ OneThread)
  <2>1. ~ioDone /\ ~ioDone' /\ UNCHANGED ioDone
    BY <1>3 DEF ioDone
  <2>2. ASSUME NEW p \in Threads, Phase(p) \in {"resume", "task", "yield"}
        PROVE  cur[p] \in Tasks
    BY <2>2, HolderInPool DEF HasTask, Phase, IOInv
  <2>3. ASSUME NEW t \in Tasks, NEW th \in Pins \cup {Any}, IsNew(t, th),
               UNCHANGED waiting
        PROVE  IOPromise!Next
    BY <2>1, <2>3, IONewSubmits DEF IOPromise!Next
  <2>4. ASSUME NEW p \in Threads, UNCHANGED waiting,
               IsStateChange(p, "resume", "RUNNING", "task")
        PROVE  IOPromise!Next
    <3>1. PICK u \in Tasks : cur[p] = u
      BY <2>2, <2>4 DEF IsStateChange, Moves
    <3>2. IOPromise!Begin(p, u)
      BY <2>1, <2>4, <3>1, IOResumeBegins
    <3> QED
      BY <3>2 DEF IOPromise!Next
  <2>5. ASSUME NEW p \in Threads, UNCHANGED waiting,
               IsStateChange(p, "yield", "READY", "swap")
        PROVE  IOPromise!Next
    <3>1. PICK u \in Tasks : cur[p] = u
      BY <2>2, <2>5 DEF IsStateChange, Moves
    <3>2. IOPromise!Yield(p, u)
      BY <2>1, <2>5, <3>1, IOYieldWaits
    <3> QED
      BY <3>2 DEF IOPromise!Next
  <2>6. ASSUME NEW p \in Threads, UNCHANGED waiting,
               IsStateChange(p, "task", "TERM", "back")
        PROVE  IOPromise!Next
    <3>1. PICK u \in Tasks : cur[p] = u
      BY <2>2, <2>6 DEF IsStateChange, Moves
    <3>2. IOPromise!End(p, u)
      BY <2>1, <2>6, <3>1, IOFinishEnds
    <3> QED
      BY <3>2 DEF IOPromise!Next
  <2>7. ASSUME UNCHANGED <<ioWaits, runs, ends>> PROVE UNCHANGED ioMapped
    BY <2>1, <2>7 DEF ioMapped
  <2>8. ASSUME NEW p \in Threads, NEW k \in 1 .. Len(m_tasks), IsTake(p, k),
               UNCHANGED waiting
        PROVE  UNCHANGED ioMapped
    BY <2>7, <2>8, IOTakeIsHidden
  <2>9. ASSUME NEW p \in Threads,
               \/ /\ UNCHANGED waiting
                  /\ \E th \in Pool \cup {Any} : IsRequeue(p, th)
               \/ IsWait(p)
        PROVE  UNCHANGED ioMapped
    BY <2>7, <2>9, YieldingIsHidden
  <2>10. ASSUME NEW t \in Tasks, IsTriggered(t) PROVE UNCHANGED ioMapped
    BY <2>7, <2>10, TriggerIsHidden
  <2>11. ASSUME IsOther, UNCHANGED waiting PROVE UNCHANGED ioMapped
    BY <2>7, <2>11, OtherIsHidden
  <2>12. IOFrame /\ Registered
    BY DEF IOInv
  <2> QED
    BY <2>3, <2>4, <2>5, <2>6, <2>8, <2>9, <2>10, <2>11, <2>12, IOKinds
<1> QED
  BY <1>1, <1>2, <1>3

(***************************************************************************)
(* IOManager implements TaskPool, for any number of threads, tasks and     *)
(* waits: a fiber that registers for an event (iomanager.cc:177) gives its *)
(* thread up, is neither lost nor resumed twice between the batches of the *)
(* threads that poll, and goes on where any thread takes it.  With one     *)
(* thread in run(), stop() outlasts all of them.                           *)
(***************************************************************************)
THEOREM IOTaskPoolImplemented == IOSpec => IOImplementsTaskPool
<1>1. IOInit => IOPromise!Init
  <2> SUFFICES ASSUME IOInit PROVE IOPromise!Init
    OBVIOUS
  <2> USE DEF IOInit, Init
  <2>1. ASSUME NEW t \in Tasks PROVE ~IOWaits(t)
    <3>1. ~Queued(t)
      BY DEF Queued
    <3>2. \A p \in Threads : ~ToResume(p)
      BY DEF ToResume
    <3> QED
      BY <3>1, <3>2 DEF IOWaits
  <2>2. \A p \in Threads : RunningOn(p) = None
    BY DEF RunningOn, Executing, Threads
  <2>3. {t \in Tasks : m_state[t] = "TERM"} = {}
    OBVIOUS
  <2>4. (OneThread /\ pc[Main] = "done") = FALSE
    BY DEF Threads
  <2> QED
    BY <2>1, <2>2, <2>3, <2>4 DEF IOPromise!Init
<1>2. IOInit => IOInv /\ IOEnds /\ Rests
  BY IOInvInit, PoolAssumption
     DEF IOInit, Init, Rests, Rest, IOEnds, Phase, Threads
<1>3. IOInv /\ IOEnds /\ Rests /\ [IONext]_allVars
        => IOInv' /\ IOEnds' /\ Rests'
  <2> SUFFICES ASSUME IOInv, IOEnds, Rests, [IONext]_allVars
               PROVE  IOInv' /\ IOEnds' /\ Rests'
    OBVIOUS
  <2>1. IOInv' /\ IOEnds'
    BY IOInvNext, IOEndsNext DEF IOInv
  <2>2. ASSUME OneThread PROVE Rest'
    BY <2>2, RestNext DEF Rests
  <2> QED
    BY <2>1, <2>2 DEF Rests, OneThread
<1>4. IOInv /\ IOEnds /\ Rests /\ IOMapped
        /\ IOInv' /\ IOEnds' /\ Rests' /\ IOMapped' /\ [IONext]_allVars
        => [IOPromise!Next]_ioMapped
  <2> SUFFICES ASSUME IOInv, IOEnds, Rests, IOMapped,
                      IOInv', IOEnds', Rests', IOMapped', [IONext]_allVars
               PROVE  [IOPromise!Next]_ioMapped
    OBVIOUS
  <2>1. OneThread => Rest /\ Rest'
    BY DEF Rests, OneThread
  <2> QED
    BY <2>1, IOPromiseStep
<1>5. ioMapped = IOPromise!vars
  BY DEF ioMapped, ioWaits, runs, ends, ioDone, IOPromise!vars
<1> QED
  BY <1>1, <1>2, <1>3, <1>4, <1>5, IOMappedHolds, PTL
     DEF IOSpec, IOImplementsTaskPool, IOPromise!Spec, ioMapped, ioWaits, runs,
         ends, ioDone, IOPromise!vars
=============================================================================
