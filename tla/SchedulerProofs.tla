--------------------------- MODULE SchedulerProofs ---------------------------
(***************************************************************************)
(* Theorems about Scheduler, for any finite set of workers, with or        *)
(* without the caller's thread, for any tasks, pins and bounds, fibers     *)
(* that requeue themselves for any thread included.                        *)
(***************************************************************************)
EXTENDS Scheduler, FiniteSetTheorems, SequenceTheorems, TLAPS

(***************************************************************************)
(* Where threads are.  A thread holds a task exactly between taking it and *)
(* counting itself out; only the owner is outside run(), and it leaves     *)
(* "main" for good once stop() is called.                                  *)
(***************************************************************************)
HasTask(p) ==
  \/ pc[p] \in {"resume", "task", "yield", "swap", "back"}
  \/ pc[p] = "tickle" /\ ret[p] \in {"resume", "task", "yield"}

AtOwner(p) ==
  \/ pc[p] \in {"main", "create", "semaphore"}
  \/ pc[p] = "tickle" /\ ret[p] = "main"

Shape ==
  /\ \A p \in Threads : Busy(p) <=> HasTask(p)
  /\ AtOwner(Main) => ~m_stopping
  /\ \A w \in Workers : ~AtOwner(w)
  /\ ~UseCaller => AtOwner(Main) \/ pc[Main] \in {"join", "done"}

Frame == TypeQueue /\ TypeThreads /\ Shape

LEMMA TakenEntry ==
  ASSUME TypeQueue, NEW k \in 1 .. Len(m_tasks)
  PROVE  m_tasks[k].task \in Tasks /\ m_tasks[k].thread \in Pool \cup {Any}
<1>1. m_tasks[k] \in Entries
  BY ElementOfSeq DEF TypeQueue
<1> QED
  BY <1>1 DEF Entries

LEMMA QueueNext ==
  ASSUME Frame, [Next]_vars
  PROVE  TypeQueue'
<1> USE DEF Frame, TypeQueue
<1>1. ASSUME NEW t \in Tasks, NEW th \in Pool \cup {Any}
      PROVE  Enqueue(t, th) \in Seq(Entries)
  BY <1>1 DEF Enqueue, Entries
<1>2. ASSUME NEW k \in 1 .. Len(m_tasks)
      PROVE  RemoveAt(m_tasks, k) \in Seq(Entries)
  <2>1. SubSeq(m_tasks, 1, k - 1) \in Seq(Entries)
    BY SubSeqProperties
  <2>2. SubSeq(m_tasks, k + 1, Len(m_tasks)) \in Seq(Entries)
    BY SubSeqProperties
  <2> QED
    BY <2>1, <2>2, ConcatProperties DEF RemoveAt
<1>3. ASSUME NEW t \in Tasks, NEW th \in Pins, MainSchedules(t, th)
      PROVE  TypeQueue'
  BY <1>1, <1>3, PoolAssumption DEF MainSchedules, Schedule
<1>4. ASSUME NEW p \in Threads, NEW t \in Tasks, NEW th \in Pins,
             TaskSchedules(p, t, th)
      PROVE  TypeQueue'
  BY <1>1, <1>4, PoolAssumption DEF TaskSchedules, Schedule
<1>5. ASSUME NEW p \in Threads, NEW pin \in RequeuePins, Requeue(p, pin)
      PROVE  TypeQueue'
  <2>1. cur[p] \in Tasks /\ p \in Pool
    BY <1>5, PoolAssumption
       DEF Requeue, Shape, Busy, HasTask, AtOwner, TypeThreads, Pool, Threads
  <2> QED
    BY <1>1, <1>5, <2>1 DEF Requeue, Schedule
<1>6. ASSUME NEW p \in Threads, Take(p) PROVE TypeQueue'
  BY <1>2, <1>6 DEF Take
<1>7. CASE UNCHANGED m_tasks
  BY <1>7
<1> QED
  BY <1>3, <1>4, <1>5, <1>6, <1>7
     DEF Next, Owner, Starting, RunLoop, RunTask, vars, Start, StartReturns,
         CreateThread, RecordThread, Stop, Join, ThreadRuns, FindNothing,
         EnterIdle, Leave, Resume, YieldState, YieldSwap, Finish, Back, Tickle,
         Idle, Done

LEMMA ThreadsNext ==
  ASSUME Frame, [Next]_vars
  PROVE  TypeThreads'
<1> USE PoolAssumption DEF Frame, TypeThreads, PCs, Threads
<1>1. CASE Owner
  BY <1>1 DEF Owner, Starting, Start, StartReturns, CreateThread, RecordThread,
              Stop, Join, MainSchedules, Schedule, startVars
<1>2. ASSUME NEW p \in Threads, RunLoop(p) PROVE TypeThreads'
  <2>1. CASE Take(p)
    BY <2>1, TakenEntry DEF Take, startVars
  <2> QED
    BY <1>2, <2>1 DEF RunLoop, ThreadRuns, FindNothing, EnterIdle, Leave,
                      startVars
<1>3. ASSUME NEW p \in Threads, RunTask(p) PROVE TypeThreads'
  BY <1>3 DEF RunTask, Resume, YieldState, YieldSwap, Finish, Back,
              TaskSchedules, Requeue, Schedule, startVars
<1>4. ASSUME NEW p \in Threads, Tickle(p) \/ Idle(p) PROVE TypeThreads'
  BY <1>4 DEF Tickle, Idle, startVars
<1>5. CASE UNCHANGED vars
  BY <1>5 DEF vars, startVars
<1> QED
  BY <1>1, <1>2, <1>3, <1>4, <1>5 DEF Next, Done

LEMMA ShapeNext ==
  ASSUME Frame, [Next]_vars
  PROVE  Shape'
<1> USE PoolAssumption DEF Frame, TypeThreads, Threads
<1>1. CASE Owner
  <2>1. (\A p \in Threads : Busy(p) <=> HasTask(p))'
    BY <1>1 DEF Owner, Starting, Start, StartReturns, CreateThread,
         RecordThread, Stop, Join, MainSchedules, Schedule, startVars, Shape,
         Busy, HasTask, AtOwner
  <2>2. (/\ AtOwner(Main) => ~m_stopping
         /\ \A w \in Workers : ~AtOwner(w)
         /\ ~UseCaller => AtOwner(Main) \/ pc[Main] \in {"join", "done"})'
    BY <1>1 DEF Owner, Starting, Start, StartReturns, CreateThread,
         RecordThread, Stop, Join, MainSchedules, Schedule, startVars, Shape,
         AtOwner
  <2> QED
    BY <2>1, <2>2 DEF Shape
<1>2. ASSUME NEW p \in Threads, RunLoop(p) PROVE Shape'
  <2>1. CASE Take(p)
    <3>1. PICK k \in 1 .. Len(m_tasks) :
             cur' = [cur EXCEPT ![p] = m_tasks[k].task]
      BY <2>1 DEF Take
    <3>2. m_tasks[k].task \in Tasks
      BY TakenEntry
    <3>3. cur'[p] # None
      BY <3>1, <3>2
    <3>4. /\ \A q \in Threads \ {p} : /\ cur'[q] = cur[q] /\ pc'[q] = pc[q]
                                       /\ ret'[q] = ret[q]
          /\ pc[p] = "run"
          /\ \/ pc'[p] = "resume" 
             \/ pc'[p] = "tickle" /\ ret'[p] = "resume"
      BY <2>1, <3>1 DEF Take
    <3> QED
      BY <2>1, <3>3, <3>4 DEF Take, startVars, Shape, Busy, HasTask, AtOwner
  <2> QED
    BY <1>2, <2>1 DEF RunLoop, ThreadRuns, FindNothing, EnterIdle, Leave,
                      startVars, Shape, Busy, HasTask, AtOwner
<1>3. ASSUME NEW p \in Threads, RunTask(p) PROVE Shape'
  BY <1>3 DEF RunTask, Resume, YieldState, YieldSwap, Finish, Back,
              TaskSchedules, Requeue, Schedule, startVars, Shape, Busy,
              HasTask, AtOwner
<1>4. ASSUME NEW p \in Threads, Tickle(p) \/ Idle(p) PROVE Shape'
  BY <1>4 DEF Tickle, Idle, startVars, Shape, Busy, HasTask, AtOwner
<1>5. CASE UNCHANGED vars
  BY <1>5 DEF vars, startVars, Shape, Busy, HasTask, AtOwner
<1> QED
  BY <1>1, <1>2, <1>3, <1>4, <1>5 DEF Next, Done

----------------------------------------------------------------------------
(***************************************************************************)
(* The counters.  Only Take and Back change which threads hold a task, and *)
(* only EnterIdle and Idle which are inside their idle fiber; each changes *)
(* its counter with it.                                                    *)
(***************************************************************************)
BusyThreads == {p \in Threads : Busy(p)}
IdleThreads == {p \in Threads : pc[p] = "idle"}
IdleCountMatches == m_idleThreadCount = Cardinality(IdleThreads)
Counts == ActiveCountExact /\ IdleCountMatches

LEMMA ThreadsFinite == IsFiniteSet(Threads)
BY PoolAssumption, FS_AddElement DEF Threads

LEMMA CountTypes ==
  ASSUME Counts
  PROVE  TypeCounts
<1>1. IsFiniteSet(BusyThreads) /\ IsFiniteSet(IdleThreads)
  BY ThreadsFinite, FS_Subset DEF BusyThreads, IdleThreads
<1> QED
  BY <1>1, FS_CardinalityType
     DEF Counts, ActiveCountExact, IdleCountMatches, BusyThreads, TypeCounts

LEMMA BusyNext ==
  ASSUME Frame, ActiveCountExact, [Next]_vars
  PROVE  ActiveCountExact'
<1> USE DEF Frame, TypeThreads
<1>1. IsFiniteSet(BusyThreads)
  BY ThreadsFinite, FS_Subset DEF BusyThreads
<1>2. ASSUME NEW p \in Threads, Take(p) PROVE ActiveCountExact'
  <2>1. PICK k \in 1 .. Len(m_tasks) :
           cur' = [cur EXCEPT ![p] = m_tasks[k].task]
    BY <1>2 DEF Take
  <2>2. m_tasks[k].task # None
    BY TakenEntry, PoolAssumption
  <2>3. p \notin BusyThreads
    BY <1>2 DEF Take, Shape, HasTask, BusyThreads
  <2>4. BusyThreads' = BusyThreads \cup {p}
    BY <2>1, <2>2 DEF BusyThreads, Busy
  <2>5. Cardinality(BusyThreads') = Cardinality(BusyThreads) + 1
    BY <1>1, <2>3, <2>4, FS_AddElement
  <2> QED
    BY <1>2, <2>5 DEF Take, ActiveCountExact, BusyThreads
<1>3. ASSUME NEW p \in Threads, Back(p) PROVE ActiveCountExact'
  <2>1. p \in BusyThreads
    BY <1>3 DEF Back, Shape, HasTask, BusyThreads
  <2>2. BusyThreads' = BusyThreads \ {p}
    BY <1>3 DEF BusyThreads, Busy, Back
  <2>3. Cardinality(BusyThreads') = Cardinality(BusyThreads) - 1
    BY <1>1, <2>1, <2>2, FS_RemoveElement
  <2> QED
    BY <1>3, <2>3 DEF Back, Uncount, ActiveCountExact, BusyThreads
<1>4. CASE UNCHANGED <<cur, m_activeThreadCount>>
  BY <1>4 DEF ActiveCountExact, Busy
<1> QED
  BY <1>2, <1>3, <1>4
     DEF Next, Owner, Starting, RunLoop, RunTask, vars, Start, StartReturns,
         CreateThread, RecordThread, Stop, Join, ThreadRuns, FindNothing,
         EnterIdle, Leave, Resume, YieldState, YieldSwap, Finish, Tickle,
         Idle, Done, MainSchedules, TaskSchedules, Requeue, countVars

LEMMA IdleNext ==
  ASSUME Frame, IdleCountMatches, [Next]_vars
  PROVE  IdleCountMatches'
<1> USE DEF Frame, TypeThreads, IdleThreads
<1>1. IsFiniteSet(IdleThreads)
  BY ThreadsFinite, FS_Subset
<1>2. ASSUME NEW p \in Threads, EnterIdle(p) PROVE IdleCountMatches'
  <2>1. p \notin IdleThreads /\ IdleThreads' = IdleThreads \cup {p}
    BY <1>2 DEF EnterIdle
  <2>2. Cardinality(IdleThreads') = Cardinality(IdleThreads) + 1
    BY <1>1, <2>1, FS_AddElement
  <2> QED
    BY <1>2, <2>2 DEF EnterIdle, IdleCountMatches
<1>3. ASSUME NEW p \in Threads, Idle(p) PROVE IdleCountMatches'
  <2>1. p \in IdleThreads /\ IdleThreads' = IdleThreads \ {p}
    BY <1>3 DEF Idle
  <2>2. Cardinality(IdleThreads') = Cardinality(IdleThreads) - 1
    BY <1>1, <2>1, FS_RemoveElement
  <2> QED
    BY <1>3, <2>2 DEF Idle, IdleUncounted, IdleCountMatches
<1>4. ASSUME UNCHANGED m_idleThreadCount, IdleThreads' = IdleThreads
      PROVE  IdleCountMatches'
  BY <1>4 DEF IdleCountMatches
<1>5. ASSUME NEW p \in Threads, RunLoop(p) \/ RunTask(p) \/ Tickle(p) \/ Idle(p)
      PROVE  IdleCountMatches'
  BY <1>2, <1>3, <1>4, <1>5
     DEF RunLoop, RunTask, ThreadRuns, FindNothing, Take, Leave, Resume,
         YieldState, YieldSwap, Finish, Back, Tickle, TaskSchedules, Requeue,
         Schedule, countVars
<1>6. CASE Owner \/ UNCHANGED vars
  BY <1>4, <1>6
     DEF Owner, Starting, Start, StartReturns, CreateThread, RecordThread,
         Stop, Join, MainSchedules, Schedule, countVars, vars, Threads
<1> QED
  BY <1>5, <1>6 DEF Next, Done

----------------------------------------------------------------------------
(* Every thread that exists has its id recorded, but the one whose         *)
(* constructor the owner waits for.                                        *)
Recorded(w) == pc[w] = "unborn" \/ w \in m_threadIds

Ids ==
  /\ m_threadIds \subseteq Workers
  /\ started => m_threadIds = Workers
  /\ pc[Main] # "semaphore" => \A w \in Workers : Recorded(w)
  /\ \A v, w \in Workers : ~Recorded(v) /\ ~Recorded(w) => v = w

LEMMA IdsNext ==
  ASSUME Frame, Ids, [Next]_vars
  PROVE  Ids'
<1> USE PoolAssumption DEF Frame, TypeThreads, Threads, Ids, Recorded
<1>1. CASE Owner
  <2>1. ASSUME NEW w \in Workers, CreateThread(w) PROVE Ids'
    BY <2>1 DEF CreateThread, startVars
  <2>2. ASSUME NEW w \in Workers, RecordThread(w) PROVE Ids'
    BY <2>2 DEF RecordThread, Posted
  <2>3. CASE StartReturns
    BY <2>3 DEF StartReturns
  <2>4. CASE Start \/ Stop \/ Join
    BY <2>4 DEF Start, Stop, Join, startVars
  <2>5. ASSUME NEW t \in Tasks, NEW th \in Pins, MainSchedules(t, th)
        PROVE  Ids'
    BY <2>5 DEF MainSchedules, Schedule, startVars
  <2> QED
    BY <1>1, <2>1, <2>2, <2>3, <2>4, <2>5 DEF Owner, Starting
<1>2. ASSUME NEW p \in Threads, RunLoop(p) \/ RunTask(p) \/ Tickle(p) \/ Idle(p)
      PROVE  Ids'
  BY <1>2
     DEF RunLoop, RunTask, ThreadRuns, FindNothing, Take, EnterIdle, Leave,
         Resume, YieldState, YieldSwap, Finish, Back, Tickle, Idle,
         TaskSchedules, Requeue, Schedule, startVars
<1>3. CASE UNCHANGED vars
  BY <1>3 DEF vars, startVars
<1> QED
  BY <1>1, <1>2, <1>3 DEF Next, Done

----------------------------------------------------------------------------
(* Once one thread's idle fiber has ended, nothing is queued or held, and  *)
(* nobody is left who could queue anything.                                *)
LEMMA LeaveNext ==
  ASSUME Frame, ActiveCountExact, NoEarlyLeave, [Next]_vars
  PROVE  NoEarlyLeave'
<1> USE DEF Frame, TypeThreads, NoEarlyLeave
<1>1. ASSUME NEW p \in Threads, Idle(p) PROVE NoEarlyLeave'
  <2>1. ASSUME Stopping PROVE \A q \in Threads : ~Busy(q)
    <3>1. IsFiniteSet({q \in Threads : Busy(q)})
      BY ThreadsFinite, FS_Subset
    <3>2. {q \in Threads : Busy(q)} = {}
      BY <2>1, <3>1, FS_EmptySet DEF Stopping, ActiveCountExact
    <3> QED
      BY <3>2
  <2> QED
    BY <1>1, <2>1 DEF Idle, Stopping, Busy, startVars
<1>2. ASSUME NEW p \in Threads, Take(p) PROVE NoEarlyLeave'
  <2>1. m_tasks # <<>>
    BY <1>2 DEF Take
  <2> QED
    BY <1>2, <2>1 DEF Take, startVars
<1>3. ASSUME NEW p \in Threads, RunTask(p) PROVE NoEarlyLeave'
  BY <1>3 DEF RunTask, Resume, YieldState, YieldSwap, Finish, Back,
              TaskSchedules, Requeue, Shape, Busy, HasTask, startVars
<1>4. CASE Owner
  BY <1>4, PoolAssumption
     DEF Owner, Starting, Start, StartReturns, CreateThread, RecordThread, Stop,
         Join, MainSchedules, Shape, AtOwner, Busy, startVars
<1>5. CASE UNCHANGED <<m_tasks, m_stopping, cur, idleTerm>>
  BY <1>5 DEF Busy
<1> QED
  BY <1>1, <1>2, <1>3, <1>4, <1>5
     DEF Next, RunLoop, ThreadRuns, FindNothing, EnterIdle, Leave, Tickle, Done,
         vars, startVars

----------------------------------------------------------------------------
(***************************************************************************)
(* A task has one token that lets a thread run it: its entry in the queue, *)
(* or the thread that took the entry and has not queued it again.  A       *)
(* thread that waits in tickle() counts as where tickle() returns to.      *)
(***************************************************************************)
Phase(p) == IF pc[p] = "tickle" THEN ret[p] ELSE pc[p]
At(p, t, phase) == cur[p] = t /\ Phase(p) = phase
Holds(p, t) == \E phase \in {"resume", "task", "yield"} : At(p, t, phase)
InQueue(k, t) == k \in 1 .. Len(m_tasks) /\ m_tasks[k].task = t

Token(t) ==
  /\ \A j, k \in Nat : InQueue(j, t) /\ InQueue(k, t) => j = k
  /\ \A p, q \in Threads : Holds(p, t) /\ Holds(q, t) => p = q
  /\ \A p \in Threads, k \in Nat :
       InQueue(k, t) => ~At(p, t, "resume") /\ ~At(p, t, "task")
  /\ \A p \in Threads : At(p, t, "resume") => m_state[t] = "READY"
  /\ \A p \in Threads :
       At(p, t, "task") \/ At(p, t, "yield") => m_state[t] = "RUNNING"
  /\ m_state[t] \in {"NEW", "TERM"} => \A k \in Nat : ~InQueue(k, t)

(* A task that is neither new nor at its end is somewhere, and one that is *)
(* about to yield is queued.                                               *)
Somewhere(t) ==
  /\ \/ m_state[t] \in {"NEW", "TERM"}
     \/ \E k \in Nat : InQueue(k, t)
     \/ \E p \in Threads : Holds(p, t)
  /\ \A p \in Threads : At(p, t, "yield") => \E k \in Nat : InQueue(k, t)

Tokens == TypeFibers /\ \A t \in Tasks : Token(t) /\ Somewhere(t)

(* What a step does to tokens. *)
Queues(t, thread) == m_tasks' = Enqueue(t, thread)
Moves(p, from, to) ==
  /\ Phase(p) = from /\ Phase(p)' = to
  /\ \A q \in Threads \ {p} : Phase(q)' = Phase(q)
SetsState(t, state) == m_state' = [m_state EXCEPT ![t] = state]

IsNew(t, thread) ==
  /\ m_state[t] = "NEW" /\ SetsState(t, "READY") /\ Queues(t, thread)
  /\ UNCHANGED cur /\ \A q \in Threads : Phase(q)' = Phase(q)
IsTake(p, k) ==
  /\ m_state[m_tasks[k].task] # "RUNNING"
  /\ m_tasks' = RemoveAt(m_tasks, k) /\ UNCHANGED m_state
  /\ cur' = [cur EXCEPT ![p] = m_tasks[k].task] /\ Moves(p, "run", "resume")
IsRequeue(p, thread) ==
  /\ Moves(p, "task", "yield") /\ Queues(cur[p], thread)
  /\ UNCHANGED <<cur, m_state>>
IsStateChange(p, from, state, to) ==
  /\ Moves(p, from, to) /\ SetsState(cur[p], state)
  /\ UNCHANGED <<cur, m_tasks>>
IsOther ==
  /\ UNCHANGED <<m_tasks, m_state>>
  /\ \A p \in Threads, t \in Tasks, phase \in {"resume", "task", "yield"} :
       At(p, t, phase)' <=> At(p, t, phase)

LEMMA TaskKinds ==
  ASSUME Frame, NEW p \in Threads, RunTask(p)
  PROVE  \/ \E t \in Tasks, th \in Pins : IsNew(t, th)
         \/ \E th \in Pool \cup {Any} : IsRequeue(p, th)
         \/ IsStateChange(p, "resume", "RUNNING", "task")
         \/ IsStateChange(p, "yield", "READY", "swap")
         \/ IsStateChange(p, "task", "TERM", "back")
         \/ IsOther
<1> USE DEF Frame, TypeThreads, Phase
<1>1. ASSUME NEW t \in Tasks, NEW th \in Pins, TaskSchedules(p, t, th)
      PROVE  IsNew(t, th)
  BY <1>1 DEF TaskSchedules, Schedule, IsNew, SetsState, Queues
<1>2. ASSUME NEW pin \in RequeuePins, Requeue(p, pin)
      PROVE  \E th \in Pool \cup {Any} : IsRequeue(p, th)
  <2>1. p \in Pool
    BY <1>2, PoolAssumption DEF Requeue, Shape, AtOwner, Pool, Threads
  <2>2. IsRequeue(p, IF pin = "own" THEN p ELSE Any)
    BY <1>2 DEF Requeue, Schedule, IsRequeue, Queues, Moves
  <2> QED
    BY <2>1, <2>2
<1>3. CASE Resume(p)
  BY <1>3 DEF Resume, MarkedRunning, IsStateChange, Moves, SetsState
<1>4. CASE YieldState(p)
  BY <1>4 DEF YieldState, IsStateChange, Moves, SetsState
<1>5. CASE Finish(p)
  BY <1>5 DEF Finish, IsStateChange, Moves, SetsState
<1>6. CASE YieldSwap(p)
  BY <1>6 DEF YieldSwap, IsOther, At
<1>7. CASE Back(p)
  BY <1>7 DEF Back, IsOther, At, fiberVars
<1> QED
  BY <1>1, <1>2, <1>3, <1>4, <1>5, <1>6, <1>7 DEF RunTask

LEMMA Kinds ==
  ASSUME Frame, [Next]_vars
  PROVE  \/ \E t \in Tasks, th \in Pins : IsNew(t, th)
         \/ \E p \in Threads, k \in 1 .. Len(m_tasks) : IsTake(p, k)
         \/ \E p \in Threads, th \in Pool \cup {Any} : IsRequeue(p, th)
         \/ \E p \in Threads :
              \/ IsStateChange(p, "resume", "RUNNING", "task")
              \/ IsStateChange(p, "yield", "READY", "swap")
              \/ IsStateChange(p, "task", "TERM", "back")
         \/ IsOther
<1> USE DEF Frame, TypeThreads, Phase
<1>1. CASE Owner
  <2>1. ASSUME NEW t \in Tasks, NEW th \in Pins, MainSchedules(t, th)
        PROVE  IsNew(t, th)
    BY <2>1 DEF MainSchedules, Schedule, IsNew, SetsState, Queues, Threads
  <2>2. CASE Start \/ Starting \/ Stop \/ Join
    BY <2>2, PoolAssumption
       DEF Start, Starting, StartReturns, CreateThread, RecordThread, Stop,
           Join, IsOther, At, fiberVars, Threads
  <2> QED
    BY <1>1, <2>1, <2>2 DEF Owner
<1>2. ASSUME NEW p \in Threads, RunLoop(p)
      PROVE  (\E k \in 1 .. Len(m_tasks) : IsTake(p, k)) \/ IsOther
  <2>1. CASE Take(p)
    BY <2>1 DEF Take, Eligible, IsTake, Moves, fiberVars
  <2>2. CASE ThreadRuns(p) \/ FindNothing(p) \/ EnterIdle(p) \/ Leave(p)
    BY <2>2 DEF ThreadRuns, FindNothing, EnterIdle, Leave, IsOther, At,
                fiberVars
  <2> QED
    BY <1>2, <2>1, <2>2 DEF RunLoop
<1>3. ASSUME NEW p \in Threads, Tickle(p) \/ Idle(p) PROVE IsOther
  BY <1>3 DEF Tickle, Idle, IsOther, At, fiberVars
<1>4. CASE UNCHANGED vars
  BY <1>4 DEF vars, fiberVars, IsOther, At
<1> QED
  BY <1>1, <1>2, <1>3, <1>4, TaskKinds DEF Next, Done

(* Positions after the queue grows and after one entry is taken. *)
LEMMA AfterEnqueue ==
  ASSUME TypeQueue, NEW u \in Tasks, NEW th \in Pool \cup {Any}, Queues(u, th)
  PROVE  \A k \in Nat, t \in Tasks :
           InQueue(k, t)' <=>
             InQueue(k, t) \/ (k = Len(m_tasks) + 1 /\ t = u)
<1>1. [task |-> u, thread |-> th] \in Entries
  BY DEF Entries
<1> QED
  BY <1>1 DEF TypeQueue, Queues, Enqueue, InQueue

LEMMA RemoveAtElements ==
  ASSUME TypeQueue, NEW k \in 1 .. Len(m_tasks)
  PROVE  /\ Len(RemoveAt(m_tasks, k)) = Len(m_tasks) - 1
         /\ \A i \in 1 .. Len(m_tasks) - 1 :
              RemoveAt(m_tasks, k)[i] = m_tasks[IF i < k THEN i ELSE i + 1]
<1> DEFINE front == SubSeq(m_tasks, 1, k - 1)
           back == SubSeq(m_tasks, k + 1, Len(m_tasks))
<1>1. /\ front \in Seq(Entries)
      /\ Len(front) = k - 1
      /\ \A i \in 1 .. k - 1 : front[i] = m_tasks[i]
  BY SubSeqProperties DEF TypeQueue
<1>2. /\ back \in Seq(Entries)
      /\ Len(back) = Len(m_tasks) - k
      /\ \A i \in 1 .. Len(m_tasks) - k : back[i] = m_tasks[k + i]
  BY SubSeqProperties DEF TypeQueue
<1>3. /\ Len(front \o back) = Len(front) + Len(back)
      /\ \A i \in 1 .. Len(front) + Len(back) :
           (front \o back)[i] =
             IF i <= Len(front) THEN front[i] ELSE back[i - Len(front)]
  BY <1>1, <1>2, ConcatProperties
<1>4. k \in Nat /\ Len(m_tasks) \in Nat /\ k <= Len(m_tasks)
  BY DEF TypeQueue
<1> HIDE DEF front, back
<1>5. Len(front \o back) = Len(m_tasks) - 1
  BY <1>1, <1>2, <1>3, <1>4
<1>6. ASSUME NEW i \in 1 .. Len(m_tasks) - 1
      PROVE  (front \o back)[i] = m_tasks[IF i < k THEN i ELSE i + 1]
  <2>1. CASE i < k
    BY <1>1, <1>2, <1>3, <1>4, <2>1
  <2>2. CASE i >= k
    <3>1. i - (k - 1) \in 1 .. Len(m_tasks) - k /\ k + (i - (k - 1)) = i + 1
      BY <1>4, <2>2
    <3>2. back[i - (k - 1)] = m_tasks[i + 1]
      BY <1>2, <3>1
    <3> QED
      BY <1>1, <1>2, <1>3, <1>4, <2>2, <3>2
  <2>3. i < k \/ i >= k
    BY <1>4
  <2> QED
    BY <2>1, <2>2, <2>3
<1> QED
  BY <1>5, <1>6 DEF RemoveAt, front, back

LEMMA AfterTake ==
  ASSUME TypeQueue, NEW k \in 1 .. Len(m_tasks), m_tasks' = RemoveAt(m_tasks, k)
  PROVE  \A j \in Nat, t \in Tasks :
           InQueue(j, t)' <=>
             \/ j < k /\ InQueue(j, t)
             \/ j >= k /\ InQueue(j + 1, t)
<1>1. /\ Len(m_tasks') = Len(m_tasks) - 1
      /\ \A i \in 1 .. Len(m_tasks) - 1 :
           m_tasks'[i] = m_tasks[IF i < k THEN i ELSE i + 1]
  BY RemoveAtElements
<1> QED
  BY <1>1 DEF InQueue, TypeQueue

LEMMA FibersNext ==
  ASSUME Frame, TypeFibers, [Next]_vars
  PROVE  TypeFibers'
<1> USE DEF Frame, TypeFibers, TypeThreads, fiberVars
<1>1. CASE Owner
  BY <1>1 DEF Owner, Starting, Start, StartReturns, CreateThread, RecordThread,
              Stop, Join, MainSchedules
<1>2. ASSUME NEW p \in Threads, RunLoop(p) \/ Tickle(p) \/ Idle(p)
      PROVE  TypeFibers'
  BY <1>2 DEF RunLoop, ThreadRuns, Take, FindNothing, EnterIdle, Leave, Tickle,
              Idle
<1>3. ASSUME NEW p \in Threads, RunTask(p) PROVE TypeFibers'
  <2>1. Phase(p) \in {"resume", "task", "yield"} => cur[p] \in Tasks
    BY DEF Shape, Busy, HasTask, Phase
  <2>2. pc[p] = "swap" => cur[p] \in Tasks
    BY DEF Shape, Busy, HasTask
  <2> QED
    BY <1>3, <2>1, <2>2, PoolAssumption
       DEF RunTask, Resume, MarkedRunning, YieldState, YieldSwap, Finish, Back,
           TaskSchedules, Requeue, Phase
<1>4. CASE UNCHANGED vars
  BY <1>4 DEF vars
<1> QED
  BY <1>1, <1>2, <1>3, <1>4 DEF Next, Done

LEMMA TokenNext ==
  ASSUME Frame, Tokens, [Next]_vars, NEW t \in Tasks
  PROVE  Token(t)' /\ Somewhere(t)'
<1> USE DEF Frame, Tokens, TypeThreads
<1>1. Token(t) /\ Somewhere(t)
  OBVIOUS
<1>2. ASSUME NEW u \in Tasks, NEW th \in Pins, IsNew(u, th)
      PROVE  Token(t)' /\ Somewhere(t)'
  <2>1. \A k \in Nat :
          InQueue(k, t)' <=> InQueue(k, t) \/ (k = Len(m_tasks) + 1 /\ t = u)
    BY <1>2, AfterEnqueue, PoolAssumption DEF IsNew
  <2>2. \A p \in Threads, phase \in {"resume", "task", "yield"} :
          At(p, t, phase)' <=> At(p, t, phase)
    BY <1>2 DEF IsNew, At
  <2>3. m_state'[t] = IF t = u THEN "READY" ELSE m_state[t]
    BY <1>2 DEF IsNew, SetsState, TypeFibers
  <2>4. Len(m_tasks) + 1 \in Nat
    BY DEF TypeQueue
  <2>5. Token(t)'
    BY <1>1, <1>2, <2>1, <2>2, <2>3 DEF IsNew, Token, Holds
  <2>6. Somewhere(t)'
    BY <1>1, <2>1, <2>2, <2>3, <2>4 DEF Somewhere, Holds
  <2> QED
    BY <2>5, <2>6
<1>3. ASSUME NEW p \in Threads, NEW k \in 1 .. Len(m_tasks), IsTake(p, k)
      PROVE  Token(t)' /\ Somewhere(t)'
  <2> DEFINE u == m_tasks[k].task
  <2>1. u \in Tasks /\ k \in Nat /\ InQueue(k, u)
    BY TakenEntry DEF InQueue, TypeQueue
  <2>2. \A j \in Nat :
          InQueue(j, t)' <=>
            \/ j < k /\ InQueue(j, t)
            \/ j >= k /\ InQueue(j + 1, t)
    <3>1. TypeQueue /\ m_tasks' = RemoveAt(m_tasks, k)
      BY <1>3 DEF IsTake
    <3> QED
      BY <3>1, AfterTake
  <2>3. \A q \in Threads, phase \in {"resume", "task", "yield"} :
          At(q, t, phase)' <=>
            IF q = p THEN t = u /\ phase = "resume" ELSE At(q, t, phase)
    BY <1>3, <2>1 DEF IsTake, Moves, At
  <2>4. m_state' = m_state /\ m_state[u] # "RUNNING"
    BY <1>3 DEF IsTake
  <2>5. \A phase \in {"resume", "task", "yield"} : ~At(p, t, phase)
    BY <1>3 DEF IsTake, Moves, At
  <2> HIDE DEF u
  <2>6. Token(t)'
    <3>1. CASE t = u
      <4>1. m_state[t] = "READY"
        BY <1>1, <2>1, <2>4, <3>1 DEF Token, TypeFibers
      <4>2. \A j \in Nat : ~InQueue(j, t)'
        BY <1>1, <2>1, <2>2, <3>1 DEF Token
      <4>3. \A q \in Threads : ~Holds(q, t)
        BY <1>1, <2>1, <2>4, <3>1 DEF Token, Holds
      <4> QED
        BY <2>3, <2>4, <3>1, <4>1, <4>2, <4>3 DEF Token, Holds
    <3>2. CASE t # u
      BY <1>1, <2>1, <2>2, <2>3, <2>4, <2>5, <3>2 DEF Token, Holds
    <3> QED
      BY <3>1, <3>2
  <2>7. Somewhere(t)'
    <3>1. CASE t = u
      <4>1. \A q \in Threads : ~At(q, t, "yield")
        BY <1>1, <2>1, <2>4, <3>1 DEF Token
      <4> QED
        BY <2>3, <3>1, <4>1 DEF Somewhere, Holds
    <3>2. CASE t # u
      <4>1. ASSUME NEW j \in Nat, InQueue(j, t)
            PROVE  \E i \in Nat : InQueue(i, t)'
        <5>1. j # k
          BY <2>1, <3>2, <4>1 DEF InQueue, u
        <5>2. CASE j < k
          BY <2>1, <2>2, <4>1, <5>2
        <5>3. CASE j > k
          <6>1. j - 1 \in Nat /\ j - 1 >= k /\ (j - 1) + 1 = j
            BY <2>1, <5>3
          <6> QED
            BY <2>2, <4>1, <6>1
        <5> QED
          BY <2>1, <5>1, <5>2, <5>3
      <4> QED
        BY <1>1, <2>3, <2>4, <2>5, <3>2, <4>1 DEF Somewhere, Holds
    <3> QED
      BY <3>1, <3>2
  <2> QED
    BY <2>6, <2>7
<1>4. ASSUME NEW p \in Threads, NEW th \in Pool \cup {Any}, IsRequeue(p, th)
      PROVE  Token(t)' /\ Somewhere(t)'
  <2>1. cur[p] \in Tasks
    BY <1>4 DEF IsRequeue, Moves, Phase, Shape, Busy, HasTask
  <2>2. \A k \in Nat :
          InQueue(k, t)' <=>
            InQueue(k, t) \/ (k = Len(m_tasks) + 1 /\ t = cur[p])
    BY <1>4, <2>1, AfterEnqueue DEF IsRequeue
  <2>3. \A q \in Threads, phase \in {"resume", "task", "yield"} :
          At(q, t, phase)' <=>
            IF q = p THEN t = cur[p] /\ phase = "yield" ELSE At(q, t, phase)
    BY <1>4 DEF IsRequeue, Moves, At
  <2>4. m_state' = m_state
    BY <1>4 DEF IsRequeue
  <2>5. \A phase \in {"resume", "task", "yield"} :
          At(p, t, phase) <=> t = cur[p] /\ phase = "task"
    BY <1>4 DEF IsRequeue, Moves, At
  <2>6. Token(t)' 
    BY <1>1, <2>2, <2>3, <2>4, <2>5 DEF Token, Holds
  <2>7. Somewhere(t)'
    BY <1>1, <2>2, <2>3, <2>4, <2>5 DEF Somewhere, Holds
  <2> QED
    BY <2>6, <2>7
<1>5. ASSUME NEW p \in Threads,
             \/ IsStateChange(p, "resume", "RUNNING", "task")
             \/ IsStateChange(p, "yield", "READY", "swap")
             \/ IsStateChange(p, "task", "TERM", "back")
      PROVE  Token(t)' /\ Somewhere(t)'
  <2>1. cur[p] \in Tasks
    BY <1>5 DEF IsStateChange, Moves, Phase, Shape, Busy, HasTask
  <2>2. \A k \in Nat : InQueue(k, t)' <=> InQueue(k, t)
    BY <1>5 DEF IsStateChange, InQueue
  <2>3. ASSUME NEW q \in Threads \ {p},
               NEW phase \in {"resume", "task", "yield"}
        PROVE  At(q, t, phase)' <=> At(q, t, phase)
    BY <1>5 DEF IsStateChange, Moves, At
  <2>4. t # cur[p] => m_state'[t] = m_state[t]
    BY <1>5, <2>1 DEF IsStateChange, SetsState, TypeFibers
  <2>5. CASE t # cur[p]
    <3>1. \A phase \in {"resume", "task", "yield"} :
            ~At(p, t, phase) /\ ~At(p, t, phase)'
      BY <1>5, <2>5 DEF IsStateChange, At
    <3> QED
      BY <1>1, <2>2, <2>3, <2>4, <2>5, <3>1 DEF Token, Somewhere, Holds
  <2>6. CASE t = cur[p] /\ IsStateChange(p, "resume", "RUNNING", "task")
    <3>1. At(p, t, "resume") /\ \A phase \in {"resume", "task", "yield"} :
                                  At(p, t, phase)' <=> phase = "task"
      BY <2>6 DEF IsStateChange, Moves, At
    <3>2. m_state'[t] = "RUNNING"
      BY <2>1, <2>6 DEF IsStateChange, SetsState, TypeFibers
    <3> QED
      BY <1>1, <2>2, <2>3, <3>1, <3>2 DEF Token, Somewhere, Holds
  <2>7. CASE t = cur[p] /\ IsStateChange(p, "yield", "READY", "swap")
    <3>1. At(p, t, "yield") /\ \A phase \in {"resume", "task", "yield"} :
                                  ~At(p, t, phase)'
      BY <2>7 DEF IsStateChange, Moves, At
    <3>2. m_state'[t] = "READY"
      BY <2>1, <2>7 DEF IsStateChange, SetsState, TypeFibers
    <3> QED
      BY <1>1, <2>2, <2>3, <3>1, <3>2 DEF Token, Somewhere, Holds
  <2>8. CASE t = cur[p] /\ IsStateChange(p, "task", "TERM", "back")
    <3>1. At(p, t, "task") /\ \A phase \in {"resume", "task", "yield"} :
                                  ~At(p, t, phase)'
      BY <2>8 DEF IsStateChange, Moves, At
    <3>2. m_state'[t] = "TERM"
      BY <2>1, <2>8 DEF IsStateChange, SetsState, TypeFibers
    <3> QED
      BY <1>1, <2>2, <2>3, <3>1, <3>2 DEF Token, Somewhere, Holds
  <2> QED
    BY <1>5, <2>5, <2>6, <2>7, <2>8
<1>6. CASE IsOther
  BY <1>1, <1>6 DEF IsOther, Token, Somewhere, Holds, InQueue
<1> QED
  BY <1>2, <1>3, <1>4, <1>5, <1>6, Kinds

----------------------------------------------------------------------------
(* Threads end only with their idle fiber, and stop() only after them.     *)
Ends ==
  /\ \A p \in Threads : pc[p] = "exit" => p \in idleTerm
  /\ UseCaller /\ pc[Main] \in {"join", "done"} => Main \in idleTerm
  /\ pc[Main] = "done" => \A w \in Workers : pc[w] = "exit"

LEMMA EndsNext ==
  ASSUME Frame, Ends, [Next]_vars
  PROVE  Ends'
<1> USE PoolAssumption DEF Frame, TypeThreads, Threads, Ends
<1>1. CASE Owner
  BY <1>1 DEF Owner, Starting, Start, StartReturns, CreateThread, RecordThread,
              Stop, Join, MainSchedules, Schedule
<1>2. ASSUME NEW p \in Threads, RunLoop(p) \/ Tickle(p) \/ Idle(p) PROVE Ends'
  BY <1>2 DEF RunLoop, ThreadRuns, Take, FindNothing, EnterIdle, Leave, Tickle,
              Idle
<1>3. ASSUME NEW p \in Threads, RunTask(p) PROVE Ends'
  BY <1>3 DEF RunTask, Resume, YieldState, YieldSwap, Finish, Back,
              TaskSchedules, Requeue, Schedule
<1>4. CASE UNCHANGED vars
  BY <1>4 DEF vars
<1> QED
  BY <1>1, <1>2, <1>3, <1>4 DEF Next, Done

LEMMA FlagsNext ==
  ASSUME TypeFlags, [Next]_vars
  PROVE  TypeFlags'
BY DEF TypeFlags, Next, Owner, Starting, Start, StartReturns, CreateThread,
       RecordThread, Stop, Join, MainSchedules, RunLoop, ThreadRuns, Take,
       FindNothing, EnterIdle, Leave, RunTask, Resume, YieldState, YieldSwap,
       Finish, Back, TaskSchedules, Requeue, Tickle, Idle, Done, vars, startVars

Inv == /\ Frame /\ TypeFlags /\ Tokens
       /\ Counts /\ Ids /\ NoEarlyLeave /\ Ends

LEMMA InvInit == Init => Inv
<1> SUFFICES ASSUME Init PROVE Inv
  OBVIOUS
<1> USE PoolAssumption DEF Init, Threads
<1>1. TypeQueue /\ TypeThreads
  BY DEF TypeQueue, TypeThreads, PCs
<1>2. Shape
  BY DEF Shape, Busy, HasTask, AtOwner
<1>3. TypeFlags
  BY DEF TypeFlags
<1>4. Tokens
  BY DEF Tokens, TypeFibers, Token, Somewhere, InQueue, Holds, At, Phase
<1>5. Counts
  <2>1. {p \in Threads : Busy(p)} = {} /\ IdleThreads = {}
    BY DEF Busy, IdleThreads
  <2> QED
    BY <2>1, FS_EmptySet DEF Counts, ActiveCountExact, IdleCountMatches
<1>6. Ids
  BY DEF Ids, Recorded
<1>7. NoEarlyLeave /\ Ends
  BY DEF NoEarlyLeave, Ends
<1> QED
  BY <1>1, <1>2, <1>3, <1>4, <1>5, <1>6, <1>7 DEF Inv, Frame

LEMMA InvNext == Inv /\ [Next]_vars => Inv'
<1> SUFFICES ASSUME Inv, [Next]_vars PROVE Inv'
  OBVIOUS
<1>1. Frame'
  BY QueueNext, ThreadsNext, ShapeNext DEF Inv, Frame
<1>2. Tokens'
  BY FibersNext, TokenNext DEF Inv, Tokens
<1>3. Counts'
  BY BusyNext, IdleNext DEF Inv, Counts
<1>4. Ids' /\ NoEarlyLeave' /\ Ends' /\ TypeFlags'
  BY IdsNext, LeaveNext, EndsNext, FlagsNext DEF Inv, Counts
<1> QED
  BY <1>1, <1>2, <1>3, <1>4 DEF Inv

LEMMA InvHolds == Spec => []Inv
BY InvInit, InvNext, PTL DEF Spec

(* The bookkeeping of run(): every variable keeps its type and no counter  *)
(* goes below zero, m_activeThreadCount is the number of threads that hold *)
(* a task, and start() records the ids of its threads and nothing else.    *)
THEOREM BookkeepingCorrect == Spec => []PoolConsistent
<1>1. Inv => TypeOK
  BY CountTypes DEF Inv, Frame, Tokens, TypeOK
<1>2. Inv => ActiveCountExact
  BY DEF Inv, Counts
<1>3. Inv => ThreadIdsValid
  BY PoolAssumption DEF Inv, Ids, ThreadIdsValid
<1> QED
  BY <1>1, <1>2, <1>3, InvHolds, PTL DEF PoolConsistent

(* No thread leaves run() while a task is queued or held, nor is a task    *)
(* queued or held after one has left.                                      *)
THEOREM NoEarlyLeaveCorrect == Spec => []NoEarlyLeave
<1>1. Inv => NoEarlyLeave
  BY DEF Inv
<1> QED
  BY <1>1, InvHolds, PTL

(* A fiber is resumed only while it is READY, is RUNNING while it executes *)
(* and executes on one thread at a time, whichever threads it requeues     *)
(* itself for.                                                             *)
THEOREM OneThreadCorrect == Spec => []OneThreadPerFiber
<1>1. Inv => OneThreadPerFiber
  <2> SUFFICES ASSUME Inv PROVE OneThreadPerFiber
    OBVIOUS
  <2> USE DEF Inv, Frame, Shape, Busy, HasTask, TypeThreads, Tokens
  <2>1. ASSUME NEW p \in Threads, pc[p] = "resume"
        PROVE  m_state[cur[p]] = "READY"
    <3>1. cur[p] \in Tasks /\ At(p, cur[p], "resume")
      BY <2>1 DEF At, Phase
    <3> QED
      BY <3>1 DEF Token
  <2>2. ASSUME NEW p \in Threads, Executing(p)
        PROVE  /\ cur[p] \in Tasks
               /\ At(p, cur[p], "task") \/ At(p, cur[p], "yield")
    BY <2>2 DEF Executing, At, Phase
  <2>3. ASSUME NEW p \in Threads, Executing(p)
        PROVE  m_state[cur[p]] = "RUNNING"
    BY <2>2, <2>3 DEF Token
  <2>4. ASSUME NEW p \in Threads, NEW q \in Threads,
               Executing(p), Executing(q), cur[p] = cur[q]
        PROVE  p = q
    BY <2>2, <2>4 DEF Token, Holds
  <2> QED
    BY <2>1, <2>3, <2>4 DEF OneThreadPerFiber
<1> QED
  BY <1>1, InvHolds, PTL

LEMMA StopWaits == Inv => StopWaitsForTasks
<1> SUFFICES ASSUME Inv, pc[Main] = "done"
             PROVE  /\ \A t \in Tasks : m_state[t] \in {"NEW", "TERM"}
                    /\ \A w \in Workers : pc[w] = "exit"
  BY DEF StopWaitsForTasks
<1>1. \A w \in Workers : pc[w] = "exit"
  BY DEF Inv, Ends
<1>2. PICK p \in Threads : p \in idleTerm
  BY <1>1, PoolAssumption DEF Inv, Ends, Pool, Threads
<1>3. m_tasks = <<>> /\ \A q \in Threads : cur[q] = None
  BY <1>2 DEF Inv, NoEarlyLeave, Busy
<1>4. ASSUME NEW t \in Tasks PROVE m_state[t] \in {"NEW", "TERM"}
  <2>1. \A k \in Nat : ~InQueue(k, t)
    BY <1>3 DEF InQueue
  <2>2. \A q \in Threads : ~Holds(q, t)
    BY <1>3, PoolAssumption DEF Holds, At
  <2> QED
    BY <2>1, <2>2 DEF Inv, Tokens, Somewhere
<1> QED
  BY <1>1, <1>4

(* When stop() returns, every task that was ever scheduled has ended and   *)
(* every thread has left.                                                  *)
THEOREM StopWaitsCorrect == Spec => []StopWaitsForTasks
BY StopWaits, InvHolds, PTL

----------------------------------------------------------------------------
(***************************************************************************)
(* The scheduler implements TaskPool.  Where a task is, said by tokens: it *)
(* runs on the thread that is at "task" or "yield" with it, and it waits   *)
(* when it is queued or about to be resumed and runs nowhere.              *)
(***************************************************************************)
On(p, t) == At(p, t, "task") \/ At(p, t, "yield")
Available(t) ==
  (\E k \in Nat : InQueue(k, t)) \/ \E p \in Threads : At(p, t, "resume")

Mapped ==
  /\ \A p \in Threads : RunningOn(p) \in Tasks \cup {None}
  /\ \A p \in Threads, t \in Tasks : RunningOn(p) = t <=> On(p, t)
  /\ \A t \in Tasks :
       Waits(t) <=> Available(t) /\ \A p \in Threads : ~On(p, t)

LEMMA MappedHolds == Inv => Mapped
<1> SUFFICES ASSUME Inv PROVE Mapped
  OBVIOUS
<1> USE DEF Inv, Frame, TypeThreads, TypeQueue
<1>1. \A p \in Threads : Executing(p) => cur[p] \in Tasks
  BY DEF Executing, Shape, Busy, HasTask
<1>2. \A p \in Threads : RunningOn(p) \in Tasks \cup {None}
  BY <1>1 DEF RunningOn
<1>3. \A p \in Threads, t \in Tasks : RunningOn(p) = t <=> On(p, t)
  BY PoolAssumption DEF RunningOn, Executing, On, At, Phase
<1>4. ASSUME NEW t \in Tasks
      PROVE  Queued(t) <=> \E k \in Nat : InQueue(k, t)
  BY DEF Queued, InQueue
<1>5. ASSUME NEW t \in Tasks, NEW p \in Threads
      PROVE  (ToResume(p) /\ cur[p] = t) <=> At(p, t, "resume")
  BY DEF ToResume, At, Phase
<1>6. \A t \in Tasks :
        Waits(t) <=> Available(t) /\ \A p \in Threads : ~On(p, t)
  BY <1>3, <1>4, <1>5 DEF Waits, Available
<1> QED
  BY <1>2, <1>3, <1>6 DEF Mapped

(* A step of TaskPool from what it does to each task and thread.           *)
waits == {t \in Tasks : Waits(t)}
runs == [p \in Threads |-> RunningOn(p)]
ends == {t \in Tasks : m_state[t] = "TERM"}
isDone == pc[Main] = "done"
mapped == <<waits, runs, ends, isDone>>

Keeps(t) ==
  /\ Available(t)' <=> Available(t)
  /\ \A p \in Threads : On(p, t)' <=> On(p, t)
  /\ m_state'[t] = "TERM" <=> m_state[t] = "TERM"

LEMMA KeepsAll ==
  ASSUME Mapped, Mapped', \A t \in Tasks : Keeps(t)
  PROVE  UNCHANGED <<waits, runs, ends>>
<1> USE DEF Mapped, Keeps
<1>1. waits' = waits /\ ends' = ends
  BY DEF waits, ends
<1>2. ASSUME NEW p \in Threads PROVE RunningOn(p)' = RunningOn(p)
  BY PoolAssumption
<1>3. runs' = runs
  BY <1>2 DEF runs
<1> QED
  BY <1>1, <1>3

(* The steps that TaskPool sees.                                           *)
LEMMA NewSubmits ==
  ASSUME Inv, Mapped, Mapped', ~isDone, UNCHANGED isDone,
         NEW u \in Tasks, NEW th \in Pins, IsNew(u, th)
  PROVE  Promise!Submit(u)
<1> USE DEF Inv, Frame, TypeThreads, Tokens, Mapped
<1>1. Token(u) /\ m_state[u] = "NEW" /\ th \in Pool \cup {Any}
  BY PoolAssumption DEF IsNew
<1>2. ~Available(u) /\ \A p \in Threads : ~On(p, u)
  BY <1>1 DEF Available, On, Token
<1>3. ASSUME NEW t \in Tasks
      PROVE  /\ Available(t)' <=> Available(t) \/ t = u
             /\ \A p \in Threads : On(p, t)' <=> On(p, t)
             /\ m_state'[t] = IF t = u THEN "READY" ELSE m_state[t]
  <2>1. \A k \in Nat :
          InQueue(k, t)' <=> InQueue(k, t) \/ (k = Len(m_tasks) + 1 /\ t = u)
    BY <1>1, AfterEnqueue DEF IsNew
  <2>2. \A p \in Threads, phase \in {"resume", "task", "yield"} :
          At(p, t, phase)' <=> At(p, t, phase)
    BY DEF IsNew, At
  <2>3. Len(m_tasks) + 1 \in Nat
    BY DEF TypeQueue
  <2> QED
    BY <2>1, <2>2, <2>3 DEF IsNew, SetsState, TypeFibers, Available, On
<1>4. waits' = waits \cup {u} /\ ends' = ends
  BY <1>1, <1>2, <1>3 DEF waits, ends
<1>5. ASSUME NEW p \in Threads PROVE RunningOn(p)' = RunningOn(p)
  BY <1>3, PoolAssumption
<1>6. runs' = runs
  BY <1>5 DEF runs
<1>7. u \notin waits \cup ends /\ \A p \in Threads : runs[p] # u
  BY <1>1, <1>2 DEF waits, ends, runs
<1> QED
  BY <1>4, <1>6, <1>7 DEF Promise!Submit, waits, runs, ends, isDone

LEMMA TakeIsHidden ==
  ASSUME Inv, Mapped, Mapped', NEW p \in Threads, NEW k \in 1 .. Len(m_tasks),
         IsTake(p, k)
  PROVE  UNCHANGED <<waits, runs, ends>>
<1> USE DEF Inv, Frame, TypeThreads, Tokens
<1> DEFINE u == m_tasks[k].task
<1>1. u \in Tasks /\ k \in Nat /\ InQueue(k, u)
  BY TakenEntry DEF InQueue, TypeQueue
<1>2. ASSUME NEW t \in Tasks PROVE Keeps(t)
  <2>1. \A j \in Nat :
          InQueue(j, t)' <=>
            \/ j < k /\ InQueue(j, t)
            \/ j >= k /\ InQueue(j + 1, t)
    <3>1. TypeQueue /\ m_tasks' = RemoveAt(m_tasks, k)
      BY DEF IsTake
    <3> QED
      BY <3>1, AfterTake
  <2>2. \A j \in Nat : j > k => j - 1 \in Nat /\ j - 1 >= k /\ (j - 1) + 1 = j
    BY <1>1
  <2>3. ASSUME t # u
        PROVE  (\E j \in Nat : InQueue(j, t)') <=> \E j \in Nat : InQueue(j, t)
    <3>1. ~InQueue(k, t)
      BY <2>3 DEF InQueue
    <3>2. ASSUME NEW j \in Nat, InQueue(j, t)
          PROVE  \E i \in Nat : InQueue(i, t)'
      <4>1. CASE j < k
        BY <2>1, <3>2, <4>1
      <4>2. CASE j > k
        <5>1. PICK i \in Nat : i >= k /\ i + 1 = j
          BY <2>2, <4>2
        <5>2. InQueue(i, t)'
          BY <2>1, <3>2, <5>1
        <5> QED
          BY <5>2
      <4> QED
        BY <1>1, <3>1, <3>2, <4>1, <4>2
    <3>3. ASSUME NEW j \in Nat, InQueue(j, t)'
          PROVE  \E i \in Nat : InQueue(i, t)
      <4>1. j + 1 \in Nat
        OBVIOUS
      <4> QED
        BY <2>1, <3>3, <4>1
    <3> QED
      BY <3>2, <3>3
  <2>4. \A q \in Threads, phase \in {"task", "yield"} :
          At(q, t, phase)' <=> At(q, t, phase)
    BY DEF IsTake, Moves, At
  <2>5. \A q \in Threads :
          At(q, t, "resume")' <=> At(q, t, "resume") \/ (q = p /\ t = u)
    BY <1>1 DEF IsTake, Moves, At
  <2>6. Available(t)' <=> Available(t)
    <3>1. CASE t = u
      BY <1>1, <2>5, <3>1 DEF Available
    <3>2. CASE t # u
      BY <2>3, <2>5, <3>2 DEF Available
    <3> QED
      BY <3>1, <3>2
  <2> QED
    BY <2>4, <2>6 DEF Keeps, On, IsTake
<1> QED
  BY <1>2, KeepsAll

LEMMA RequeueIsHidden ==
  ASSUME Inv, Mapped, Mapped', NEW p \in Threads, NEW th \in Pool \cup {Any},
         cur[p] \in Tasks, IsRequeue(p, th)
  PROVE  UNCHANGED <<waits, runs, ends>>
<1> USE DEF Inv, Frame, TypeThreads, Tokens, Mapped
<1>1. \A t \in Tasks, k \in Nat :
        InQueue(k, t)' <=> InQueue(k, t) \/ (k = Len(m_tasks) + 1 /\ t = cur[p])
  BY AfterEnqueue DEF IsRequeue
<1>2. \A q \in Threads, t \in Tasks : On(q, t)' <=> On(q, t)
  BY DEF IsRequeue, Moves, At, On
<1>3. \A q \in Threads, t \in Tasks :
        At(q, t, "resume")' <=> At(q, t, "resume")
  BY DEF IsRequeue, Moves, At
<1>4. On(p, cur[p])
  BY DEF IsRequeue, Moves, On, At
<1>5. \A t \in Tasks : t # cur[p] => (Available(t)' <=> Available(t))
  BY <1>1, <1>3 DEF Available
<1>6. waits' = waits
  BY <1>2, <1>4, <1>5 DEF waits
<1>7. ends' = ends
  BY DEF ends, IsRequeue
<1>8. ASSUME NEW q \in Threads PROVE RunningOn(q)' = RunningOn(q)
  BY <1>2, PoolAssumption
<1>9. runs' = runs
  BY <1>8 DEF runs
<1> QED
  BY <1>6, <1>7, <1>9

LEMMA RunsChange ==
  ASSUME NEW p \in Threads, NEW u,
         \A q \in Threads : RunningOn(q)' = IF q = p THEN u ELSE RunningOn(q)
  PROVE  runs' = [runs EXCEPT ![p] = u]
<1>1. runs' = [q \in Threads |-> IF q = p THEN u ELSE RunningOn(q)]
  BY DEF runs
<1>2. [runs EXCEPT ![p] = u]
        = [q \in Threads |-> IF q = p THEN u ELSE RunningOn(q)]
  BY DEF runs
<1> QED
  BY <1>1, <1>2

LEMMA ResumeBegins ==
  ASSUME Inv, Mapped, Mapped', UNCHANGED isDone,
         NEW p \in Threads, NEW u \in Tasks, cur[p] = u,
         IsStateChange(p, "resume", "RUNNING", "task")
  PROVE  Promise!Begin(p, u)
<1> USE DEF Inv, Frame, TypeThreads, Tokens, Mapped
<1>1. /\ u \in Tasks /\ Token(u) /\ At(p, u, "resume") /\ m_state[u] = "READY"
      /\ m_state' = [m_state EXCEPT ![u] = "RUNNING"]
  BY DEF IsStateChange, Moves, SetsState, At, Token
<1>2. \A k \in Nat : ~InQueue(k, u)
  BY <1>1 DEF Token
<1>3. \A q \in Threads : At(q, u, "resume") => q = p
  BY <1>1 DEF Token, Holds
<1>4. \A q \in Threads : ~On(q, u)
  BY <1>1 DEF Token, On
<1>5. \A q \in Threads, t \in Tasks :
        /\ On(q, t)' <=> On(q, t) \/ (q = p /\ t = u)
        /\ At(q, t, "resume")' <=> At(q, t, "resume") /\ q # p
  BY DEF IsStateChange, Moves, On, At
<1>6. \A t \in Tasks : t # u => ~At(p, t, "resume")
  BY DEF At
<1>7. \A k \in Nat, t \in Tasks : InQueue(k, t)' <=> InQueue(k, t)
  BY DEF IsStateChange, InQueue
<1>8. \A t \in Tasks : t # u => (Available(t)' <=> Available(t))
  BY <1>5, <1>6, <1>7 DEF Available
<1>9. Available(u) /\ On(p, u)'
  BY <1>1, <1>5 DEF Available
<1>10. waits' = waits \ {u} /\ u \in waits
  BY <1>4, <1>5, <1>8, <1>9 DEF waits
<1>11. ends' = ends
  BY <1>1 DEF ends, TypeFibers
<1>12. ASSUME NEW q \in Threads
       PROVE  RunningOn(q)' = IF q = p THEN u ELSE RunningOn(q)
  BY <1>1, <1>5, PoolAssumption
<1>13. RunningOn(p) = None
  <2>1. \A t \in Tasks : ~On(p, t)
    BY <1>1 DEF On, At
  <2> QED
    BY <2>1
<1>14. runs' = [runs EXCEPT ![p] = u] /\ runs[p] = None
  <2>1. runs' = [runs EXCEPT ![p] = u]
    BY ONLY <1>12, RunsChange
  <2>2. runs[p] = None
    BY ONLY <1>13 DEF runs
  <2> QED
    BY <2>1, <2>2
<1> QED
  BY <1>10, <1>11, <1>14 DEF Promise!Begin, waits, runs, ends, isDone

(* A fiber that leaves its thread, at a yield or at its end.               *)
LEMMA ThreadLeft ==
  ASSUME Inv, Mapped, Mapped', NEW p \in Threads, NEW u \in Tasks, cur[p] = u,
         NEW from \in {"task", "yield"}, NEW to \in {"swap", "back"},
         NEW state, IsStateChange(p, from, state, to)
  PROVE  /\ runs[p] = u /\ runs' = [runs EXCEPT ![p] = None]
         /\ m_state' = [m_state EXCEPT ![u] = state]
         /\ \A q \in Threads : ~On(q, u)'
         /\ \A t \in Tasks : Available(t)' <=> Available(t)
         /\ \A t \in Tasks \ {u}, q \in Threads : On(q, t)' <=> On(q, t)
<1> USE DEF Inv, Frame, TypeThreads, Tokens, Mapped
<1>1. u \in Tasks /\ Token(u) /\ On(p, u)
  BY DEF IsStateChange, Moves, On, At
<1>2. \A q \in Threads : On(q, u) => q = p
  BY <1>1 DEF Token, Holds, On
<1>3. \A q \in Threads, t \in Tasks :
        /\ On(q, t)' <=> On(q, t) /\ q # p
        /\ At(q, t, "resume")' <=> At(q, t, "resume")
  BY DEF IsStateChange, Moves, On, At
<1>4. \A t \in Tasks : Available(t)' <=> Available(t)
  BY <1>3 DEF Available, InQueue, IsStateChange
<1>5. \A t \in Tasks : t # u => ~On(p, t)
  BY DEF On, At
<1>6. RunningOn(p) = u
  BY <1>1
<1>7. ASSUME NEW q \in Threads
      PROVE  RunningOn(q)' = IF q = p THEN None ELSE RunningOn(q)
  BY <1>1, <1>3, PoolAssumption
<1>8. runs[p] = u /\ runs' = [runs EXCEPT ![p] = None]
  <2>1. runs' = [runs EXCEPT ![p] = None]
    BY ONLY <1>7, RunsChange
  <2>2. runs[p] = u
    BY ONLY <1>6 DEF runs
  <2> QED
    BY <2>1, <2>2
<1> QED
  BY <1>2, <1>3, <1>4, <1>5, <1>8 DEF IsStateChange, SetsState

LEMMA YieldWaits ==
  ASSUME Inv, Mapped, Mapped', UNCHANGED isDone,
         NEW p \in Threads, NEW u \in Tasks, cur[p] = u,
         IsStateChange(p, "yield", "READY", "swap")
  PROVE  Promise!Yield(p, u)
<1> USE DEF Inv, Frame, TypeThreads, Tokens, Mapped
<1>1. /\ runs[p] = u /\ runs' = [runs EXCEPT ![p] = None]
      /\ m_state' = [m_state EXCEPT ![u] = "READY"]
      /\ \A q \in Threads : ~On(q, u)'
      /\ \A t \in Tasks : Available(t)' <=> Available(t)
      /\ \A t \in Tasks \ {u}, q \in Threads : On(q, t)' <=> On(q, t)
  BY ThreadLeft
<1>2. At(p, u, "yield") /\ Token(u) /\ Somewhere(u)
  BY DEF IsStateChange, Moves, At
<1>3. Available(u) /\ m_state[u] = "RUNNING"
  BY <1>2 DEF Somewhere, Available, Token
<1>4. waits' = waits \cup {u}
  BY <1>1, <1>3 DEF waits
<1>5. ends' = ends
  BY <1>1, <1>3 DEF ends, TypeFibers
<1> QED
  BY <1>1, <1>4, <1>5 DEF Promise!Yield, waits, runs, ends, isDone

LEMMA FinishEnds ==
  ASSUME Inv, Mapped, Mapped', UNCHANGED isDone,
         NEW p \in Threads, NEW u \in Tasks, cur[p] = u,
         IsStateChange(p, "task", "TERM", "back")
  PROVE  Promise!End(p, u)
<1> USE DEF Inv, Frame, TypeThreads, Tokens, Mapped
<1>1. /\ runs[p] = u /\ runs' = [runs EXCEPT ![p] = None]
      /\ m_state' = [m_state EXCEPT ![u] = "TERM"]
      /\ \A q \in Threads : ~On(q, u)'
      /\ \A t \in Tasks : Available(t)' <=> Available(t)
      /\ \A t \in Tasks \ {u}, q \in Threads : On(q, t)' <=> On(q, t)
  BY ThreadLeft
<1>2. At(p, u, "task") /\ Token(u)
  BY DEF IsStateChange, Moves, At
<1>3. ~Available(u)
  BY <1>2 DEF Available, Token, Holds, At
<1>4. waits' = waits
  BY <1>1, <1>3 DEF waits
<1>5. ends' = ends \cup {u}
  BY <1>1 DEF ends, TypeFibers
<1> QED
  BY <1>1, <1>4, <1>5 DEF Promise!End, waits, runs, ends, isDone

(* Once stop() has returned nothing moves, and the join that lets it       *)
(* return finds no task anywhere.                                          *)
LEMMA DoneStutters ==
  ASSUME Inv, isDone, [Next]_vars
  PROVE  UNCHANGED vars
<1> USE PoolAssumption DEF Inv, Frame, TypeThreads, Threads, isDone
<1>1. \A w \in Workers : pc[w] = "exit"
  BY DEF Ends
<1>2. ~Owner
  BY <1>1 DEF Owner, Start, Starting, StartReturns, CreateThread, RecordThread,
              Stop, Join, MainSchedules
<1>3. ASSUME NEW p \in Threads, RunLoop(p) \/ RunTask(p) \/ Tickle(p) \/ Idle(p)
      PROVE  FALSE
  BY <1>1, <1>3
     DEF RunLoop, ThreadRuns, Take, FindNothing, EnterIdle, Leave, RunTask,
         Resume, YieldState, YieldSwap, Finish, Back, TaskSchedules, Requeue,
         Tickle, Idle
<1> QED
  BY <1>2, <1>3 DEF Next, Done

LEMMA OnlyJoinEnds ==
  ASSUME Inv, ~isDone, [Next]_vars, ~Join
  PROVE  ~isDone'
<1> USE PoolAssumption DEF Inv, Frame, TypeThreads, Threads, isDone
<1>1. CASE Owner
  BY <1>1 DEF Owner, Start, Starting, StartReturns, CreateThread, RecordThread,
              Stop, MainSchedules, Schedule
<1>2. ASSUME NEW p \in Threads, RunLoop(p) \/ RunTask(p) \/ Tickle(p) \/ Idle(p)
      PROVE  ~isDone'
  BY <1>2
     DEF RunLoop, ThreadRuns, Take, FindNothing, EnterIdle, Leave, RunTask,
         Resume, YieldState, YieldSwap, Finish, Back, TaskSchedules, Requeue,
         Schedule, Tickle, Idle
<1>3. CASE UNCHANGED vars
  BY <1>3 DEF vars
<1> QED
  BY <1>1, <1>2, <1>3 DEF Next, Done

LEMMA HiddenStep ==
  ASSUME Mapped, Mapped', IsOther \/ UNCHANGED vars
  PROVE  UNCHANGED <<waits, runs, ends>>
<1>1. \A t \in Tasks : Keeps(t)
  BY DEF IsOther, Keeps, Available, On, InQueue, At, Phase, vars, fiberVars
<1> QED
  BY <1>1, KeepsAll

LEMMA JoinStops ==
  ASSUME Inv, Mapped, Mapped', StopWaitsForTasks', Inv', Join
  PROVE  Promise!Stop
<1> USE PoolAssumption DEF Inv, Frame, TypeThreads, Threads
<1>1. isDone' = TRUE
  BY DEF Join, isDone
<1>2. UNCHANGED <<m_tasks, m_state>> /\ \A t \in Tasks : m_state[t] \in {"NEW", "TERM"}
  BY <1>1 DEF StopWaitsForTasks, Join, fiberVars, isDone
<1>3. ASSUME NEW t \in Tasks PROVE ~Available(t) /\ \A p \in Threads : ~On(p, t)
  BY <1>2 DEF Tokens, Token, Available, On
<1>4. waits = {}
  BY <1>3 DEF waits, Mapped
<1>5. \A p \in Threads : runs[p] = None
  BY <1>3 DEF runs, Mapped
<1>6. IsOther
  BY DEF Join, IsOther, At, Phase, fiberVars
<1>7. UNCHANGED <<waits, runs, ends>>
  BY <1>6, HiddenStep
<1> QED
  BY <1>1, <1>4, <1>5, <1>7 DEF Promise!Stop, waits, runs, ends, isDone

LEMMA PromiseStep ==
  ASSUME Inv, Inv', Mapped, Mapped', StopWaitsForTasks', [Next]_vars
  PROVE  [Promise!Next]_mapped
<1>1. CASE isDone
  <2>1. UNCHANGED vars
    BY <1>1, DoneStutters
  <2>2. UNCHANGED <<waits, runs, ends>>
    BY <2>1, HiddenStep
  <2> QED
    BY <2>1, <2>2 DEF mapped, vars, isDone
<1>2. CASE Join
  BY <1>2, JoinStops DEF Promise!Next
<1>3. CASE ~isDone /\ ~Join
  <2>1. ~isDone' /\ UNCHANGED isDone
    BY <1>3, OnlyJoinEnds DEF isDone
  <2>2. ASSUME NEW t \in Tasks, NEW th \in Pins, IsNew(t, th)
        PROVE  Promise!Next
    BY <1>3, <2>1, <2>2, NewSubmits DEF Promise!Next
  <2>3. ASSUME NEW p \in Threads, NEW k \in 1 .. Len(m_tasks), IsTake(p, k)
        PROVE  UNCHANGED mapped
    BY <2>1, <2>3, TakeIsHidden DEF mapped
  <2>4. ASSUME NEW p \in Threads, NEW from \in {"resume", "task", "yield"},
               Phase(p) = from
        PROVE  cur[p] \in Tasks
    BY <2>4 DEF Inv, Frame, TypeThreads, Shape, Busy, HasTask, Phase
  <2>5. ASSUME NEW p \in Threads, NEW th \in Pool \cup {Any}, IsRequeue(p, th)
        PROVE  UNCHANGED mapped
    <3>1. cur[p] \in Tasks
      BY <2>4, <2>5 DEF IsRequeue, Moves
    <3> QED
      BY <2>1, <2>5, <3>1, RequeueIsHidden DEF mapped
  <2>6. ASSUME NEW p \in Threads,
               IsStateChange(p, "resume", "RUNNING", "task")
        PROVE  Promise!Next
    <3>1. cur[p] \in Tasks
      BY <2>4, <2>6 DEF IsStateChange, Moves
    <3>2. PICK u \in Tasks : cur[p] = u
      BY <3>1
    <3>3. Promise!Begin(p, u)
      BY <2>1, <2>6, <3>2, ResumeBegins
    <3> QED
      BY <3>3 DEF Promise!Next
  <2>7. ASSUME NEW p \in Threads, IsStateChange(p, "yield", "READY", "swap")
        PROVE  Promise!Next
    <3>1. cur[p] \in Tasks
      BY <2>4, <2>7 DEF IsStateChange, Moves
    <3>2. PICK u \in Tasks : cur[p] = u
      BY <3>1
    <3>3. Promise!Yield(p, u)
      BY <2>1, <2>7, <3>2, YieldWaits
    <3> QED
      BY <3>3 DEF Promise!Next
  <2>8. ASSUME NEW p \in Threads, IsStateChange(p, "task", "TERM", "back")
        PROVE  Promise!Next
    <3>1. cur[p] \in Tasks
      BY <2>4, <2>8 DEF IsStateChange, Moves
    <3>2. PICK u \in Tasks : cur[p] = u
      BY <3>1
    <3>3. Promise!End(p, u)
      BY <2>1, <2>8, <3>2, FinishEnds
    <3> QED
      BY <3>3 DEF Promise!Next
  <2>9. CASE IsOther
    BY <2>1, <2>9, HiddenStep DEF mapped
  <2>10. Frame
    BY DEF Inv
  <2> QED
    BY <2>2, <2>3, <2>5, <2>6, <2>7, <2>8, <2>9, <2>10, Kinds
<1> QED
  BY <1>1, <1>2, <1>3

(***************************************************************************)
(* The scheduler implements TaskPool, for any number of threads, tasks and *)
(* yields and whichever threads fibers requeue themselves for: nothing is  *)
(* lost or run twice for one submission, and stop() outlasts every task.   *)
(***************************************************************************)
THEOREM TaskPoolImplemented == Spec => ImplementsTaskPool
<1>1. Init => Promise!Init
  <2> SUFFICES ASSUME Init PROVE Promise!Init
    OBVIOUS
  <2>1. ASSUME NEW t \in Tasks PROVE ~Waits(t)
    <3>1. ~Queued(t)
      BY DEF Init, Queued
    <3>2. \A p \in Threads : ~ToResume(p)
      BY DEF Init, ToResume
    <3> QED
      BY <3>1, <3>2 DEF Waits
  <2>2. \A p \in Threads : RunningOn(p) = None
    BY DEF Init, RunningOn, Executing, Threads
  <2>3. {t \in Tasks : m_state[t] = "TERM"} = {}
    BY DEF Init
  <2>4. (pc[Main] = "done") = FALSE
    BY DEF Init, Threads
  <2> QED
    BY <2>1, <2>2, <2>3, <2>4 DEF Promise!Init
<1>2. Inv /\ Inv' /\ Mapped /\ Mapped' /\ StopWaitsForTasks' /\ [Next]_vars
        => [Promise!Next]_mapped
  BY PromiseStep
<1>3. mapped = Promise!vars
  BY DEF mapped, waits, runs, ends, isDone, Promise!vars
<1> QED
  BY <1>1, <1>2, <1>3, InvHolds, MappedHolds, StopWaits, PTL
     DEF Spec, ImplementsTaskPool, Promise!Spec, mapped, waits, runs, ends,
         isDone, Promise!vars

----------------------------------------------------------------------------
(***************************************************************************)
(* Fibers that requeue themselves only for their own thread: a fiber whose *)
(* context is not saved can only be taken by the thread that still has to  *)
(* save it, and that thread does so before it looks for a task.            *)
(***************************************************************************)
OwnPins == RequeuePins \subseteq {"own"}

Unsaved(k, t) ==
  \E p \in Threads :
    m_tasks[k].thread = p /\ (At(p, t, "yield") \/ At(p, t, "swap"))

Context(t) ==
  /\ m_state[t] = "NEW" => t \in saved
  /\ \A k \in Nat : InQueue(k, t) => t \in saved \/ Unsaved(k, t)
  /\ \A p \in Threads : At(p, t, "resume") => t \in saved

Contexts == \A t \in Tasks : Context(t)

(* An entry that a step adds has its thread; older entries keep theirs.    *)
LEMMA QueuedThread ==
  ASSUME TypeQueue, NEW u \in Tasks, NEW th \in Pool \cup {Any}, Queues(u, th)
  PROVE  \A k \in Nat, t \in Tasks :
           InQueue(k, t)' =>
             \/ InQueue(k, t) /\ m_tasks'[k] = m_tasks[k]
             \/ t = u /\ m_tasks'[k].thread = th
<1>1. [task |-> u, thread |-> th] \in Entries
  BY DEF Entries
<1> QED
  BY <1>1 DEF TypeQueue, Queues, Enqueue, InQueue

LEMMA TakenFrom ==
  ASSUME TypeQueue, NEW k \in 1 .. Len(m_tasks), m_tasks' = RemoveAt(m_tasks, k)
  PROVE  \A j \in Nat, t \in Tasks :
           InQueue(j, t)' =>
             \E i \in Nat : InQueue(i, t) /\ m_tasks'[j] = m_tasks[i]
<1> SUFFICES ASSUME NEW j \in Nat, NEW t \in Tasks, InQueue(j, t)'
             PROVE  \E i \in Nat : InQueue(i, t) /\ m_tasks'[j] = m_tasks[i]
  OBVIOUS
<1> DEFINE i == IF j < k THEN j ELSE j + 1
<1>1. i \in 1 .. Len(m_tasks) /\ m_tasks'[j] = m_tasks[i]
  BY RemoveAtElements DEF InQueue, TypeQueue
<1> HIDE DEF i
<1>2. i \in Nat /\ InQueue(i, t)
  BY <1>1 DEF InQueue, TypeQueue
<1> QED
  BY <1>1, <1>2

LEMMA ContextNext ==
  ASSUME OwnPins, Inv, Contexts, [Next]_vars, NEW t \in Tasks
  PROVE  Context(t)'
<1> USE DEF Inv, Frame, TypeThreads, Contexts
<1>1. Context(t) /\ Token(t)
  BY DEF Tokens
<1>2. ASSUME NEW u \in Tasks, NEW th \in Pins, IsNew(u, th), UNCHANGED saved
      PROVE  Context(t)'
  <2>1. \A k \in Nat :
          InQueue(k, t)' =>
            (InQueue(k, t) /\ m_tasks'[k] = m_tasks[k]) \/ t = u
    BY <1>2, QueuedThread, PoolAssumption DEF IsNew
  <2>2. \A p \in Threads, phase \in {"resume", "yield", "swap"} :
          At(p, t, phase)' <=> At(p, t, phase)
    BY <1>2 DEF IsNew, At
  <2>3. m_state'[t] = "NEW" => m_state[t] = "NEW"
    BY <1>2 DEF IsNew, SetsState, Tokens, TypeFibers
  <2>4. t = u => t \in saved
    BY <1>1, <1>2 DEF IsNew, Context
  <2> QED
    BY <1>1, <1>2, <2>1, <2>2, <2>3, <2>4 DEF Context, Unsaved
<1>3. ASSUME NEW p \in Threads, Take(p) PROVE Context(t)'
  <2>1. PICK k \in 1 .. Len(m_tasks) :
          /\ Eligible(p, k) /\ cur' = [cur EXCEPT ![p] = m_tasks[k].task]
          /\ m_tasks' = RemoveAt(m_tasks, k)
          /\ Moves(p, "run", "resume")
    BY <1>3 DEF Take, Phase, Moves
  <2>2. \A q \in Threads : Phase(q) \in {"yield", "swap"} => q # p
    BY <2>1 DEF Moves
  <2>3. \A q \in Threads, phase \in {"yield", "swap"} :
          At(q, t, phase)' <=> At(q, t, phase)
    BY <2>1 DEF At, Moves
  <2>4. \A j \in Nat :
          InQueue(j, t)' =>
            \E i \in Nat : InQueue(i, t) /\ m_tasks'[j] = m_tasks[i]
    BY <2>1, TakenFrom
  <2>5. \A q \in Threads :
          At(q, t, "resume")' => At(q, t, "resume") \/ InQueue(k, t)
    BY <2>1 DEF At, Moves, InQueue, TypeQueue
  <2>6. ~Unsaved(k, t)
    BY <2>1, <2>2, PoolAssumption DEF Unsaved, Eligible, At
  <2>7. k \in Nat /\ UNCHANGED <<m_state, saved>>
    BY <1>3 DEF Take, fiberVars
  <2> QED
    BY <1>1, <2>3, <2>4, <2>5, <2>6, <2>7 DEF Context, Unsaved
<1>4. ASSUME NEW p \in Threads, NEW pin \in RequeuePins, Requeue(p, pin)
      PROVE  Context(t)'
  <2>1. cur[p] \in Tasks /\ p \in Pool
    BY <1>4, PoolAssumption
       DEF Requeue, Shape, Busy, HasTask, AtOwner, Pool, Threads
  <2>2. Queues(cur[p], p) /\ UNCHANGED <<cur, m_state, saved>>
    BY <1>4 DEF Requeue, Schedule, Queues, OwnPins
  <2>3. Moves(p, "task", "yield")
    BY <1>4 DEF Requeue, Schedule, Moves, Phase
  <2>4. \A k \in Nat :
          InQueue(k, t)' =>
            \/ InQueue(k, t) /\ m_tasks'[k] = m_tasks[k]
            \/ t = cur[p] /\ m_tasks'[k].thread = p
    BY <2>1, <2>2, QueuedThread
  <2>5. \A q \in Threads :
          /\ At(q, t, "resume")' => At(q, t, "resume")
          /\ At(q, t, "yield") => At(q, t, "yield")'
          /\ At(q, t, "swap") => At(q, t, "swap")'
    BY <2>2, <2>3 DEF At, Moves
  <2>6. t = cur[p] => At(p, t, "yield")'
    BY <2>2, <2>3 DEF At, Moves
  <2> QED
    BY <1>1, <2>2, <2>4, <2>5, <2>6 DEF Context, Unsaved
<1>5. ASSUME NEW p \in Threads, Resume(p) PROVE Context(t)'
  <2>1. cur[p] \in Tasks /\ At(p, cur[p], "resume")
    BY <1>5 DEF Resume, Shape, Busy, HasTask, At, Phase
  <2>2. \A q \in Threads :
          /\ At(q, t, "resume")' => At(q, t, "resume") /\ q # p
          /\ At(q, t, "yield") => At(q, t, "yield")'
          /\ At(q, t, "swap") => At(q, t, "swap")'
    BY <1>5 DEF Resume, At, Phase
  <2>3. /\ saved' = saved \ {cur[p]} /\ m_tasks' = m_tasks
        /\ m_state'[t] = IF t = cur[p] THEN "RUNNING" ELSE m_state[t]
    BY <1>5, <2>1 DEF Resume, MarkedRunning, Tokens, TypeFibers
  <2>4. t = cur[p] => /\ \A k \in Nat : ~InQueue(k, t)
                      /\ \A q \in Threads : At(q, t, "resume") => q = p
    BY <1>1, <2>1 DEF Token, Holds
  <2> QED
    BY <1>1, <2>2, <2>3, <2>4 DEF Context, Unsaved, InQueue
<1>6. ASSUME NEW p \in Threads, YieldState(p) \/ Finish(p) PROVE Context(t)'
  <2>1. cur[p] \in Tasks
    BY <1>6 DEF YieldState, Finish, Shape, Busy, HasTask
  <2>2. \A q \in Threads :
          /\ At(q, t, "resume")' => At(q, t, "resume")
          /\ At(q, t, "yield") => At(q, t, "yield")' \/ At(q, t, "swap")'
          /\ At(q, t, "swap") => At(q, t, "swap")'
    BY <1>6 DEF YieldState, Finish, At, Phase
  <2>3. /\ saved' = saved /\ m_tasks' = m_tasks
        /\ m_state'[t] = "NEW" => m_state[t] = "NEW"
    BY <1>6, <2>1 DEF YieldState, Finish, Tokens, TypeFibers
  <2> QED
    BY <1>1, <2>2, <2>3 DEF Context, Unsaved, InQueue
<1>7. ASSUME NEW p \in Threads, YieldSwap(p) PROVE Context(t)'
  <2>1. \A q \in Threads :
          /\ At(q, t, "resume")' => At(q, t, "resume")
          /\ At(q, t, "yield") => At(q, t, "yield")'
          /\ At(q, t, "swap") => At(q, t, "swap")' \/ t \in saved'
    BY <1>7 DEF YieldSwap, At, Phase
  <2>2. saved \subseteq saved' /\ m_tasks' = m_tasks /\ m_state' = m_state
    BY <1>7 DEF YieldSwap
  <2> QED
    BY <1>1, <2>1, <2>2 DEF Context, Unsaved, InQueue
<1>8. ASSUME UNCHANGED <<m_tasks, m_state, saved>>,
             \A q \in Threads, phase \in {"resume", "yield", "swap"} :
               At(q, t, phase)' <=> At(q, t, phase)
      PROVE  Context(t)'
  BY <1>1, <1>8 DEF Context, Unsaved, InQueue
<1>9. CASE Owner
  <2>1. ASSUME NEW u \in Tasks, NEW th \in Pins, MainSchedules(u, th)
        PROVE  IsNew(u, th) /\ UNCHANGED saved
    BY <2>1
       DEF MainSchedules, Schedule, IsNew, SetsState, Queues, Threads, Phase
  <2>2. CASE Start \/ Starting \/ Stop \/ Join
    BY <1>8, <2>2, PoolAssumption
       DEF Start, Starting, StartReturns, CreateThread, RecordThread, Stop,
           Join, At, Phase, fiberVars, Threads
  <2> QED
    BY <1>2, <1>9, <2>1, <2>2 DEF Owner
<1>10. ASSUME NEW p \in Threads, RunLoop(p) \/ Tickle(p) \/ Idle(p) \/ Back(p)
       PROVE  Context(t)'
  BY <1>3, <1>8, <1>10
     DEF RunLoop, ThreadRuns, FindNothing, EnterIdle, Leave, Tickle, Idle, Back,
         At, Phase, fiberVars
<1>11. ASSUME NEW p \in Threads, NEW u \in Tasks, NEW th \in Pins,
              TaskSchedules(p, u, th)
       PROVE  Context(t)'
  BY <1>2, <1>11 DEF TaskSchedules, Schedule, IsNew, SetsState, Queues, Phase
<1>12. CASE UNCHANGED vars
  BY <1>8, <1>12 DEF vars, fiberVars, At, Phase
<1> QED
  BY <1>4, <1>5, <1>6, <1>7, <1>9, <1>10, <1>11, <1>12 DEF Next, RunTask, Done

(* A fiber is never resumed from a stale context, if fibers requeue        *)
(* themselves only for the thread they run on.                             *)
THEOREM SavedContextCorrect ==
  ASSUME OwnPins
  PROVE  Spec => ResumesSavedContext
<1>1. Init => Contexts
  BY DEF Init, Contexts, Context, InQueue, At, Phase
<1>2. Inv /\ Contexts /\ [Next]_vars => Contexts'
  BY ContextNext, OwnPins DEF Contexts
<1>3. Inv /\ Contexts /\ [Next]_vars
        => [\A p \in Threads : Resume(p) => cur[p] \in saved]_vars
  BY DEF Inv, Frame, Shape, Busy, HasTask, TypeThreads, Contexts, Context,
         Resume, At, Phase
<1> QED
  BY <1>1, <1>2, <1>3, InvHolds, PTL DEF Spec, ResumesSavedContext
=============================================================================
