------------------------------- MODULE Fiber -------------------------------
(***************************************************************************)
(* The coroutines of src/src/fiber.cc below the scheduler: the object      *)
(* each thread takes for the running one (p_cur_running_fiber), the one    *)
(* that really runs, the contexts swapcontext saves and loads, and who     *)
(* owns the objects.  A thread's name stands for its main fiber too.       *)
(*                                                                         *)
(* resume() saves the caller into the context of a fixed target, the       *)
(* scheduler's fiber or the main fiber, whoever the caller is, and yield() *)
(* returns to that target.  Scheduler has the steps inside yield(); here a *)
(* call is one step.                                                       *)
(***************************************************************************)
EXTENDS Naturals

CONSTANTS
  Threads,
  Owner,       \* the thread that constructs the Scheduler with use_caller
  Fibers,      \* fibers with a stack of their own
  Root,        \* Scheduler::m_rootFiber
  None,        \* a null pointer
  Disciplined  \* TRUE: the callers keep to MayResume, MayYield and MayDrop

ASSUME FiberAssumption ==
  /\ Owner \in Threads /\ Root \in Fibers
  /\ Threads \cap Fibers = {} /\ None \notin Threads \cup Fibers
  /\ Disciplined \in BOOLEAN

All == Threads \cup Fibers
States == {"none", "READY", "RUNNING", "TERM"}

VARIABLES
  cur,      \* p_cur_running_fiber of each thread
  on,       \* whose code each thread executes
  m_state,  \* "none": there is no such object
  m_ctx,    \* whose continuation the object's context holds
  inSched,  \* m_runInScheduler
  sched,    \* t_scheduler_fiber of each thread
  begun,    \* fibers inside MainFunc, which own a reference to themselves
  held,     \* fibers somebody else owns a reference to
  aborted   \* an assertion has failed or a null pointer was used

vars == <<cur, on, m_state, m_ctx, inSched, sched, begun, held, aborted>>

Init ==
  /\ cur = [th \in Threads |-> None]
  /\ on = [th \in Threads |-> th]
  /\ m_state = [f \in All |-> "none"]
  /\ m_ctx = [f \in All |-> None]
  /\ inSched = [f \in All |-> FALSE]
  /\ sched = [th \in Threads |-> None]
  /\ begun = {} /\ held = {}
  /\ aborted = FALSE

Exists(f) == m_state[f] # "none"
Executing(f) == \E th \in Threads : on[th] = f

----------------------------------------------------------------------------
(* Fiber::Fiber(): GetThis() makes a thread's main fiber on its first call. *)
(* Nothing initialises its m_runInScheduler.                                *)
Made(th, b) ==
  IF cur[th] = None
    THEN [cur |-> [cur EXCEPT ![th] = th],
          state |-> [m_state EXCEPT ![th] = "RUNNING"],
          inSched |-> [inSched EXCEPT ![th] = b]]
    ELSE [cur |-> cur, state |-> m_state, inSched |-> inSched]

GetThis(th) ==
  /\ ~aborted /\ cur[th] = None
  /\ \E b \in BOOLEAN : /\ cur' = Made(th, b).cur
                        /\ m_state' = Made(th, b).state
                        /\ inSched' = Made(th, b).inSched
  /\ UNCHANGED <<on, m_ctx, sched, begun, held, aborted>>

NewFiber(f, run_in_scheduler) ==
  /\ ~aborted /\ f # Root /\ ~Exists(f)
  /\ m_state' = [m_state EXCEPT ![f] = "READY"]
  /\ m_ctx' = [m_ctx EXCEPT ![f] = f]
  /\ inSched' = [inSched EXCEPT ![f] = run_in_scheduler]
  /\ held' = held \cup {f}
  /\ UNCHANGED <<cur, on, sched, begun, aborted>>

(* Scheduler::Scheduler with use_caller. *)
Construct ==
  /\ ~aborted /\ on[Owner] = Owner /\ ~Exists(Root)
  /\ \E b \in BOOLEAN :
       /\ cur' = Made(Owner, b).cur
       /\ m_state' = [Made(Owner, b).state EXCEPT ![Root] = "READY"]
       /\ inSched' = [Made(Owner, b).inSched EXCEPT ![Root] = FALSE]
  /\ m_ctx' = [m_ctx EXCEPT ![Root] = Root]
  /\ sched' = [sched EXCEPT ![Owner] = Root]
  /\ held' = held \cup {Root}
  /\ UNCHANGED <<on, begun, aborted>>

(* The beginning of Scheduler::run on a worker. *)
WorkerRuns(th) ==
  /\ ~aborted /\ th # Owner /\ on[th] = th /\ sched[th] = None
  /\ \E b \in BOOLEAN : /\ cur' = Made(th, b).cur
                        /\ m_state' = Made(th, b).state
                        /\ inSched' = Made(th, b).inSched
  /\ sched' = [sched EXCEPT ![th] = th]
  /\ UNCHANGED <<on, m_ctx, begun, held, aborted>>

----------------------------------------------------------------------------
(* The fiber whose context resume() saves into and yield() loads. *)
Target(th, f) == IF inSched[f] THEN sched[th] ELSE th

(* swapcontext(&save->m_ctx, &load->m_ctx) *)
SetsContext(th, save, load) ==
  /\ on' = [on EXCEPT ![th] = m_ctx[load]]
  /\ m_ctx' = [m_ctx EXCEPT ![load] = None]
Swap(th, save, load) ==
  LET saved == [m_ctx EXCEPT ![save] = on[th]]
  IN  /\ on' = [on EXCEPT ![th] = saved[load]]
      /\ m_ctx' = [saved EXCEPT ![load] = None]

(* run() and stop() keep to this: the caller is the fiber that f returns *)
(* to, and f can run.                                                    *)
MayResume(th, f) ==
  /\ m_state[f] = "READY"
  /\ Exists(th) /\ on[th] = Target(th, f)

Resume(th, f) ==
  /\ ~aborted /\ Exists(f) /\ f \in held
  /\ f = Root => th = Owner
  /\ Disciplined => MayResume(th, f)
  /\ aborted' = (m_state[f] # "READY" \/ Target(th, f) = None \/ ~Exists(th))
  /\ cur' = [cur EXCEPT ![th] = f]
  /\ m_state' = [m_state EXCEPT ![f] = "RUNNING"]
  /\ begun' = begun \cup {f}
  /\ Swap(th, Target(th, f), f)
  /\ UNCHANGED <<inSched, sched, held>>

YieldState(s) == IF s = "TERM" THEN s ELSE "READY"

StaysCurrent(th) == cur[th]
AfterYield(th) == th    \* SetThis(main_fiber.get())

(* yield() of f, on which it is called in state s. *)
YieldOf(th, f, s) ==
  /\ aborted' = (s \notin {"RUNNING", "TERM"} \/ Target(th, f) = None)
  /\ cur' = [cur EXCEPT ![th] = AfterYield(th)]
  /\ m_state' = [m_state EXCEPT ![f] = YieldState(s)]
  /\ Swap(th, f, Target(th, f))

(* Only a fiber that was resumed yields, never a main fiber or run() itself. *)
MayYield(th) == on[th] \in Fibers \ {Root}

(* GetThis()->yield(): what yields is what the thread takes for the running *)
(* fiber, whoever calls.                                                    *)
Yield(th) ==
  /\ ~aborted /\ cur[th] # None
  /\ Disciplined => MayYield(th)
  /\ YieldOf(th, cur[th], m_state[cur[th]])
  /\ UNCHANGED <<inSched, sched, begun, held>>

(* The end of MainFunc. *)
Finish(th) ==
  /\ ~aborted /\ on[th] \in begun
  /\ begun' = begun \ {on[th]}
  /\ YieldOf(th, on[th], "TERM")
  /\ UNCHANGED <<inSched, sched, held>>

Reset(f) ==
  /\ ~aborted /\ Exists(f) /\ f \in held \ {Root}
  /\ Disciplined => m_state[f] = "TERM"
  /\ aborted' = (m_state[f] # "TERM")
  /\ m_state' = [m_state EXCEPT ![f] = "READY"]
  /\ m_ctx' = [m_ctx EXCEPT ![f] = f]
  /\ UNCHANGED <<cur, on, inSched, sched, begun, held>>

MayDrop(f) == f \in begun \ {Root} \/ m_state[f] = "TERM"

(* The last reference from outside goes: ~Fiber, unless the fiber is inside *)
(* MainFunc, where its own reference keeps it for ever.  ~Scheduler does it *)
(* to Root.  Whoever resumed a running fiber has a reference.               *)
Drop(f) ==
  /\ ~aborted /\ f \in held /\ m_state[f] # "RUNNING"
  /\ f = Root => on[Owner] = Owner
  /\ Disciplined => MayDrop(f)
  /\ held' = held \ {f}
  /\ IF f \in begun
       THEN UNCHANGED <<m_state, m_ctx, aborted>>
       ELSE /\ aborted' = (m_state[f] # "TERM")
            /\ m_state' = [m_state EXCEPT ![f] = "none"]
            /\ m_ctx' = [m_ctx EXCEPT ![f] = None]
  /\ UNCHANGED <<cur, on, inSched, sched, begun>>

(* A thread ends and main_fiber is destroyed; its name may be used again. *)
ThreadExit(th) ==
  /\ ~aborted /\ th # Owner /\ on[th] = th /\ Exists(th)
  /\ aborted' = (m_state[th] # "RUNNING")
  /\ cur' = [cur EXCEPT ![th] = None]
  /\ m_state' = [m_state EXCEPT ![th] = "none"]
  /\ m_ctx' = [m_ctx EXCEPT ![th] = None]
  /\ sched' = [sched EXCEPT ![th] = None]
  /\ UNCHANGED <<on, inSched, begun, held>>

Next ==
  \/ Construct
  \/ \E th \in Threads : \/ GetThis(th) \/ WorkerRuns(th) \/ Yield(th)
                         \/ Finish(th) \/ ThreadExit(th)
                         \/ \E f \in Fibers : Resume(th, f)
  \/ \E f \in Fibers : \/ Reset(f) \/ Drop(f)
                       \/ \E b \in BOOLEAN : NewFiber(f, b)

Spec == Init /\ [][Next]_vars

----------------------------------------------------------------------------
TypeOK ==
  /\ cur \in [Threads -> All \cup {None}]
  /\ on \in [Threads -> All]
  /\ m_state \in [All -> States]
  /\ m_ctx \in [All -> All \cup {None}]
  /\ inSched \in [All -> BOOLEAN]
  /\ sched \in [Threads -> Threads \cup {Root, None}]
  /\ begun \subseteq Fibers /\ held \subseteq Fibers

(* The fibers between a thread's main fiber and the code it executes. *)
Stack(th) ==
  {th} \cup (IF on[th] = th THEN {} ELSE {on[th], Target(th, on[th])})

(* The fibers in state RUNNING are those that execute or wait for one they *)
(* have resumed, and no fiber is on the stacks of two threads.             *)
ControlStack ==
  /\ \A f \in All : m_state[f] = "RUNNING"
                      <=> \E th \in Threads : Exists(th) /\ f \in Stack(th)
  /\ \A t, u \in Threads : \A f \in Stack(t) \cap Stack(u) : t = u

(* Every fiber that does not execute has its own continuation in its own  *)
(* context: no swapcontext has overwritten the one of another.            *)
ContextsExact ==
  \A f \in All :
    m_ctx[f] = IF Exists(f) /\ ~Executing(f) THEN f ELSE None

(* resume() and yield() nest: however threads create, resume, migrate,     *)
(* reset and drop fibers, control returns to the fiber that resumed, with  *)
(* its own continuation, and states agree with it (fiber.cc:144-181).      *)
FiberConsistent == TypeOK /\ ControlStack /\ ContextsExact

(* p_cur_running_fiber is the fiber that executes, so that                 *)
(* GetThis()->yield() suspends its caller.  The exception is run() on the  *)
(* thread of the owner: it executes in Root, and after the first task has  *)
(* yielded the current fiber there is the main fiber (fiber.cc:166).       *)
CurrentIsExecuting ==
  \A th \in Threads :
    \/ cur[th] = on[th]
    \/ cur[th] = None /\ on[th] = th
    \/ cur[th] = th /\ on[th] = Root
=============================================================================
