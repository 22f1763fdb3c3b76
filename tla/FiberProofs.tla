---------------------------- MODULE FiberProofs ----------------------------
(***************************************************************************)
(* Theorems about Fiber, for any threads and any fibers, when callers keep *)
(* to MayResume, MayYield and MayDrop.                                     *)
(***************************************************************************)
EXTENDS Fiber, TLAPS

(***************************************************************************)
(* What a thread can be doing: code before it has a main fiber, its main   *)
(* fiber, run() on the owner's thread, or a fiber that can return.         *)
(***************************************************************************)
Outside(th) == on[th] = th /\ cur[th] = None /\ m_state[th] = "none"
AtMain(th) == on[th] = th /\ cur[th] = th /\ m_state[th] = "RUNNING"
InRun(th) == /\ th = Owner /\ on[th] = Root /\ cur[th] \in {Root, th}
             /\ m_state[th] = "RUNNING"
InFiber(th) == /\ on[th] \in Fibers \ {Root} /\ cur[th] = on[th]
               /\ m_state[th] = "RUNNING" /\ Target(th, on[th]) # None

Doing(th) == Outside(th) \/ AtMain(th) \/ InRun(th) \/ InFiber(th)

(* Where the scheduler's fiber of a thread can be. *)
Scheds ==
  /\ \A th \in Threads : sched[th] \in {None, IF th = Owner THEN Root ELSE th}
  /\ ~inSched[Root]

(* Who is RUNNING: Root under run() and under the tasks run() resumes. *)
RootActive ==
  \/ on[Owner] = Root
  \/ on[Owner] \in Fibers \ {Root} /\ inSched[on[Owner]]

Running ==
  /\ \A f \in Fibers \ {Root} : m_state[f] = "RUNNING" <=> Executing(f)
  /\ m_state[Root] = "RUNNING" <=> RootActive
  /\ \A t, u \in Threads : on[t] = on[u] => t = u

Inv ==
  /\ TypeOK /\ ~aborted
  /\ \A th \in Threads : Doing(th)
  /\ Scheds /\ Running /\ ContextsExact

(***************************************************************************)
(* A disciplined resume() switches to f, and saves the caller where it is. *)
(***************************************************************************)
LEMMA ResumeSwitches ==
  ASSUME Disciplined = TRUE, Inv, NEW th \in Threads, NEW f \in Fibers,
         Resume(th, f)
  PROVE  /\ m_state[f] = "READY" /\ ~aborted'
         /\ \/ AtMain(th) /\ Target(th, f) = th
            \/ InRun(th) /\ Target(th, f) = Root /\ inSched[f] /\ f # Root
         /\ on' = [on EXCEPT ![th] = f]
         /\ m_ctx' = [m_ctx EXCEPT ![on[th]] = on[th], ![f] = None]
<1> USE FiberAssumption DEF All
<1>1. m_state[f] = "READY" /\ m_state[th] # "none" /\ on[th] = Target(th, f)
  BY DEF Resume, MayResume, Exists
<1>2. \/ AtMain(th) /\ Target(th, f) = th
      \/ InRun(th) /\ Target(th, f) = Root
  BY <1>1 DEF Inv, Doing, Outside, AtMain, InRun, InFiber, Scheds, TypeOK, Target
<1>3. InRun(th) /\ Target(th, f) = Root => inSched[f] /\ f # Root
  BY DEF Inv, InRun, Target, Scheds
<1>4. ~Executing(f)
  BY <1>1 DEF Inv, Running, Executing, RootActive, Doing, Outside, AtMain,
              InRun, InFiber
<1>5. m_ctx[f] = f /\ f # on[th]
  BY <1>1, <1>4 DEF Inv, ContextsExact, Exists, Executing
<1>6. on' = [on EXCEPT ![th] = f]
  BY <1>1, <1>5 DEF Resume, Swap, Inv, TypeOK
<1>7. m_ctx' = [m_ctx EXCEPT ![on[th]] = on[th], ![f] = None]
  BY <1>1 DEF Resume, Swap
<1>8. ~aborted'
  BY <1>1, <1>2 DEF Resume, AtMain, InRun, Exists
<1> QED
  BY <1>1, <1>2, <1>3, <1>6, <1>7, <1>8

(***************************************************************************)
(* yield() of the fiber that executes returns to its target, which is on   *)
(* the same thread's stack.                                                *)
(***************************************************************************)
LEMMA YieldSwitches ==
  ASSUME Inv, NEW th \in Threads, NEW f \in Fibers, on[th] = f,
         NEW s \in {"RUNNING", "TERM"}, YieldOf(th, f, s)
  PROVE  /\ ~aborted'
         /\ \/ Target(th, f) = th
            \/ Target(th, f) = Root /\ th = Owner /\ inSched[f] /\ f # Root
         /\ m_state[th] = "RUNNING"
         /\ on' = [on EXCEPT ![th] = Target(th, f)]
         /\ m_ctx' = [m_ctx EXCEPT ![f] = f, ![Target(th, f)] = None]
<1> USE FiberAssumption DEF All
<1> DEFINE t == Target(th, f)
<1>1. InRun(th) \/ InFiber(th)
  BY DEF Inv, Doing, Outside, AtMain
<1>2. \/ t = th
      \/ t = Root /\ th = Owner /\ inSched[f] /\ f # Root
  BY <1>1 DEF Inv, InRun, InFiber, Scheds, Target, TypeOK
<1>3. m_state[th] = "RUNNING"
  BY <1>1 DEF InRun, InFiber
<1>4. Exists(t) /\ ~Executing(t) /\ t \in All /\ t # f
  <2>1. CASE t = th
    BY <2>1, <1>3 DEF Exists, Executing, Inv, Doing, Outside, AtMain, InRun, InFiber
  <2>2. CASE t = Root /\ th = Owner /\ inSched[f] /\ f # Root
    BY <2>2 DEF Exists, Executing, Inv, Running, RootActive, Doing, Outside,
                AtMain, InRun, InFiber
  <2> QED
    BY <1>2, <2>1, <2>2
<1>5. m_ctx[t] = t
  BY <1>4 DEF Inv, ContextsExact
<1>6. on' = [on EXCEPT ![th] = t]
  BY <1>4, <1>5 DEF YieldOf, Swap, Inv, TypeOK
<1>7. m_ctx' = [m_ctx EXCEPT ![f] = f, ![t] = None]
  BY DEF YieldOf, Swap
<1>8. ~aborted'
  BY <1>2 DEF YieldOf
<1> QED
  BY <1>2, <1>3, <1>6, <1>7, <1>8

LEMMA MadeIs ==
  ASSUME Inv, NEW th \in Threads, NEW b \in BOOLEAN, on[th] = th
  PROVE  /\ Made(th, b).cur = [cur EXCEPT ![th] = th]
         /\ Made(th, b).state = [m_state EXCEPT ![th] = "RUNNING"]
         /\ \/ Made(th, b).inSched = inSched
            \/ Made(th, b).inSched = [inSched EXCEPT ![th] = b]
<1> USE FiberAssumption DEF All
<1>1. Outside(th) \/ AtMain(th)
  BY DEF Inv, Doing, InRun, InFiber
<1>2. CASE Outside(th)
  BY <1>2 DEF Outside, Made
<1>3. CASE AtMain(th)
  BY <1>3 DEF AtMain, Made, Inv, TypeOK
<1> QED
  BY <1>1, <1>2, <1>3

----------------------------------------------------------------------------
LEMMA ResumeKeeps ==
  ASSUME Disciplined = TRUE, Inv, NEW th \in Threads, NEW f \in Fibers,
         Resume(th, f)
  PROVE  Inv'
<1> USE FiberAssumption DEF All
<1> DEFINE target == Target(th, f)
<1>1. /\ m_state[f] = "READY" /\ ~aborted'
      /\ \/ AtMain(th) /\ target = th
         \/ InRun(th) /\ target = Root /\ inSched[f] /\ f # Root
      /\ on' = [on EXCEPT ![th] = f]
      /\ m_ctx' = [m_ctx EXCEPT ![on[th]] = on[th], ![f] = None]
  BY ResumeSwitches
<1>2. /\ m_state' = [m_state EXCEPT ![f] = "RUNNING"]
      /\ cur' = [cur EXCEPT ![th] = f]
      /\ UNCHANGED <<inSched, sched>>
      /\ f = Root => th = Owner
  BY DEF Resume
<1>3. TypeOK'
  BY <1>1, <1>2 DEF Inv, TypeOK, Resume, States
<1>4. \A t \in Threads : Doing(t)'
  <2> SUFFICES ASSUME NEW t \in Threads PROVE Doing(t)'
    OBVIOUS
  <2>1. CASE t = th /\ f = Root
    BY <1>1, <1>2, <2>1 DEF Inv, TypeOK, Doing, AtMain, InRun
  <2>2. CASE t = th /\ f # Root
    BY <1>1, <1>2, <2>2 DEF Inv, TypeOK, Doing, AtMain, InRun, InFiber, Target
  <2>3. CASE t # th
    BY <1>1, <1>2, <2>3 DEF Inv, TypeOK, Doing, Outside, AtMain, InRun, InFiber,
                            Target
  <2> QED
    BY <2>1, <2>2, <2>3
<1>5. Scheds'
  BY <1>2 DEF Inv, Scheds
<1>6. ~Executing(f) /\ (on[th] = th \/ (on[th] = Root /\ th = Owner))
  BY <1>1 DEF Inv, Running, Executing, RootActive, Doing, Outside, AtMain,
              InRun, InFiber
<1>7. \A g \in All : Executing(g)' <=> (g = f \/ (Executing(g) /\ g # on[th]))
  BY <1>1, <1>6 DEF Executing, Inv, TypeOK, Running
<1>8. Running'
  <2>1. \A g \in Fibers \ {Root} : m_state'[g] = "RUNNING" <=> Executing(g)'
    BY <1>2, <1>6, <1>7 DEF Inv, TypeOK, Running
  <2>2. m_state'[Root] = "RUNNING" <=> RootActive'
    <3>1. CASE th = Owner
      BY <1>1, <1>2, <3>1 DEF Inv, TypeOK, Running, RootActive, AtMain, InRun,
                              Target, Scheds
    <3>2. CASE th # Owner
      BY <1>1, <1>2, <3>2 DEF Inv, TypeOK, Running, RootActive
    <3> QED
      BY <3>1, <3>2
  <2>3. \A t, u \in Threads : on'[t] = on'[u] => t = u
    BY <1>1, <1>6 DEF Inv, TypeOK, Running, Executing
  <2> QED
    BY <2>1, <2>2, <2>3 DEF Running
<1>9. ContextsExact'
  <2> SUFFICES ASSUME NEW g \in All
               PROVE  m_ctx'[g] = IF Exists(g)' /\ ~Executing(g)' THEN g ELSE None
    BY DEF ContextsExact
  <2>1. m_state[on[th]] # "none" /\ on[th] \in All
    BY <1>1, <1>6 DEF Inv, AtMain, InRun, Running, RootActive
  <2> QED
    BY <1>1, <1>2, <1>6, <1>7, <2>1 DEF Inv, TypeOK, ContextsExact, Exists, Executing
<1> QED
  BY <1>1, <1>3, <1>4, <1>5, <1>8, <1>9 DEF Inv

LEMMA YieldKeeps ==
  ASSUME Inv, NEW th \in Threads, NEW f \in Fibers, on[th] = f,
         NEW s \in {"RUNNING", "TERM"}, YieldOf(th, f, s),
         UNCHANGED <<inSched, sched, held>>, begun' \subseteq begun
  PROVE  Inv'
<1> USE FiberAssumption DEF All
<1> DEFINE target == Target(th, f)
<1>1. /\ ~aborted'
      /\ \/ target = th
         \/ target = Root /\ th = Owner /\ inSched[f] /\ f # Root
      /\ m_state[th] = "RUNNING"
      /\ on' = [on EXCEPT ![th] = target]
      /\ m_ctx' = [m_ctx EXCEPT ![f] = f, ![target] = None]
  BY YieldSwitches
<1>2. /\ cur' = [cur EXCEPT ![th] = th]
      /\ m_state' = [m_state EXCEPT ![f] = YieldState(s)]
      /\ YieldState(s) \in {"READY", "TERM"}
  BY DEF YieldOf, AfterYield, YieldState
<1>3. TypeOK'
  BY <1>1, <1>2 DEF Inv, TypeOK, States
<1>4. \A t \in Threads : Doing(t)'
  <2> SUFFICES ASSUME NEW t \in Threads PROVE Doing(t)'
    OBVIOUS
  <2>1. CASE t = th
    BY <1>1, <1>2, <2>1 DEF Inv, TypeOK, Doing, AtMain, InRun
  <2>2. CASE t # th
    BY <1>1, <1>2, <2>2 DEF Inv, TypeOK, Doing, Outside, AtMain, InRun, InFiber,
                            Target
  <2> QED
    BY <2>1, <2>2
<1>5. Scheds'
  BY DEF Inv, Scheds
<1>6. target \in All /\ ~Executing(target)
  BY <1>1 DEF Inv, Executing, Running, RootActive, Doing, Outside, AtMain,
              InRun, InFiber
<1>7. \A g \in All : Executing(g)' <=> (g = target \/ (Executing(g) /\ g # f))
  BY <1>1, <1>6 DEF Executing, Inv, TypeOK, Running
<1>8. Running'
  <2>1. \A g \in Fibers \ {Root} : m_state'[g] = "RUNNING" <=> Executing(g)'
    BY <1>1, <1>2, <1>7 DEF Inv, TypeOK, Running
  <2>2. m_state'[Root] = "RUNNING" <=> RootActive'
    <3>1. CASE th = Owner
      BY <1>1, <1>2, <3>1 DEF Inv, TypeOK, Running, RootActive, Target, Scheds
    <3>2. CASE th # Owner
      BY <1>1, <1>2, <3>2 DEF Inv, TypeOK, Running, RootActive, Doing, Outside,
                              AtMain, InRun, InFiber
    <3> QED
      BY <3>1, <3>2
  <2>3. \A t, u \in Threads : on'[t] = on'[u] => t = u
    BY <1>1, <1>6 DEF Inv, TypeOK, Running, Executing
  <2> QED
    BY <2>1, <2>2, <2>3 DEF Running
<1>9. ContextsExact'
  <2> SUFFICES ASSUME NEW g \in All
               PROVE  m_ctx'[g] = IF Exists(g)' /\ ~Executing(g)' THEN g ELSE None
    BY DEF ContextsExact
  <2> QED
    BY <1>1, <1>2, <1>6, <1>7 DEF Inv, TypeOK, ContextsExact, Exists, Executing
<1> QED
  BY <1>1, <1>3, <1>4, <1>5, <1>8, <1>9 DEF Inv

(***************************************************************************)
(* A thread gets its main fiber, and the owner its root fiber.             *)
(***************************************************************************)
LEMMA GetThisKeeps ==
  ASSUME Inv, NEW th \in Threads, GetThis(th)
  PROVE  Inv'
<1> USE FiberAssumption DEF All
<1>1. Outside(th)
  BY DEF GetThis, Inv, Doing, AtMain, InRun, InFiber
<1>2. PICK b \in BOOLEAN : /\ cur' = Made(th, b).cur
                           /\ m_state' = Made(th, b).state
                           /\ inSched' = Made(th, b).inSched
  BY DEF GetThis
<1>3. /\ cur' = [cur EXCEPT ![th] = th]
      /\ m_state' = [m_state EXCEPT ![th] = "RUNNING"]
      /\ inSched' = inSched \/ inSched' = [inSched EXCEPT ![th] = b]
      /\ UNCHANGED <<on, m_ctx, sched, begun, held, aborted>>
  BY <1>1, <1>2, MadeIs DEF Outside, GetThis
<1>4. TypeOK'
  BY <1>3 DEF Inv, TypeOK, States
<1>5. \A t \in Threads : Doing(t)'
  BY <1>1, <1>3 DEF Inv, TypeOK, Doing, Outside, AtMain, InRun, InFiber, Target
<1>6. Scheds'
  BY <1>3 DEF Inv, TypeOK, Scheds
<1>7. Running'
  BY <1>1, <1>3 DEF Inv, TypeOK, Running, RootActive, Executing
<1>8. ContextsExact'
  BY <1>1, <1>3 DEF Inv, TypeOK, ContextsExact, Exists, Executing, Outside
<1> QED
  BY <1>3, <1>4, <1>5, <1>6, <1>7, <1>8 DEF Inv

LEMMA WorkerRunsKeeps ==
  ASSUME Inv, NEW th \in Threads, WorkerRuns(th)
  PROVE  Inv'
<1> USE FiberAssumption DEF All
<1>1. Outside(th) \/ AtMain(th)
  BY DEF WorkerRuns, Inv, Doing, InRun, InFiber
<1>2. PICK b \in BOOLEAN : /\ cur' = Made(th, b).cur
                           /\ m_state' = Made(th, b).state
                           /\ inSched' = Made(th, b).inSched
  BY DEF WorkerRuns
<1>3. /\ cur' = [cur EXCEPT ![th] = th]
      /\ m_state' = [m_state EXCEPT ![th] = "RUNNING"]
      /\ inSched' = inSched \/ inSched' = [inSched EXCEPT ![th] = b]
      /\ sched' = [sched EXCEPT ![th] = th] /\ th # Owner
      /\ UNCHANGED <<on, m_ctx, begun, held, aborted>>
  BY <1>2, MadeIs DEF WorkerRuns
<1>4. TypeOK'
  BY <1>3 DEF Inv, TypeOK, States
<1>5. \A t \in Threads : Doing(t)'
  BY <1>1, <1>3 DEF Inv, TypeOK, Doing, Outside, AtMain, InRun, InFiber, Target
<1>6. Scheds'
  BY <1>3 DEF Inv, TypeOK, Scheds
<1>7. Running'
  BY <1>1, <1>3 DEF Inv, TypeOK, Running, RootActive, Executing
<1>8. ContextsExact'
  BY <1>1, <1>3 DEF Inv, TypeOK, ContextsExact, Exists, Executing, Outside, AtMain
<1> QED
  BY <1>3, <1>4, <1>5, <1>6, <1>7, <1>8 DEF Inv

LEMMA ConstructKeeps ==
  ASSUME Inv, Construct
  PROVE  Inv'
<1> USE FiberAssumption DEF All
<1>1. Outside(Owner) \/ AtMain(Owner)
  BY DEF Construct, Inv, Doing, InRun, InFiber
<1>2. PICK b \in BOOLEAN :
        /\ cur' = Made(Owner, b).cur
        /\ m_state' = [Made(Owner, b).state EXCEPT ![Root] = "READY"]
        /\ inSched' = [Made(Owner, b).inSched EXCEPT ![Root] = FALSE]
  BY DEF Construct
<1>3. /\ cur' = [cur EXCEPT ![Owner] = Owner]
      /\ m_state' = [m_state EXCEPT ![Owner] = "RUNNING", ![Root] = "READY"]
      /\ \/ inSched' = [inSched EXCEPT ![Root] = FALSE]
         \/ inSched' = [inSched EXCEPT ![Owner] = b, ![Root] = FALSE]
      /\ m_ctx' = [m_ctx EXCEPT ![Root] = Root]
      /\ sched' = [sched EXCEPT ![Owner] = Root] /\ on[Owner] = Owner
      /\ held' = held \cup {Root} /\ m_state[Root] = "none"
      /\ UNCHANGED <<on, begun, aborted>>
  BY <1>2, MadeIs DEF Construct, Exists
<1>0. /\ inSched' \in [All -> BOOLEAN]
      /\ \A f \in Fibers \ {Root} : inSched'[f] = inSched[f]
  <2>1. inSched \in [All -> BOOLEAN] /\ Owner \in All /\ Owner \notin Fibers
    BY DEF Inv, TypeOK
  <2>2. CASE inSched' = [inSched EXCEPT ![Root] = FALSE]
    BY <2>1, <2>2
  <2>3. CASE inSched' = [inSched EXCEPT ![Owner] = b, ![Root] = FALSE]
    BY <2>1, <2>3
  <2> QED
    BY <1>3, <2>2, <2>3
<1>4. TypeOK'
  <2>1. m_state' \in [All -> States] /\ m_ctx' \in [All -> All \cup {None}]
    BY <1>3 DEF Inv, TypeOK, States
  <2> QED
    BY <1>3, <1>0, <2>1 DEF Inv, TypeOK
<1>5. \A t \in Threads : Doing(t)'
  <2> SUFFICES ASSUME NEW t \in Threads PROVE Doing(t)'
    OBVIOUS
  <2>1. CASE t = Owner
    BY <1>3, <2>1 DEF Inv, TypeOK, Doing, AtMain
  <2>2. CASE t # Owner
    <3>1. m_state'[t] = m_state[t] /\ cur'[t] = cur[t] /\ sched'[t] = sched[t]
          /\ on'[t] = on[t]
      BY <1>3, <2>2 DEF Inv, TypeOK
    <3>2. Doing(t) /\ ~InRun(t)
      BY <2>2 DEF Inv, InRun
    <3> QED
      BY <1>0, <3>1, <3>2 DEF Doing, Outside, AtMain, InFiber, Target
  <2> QED
    BY <2>1, <2>2
<1>6. Scheds'
  BY <1>3 DEF Inv, TypeOK, Scheds
<1>7. Running'
  BY <1>1, <1>3 DEF Inv, TypeOK, Running, RootActive, Executing
<1>8. ~Executing(Root)
  BY <1>3 DEF Inv, Running, RootActive, Executing, Doing, Outside, AtMain, InRun,
              InFiber
<1>9. ContextsExact'
  BY <1>1, <1>3, <1>8 DEF Inv, TypeOK, ContextsExact, Exists, Executing, Outside,
                          AtMain
<1> QED
  BY <1>3, <1>4, <1>5, <1>6, <1>7, <1>9 DEF Inv

(***************************************************************************)
(* The steps that change a fiber nobody executes, or end a thread.         *)
(***************************************************************************)
LEMMA NewFiberKeeps ==
  ASSUME Inv, NEW f \in Fibers, NEW b \in BOOLEAN, NewFiber(f, b)
  PROVE  Inv'
<1> USE FiberAssumption DEF All
<1>1. f # Root /\ m_state[f] = "none" /\ ~Executing(f)
  BY DEF NewFiber, Exists, Inv, Running
<1>2. TypeOK'
  BY DEF NewFiber, Inv, TypeOK, States
<1>3. \A t \in Threads : Doing(t)'
  BY <1>1 DEF NewFiber, Inv, TypeOK, Doing, Outside, AtMain, InRun, InFiber, Target,
              Executing
<1>4. Scheds'
  BY <1>1 DEF NewFiber, Inv, TypeOK, Scheds
<1>5. Running'
  BY <1>1 DEF NewFiber, Inv, TypeOK, Running, RootActive, Executing
<1>6. ContextsExact'
  BY <1>1 DEF NewFiber, Inv, TypeOK, ContextsExact, Exists, Executing
<1> QED
  BY <1>2, <1>3, <1>4, <1>5, <1>6 DEF Inv, NewFiber

LEMMA ResetKeeps ==
  ASSUME Disciplined = TRUE, Inv, NEW f \in Fibers, Reset(f)
  PROVE  Inv'
<1> USE FiberAssumption DEF All
<1>1. f # Root /\ m_state[f] = "TERM" /\ ~Executing(f) /\ ~aborted'
  BY DEF Reset, Exists, Inv, Running
<1>2. TypeOK'
  BY <1>1 DEF Reset, Inv, TypeOK, States
<1>3. \A t \in Threads : Doing(t)'
  BY <1>1 DEF Reset, Inv, TypeOK, Doing, Outside, AtMain, InRun, InFiber, Target,
              Executing
<1>4. Scheds'
  BY DEF Reset, Inv, Scheds
<1>5. Running'
  BY <1>1 DEF Reset, Inv, TypeOK, Running, RootActive, Executing
<1>6. ContextsExact'
  BY <1>1 DEF Reset, Inv, TypeOK, ContextsExact, Exists, Executing
<1> QED
  BY <1>1, <1>2, <1>3, <1>4, <1>5, <1>6 DEF Inv

LEMMA DropKeeps ==
  ASSUME Disciplined = TRUE, Inv, NEW f \in Fibers, Drop(f)
  PROVE  Inv'
<1> USE FiberAssumption DEF All
<1>1. CASE f \in begun
  <2>1. UNCHANGED <<cur, on, m_state, m_ctx, inSched, sched, begun, aborted>>
        /\ held' = held \ {f}
    BY <1>1 DEF Drop
  <2> QED
    BY <2>1 DEF Inv, TypeOK, Doing, Outside, AtMain, InRun, InFiber, Target, Scheds,
                Running, RootActive, Executing, ContextsExact, Exists
<1>2. CASE f \notin begun
  <2>1. /\ m_state[f] = "TERM" /\ ~aborted'
        /\ held' = held \ {f}
        /\ m_state' = [m_state EXCEPT ![f] = "none"]
        /\ m_ctx' = [m_ctx EXCEPT ![f] = None]
        /\ UNCHANGED <<cur, on, inSched, sched, begun>>
    BY <1>2 DEF Drop, MayDrop
  <2>2. ~Executing(f)
    BY <2>1 DEF Inv, Running, RootActive, Executing, Doing, Outside, AtMain, InRun,
                InFiber
  <2>3. TypeOK'
    BY <2>1 DEF Inv, TypeOK, States
  <2>4. \A t \in Threads : Doing(t)'
    BY <2>1, <2>2 DEF Inv, TypeOK, Doing, Outside, AtMain, InRun, InFiber, Target,
                      Executing
  <2>5. Scheds'
    BY <2>1 DEF Inv, Scheds
  <2>6. Running'
    BY <2>1, <2>2 DEF Inv, TypeOK, Running, RootActive, Executing
  <2>7. ContextsExact'
    BY <2>1, <2>2 DEF Inv, TypeOK, ContextsExact, Exists, Executing
  <2> QED
    BY <2>1, <2>3, <2>4, <2>5, <2>6, <2>7 DEF Inv
<1> QED
  BY <1>1, <1>2

LEMMA ThreadExitKeeps ==
  ASSUME Inv, NEW th \in Threads, ThreadExit(th)
  PROVE  Inv'
<1> USE FiberAssumption DEF All
<1>1. AtMain(th) /\ th # Owner /\ ~aborted'
  BY DEF ThreadExit, Exists, Inv, Doing, Outside, AtMain, InRun, InFiber
<1>2. TypeOK'
  BY <1>1 DEF ThreadExit, Inv, TypeOK, States
<1>3. \A t \in Threads : Doing(t)'
  BY <1>1 DEF ThreadExit, Inv, TypeOK, Doing, Outside, AtMain, InRun, InFiber, Target
<1>4. Scheds'
  BY <1>1 DEF ThreadExit, Inv, TypeOK, Scheds
<1>5. Running'
  BY <1>1 DEF ThreadExit, Inv, TypeOK, Running, RootActive, Executing, AtMain
<1>6. ContextsExact'
  BY <1>1 DEF ThreadExit, Inv, TypeOK, ContextsExact, Exists, Executing, AtMain
<1> QED
  BY <1>1, <1>2, <1>3, <1>4, <1>5, <1>6 DEF Inv

----------------------------------------------------------------------------
LEMMA NextKeeps ==
  ASSUME Disciplined = TRUE, Inv, [Next]_vars
  PROVE  Inv'
<1> USE FiberAssumption DEF All
<1>1. ASSUME NEW th \in Threads, Yield(th) PROVE Inv'
  <2>1. on[th] \in Fibers \ {Root} /\ cur[th] = on[th]
    BY <1>1 DEF Yield, MayYield, Inv, Doing, Outside, AtMain, InRun, InFiber
  <2>2. m_state[on[th]] = "RUNNING"
    BY <2>1 DEF Inv, Running, Executing
  <2>3. YieldOf(th, on[th], "RUNNING") /\ UNCHANGED <<inSched, sched, begun, held>>
    BY <1>1, <2>1, <2>2 DEF Yield
  <2> QED
    BY <2>1, <2>3, YieldKeeps
<1>2. ASSUME NEW th \in Threads, Finish(th) PROVE Inv'
  <2>1. /\ on[th] \in Fibers /\ YieldOf(th, on[th], "TERM")
        /\ UNCHANGED <<inSched, sched, held>> /\ begun' \subseteq begun
    BY <1>2 DEF Finish, Inv, TypeOK
  <2> QED
    BY <2>1, YieldKeeps
<1>3. CASE UNCHANGED vars
  BY <1>3 DEF vars, Inv, TypeOK, Doing, Outside, AtMain, InRun, InFiber, Target,
              Scheds, Running, RootActive, Executing, ContextsExact, Exists
<1> QED
  BY <1>1, <1>2, <1>3, ConstructKeeps, GetThisKeeps, WorkerRunsKeeps, ThreadExitKeeps,
     ResumeKeeps, ResetKeeps, DropKeeps, NewFiberKeeps DEF Next

LEMMA InitHolds == Init => Inv
<1> USE FiberAssumption DEF All
<1>1. Init => TypeOK /\ ~aborted
  BY DEF Init, TypeOK, States
<1>2. Init => (\A th \in Threads : Doing(th)) /\ Scheds /\ Running
  BY DEF Init, Doing, Outside, Scheds, Running, RootActive, Executing
<1>3. Init => ContextsExact
  BY DEF Init, ContextsExact, Exists
<1> QED
  BY <1>1, <1>2, <1>3 DEF Inv

LEMMA Invariance ==
  ASSUME Disciplined = TRUE
  PROVE  Spec => []Inv
<1>1. Inv /\ [Next]_vars => Inv'
  BY NextKeeps
<1> QED
  BY <1>1, InitHolds, PTL DEF Spec

(***************************************************************************)
(* The stacks the invariant describes are those of ControlStack.           *)
(***************************************************************************)
LEMMA StackIs ==
  ASSUME Inv, NEW th \in Threads
  PROVE  \/ on[th] = th /\ Stack(th) = {th}
         \/ on[th] = Root /\ th = Owner /\ Stack(th) = {th, Root}
         \/ /\ on[th] \in Fibers \ {Root}
            /\ Stack(th) = {th, on[th]} \cup (IF th = Owner /\ inSched[on[th]]
                                               THEN {Root} ELSE {})
<1> USE FiberAssumption DEF All
<1>1. Doing(th) /\ Scheds
  BY DEF Inv
<1> QED
  BY <1>1 DEF Doing, Outside, AtMain, InRun, InFiber, Scheds, Stack, Target

LEMMA Stacked == Inv => ControlStack
<1> SUFFICES ASSUME Inv PROVE ControlStack
  OBVIOUS
<1> USE FiberAssumption DEF All
<1>1. ASSUME NEW f \in All
      PROVE  m_state[f] = "RUNNING"
               <=> \E th \in Threads : Exists(th) /\ f \in Stack(th)
  <2>1. CASE f \in Threads
    BY <2>1, StackIs DEF Inv, Doing, Outside, AtMain, InRun, InFiber, Exists
  <2>2. CASE f = Root
    BY <2>2, StackIs DEF Inv, Doing, Outside, AtMain, InRun, InFiber, Exists,
                         Running, RootActive
  <2>3. CASE f \in Fibers \ {Root}
    BY <2>3, StackIs DEF Inv, Doing, Outside, AtMain, InRun, InFiber, Exists,
                         Running, Executing
  <2> QED
    BY <2>1, <2>2, <2>3
<1>2. ASSUME NEW t \in Threads, NEW u \in Threads, NEW f \in Stack(t) \cap Stack(u)
      PROVE  t = u
  BY StackIs DEF Inv, Running, Doing, Outside, AtMain, InRun, InFiber
<1> QED
  BY <1>1, <1>2 DEF ControlStack

(* Control returns to the fiber that resumed, with its own continuation,   *)
(* and states agree with the stacks (fiber.cc:144-181), for any number of  *)
(* threads and fibers.                                                     *)
THEOREM FiberConsistentCorrect ==
  ASSUME Disciplined = TRUE
  PROVE  Spec => []FiberConsistent
<1>1. Inv => FiberConsistent
  BY Stacked DEF Inv, FiberConsistent
<1> QED
  BY <1>1, Invariance, PTL

(* p_cur_running_fiber is the fiber that executes, except in run() on the  *)
(* owner's thread (fiber.cc:166).                                          *)
THEOREM CurrentIsExecutingCorrect ==
  ASSUME Disciplined = TRUE
  PROVE  Spec => []CurrentIsExecuting
<1>1. Inv => CurrentIsExecuting
  BY DEF Inv, Doing, Outside, AtMain, InRun, InFiber, CurrentIsExecuting
<1> QED
  BY <1>1, Invariance, PTL
=============================================================================
