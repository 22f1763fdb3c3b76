--------------------------- MODULE FdEventsProofs ---------------------------
(***************************************************************************)
(* Theorems about FdEvents, for every finite set of descriptors and any    *)
(* number of fibers and idle threads.                                      *)
(***************************************************************************)
EXTENDS FdEvents, FiniteSetTheorems, TLAPS

LEMMA EventSets ==
  ASSUME NEW es \in SUBSET Events
  PROVE  IsFiniteSet(es) /\ Cardinality(es) \in Nat
<1>1. IsFiniteSet({"READ"} \cup {"WRITE"})
  BY FS_Singleton, FS_AddElement, Zenon
<1>2. Events = {"READ"} \cup {"WRITE"}
  BY DEF Events
<1>3. IsFiniteSet(es)
  BY <1>1, <1>2, FS_Subset, Zenon
<1> QED
  BY <1>3, FS_CardinalityType

(***************************************************************************)
(* The kinds of step.  All that a step may do to the registrations is to   *)
(* add one, to let a fiber yield or resume, to delete one, or to trigger   *)
(* registered events of one descriptor, which three operations do.         *)
(***************************************************************************)
Unregistered ==
  UNCHANGED <<events, ctx, m_pendingEventCount, fiberVars>>

TriggerStep(fd, es) ==
  /\ es \subseteq events[fd]
  /\ Trigger(fd, es)
  /\ m_pendingEventCount' = m_pendingEventCount - Cardinality(es)
  /\ UNCHANGED <<st, dropped>>

StepKinds ==
  \/ Unregistered
  \/ \E f \in Fibers, fd \in Fds, e \in Events : AddEvent(f, fd, e)
  \/ \E f \in Fibers : Yield(f) \/ Resume(f)
  \/ \E fd \in Fds, e \in Events : DelEvent(fd, e)
  \/ \E fd \in Fds, es \in SUBSET Events : TriggerStep(fd, es)

LEMMA Kinds == TypeTable /\ [Next]_vars => StepKinds
<1> SUFFICES ASSUME TypeTable, [Next]_vars PROVE StepKinds
  OBVIOUS
<1>1. ASSUME NEW fd \in Fds, NEW e \in Events, CancelEvent(fd, e)
      PROVE  StepKinds
  <2>1. Cardinality({e}) = 1
    BY FS_Singleton
  <2>2. TriggerStep(fd, {e})
    BY <1>1, <2>1 DEF CancelEvent, TriggerStep
  <2> QED
    BY <2>2 DEF StepKinds
<1>2. ASSUME NEW fd \in Fds, CancelAll(fd) PROVE StepKinds
  <2>1. TriggerStep(fd, events[fd]) /\ events[fd] \in SUBSET Events
    BY <1>2 DEF CancelAll, TriggerStep, TypeTable
  <2> QED
    BY <2>1 DEF StepKinds
<1>3. ASSUME NEW i \in Idlers, NEW fd \in Fds, Handle(i, fd) PROVE StepKinds
  <2> DEFINE real == RealEvents(fd, got[i][fd])
  <2>1. real \in SUBSET Events
    BY DEF RealEvents
  <2>2. Unregistered \/ TriggerStep(fd, real)
    <3> HIDE DEF real
    <3>1. UNCHANGED <<st, dropped>>
      BY <1>3 DEF Handle
    <3>2. CASE events[fd] \cap real # {} /\ real \subseteq events[fd]
      BY <1>3, <3>1, <3>2 DEF Handle, TriggerStep, real
    <3>3. CASE ~(events[fd] \cap real # {} /\ real \subseteq events[fd])
      BY <1>3, <3>1, <3>3 DEF Handle, Unregistered, fiberVars, real
    <3> QED
      BY <3>2, <3>3
  <2> QED
    BY <2>1, <2>2 DEF StepKinds
<1>4. CASE UNCHANGED vars
  BY <1>4 DEF vars, StepKinds, Unregistered
<1>5. ASSUME NEW fd \in Fds, NEW x \in Events \cup {"HUP"},
             Arrive(fd, x) \/ Consume(fd, x)
      PROVE  StepKinds
  BY <1>5 DEF Arrive, Consume, StepKinds, Unregistered
<1>6. ASSUME NEW i \in Idlers, EpollWait(i) PROVE StepKinds
  BY <1>6 DEF EpollWait, StepKinds, Unregistered
<1>7. CASE \/ \E f \in Fibers, fd \in Fds, e \in Events : AddEvent(f, fd, e)
           \/ \E f \in Fibers : Yield(f) \/ Resume(f)
           \/ \E fd \in Fds, e \in Events : DelEvent(fd, e)
  BY <1>7 DEF StepKinds
<1> QED
  BY <1>1, <1>2, <1>3, <1>4, <1>5, <1>6, <1>7 DEF Next

(***************************************************************************)
(* The table: its types, and a context in use for each registered event.   *)
(***************************************************************************)
Table == TypeTable /\ ContextsMatchEvents

LEMMA TableNext == Table /\ StepKinds => Table'
<1> SUFFICES ASSUME Table, StepKinds PROVE Table'
  OBVIOUS
<1> USE DEF Table, TypeTable, ContextsMatchEvents
<1>1. ASSUME NEW f \in Fibers, NEW fd \in Fds, NEW e \in Events,
             AddEvent(f, fd, e)
      PROVE  Table'
  BY <1>1, FibersAssumption DEF AddEvent
<1>2. ASSUME NEW fd \in Fds, NEW e \in Events, DelEvent(fd, e) PROVE Table'
  BY <1>2 DEF DelEvent
<1>3. ASSUME NEW fd \in Fds, NEW es \in SUBSET Events, TriggerStep(fd, es)
      PROVE  Table'
  BY <1>3 DEF TriggerStep, Trigger
<1>4. ASSUME NEW f \in Fibers, Yield(f) \/ Resume(f) PROVE Table'
  BY <1>4 DEF Yield, Resume
<1>5. CASE Unregistered
  BY <1>5 DEF Unregistered
<1> QED
  BY <1>1, <1>2, <1>3, <1>4, <1>5 DEF StepKinds

(***************************************************************************)
(* The pending count.  Each kind of step changes the set of registrations  *)
(* by as many elements as it moves the counter.                            *)
(***************************************************************************)
LEMMA RegisteredFinite ==
  IsFiniteSet(Registered) /\ Cardinality(Registered) \in Nat
<1>1. IsFiniteSet(Events)
  BY EventSets
<1>2. IsFiniteSet(Fds \X Events)
  BY <1>1, FiniteAssumption, FS_Product
<1>3. Registered \in SUBSET (Fds \X Events)
  BY DEF Registered
<1>4. IsFiniteSet(Registered)
  BY <1>2, <1>3, FS_Subset
<1> QED
  BY <1>4, FS_CardinalityType

(* Taking es out of the events of one descriptor removes Cardinality(es). *)
LEMMA RemovedCount ==
  ASSUME TypeTable, NEW fd \in Fds, NEW es \in SUBSET Events,
         es \subseteq events[fd],
         events' = [events EXCEPT ![fd] = @ \ es]
  PROVE  Cardinality(Registered') = Cardinality(Registered) - Cardinality(es)
<1> DEFINE gone == {fd} \X es
<1>1. Registered' = Registered \ gone /\ Registered \cap gone = gone
  BY DEF Registered, TypeTable
<1>2. Cardinality(gone) = Cardinality(es)
  <2>1. IsFiniteSet({fd}) /\ Cardinality({fd}) = 1
    BY FS_Singleton
  <2>2. IsFiniteSet(es) /\ Cardinality(es) \in Nat
    BY EventSets
  <2>3. Cardinality(gone) = Cardinality({fd}) * Cardinality(es)
    BY <2>1, <2>2, FS_Product
  <2> QED
    BY <2>1, <2>2, <2>3
<1>3. Cardinality(Registered \ gone)
        = Cardinality(Registered) - Cardinality(Registered \cap gone)
  BY RegisteredFinite, FS_Difference
<1> QED
  BY <1>1, <1>2, <1>3

LEMMA PendingNext == Table /\ PendingExact /\ StepKinds => PendingExact'
<1> SUFFICES ASSUME Table, PendingExact, StepKinds PROVE PendingExact'
  OBVIOUS
<1> USE DEF Table, TypeTable, PendingExact
<1>1. ASSUME NEW f \in Fibers, NEW fd \in Fds, NEW e \in Events,
             AddEvent(f, fd, e)
      PROVE  PendingExact'
  <2>1. Registered' = Registered \cup {<<fd, e>>} /\ <<fd, e>> \notin Registered
    BY <1>1 DEF AddEvent, Registered
  <2>2. Cardinality(Registered') = Cardinality(Registered) + 1
    BY <2>1, RegisteredFinite, FS_AddElement
  <2> QED
    BY <1>1, <2>2 DEF AddEvent, CountOneMore
<1>2. ASSUME NEW fd \in Fds, NEW e \in Events, DelEvent(fd, e)
      PROVE  PendingExact'
  <2>1. Cardinality(Registered') = Cardinality(Registered) - Cardinality({e})
    BY <1>2, RemovedCount DEF DelEvent
  <2>2. Cardinality({e}) = 1
    BY FS_Singleton
  <2> QED
    BY <1>2, <2>1, <2>2 DEF DelEvent
<1>3. ASSUME NEW fd \in Fds, NEW es \in SUBSET Events, TriggerStep(fd, es)
      PROVE  PendingExact'
  BY <1>3, RemovedCount DEF TriggerStep, Trigger
<1>4. CASE UNCHANGED <<events, m_pendingEventCount>>
  BY <1>4 DEF Registered
<1> QED
  BY <1>1, <1>2, <1>3, <1>4 DEF StepKinds, Unregistered, Yield, Resume

LEMMA TableInit == Init => Table /\ PendingExact
<1> SUFFICES ASSUME Init PROVE Table /\ PendingExact
  OBVIOUS
<1>1. Table
  BY FibersAssumption
     DEF Init, Table, TypeTable, ContextsMatchEvents, Empty
<1>2. Registered = {}
  BY DEF Init, Registered, Empty
<1> QED
  BY <1>1, <1>2, FS_EmptySet DEF Init, PendingExact

LEMMA TableAlways == Spec => [](Table /\ PendingExact)
<1>1. Table /\ PendingExact /\ [Next]_vars => (Table /\ PendingExact)'
  BY Kinds, TableNext, PendingNext DEF Table
<1> QED
  BY <1>1, TableInit, PTL DEF Spec

(***************************************************************************)
(* m_pendingEventCount is the number of registrations, for any number of   *)
(* descriptors, fibers and idle threads.                                   *)
(***************************************************************************)
THEOREM PendingExactCorrect == Spec => []PendingExact
<1> QED
  BY TableAlways, PTL

(***************************************************************************)
(* The whereabouts of a fiber: running, or registered for one event, or    *)
(* once in the queue, or dropped.  OneWakeUpPerRegistration adds these up, *)
(* which is not inductive by itself: it does not say that the sum of a     *)
(* fiber that waits is made by one of the three alone.                     *)
(***************************************************************************)
Free(f) == \A fd \in Fds, e \in Events : ctx[fd][e] # f
HoldsOne(f, fd, e) ==
  /\ ctx[fd][e] = f
  /\ \A d \in Fds, x \in Events : ctx[d][x] = f => d = fd /\ x = e

Running(f) == st[f] = "run" /\ Free(f) /\ queue[f] = 0 /\ f \notin dropped
Waiting(f) ==
  /\ st[f] \in {"armed", "wait"} /\ queue[f] = 0 /\ f \notin dropped
  /\ \E fd \in Fds, e \in Events : HoldsOne(f, fd, e)
Queued(f) ==
  st[f] \in {"armed", "wait"} /\ Free(f) /\ queue[f] = 1 /\ f \notin dropped
Dropped(f) ==
  st[f] \in {"armed", "wait"} /\ Free(f) /\ queue[f] = 0 /\ f \in dropped

Placed(f) == Running(f) \/ Waiting(f) \/ Queued(f) \/ Dropped(f)
Whereabouts == TypeFibers /\ \A f \in Fibers : Placed(f)

(* What triggerEvent adds to the entries of a fiber: none, or one. *)
LEMMA TriggerAdds ==
  ASSUME NEW f, NEW fd \in Fds, NEW es \in SUBSET Events
  PROVE  /\ (\A e \in es : ctx[fd][e] # f)
              => Cardinality({e \in es : ctx[fd][e] = f}) = 0
         /\ \A e \in es : HoldsOne(f, fd, e)
              => Cardinality({x \in es : ctx[fd][x] = f}) = 1
<1>1. ASSUME \A e \in es : ctx[fd][e] # f
      PROVE  Cardinality({e \in es : ctx[fd][e] = f}) = 0
  <2>1. {e \in es : ctx[fd][e] = f} = {}
    BY <1>1
  <2> QED
    BY <2>1, FS_EmptySet
<1>2. ASSUME NEW e \in es, HoldsOne(f, fd, e)
      PROVE  Cardinality({x \in es : ctx[fd][x] = f}) = 1
  <2>1. {x \in es : ctx[fd][x] = f} = {e}
    BY <1>2 DEF HoldsOne
  <2> QED
    BY <2>1, FS_Singleton
<1> QED
  BY <1>1, <1>2

(* A trigger moves the fibers that wait for es to the queue, no other. *)
LEMMA TriggerPlaces ==
  ASSUME Table, Whereabouts, NEW fd \in Fds, NEW es \in SUBSET Events,
         TriggerStep(fd, es), NEW f \in Fibers
  PROVE  /\ queue'[f] \in Nat
         /\ \/ /\ \E e \in es : HoldsOne(f, fd, e)
               /\ Waiting(f) /\ Queued(f)'
            \/ /\ \A e \in es : ctx[fd][e] # f
               /\ UNCHANGED <<st[f], queue[f], dropped>>
               /\ Free(f)' <=> Free(f)
               /\ Waiting(f)' <=> Waiting(f)
               /\ Placed(f)'
<1> DEFINE n == Cardinality({e \in es : ctx[fd][e] = f})
<1>1. queue'[f] = queue[f] + n
  BY DEF TriggerStep, Trigger
<1>2. UNCHANGED <<st, dropped>>
  BY DEF TriggerStep
<1>3. ctx' = [ctx EXCEPT ![fd] =
                [e \in Events |-> IF e \in es THEN None ELSE ctx[fd][e]]]
  BY DEF TriggerStep, Trigger
<1>4. ASSUME NEW d \in Fds, NEW x \in Events
      PROVE  ctx'[d][x] = f <=> ctx[d][x] = f /\ ~(d = fd /\ x \in es)
  BY <1>3, FibersAssumption DEF Table, TypeTable
<1>5. CASE \E e \in es : ctx[fd][e] = f
  <2>1. PICK e \in es : ctx[fd][e] = f
    BY <1>5
  <2>2. Waiting(f)
    BY <2>1 DEF Whereabouts, Placed, Running, Queued, Dropped, Free
  <2>3. HoldsOne(f, fd, e)
    BY <2>1, <2>2 DEF Waiting, HoldsOne
  <2>4. n = 1
    BY <2>3, TriggerAdds
  <2>5. Free(f)'
    BY <1>4, <2>3 DEF Free, HoldsOne
  <2>6. queue'[f] = 1
    BY <1>1, <2>2, <2>4 DEF Waiting
  <2>7. Queued(f)'
    BY <1>2, <2>2, <2>5, <2>6 DEF Waiting, Queued
  <2> QED
    BY <2>2, <2>3, <2>6, <2>7
<1>6. CASE \A e \in es : ctx[fd][e] # f
  <2>1. n = 0
    BY <1>6, TriggerAdds
  <2>2. queue'[f] = queue[f]
    BY <1>1, <2>1 DEF Whereabouts, TypeFibers
  <2>3. \A d \in Fds, x \in Events : ctx'[d][x] = f <=> ctx[d][x] = f
    BY <1>4, <1>6
  <2>4. Free(f)' <=> Free(f)
    BY <2>3 DEF Free
  <2>5. Waiting(f)' <=> Waiting(f)
    BY <1>2, <2>2, <2>3 DEF Waiting, HoldsOne
  <2>6. Placed(f)'
    BY <1>2, <2>2, <2>4, <2>5
       DEF Whereabouts, Placed, Running, Queued, Dropped
  <2> QED
    BY <1>2, <1>6, <2>2, <2>4, <2>5, <2>6 DEF Whereabouts, TypeFibers
<1> QED
  BY <1>5, <1>6

LEMMA WhereaboutsNext == Table /\ Whereabouts /\ StepKinds => Whereabouts'
<1> SUFFICES ASSUME Table, Whereabouts, StepKinds PROVE Whereabouts'
  OBVIOUS
<1> USE FibersAssumption DEF Whereabouts, TypeFibers
<1>1. ASSUME NEW f \in Fibers, NEW fd \in Fds, NEW e \in Events,
             AddEvent(f, fd, e)
      PROVE  Whereabouts'
  <2>1. ctx[fd][e] = None
    BY <1>1 DEF AddEvent, Table, TypeTable, ContextsMatchEvents
  <2>2. \A d \in Fds, x \in Events :
          ctx'[d][x] = IF d = fd /\ x = e THEN f ELSE ctx[d][x]
    BY <1>1 DEF AddEvent, Table, TypeTable
  <2>3. Running(f)
    BY <1>1 DEF AddEvent, Placed, Waiting, Queued, Dropped
  <2>4. Waiting(f)'
    <3>1. HoldsOne(f, fd, e)'
      BY <2>2, <2>3 DEF Running, Free, HoldsOne
    <3> QED
      BY <1>1, <2>3, <3>1 DEF AddEvent, Running, Waiting
  <2>5. ASSUME NEW g \in Fibers, g # f PROVE Placed(g)'
    <3>1. \A d \in Fds, x \in Events : ctx'[d][x] = g <=> ctx[d][x] = g
      BY <2>1, <2>2, <2>5
    <3>2. UNCHANGED <<st[g], queue, dropped>>
      BY <1>1, <2>5 DEF AddEvent
    <3>3. (Free(g)' <=> Free(g)) /\ (Waiting(g)' <=> Waiting(g))
      BY <3>1, <3>2 DEF Free, HoldsOne, Waiting
    <3> QED
      BY <3>2, <3>3 DEF Placed, Running, Queued, Dropped
  <2> QED
    BY <1>1, <2>4, <2>5 DEF AddEvent, Placed
<1>2. ASSUME NEW fd \in Fds, NEW e \in Events, DelEvent(fd, e)
      PROVE  Whereabouts'
  <2>1. PICK f \in Fibers : f = ctx[fd][e]
    BY <1>2 DEF DelEvent, Table, TypeTable, ContextsMatchEvents
  <2>2. \A d \in Fds, x \in Events :
          ctx'[d][x] = IF d = fd /\ x = e THEN None ELSE ctx[d][x]
    BY <1>2 DEF DelEvent, Table, TypeTable
  <2>3. Waiting(f)
    BY <2>1 DEF Placed, Running, Queued, Dropped, Free
  <2>4. HoldsOne(f, fd, e)
    BY <2>1, <2>3 DEF Waiting, HoldsOne
  <2>5. Dropped(f)'
    <3>1. Free(f)'
      BY <2>2, <2>4 DEF Free, HoldsOne
    <3> QED
      BY <1>2, <2>1, <2>3, <3>1 DEF DelEvent, Waiting, Dropped
  <2>6. ASSUME NEW g \in Fibers, g # f PROVE Placed(g)'
    <3>1. \A d \in Fds, x \in Events : ctx'[d][x] = g <=> ctx[d][x] = g
      BY <2>1, <2>2, <2>6
    <3>2. UNCHANGED <<st, queue>> /\ (g \in dropped' <=> g \in dropped)
      BY <1>2, <2>1, <2>6 DEF DelEvent
    <3>3. (Free(g)' <=> Free(g)) /\ (Waiting(g)' <=> Waiting(g))
      BY <3>1, <3>2 DEF Free, HoldsOne, Waiting
    <3> QED
      BY <3>2, <3>3 DEF Placed, Running, Queued, Dropped
  <2> QED
    BY <1>2, <2>1, <2>5, <2>6 DEF DelEvent, Placed
<1>3. ASSUME NEW fd \in Fds, NEW es \in SUBSET Events, TriggerStep(fd, es)
      PROVE  Whereabouts'
  <2>1. \A f \in Fibers : queue'[f] \in Nat /\ Placed(f)'
    BY <1>3, TriggerPlaces DEF Placed
  <2>2. queue' \in [Fibers -> Nat]
    BY <1>3, <2>1 DEF TriggerStep, Trigger
  <2> QED
    BY <1>3, <2>1, <2>2 DEF TriggerStep
<1>4. ASSUME NEW f \in Fibers, Yield(f) \/ Resume(f) PROVE Whereabouts'
  <2>1. \A g \in Fibers : (Free(g)' <=> Free(g))
          /\ \A fd \in Fds, e \in Events : HoldsOne(g, fd, e)' <=> HoldsOne(g, fd, e)
    BY <1>4 DEF Yield, Resume, Free, HoldsOne
  <2> QED
    BY <1>4, <2>1 DEF Yield, Resume, Placed, Running, Waiting, Queued, Dropped
<1>5. CASE Unregistered
  BY <1>5 DEF Unregistered, fiberVars, Placed, Running, Waiting, Queued,
              Dropped, Free, HoldsOne
<1> QED
  BY <1>1, <1>2, <1>3, <1>4, <1>5 DEF StepKinds

LEMMA WhereaboutsAlways == Spec => []Whereabouts
<1>1. Init => Whereabouts
  BY FibersAssumption DEF Init, Whereabouts, TypeFibers, Placed, Running, Free
<1>2. Table /\ Whereabouts /\ [Next]_vars => Whereabouts'
  BY Kinds, WhereaboutsNext DEF Table
<1> QED
  BY <1>1, <1>2, TableAlways, PTL DEF Spec

(***************************************************************************)
(* No wake-up is lost or doubled, for any number of idle threads.          *)
(***************************************************************************)
THEOREM OneWakeUpCorrect == Spec => []OneWakeUpPerRegistration
<1>1. Whereabouts => OneWakeUpPerRegistration
  <2> SUFFICES ASSUME Whereabouts, NEW f \in Fibers
      PROVE  Cardinality(Slots(f)) + queue[f]
               + (IF f \in dropped THEN 1 ELSE 0)
               = IF st[f] = "run" THEN 0 ELSE 1
    BY DEF OneWakeUpPerRegistration
  <2>1. Free(f) => Cardinality(Slots(f)) = 0
    <3>1. Free(f) => Slots(f) = {}
      BY DEF Free, Slots
    <3> QED
      BY <3>1, FS_EmptySet
  <2>2. Waiting(f) => Cardinality(Slots(f)) = 1
    <3>1. \A fd \in Fds, e \in Events :
            HoldsOne(f, fd, e) => Slots(f) = {<<fd, e>>}
      BY DEF HoldsOne, Slots
    <3> QED
      BY <3>1, FS_Singleton DEF Waiting
  <2> QED
    BY <2>1, <2>2 DEF Whereabouts, TypeFibers, Placed, Running, Waiting,
                      Queued, Dropped
<1> QED
  BY <1>1, WhereaboutsAlways, PTL

(***************************************************************************)
(* The kernel's side: what epoll watches is what the table says, and an    *)
(* edge stays on the ready list or in a batch until it is handled.         *)
(***************************************************************************)
Edges == TypeKernel /\ aborted \in BOOLEAN /\ EpollMirrorsEvents /\ NoLostEdge

(* epoll_ctl reports again whatever is ready among the events that stay. *)
LEMMA CtlKeepsEdges ==
  ASSUME TypeTable, TypeKernel, Alive, EpollMirrorsEvents, NoLostEdge,
         NEW fd \in Fds, NEW mask \in SUBSET Events, EpollCtl(fd, mask),
         events' = [events EXCEPT ![fd] = mask], UNCHANGED <<level, aborted>>,
         \A i \in Idlers, d \in Fds : d # fd => got'[i][d] = got[i][d]
  PROVE  /\ EpollMirrorsEvents' /\ NoLostEdge'
         /\ interest' \in [Fds -> SUBSET Events] /\ inReady' \subseteq Fds
<1> USE DEF TypeTable, TypeKernel, EpollCtl
<1>1. EpollMirrorsEvents'
  BY DEF EpollMirrorsEvents, Alive
<1>2. NoLostEdge'
  <2> SUFFICES ASSUME NEW d \in Fds, NEW e \in Events, Ready(d, e)'
               PROVE  \/ d \in inReady'
                      \/ \E i \in Idlers : got'[i][d] \cap {e, "HUP"} # {}
    BY DEF NoLostEdge
  <2>1. CASE d = fd
    <3>1. e \in mask /\ level[fd] \cap {e, "HUP"} # {}
      BY <2>1 DEF Ready
    <3>2. Reported(fd, mask) # {}
      BY <3>1 DEF Reported
    <3> QED
      BY <2>1, <3>1, <3>2
  <2>2. CASE d # fd
    <3>1. Ready(d, e)
      BY <2>2 DEF Ready
    <3>2. d \in inReady \/ \E i \in Idlers : got[i][d] \cap {e, "HUP"} # {}
      BY <3>1 DEF NoLostEdge
    <3>3. d \in inReady => d \in inReady'
      BY <2>2
    <3> QED
      BY <2>2, <3>2, <3>3
  <2> QED
    BY <2>1, <2>2
<1>3. interest' \in [Fds -> SUBSET Events] /\ inReady' \subseteq Fds
  OBVIOUS
<1> QED
  BY <1>1, <1>2, <1>3

(* Deleting and cancelling: the mask that is left goes to epoll. *)
LEMMA HandleEdges ==
  ASSUME TypeTable, Edges, NEW i \in Idlers, NEW fd \in Fds, Handle(i, fd)
  PROVE  EpollMirrorsEvents' /\ NoLostEdge' /\ TypeKernel'
<1> DEFINE real == RealEvents(fd, got[i][fd])
<1>0. real \in SUBSET Events
  BY DEF RealEvents
<1>1. /\ Alive /\ UNCHANGED level
      /\ got' = [got EXCEPT ![i] = [got[i] EXCEPT ![fd] = {}]]
  BY DEF Handle
<1>2. got' \in [Idlers -> [Fds -> Masks]]
  BY <1>1 DEF Edges, TypeKernel, Masks
<1>3. \A j \in Idlers, d \in Fds : d # fd => got'[j][d] = got[j][d]
  BY <1>1 DEF Edges, TypeKernel
<1>4. CASE events[fd] \cap real = {}
  <2>1. UNCHANGED <<events, interest, inReady, aborted>>
    BY <1>4 DEF Handle
  <2>2. EpollMirrorsEvents'
    BY <2>1 DEF Edges, EpollMirrorsEvents, Alive
  <2>3. ASSUME NEW d \in Fds, NEW e \in Events, Ready(d, e),
               NEW j \in Idlers, got[j][d] \cap {e, "HUP"} # {}
        PROVE  got'[j][d] = got[j][d]
    <3>1. CASE d = fd /\ j = i
      <4>1. e \in events[fd] /\ e \in real
        BY <2>3, <3>1 DEF Ready, RealEvents
      <4> QED
        BY <1>4, <4>1
    <3>2. CASE ~(d = fd /\ j = i)
      BY <1>1, <3>2 DEF Edges, TypeKernel
    <3> QED
      BY <3>1, <3>2
  <2>4. NoLostEdge'
    BY <1>1, <2>1, <2>3 DEF Edges, NoLostEdge, Ready, Alive
  <2> QED
    BY <1>1, <1>2, <2>1, <2>2, <2>4 DEF Edges, TypeKernel
<1>5. CASE events[fd] \cap real # {} /\ real \subseteq events[fd]
  <2>1. /\ events' = [events EXCEPT ![fd] = events[fd] \ real]
        /\ EpollCtl(fd, events[fd] \ real) /\ UNCHANGED aborted
    BY <1>5 DEF Handle, Trigger, LeftEvents
  <2>2. events[fd] \ real \in SUBSET Events
    BY DEF TypeTable
  <2>3. /\ EpollMirrorsEvents' /\ NoLostEdge'
        /\ interest' \in [Fds -> SUBSET Events] /\ inReady' \subseteq Fds
    BY <1>1, <1>3, <2>1, <2>2, CtlKeepsEdges DEF Edges
  <2> QED
    BY <1>1, <1>2, <2>3 DEF Edges, TypeKernel
<1>6. CASE events[fd] \cap real # {} /\ ~(real \subseteq events[fd])
  <2>1. aborted' = TRUE /\ EpollCtl(fd, events[fd] \ real)
    BY <1>6 DEF Handle, LeftEvents
  <2>2. EpollMirrorsEvents' /\ NoLostEdge'
    BY <2>1 DEF EpollMirrorsEvents, NoLostEdge, Alive
  <2> QED
    BY <1>1, <1>2, <2>1, <2>2 DEF Edges, TypeKernel, TypeTable, EpollCtl
<1> QED
  BY <1>4, <1>5, <1>6

LEMMA AbortedType == aborted \in BOOLEAN /\ [Next]_vars => aborted' \in BOOLEAN
BY DEF Next, vars, AddEvent, Yield, Resume, DelEvent, CancelEvent, CancelAll,
       Arrive, Consume, EpollWait, Handle

LEMMA EdgesNext == Table /\ Edges /\ [Next]_vars => Edges'
<1> SUFFICES ASSUME Table, Edges, [Next]_vars
             PROVE  EpollMirrorsEvents' /\ NoLostEdge' /\ TypeKernel'
  BY AbortedType DEF Edges
<1> USE DEF Table, Edges
<1> DEFINE Goal == EpollMirrorsEvents' /\ NoLostEdge' /\ TypeKernel'
<1>1. ASSUME NEW fd \in Fds, NEW mask \in SUBSET Events, Alive,
             EpollCtl(fd, mask), events' = [events EXCEPT ![fd] = mask],
             UNCHANGED <<level, got, aborted>>
      PROVE  Goal
  <2>1. /\ EpollMirrorsEvents' /\ NoLostEdge'
        /\ interest' \in [Fds -> SUBSET Events] /\ inReady' \subseteq Fds
    BY <1>1, CtlKeepsEdges
  <2> QED
    BY <1>1, <2>1 DEF TypeKernel
<1>2. ASSUME NEW f \in Fibers, NEW fd \in Fds, NEW e \in Events,
             AddEvent(f, fd, e)
      PROVE  Goal
  <2>1. events[fd] \cup {e} \in SUBSET Events
    BY DEF TypeTable
  <2> QED
    BY <1>1, <1>2, <2>1 DEF AddEvent
<1>3. ASSUME NEW fd \in Fds, NEW e \in Events,
             DelEvent(fd, e) \/ CancelEvent(fd, e)
      PROVE  Goal
  <2>1. events[fd] \ {e} \in SUBSET Events
    BY DEF TypeTable
  <2> QED
    BY <1>1, <1>3, <2>1 DEF DelEvent, CancelEvent, Trigger
<1>4. ASSUME NEW fd \in Fds, CancelAll(fd) PROVE Goal
  <2>1. events' = [events EXCEPT ![fd] = {}]
    BY <1>4 DEF CancelAll, Trigger, TypeTable
  <2> QED
    BY <1>1, <1>4, <2>1 DEF CancelAll
<1>5. ASSUME NEW i \in Idlers, NEW fd \in Fds, Handle(i, fd) PROVE Goal
  BY <1>5, HandleEdges
<1>6. ASSUME NEW i \in Idlers, EpollWait(i) PROVE Goal
  <2>1. /\ Alive /\ got[i] = Empty /\ inReady' = {}
        /\ UNCHANGED <<events, interest, level, aborted>>
    BY <1>6 DEF EpollWait
  <2>2. \A j \in Idlers, fd \in Fds :
          got'[j][fd] = IF j # i THEN got[j][fd]
                        ELSE IF fd \in inReady
                        THEN Reported(fd, interest[fd]) ELSE {}
    BY <1>6 DEF EpollWait, TypeKernel
  <2>3. got' \in [Idlers -> [Fds -> Masks]]
    <3>1. \A fd \in Fds : Reported(fd, interest[fd]) \in Masks
      BY DEF Reported, TypeKernel, Masks
    <3> QED
      BY <1>6, <3>1 DEF EpollWait, TypeKernel, Masks
  <2>4. ASSUME NEW fd \in Fds, NEW e \in Events, Ready(fd, e)
        PROVE  \E j \in Idlers : got'[j][fd] \cap {e, "HUP"} # {}
    <3>1. interest[fd] = events[fd]
      BY <2>1 DEF EpollMirrorsEvents
    <3>2. fd \in inReady => got'[i][fd] \cap {e, "HUP"} # {}
      BY <2>2, <2>4, <3>1 DEF Reported, Ready
    <3>3. ASSUME NEW j \in Idlers, got[j][fd] \cap {e, "HUP"} # {}
          PROVE  got'[j][fd] \cap {e, "HUP"} # {}
      BY <2>1, <2>2, <3>3 DEF Empty
    <3> QED
      BY <2>1, <2>4, <3>2, <3>3 DEF NoLostEdge
  <2>5. NoLostEdge'
    BY <2>1, <2>4 DEF NoLostEdge, Ready
  <2>6. EpollMirrorsEvents'
    BY <2>1 DEF EpollMirrorsEvents, Alive
  <2> QED
    BY <2>1, <2>3, <2>5, <2>6 DEF TypeKernel
<1>7. ASSUME NEW fd \in Fds, NEW x \in Events \cup {"HUP"}, Arrive(fd, x)
      PROVE  Goal
  <2>1. /\ Alive /\ level' = [level EXCEPT ![fd] = @ \cup {x}]
        /\ UNCHANGED <<events, interest, got, aborted>>
        /\ inReady \subseteq inReady' /\ inReady' \subseteq inReady \cup {fd}
        /\ interest[fd] # {} /\ x \in interest[fd] \cup {"HUP"}
             => fd \in inReady'
    BY <1>7 DEF Arrive
  <2>2. interest = events
    BY <2>1 DEF EpollMirrorsEvents
  <2>3. ASSUME NEW d \in Fds, NEW e \in Events, Ready(d, e)'
        PROVE  Ready(d, e) \/ d \in inReady'
    BY <2>1, <2>2, <2>3 DEF Ready, TypeKernel
  <2>4. NoLostEdge'
    BY <2>1, <2>3 DEF NoLostEdge
  <2> QED
    BY <2>1, <2>4 DEF TypeKernel, Masks, EpollMirrorsEvents, Alive
<1>8. ASSUME NEW fd \in Fds, NEW x \in Events, Consume(fd, x) PROVE Goal
  <2>1. /\ level' = [level EXCEPT ![fd] = @ \ {x}]
        /\ UNCHANGED <<events, interest, inReady, got, aborted>>
    BY <1>8 DEF Consume
  <2>2. \A d \in Fds, e \in Events : Ready(d, e)' => Ready(d, e)
    BY <2>1 DEF Ready, TypeKernel
  <2>3. NoLostEdge'
    BY <2>1, <2>2 DEF NoLostEdge, Alive
  <2> QED
    BY <2>1, <2>3 DEF TypeKernel, Masks, EpollMirrorsEvents, Alive
<1>9. CASE UNCHANGED <<events, kernelVars, got, aborted>>
  BY <1>9 DEF kernelVars, TypeKernel, EpollMirrorsEvents, NoLostEdge, Alive,
              Ready
<1> QED
  BY <1>2, <1>3, <1>4, <1>5, <1>6, <1>7, <1>8, <1>9
     DEF Next, vars, Yield, Resume

LEMMA EdgesAlways == Spec => []Edges
<1>1. Init => TypeKernel
  BY DEF Init, TypeKernel, Masks, Empty, Events
<1>2. Init => EpollMirrorsEvents /\ NoLostEdge
  BY DEF Init, Empty, EpollMirrorsEvents, NoLostEdge, Ready
<1>3. Init => aborted \in BOOLEAN
  BY DEF Init
<1>4. Init => Edges
  BY <1>1, <1>2, <1>3 DEF Edges
<1> QED
  BY <1>4, EdgesNext, TableAlways, PTL DEF Spec

(***************************************************************************)
(* The edge-triggered loop loses no edge.                                  *)
(***************************************************************************)
THEOREM NoLostEdgeCorrect == Spec => []NoLostEdge
<1>1. Edges => NoLostEdge
  BY DEF Edges
<1> QED
  BY <1>1, EdgesAlways, PTL

(***************************************************************************)
(* The variables keep their types, and the events, the contexts and the    *)
(* interest list of epoll agree.                                           *)
(***************************************************************************)
THEOREM TableConsistentCorrect == Spec => []TableConsistent
<1>1. Table /\ PendingExact /\ Whereabouts /\ Edges => TableConsistent
  BY RegisteredFinite
     DEF TableConsistent, TypeOK, Table, PendingExact, Whereabouts, Edges
<1> QED
  BY <1>1, TableAlways, WhereaboutsAlways, EdgesAlways, PTL

(***************************************************************************)
(* Refinement.  A step registers a fiber, notifies the fibers it triggers, *)
(* deletes one registration, lets one fiber proceed, or changes no phase.  *)
(***************************************************************************)
LEMMA PhaseOf ==
  ASSUME Whereabouts, NEW f \in Fibers
  PROVE  /\ Running(f) => Phase(f) = "idle"
         /\ Waiting(f) => Phase(f) = "registered"
         /\ Queued(f) => Phase(f) = "notified"
         /\ Dropped(f) => Phase(f) = "dropped"
<1>1. Free(f) => Slots(f) = {}
  BY DEF Free, Slots
<1>2. Waiting(f) => Slots(f) # {}
  <2>1. \A fd \in Fds, e \in Events :
          HoldsOne(f, fd, e) => <<fd, e>> \in Slots(f)
    BY DEF HoldsOne, Slots
  <2> QED
    BY <2>1 DEF Waiting
<1> QED
  BY <1>1, <1>2 DEF Phase, Running, Queued, Dropped

phases == [f \in Fibers |-> Phase(f)]

(* A step that moves one fiber, or none. *)
LEMMA PhaseKept ==
  ASSUME NEW f \in Fibers, queue'[f] = queue[f],
         f \in dropped' <=> f \in dropped,
         \A fd \in Fds, e \in Events : ctx'[fd][e] = f <=> ctx[fd][e] = f
  PROVE  Phase(f)' = Phase(f)
<1>1. Slots(f)' = Slots(f)
  BY DEF Slots
<1> QED
  BY <1>1 DEF Phase

LEMMA PhaseStep ==
  ASSUME Table, Whereabouts, StepKinds, Whereabouts'
  PROVE  [Promise!Next]_phases
<1> USE FibersAssumption DEF phases
<1>1. ASSUME NEW f \in Fibers, NEW fd \in Fds, NEW e \in Events,
             AddEvent(f, fd, e)
      PROVE  [Promise!Next]_phases
  <2>1. ctx[fd][e] = None /\ st[f] = "run" /\ st'[f] = "armed"
    BY <1>1 DEF AddEvent, Table, TypeTable, ContextsMatchEvents, Whereabouts,
                TypeFibers
  <2>2. \A d \in Fds, x \in Events :
          ctx'[d][x] = IF d = fd /\ x = e THEN f ELSE ctx[d][x]
    BY <1>1 DEF AddEvent, Table, TypeTable
  <2>3. Phase(f) = "idle"
    BY <2>1, PhaseOf DEF Whereabouts, Placed, Waiting, Queued, Dropped
  <2>4. Phase(f)' = "registered"
    <3>1. <<fd, e>> \in Slots(f)'
      BY <2>2 DEF Slots
    <3> QED
      BY <3>1 DEF Phase
  <2>5. \A g \in Fibers : g # f => Phase(g)' = Phase(g)
    BY <1>1, <2>1, <2>2, PhaseKept DEF AddEvent
  <2>6. Promise!Register(f)
    BY <2>3, <2>4, <2>5 DEF Promise!Register
  <2> QED
    BY <2>6 DEF Promise!Next
<1>2. ASSUME NEW fd \in Fds, NEW e \in Events, DelEvent(fd, e)
      PROVE  [Promise!Next]_phases
  <2>1. PICK f \in Fibers : f = ctx[fd][e]
    BY <1>2 DEF DelEvent, Table, TypeTable, ContextsMatchEvents
  <2>2. \A d \in Fds, x \in Events :
          ctx'[d][x] = IF d = fd /\ x = e THEN None ELSE ctx[d][x]
    BY <1>2 DEF DelEvent, Table, TypeTable
  <2>3. Waiting(f) /\ Phase(f) = "registered"
    BY <2>1, PhaseOf DEF Whereabouts, Placed, Running, Queued, Dropped, Free
  <2>4. f \in dropped' /\ Phase(f)' = "dropped"
    <3>1. f \in dropped'
      BY <1>2, <2>1 DEF DelEvent
    <3>2. Placed(f)' => Dropped(f)'
      BY <3>1 DEF Placed, Running, Waiting, Queued
    <3>3. Dropped(f)' => Phase(f)' = "dropped"
      BY DEF Dropped, Free, Phase, Slots
    <3> QED
      BY <3>1, <3>2, <3>3 DEF Whereabouts
  <2>5. \A g \in Fibers : g # f => Phase(g)' = Phase(g)
    BY <1>2, <2>1, <2>2, PhaseKept DEF DelEvent
  <2>6. Promise!Delete(f)
    BY <2>3, <2>4, <2>5 DEF Promise!Delete
  <2> QED
    BY <2>6 DEF Promise!Next
<1>3. ASSUME NEW fd \in Fds, NEW es \in SUBSET Events, TriggerStep(fd, es)
      PROVE  [Promise!Next]_phases
  <2> DEFINE S == {f \in Fibers : \E e \in es : ctx[fd][e] = f}
  <2>1. ASSUME NEW f \in S
        PROVE  Phase(f) = "registered" /\ Phase(f)' = "notified"
    <3>1. Waiting(f) /\ Queued(f)'
      BY <1>3, <2>1, TriggerPlaces
    <3>2. Queued(f)' => Phase(f)' = "notified"
      BY DEF Queued, Free, Phase, Slots
    <3> QED
      BY <3>1, <3>2, PhaseOf
  <2>2. ASSUME NEW f \in Fibers \ S PROVE Phase(f)' = Phase(f)
    <3>1. /\ UNCHANGED <<queue[f], dropped>>
          /\ \A e \in es : ctx[fd][e] # f
      BY <1>3, <2>2, TriggerPlaces DEF HoldsOne
    <3>2. \A d \in Fds, x \in Events : ctx'[d][x] = f <=> ctx[d][x] = f
      BY <1>3, <3>1 DEF TriggerStep, Trigger, Table, TypeTable
    <3> QED
      BY <3>1, <3>2, PhaseKept
  <2>3. S \in SUBSET {f \in Fibers : phases[f] = "registered"}
    BY <2>1
  <2>4. phases' = [f \in Fibers |-> IF f \in S THEN "notified" ELSE phases[f]]
    BY <2>1, <2>2
  <2>5. Promise!Notify
    BY <2>3, <2>4 DEF Promise!Notify
  <2> QED
    BY <2>5 DEF Promise!Next
<1>4. ASSUME NEW f \in Fibers, Yield(f) PROVE [Promise!Next]_phases
  <2>1. \A g \in Fibers : Phase(g)' = Phase(g)
    BY <1>4, PhaseKept DEF Yield
  <2> QED
    BY <2>1
<1>5. ASSUME NEW f \in Fibers, Resume(f) PROVE [Promise!Next]_phases
  <2>1. Queued(f) /\ Phase(f) = "notified"
    BY <1>5, PhaseOf DEF Resume, Whereabouts, Placed, Running, Waiting, Dropped
  <2>2. st'[f] = "run"
    BY <1>5 DEF Resume, Whereabouts, TypeFibers
  <2>3. Placed(f)' => Running(f)'
    BY <2>2 DEF Placed, Waiting, Queued, Dropped
  <2>4. Running(f)' => Phase(f)' = "idle"
    BY DEF Running, Free, Phase, Slots
  <2>5. \A g \in Fibers : g # f => Phase(g)' = Phase(g)
    BY <1>5, PhaseKept DEF Resume, Whereabouts, TypeFibers
  <2>6. Promise!Proceed(f)
    BY <2>1, <2>3, <2>4, <2>5 DEF Promise!Proceed, Whereabouts
  <2> QED
    BY <2>6 DEF Promise!Next
<1>6. CASE Unregistered
  <2>1. \A g \in Fibers : Phase(g)' = Phase(g)
    BY <1>6, PhaseKept DEF Unregistered, fiberVars
  <2> QED
    BY <2>1
<1> QED
  BY <1>1, <1>2, <1>3, <1>4, <1>5, <1>6 DEF StepKinds

(***************************************************************************)
(* The operations of IOManager on descriptors implement the promise: a     *)
(* fiber that registers is notified once or deleted, whichever threads     *)
(* delete, cancel and handle stale batches at the same time.               *)
(***************************************************************************)
THEOREM OneShotImplemented == Spec => ImplementsOneShot
<1>1. Init => Promise!Init
  <2> SUFFICES ASSUME Init, NEW f \in Fibers PROVE Phase(f) = "idle"
    BY DEF Promise!Init
  <2>1. Slots(f) = {}
    BY FibersAssumption DEF Init, Slots
  <2> QED
    BY <2>1 DEF Init, Phase
<1>2. Table /\ Whereabouts /\ Whereabouts' /\ [Next]_vars
        => [Promise!Next]_phases
  BY Kinds, PhaseStep DEF Table
<1> QED
  BY <1>1, <1>2, TableAlways, WhereaboutsAlways, PTL
     DEF Spec, ImplementsOneShot, Promise!Spec, phases
=============================================================================
