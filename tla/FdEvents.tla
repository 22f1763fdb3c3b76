------------------------------ MODULE FdEvents ------------------------------
(***************************************************************************)
(* The descriptor events of IOManager: addEvent, delEvent, cancelEvent,    *)
(* cancelAll, triggerEvent and the event loop of idle() (src/src/          *)
(* iomanager.cc), over an edge-triggered epoll instance.                   *)
(*                                                                         *)
(* Every operation on one descriptor runs under its fd_ctx->mutex and is   *)
(* one action.  What is not atomic is idle(): epoll_wait takes a batch of  *)
(* events out of the kernel, and each is handled later, under a lock of    *)
(* its own, when other threads may have changed the registrations.         *)
(*                                                                         *)
(* The scheduler is represented by what triggerEvent gives it: the number  *)
(* of queue entries of each fiber.  The kernel's part (interest, level,    *)
(* inReady) is external.                                                   *)
(***************************************************************************)
EXTENDS Integers, FiniteSets

CONSTANTS
  Fds,       \* file descriptors
  Fibers,    \* fibers that wait for events
  Idlers,    \* threads that run idle()
  None       \* an empty EventContext

Events == {"READ", "WRITE"}

ASSUME FibersAssumption == None \notin Fibers
ASSUME FiniteAssumption == IsFiniteSet(Fds)

VARIABLES
  events,     \* fd_ctx->events, a set of Events
  ctx,        \* the fiber of each EventContext, or None
  m_pendingEventCount,
  interest,   \* kernel: the events epoll watches for the fd, {} if absent
  level,      \* kernel: the conditions that hold, READ, WRITE or HUP
  inReady,    \* kernel: fds on epoll's ready list
  got,        \* each idler: the masks of its batch not handled yet
  st,         \* each fiber: "run", "armed" (registered, running), "wait"
  queue,      \* each fiber: its entries in the scheduler's queue
  dropped,    \* fibers whose registration was deleted by delEvent
  aborted     \* LT_ASSERT failed in triggerEvent: the process is gone

kernelVars == <<interest, level, inReady>>
fiberVars  == <<st, queue, dropped>>
vars == <<events, ctx, m_pendingEventCount, kernelVars, got, fiberVars,
          aborted>>

Empty == [fd \in Fds |-> {}]
Alive == ~aborted

Init ==
  /\ events = Empty
  /\ ctx = [fd \in Fds |-> [e \in Events |-> None]]
  /\ m_pendingEventCount = 0
  /\ interest = Empty
  /\ level \in [Fds -> {{}, {"WRITE"}}]
  /\ inReady = {}
  /\ got = [i \in Idlers |-> Empty]
  /\ st = [f \in Fibers |-> "run"]
  /\ queue = [f \in Fibers |-> 0]
  /\ dropped = {}
  /\ aborted = FALSE

----------------------------------------------------------------------------
(***************************************************************************)
(* epoll_ctl(ADD or MOD) with EPOLLET: the mask is replaced, and the fd is *)
(* put on the ready list if a condition it watches, or a hang-up, holds.   *)
(* An empty mask stands for DEL.                                           *)
(***************************************************************************)
Reported(fd, mask) == IF mask = {} THEN {} ELSE level[fd] \cap (mask \cup {"HUP"})

EpollCtl(fd, mask) ==
  /\ interest' = [interest EXCEPT ![fd] = mask]
  /\ inReady' = IF mask = {} THEN inReady \ {fd}
                ELSE IF Reported(fd, mask) # {} THEN inReady \cup {fd}
                ELSE inReady

(***************************************************************************)
(* addEvent: fiber f registers itself for e.  The same event is never      *)
(* added twice: the code asserts it, the caller has to see to it.          *)
(***************************************************************************)
CountNothing == m_pendingEventCount
CountOneMore == m_pendingEventCount + 1

AddEvent(f, fd, e) ==
  /\ Alive /\ st[f] = "run" /\ e \notin events[fd]
  /\ EpollCtl(fd, events[fd] \cup {e})
  /\ m_pendingEventCount' = CountOneMore
  /\ events' = [events EXCEPT ![fd] = @ \cup {e}]
  /\ ctx' = [ctx EXCEPT ![fd][e] = f]
  /\ st' = [st EXCEPT ![f] = "armed"]
  /\ UNCHANGED <<level, got, queue, dropped, aborted>>

(* The fiber yields, after it has registered. *)
Yield(f) ==
  /\ Alive /\ st[f] = "armed"
  /\ st' = [st EXCEPT ![f] = "wait"]
  /\ UNCHANGED <<events, ctx, m_pendingEventCount, kernelVars, got, queue,
                 dropped, aborted>>

(* The scheduler resumes a fiber of its queue (external: Scheduler). *)
Resume(f) ==
  /\ Alive /\ st[f] = "wait" /\ queue[f] > 0
  /\ queue' = [queue EXCEPT ![f] = @ - 1]
  /\ st' = [st EXCEPT ![f] = "run"]
  /\ UNCHANGED <<events, ctx, m_pendingEventCount, kernelVars, got, dropped,
                 aborted>>

(***************************************************************************)
(* triggerEvent for the events es of fd: the flags are cleared, the fibers *)
(* scheduled, the contexts reset.                                          *)
(***************************************************************************)
TriggerKeepsContext(fd, es) ==
  /\ events' = [events EXCEPT ![fd] = @ \ es]
  /\ queue' = [f \in Fibers |->
                 queue[f] + Cardinality({e \in es : ctx[fd][e] = f})]
  /\ UNCHANGED ctx
Trigger(fd, es) ==
  /\ events' = [events EXCEPT ![fd] = @ \ es]
  /\ queue' = [f \in Fibers |->
                 queue[f] + Cardinality({e \in es : ctx[fd][e] = f})]
  /\ ctx' = [ctx EXCEPT ![fd] = [e \in Events |-> IF e \in es THEN None ELSE @[e]]]

(* delEvent: the registration goes, and nothing is scheduled. *)
DelEvent(fd, e) ==
  /\ Alive /\ e \in events[fd]
  /\ EpollCtl(fd, events[fd] \ {e})
  /\ m_pendingEventCount' = m_pendingEventCount - 1
  /\ events' = [events EXCEPT ![fd] = @ \ {e}]
  /\ dropped' = dropped \cup {ctx[fd][e]}
  /\ ctx' = [ctx EXCEPT ![fd][e] = None]
  /\ UNCHANGED <<level, got, st, queue, aborted>>

(* cancelEvent: as delEvent, but the event is triggered first. *)
CancelEvent(fd, e) ==
  /\ Alive /\ e \in events[fd]
  /\ EpollCtl(fd, events[fd] \ {e})
  /\ Trigger(fd, {e})
  /\ m_pendingEventCount' = m_pendingEventCount - 1
  /\ UNCHANGED <<level, got, st, dropped, aborted>>

(* cancelAll: one decrement for each event that was registered. *)
CancelAll(fd) ==
  /\ Alive /\ events[fd] # {}
  /\ EpollCtl(fd, {})
  /\ Trigger(fd, events[fd])
  /\ m_pendingEventCount' = m_pendingEventCount - Cardinality(events[fd])
  /\ UNCHANGED <<level, got, st, dropped, aborted>>

----------------------------------------------------------------------------
(* A condition arises on fd (external): an edge, if it is watched. *)
Arrive(fd, x) ==
  /\ Alive /\ level' = [level EXCEPT ![fd] = @ \cup {x}]
  /\ inReady' = IF interest[fd] # {} /\ x \in interest[fd] \cup {"HUP"}
                  THEN inReady \cup {fd} ELSE inReady
  /\ UNCHANGED <<events, ctx, m_pendingEventCount, interest, got, fiberVars,
                 aborted>>

(* A running fiber reads or writes until EAGAIN (external). *)
Consume(fd, x) ==
  /\ Alive /\ x \in level[fd] \cap Events
  /\ \E f \in Fibers : st[f] = "run"
  /\ level' = [level EXCEPT ![fd] = @ \ {x}]
  /\ UNCHANGED <<events, ctx, m_pendingEventCount, interest, inReady, got,
                 fiberVars, aborted>>

(* epoll_wait: the ready list is emptied into the idler's array. *)
EpollWait(i) ==
  /\ Alive /\ got[i] = Empty /\ inReady # {}
  /\ got' = [got EXCEPT ![i] =
               [fd \in Fds |-> IF fd \in inReady THEN Reported(fd, interest[fd])
                                                 ELSE {}]]
  /\ inReady' = {}
  /\ UNCHANGED <<events, ctx, m_pendingEventCount, interest, level, fiberVars,
                 aborted>>

(* A hang-up or error counts as every event that is registered. *)
WithoutHangup(fd, mask) == mask \cap Events
RealEvents(fd, mask) ==
  (IF "HUP" \in mask THEN mask \cup events[fd] ELSE mask) \cap Events

KeepNothing(fd, real) == {}
LeftEvents(fd, real) == events[fd] \ real

(***************************************************************************)
(* idle() handles one event of its batch, whose mask may be stale. Its     *)
(* epoll_ctl (rt2) fails only on a descriptor that epoll does not know:    *)
(* here each one that has events registered stays open; Deliver in         *)
(* Hook.tla, where descriptors are closed, has the failure.                *)
(***************************************************************************)
Handle(i, fd) ==
  LET real == RealEvents(fd, got[i][fd])
  IN /\ Alive /\ got[i][fd] # {}
     /\ got' = [got EXCEPT ![i][fd] = {}]
     /\ \/ /\ events[fd] \cap real = {}                  \* continue
           /\ UNCHANGED <<events, ctx, m_pendingEventCount, interest, inReady,
                          queue, aborted>>
        \/ /\ events[fd] \cap real # {}
           /\ EpollCtl(fd, LeftEvents(fd, real))
           /\ IF real \subseteq events[fd]
                THEN /\ Trigger(fd, real)
                     /\ m_pendingEventCount' =
                          m_pendingEventCount - Cardinality(real)
                     /\ UNCHANGED aborted
                ELSE /\ aborted' = TRUE     \* LT_ASSERT(events & event)
                     /\ UNCHANGED <<events, ctx, m_pendingEventCount, queue>>
     /\ UNCHANGED <<level, st, dropped>>

Next ==
  \/ \E f \in Fibers, fd \in Fds, e \in Events : AddEvent(f, fd, e)
  \/ \E f \in Fibers : Yield(f) \/ Resume(f)
  \/ \E fd \in Fds, e \in Events : DelEvent(fd, e) \/ CancelEvent(fd, e)
  \/ \E fd \in Fds : CancelAll(fd)
  \/ \E fd \in Fds, x \in Events \cup {"HUP"} : Arrive(fd, x)
  \/ \E fd \in Fds, x \in Events : Consume(fd, x)
  \/ \E i \in Idlers : EpollWait(i)
  \/ \E i \in Idlers, fd \in Fds : Handle(i, fd)

Spec == Init /\ [][Next]_vars

(***************************************************************************)
(* Idle threads keep calling epoll_wait and work off their batches; fibers *)
(* that have registered yield, fibers in the queue are resumed.            *)
(***************************************************************************)
Fairness ==
  /\ \A i \in Idlers : WF_vars(EpollWait(i))
  /\ \A i \in Idlers, fd \in Fds : WF_vars(Handle(i, fd))
  /\ \A f \in Fibers : WF_vars(Yield(f) \/ Resume(f))

FairSpec == Spec /\ Fairness

----------------------------------------------------------------------------
Masks == SUBSET (Events \cup {"HUP"})

(* Every variable has its type. *)
TypeTable ==
  /\ events \in [Fds -> SUBSET Events]
  /\ ctx \in [Fds -> [Events -> Fibers \cup {None}]]
TypeKernel ==
  /\ interest \in [Fds -> SUBSET Events]
  /\ level \in [Fds -> Masks]
  /\ inReady \subseteq Fds
  /\ got \in [Idlers -> [Fds -> Masks]]
TypeFibers ==
  /\ st \in [Fibers -> {"run", "armed", "wait"}]
  /\ queue \in [Fibers -> Nat]
  /\ dropped \subseteq Fibers
TypeOK ==
  /\ TypeTable /\ TypeKernel /\ TypeFibers
  /\ m_pendingEventCount \in Nat
  /\ aborted \in BOOLEAN

(* The registrations: every (fd, event) some fiber waits for. *)
Registered == {r \in Fds \X Events : r[2] \in events[r[1]]}
Slots(f) == {r \in Fds \X Events : ctx[r[1]][r[2]] = f}

(***************************************************************************)
(* The count on which IOManager::stopping() relies is the number of        *)
(* registrations: no path of the four operations or of the loop counts an  *)
(* event twice or forgets one.                                             *)
(***************************************************************************)
PendingExact == m_pendingEventCount = Cardinality(Registered)

(* A context is in use exactly while its event is registered. *)
ContextsMatchEvents ==
  \A fd \in Fds, e \in Events : e \in events[fd] <=> ctx[fd][e] # None

(***************************************************************************)
(* No wake-up is lost or doubled: a fiber that registered is either still  *)
(* registered once, or has one entry in the queue, or was dropped by       *)
(* delEvent; a running one has none of the three.                          *)
(***************************************************************************)
OneWakeUpPerRegistration ==
  Alive => \A f \in Fibers :
    Cardinality(Slots(f)) + queue[f] + (IF f \in dropped THEN 1 ELSE 0)
      = IF st[f] = "run" THEN 0 ELSE 1

(***************************************************************************)
(* The kernel watches what the table says, so that the choice between      *)
(* EPOLL_CTL_ADD, MOD and DEL, made from events alone, is the right one.   *)
(***************************************************************************)
EpollMirrorsEvents == Alive => interest = events

(***************************************************************************)
(* The three records of a registration, which the code updates one after   *)
(* the other, agree: events, the contexts and epoll's interest list.       *)
(***************************************************************************)
TableConsistent == TypeOK /\ ContextsMatchEvents /\ EpollMirrorsEvents

(***************************************************************************)
(* No edge is lost: a registered event whose condition holds, or whose     *)
(* descriptor has hung up, is on the ready list or in some idler's batch.  *)
(***************************************************************************)
Ready(fd, e) == e \in events[fd] /\ level[fd] \cap {e, "HUP"} # {}

NoLostEdge ==
  Alive => \A fd \in Fds, e \in Events : Ready(fd, e) =>
    fd \in inReady \/ \E i \in Idlers : got[i][fd] \cap {e, "HUP"} # {}

(***************************************************************************)
(* "An event to be triggered must have been registered" (iomanager.cc:81). *)
(***************************************************************************)
TriggersOnlyRegistered == ~aborted

(***************************************************************************)
(* A registered event whose condition holds is delivered: the registration *)
(* ends, the condition passes, or the process has aborted.                 *)
(***************************************************************************)
ReadyEventDelivered ==
  \A fd \in Fds, e \in Events : Ready(fd, e) ~> ~Ready(fd, e) \/ aborted

(***************************************************************************)
(* What addEvent promises its fiber, as the abstract OneShot: it is woken  *)
(* once for each registration, or the registration is deleted.             *)
(***************************************************************************)
Phase(f) == IF Slots(f) # {} THEN "registered"
            ELSE IF queue[f] > 0 THEN "notified"
            ELSE IF f \in dropped THEN "dropped"
            ELSE "idle"

Promise == INSTANCE OneShot WITH phase <- [f \in Fibers |-> Phase(f)]
ImplementsOneShot == Promise!Spec
=============================================================================
