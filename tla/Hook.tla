-------------------------------- MODULE Hook --------------------------------
(***************************************************************************)
(* The hooked calls of src/src/hook.cc: do_io (read, write, accept and     *)
(* their relatives), connect, sleep and close, with the FdManager table    *)
(* they consult and the timers and events they arm.                        *)
(*                                                                         *)
(* A call that would block arms a condition timer, registers an event and  *)
(* yields; the event, the timer's callback or a close schedules the fiber  *)
(* again.  Between two yields a fiber keeps its thread: at most Threads    *)
(* fibers, callbacks and reports of epoll_wait are under way at once, and  *)
(* the timers are looked at by a thread that has nothing else to do.       *)
(*                                                                         *)
(* addEvent and the yield after it are one step: the fiber does nothing in *)
(* between, and if it is woken there it stays in the queue until it is     *)
(* READY (scheduler.cc:158; the race at fiber.cc:168 is in Scheduler).     *)
(*                                                                         *)
(* A descriptor is used by one reader and one writer, as addEvent demands  *)
(* (iomanager.cc:163).  The kernel's side of a socket is external.         *)
(***************************************************************************)
EXTENDS Integers, FiniteSets

CONSTANTS
  Fibers,
  Fds,        \* descriptor numbers
  None,
  Threads,    \* threads of the IOManager
  MaxCalls,   \* bound of the hooked calls of each fiber
  HeldReuse   \* TRUE: the kernel reuses a number a suspended call still holds

ASSUME HookAssumption ==
  /\ Threads \in Nat \ {0} /\ MaxCalls \in [Fibers -> Nat]
  /\ HeldReuse \in BOOLEAN
  /\ IsFiniteSet(Fibers) /\ None \notin Fibers \cup Fds

Events == {"READ", "WRITE"}

VARIABLES
  sock,       \* kernel: the state of each descriptor
  ready,      \* kernel: the events whose condition holds
  polled,     \* kernel: the numbers in the epoll set, until they are closed
  reports,    \* what epoll_wait has returned and idle() has yet to handle
  managed,    \* descriptors with an FdCtx in FdManager::m_datas
  slot,       \* m_fdContexts: the fiber registered for each event
  queued,     \* suspended fibers in the scheduler's queue
  pc,
  call,       \* the arguments of each fiber's current call
  stale,      \* fibers in a call on a socket that has been closed since
  seq,        \* which call that is: the identity of its timer_info
  cancelled,  \* timer_info::cancelled of the current call
  result,     \* what the last call returned
  timers,     \* timers and their callbacks that have not ended yet
  history     \* not in the code: see Lateness and Trigger

kernelVars == <<sock, ready>>
callVars == <<call, seq, stale>>
tableVars == <<managed, slot, polled, queued>>
vars == <<kernelVars, tableVars, reports, pc, callVars, cancelled, result,
          timers, history>>

NoCall == [op |-> "none", fd |-> None, event |-> None, timed |-> FALSE]

Init ==
  /\ sock = [n \in Fds |-> "closed"]
  /\ ready = [n \in Fds |-> {}]
  /\ managed = {} /\ polled = {} /\ reports = {}
  /\ slot = [n \in Fds |-> [e \in Events |-> None]]
  /\ queued = {}
  /\ pc = [f \in Fibers |-> "idle"]
  /\ call = [f \in Fibers |-> NoCall] /\ seq = [f \in Fibers |-> 0]
  /\ stale = {}
  /\ cancelled = [f \in Fibers |-> FALSE]
  /\ result = [f \in Fibers |-> "none"]
  /\ timers = {}
  /\ history = [f \in Fibers |-> {}]

----------------------------------------------------------------------------
Suspended == {"wait", "asleep"}

(* Fibers inside a call, callbacks between two steps, reports in hand. *)
Running == {f \in Fibers : pc[f] \notin Suspended \cup {"idle"}}
             \cup {c \in timers : c.phase = "cancel"} \cup reports
Free == Cardinality(Running) < Threads

(* The timer_info of a callback is still referenced: winfo.lock(). *)
AnyCallAlive(c) == pc[c.fiber] # "idle"
Alive(c) == pc[c.fiber] # "idle" /\ seq[c.fiber] = c.seq

Timer(f, n, e) == [fiber |-> f, seq |-> seq[f], fd |-> n, event |-> e,
                   phase |-> "armed"]

(* timer->cancel(): false once listExpiredCb has taken the timer. *)
Kept(f) == timers
Disarmed(f) == {c \in timers : ~(c.fiber = f /\ c.phase = "armed")}

(* The call returns, and its timer_info is destroyed. *)
Return(f, r) ==
  /\ pc' = [pc EXCEPT ![f] = "idle"]
  /\ result' = [result EXCEPT ![f] = r]
  /\ call' = [call EXCEPT ![f] = NoCall]
  /\ stale' = stale \ {f}
  /\ cancelled' = [cancelled EXCEPT ![f] = FALSE]
  /\ history' = [history EXCEPT ![f] = {}]
  /\ UNCHANGED seq
Continue(f, next) ==
  /\ pc' = [pc EXCEPT ![f] = next]
  /\ UNCHANGED <<result, callVars, cancelled, history>>

(* Some fiber is inside a call on this event of this very socket. *)
InUse(n, e) ==
  \E g \in Fibers \ stale : call[g].fd = n /\ call[g].event = e

Begin(f, op, n, e, timed, next) ==
  /\ Free /\ pc[f] = "idle" /\ seq[f] < MaxCalls[f]
  /\ seq' = [seq EXCEPT ![f] = @ + 1]
  /\ call' = [call EXCEPT ![f] = [op |-> op, fd |-> n, event |-> e,
                                  timed |-> timed]]
  /\ pc' = [pc EXCEPT ![f] = next]
  /\ result' = [result EXCEPT ![f] = "none"]
  /\ UNCHANGED <<stale, cancelled>>

----------------------------------------------------------------------------
(* socket(): the kernel's number gets a context in FdManager. *)
Socket(f, n) ==
  /\ Free /\ pc[f] = "idle" /\ sock[n] = "closed" /\ seq[f] < MaxCalls[f]
  /\ HeldReuse \/ \A g \in Fibers : call[g].fd # n
  /\ sock' = [sock EXCEPT ![n] = "new"]
  /\ managed' = managed \cup {n}
  /\ UNCHANGED <<ready, slot, polled, queued, reports, pc, callVars, cancelled,
                 result, timers, history>>

(* do_io, up to the retry label. *)
Io(f, n, e, timed) ==
  /\ n \in managed /\ ~InUse(n, e)
  /\ Begin(f, "io", n, e, timed, "try")
  /\ UNCHANGED <<kernelVars, tableVars, reports, timers, history>>

(* The original function would block: it returns EAGAIN. *)
WouldBlock(n, e) ==
  \/ sock[n] = "connecting"
  \/ sock[n] = "connected" /\ e \notin ready[n]

(* It succeeds, using up the readiness or not, or fails for good. *)
TryReturns(f) ==
  LET n == call[f].fd  e == call[f].event
  IN /\ pc[f] = "try" /\ ~WouldBlock(n, e)
     /\ IF sock[n] = "connected"
          THEN /\ Return(f, "ok")
               /\ ready' \in {ready, [ready EXCEPT ![n] = @ \ {e}]}
          ELSE Return(f, "error") /\ UNCHANGED ready
     /\ UNCHANGED <<sock, tableVars, reports, timers>>

Timed(f) == call[f].timed

TryBlocks(f) ==
  /\ pc[f] = "try" /\ WouldBlock(call[f].fd, call[f].event)
  /\ pc' = [pc EXCEPT ![f] = IF Timed(f) THEN "arm" ELSE "add"]
  /\ UNCHANGED <<kernelVars, tableVars, reports, callVars, cancelled, result,
                 timers, history>>

(* addConditionTimer(to, ..., winfo). *)
ArmTimer(f) ==
  /\ pc[f] = "arm"
  /\ timers' = timers \cup {Timer(f, call[f].fd, call[f].event)}
  /\ pc' = [pc EXCEPT ![f] = "add"]
  /\ UNCHANGED <<kernelVars, tableVars, reports, callVars, cancelled, result,
                 history>>

(* A callback of f's present call that will still wake f from its wait. *)
WillTimeOut(f, c) ==
  /\ c.fiber = f /\ Alive(c)
  /\ \/ c.phase \in {"armed", "due"} /\ ~cancelled[f]
     \/ c.phase = "cancel"

(* A close() of the number has run cancelAll, but not close_f. *)
BeingClosed(n) ==
  \E f \in Fibers : pc[f] \in {"del", "close"} /\ call[f].fd = n

(* What addEvent comes too late for: cancelAll, or its own timeout. *)
Lateness(f) ==
  (IF BeingClosed(call[f].fd) THEN {"late"} ELSE {})
    \cup (IF call[f].timed /\ ~\E c \in timers : WillTimeOut(f, c)
            THEN {"spent"} ELSE {})

(***************************************************************************)
(* addEvent and yield; its assertion aborts on a taken slot.  It adds the  *)
(* number to the epoll set, or modifies the entry if the table has events  *)
(* of it, which fails when a close has removed the entry.                  *)
(***************************************************************************)
AddEvent(f) ==
  LET n == call[f].fd  e == call[f].event
  IN /\ pc[f] = "add"
     /\ sock[n] # "closed" /\ slot[n][e] = None
     /\ n \in polled \/ \A d \in Events : slot[n][d] = None
     /\ slot' = [slot EXCEPT ![n][e] = f]
     /\ polled' = polled \cup {n}
     /\ pc' = [pc EXCEPT ![f] = "wait"]
     /\ history' = [history EXCEPT ![f] = Lateness(f)]
     /\ UNCHANGED <<kernelVars, managed, queued, reports, callVars, cancelled,
                    result, timers>>

(* epoll_ctl fails: AddEvent's conditions, or no memory or watches. *)
AddEventFails(f) ==
  /\ pc[f] = "add"
  /\ timers' = Disarmed(f)
  /\ IF call[f].op = "io" THEN Return(f, "error") ELSE Continue(f, "refused")
  /\ UNCHANGED <<kernelVars, tableVars, reports>>

----------------------------------------------------------------------------
(* triggerEvent: the fibers of these events go to the run queue. *)
Triggered(n, es) == {slot[n][e] : e \in es} \ {None}
KeepsContexts(n, es) == slot
Cleared(n, es) ==
  [slot EXCEPT ![n] = [e \in Events |-> IF e \in es THEN None ELSE @[e]]]

(***************************************************************************)
(* What cancelAll, cancelEvent and idle() do with a number in the epoll    *)
(* set: change its entry and trigger the events.  Otherwise epoll_ctl      *)
(* fails, and they do nothing.  The fibers that no event of the present    *)
(* socket and no timeout of their own has woken are noted in history.      *)
(***************************************************************************)
Changed(n, es) == IF n \in polled THEN es ELSE {}
Trigger(n, es, strays) ==
  /\ queued' = queued \cup Triggered(n, es)
  /\ slot' = Cleared(n, es)
  /\ polled' = IF \A e \in Events \ es : slot[n][e] = None
                 THEN polled \ {n} ELSE polled
  /\ history' = [f \in Fibers |-> IF f \in strays
                   THEN history[f] \cup {"stray"} ELSE history[f]]

EventReady(n, e) ==
  \/ sock[n] = "connected" /\ e \in ready[n]
  \/ sock[n] = "failed"

(***************************************************************************)
(* epoll_wait returns the registered events that are ready; EPOLLERR and   *)
(* EPOLLHUP stand for both.  idle() handles the report when the socket and *)
(* its registrations may have changed.  A thread that has several reports  *)
(* counts once for each.                                                   *)
(***************************************************************************)
Collect(n) ==
  LET es == {e \in Events : EventReady(n, e)
                             /\ (slot[n][e] # None \/ sock[n] = "failed")}
  IN /\ Free /\ n \in polled /\ es # {}
     /\ reports' = reports \cup {[fd |-> n, events |-> es]}
     /\ UNCHANGED <<kernelVars, tableVars, pc, callVars, cancelled, result,
                    timers, history>>

(* The assertion on an event no longer registered is left to FdEvents. *)
Deliver(p) ==
  LET es == Changed(p.fd, p.events)
  IN /\ Trigger(p.fd, es,
                Triggered(p.fd, {e \in es : ~EventReady(p.fd, e)}))
     /\ reports' = reports \ {p}
     /\ UNCHANGED <<kernelVars, managed, pc, callVars, cancelled, result,
                    timers>>

(* The scheduler runs the fiber again. *)
Resume(f) ==
  /\ Free /\ f \in queued /\ pc[f] \in Suspended
  /\ queued' = queued \ {f}
  /\ IF pc[f] = "asleep" THEN Return(f, "ok") ELSE Continue(f, "woken")
  /\ UNCHANGED <<kernelVars, managed, slot, polled, reports, timers>>

(* After the yield: the timer, the verdict of its callback, then retry. *)
NeverTimedOut(f) == FALSE
TimedOut(f) == cancelled[f]

Woken(f) ==
  /\ pc[f] = "woken"
  /\ timers' = Disarmed(f)
  /\ IF TimedOut(f)
       THEN Return(f, "ETIMEDOUT")
       ELSE Continue(f, IF call[f].op = "io" THEN "try" ELSE "check")
  /\ UNCHANGED <<kernelVars, tableVars, reports>>

----------------------------------------------------------------------------
(* connect_with_timeout: it starts and is pending, or is decided at once. *)
Connect(f, n, timed) ==
  /\ n \in managed /\ sock[n] = "new" /\ ~InUse(n, "WRITE")
  /\ Begin(f, "connect", n, "WRITE", timed, IF timed THEN "arm" ELSE "add")
  /\ sock' = [sock EXCEPT ![n] = "connecting"]
  /\ UNCHANGED <<ready, tableVars, reports, timers, history>>

ConnectAtOnce(f, n) ==
  /\ Free /\ pc[f] = "idle" /\ seq[f] < MaxCalls[f]
  /\ n \in managed /\ sock[n] = "new" /\ ~InUse(n, "WRITE")
  /\ sock' = [sock EXCEPT ![n] = "connected"]
  /\ result' = [result EXCEPT ![f] = "connected"]
  /\ UNCHANGED <<ready, tableVars, reports, pc, callVars, cancelled, timers,
                 history>>

(* getsockopt(SO_ERROR), which also clears the error. *)
Check(f) ==
  LET n == call[f].fd
  IN /\ pc[f] \in {"check", "refused"}
     /\ IF sock[n] \in {"closed", "failed"}
          THEN Return(f, "error") ELSE Return(f, "connected")
     /\ sock' = [sock EXCEPT ![n] = IF @ = "failed" THEN "new" ELSE @]
     /\ UNCHANGED <<ready, tableVars, reports, timers>>

(* sleep, usleep, nanosleep: a timer whose callback schedules the fiber. *)
Sleep(f) ==
  /\ Begin(f, "sleep", None, None, FALSE, "asleep")
  /\ timers' = timers \cup {[Timer(f, None, "SLEEP") EXCEPT !.seq = seq'[f]]}
  /\ UNCHANGED <<kernelVars, tableVars, reports, history>>

----------------------------------------------------------------------------
(* close(): cancelAll, FdManager::del, then the system call. *)
OnlyReaders == {"READ"}
AllEvents == Events

Close(f, n) ==
  /\ n \in managed /\ ~InUse(n, "close")
  /\ Begin(f, "close", n, "close", FALSE, "del")
  /\ LET es == Changed(n, AllEvents) IN Trigger(n, es, Triggered(n, es))
  /\ UNCHANGED <<kernelVars, managed, reports, timers>>

Del(f) ==
  /\ pc[f] = "del"
  /\ managed' = managed \ {call[f].fd}
  /\ pc' = [pc EXCEPT ![f] = "close"]
  /\ UNCHANGED <<kernelVars, slot, polled, queued, reports, callVars,
                 cancelled, result, timers, history>>

CloseF(f) ==
  /\ pc[f] = "close"
  /\ sock' = [sock EXCEPT ![call[f].fd] = "closed"]
  /\ ready' = [ready EXCEPT ![call[f].fd] = {}]
  /\ polled' = polled \ {call[f].fd}
  /\ pc' = [pc EXCEPT ![f] = "idle"]
  /\ result' = [result EXCEPT ![f] = "ok"]
  /\ stale' = stale \cup {g \in Fibers \ {f} : call[g].fd = call[f].fd}
  /\ call' = [call EXCEPT ![f] = NoCall]
  /\ UNCHANGED <<seq, managed, slot, queued, reports, cancelled, timers,
                 history>>

----------------------------------------------------------------------------
(* listExpiredCb takes an expired timer; its callback is scheduled. *)
Expire(c) ==
  /\ Free /\ c.phase = "armed"
  /\ timers' = (timers \ {c}) \cup {[c EXCEPT !.phase = "due"]}
  /\ UNCHANGED <<kernelVars, tableVars, reports, pc, callVars, cancelled,
                 result, history>>

(* The callback: it ends at once, or marks the call and goes on. *)
CallbackEnds(c) ==
  /\ Free /\ c.phase = "due" /\ c.event # "SLEEP"
  /\ ~Alive(c) \/ cancelled[c.fiber]
  /\ timers' = timers \ {c}
  /\ UNCHANGED <<kernelVars, tableVars, reports, pc, callVars, cancelled,
                 result, history>>

CallbackMarks(c) ==
  /\ Free /\ c.phase = "due" /\ c.event # "SLEEP"
  /\ Alive(c) /\ ~cancelled[c.fiber]
  /\ cancelled' = [cancelled EXCEPT ![c.fiber] = TRUE]
  /\ timers' = (timers \ {c}) \cup {[c EXCEPT !.phase = "cancel"]}
  /\ UNCHANGED <<kernelVars, tableVars, reports, pc, callVars, result,
                 history>>

(* cancelEvent(fd, event): the fiber there may belong to a later call. *)
AnyEvent(c) == "READ"
EventOf(c) == c.event

CallbackCancels(c) ==
  LET es == Changed(c.fd, {EventOf(c)})
      own == {f \in Fibers : f = c.fiber /\ Alive(c)}
  IN /\ c.phase = "cancel"
     /\ Trigger(c.fd, es, Triggered(c.fd, es) \ own)
     /\ timers' = timers \ {c}
     /\ UNCHANGED <<kernelVars, managed, reports, pc, callVars, cancelled,
                    result>>

(* The callback of a sleep: schedule(fiber). *)
CallbackWakes(c) ==
  /\ Free /\ c.phase = "due" /\ c.event = "SLEEP"
  /\ queued' = queued \cup {c.fiber}
  /\ timers' = timers \ {c}
  /\ UNCHANGED <<kernelVars, managed, slot, polled, reports, pc, callVars,
                 cancelled, result, history>>

Callback(c) ==
  CallbackEnds(c) \/ CallbackMarks(c) \/ CallbackCancels(c) \/ CallbackWakes(c)

(* The peer: a connection is decided, data or buffer space arrives. *)
Decide(n) ==
  /\ sock[n] = "connecting"
  /\ \E s \in {"connected", "failed"} : sock' = [sock EXCEPT ![n] = s]
  /\ ready' = [ready EXCEPT ![n] = {"WRITE"}]
  /\ UNCHANGED <<tableVars, reports, pc, callVars, cancelled, result, timers,
                 history>>

Arrive(n, e) ==
  /\ sock[n] = "connected" /\ e \notin ready[n]
  /\ ready' = [ready EXCEPT ![n] = @ \cup {e}]
  /\ UNCHANGED <<sock, tableVars, reports, pc, callVars, cancelled, result,
                 timers, history>>

----------------------------------------------------------------------------
Calls(f) ==
  \/ Sleep(f)
  \/ \E n \in Fds :
       \/ Socket(f, n) \/ Close(f, n) \/ ConnectAtOnce(f, n)
       \/ \E timed \in BOOLEAN : Connect(f, n, timed)
       \/ \E e \in Events, timed \in BOOLEAN : Io(f, n, e, timed)

Steps(f) ==
  \/ TryReturns(f) \/ TryBlocks(f) \/ ArmTimer(f) \/ AddEvent(f)
  \/ AddEventFails(f) \/ Woken(f) \/ Check(f) \/ Del(f) \/ CloseF(f)

Kernel == \E n \in Fds : Decide(n) \/ \E e \in Events : Arrive(n, e)

Next ==
  \/ \E f \in Fibers : Calls(f) \/ Steps(f) \/ Resume(f)
  \/ \E n \in Fds : Collect(n)
  \/ \E p \in reports : Deliver(p)
  \/ \E c \in timers : Expire(c) \/ Callback(c)
  \/ Kernel

Spec == Init /\ [][Next]_vars

(***************************************************************************)
(* A fiber that has a thread keeps it until it yields, queued fibers and   *)
(* callbacks get their turn, timers expire and idle() handles what it has  *)
(* been told.  The peer owes nothing.                                      *)
(***************************************************************************)
Fairness ==
  /\ \A f \in Fibers : WF_vars(Steps(f)) /\ WF_vars(Resume(f))
  /\ WF_vars(\E c \in timers : Expire(c))
  /\ WF_vars(\E c \in timers : Callback(c))
  /\ WF_vars(\E p \in reports : Deliver(p))

FairSpec == Spec /\ Fairness

----------------------------------------------------------------------------
SockStates == {"closed", "new", "connecting", "connected", "failed"}
TimerRecords ==
  [fiber : Fibers, seq : Nat, fd : Fds \cup {None},
   event : Events \cup {"SLEEP"}, phase : {"armed", "due", "cancel"}]

(* Every variable has its type; what call holds is Shape in HookProofs. *)
TypeOK ==
  /\ sock \in [Fds -> SockStates]
  /\ ready \in [Fds -> SUBSET Events]
  /\ managed \subseteq Fds /\ polled \subseteq Fds
  /\ reports \subseteq [fd : Fds, events : SUBSET Events]
  /\ slot \in [Fds -> [Events -> Fibers \cup {None}]]
  /\ queued \subseteq Fibers /\ stale \subseteq Fibers
  /\ pc \in [Fibers -> Suspended \cup {"idle", "try", "arm", "add", "woken",
                                       "check", "refused", "del", "close"}]
  /\ seq \in [Fibers -> Nat]
  /\ cancelled \in [Fibers -> BOOLEAN]
  /\ timers \subseteq TimerRecords
  /\ history \in [Fibers -> SUBSET {"late", "spent", "stray"}]

(***************************************************************************)
(* A call with a timeout never waits without something that ends the wait: *)
(* its wake-up is queued, or a callback of this call is still to come and  *)
(* finds the fiber registered, on a descriptor epoll knows ("here is a     *)
(* read timeout", src/tests/test_tcp_server.cc:22).  The two ways in which *)
(* it fails are named: addEvent (hook.cc:132) comes after the callback of  *)
(* the timeout, or after another thread's close() has cancelled the waits. *)
(***************************************************************************)
InTime(f) == history[f] \cap {"late", "spent"} = {}

TimedWaitCovered ==
  \A f \in Fibers : pc[f] = "wait" /\ call[f].timed /\ InTime(f) =>
    \/ f \in queued
    \/ /\ \E c \in timers : WillTimeOut(f, c)
       /\ call[f].fd \in polled

(***************************************************************************)
(* close() ends the waits on the descriptor: whoever is registered on a    *)
(* number is known to epoll there, which forgets a number that is closed,  *)
(* unless it has registered between cancelAll and close_f of another       *)
(* thread's close() (hook.cc:353-357).                                     *)
(***************************************************************************)
CloseWakesWaiters ==
  /\ \A n \in polled : sock[n] # "closed"
  /\ \A n \in Fds, e \in Events :
       slot[n][e] # None /\ "late" \notin history[slot[n][e]] => n \in polled

(***************************************************************************)
(* No call leaves an armed timer behind, whichever way it returns: the     *)
(* fiber is still inside the call the timer belongs to.                    *)
(***************************************************************************)
NoOrphanTimer ==
  \A c \in timers : c.phase = "armed" => Alive(c)

(***************************************************************************)
(* A fiber in the run queue is suspended and no longer registered: it is   *)
(* woken once, though an event, a timeout and a close may all want it.     *)
(***************************************************************************)
WokenOnce ==
  \A f \in queued :
    pc[f] \in Suspended /\ \A n \in Fds, e \in Events : slot[n][e] # f

(***************************************************************************)
(* addEvent's assertion (iomanager.cc:164-168) holds for programs that     *)
(* have one reader and one writer for each socket, as long as the kernel   *)
(* gives no number to a new socket while a suspended call still holds it.  *)
(***************************************************************************)
AddsOnce ==
  \A f \in Fibers : pc[f] = "add" => slot[call[f].fd][call[f].event] = None

(* The queue and the table hold fibers, each of them in one place.         *)
WaitersConsistent == TypeOK /\ WokenOnce /\ AddsOnce

(***************************************************************************)
(* A call is marked as timed out only by a timer of its own: the callback  *)
(* of an earlier call that was too late to be cancelled has no effect.     *)
(***************************************************************************)
TimeoutIsOwn ==
  [][\A f \in Fibers : cancelled'[f] /\ ~cancelled[f] =>
       \E c \in timers : c.fiber = f /\ c.seq = seq[f] /\ call[f].timed]_vars

(***************************************************************************)
(* connect() that does not succeed at once returns 0 only if the           *)
(* connection stands, although its timeout, too, wakes the fiber.  It      *)
(* fails where the code fails: addEvent is refused (hook.cc:273), or the   *)
(* fiber is woken while the connection is pending, by a close() that has   *)
(* not yet closed the number, by the callback of an earlier call that is   *)
(* between hook.cc:127 and 128, or by a report of epoll_wait from before.  *)
(* SO_ERROR is then still zero (hook.cc:281).                              *)
(***************************************************************************)
ConnectTellsTruth ==
  [][\A f \in Fibers :
       pc[f] \in {"check", "refused"} /\ pc'[f] = "idle"
         /\ result'[f] = "connected" =>
           \/ sock[call[f].fd] = "connected"
           \/ pc[f] = "refused" \/ "stray" \in history[f]]_vars

(* Timed waits that began in time end, and so do sleeps. *)
TimedWaitEnds ==
  \A f \in Fibers :
    pc[f] = "asleep" \/ (pc[f] = "wait" /\ call[f].timed /\ InTime(f))
      ~> pc[f] \notin Suspended

(***************************************************************************)
(* Refinement: the wait of a hooked call is one registration of OneShot.   *)
(* An event, a timeout, a close and the end of a sleep all want to wake    *)
(* the fiber; one of them does, once, and only then does the call go on.   *)
(***************************************************************************)
Phase(f) ==
  IF f \in queued THEN "notified"
  ELSE IF pc[f] \in Suspended THEN "registered" ELSE "idle"

Promise == INSTANCE OneShot WITH phase <- [f \in Fibers |-> Phase(f)]
ImplementsOneShot == Promise!Spec
=============================================================================
