----------------------------- MODULE HookProofs -----------------------------
(***************************************************************************)
(* The hooked calls for any finite set of fibers, any descriptors, any     *)
(* number of calls and any number of threads.  What rests on the identity  *)
(* of a descriptor number has ~HeldReuse as a hypothesis.                  *)
(***************************************************************************)
EXTENDS Hook, FiniteSetTheorems, TLAPS

(***************************************************************************)
(* What the arguments of a call are in each of its phases: do_io and       *)
(* connect work on an event of a descriptor, close() on a descriptor,      *)
(* sleep on none, and only a call with a timeout arms a timer.             *)
(***************************************************************************)
IoPhases == {"try", "arm", "add", "wait", "woken", "check", "refused"}
CallRecords ==
  [op : {"none", "io", "connect", "sleep", "close"}, fd : Fds \cup {None},
   event : Events \cup {"close", None}, timed : BOOLEAN]

Shape ==
  /\ call \in [Fibers -> CallRecords]
  /\ \A f \in Fibers :
       /\ pc[f] = "idle" => call[f] = NoCall
       /\ pc[f] \in IoPhases => call[f].fd \in Fds /\ call[f].event \in Events
       /\ pc[f] \in {"del", "close"} =>
            call[f].fd \in Fds /\ call[f].event = "close"
       /\ pc[f] = "asleep" => call[f].fd = None /\ ~call[f].timed
       /\ pc[f] = "arm" => call[f].timed

(* A registered fiber waits for that very event, and is not queued yet.    *)
Slots ==
  \A n \in Fds, e \in Events, f \in Fibers : slot[n][e] = f =>
    pc[f] = "wait" /\ call[f].fd = n /\ call[f].event = e /\ f \notin queued

QueuedSleep == \A f \in queued : pc[f] \in Suspended

(* A fiber that waits is queued, or registered for what it waits for.      *)
Registered ==
  \A f \in Fibers : pc[f] = "wait" /\ f \notin queued =>
    slot[call[f].fd][call[f].event] = f

(* The one timer of a sleeping fiber, until its callback has queued it.    *)
Sleepers ==
  \A c \in timers : c.event = "SLEEP" =>
    /\ pc[c.fiber] = "asleep" /\ c.fiber \notin queued
    /\ c.seq = seq[c.fiber] /\ c.phase # "cancel"
    /\ \A d \in timers : d.event = "SLEEP" /\ d.fiber = c.fiber => d = c

(***************************************************************************)
(* An armed timer belongs to the present call of its fiber, which will     *)
(* cancel it on each of its ways out; and any timer of the present call,   *)
(* whatever its phase, is for the event the call waits for.                *)
(***************************************************************************)
Armed ==
  \A c \in timers : c.phase = "armed" /\ c.event # "SLEEP" =>
    c.seq = seq[c.fiber] /\ pc[c.fiber] \in {"add", "wait", "woken"}

Own ==
  \A c \in timers :
    /\ c.seq <= seq[c.fiber]
    /\ c.event # "SLEEP" => c.fd \in Fds
    /\ c.event # "SLEEP" /\ Alive(c) =>
         /\ call[c.fiber].timed
         /\ c.fd = call[c.fiber].fd /\ c.event = call[c.fiber].event

(* A callback that is about to cancel the event has marked its call.       *)
Marked ==
  \A c \in timers : c.phase = "cancel" /\ Alive(c) => cancelled[c.fiber]

HookInv ==
  /\ TypeOK /\ Shape /\ Slots /\ QueuedSleep /\ Registered
  /\ Sleepers /\ Armed /\ Own /\ Marked

----------------------------------------------------------------------------
(* What triggerEvent does, slot by slot. *)
LEMMA ClearedAt ==
  ASSUME HookInv, NEW n \in Fds, NEW es \in SUBSET Events
  PROVE  /\ Cleared(n, es) \in [Fds -> [Events -> Fibers \cup {None}]]
         /\ \A m \in Fds, e \in Events :
              Cleared(n, es)[m][e] =
                IF m = n /\ e \in es THEN None ELSE slot[m][e]
         /\ Triggered(n, es) = {f \in Fibers : \E e \in es : slot[n][e] = f}
BY HookAssumption DEF HookInv, TypeOK, Cleared, Triggered

(* The events of a report, a close and a callback, if epoll knows them.    *)
LEMMA ChangedType ==
  /\ \A n, es : Changed(n, es) \in SUBSET es
  /\ \A n, es : es \in SUBSET Events => Changed(n, es) \in SUBSET Events
BY DEF Changed

LEMMA ReportType ==
  ASSUME HookInv, NEW p \in reports
  PROVE  p.fd \in Fds /\ p.events \in SUBSET Events
BY DEF HookInv, TypeOK

(* Only the timer of a condition has a callback that cancels an event.     *)
LEMMA CallbackTimer ==
  ASSUME HookInv, NEW c \in timers
  PROVE  /\ c \in TimerRecords /\ c.fiber \in Fibers
         /\ CallbackCancels(c) => c.event \in Events /\ c.fd \in Fds
BY DEF HookInv, TypeOK, TimerRecords, Sleepers, Own, CallbackCancels

(* A step of a fiber is a step of no other fiber. *)
LEMMA OthersStay ==
  ASSUME HookInv, NEW f \in Fibers, Calls(f) \/ Steps(f) \/ Resume(f),
         NEW g \in Fibers \ {f}
  PROVE  /\ pc'[g] = pc[g] /\ call'[g] = call[g]
         /\ seq'[g] = seq[g] /\ cancelled'[g] = cancelled[g]
<1>1. /\ \A x : [pc EXCEPT ![f] = x][g] = pc[g]
      /\ \A x : [call EXCEPT ![f] = x][g] = call[g]
      /\ \A x : [seq EXCEPT ![f] = x][g] = seq[g]
      /\ \A x : [cancelled EXCEPT ![f] = x][g] = cancelled[g]
  BY DEF HookInv, TypeOK, Shape
<1>2. \A r : Return(f, r) => pc'[g] = pc[g] /\ call'[g] = call[g]
                              /\ seq'[g] = seq[g] /\ cancelled'[g] = cancelled[g]
  BY <1>1 DEF Return
<1>3. CASE Calls(f)
  <2>1. \A op, n, e, timed, next : Begin(f, op, n, e, timed, next) =>
          /\ pc'[g] = pc[g] /\ call'[g] = call[g]
          /\ seq'[g] = seq[g] /\ cancelled'[g] = cancelled[g]
    BY <1>1 DEF Begin
  <2>2. ASSUME NEW n \in Fds, Socket(f, n) \/ ConnectAtOnce(f, n)
        PROVE  UNCHANGED <<pc, callVars, cancelled>>
    BY <2>2 DEF Socket, ConnectAtOnce
  <2> QED
    BY <1>3, <2>1, <2>2 DEF Calls, Io, Connect, Close, Sleep, callVars
<1>4. CASE Steps(f)
  BY <1>1, <1>2, <1>4
     DEF Steps, TryReturns, TryBlocks, ArmTimer, AddEvent, AddEventFails,
         Woken, Check, Del, CloseF, Continue, callVars
<1>5. CASE Resume(f)
  BY <1>1, <1>2, <1>5 DEF Resume, Continue, callVars
<1> QED
  BY <1>3, <1>4, <1>5

----------------------------------------------------------------------------
LEMMA TypeNext ==
  ASSUME HookInv, [Next]_vars
  PROVE  TypeOK'
<1> DEFINE
      PCs == Suspended \cup {"idle", "try", "arm", "add", "woken", "check",
                             "refused", "del", "close"}
      KernelTypes ==
        /\ sock \in [Fds -> SockStates] /\ ready \in [Fds -> SUBSET Events]
        /\ managed \subseteq Fds
      TableTypes ==
        /\ slot \in [Fds -> [Events -> Fibers \cup {None}]]
        /\ queued \subseteq Fibers /\ polled \subseteq Fds
      ReportTypes == reports \subseteq [fd : Fds, events : SUBSET Events]
      HistoryTypes ==
        history \in [Fibers -> SUBSET {"late", "spent", "stray"}]
      CallTypes ==
        /\ stale \subseteq Fibers /\ pc \in [Fibers -> PCs]
        /\ seq \in [Fibers -> Nat]
        /\ cancelled \in [Fibers -> BOOLEAN]
      TimerTypes == timers \subseteq TimerRecords
<1>t. TypeOK <=> /\ KernelTypes /\ TableTypes /\ CallTypes /\ TimerTypes
                 /\ ReportTypes /\ HistoryTypes
  BY DEF TypeOK
<1>u. TypeOK' <=> /\ KernelTypes' /\ TableTypes' /\ CallTypes' /\ TimerTypes'
                  /\ ReportTypes' /\ HistoryTypes'
  BY DEF TypeOK
<1>v. /\ KernelTypes /\ TableTypes /\ CallTypes /\ TimerTypes
      /\ ReportTypes /\ HistoryTypes
  BY <1>t DEF HookInv
<1>a. UNCHANGED <<sock, ready, managed>> => KernelTypes'
  BY <1>v
<1>b. UNCHANGED <<slot, polled, queued>> => TableTypes'
  BY <1>v
<1>w. UNCHANGED reports => ReportTypes'
  BY <1>v
<1>x. UNCHANGED history => HistoryTypes'
  BY <1>v
<1>c. UNCHANGED <<stale, pc, seq, cancelled>> => CallTypes'
  BY <1>v
<1>d. timers' \subseteq timers => TimerTypes'
  BY <1>v
<1>e. ASSUME NEW f \in Fibers, NEW x \in PCs, pc' = [pc EXCEPT ![f] = x],
             UNCHANGED <<stale, seq, cancelled>>
      PROVE  CallTypes'
  BY <1>e, <1>v
<1>f. ASSUME NEW f \in Fibers, NEW r, Return(f, r)
      PROVE  CallTypes' /\ HistoryTypes'
  <2>1. pc' \in [Fibers -> PCs]
    BY <1>f, <1>v DEF Return
  <2>2. cancelled' \in [Fibers -> BOOLEAN]
    BY <1>f, <1>v DEF Return
  <2>3. HistoryTypes'
    BY <1>f, <1>v DEF Return
  <2> QED
    BY <1>f, <1>v, <2>1, <2>2, <2>3 DEF Return
<1>g. ASSUME NEW f \in Fibers, NEW op, NEW n, NEW e, NEW timed, NEW x \in PCs,
             Begin(f, op, n, e, timed, x)
      PROVE  CallTypes'
  <2>1. pc' \in [Fibers -> PCs]
    BY <1>g, <1>v DEF Begin
  <2>2. seq' \in [Fibers -> Nat]
    BY <1>g, <1>v DEF Begin
  <2> QED
    BY <1>g, <1>v, <2>1, <2>2 DEF Begin
<1>h. ASSUME NEW n \in Fds, NEW es \in SUBSET Events, NEW strays,
             Trigger(n, es, strays)
      PROVE  TableTypes' /\ HistoryTypes'
  <2>1. TableTypes'
    BY <1>h, <1>v, ClearedAt DEF Trigger
  <2>2. HistoryTypes'
    BY <1>h, <1>v DEF Trigger
  <2> QED
    BY <2>1, <2>2
<1>i. ASSUME NEW n \in Fds, NEW s \in SockStates, sock' = [sock EXCEPT ![n] = s]
      PROVE  sock' \in [Fds -> SockStates]
  BY <1>i, <1>v
<1>j. ASSUME NEW n \in Fds, NEW es \in SUBSET Events,
             ready' = [ready EXCEPT ![n] = es]
      PROVE  ready' \in [Fds -> SUBSET Events]
  BY <1>j, <1>v
<1>k. ASSUME NEW f \in Fibers, pc[f] \notin {"idle", "asleep"}
      PROVE  call[f].fd \in Fds
  BY <1>k, <1>v DEF HookInv, Shape, IoPhases, Suspended
<1>l. "try" \in PCs /\ "arm" \in PCs /\ "add" \in PCs /\ "wait" \in PCs
        /\ "asleep" \in PCs /\ "woken" \in PCs /\ "check" \in PCs
        /\ "refused" \in PCs /\ "del" \in PCs /\ "close" \in PCs
        /\ "idle" \in PCs
  BY DEF Suspended
<1> USE DEF kernelVars, tableVars, callVars
<1> HIDE DEF PCs, KernelTypes, TableTypes, CallTypes, TimerTypes, ReportTypes,
         HistoryTypes
<1>1. ASSUME NEW f \in Fibers, Calls(f) PROVE TypeOK'
  <2>1. ASSUME NEW n \in Fds, Close(f, n) PROVE TypeOK'
    <3>1. CallTypes'
      BY <2>1, <1>g, <1>l DEF Close
    <3>2. TableTypes' /\ HistoryTypes'
      BY <2>1, <1>h, ChangedType DEF Close, AllEvents
    <3>3. KernelTypes' /\ TimerTypes' /\ ReportTypes'
      BY <2>1, <1>a, <1>d, <1>w DEF Close
    <3> QED
      BY <3>1, <3>2, <3>3, <1>u, <1>w, <1>x
  <2>2. ASSUME NEW n \in Fds, NEW timed \in BOOLEAN, Connect(f, n, timed)
        PROVE  TypeOK'
    <3>1. CallTypes'
      BY <2>2, <1>g, <1>l DEF Connect
    <3>2. KernelTypes'
      BY <2>2, <1>i, <1>v DEF Connect, KernelTypes, SockStates
    <3>3. UNCHANGED <<slot, polled, queued, timers>>
      BY <2>2 DEF Connect
    <3>4. TableTypes' /\ TimerTypes'
      BY <3>3, <1>b, <1>d
    <3> QED
      BY <2>2, <3>1, <3>2, <3>4, <1>u, <1>w, <1>x DEF Connect
  <2>3. ASSUME NEW n \in Fds, NEW e \in Events, NEW timed \in BOOLEAN,
               Io(f, n, e, timed)
        PROVE  TypeOK'
    <3>1. CallTypes'
      BY <2>3, <1>g, <1>l DEF Io
    <3> QED
      BY <2>3, <3>1, <1>a, <1>b, <1>d, <1>u, <1>w, <1>x DEF Io
  <2>4. ASSUME NEW n \in Fds, Socket(f, n) PROVE TypeOK'
    <3>1. KernelTypes'
      BY <2>4, <1>i, <1>v DEF Socket, KernelTypes, SockStates
    <3> QED
      BY <2>4, <3>1, <1>b, <1>c, <1>d, <1>u, <1>w, <1>x DEF Socket
  <2>5. ASSUME NEW n \in Fds, ConnectAtOnce(f, n) PROVE TypeOK'
    <3>1. KernelTypes'
      BY <2>5, <1>i, <1>v DEF ConnectAtOnce, KernelTypes, SockStates
    <3> QED
      BY <2>5, <3>1, <1>b, <1>c, <1>d, <1>u, <1>w, <1>x DEF ConnectAtOnce
  <2>6. CASE Sleep(f)
    <3>1. CallTypes'
      BY <2>6, <1>g, <1>l DEF Sleep
    <3>2. seq'[f] \in Nat
      BY <3>1, HookAssumption DEF CallTypes
    <3>3. [Timer(f, None, "SLEEP") EXCEPT !.seq = seq'[f]] \in TimerRecords
      BY <3>2 DEF Timer, TimerRecords
    <3>4. TimerTypes'
      BY <2>6, <3>3, <1>v DEF Sleep, TimerTypes
    <3> QED
      BY <2>6, <3>1, <3>4, <1>a, <1>b, <1>u, <1>w, <1>x DEF Sleep
  <2> QED
    BY <1>1, <2>1, <2>2, <2>3, <2>4, <2>5, <2>6 DEF Calls
<1>2. ASSUME NEW f \in Fibers, Steps(f) PROVE TypeOK'
  <2>1. CASE TryReturns(f)
    <3>1. pc[f] = "try" /\ call[f].fd \in Fds
      BY <2>1, <1>k DEF TryReturns
    <3>2. ready[call[f].fd] \in SUBSET Events
      BY <3>1, <1>v DEF KernelTypes
    <3>3. ready' \in [Fds -> SUBSET Events]
      BY <2>1, <3>1, <3>2, <1>j, <1>v DEF TryReturns, KernelTypes
    <3>4. KernelTypes'
      BY <2>1, <3>3, <1>v DEF TryReturns, KernelTypes
    <3>5. CallTypes' /\ HistoryTypes'
      BY <2>1, <1>f DEF TryReturns
    <3> QED
      BY <2>1, <3>4, <3>5, <1>b, <1>d, <1>u, <1>w, <1>x DEF TryReturns
  <2>2. CASE TryBlocks(f)
    <3>1. CallTypes'
      BY <2>2, <1>e, <1>l DEF TryBlocks
    <3> QED
      BY <2>2, <3>1, <1>a, <1>b, <1>d, <1>u, <1>w, <1>x DEF TryBlocks
  <2>3. CASE ArmTimer(f)
    <3>1. CallTypes'
      BY <2>3, <1>e, <1>l DEF ArmTimer
    <3>2. /\ seq[f] \in Nat /\ call[f].fd \in Fds
          /\ call[f].event \in Events
      BY <2>3, <1>v, HookAssumption
         DEF ArmTimer, CallTypes, HookInv, Shape, IoPhases
    <3>3. Timer(f, call[f].fd, call[f].event) \in TimerRecords
      BY <3>2 DEF Timer, TimerRecords
    <3>4. TimerTypes'
      BY <2>3, <3>3, <1>v DEF ArmTimer, TimerTypes
    <3> QED
      BY <2>3, <3>1, <3>4, <1>a, <1>b, <1>u, <1>w, <1>x DEF ArmTimer
  <2>4. CASE AddEvent(f)
    <3>1. CallTypes'
      BY <2>4, <1>e, <1>l DEF AddEvent
    <3>2. call[f].fd \in Fds
      BY <2>4, <1>k DEF AddEvent
    <3>3. TableTypes'
      BY <2>4, <3>2, <1>v DEF AddEvent, TableTypes
    <3>4. HistoryTypes'
      BY <2>4, <1>v DEF AddEvent, Lateness, HistoryTypes
    <3> QED
      BY <2>4, <3>1, <3>3, <3>4, <1>a, <1>d, <1>u, <1>w, <1>x DEF AddEvent
  <2>5. CASE AddEventFails(f) \/ Woken(f)
    <3>1. CallTypes' /\ HistoryTypes'
      BY <2>5, <1>e, <1>f, <1>l, <1>x DEF AddEventFails, Woken, Continue
    <3> QED
      BY <2>5, <3>1, <1>a, <1>b, <1>d, <1>u, <1>w, <1>x DEF AddEventFails, Woken, Disarmed
  <2>6. CASE Check(f)
    <3>1. CallTypes' /\ HistoryTypes'
      BY <2>6, <1>f DEF Check
    <3>2. sock' \in [Fds -> SockStates]
      BY <2>6, <1>v DEF Check, KernelTypes, SockStates
    <3>3. KernelTypes'
      BY <2>6, <3>2, <1>v DEF Check, KernelTypes
    <3> QED
      BY <2>6, <3>1, <3>3, <1>b, <1>d, <1>u, <1>w, <1>x DEF Check
  <2>7. CASE Del(f)
    <3>1. CallTypes'
      BY <2>7, <1>e, <1>l DEF Del
    <3>2. KernelTypes'
      BY <2>7, <1>v DEF Del, KernelTypes
    <3> QED
      BY <2>7, <3>1, <3>2, <1>b, <1>d, <1>u, <1>w, <1>x DEF Del
  <2>8. CASE CloseF(f)
    <3>1. call[f].fd \in Fds
      BY <2>8, <1>k DEF CloseF
    <3>2. sock' \in [Fds -> SockStates]
      BY <2>8, <3>1, <1>i DEF CloseF, SockStates
    <3>3. ready' \in [Fds -> SUBSET Events]
      BY <2>8, <3>1, <1>v DEF CloseF, KernelTypes
    <3>4. KernelTypes'
      BY <2>8, <3>2, <3>3, <1>v DEF CloseF, KernelTypes
    <3>5. pc' \in [Fibers -> PCs]
      BY <2>8, <1>l, <1>v DEF CloseF, CallTypes
    <3>6. CallTypes'
      BY <2>8, <3>5, <1>v DEF CloseF, CallTypes
    <3>7. TableTypes'
      BY <2>8, <1>v DEF CloseF, TableTypes
    <3> QED
      BY <2>8, <3>4, <3>6, <3>7, <1>d, <1>u, <1>w, <1>x DEF CloseF
  <2> QED
    BY <1>2, <2>1, <2>2, <2>3, <2>4, <2>5, <2>6, <2>7, <2>8 DEF Steps
<1>3. ASSUME NEW f \in Fibers, Resume(f) PROVE TypeOK'
  <2>1. CallTypes' /\ HistoryTypes'
    BY <1>3, <1>e, <1>f, <1>l, <1>x DEF Resume, Continue
  <2>2. TableTypes'
    BY <1>3, <1>v DEF Resume, TableTypes
  <2> QED
    BY <1>3, <2>1, <2>2, <1>a, <1>d, <1>u, <1>w, <1>x DEF Resume
<1>4. ASSUME NEW p \in reports, Deliver(p) PROVE TypeOK'
  <2>1. p.fd \in Fds /\ p.events \in SUBSET Events
    BY ReportType
  <2>2. TableTypes' /\ HistoryTypes'
    BY <1>4, <2>1, <1>h, ChangedType DEF Deliver
  <2>3. ReportTypes'
    BY <1>4, <1>v DEF Deliver, ReportTypes
  <2> QED
    BY <1>4, <2>2, <2>3, <1>a, <1>c, <1>d, <1>u DEF Deliver
<1>8. ASSUME NEW n \in Fds, Collect(n) PROVE TypeOK'
  <2>1. ReportTypes'
    BY <1>8, <1>v DEF Collect, ReportTypes
  <2> QED
    BY <1>8, <2>1, <1>a, <1>b, <1>c, <1>d, <1>u, <1>x DEF Collect
<1>5. ASSUME NEW c \in timers, Expire(c) \/ Callback(c) PROVE TypeOK'
  <2>1. c \in TimerRecords /\ c.fiber \in Fibers
    BY CallbackTimer
  <2>2. /\ [c EXCEPT !.phase = "due"] \in TimerRecords
        /\ [c EXCEPT !.phase = "cancel"] \in TimerRecords
    BY <2>1 DEF TimerRecords
  <2>3. CASE Expire(c)
    <3>1. TimerTypes'
      BY <2>2, <2>3, <1>v DEF Expire, TimerTypes
    <3> QED
      BY <2>3, <3>1, <1>a, <1>b, <1>c, <1>u, <1>w, <1>x DEF Expire
  <2>4. CASE CallbackEnds(c)
    BY <2>4, <1>a, <1>b, <1>c, <1>d, <1>u, <1>w, <1>x DEF CallbackEnds
  <2>5. CASE CallbackWakes(c)
    <3>1. TableTypes'
      BY <2>1, <2>5, <1>v DEF CallbackWakes, TableTypes
    <3> QED
      BY <2>5, <3>1, <1>a, <1>c, <1>d, <1>u, <1>w, <1>x DEF CallbackWakes
  <2>6. CASE CallbackMarks(c)
    <3>1. cancelled' \in [Fibers -> BOOLEAN]
      BY <2>6, <1>v DEF CallbackMarks, CallTypes
    <3>2. CallTypes'
      BY <2>6, <3>1, <1>v DEF CallbackMarks, CallTypes
    <3>3. TimerTypes'
      BY <2>2, <2>6, <1>v DEF CallbackMarks, TimerTypes
    <3> QED
      BY <2>6, <3>2, <3>3, <1>a, <1>b, <1>u, <1>w, <1>x DEF CallbackMarks
  <2>7. CASE CallbackCancels(c)
    <3>1. c.event \in Events /\ c.fd \in Fds
      BY <2>7, CallbackTimer
    <3>2. \E es \in SUBSET Events : \E strays : Trigger(c.fd, es, strays)
      BY <2>7, <3>1, ChangedType DEF CallbackCancels, EventOf
    <3>3. TableTypes' /\ HistoryTypes'
      BY <3>1, <3>2, <1>h
    <3> QED
      BY <2>7, <3>3, <1>a, <1>c, <1>d, <1>u, <1>w, <1>x DEF CallbackCancels
  <2> QED
    BY <1>5, <2>3, <2>4, <2>5, <2>6, <2>7 DEF Callback
<1>6. CASE Kernel
  <2>1. ASSUME NEW n \in Fds, Decide(n) PROVE TypeOK'
    <3>1. sock' \in [Fds -> SockStates]
      BY <2>1, <1>i DEF Decide, SockStates
    <3>2. ready' \in [Fds -> SUBSET Events]
      BY <2>1, <1>j DEF Decide, Events
    <3>3. KernelTypes'
      BY <2>1, <3>1, <3>2, <1>v DEF Decide, KernelTypes
    <3> QED
      BY <2>1, <3>3, <1>b, <1>c, <1>d, <1>u, <1>w, <1>x DEF Decide
  <2>2. ASSUME NEW n \in Fds, NEW e \in Events, Arrive(n, e) PROVE TypeOK'
    <3>1. ready[n] \cup {e} \in SUBSET Events
      BY <1>v DEF KernelTypes
    <3>2. ready' \in [Fds -> SUBSET Events]
      BY <2>2, <3>1, <1>j DEF Arrive
    <3>3. KernelTypes'
      BY <2>2, <3>2, <1>v DEF Arrive, KernelTypes
    <3> QED
      BY <2>2, <3>3, <1>b, <1>c, <1>d, <1>u, <1>w, <1>x DEF Arrive
  <2> QED
    BY <1>6, <2>1, <2>2 DEF Kernel
<1>7. CASE UNCHANGED vars
  BY <1>7, <1>a, <1>b, <1>c, <1>d, <1>u, <1>w, <1>x DEF vars
<1> QED
  BY <1>1, <1>2, <1>3, <1>4, <1>5, <1>6, <1>7, <1>8 DEF Next

LEMMA ShapeNext ==
  ASSUME HookInv, [Next]_vars
  PROVE  Shape'
<1>a. /\ \A f \in Fibers : \A x : [pc EXCEPT ![f] = x][f] = x
      /\ \A f \in Fibers : \A x : [call EXCEPT ![f] = x][f] = x
      /\ \A f \in Fibers, x \in CallRecords :
           [call EXCEPT ![f] = x] \in [Fibers -> CallRecords]
  BY DEF HookInv, TypeOK, Shape
<1>b. NoCall \in CallRecords
  BY DEF NoCall, CallRecords
<1>c. call \in [Fibers -> CallRecords]
  BY DEF HookInv, Shape
(* The fiber that takes the step is in order; the others stay as they are. *)
<1>1. ASSUME NEW f \in Fibers, Calls(f) \/ Steps(f) \/ Resume(f),
             call' \in [Fibers -> CallRecords],
             pc'[f] = "idle" => call'[f] = NoCall,
             pc'[f] \in IoPhases =>
               call'[f].fd \in Fds /\ call'[f].event \in Events,
             pc'[f] \in {"del", "close"} =>
               call'[f].fd \in Fds /\ call'[f].event = "close",
             pc'[f] = "asleep" => call'[f].fd = None /\ ~call'[f].timed,
             pc'[f] = "arm" => call'[f].timed
      PROVE  Shape'
  <2>1. \A g \in Fibers \ {f} : pc'[g] = pc[g] /\ call'[g] = call[g]
    BY <1>1, OthersStay
  <2> QED
    BY <1>1, <2>1 DEF HookInv, Shape
<1>2. CASE UNCHANGED <<pc, call>>
  BY <1>2 DEF HookInv, Shape
<1>3. ASSUME NEW f \in Fibers, NEW r, Return(f, r),
             Calls(f) \/ Steps(f) \/ Resume(f)
      PROVE  Shape'
  <2>1. pc'[f] = "idle" /\ call'[f] = NoCall
    BY <1>3, <1>a DEF Return
  <2>2. call' \in [Fibers -> CallRecords]
    BY <1>3, <1>a, <1>b DEF Return
  <2> QED
    BY <1>1, <1>3, <2>1, <2>2 DEF IoPhases
<1>4. ASSUME NEW f \in Fibers, NEW next \in IoPhases,
             next = "arm" => call[f].timed,
             pc[f] \in IoPhases, pc' = [pc EXCEPT ![f] = next], UNCHANGED call,
             Calls(f) \/ Steps(f) \/ Resume(f)
      PROVE  Shape'
  <2>1. pc'[f] = next
    BY <1>4, <1>a
  <2>2. call[f].fd \in Fds /\ call[f].event \in Events
    BY <1>4 DEF HookInv, Shape
  <2> QED
    BY <1>1, <1>4, <1>c, <2>1, <2>2 DEF IoPhases
<1>5. ASSUME NEW f \in Fibers, Calls(f) PROVE Shape'
  <2>1. ASSUME NEW n \in Fds, NEW timed \in BOOLEAN, Connect(f, n, timed)
        PROVE  Shape'
    <3> DEFINE r == [op |-> "connect", fd |-> n, event |-> "WRITE",
                     timed |-> timed]
    <3>1. r \in CallRecords /\ r.fd = n /\ r.event \in Events
      BY DEF CallRecords, Events
    <3>2. call' = [call EXCEPT ![f] = r]
      BY <2>1 DEF Connect, Begin
    <3>3. pc'[f] \in {"arm", "add"} /\ (pc'[f] = "arm" => r.timed)
      <4>1. CASE timed
        BY SMTT(30), <2>1, <1>a, <4>1 DEF Connect, Begin
      <4>2. CASE ~timed
        BY <2>1, <1>a, <4>2 DEF Connect, Begin
      <4> QED
        BY <4>1, <4>2
    <3> HIDE DEF r
    <3>4. call' \in [Fibers -> CallRecords] /\ call'[f] = r
      BY <3>1, <3>2, <1>a
    <3> QED
      BY <1>1, <1>5, <3>1, <3>3, <3>4
  <2>2. ASSUME NEW n \in Fds, NEW e \in Events, NEW timed \in BOOLEAN,
               Io(f, n, e, timed)
        PROVE  Shape'
    <3> DEFINE r == [op |-> "io", fd |-> n, event |-> e, timed |-> timed]
    <3>1. r \in CallRecords /\ r.fd = n /\ r.event = e
      BY DEF CallRecords
    <3>2. call' = [call EXCEPT ![f] = r] /\ pc'[f] = "try"
      BY <2>2, <1>a DEF Io, Begin
    <3> HIDE DEF r
    <3>3. call' \in [Fibers -> CallRecords] /\ call'[f] = r
      BY <3>1, <3>2, <1>a
    <3> QED
      BY <1>1, <1>5, <3>1, <3>2, <3>3
  <2>3. ASSUME NEW n \in Fds, Socket(f, n) \/ ConnectAtOnce(f, n)
        PROVE Shape'
    BY <2>3, <1>2 DEF Socket, ConnectAtOnce, callVars
  <2>4. CASE Sleep(f)
    <3> DEFINE r == [op |-> "sleep", fd |-> None, event |-> None,
                     timed |-> FALSE]
    <3>1. r \in CallRecords /\ r.fd = None /\ ~r.timed
      BY DEF CallRecords
    <3>2. call' = [call EXCEPT ![f] = r] /\ pc'[f] = "asleep"
      BY <2>4, <1>a DEF Sleep, Begin
    <3> HIDE DEF r
    <3>3. call' \in [Fibers -> CallRecords] /\ call'[f] = r
      BY <3>1, <3>2, <1>a
    <3> QED
      BY <1>1, <1>5, <3>1, <3>2, <3>3 DEF IoPhases
  <2>5. ASSUME NEW n \in Fds, Close(f, n) PROVE Shape'
    <3> DEFINE r == [op |-> "close", fd |-> n, event |-> "close",
                     timed |-> FALSE]
    <3>1. r \in CallRecords /\ r.fd = n /\ r.event = "close"
      BY DEF CallRecords
    <3>2. call' = [call EXCEPT ![f] = r] /\ pc'[f] = "del"
      BY <2>5, <1>a DEF Close, Begin
    <3> HIDE DEF r
    <3>3. call' \in [Fibers -> CallRecords] /\ call'[f] = r
      BY <3>1, <3>2, <1>a
    <3> QED
      BY <1>1, <1>5, <3>1, <3>2, <3>3 DEF IoPhases
  <2> QED
    BY <1>5, <2>1, <2>2, <2>3, <2>4, <2>5 DEF Calls
<1>6. ASSUME NEW f \in Fibers, Steps(f) PROVE Shape'
  <2>1. CASE TryReturns(f) \/ Check(f)
    BY <1>3, <1>6, <2>1 DEF TryReturns, Check
  <2>2. CASE TryBlocks(f)
    <3>1. PICK next \in {"arm", "add"} : /\ pc' = [pc EXCEPT ![f] = next]
                                         /\ next = "arm" => call[f].timed
      BY <2>2 DEF TryBlocks, Timed
    <3>2. pc[f] = "try" /\ UNCHANGED call
      BY <2>2 DEF TryBlocks, callVars
    <3> QED
      BY <1>4, <1>6, <3>1, <3>2 DEF IoPhases
  <2>3. CASE ArmTimer(f) \/ AddEvent(f)
    BY <1>4, <1>6, <2>3 DEF ArmTimer, AddEvent, callVars, IoPhases
  <2>4. CASE AddEventFails(f) \/ Woken(f)
    BY <1>3, <1>4, <1>6, <2>4
       DEF AddEventFails, Woken, Continue, callVars, IoPhases
  <2>5. CASE Del(f)
    <3>1. pc[f] = "del" /\ pc'[f] = "close" /\ UNCHANGED call
      BY <2>5, <1>a DEF Del, callVars
    <3>2. call[f].fd \in Fds /\ call[f].event = "close"
      BY <3>1 DEF HookInv, Shape
    <3> QED
      BY <1>1, <1>6, <1>c, <3>1, <3>2 DEF IoPhases
  <2>6. CASE CloseF(f)
    <3>1. pc'[f] = "idle" /\ call'[f] = NoCall
      BY <2>6, <1>a DEF CloseF
    <3>2. call' \in [Fibers -> CallRecords]
      BY <2>6, <1>a, <1>b DEF CloseF
    <3> QED
      BY <1>1, <1>6, <3>1, <3>2 DEF IoPhases
  <2> QED
    BY <1>6, <2>1, <2>2, <2>3, <2>4, <2>5, <2>6 DEF Steps
<1>7. ASSUME NEW f \in Fibers, Resume(f) PROVE Shape'
  BY <1>3, <1>4, <1>7
     DEF Resume, Continue, callVars, Suspended, IoPhases
<1> QED
  BY <1>2, <1>5, <1>6, <1>7
     DEF Next, Collect, Deliver, Expire, Callback, CallbackEnds,
         CallbackMarks, CallbackCancels, CallbackWakes, Kernel, Decide, Arrive,
         vars, callVars

LEMMA SlotsNext ==
  ASSUME HookInv, [Next]_vars
  PROVE  Slots' /\ QueuedSleep'
<1> DEFINE Goal == Slots /\ QueuedSleep
<1> USE HookAssumption
    DEF HookInv, kernelVars, tableVars, callVars, TypeOK, Slots, QueuedSleep,
        IoPhases, Suspended
<1>1. ASSUME NEW n \in Fds, NEW es \in SUBSET Events, NEW strays,
             Trigger(n, es, strays),
             \A f \in Fibers : pc[f] \in Suspended =>
                                 pc'[f] = pc[f] /\ call'[f] = call[f]
      PROVE  Goal'
  <2>1. /\ \A m \in Fds, e \in Events :
             slot'[m][e] = IF m = n /\ e \in es THEN None ELSE slot[m][e]
        /\ queued' = queued \cup {f \in Fibers : \E e \in es : slot[n][e] = f}
    BY <1>1, ClearedAt DEF Trigger
  <2>2. \A f \in Fibers, m \in Fds, e \in Events :
          slot'[m][e] = f => slot[m][e] = f /\ ~(m = n /\ e \in es)
    BY <2>1
  <2>3. ASSUME NEW f \in Fibers, NEW m \in Fds, NEW e \in Events,
               slot'[m][e] = f
        PROVE  /\ pc'[f] = "wait" /\ f \notin queued'
               /\ call'[f].fd = m /\ call'[f].event = e
    <3>1. slot[m][e] = f /\ ~(m = n /\ e \in es)
      BY <2>2, <2>3
    <3>2. \A d \in es : slot[n][d] # f
      BY SMTT(30), <3>1
    <3> QED
      BY <1>1, <2>1, <3>1, <3>2
  <2>4. QueuedSleep'
    BY <1>1, <2>1
  <2> QED
    BY <2>3, <2>4
<1>2. ASSUME NEW f \in Fibers, Calls(f) PROVE Goal'
  <2>1. ASSUME NEW n \in Fds, Close(f, n) PROVE Goal'
    <3>1. \A g \in Fibers : pc[g] \in Suspended =>
                              pc'[g] = pc[g] /\ call'[g] = call[g]
      BY <2>1 DEF Close, Begin, HookInv, Shape
    <3>2. \E es \in SUBSET Events : \E strays : Trigger(n, es, strays)
      BY <2>1, ChangedType DEF Close, AllEvents
    <3> HIDE DEF HookInv, Goal
    <3> QED
      BY <1>1, <3>1, <3>2
  <2>2. ASSUME NEW n \in Fds, NEW timed \in BOOLEAN, Connect(f, n, timed)
        PROVE  Goal'
    BY <2>2 DEF Connect, Begin, Shape
  <2>3. ASSUME NEW n \in Fds, NEW e \in Events, NEW timed \in BOOLEAN,
               Io(f, n, e, timed)
        PROVE  Goal'
    BY <2>3 DEF Io, Begin, Shape
  <2>4. ASSUME NEW n \in Fds, Socket(f, n) \/ ConnectAtOnce(f, n)
        PROVE Goal'
    <3>1. UNCHANGED <<slot, queued, pc, call>>
      BY <2>4 DEF Socket, ConnectAtOnce
    <3> QED
      BY SMTT(30), <3>1
  <2>5. CASE Sleep(f)
    BY <2>5 DEF Sleep, Begin, Shape
  <2> QED
    BY <1>2, <2>1, <2>2, <2>3, <2>4, <2>5 DEF Calls
<1>3. ASSUME NEW f \in Fibers, UNCHANGED <<slot, queued>>,
             pc[f] \notin Suspended,
             \A g \in Fibers \ {f} : pc'[g] = pc[g] /\ call'[g] = call[g]
      PROVE  Goal'
  <2>1. Slots'
    BY <1>3
  <2>2. QueuedSleep'
    BY <1>3
  <2> QED
    BY <2>1, <2>2
<1>4. ASSUME NEW f \in Fibers, Steps(f) PROVE Goal'
  <2>1. CASE AddEvent(f)
    <3>1. call[f].fd \in Fds /\ call[f].event \in Events
      BY <2>1 DEF AddEvent, Shape
    <3> QED
      BY <2>1, <3>1 DEF AddEvent
  <2>2. CASE TryBlocks(f) \/ ArmTimer(f) \/ Del(f) \/ CloseF(f)
    <3>1. \A g \in Fibers \ {f} : pc'[g] = pc[g] /\ call'[g] = call[g]
      BY <1>4, OthersStay
    <3>2. UNCHANGED <<slot, queued>> /\ pc[f] \notin Suspended
      BY <2>2 DEF TryBlocks, ArmTimer, Del, CloseF
    <3> QED
      BY <1>3, <3>1, <3>2
  <2>3. CASE TryReturns(f) \/ Check(f) \/ AddEventFails(f) \/ Woken(f)
    BY <2>3, <1>3 DEF TryReturns, Check, AddEventFails, Woken, Return,
                      Continue, Shape
  <2> QED
    BY <1>4, <2>1, <2>2, <2>3 DEF Steps
<1>5. ASSUME NEW f \in Fibers, Resume(f) PROVE Goal'
  BY <1>5 DEF Resume, Return, Continue, Shape
<1>6. ASSUME NEW p \in reports, Deliver(p) PROVE Goal'
  <2>1. p.fd \in Fds /\ p.events \in SUBSET Events
    BY ReportType
  <2>2. /\ \E es \in SUBSET Events : \E strays : Trigger(p.fd, es, strays)
        /\ UNCHANGED <<pc, call>>
    BY <1>6, <2>1, ChangedType DEF Deliver
  <2> HIDE DEF HookInv, Goal
  <2> QED
    BY <1>1, <2>1, <2>2
<1>7. ASSUME NEW c \in timers, Expire(c) \/ Callback(c) PROVE Goal'
  <2>1. CASE CallbackCancels(c)
    <3>1. c.event \in Events /\ c.fd \in Fds
      BY <2>1, CallbackTimer
    <3>2. \E es \in SUBSET Events : \E strays : Trigger(c.fd, es, strays)
      BY <2>1, <3>1, ChangedType DEF CallbackCancels, EventOf
    <3>3. UNCHANGED <<pc, call>>
      BY <2>1 DEF CallbackCancels
    <3> HIDE DEF Goal
    <3> QED
      BY <1>1, <3>1, <3>2, <3>3
  <2>2. CASE CallbackWakes(c)
    <3>1. c.fiber \in Fibers /\ pc[c.fiber] = "asleep"
      BY <2>2, CallbackTimer DEF CallbackWakes, Sleepers
    <3> QED
      BY <2>2, <3>1 DEF CallbackWakes
  <2>3. CASE Expire(c) \/ CallbackEnds(c) \/ CallbackMarks(c)
    BY <2>3 DEF Expire, CallbackEnds, CallbackMarks
  <2> QED
    BY <1>7, <2>1, <2>2, <2>3 DEF Callback
<1>8. CASE Kernel \/ (\E n \in Fds : Collect(n)) \/ UNCHANGED vars
  BY <1>8 DEF Kernel, Decide, Arrive, Collect, vars
<1> HIDE DEF HookInv, Slots, QueuedSleep
<1> QED
  BY <1>2, <1>4, <1>5, <1>6, <1>7, <1>8 DEF Next

----------------------------------------------------------------------------
LEMMA TimersNext ==
  ASSUME HookInv, [Next]_vars
  PROVE  Sleepers' /\ Armed' /\ Own'
<1> DEFINE Goal == Sleepers /\ Armed /\ Own
<1>a. ASSUME NEW c \in timers
      PROVE  c.fiber \in Fibers /\ c.seq \in Nat /\ c \in TimerRecords
  BY <1>a DEF HookInv, TypeOK, TimerRecords
<1>b. \A f \in Fibers : seq[f] \in Nat
  BY DEF HookInv, TypeOK
<1> USE HookAssumption
    DEF HookInv, kernelVars, tableVars, callVars, Sleepers, Armed, Own, Alive,
        Suspended
(* A call begins: the timers of earlier calls become those of a dead call. *)
<1>1. ASSUME NEW f \in Fibers, pc[f] = "idle",
             seq' = [seq EXCEPT ![f] = @ + 1],
             \A g \in Fibers \ {f} : pc'[g] = pc[g] /\ call'[g] = call[g],
             \A g \in queued' : g \in queued \/ pc[g] = "wait",
             timers' = timers
      PROVE  Goal'
  <2>1. \A g \in Fibers : seq'[g] = IF g = f THEN seq[f] + 1 ELSE seq[g]
    BY <1>1 DEF TypeOK
  <2>2. \A c \in timers : c.fiber = f => c.seq # seq'[f] /\ c.event # "SLEEP"
                                          /\ c.phase # "armed"
    BY <1>1, <1>a, <1>b, <2>1
  <2>3. Sleepers'
    BY <1>1, <1>a, <2>1, <2>2
  <2>4. Armed'
    BY <1>1, <1>a, <2>1, <2>2
  <2>5. Own'
    BY <1>1, <1>a, <1>b, <2>1, <2>2
  <2> QED
    BY <2>3, <2>4, <2>5
(* A call goes on or returns: no timer of it may be armed unless it waits. *)
<1>2. ASSUME NEW f \in Fibers, pc[f] # "asleep",
             \A g \in Fibers \ {f} : pc'[g] = pc[g] /\ call'[g] = call[g],
             pc'[f] = "idle" \/ call'[f] = call[f],
             pc[f] # "idle",
             UNCHANGED seq, queued' \subseteq queued,
             timers' \subseteq timers,
             \A c \in timers' : c.fiber = f /\ c.phase = "armed"
               => \/ pc[f] \notin {"add", "wait", "woken"}
                  \/ pc'[f] \in {"add", "wait", "woken"}
      PROVE  Goal'
  <2>1. Sleepers'
    BY <1>2, <1>a
  <2>2. Armed'
    BY <1>2, <1>a
  <2>3. Own'
    BY <1>2, <1>a
  <2> QED
    BY <2>1, <2>2, <2>3
<1>3. ASSUME NEW f \in Fibers, Calls(f) PROVE Goal'
  <2>1. ASSUME NEW n \in Fds, Close(f, n) PROVE Goal'
    <3>1. \A g \in queued' : g \in queued \/ pc[g] = "wait"
      BY <2>1, ClearedAt, ChangedType DEF Close, AllEvents, Slots, Trigger
    <3>2. \A g \in Fibers \ {f} : pc'[g] = pc[g] /\ call'[g] = call[g]
      BY <2>1 DEF Close, Begin, TypeOK, Shape
    <3> QED
      BY <1>1, <2>1, <3>1, <3>2 DEF Close, Begin
  <2>2. ASSUME NEW n \in Fds, NEW timed \in BOOLEAN, Connect(f, n, timed)
        PROVE  Goal'
    BY <2>2, <1>1 DEF Connect, Begin, TypeOK, Shape
  <2>3. ASSUME NEW n \in Fds, NEW e \in Events, NEW timed \in BOOLEAN,
               Io(f, n, e, timed)
        PROVE  Goal'
    BY <2>3, <1>1 DEF Io, Begin, TypeOK, Shape
  <2>4. ASSUME NEW n \in Fds, Socket(f, n) \/ ConnectAtOnce(f, n)
        PROVE Goal'
    BY <2>4 DEF Socket, ConnectAtOnce
  <2>5. CASE Sleep(f)
    <3> DEFINE t == [Timer(f, None, "SLEEP") EXCEPT !.seq = seq'[f]]
    <3>1. /\ timers' = timers \cup {t}
          /\ t.fiber = f /\ t.seq = seq[f] + 1
          /\ t.event = "SLEEP" /\ t.phase = "armed"
      BY <2>5 DEF Sleep, Begin, Timer, TypeOK
    <3> HIDE DEF t
    <3>2. /\ pc[f] = "idle" /\ f \notin queued' /\ queued' = queued
          /\ pc' = [pc EXCEPT ![f] = "asleep"]
          /\ \A g \in Fibers \ {f} : pc'[g] = pc[g] /\ call'[g] = call[g]
          /\ \A g \in Fibers : seq'[g] = IF g = f THEN seq[f] + 1 ELSE seq[g]
          /\ pc'[f] = "asleep"
      BY <2>5 DEF Sleep, Begin, TypeOK, Shape, QueuedSleep
    <3>3. \A c \in timers : c.fiber = f => c.seq # seq'[f] /\ c.event # "SLEEP"
                                            /\ c.phase # "armed"
      BY <1>a, <1>b, <3>2
    <3>4. Sleepers'
      BY <1>a, <3>1, <3>2, <3>3
    <3>5. Armed'
      BY <1>a, <3>1, <3>2, <3>3
    <3>6. Own'
      BY <1>a, <1>b, <3>1, <3>2, <3>3
    <3> QED
      BY <3>4, <3>5, <3>6
  <2> QED
    BY <1>3, <2>1, <2>2, <2>3, <2>4, <2>5 DEF Calls
<1>4. ASSUME NEW f \in Fibers, Steps(f) PROVE Goal'
  <2>1. CASE ArmTimer(f)
    <3> DEFINE t == Timer(f, call[f].fd, call[f].event)
    <3>1. /\ timers' = timers \cup {t}
          /\ t.fiber = f /\ t.seq = seq[f] /\ t.fd = call[f].fd
          /\ t.event = call[f].event /\ t.phase = "armed"
      BY <2>1 DEF ArmTimer, Timer
    <3> HIDE DEF t
    <3>2. /\ UNCHANGED <<seq, queued, call>> /\ pc[f] = "arm" /\ pc'[f] = "add"
          /\ \A g \in Fibers \ {f} : pc'[g] = pc[g]
          /\ call[f].timed /\ call[f].fd \in Fds /\ call[f].event # "SLEEP"
      BY <2>1 DEF ArmTimer, TypeOK, Shape, IoPhases, Events
    <3>4. Sleepers'
      BY <1>a, <3>1, <3>2
    <3>5. Armed'
      BY <1>a, <3>1, <3>2
    <3>6. Own'
      BY <1>a, <1>b, <3>1, <3>2
    <3> QED
      BY <3>4, <3>5, <3>6
  <2>2. CASE AddEvent(f) \/ TryBlocks(f) \/ Del(f) \/ CloseF(f)
    <3>1. \A g \in Fibers \ {f} : pc'[g] = pc[g] /\ call'[g] = call[g]
      BY <1>4, OthersStay
    <3>2. /\ pc[f] \in {"add", "try", "del", "close"}
          /\ UNCHANGED <<seq, queued, timers>>
      BY <2>2 DEF AddEvent, TryBlocks, Del, CloseF
    <3>3. /\ pc'[f] = "idle" \/ call'[f] = call[f]
          /\ pc[f] = "add" => pc'[f] = "wait"
      BY <2>2 DEF AddEvent, TryBlocks, Del, CloseF, TypeOK
    <3> HIDE DEF HookInv, Sleepers, Armed, Own, Goal
    <3> QED
      BY <1>2, <3>1, <3>2, <3>3
  <2>3. CASE TryReturns(f) \/ Check(f)
    <3>1. /\ pc[f] \in {"try", "check", "refused"}
          /\ \E r : Return(f, r)
          /\ UNCHANGED <<queued, timers>>
      BY <2>3 DEF TryReturns, Check
    <3> QED
      BY <3>1, <1>2 DEF Return, TypeOK, Shape
  <2>4. CASE AddEventFails(f) \/ Woken(f)
    BY <2>4, <1>2 DEF AddEventFails, Woken, Return, Continue, Disarmed, TypeOK,
                      Shape
  <2> QED
    BY <1>4, <2>1, <2>2, <2>3, <2>4 DEF Steps
<1>5. ASSUME NEW f \in Fibers, Resume(f) PROVE Goal'
  <2>1. CASE pc[f] = "wait"
    BY <1>2, <1>5, <2>1 DEF Resume, Continue, TypeOK
  <2>2. CASE pc[f] = "asleep"
    <3>1. /\ \A g \in Fibers \ {f} : pc'[g] = pc[g] /\ call'[g] = call[g]
          /\ pc'[f] = "idle" /\ UNCHANGED <<seq, timers>>
          /\ queued' = queued \ {f} /\ f \in queued
      BY <1>5, <2>2 DEF Resume, Return, TypeOK, Shape
    <3>2. \A c \in timers : c.fiber = f => c.event # "SLEEP" /\ c.phase # "armed"
      BY <1>a, <2>2, <3>1
    <3> QED
      BY <1>a, <3>1, <3>2
  <2> QED
    BY <1>5, <2>1, <2>2 DEF Resume
<1>6. ASSUME NEW p \in reports, Deliver(p) PROVE Goal'
  <2>1. p.fd \in Fds /\ p.events \in SUBSET Events
    BY ReportType
  <2>2. \A g \in queued' : g \in queued \/ pc[g] = "wait"
    BY <1>6, <2>1, ClearedAt, ChangedType DEF Deliver, Slots, Trigger
  <2> QED
    BY <1>6, <1>a, <2>2 DEF Deliver
<1>7. ASSUME NEW c \in timers, Expire(c) \/ Callback(c) PROVE Goal'
  <2>1. CASE CallbackCancels(c)
    <3>1. c.event \in Events /\ c.fd \in Fds
      BY <2>1, CallbackTimer
    <3>2. PICK es \in SUBSET Events : queued' = queued \cup Triggered(c.fd, es)
      BY <2>1, <3>1, ChangedType DEF CallbackCancels, EventOf, Trigger
    <3>3. \A g \in queued' : g \in queued \/ pc[g] = "wait"
      BY <3>1, <3>2, ClearedAt DEF Slots
    <3>4. /\ UNCHANGED <<pc, call, seq>>
          /\ timers' \subseteq timers
      BY <2>1 DEF CallbackCancels
    <3>5. Sleepers'
      BY <1>a, <3>3, <3>4
    <3> QED
      BY <1>a, <3>4, <3>5
  <2>2. CASE CallbackWakes(c)
    BY <2>2, <1>a DEF CallbackWakes
  <2>3. CASE Expire(c) \/ CallbackMarks(c)
    <3>1. \E d \in TimerRecords :
            /\ timers' = (timers \ {c}) \cup {d}
            /\ d.fiber = c.fiber /\ d.seq = c.seq /\ d.fd = c.fd
            /\ d.event = c.event /\ d.phase # "armed"
            /\ c.event = "SLEEP" => d.phase # "cancel"
      <4>1. /\ [c EXCEPT !.phase = "due"] \in TimerRecords
            /\ [c EXCEPT !.phase = "cancel"] \in TimerRecords
        BY <1>a DEF TimerRecords
      <4>2. CASE Expire(c)
        BY <4>1, <4>2, <1>a DEF Expire, TimerRecords
      <4>3. CASE CallbackMarks(c)
        BY <4>1, <4>3, <1>a DEF CallbackMarks, TimerRecords
      <4> QED
        BY <2>3, <4>2, <4>3
    <3>2. UNCHANGED <<pc, call, seq, queued>>
      BY <2>3 DEF Expire, CallbackMarks
    <3> QED
      BY <1>a, <3>1, <3>2
  <2>4. CASE CallbackEnds(c)
    BY <2>4, <1>a DEF CallbackEnds
  <2> QED
    BY <1>7, <2>1, <2>2, <2>3, <2>4 DEF Callback
<1>8. CASE Kernel \/ (\E n \in Fds : Collect(n)) \/ UNCHANGED vars
  BY <1>8 DEF Kernel, Decide, Arrive, Collect, vars
<1> HIDE DEF HookInv, Sleepers, Armed, Own
<1> QED
  BY <1>3, <1>4, <1>5, <1>6, <1>7, <1>8 DEF Next

----------------------------------------------------------------------------
LEMMA RegisteredNext ==
  ASSUME HookInv, [Next]_vars
  PROVE  Registered'
<1> USE HookAssumption
    DEF HookInv, kernelVars, tableVars, callVars, TypeOK, Registered, Suspended
(* Whoever waits unqueued has done so before, and keeps its slot. *)
<1>1. ASSUME slot' = slot,
             \A g \in Fibers : pc'[g] = "wait" /\ g \notin queued' =>
               pc[g] = "wait" /\ g \notin queued /\ call'[g] = call[g]
      PROVE  Registered'
  BY <1>1
<1>2. ASSUME NEW n \in Fds, NEW es \in SUBSET Events, NEW strays,
             Trigger(n, es, strays),
             \A g \in Fibers : pc'[g] = "wait" =>
               pc[g] = "wait" /\ call'[g] = call[g]
      PROVE  Registered'
  <2>1. /\ \A m \in Fds, e \in Events :
             slot'[m][e] = IF m = n /\ e \in es THEN None ELSE slot[m][e]
        /\ queued' = queued \cup {f \in Fibers : \E e \in es : slot[n][e] = f}
    BY <1>2, ClearedAt DEF Trigger
  <2>2. ASSUME NEW g \in Fibers, pc'[g] = "wait", g \notin queued'
        PROVE  slot'[call'[g].fd][call'[g].event] = g
    <3>1. /\ call'[g] = call[g] /\ pc[g] = "wait" /\ g \notin queued
          /\ slot[call[g].fd][call[g].event] = g
      BY <1>2, <2>1, <2>2
    <3>2. call[g].fd \in Fds /\ call[g].event \in Events
      BY <3>1 DEF Shape, IoPhases
    <3>3. ~(call[g].fd = n /\ call[g].event \in es)
      BY <2>1, <2>2, <3>1
    <3> QED
      BY <2>1, <3>1, <3>2, <3>3
  <2> QED
    BY <2>2
<1>3. ASSUME NEW f \in Fibers, Calls(f) PROVE Registered'
  <2>1. ASSUME NEW g \in Fibers, pc'[g] = "wait"
        PROVE  pc[g] = "wait" /\ call'[g] = call[g]
    <3>1. \/ UNCHANGED <<pc, call>>
          \/ /\ pc'[f] # "wait" /\ \A h \in Fibers \ {f} : pc'[h] = pc[h]
             /\ \A h \in Fibers \ {f} : call'[h] = call[h]
      BY <1>3 DEF Calls, Socket, ConnectAtOnce, Io, Connect, Close, Sleep,
                  Begin, Shape
    <3> QED
      BY <2>1, <3>1
  <2>2. ASSUME NEW n \in Fds, Close(f, n) PROVE Registered'
    <3>1. \E es \in SUBSET Events : \E strays : Trigger(n, es, strays)
      BY <2>2, ChangedType DEF Close, AllEvents
    <3> HIDE DEF HookInv, Registered
    <3> QED
      BY <1>2, <2>1, <3>1
  <2>3. CASE slot' = slot /\ queued' = queued
    <3> HIDE DEF HookInv, Registered
    <3> QED
      BY <1>1, <2>1, <2>3
  <2> QED
    BY <1>3, <2>2, <2>3 DEF Calls, Socket, ConnectAtOnce, Io, Connect, Sleep
<1>4. ASSUME NEW f \in Fibers, Steps(f) PROVE Registered'
  <2>1. \A g \in Fibers \ {f} : pc'[g] = pc[g] /\ call'[g] = call[g]
    BY <1>4, OthersStay
  <2>2. CASE AddEvent(f)
    <3>1. /\ pc[f] = "add" /\ call[f].fd \in Fds /\ call[f].event \in Events
          /\ UNCHANGED <<call, queued>>
          /\ slot[call[f].fd][call[f].event] = None
      BY <2>2 DEF AddEvent, Shape, IoPhases
    <3>2. \A n \in Fds, e \in Events :
            slot'[n][e] = IF n = call[f].fd /\ e = call[f].event
                            THEN f ELSE slot[n][e]
      BY <2>2, <3>1 DEF AddEvent
    <3>3. ASSUME NEW g \in Fibers \ {f}, pc'[g] = "wait", g \notin queued'
          PROVE  slot'[call'[g].fd][call'[g].event] = g
      <4>1. /\ call[g].fd \in Fds /\ call[g].event \in Events
            /\ slot[call[g].fd][call[g].event] = g
        BY <2>1, <3>1, <3>3 DEF Shape, IoPhases
      <4> QED
        BY <2>1, <3>1, <3>2, <3>3, <4>1
    <3>4. slot'[call'[f].fd][call'[f].event] = f
      BY <3>1, <3>2
    <3> QED
      BY <3>3, <3>4
  <2>3. CASE ~AddEvent(f)
    <3>1. slot' = slot /\ queued' = queued
      BY <1>4, <2>3 DEF Steps, TryReturns, TryBlocks, ArmTimer, AddEventFails,
                        Woken, Check, Del, CloseF
    <3>2. pc'[f] # "wait"
      BY <1>4, <2>3 DEF Steps, TryReturns, TryBlocks, ArmTimer, AddEventFails,
                        Woken, Check, Del, CloseF, Return, Continue
    <3> QED
      BY <1>1, <2>1, <3>1, <3>2
  <2> QED
    BY <2>2, <2>3
<1>5. ASSUME NEW f \in Fibers, Resume(f) PROVE Registered'
  <2>1. pc'[f] # "wait" /\ slot' = slot /\ queued' = queued \ {f}
    BY <1>5 DEF Resume, Return, Continue
  <2>2. \A g \in Fibers \ {f} : pc'[g] = pc[g] /\ call'[g] = call[g]
    BY <1>5, OthersStay
  <2> QED
    BY <1>1, <2>1, <2>2
<1>6. ASSUME NEW p \in reports, Deliver(p) PROVE Registered'
  <2>1. p.fd \in Fds /\ p.events \in SUBSET Events
    BY ReportType
  <2>2. /\ \E es \in SUBSET Events : \E strays : Trigger(p.fd, es, strays)
        /\ UNCHANGED <<pc, call>>
    BY <1>6, <2>1, ChangedType DEF Deliver
  <2> HIDE DEF HookInv, Registered
  <2> QED
    BY <1>2, <2>1, <2>2
<1>7. ASSUME NEW c \in timers, Expire(c) \/ Callback(c) PROVE Registered'
  <2>1. CASE CallbackCancels(c)
    <3>1. c.event \in Events /\ c.fd \in Fds
      BY <2>1, CallbackTimer
    <3>2. /\ \E es \in SUBSET Events : \E strays : Trigger(c.fd, es, strays)
          /\ UNCHANGED <<pc, call>>
      BY <2>1, <3>1, ChangedType DEF CallbackCancels, EventOf
    <3> HIDE DEF HookInv, Registered
    <3> QED
      BY <1>2, <3>1, <3>2
  <2>2. CASE ~CallbackCancels(c)
    <3>1. UNCHANGED <<slot, pc, call>> /\ queued \subseteq queued'
      BY <1>7, <2>2 DEF Expire, Callback, CallbackEnds, CallbackMarks,
                        CallbackWakes
    <3> QED
      BY <1>1, <3>1
  <2> QED
    BY <2>1, <2>2
<1>8. CASE Kernel \/ (\E n \in Fds : Collect(n)) \/ UNCHANGED vars
  BY <1>8 DEF Kernel, Decide, Arrive, Collect, vars
<1> HIDE DEF HookInv, Registered
<1> QED
  BY <1>3, <1>4, <1>5, <1>6, <1>7, <1>8 DEF Next

LEMMA MarkedNext ==
  ASSUME HookInv, [Next]_vars
  PROVE  Marked'
<1>a. ASSUME NEW c \in timers
      PROVE  c.fiber \in Fibers /\ c.seq \in Nat /\ c.seq <= seq[c.fiber]
  BY <1>a DEF HookInv, TypeOK, TimerRecords, Own
<1>b. \A f \in Fibers : seq[f] \in Nat
  BY DEF HookInv, TypeOK
<1>1. ASSUME \A c \in timers' : c.phase = "cancel" => c \in timers,
             \A g \in Fibers : \/ seq'[g] = seq[g] + 1
                               \/ pc'[g] = "idle"
                               \/ /\ seq'[g] = seq[g] /\ pc[g] # "idle"
                                  /\ cancelled[g] => cancelled'[g]
      PROVE  Marked'
  BY <1>1, <1>a, <1>b DEF HookInv, Marked, Alive
<1>2. ASSUME NEW f \in Fibers, Calls(f) \/ Steps(f) \/ Resume(f) PROVE Marked'
  <2>1. \A c \in timers' : c.phase = "cancel" => c \in timers
    <3>1. CASE Sleep(f)
      <4> DEFINE t == [Timer(f, None, "SLEEP") EXCEPT !.seq = seq'[f]]
      <4>1. t.phase = "armed"
        BY DEF Timer
      <4>2. timers' = timers \cup {t}
        BY <3>1 DEF Sleep
      <4> HIDE DEF t
      <4> QED
        BY <4>1, <4>2
    <3>2. CASE ArmTimer(f)
      BY <3>2 DEF ArmTimer, Timer
    <3>3. CASE ~Sleep(f) /\ ~ArmTimer(f)
      BY <1>2, <3>3
         DEF Calls, Socket, ConnectAtOnce, Io, Connect, Close, Steps,
             TryReturns, TryBlocks, AddEvent, AddEventFails, Woken, Check,
             Del, CloseF, Disarmed, Resume
    <3> QED
      BY <3>1, <3>2, <3>3
  <2>2. \A g \in Fibers \ {f} : /\ pc'[g] = pc[g] /\ seq'[g] = seq[g]
                                /\ cancelled'[g] = cancelled[g]
    BY <1>2, OthersStay
  <2>3. \/ seq'[f] = seq[f] + 1
        \/ pc'[f] = "idle"
        \/ /\ seq'[f] = seq[f] /\ pc[f] # "idle"
           /\ cancelled[f] => cancelled'[f]
    <3>1. CASE Calls(f)
      BY <3>1 DEF Calls, Socket, ConnectAtOnce, Io, Connect, Close, Sleep,
                  Begin, HookInv, TypeOK
    <3>2. CASE Steps(f)
      BY <3>2 DEF Steps, TryReturns, TryBlocks, ArmTimer, AddEvent,
                  AddEventFails, Woken, Check, Del, CloseF, Return, Continue,
                  callVars, HookInv, TypeOK
    <3>3. CASE Resume(f)
      BY <3>3 DEF Resume, Return, Continue, callVars, Suspended, HookInv,
                  TypeOK
    <3> QED
      BY <1>2, <3>1, <3>2, <3>3
  <2> QED
    BY <1>1, <2>1, <2>2, <2>3
<1>3. ASSUME NEW c \in timers, Expire(c) \/ Callback(c) PROVE Marked'
  <2>1. UNCHANGED <<pc, seq>>
    BY <1>3 DEF Expire, Callback, CallbackEnds, CallbackMarks, CallbackCancels,
                CallbackWakes, callVars
  <2>2. CASE CallbackMarks(c)
    <3> DEFINE d == [c EXCEPT !.phase = "cancel"]
    <3>1. d.fiber = c.fiber /\ timers' = (timers \ {c}) \cup {d}
      BY <2>2, CallbackTimer DEF CallbackMarks, TimerRecords
    <3>2. \A g \in Fibers :
            cancelled'[g] = IF g = c.fiber THEN TRUE ELSE cancelled[g]
      BY <2>2 DEF CallbackMarks, HookInv, TypeOK
    <3> HIDE DEF d
    <3> QED
      BY <1>a, <2>1, <3>1, <3>2 DEF HookInv, Marked, Alive
  <2>3. CASE ~CallbackMarks(c)
    <3>1. UNCHANGED cancelled
      BY <1>3, <2>3 DEF Expire, Callback, CallbackEnds, CallbackCancels,
                        CallbackWakes
    <3>2. \A d \in timers' : d.phase = "cancel" => d \in timers
      BY <1>3, <2>3, CallbackTimer
         DEF Expire, Callback, CallbackEnds, CallbackCancels, CallbackWakes,
             TimerRecords
    <3> QED
      BY <2>1, <3>1, <3>2 DEF HookInv, Marked, Alive
  <2> QED
    BY <2>2, <2>3
<1>4. CASE \/ Kernel \/ UNCHANGED vars
           \/ \E n \in Fds : Collect(n)
           \/ \E p \in reports : Deliver(p)
  <2>1. UNCHANGED <<pc, seq, cancelled, timers>>
    BY <1>4 DEF Kernel, Decide, Arrive, Collect, Deliver, vars, callVars
  <2> QED
    BY <2>1 DEF HookInv, Marked, Alive
<1> QED
  BY <1>2, <1>3, <1>4 DEF Next

----------------------------------------------------------------------------
LEMMA HookInvHolds == Spec => []HookInv
<1>1. Init => HookInv
  <2> SUFFICES ASSUME Init PROVE HookInv
    OBVIOUS
  <2> USE HookAssumption DEF Init
  <2>1. TypeOK
    <3>1. /\ sock \in [Fds -> SockStates] /\ ready \in [Fds -> SUBSET Events]
          /\ managed \subseteq Fds /\ queued \subseteq Fibers
          /\ stale \subseteq Fibers /\ timers \subseteq TimerRecords
          /\ polled \subseteq Fds
          /\ reports \subseteq [fd : Fds, events : SUBSET Events]
      BY DEF SockStates
    <3>2. /\ slot \in [Fds -> [Events -> Fibers \cup {None}]]
          /\ seq \in [Fibers -> Nat]
          /\ history \in [Fibers -> SUBSET {"late", "spent", "stray"}]
      OBVIOUS
    <3>3. pc \in [Fibers -> Suspended \cup {"idle", "try", "arm", "add", "woken",
                                       "check", "refused", "del", "close"}]
      OBVIOUS
    <3>4. cancelled \in [Fibers -> BOOLEAN]
      OBVIOUS
    <3> QED
      BY <3>1, <3>2, <3>3, <3>4 DEF TypeOK
  <2>2. Shape
    <3>1. NoCall \in CallRecords
      BY DEF NoCall, CallRecords
    <3> QED
      BY <3>1 DEF Shape, IoPhases
  <2>3. /\ Slots /\ QueuedSleep /\ Registered
        /\ Sleepers /\ Armed /\ Own /\ Marked
    BY DEF Slots, QueuedSleep, Registered, Sleepers, Armed, Own, Marked
  <2> QED
    BY <2>1, <2>2, <2>3 DEF HookInv
<1>2. HookInv /\ [Next]_vars => HookInv'
  BY TypeNext, ShapeNext, SlotsNext, RegisteredNext, TimersNext, MarkedNext
     DEF HookInv
<1> QED
  BY <1>1, <1>2, PTL DEF Spec

(***************************************************************************)
(* No call leaves an armed timer behind, whichever way it returns (do_io,  *)
(* connect_with_timeout and sleep of hook.cc), with any number of threads  *)
(* and whatever numbers the kernel reuses.                                 *)
(***************************************************************************)
THEOREM NoOrphanTimerCorrect == Spec => []NoOrphanTimer
<1>1. HookInv => NoOrphanTimer
  BY DEF HookInv, Sleepers, Armed, NoOrphanTimer, Alive
<1> QED
  BY <1>1, HookInvHolds, PTL

(***************************************************************************)
(* The callback of do_io's or connect's timer marks a call as timed out    *)
(* (hook.cc:123-127, 253-257) only if that call armed it: winfo.lock()     *)
(* keeps the callback of an earlier call off a later one.                  *)
(***************************************************************************)
THEOREM TimeoutIsOwnCorrect == Spec => TimeoutIsOwn
<1> DEFINE Timing(f) == \E c \in timers : c.fiber = f /\ c.seq = seq[f]
                                       /\ call[f].timed
<1>1. ASSUME HookInv, [Next]_vars, NEW f \in Fibers, cancelled'[f], ~cancelled[f]
      PROVE  Timing(f)
  <2>1. ASSUME NEW g \in Fibers, Calls(g) \/ Steps(g) \/ Resume(g)
        PROVE  FALSE
    <3>1. \A r : Return(g, r) => (cancelled'[f] => cancelled[f])
      BY DEF Return, HookInv, TypeOK
    <3>2. CASE Calls(g)
      BY <1>1, <3>2 DEF Calls, Socket, Io, ConnectAtOnce, Connect, Sleep, Close,
                        Begin
    <3>3. CASE Steps(g)
      BY <1>1, <3>1, <3>3
         DEF Steps, TryReturns, TryBlocks, ArmTimer, AddEvent, AddEventFails,
             Woken, Check, Del, CloseF, Continue
    <3>4. CASE Resume(g)
      BY <1>1, <3>1, <3>4 DEF Resume, Continue
    <3> QED
      BY <2>1, <3>2, <3>3, <3>4
  <2>2. \A c \in timers : CallbackMarks(c) =>
          Alive(c) /\ c.event # "SLEEP" /\ c.fiber = f
    BY <1>1 DEF CallbackMarks, HookInv, TypeOK
  <2>3. \A c \in timers : Expire(c) \/ CallbackEnds(c) \/ CallbackCancels(c)
                            \/ CallbackWakes(c) => UNCHANGED cancelled
    BY DEF Expire, CallbackEnds, CallbackCancels, CallbackWakes
  <2>4. (\E p \in reports : Deliver(p)) \/ (\E n \in Fds : Collect(n))
          \/ Kernel \/ UNCHANGED vars => UNCHANGED cancelled
    BY DEF Deliver, Collect, Kernel, Decide, Arrive, vars
  <2>5. PICK c \in timers : CallbackMarks(c)
    <3>1. ~UNCHANGED cancelled
      BY <1>1
    <3> QED
      BY <1>1, <2>1, <2>3, <2>4, <3>1 DEF Next, Callback
  <2> QED
    BY <1>1, <2>2, <2>5 DEF HookInv, Own, Alive
<1>2. HookInv /\ [Next]_vars =>
        [\A f \in Fibers : cancelled'[f] /\ ~cancelled[f] =>
           \E c \in timers : c.fiber = f /\ c.seq = seq[f] /\ call[f].timed]_vars
  BY <1>1
<1> QED
  BY <1>2, HookInvHolds, PTL DEF Spec, TimeoutIsOwn

----------------------------------------------------------------------------
(***************************************************************************)
(* If the kernel gives no number away that a suspended call still holds, a *)
(* socket has one reader, one writer and one closer, and a call that       *)
(* outlives its socket finds its number unmanaged.                         *)
(***************************************************************************)
Users ==
  /\ \A f, g \in Fibers :
       call[f].fd \in Fds /\ call[f].fd = call[g].fd
         /\ call[f].event = call[g].event => f = g
  /\ \A f \in stale : pc[f] \in IoPhases /\ call[f].fd \notin managed
  /\ \A f \in Fibers : pc[f] = "close" => call[f].fd \notin managed

LEMMA UsersNext ==
  ASSUME HookInv, Users, ~HeldReuse, [Next]_vars
  PROVE  Users'
<1> USE HookAssumption
    DEF HookInv, kernelVars, tableVars, callVars, TypeOK, Shape, Users,
        Suspended
<1>1. ASSUME NEW f \in Fibers, pc[f] = "idle",
             NEW n \in Fds \cup {None}, NEW e,
             n \in Fds => n \in managed /\ ~InUse(n, e),
             \A g \in Fibers \ {f} : pc'[g] = pc[g] /\ call'[g] = call[g],
             call'[f].fd = n, call'[f].event = e, pc'[f] # "close",
             UNCHANGED <<managed, stale>>
      PROVE  Users'
  <2>1. \A g \in Fibers : call[g].fd = n /\ call[g].event = e => n \notin Fds
    BY <1>1 DEF InUse
  <2>2. f \notin stale
    BY <1>1 DEF IoPhases
  <2>3. \A g \in stale' : pc'[g] \in IoPhases /\ call'[g].fd \notin managed'
    BY <1>1, <2>2
  <2>4. \A g \in Fibers : pc'[g] = "close" => call'[g].fd \notin managed'
    BY <1>1
  <2>5. \A g, h \in Fibers :
          call'[g].fd \in Fds /\ call'[g].fd = call'[h].fd
            /\ call'[g].event = call'[h].event => g = h
    BY <1>1, <2>1
  <2> QED
    BY <2>3, <2>4, <2>5
<1>2. ASSUME NEW f \in Fibers,
             \A g \in Fibers \ {f} : pc'[g] = pc[g] /\ call'[g] = call[g],
             \/ call'[f].fd = None /\ pc'[f] = "idle" /\ stale' = stale \ {f}
             \/ /\ pc[f] \in IoPhases /\ pc'[f] \in IoPhases
                /\ call'[f] = call[f] /\ stale' = stale,
             UNCHANGED managed
      PROVE  Users'
  <2>1. \A g \in stale' : pc'[g] \in IoPhases /\ call'[g].fd \notin managed'
    BY <1>2
  <2>2. \A g \in Fibers : pc'[g] = "close" => call'[g].fd \notin managed'
    BY <1>2 DEF IoPhases
  <2>3. \A g, h \in Fibers :
          call'[g].fd \in Fds /\ call'[g].fd = call'[h].fd
            /\ call'[g].event = call'[h].event => g = h
    BY <1>2
  <2> QED
    BY <2>1, <2>2, <2>3
<1>3. ASSUME NEW f \in Fibers, Calls(f) PROVE Users'
  <2>1. ASSUME NEW n \in Fds, Close(f, n) PROVE Users'
    BY <2>1, <1>1 DEF Close, Begin
  <2>2. ASSUME NEW n \in Fds, NEW timed \in BOOLEAN, Connect(f, n, timed)
        PROVE  Users'
    BY <2>2, <1>1 DEF Connect, Begin
  <2>3. ASSUME NEW n \in Fds, NEW e \in Events, NEW timed \in BOOLEAN,
               Io(f, n, e, timed)
        PROVE  Users'
    BY <2>3, <1>1 DEF Io, Begin
  <2>4. ASSUME NEW n \in Fds, Socket(f, n) \/ ConnectAtOnce(f, n)
        PROVE Users'
    BY <2>4 DEF Socket, ConnectAtOnce
  <2>5. CASE Sleep(f)
    BY <2>5, <1>1 DEF Sleep, Begin
  <2> QED
    BY <1>3, <2>1, <2>2, <2>3, <2>4, <2>5 DEF Calls
<1>4. ASSUME NEW f \in Fibers, Steps(f) PROVE Users'
  <2>1. CASE TryBlocks(f) \/ ArmTimer(f) \/ AddEvent(f)
    BY SMTT(30), <2>1, <1>2 DEF TryBlocks, ArmTimer, AddEvent, IoPhases
  <2>2. CASE TryReturns(f) \/ Check(f)
    BY SMTT(30), <2>2, <1>2 DEF TryReturns, Check, Return, NoCall
  <2>3. CASE AddEventFails(f) \/ Woken(f)
    BY <2>3, <1>2 DEF AddEventFails, Woken, Return, Continue, IoPhases, NoCall
  <2>4. CASE Del(f)
    BY <2>4 DEF Del, IoPhases
  <2>5. CASE CloseF(f)
    <3>0. /\ pc[f] = "close" /\ call[f].fd \in Fds /\ call[f].event = "close"
          /\ call[f].fd \notin managed /\ f \notin stale
      BY <2>5 DEF CloseF, IoPhases
    <3>1. ASSUME NEW g \in Fibers \ {f}, call[g].fd = call[f].fd
          PROVE  pc[g] \in IoPhases
      <4>1. call[g].event # "close"
        BY <3>0, <3>1
      <4>2. pc[g] \notin {"idle", "asleep", "del", "close"}
        BY <3>0, <3>1, <4>1 DEF NoCall
      <4> QED
        BY <4>2 DEF IoPhases
    <3>2. /\ \A g \in Fibers \ {f} : pc'[g] = pc[g] /\ call'[g] = call[g]
          /\ call'[f].fd = None /\ pc'[f] = "idle" /\ managed' = managed
          /\ stale' = stale \cup {g \in Fibers \ {f} : call[g].fd = call[f].fd}
          /\ call[f].fd \notin managed /\ f \notin stale
      BY <2>5, <3>0 DEF CloseF, NoCall
    <3>3. \A g \in stale' : pc'[g] \in IoPhases /\ call'[g].fd \notin managed'
      BY <3>1, <3>2
    <3>4. \A g \in Fibers : pc'[g] = "close" => call'[g].fd \notin managed'
      BY <3>2
    <3>5. \A g, h \in Fibers :
            call'[g].fd \in Fds /\ call'[g].fd = call'[h].fd
              /\ call'[g].event = call'[h].event => g = h
      BY <3>2
    <3> QED
      BY <3>3, <3>4, <3>5
  <2> QED
    BY <1>4, <2>1, <2>2, <2>3, <2>4, <2>5 DEF Steps
<1>5. ASSUME NEW f \in Fibers, Resume(f) PROVE Users'
  BY <1>5, <1>2 DEF Resume, Return, Continue, IoPhases, NoCall
<1>6. ASSUME NEW p \in reports, Deliver(p) PROVE Users'
  BY <1>6 DEF Deliver
<1>7. ASSUME NEW c \in timers, Expire(c) \/ Callback(c) PROVE Users'
  BY <1>7 DEF Expire, Callback, CallbackEnds, CallbackMarks, CallbackCancels,
              CallbackWakes
<1>8. CASE Kernel \/ (\E n \in Fds : Collect(n)) \/ UNCHANGED vars
  BY <1>8 DEF Kernel, Decide, Arrive, Collect, vars
<1> HIDE DEF HookInv, Users
<1> QED
  BY <1>3, <1>4, <1>5, <1>6, <1>7, <1>8 DEF Next

LEMMA UsersHold == ~HeldReuse => (Spec => [](HookInv /\ Users))
<1> SUFFICES ASSUME ~HeldReuse PROVE Spec => [](HookInv /\ Users)
  OBVIOUS
<1>1. Init => Users
  BY HookAssumption DEF Init, Users, NoCall
<1>2. HookInv /\ Users /\ [Next]_vars => Users'
  BY UsersNext
<1> QED
  BY <1>1, <1>2, HookInvHolds, PTL DEF Spec

(***************************************************************************)
(* If no held number is reused: every fiber in the run queue is suspended  *)
(* and registered nowhere, and addEvent's assertion (iomanager.cc:164-168) *)
(* holds, for any number of threads.                                       *)
(***************************************************************************)
THEOREM WaitersConsistentCorrect ==
  ~HeldReuse => (Spec => []WaitersConsistent)
<1>1. HookInv /\ Users => WaitersConsistent
  <2> SUFFICES ASSUME HookInv, Users PROVE WaitersConsistent
    OBVIOUS
  <2>1. WokenOnce
    BY HookAssumption DEF HookInv, TypeOK, Slots, QueuedSleep, WokenOnce
  <2>2. ASSUME NEW f \in Fibers, pc[f] = "add"
        PROVE  slot[call[f].fd][call[f].event] = None
    <3>1. call[f].fd \in Fds /\ call[f].event \in Events
      BY <2>2 DEF HookInv, Shape, IoPhases
    <3>2. slot[call[f].fd][call[f].event] \in Fibers \cup {None}
      BY <3>1 DEF HookInv, TypeOK
    <3>3. \A g \in Fibers : slot[call[f].fd][call[f].event] # g
      BY <2>2, <3>1 DEF HookInv, Slots, Users
    <3> QED
      BY <3>2, <3>3
  <2> QED
    BY <2>1, <2>2 DEF HookInv, WaitersConsistent, AddsOnce
<1> QED
  BY <1>1, UsersHold, PTL

----------------------------------------------------------------------------
(***************************************************************************)
(* A number is in the epoll set as long as somebody is registered there    *)
(* who came in time: whoever a close() has not woken by the time it gives  *)
(* up the number has registered after its cancelAll.                       *)
(***************************************************************************)
Known ==
  /\ \A n \in polled : sock[n] # "closed"
  /\ \A n \in Fds, e \in Events, f \in Fibers :
       slot[n][e] = f /\ "late" \notin history[f] => n \in polled
  /\ \A g \in Fibers : pc[g] \in {"del", "close"} =>
       \A e \in Events, f \in Fibers :
         slot[call[g].fd][e] = f => "late" \in history[f]

LEMMA KnownNext ==
  ASSUME HookInv, Known, [Next]_vars
  PROVE  Known'
<1> USE HookAssumption
    DEF HookInv, kernelVars, tableVars, callVars, TypeOK, Known
(* A step that registers nobody and closes nothing. *)
<1>1. ASSUME UNCHANGED <<slot, polled>>,
             \A n \in Fds : sock'[n] = "closed" => sock[n] = "closed",
             \A f \in Fibers : pc[f] = "wait" => history'[f] = history[f],
             \A g \in Fibers : pc'[g] \in {"del", "close"} =>
               pc[g] \in {"del", "close"} /\ call'[g] = call[g]
      PROVE  Known'
  <2>1. \A n \in Fds, e \in Events, f \in Fibers :
          slot[n][e] = f => history'[f] = history[f]
    BY <1>1 DEF Slots
  <2>2. \A g \in Fibers : pc[g] \in {"del", "close"} => call[g].fd \in Fds
    BY DEF Shape
  <2> QED
    BY SMTT(30), <1>1, <2>1, <2>2
(* Wake-ups; close() begins with one. *)
<1>2. ASSUME NEW n \in Fds, NEW es \in SUBSET Events, NEW strays,
             Trigger(n, es, strays), sock' = sock,
             \A g \in Fibers : pc'[g] \in {"del", "close"} =>
               \/ pc[g] \in {"del", "close"} /\ call'[g] = call[g]
               \/ /\ call'[g].fd = n
                  /\ n \in polled => es = Events
      PROVE  Known'
  <2>1. /\ \A m \in Fds, e \in Events :
             slot'[m][e] = IF m = n /\ e \in es THEN None ELSE slot[m][e]
        /\ \A f \in Fibers : "late" \in history'[f] <=> "late" \in history[f]
        /\ polled' = polled \/ /\ polled' = polled \ {n}
                               /\ \A e \in Events \ es : slot[n][e] = None
    BY <1>2, ClearedAt DEF Trigger
  <2>2. \A m \in polled' : sock'[m] # "closed"
    BY <1>2, <2>1
  <2>3. \A m \in Fds, e \in Events, f \in Fibers :
          slot'[m][e] = f => slot[m][e] = f /\ ~(m = n /\ e \in es)
    BY <2>1
  <2>4. \A m \in Fds, e \in Events, f \in Fibers :
          slot'[m][e] = f /\ "late" \notin history'[f] => m \in polled'
    BY <2>1, <2>3
  <2>5. ASSUME NEW g \in Fibers, pc'[g] \in {"del", "close"},
               NEW e \in Events, NEW f \in Fibers,
               slot'[call'[g].fd][e] = f
        PROVE  "late" \in history'[f]
    <3>1. CASE pc[g] \in {"del", "close"} /\ call'[g] = call[g]
      BY <2>1, <2>3, <2>5, <3>1 DEF Shape
    <3>2. CASE call'[g].fd = n /\ (n \in polled => es = Events)
      BY <2>1, <2>3, <2>5, <3>2
    <3> QED
      BY <1>2, <2>5, <3>1, <3>2
  <2> QED
    BY <2>2, <2>4, <2>5
<1>3. ASSUME NEW f \in Fibers, Calls(f) PROVE Known'
  <2>1. \A g \in Fibers \ {f} : pc'[g] = pc[g] /\ call'[g] = call[g]
    BY <1>3, OthersStay
  <2>2. ASSUME NEW n \in Fds, Close(f, n) PROVE Known'
    <3> DEFINE es == Changed(n, AllEvents)
    <3>1. /\ Trigger(n, es, Triggered(n, es))
          /\ sock' = sock /\ call'[f].fd = n
      BY <2>2 DEF Close, Begin, Shape
    <3>2. es \in SUBSET Events /\ (n \in polled => es = Events)
      BY DEF Changed, AllEvents
    <3> HIDE DEF es, HookInv, Known
    <3> QED
      BY <1>2, <2>1, <3>1, <3>2
  <2>3. ASSUME NEW n \in Fds, Socket(f, n) \/ ConnectAtOnce(f, n)
                 \/ \E timed \in BOOLEAN : Connect(f, n, timed)
        PROVE  Known'
    <3>1. /\ UNCHANGED <<slot, polled, history>>
          /\ \A m \in Fds : sock'[m] = "closed" => sock[m] = "closed"
          /\ pc'[f] = pc[f] \/ pc'[f] \in {"arm", "add"}
          /\ pc[f] = "idle"
      BY <2>3 DEF Socket, ConnectAtOnce, Connect, Begin
    <3> QED
      BY <1>1, <2>1, <3>1
  <2>4. CASE Sleep(f) \/ \E n \in Fds, e \in Events, timed \in BOOLEAN :
                           Io(f, n, e, timed)
    <3>1. /\ UNCHANGED <<sock, slot, polled, history>>
          /\ pc'[f] \in {"asleep", "try"}
      BY <2>4 DEF Sleep, Io, Begin
    <3> QED
      BY <1>1, <2>1, <3>1
  <2> QED
    BY <1>3, <2>2, <2>3, <2>4 DEF Calls
<1>4. ASSUME NEW f \in Fibers, Steps(f) PROVE Known'
  <2>1. \A g \in Fibers \ {f} : pc'[g] = pc[g] /\ call'[g] = call[g]
    BY <1>4, OthersStay
  <2>2. CASE AddEvent(f)
    <3>1. /\ pc[f] = "add" /\ pc'[f] = "wait" /\ UNCHANGED <<sock, call>>
          /\ call[f].fd \in Fds /\ call[f].event \in Events
          /\ sock[call[f].fd] # "closed"
          /\ polled' = polled \cup {call[f].fd}
      BY <2>2 DEF AddEvent, Shape, IoPhases
    <3>2. \A n \in Fds, e \in Events :
            slot'[n][e] = IF n = call[f].fd /\ e = call[f].event
                            THEN f ELSE slot[n][e]
      BY <2>2, <3>1 DEF AddEvent
    <3>3. \A g \in Fibers :
            history'[g] = IF g = f THEN Lateness(f) ELSE history[g]
      BY <2>2 DEF AddEvent
    <3>4. \A n \in Fds, e \in Events : slot[n][e] # f
      BY <3>1 DEF Slots
    <3>5. \A g \in Fibers : pc[g] \in {"del", "close"} /\ call[g].fd = call[f].fd
            => "late" \in history'[f]
      BY <3>3 DEF Lateness, BeingClosed
    <3>6. \A g \in Fibers : pc[g] \in {"del", "close"} => call[g].fd \in Fds
      BY DEF Shape
    <3>7. \A n \in polled' : sock'[n] # "closed"
      BY <3>1
    <3>8. \A n \in Fds, e \in Events, g \in Fibers :
            slot'[n][e] = g /\ "late" \notin history'[g] => n \in polled'
      BY <3>1, <3>2, <3>3, <3>4
    <3>9. \A g \in Fibers : pc'[g] \in {"del", "close"} =>
            \A e \in Events, h \in Fibers :
              slot'[call'[g].fd][e] = h => "late" \in history'[h]
      <4> SUFFICES ASSUME NEW g \in Fibers, pc'[g] \in {"del", "close"},
                          NEW e \in Events, NEW h \in Fibers,
                          slot'[call'[g].fd][e] = h
                   PROVE  "late" \in history'[h]
        OBVIOUS
      <4>1. /\ g # f /\ pc[g] \in {"del", "close"} /\ call'[g] = call[g]
            /\ call[g].fd \in Fds
        BY <2>1, <3>1, <3>6
      <4>2. CASE h = f
        <5>1. call[g].fd = call[f].fd
          BY <3>2, <3>4, <4>1, <4>2
        <5> QED
          BY <3>5, <4>1, <4>2, <5>1
      <4>3. CASE h # f
        <5>1. slot[call[g].fd][e] = h
          BY <3>2, <4>1, <4>3
        <5> QED
          BY <3>3, <4>1, <4>3, <5>1
      <4> QED
        BY <4>2, <4>3
    <3> QED
      BY <3>7, <3>8, <3>9
  <2>3. CASE CloseF(f)
    <3>1. /\ pc[f] = "close" /\ call[f].fd \in Fds /\ pc'[f] = "idle"
          /\ polled' = polled \ {call[f].fd} /\ UNCHANGED <<slot, history>>
          /\ \A n \in Fds : n # call[f].fd => sock'[n] = sock[n]
      BY <2>3 DEF CloseF, Shape
    <3>2. \A g \in Fibers : pc[g] \in {"del", "close"} => call[g].fd \in Fds
      BY DEF Shape
    <3>3. \A n \in polled' : sock'[n] # "closed"
      BY <3>1
    <3>4. \A n \in Fds, e \in Events, g \in Fibers :
            slot'[n][e] = g /\ "late" \notin history'[g] => n \in polled'
      BY <3>1
    <3>5. \A g \in Fibers : pc'[g] \in {"del", "close"} =>
            \A e \in Events, h \in Fibers :
              slot'[call'[g].fd][e] = h => "late" \in history'[h]
      <4>1. \A g \in Fibers : pc'[g] \in {"del", "close"} =>
              g # f /\ pc[g] = pc'[g] /\ call'[g] = call[g]
        BY <2>1, <3>1
      <4> QED
        BY <3>1, <4>1
    <3> QED
      BY <3>3, <3>4, <3>5
  <2>4. CASE Del(f)
    <3>1. /\ UNCHANGED <<slot, polled, sock, history, call>>
          /\ pc[f] = "del"
      BY <2>4 DEF Del
    <3> QED
      BY <1>1, <2>1, <3>1
  <2>5. CASE TryReturns(f) \/ Check(f) \/ AddEventFails(f) \/ Woken(f)
    <3>1. /\ UNCHANGED <<slot, polled>> /\ pc[f] # "wait"
          /\ \A n \in Fds : sock'[n] = "closed" => sock[n] = "closed"
      BY <2>5 DEF TryReturns, Check, AddEventFails, Woken
    <3>2. /\ pc'[f] \in {"idle", "refused", "try", "check"}
          /\ \A g \in Fibers \ {f} : history'[g] = history[g]
      BY <2>5 DEF TryReturns, Check, AddEventFails, Woken, Return, Continue
    <3> QED
      BY <1>1, <2>1, <3>1, <3>2
  <2>6. CASE TryBlocks(f) \/ ArmTimer(f)
    <3>1. /\ UNCHANGED <<slot, polled, sock, history>>
          /\ pc'[f] \in {"arm", "add"}
      BY <2>6 DEF TryBlocks, ArmTimer
    <3> QED
      BY <1>1, <2>1, <3>1
  <2> QED
    BY <1>4, <2>2, <2>3, <2>4, <2>5, <2>6 DEF Steps
<1>5. ASSUME NEW f \in Fibers, Resume(f) PROVE Known'
  <2>1. /\ UNCHANGED <<slot, polled, sock>>
        /\ \A g \in Fibers \ {f} : history'[g] = history[g]
        /\ pc[f] = "wait" => UNCHANGED history
        /\ pc'[f] \in {"idle", "woken"}
    BY <1>5 DEF Resume, Return, Continue, Suspended
  <2>2. \A g \in Fibers \ {f} : pc'[g] = pc[g] /\ call'[g] = call[g]
    BY <1>5, OthersStay
  <2> QED
    BY <1>1, <2>1, <2>2
<1>6. ASSUME NEW p \in reports, Deliver(p) PROVE Known'
  <2>1. p.fd \in Fds /\ p.events \in SUBSET Events
    BY ReportType
  <2>2. /\ \E es \in SUBSET Events : \E strays : Trigger(p.fd, es, strays)
        /\ UNCHANGED <<sock, pc, call>>
    BY <1>6, <2>1, ChangedType DEF Deliver
  <2> HIDE DEF HookInv, Known
  <2> QED
    BY <1>2, <2>1, <2>2
<1>7. ASSUME NEW c \in timers, Expire(c) \/ Callback(c) PROVE Known'
  <2>1. CASE CallbackCancels(c)
    <3>1. c.event \in Events /\ c.fd \in Fds
      BY <2>1, CallbackTimer
    <3>2. /\ \E es \in SUBSET Events : \E strays : Trigger(c.fd, es, strays)
          /\ UNCHANGED <<sock, pc, call>>
      BY <2>1, <3>1, ChangedType DEF CallbackCancels, EventOf
    <3> HIDE DEF HookInv, Known
    <3> QED
      BY <1>2, <3>1, <3>2
  <2>2. CASE ~CallbackCancels(c)
    <3>1. UNCHANGED <<slot, polled, sock, history, pc, call>>
      BY <1>7, <2>2 DEF Expire, Callback, CallbackEnds, CallbackMarks,
                        CallbackWakes
    <3> QED
      BY <1>1, <3>1
  <2> QED
    BY <2>1, <2>2
<1>8. CASE Kernel \/ (\E n \in Fds : Collect(n)) \/ UNCHANGED vars
  <2>1. /\ UNCHANGED <<slot, polled, history, pc, call>>
        /\ \A n \in Fds : sock'[n] = "closed" => sock[n] = "closed"
    BY <1>8 DEF Kernel, Decide, Arrive, Collect, vars
  <2> QED
    BY <1>1, <2>1
<1> HIDE DEF HookInv, Known
<1> QED
  BY <1>3, <1>4, <1>5, <1>6, <1>7, <1>8 DEF Next

LEMMA KnownHolds == Spec => [](HookInv /\ Known)
<1>1. Init => Known
  BY HookAssumption DEF Init, Known
<1>2. HookInv /\ Known /\ [Next]_vars => Known'
  BY KnownNext
<1> QED
  BY <1>1, <1>2, HookInvHolds, PTL DEF Spec

(***************************************************************************)
(* close() (hook.cc:344) leaves no fiber registered on a number it has     *)
(* closed, except one that registered after its cancelAll, for any number  *)
(* of threads and whatever numbers the kernel reuses.                      *)
(***************************************************************************)
THEOREM CloseWakesWaitersCorrect == Spec => []CloseWakesWaiters
<1>1. HookInv /\ Known => CloseWakesWaiters
  BY DEF HookInv, TypeOK, Known, CloseWakesWaiters
<1> QED
  BY <1>1, KnownHolds, PTL

----------------------------------------------------------------------------
(* A timed wait that began in time has a callback to come, or is queued.   *)
Covered ==
  \A f \in Fibers : pc[f] = "wait" /\ call[f].timed /\ f \notin queued
                      /\ InTime(f) => \E c \in timers : WillTimeOut(f, c)

LEMMA CoveredNext ==
  ASSUME HookInv, Known, Covered, [Next]_vars
  PROVE  Covered'
<1>a. ASSUME NEW c \in timers
      PROVE  c.fiber \in Fibers /\ c \in TimerRecords
  BY <1>a, CallbackTimer
<1> USE HookAssumption
    DEF HookInv, kernelVars, tableVars, callVars, TypeOK, Covered, WillTimeOut,
        Alive, InTime
(* Who waits unqueued did so before, and no timer of its call is touched. *)
<1>1. ASSUME \A g \in Fibers : pc'[g] = "wait" /\ g \notin queued' =>
               /\ pc[g] = "wait" /\ g \notin queued
               /\ call'[g] = call[g] /\ seq'[g] = seq[g]
               /\ cancelled'[g] = cancelled[g]
               /\ history[g] \subseteq history'[g]
               /\ \A c \in timers : WillTimeOut(g, c) => c \in timers'
      PROVE  Covered'
  <2> SUFFICES ASSUME NEW g \in Fibers, pc'[g] = "wait", call'[g].timed,
                      g \notin queued', InTime(g)'
               PROVE  \E c \in timers' : WillTimeOut(g, c)'
    OBVIOUS
  <2>1. pc[g] = "wait" /\ call[g].timed /\ g \notin queued /\ InTime(g)
    BY <1>1
  <2>2. PICK c \in timers : WillTimeOut(g, c)
    BY <2>1
  <2>3. c \in timers' /\ WillTimeOut(g, c)'
    BY <1>1, <2>1, <2>2
  <2> QED
    BY <2>3
<1>2. ASSUME NEW n \in Fds, NEW es \in SUBSET Events, NEW strays,
             Trigger(n, es, strays)
      PROVE  queued \subseteq queued'
               /\ \A g \in Fibers : history[g] \subseteq history'[g]
  BY <1>2 DEF Trigger
<1>3. ASSUME NEW f \in Fibers, Calls(f) PROVE Covered'
  <2>1. \A g \in Fibers \ {f} : /\ pc'[g] = pc[g] /\ call'[g] = call[g]
                                /\ seq'[g] = seq[g]
                                /\ cancelled'[g] = cancelled[g]
    BY <1>3, OthersStay
  <2>2. pc[f] = "idle" /\ pc'[f] # "wait" /\ timers \subseteq timers'
    BY <1>3 DEF Calls, Socket, ConnectAtOnce, Io, Connect, Close, Sleep, Begin
  <2>3. queued \subseteq queued'
          /\ \A g \in Fibers : history[g] \subseteq history'[g]
    <3>1. ASSUME NEW n \in Fds, Close(f, n)
          PROVE  \E es \in SUBSET Events : \E strays : Trigger(n, es, strays)
      BY <3>1, ChangedType DEF Close, AllEvents
    <3>2. CASE UNCHANGED <<queued, history>>
      BY <3>2
    <3> QED
      BY <1>2, <1>3, <3>1, <3>2
         DEF Calls, Socket, ConnectAtOnce, Io, Connect, Sleep
  <2> QED
    BY <1>1, <2>1, <2>2, <2>3
<1>4. ASSUME NEW f \in Fibers, Steps(f) PROVE Covered'
  <2>1. \A g \in Fibers \ {f} : /\ pc'[g] = pc[g] /\ call'[g] = call[g]
                                /\ seq'[g] = seq[g]
                                /\ cancelled'[g] = cancelled[g]
    BY <1>4, OthersStay
  <2>2. queued' = queued
    BY <1>4 DEF Steps, TryReturns, TryBlocks, ArmTimer, AddEvent,
                AddEventFails, Woken, Check, Del, CloseF
  <2>3. \A g \in Fibers \ {f} : history'[g] = history[g]
    BY <1>4 DEF Steps, TryReturns, TryBlocks, ArmTimer, AddEvent,
                AddEventFails, Woken, Check, Del, CloseF, Return, Continue
  <2>4. \A c \in timers : c.fiber # f => c \in timers'
    BY <1>4 DEF Steps, TryReturns, TryBlocks, ArmTimer, AddEvent, Disarmed,
                AddEventFails, Woken, Check, Del, CloseF
  <2>5. CASE AddEvent(f)
    <3>1. /\ UNCHANGED <<timers, call, seq, cancelled>>
          /\ pc[f] = "add" /\ pc'[f] = "wait"
          /\ history'[f] = Lateness(f)
      BY <2>5 DEF AddEvent
    <3>2. ASSUME call[f].timed, InTime(f)'
          PROVE  \E c \in timers' : WillTimeOut(f, c)'
      <4>1. PICK c \in timers : WillTimeOut(f, c)
        BY <3>1, <3>2 DEF Lateness
      <4> QED
        BY <3>1, <4>1
    <3>3. \A g \in Fibers \ {f} :
            pc'[g] = "wait" /\ call'[g].timed /\ g \notin queued' /\ InTime(g)'
              => \E c \in timers' : WillTimeOut(g, c)'
      <4> SUFFICES ASSUME NEW g \in Fibers \ {f}, pc'[g] = "wait",
                          call'[g].timed, g \notin queued', InTime(g)'
                   PROVE  \E c \in timers' : WillTimeOut(g, c)'
        OBVIOUS
      <4>1. pc[g] = "wait" /\ call[g].timed /\ g \notin queued /\ InTime(g)
        BY <2>1, <2>2, <2>3
      <4>2. PICK c \in timers : WillTimeOut(g, c)
        BY <4>1
      <4>3. c \in timers' /\ WillTimeOut(g, c)'
        BY <2>1, <2>4, <4>2
      <4> QED
        BY <4>3
    <3> QED
      BY <3>1, <3>2, <3>3
  <2>6. CASE ~AddEvent(f)
    <3>1. pc'[f] # "wait"
      BY <1>4, <2>6 DEF Steps, TryReturns, TryBlocks, ArmTimer, AddEventFails,
                        Woken, Check, Del, CloseF, Return, Continue
    <3> QED
      BY <1>1, <2>1, <2>2, <2>3, <2>4, <3>1
  <2> QED
    BY <2>5, <2>6
<1>5. ASSUME NEW f \in Fibers, Resume(f) PROVE Covered'
  <2>1. \A g \in Fibers \ {f} : /\ pc'[g] = pc[g] /\ call'[g] = call[g]
                                /\ seq'[g] = seq[g]
                                /\ cancelled'[g] = cancelled[g]
    BY <1>5, OthersStay
  <2>2. /\ pc'[f] # "wait" /\ queued' = queued \ {f} /\ timers' = timers
        /\ \A g \in Fibers \ {f} : history'[g] = history[g]
    BY <1>5 DEF Resume, Return, Continue
  <2> QED
    BY <1>1, <2>1, <2>2
<1>6. ASSUME NEW p \in reports, Deliver(p) PROVE Covered'
  <2>1. p.fd \in Fds /\ p.events \in SUBSET Events
    BY ReportType
  <2>2. /\ \E es \in SUBSET Events : \E strays : Trigger(p.fd, es, strays)
        /\ UNCHANGED <<pc, call, seq, cancelled, timers>>
    BY <1>6, <2>1, ChangedType DEF Deliver
  <2> QED
    BY <1>1, <1>2, <2>1, <2>2
<1>7. ASSUME NEW c \in timers, Expire(c) \/ Callback(c) PROVE Covered'
  <2>1. CASE CallbackCancels(c)
    <3> DEFINE es == Changed(c.fd, {EventOf(c)})
    <3>1. c.event \in Events /\ c.fd \in Fds
      BY <2>1, CallbackTimer
    <3>2. es \in SUBSET Events /\ (c.fd \in polled => c.event \in es)
      BY <3>1 DEF Changed, EventOf
    <3>3. /\ \E strays : Trigger(c.fd, es, strays)
          /\ UNCHANGED <<pc, call, seq, cancelled>>
          /\ timers' = timers \ {c}
      BY <2>1 DEF CallbackCancels
    <3>4. queued' = queued \cup {f \in Fibers : \E e \in es : slot[c.fd][e] = f}
      <4> HIDE DEF es, HookInv
      <4>1. Triggered(c.fd, es) = {f \in Fibers : \E e \in es : slot[c.fd][e] = f}
        BY <3>1, <3>2, ClearedAt
      <4> QED
        BY <3>3, <4>1 DEF Trigger
    <3>5. /\ queued \subseteq queued'
          /\ \A g \in Fibers : history[g] \subseteq history'[g]
      BY <3>1, <3>2, <3>3, <1>2
(* The fiber whose call c belongs to is registered where c looks for it. *)
    <3>6. ASSUME NEW g \in Fibers, pc[g] = "wait", g \notin queued',
                 InTime(g), WillTimeOut(g, c)
          PROVE  FALSE
      <4>1. c.fd = call[g].fd /\ c.event = call[g].event
        BY <3>1, <3>6 DEF Own, Events
      <4>2. slot[c.fd][c.event] = g
        BY <3>5, <3>6, <4>1 DEF Registered
      <4>3. c.fd \in polled
        BY <3>1, <3>6, <4>2 DEF Known
      <4> QED
        BY <3>2, <3>4, <3>6, <4>2, <4>3
    <3> HIDE DEF es
    <3> QED
      BY SMTT(30), <3>3, <3>5, <3>6
  <2>2. CASE Expire(c) \/ CallbackMarks(c)
    <3>1. UNCHANGED <<pc, call, seq, queued, history>>
      BY <2>2 DEF Expire, CallbackMarks
    <3>2. \A g \in Fibers, d \in timers : WillTimeOut(g, d) =>
            \E b \in timers' : WillTimeOut(g, b)'
      <4>1. CASE Expire(c)
        <5> DEFINE b == [c EXCEPT !.phase = "due"]
        <5>1. b.fiber = c.fiber /\ b.seq = c.seq /\ b.phase = "due"
          BY <1>a DEF TimerRecords
        <5>2. timers' = (timers \ {c}) \cup {b} /\ c.phase = "armed"
              /\ cancelled' = cancelled
          BY <4>1 DEF Expire
        <5> HIDE DEF b
        <5> QED
          BY <3>1, <5>1, <5>2
      <4>2. CASE CallbackMarks(c)
        <5> DEFINE b == [c EXCEPT !.phase = "cancel"]
        <5>1. b.fiber = c.fiber /\ b.seq = c.seq /\ b.phase = "cancel"
          BY <1>a DEF TimerRecords
        <5>2. timers' = (timers \ {c}) \cup {b} /\ Alive(c)
          BY <4>2 DEF CallbackMarks
        <5>3. \A g \in Fibers :
                cancelled'[g] = IF g = c.fiber THEN TRUE ELSE cancelled[g]
          BY <4>2 DEF CallbackMarks
        <5> HIDE DEF b
        <5>4. ASSUME NEW g \in Fibers, NEW d \in timers, WillTimeOut(g, d)
              PROVE  \E a \in timers' : WillTimeOut(g, a)'
          <6>1. CASE g = c.fiber
            BY <3>1, <5>1, <5>2, <6>1
          <6>2. CASE g # c.fiber
            <7>1. cancelled'[g] = cancelled[g] /\ d \in timers'
              BY <5>2, <5>3, <5>4, <6>2
            <7> QED
              BY <3>1, <5>4, <7>1
          <6> QED
            BY <6>1, <6>2
        <5> QED
          BY <5>4
      <4> QED
        BY <2>2, <4>1, <4>2
    <3> QED
      BY <3>1, <3>2
  <2>3. CASE CallbackEnds(c) \/ CallbackWakes(c)
    <3>1. /\ UNCHANGED <<pc, call, seq, cancelled, history>>
          /\ queued \subseteq queued'
          /\ timers' = timers \ {c}
      BY <2>3 DEF CallbackEnds, CallbackWakes
    <3>2. \A g \in Fibers : pc[g] = "wait" => ~WillTimeOut(g, c)
      BY <2>3 DEF CallbackEnds, CallbackWakes, Sleepers
    <3> QED
      BY <1>1, <3>1, <3>2
  <2> QED
    BY <1>7, <2>1, <2>2, <2>3 DEF Callback
<1>8. CASE Kernel \/ (\E n \in Fds : Collect(n)) \/ UNCHANGED vars
  <2>1. UNCHANGED <<pc, call, seq, cancelled, queued, history, timers>>
    BY <1>8 DEF Kernel, Decide, Arrive, Collect, vars
  <2> QED
    BY <1>1, <2>1
<1> HIDE DEF HookInv, Known, Covered
<1> QED
  BY <1>3, <1>4, <1>5, <1>6, <1>7, <1>8 DEF Next

(***************************************************************************)
(* A call with a timeout that registers in time, before the callback of    *)
(* its timer and before the cancelAll of a close(), never waits without a  *)
(* wake-up that is queued or a callback to come that finds it registered,  *)
(* for any number of threads.                                              *)
(***************************************************************************)
THEOREM TimedWaitCoveredCorrect == Spec => []TimedWaitCovered
<1>1. Init => Covered
  BY DEF Init, Covered
<1>2. HookInv /\ Known /\ Covered /\ [Next]_vars => Covered'
  BY CoveredNext
<1>3. HookInv /\ Known /\ Covered => TimedWaitCovered
  <2> SUFFICES ASSUME HookInv, Known, Covered, NEW f \in Fibers,
                      pc[f] = "wait", call[f].timed, InTime(f),
                      f \notin queued
               PROVE  /\ \E c \in timers : WillTimeOut(f, c)
                      /\ call[f].fd \in polled
    BY DEF TimedWaitCovered
  <2>1. call[f].fd \in Fds /\ call[f].event \in Events
    BY DEF HookInv, Shape, IoPhases
  <2>2. slot[call[f].fd][call[f].event] = f
    BY DEF HookInv, Registered
  <2> QED
    BY <2>1, <2>2 DEF Known, Covered, InTime
<1> QED
  BY <1>1, <1>2, <1>3, KnownHolds, PTL DEF Spec

----------------------------------------------------------------------------
(***************************************************************************)
(* A connect() that has been answered, and not by its own timeout, was     *)
(* answered by the decision of the connection, or is noted as a stray.     *)
(***************************************************************************)
Decided(n) == sock[n] \in {"connected", "failed", "closed"}
Answered(f) ==
  /\ call[f].op = "connect"
  /\ \/ pc[f] = "check"
     \/ pc[f] = "woken" /\ ~cancelled[f]
     \/ pc[f] = "wait" /\ f \in queued /\ ~cancelled[f]

Kinds ==
  \A f \in Fibers :
    /\ pc[f] \in IoPhases => call[f].op \in {"io", "connect"}
    /\ pc[f] \in {"check", "refused"} => call[f].op = "connect"
    /\ call[f].op = "connect" => pc[f] \in IoPhases /\ call[f].event = "WRITE"
Answers ==
  \A f \in Fibers : Answered(f) =>
    Decided(call[f].fd) \/ "stray" \in history[f]

LEMMA KindsNext ==
  ASSUME HookInv, Kinds, [Next]_vars
  PROVE  Kinds'
<1> USE DEF HookInv, kernelVars, tableVars, callVars, TypeOK, Shape,
            Suspended, Kinds, IoPhases
<1>1. ASSUME NEW f \in Fibers, Calls(f) PROVE Kinds'
  <2>1. ASSUME NEW n \in Fds, NEW timed \in BOOLEAN, Connect(f, n, timed)
        PROVE  Kinds'
    <3>1. /\ pc'[f] \in {"arm", "add"} /\ call'[f].op = "connect"
          /\ call'[f].event = "WRITE"
          /\ \A g \in Fibers \ {f} : pc'[g] = pc[g] /\ call'[g] = call[g]
      BY <2>1 DEF Connect, Begin
    <3> QED
      BY <3>1
  <2>2. ASSUME NEW n \in Fds, NEW e \in Events, NEW timed \in BOOLEAN,
               Io(f, n, e, timed)
        PROVE  Kinds'
    BY <2>2 DEF Io, Begin
  <2>3. ASSUME NEW n \in Fds, Socket(f, n) \/ ConnectAtOnce(f, n) \/ Close(f, n)
        PROVE  Kinds'
    BY <2>3 DEF Socket, ConnectAtOnce, Close, Begin
  <2>4. CASE Sleep(f)
    BY <2>4 DEF Sleep, Begin
  <2> QED
    BY <1>1, <2>1, <2>2, <2>3, <2>4 DEF Calls
<1>2. ASSUME NEW f \in Fibers, NEW r, Return(f, r) PROVE Kinds'
  BY <1>2 DEF Return, NoCall
<1>3. ASSUME NEW f \in Fibers, Steps(f) PROVE Kinds'
  <2>1. CASE TryReturns(f) \/ Check(f)
    BY <1>2, <2>1 DEF TryReturns, Check
  <2>2. CASE AddEventFails(f)
    BY <1>2, <2>2 DEF AddEventFails, Continue
  <2>3. CASE Woken(f)
    BY <1>2, <2>3 DEF Woken, Continue
  <2>4. CASE TryBlocks(f)
    <3>1. /\ pc[f] = "try" /\ pc'[f] \in {"arm", "add"} /\ UNCHANGED call
          /\ \A g \in Fibers \ {f} : pc'[g] = pc[g]
      BY <2>4 DEF TryBlocks
    <3> QED
      BY <3>1
  <2>5. CASE ArmTimer(f) \/ AddEvent(f)
    <3>1. /\ pc[f] \in {"arm", "add"} /\ pc'[f] \in {"add", "wait"}
          /\ UNCHANGED call
          /\ \A g \in Fibers \ {f} : pc'[g] = pc[g]
      BY <2>5 DEF ArmTimer, AddEvent
    <3> QED
      BY <3>1
  <2>6. CASE Del(f) \/ CloseF(f)
    <3>1. /\ pc[f] \in {"del", "close"} /\ pc'[f] \in {"close", "idle"}
          /\ \A g \in Fibers \ {f} : pc'[g] = pc[g] /\ call'[g] = call[g]
          /\ call'[f] = call[f] \/ call'[f].op = "none"
      BY <2>6 DEF Del, CloseF, NoCall
    <3> QED
      BY <3>1
  <2> QED
    BY <1>3, <2>1, <2>2, <2>3, <2>4, <2>5, <2>6 DEF Steps
<1>4. ASSUME NEW f \in Fibers, Resume(f) PROVE Kinds'
  BY <1>2, <1>4 DEF Resume, Continue
<1>5. CASE UNCHANGED <<pc, call>>
  BY <1>5
<1> QED
  BY <1>1, <1>3, <1>4, <1>5
     DEF Next, Collect, Deliver, Expire, Callback, CallbackEnds,
         CallbackMarks, CallbackCancels, CallbackWakes, Kernel, Decide,
         Arrive, vars

LEMMA AnswersNext ==
  ASSUME HookInv, Users, Kinds, Answers, ~HeldReuse, [Next]_vars
  PROVE  Answers'
<1>a. ASSUME NEW f \in Fibers, call[f].op = "connect"
      PROVE  call[f].fd \in Fds /\ call[f].event = "WRITE"
  BY <1>a DEF Kinds, HookInv, Shape
<1> USE DEF kernelVars, tableVars, callVars
(* What a step that wakes fibers notes of those it should not wake. *)
<1>b. ASSUME NEW n \in Fds, NEW es \in SUBSET Events, NEW strays,
             Trigger(n, es, strays), UNCHANGED <<sock, pc, call>>,
             \A g \in Fibers : cancelled[g] => cancelled'[g],
             \A g \in Fibers : (\E e \in es : slot[n][e] = g) =>
               Decided(n) \/ g \in strays \/ cancelled'[g]
      PROVE  Answers'
  <2>1. queued' = queued \cup {g \in Fibers : \E e \in es : slot[n][e] = g}
    BY <1>b, ClearedAt DEF Trigger
  <2>2. \A g \in Fibers : history'[g] =
          IF g \in strays THEN history[g] \cup {"stray"} ELSE history[g]
    BY <1>b DEF Trigger
  <2>3. ASSUME NEW g \in Fibers, Answered(g)'
        PROVE  (Decided(call[g].fd) \/ "stray" \in history[g])'
    <3>1. CASE Answered(g)
      BY <1>b, <2>2, <3>1 DEF Answers, Decided
    <3>2. CASE ~Answered(g)
      <4>1. \E e \in es : slot[n][e] = g
        BY <1>b, <2>1, <2>3, <3>2 DEF Answered
      <4>2. call[g].fd = n
        BY <4>1 DEF HookInv, Slots
      <4>3. ~cancelled'[g]
        BY <1>b, <2>1, <2>3, <3>2 DEF Answered
      <4> QED
        BY <1>b, <2>2, <4>1, <4>2, <4>3 DEF Decided
    <3> QED
      BY <3>1, <3>2
  <2> QED
    BY <2>3 DEF Answers
(* A step that wakes nobody and undecides nothing. *)
<1>c. ASSUME \A g \in Fibers : Answered(g)' =>
               Answered(g) /\ call'[g] = call[g] /\ history'[g] = history[g],
             \A g \in Fibers : call[g].op = "connect" /\ call'[g] = call[g]
                                 /\ Decided(call[g].fd) =>
               Decided(call[g].fd)'
      PROVE  Answers'
  BY <1>c DEF Answers, Answered
<1>1. ASSUME NEW f \in Fibers, Calls(f) PROVE Answers'
  <2>1. pc[f] = "idle"
    BY <1>1 DEF Calls, Socket, ConnectAtOnce, Io, Connect, Close, Sleep, Begin
  <2>2. \A g \in Fibers \ {f} : pc'[g] = pc[g] /\ call'[g] = call[g]
    BY <1>1, OthersStay
  <2>3. pc'[f] \notin {"check", "woken", "wait"}
    BY <1>1, <2>1 DEF Calls, Socket, ConnectAtOnce, Io, Connect, Close, Sleep,
                      Begin, HookInv, TypeOK
  <2>4. cancelled' = cancelled
    BY <1>1 DEF Calls, Socket, ConnectAtOnce, Io, Connect, Close, Sleep, Begin
  <2>5. ASSUME NEW n \in Fds, Close(f, n) PROVE Answers'
    <3>1. /\ queued' = queued \cup Triggered(n, Changed(n, AllEvents))
          /\ history' = [g \in Fibers |->
               IF g \in Triggered(n, Changed(n, AllEvents))
                 THEN history[g] \cup {"stray"} ELSE history[g]]
          /\ sock' = sock
      BY <2>5 DEF Close, Trigger
    <3>2. ASSUME NEW g \in Fibers, Answered(g)'
          PROVE  (Decided(call[g].fd) \/ "stray" \in history[g])'
      <4>1. g # f /\ call'[g] = call[g] /\ pc'[g] = pc[g]
        BY <2>2, <2>3, <3>2 DEF Answered
      <4>2. CASE Answered(g)
        BY <3>1, <4>1, <4>2 DEF Answers, Decided
      <4>3. CASE ~Answered(g)
        BY <2>4, <3>1, <3>2, <4>1, <4>3 DEF Answered
      <4> QED
        BY <4>2, <4>3
    <3> QED
      BY <3>2 DEF Answers
  <2>6. ASSUME UNCHANGED <<queued, history>>,
               \A n \in Fds : Decided(n) =>
                 Decided(n)' \/ \A g \in Fibers : call[g].fd # n
        PROVE  Answers'
    <3>1. \A g \in Fibers : Answered(g)' => g # f
      BY <2>3 DEF Answered
    <3> QED
      BY <1>a, <1>c, <2>2, <2>4, <2>6, <3>1 DEF Answered
  <2>7. ASSUME NEW n \in Fds, Socket(f, n) PROVE Answers'
    BY <2>6, <2>7 DEF Socket, Decided, HookInv, TypeOK
  <2>8. ASSUME NEW n \in Fds,
               ConnectAtOnce(f, n) \/ \E timed \in BOOLEAN : Connect(f, n, timed)
        PROVE  Answers'
    BY <2>6, <2>8 DEF ConnectAtOnce, Connect, Decided, HookInv, TypeOK
  <2>9. CASE UNCHANGED <<sock, queued, history>>
    BY <2>6, <2>9 DEF Decided
  <2> QED
    BY <1>1, <2>5, <2>7, <2>8, <2>9 DEF Calls, Io, Sleep
<1>2. ASSUME NEW f \in Fibers, Steps(f) PROVE Answers'
  <2>1. /\ \A g \in Fibers \ {f} : pc'[g] = pc[g] /\ call'[g] = call[g]
                                   /\ cancelled'[g] = cancelled[g]
        /\ queued' = queued
    BY <1>2, OthersStay
       DEF Steps, TryReturns, TryBlocks, ArmTimer, AddEvent, AddEventFails,
           Woken, Check, Del, CloseF
  <2>2. \A g \in Fibers \ {f} : history'[g] = history[g]
    BY <1>2 DEF Steps, TryReturns, TryBlocks, ArmTimer, AddEvent,
                AddEventFails, Woken, Check, Del, CloseF, Return, Continue,
                HookInv, TypeOK
  <2>3. ASSUME ~Answered(f)',
               \A n \in Fds : Decided(n) => Decided(n)'
        PROVE  Answers'
    BY <1>a, <1>c, <2>1, <2>2, <2>3 DEF Answered
  <2>4. CASE CloseF(f)
    <3>1. \A n \in Fds : sock'[n] = IF n = call[f].fd THEN "closed" ELSE sock[n]
      BY <2>4 DEF CloseF, HookInv, TypeOK
    <3>2. call'[f].op # "connect"
      BY <2>4 DEF CloseF, NoCall, HookInv, Shape
    <3> QED
      BY <2>3, <3>1, <3>2 DEF Decided, Answered
  <2>5. CASE Check(f)
    <3>1. /\ call[f].op = "connect" /\ call'[f].op # "connect"
          /\ \A n \in Fds \ {call[f].fd} : sock'[n] = sock[n]
      BY <2>5 DEF Check, Return, Kinds, NoCall, HookInv, Shape, TypeOK
    <3>2. \A g \in Fibers \ {f} :
            call[g].op = "connect" => call[g].fd # call[f].fd
      BY <1>a, <3>1 DEF Users
    <3> QED
      BY <1>a, <1>c, <2>1, <2>2, <3>1, <3>2 DEF Decided, Answered
  <2>6. CASE Woken(f)
    <3>1. UNCHANGED sock /\ pc[f] = "woken"
      BY <2>6 DEF Woken
    <3>2. CASE TimedOut(f)
      <4>1. call'[f].op # "connect"
        BY <2>6, <3>2 DEF Woken, Return, NoCall, HookInv, Shape
      <4> QED
        BY <2>3, <3>1, <4>1 DEF Decided, Answered
    <3>3. CASE ~TimedOut(f)
      <4>1. UNCHANGED <<call, history>> /\ ~cancelled[f]
        BY <2>6, <3>3 DEF Woken, Continue, TimedOut
      <4> QED
        BY <1>c, <2>1, <3>1, <4>1 DEF Decided, Answered
    <3> QED
      BY <3>2, <3>3
  <2>7. CASE TryReturns(f) \/ TryBlocks(f) \/ ArmTimer(f) \/ AddEvent(f)
               \/ AddEventFails(f) \/ Del(f)
    <3>1. UNCHANGED sock /\ pc[f] \in {"try", "arm", "add", "del"}
      BY <2>7 DEF TryReturns, TryBlocks, ArmTimer, AddEvent, AddEventFails,
                  Del
    <3>2. f \notin queued
      BY <3>1 DEF HookInv, QueuedSleep, Suspended
    <3>3. pc'[f] \notin {"check", "woken"}
      BY <2>7 DEF TryReturns, TryBlocks, ArmTimer, AddEvent, AddEventFails,
                  Del, Return, Continue, HookInv, TypeOK
    <3> QED
      BY <2>1, <2>3, <3>1, <3>2, <3>3 DEF Decided, Answered
  <2> QED
    BY <1>2, <2>4, <2>5, <2>6, <2>7 DEF Steps
<1>3. ASSUME NEW f \in Fibers, Resume(f) PROVE Answers'
  <2>1. /\ \A g \in Fibers \ {f} : pc'[g] = pc[g] /\ call'[g] = call[g]
                                   /\ cancelled'[g] = cancelled[g]
        /\ UNCHANGED sock /\ queued' = queued \ {f}
    BY <1>3, OthersStay DEF Resume
  <2>2. \A g \in Fibers \ {f} : history'[g] = history[g]
    BY <1>3 DEF Resume, Return, Continue, HookInv, TypeOK
  <2>3. Answered(f)' =>
          Answered(f) /\ call'[f] = call[f] /\ history'[f] = history[f]
    BY <1>3 DEF Resume, Return, Continue, NoCall, Suspended, HookInv, TypeOK,
                Shape, Answered
  <2> QED
    BY <1>c, <2>1, <2>2, <2>3 DEF Decided, Answered
<1>4. ASSUME NEW p \in reports, Deliver(p) PROVE Answers'
  <2> DEFINE es == Changed(p.fd, p.events)
             lost == {e \in es : ~EventReady(p.fd, e)}
             strays == Triggered(p.fd, lost)
  <2>1. p.fd \in Fds /\ es \in SUBSET Events
    BY ReportType, ChangedType
  <2>2. /\ Trigger(p.fd, es, strays)
        /\ UNCHANGED <<sock, pc, call, cancelled>>
    BY <1>4 DEF Deliver
  <2>3. ASSUME NEW e \in es, NEW g \in Fibers, slot[p.fd][e] = g
        PROVE  Decided(p.fd) \/ g \in strays
    <3>1. CASE EventReady(p.fd, e)
      BY <3>1 DEF EventReady, Decided
    <3>2. CASE ~EventReady(p.fd, e)
      BY <2>3, <3>2, HookAssumption DEF Triggered
    <3> QED
      BY <3>1, <3>2
  <2> HIDE DEF es, strays
  <2> QED
    BY <1>b, <2>1, <2>2, <2>3
<1>5. ASSUME NEW c \in timers, Expire(c) \/ Callback(c) PROVE Answers'
  <2>1. CASE CallbackCancels(c)
    <3> DEFINE es == Changed(c.fd, {EventOf(c)})
               own == {f \in Fibers : f = c.fiber /\ Alive(c)}
               strays == Triggered(c.fd, es) \ own
    <3>1. c.event \in Events /\ c.fd \in Fds
      BY <2>1, CallbackTimer
    <3>2. es \in SUBSET Events
      BY <3>1 DEF Changed, EventOf
    <3>3. /\ Trigger(c.fd, es, strays)
          /\ UNCHANGED <<sock, pc, call, cancelled>> /\ c.phase = "cancel"
      BY <2>1 DEF CallbackCancels
    <3>4. ASSUME NEW e \in es, NEW g \in Fibers, slot[c.fd][e] = g
          PROVE  g \in strays \/ cancelled[g]
      <4>1. g \in Triggered(c.fd, es)
        BY <3>4, HookAssumption DEF Triggered
      <4> QED
        BY <3>3, <4>1 DEF HookInv, Marked
    <3> HIDE DEF es, strays
    <3> QED
      BY <1>b, <3>1, <3>2, <3>3, <3>4
  <2>2. CASE CallbackWakes(c)
    <3>1. /\ pc[c.fiber] = "asleep" /\ queued' = queued \cup {c.fiber}
          /\ UNCHANGED <<sock, pc, call, cancelled, history>>
      BY <2>2 DEF CallbackWakes, HookInv, Sleepers
    <3> QED
      BY <1>c, <3>1 DEF Decided, Answered
  <2>3. CASE Expire(c) \/ CallbackEnds(c) \/ CallbackMarks(c)
    <3>1. /\ UNCHANGED <<sock, pc, call, queued, history>>
          /\ \A g \in Fibers : cancelled[g] => cancelled'[g]
      BY <2>3 DEF Expire, CallbackEnds, CallbackMarks, HookInv, TypeOK
    <3> QED
      BY <1>c, <3>1 DEF Decided, Answered
  <2> QED
    BY <1>5, <2>1, <2>2, <2>3 DEF Callback
<1>6. CASE Kernel \/ (\E n \in Fds : Collect(n)) \/ UNCHANGED vars
  <2>1. UNCHANGED <<pc, call, cancelled, queued, history>>
    BY <1>6 DEF Kernel, Decide, Arrive, Collect, vars
  <2>2. \A n \in Fds : Decided(n) => Decided(n)'
    BY <1>6 DEF Kernel, Decide, Arrive, Collect, vars, Decided, HookInv, TypeOK
  <2> QED
    BY <1>a, <1>c, <2>1, <2>2 DEF Answered
<1> QED
  BY <1>1, <1>2, <1>3, <1>4, <1>5, <1>6 DEF Next

(* result is a function on the fibers. *)
Results == DOMAIN result = Fibers

LEMMA ResultsHold == Spec => []Results
<1>1. Init => Results
  BY DEF Init, Results
<1>2. ASSUME Results, [Next]_vars
      PROVE  Results'
  <2>1. ASSUME NEW f \in Fibers, Calls(f) PROVE Results'
    BY <1>2, <2>1 DEF Calls, Socket, ConnectAtOnce, Io, Connect, Close, Sleep,
                      Begin, Results
  <2>2. ASSUME NEW f \in Fibers, Steps(f) PROVE Results'
    BY <1>2, <2>2 DEF Steps, TryReturns, TryBlocks, ArmTimer, AddEvent,
                      AddEventFails, Woken, Check, Del, CloseF, Return,
                      Continue, Results
  <2>3. ASSUME NEW f \in Fibers, Resume(f) PROVE Results'
    BY <1>2, <2>3 DEF Resume, Return, Continue, Results
  <2>4. CASE UNCHANGED result
    BY <1>2, <2>4 DEF Results
  <2> QED
    BY <1>2, <2>1, <2>2, <2>3, <2>4
       DEF Next, Collect, Deliver, Expire, Callback, CallbackEnds,
           CallbackMarks, CallbackCancels, CallbackWakes, Kernel, Decide,
           Arrive, vars
<1> QED
  BY <1>1, <1>2, PTL DEF Spec

(***************************************************************************)
(* If no held number is reused, connect() that has waited returns 0 only   *)
(* if the connection stands (hook.cc:266-290), unless addEvent was refused *)
(* or something else than the decision and its own timeout has woken it,   *)
(* for any number of threads.                                              *)
(***************************************************************************)
THEOREM ConnectTellsTruthCorrect ==
  ~HeldReuse => (Spec => ConnectTellsTruth)
<1> SUFFICES ASSUME ~HeldReuse PROVE Spec => ConnectTellsTruth
  OBVIOUS
<1>1. Init => Kinds /\ Answers
  BY DEF Init, Kinds, Answers, Answered, NoCall, IoPhases
<1>2. HookInv /\ Users /\ Kinds /\ Answers /\ [Next]_vars => Kinds' /\ Answers'
  BY KindsNext, AnswersNext
<1>3. ASSUME HookInv, Kinds, Answers, Results, [Next]_vars,
             NEW f \in Fibers, pc[f] = "check", pc'[f] = "idle",
             result'[f] = "connected"
      PROVE  sock[call[f].fd] = "connected" \/ "stray" \in history[f]
  <2>1. Decided(call[f].fd) \/ "stray" \in history[f]
    BY <1>3 DEF Answers, Answered, Kinds
  <2>2. Check(f)
    <3>1. ASSUME NEW g \in Fibers, Calls(g) PROVE FALSE
      <4>1. pc[g] = "idle" /\ \A h \in Fibers \ {g} : pc'[h] = pc[h]
        BY <1>3, <3>1, OthersStay
           DEF Calls, Socket, ConnectAtOnce, Io, Connect, Close, Sleep, Begin
      <4> QED
        BY <1>3, <4>1
    <3>2. ASSUME NEW g \in Fibers, Steps(g) PROVE Check(f)
      <4>1. \A h \in Fibers \ {g} : pc'[h] = pc[h]
        BY <1>3, <3>2, OthersStay
      <4>2. g = f
        BY <1>3, <4>1
      <4> QED
        BY <1>3, <3>2, <4>2 DEF Steps, TryReturns, TryBlocks, ArmTimer,
                                AddEvent, AddEventFails, Woken, Del, CloseF
    <3>3. ASSUME NEW g \in Fibers, Resume(g) PROVE FALSE
      <4>1. \A h \in Fibers \ {g} : pc'[h] = pc[h]
        BY <1>3, <3>3, OthersStay
      <4> QED
        BY <1>3, <3>3, <4>1 DEF Resume, Suspended
    <3>4. ~UNCHANGED pc
      BY <1>3
    <3> QED
      BY <1>3, <3>1, <3>2, <3>3, <3>4
         DEF Next, Collect, Deliver, Expire, Callback, CallbackEnds,
             CallbackMarks, CallbackCancels, CallbackWakes, Kernel, Decide,
             Arrive, vars
  <2>3. sock[call[f].fd] \notin {"closed", "failed"}
    BY <1>3, <2>2 DEF Check, Return, Results
  <2> QED
    BY <2>1, <2>3 DEF Decided
<1>4. HookInv /\ Kinds /\ Answers /\ Results /\ [Next]_vars =>
        [\A f \in Fibers :
           pc[f] \in {"check", "refused"} /\ pc'[f] = "idle"
             /\ result'[f] = "connected" =>
               \/ sock[call[f].fd] = "connected"
               \/ pc[f] = "refused" \/ "stray" \in history[f]]_vars
  BY <1>3
<1> QED
  BY <1>1, <1>2, <1>4, UsersHold, ResultsHold, PTL DEF Spec, ConnectTellsTruth

----------------------------------------------------------------------------
(***************************************************************************)
(* Refinement of OneShot.  What wakes a fiber finds it registered, because *)
(* an event clears the slot it triggers, a sleep has one timer, and a      *)
(* callback for an event wakes no one but the fiber in the slot.           *)
(***************************************************************************)
phases == [f \in Fibers |-> Phase(f)]

(* A step that triggers events is a notification of the fibers in them.    *)
LEMMA TriggerNotifies ==
  ASSUME HookInv, NEW n \in Fds, NEW es \in SUBSET Events,
         queued' = queued \cup Triggered(n, es),
         \A f \in Fibers :
           f \notin queued => (pc[f] \in Suspended <=> pc'[f] \in Suspended)
  PROVE  Promise!Notify
<1> DEFINE S == {f \in Fibers : \E e \in es : slot[n][e] = f}
<1>1. queued' = queued \cup S
  BY ClearedAt
<1>2. \A f \in S : Phase(f) = "registered"
  BY DEF HookInv, Slots, Phase, Suspended
<1>3. S \in SUBSET {f \in Fibers : phases[f] = "registered"}
  BY <1>2 DEF phases
<1>4. ASSUME NEW f \in Fibers
      PROVE  Phase(f)' = IF f \in S THEN "notified" ELSE Phase(f)
  BY <1>1 DEF Phase
<1>5. phases' = [f \in Fibers |-> IF f \in S THEN "notified" ELSE phases[f]]
  BY <1>4 DEF phases
<1> QED
  BY <1>3, <1>5 DEF Promise!Notify, phases

(* A step of f that leaves the queue alone moves no other fiber. *)
LEMMA StepOf ==
  ASSUME HookInv, NEW f \in Fibers, Calls(f) \/ Steps(f) \/ Resume(f),
         \A g \in Fibers \ {f} : g \in queued' <=> g \in queued
  PROVE  \A g \in Fibers \ {f} : phases'[g] = phases[g]
BY OthersStay DEF phases, Phase

LEMMA CallStep ==
  ASSUME HookInv, NEW f \in Fibers, Calls(f)
  PROVE  [Promise!Next]_phases
<1> USE DEF HookInv, tableVars
<1>1. CASE Sleep(f)
  <2>1. pc[f] = "idle" /\ f \notin queued /\ queued' = queued
    BY <1>1 DEF Sleep, Begin, QueuedSleep, Suspended
  <2>2. pc'[f] = "asleep"
    BY <1>1 DEF Sleep, Begin, TypeOK
  <2>3. phases[f] = "idle" /\ phases'[f] = "registered"
    BY <2>1, <2>2 DEF phases, Phase, Suspended
  <2>4. \A g \in Fibers \ {f} : phases'[g] = phases[g]
    BY <2>1, StepOf
  <2>5. Promise!Register(f)
    BY <2>3, <2>4 DEF Promise!Register, phases
  <2> QED
    BY <2>5 DEF Promise!Next
<1>2. ASSUME NEW n \in Fds, Close(f, n) PROVE [Promise!Next]_phases
  <2>1. /\ queued' = queued \cup Triggered(n, Changed(n, AllEvents))
        /\ pc[f] = "idle" /\ pc'[f] = "del"
        /\ \A g \in Fibers \ {f} : pc'[g] = pc[g]
        /\ Changed(n, AllEvents) \in SUBSET Events
    BY <1>2, ChangedType DEF Close, Begin, Trigger, AllEvents, TypeOK
  <2>2. \A g \in Fibers : pc[g] \in Suspended <=> pc'[g] \in Suspended
    BY <2>1 DEF Suspended
  <2>3. Promise!Notify
    BY <2>1, <2>2, TriggerNotifies
  <2> QED
    BY <2>3 DEF Promise!Next
<1>3. ASSUME NEW n \in Fds,
             \/ Socket(f, n) \/ ConnectAtOnce(f, n)
             \/ \E timed \in BOOLEAN : Connect(f, n, timed)
             \/ \E e \in Events, timed \in BOOLEAN : Io(f, n, e, timed)
      PROVE  [Promise!Next]_phases
  <2>1. queued' = queued /\ pc[f] = "idle"
    BY <1>3 DEF Socket, ConnectAtOnce, Connect, Io, Begin
  <2>2. pc'[f] \notin Suspended
    BY <1>3, <2>1 DEF Socket, ConnectAtOnce, Connect, Io, Begin, TypeOK,
                      Suspended
  <2>3. phases'[f] = phases[f]
    BY <2>1, <2>2 DEF phases, Phase, Suspended
  <2>4. \A g \in Fibers \ {f} : phases'[g] = phases[g]
    BY <2>1, StepOf
  <2> QED
    BY <2>3, <2>4 DEF phases
<1> QED
  BY <1>1, <1>2, <1>3 DEF Calls

LEMMA ThreadStep ==
  ASSUME HookInv, NEW f \in Fibers, Steps(f)
  PROVE  [Promise!Next]_phases
<1>1. queued' = queued
  BY DEF Steps, TryReturns, TryBlocks, ArmTimer, AddEvent, AddEventFails,
         Woken, Check, Del, CloseF, tableVars
<1>2. pc[f] \notin Suspended
  BY DEF Steps, TryReturns, TryBlocks, ArmTimer, AddEvent, AddEventFails,
         Woken, Check, Del, CloseF, Suspended
<1>3. f \notin queued /\ phases[f] = "idle"
  BY <1>2 DEF HookInv, QueuedSleep, phases, Phase
<1>4. \A g \in Fibers \ {f} : phases'[g] = phases[g]
  BY <1>1, StepOf
<1>5. CASE AddEvent(f)
  <2>1. pc'[f] = "wait"
    BY <1>5 DEF AddEvent, HookInv, TypeOK
  <2>2. phases'[f] = "registered"
    BY <1>1, <1>3, <2>1 DEF phases, Phase, Suspended
  <2>3. Promise!Register(f)
    BY <1>3, <1>4, <2>2 DEF Promise!Register, phases
  <2> QED
    BY <2>3 DEF Promise!Next
<1>6. CASE ~AddEvent(f)
  <2>1. pc'[f] \notin Suspended
    BY <1>6 DEF Steps, TryReturns, TryBlocks, ArmTimer, AddEventFails, Woken,
                Check, Del, CloseF, Return, Continue, HookInv, TypeOK,
                Suspended
  <2>2. phases'[f] = phases[f]
    BY <1>1, <1>3, <2>1 DEF phases, Phase
  <2> QED
    BY <1>4, <2>2 DEF phases
<1> QED
  BY <1>5, <1>6

LEMMA ResumeStep ==
  ASSUME HookInv, NEW f \in Fibers, Resume(f)
  PROVE  [Promise!Next]_phases
<1>1. f \in queued /\ queued' = queued \ {f}
  BY DEF Resume
<1>2. pc'[f] \notin Suspended
  BY DEF Resume, Return, Continue, HookInv, TypeOK, Suspended
<1>3. phases[f] = "notified" /\ phases'[f] = "idle"
  BY <1>1, <1>2 DEF phases, Phase
<1>4. \A g \in Fibers \ {f} : phases'[g] = phases[g]
  BY <1>1, StepOf
<1>5. Promise!Proceed(f)
  BY <1>3, <1>4 DEF Promise!Proceed, phases
<1> QED
  BY <1>5 DEF Promise!Next

LEMMA CallbackStep ==
  ASSUME HookInv, NEW c \in timers, Expire(c) \/ Callback(c)
  PROVE  [Promise!Next]_phases
<1>1. CASE CallbackCancels(c)
  <2>1. c.event \in Events /\ c.fd \in Fds
    BY <1>1, CallbackTimer
  <2>2. PICK es \in SUBSET Events : queued' = queued \cup Triggered(c.fd, es)
    BY <1>1, <2>1, ChangedType DEF CallbackCancels, Trigger, EventOf
  <2>3. pc' = pc
    BY <1>1 DEF CallbackCancels
  <2>4. Promise!Notify
    BY <2>1, <2>2, <2>3, TriggerNotifies
  <2> QED
    BY <2>4 DEF Promise!Next
<1>2. CASE CallbackWakes(c)
  <2>1. /\ c.fiber \in Fibers /\ pc[c.fiber] = "asleep"
        /\ c.fiber \notin queued
    BY <1>2, CallbackTimer DEF CallbackWakes, HookInv, Sleepers
  <2>2. queued' = queued \cup {c.fiber} /\ pc' = pc
    BY <1>2 DEF CallbackWakes
  <2> DEFINE S == {c.fiber}
  <2>3. S \in SUBSET {f \in Fibers : phases[f] = "registered"}
    BY <2>1 DEF phases, Phase, Suspended
  <2>4. phases' = [f \in Fibers |-> IF f \in S THEN "notified" ELSE phases[f]]
    BY <2>2 DEF phases, Phase
  <2>5. Promise!Notify
    BY <2>3, <2>4 DEF Promise!Notify, phases
  <2> QED
    BY <2>5 DEF Promise!Next
<1>3. CASE Expire(c) \/ CallbackEnds(c) \/ CallbackMarks(c)
  <2>1. UNCHANGED <<queued, pc>>
    BY <1>3 DEF Expire, CallbackEnds, CallbackMarks, tableVars
  <2> QED
    BY <2>1 DEF phases, Phase
<1> QED
  BY <1>1, <1>2, <1>3 DEF Callback

LEMMA PhaseStep ==
  ASSUME HookInv, [Next]_vars
  PROVE  [Promise!Next]_phases
<1>1. ASSUME NEW p \in reports, Deliver(p)
      PROVE  [Promise!Next]_phases
  <2>1. p.fd \in Fds /\ Changed(p.fd, p.events) \in SUBSET Events
    BY ReportType, ChangedType
  <2>2. /\ queued' = queued \cup Triggered(p.fd, Changed(p.fd, p.events))
        /\ pc' = pc
    BY <1>1 DEF Deliver, Trigger
  <2>3. Promise!Notify
    BY <2>1, <2>2, TriggerNotifies
  <2> QED
    BY <2>3 DEF Promise!Next
<1>2. CASE Kernel \/ (\E n \in Fds : Collect(n)) \/ UNCHANGED vars
  <2>1. UNCHANGED <<queued, pc>>
    BY <1>2 DEF Kernel, Decide, Arrive, Collect, vars, tableVars
  <2> QED
    BY <2>1 DEF phases, Phase
<1> QED
  BY <1>1, <1>2, CallStep, ThreadStep, ResumeStep, CallbackStep DEF Next

(***************************************************************************)
(* The hooked calls implement OneShot: a fiber that waits in a call is     *)
(* woken once, by an event, its timeout, a close or the end of its sleep,  *)
(* and goes on only then; for any number of threads, and also when the     *)
(* kernel reuses a number that a suspended call still holds.               *)
(***************************************************************************)
THEOREM OneShotWaits == Spec => ImplementsOneShot
<1>1. Init => Promise!Init
  BY DEF Init, Promise!Init, Phase, Suspended
<1>2. HookInv /\ [Next]_vars => [Promise!Next]_phases
  BY PhaseStep
<1> QED
  BY <1>1, <1>2, HookInvHolds, PTL
     DEF Spec, ImplementsOneShot, Promise!Spec, phases
=============================================================================
