# Verification of LT

LT is a C++ network framework. Fibers (`Fiber`, on ucontext) are run by an N:M scheduler
(`Scheduler`); an epoll event loop is a subclass of it (`IOManager`) and also a subclass
of the timer set (`TimerManager`); hooked system calls turn a blocking call of a fiber
into a wait for an event and a timer; sockets (`Socket`, `FdManager`) and a TCP server
(`TcpServer`) are built on the hooks. This directory holds TLA+ models of that core, the
TLC runs that check them and the theorems that TLAPS proves about them.

## 1. Inventory

| Component | State | Operations | Interacts with |
|---|---|---|---|
| `Scheduler` (scheduler.cc/.h) | `m_tasks`, `m_activeThreadCount`, `m_idleThreadCount`, `m_stopping`, `m_threadIds` | start, schedule, run, idle, tickle, stopping, stop | resumes fibers, creates threads, is overridden by `IOManager` |
| `Fiber` (fiber.cc/.h) | `m_state`, `m_ctx`, `m_runInScheduler`, the thread's current and main fiber | constructors, resume, yield, reset, MainFunc, GetThis, destructor | driven by `run()`; user code calls yield |
| `Thread`, locks (thread.cc, mutex.h) | `m_id`, semaphore | constructor handshake, run, join | `start()` waits for it while it holds `m_mutex` |
| `IOManager` (iomanager.cc/.h) | `m_fdContexts` (events, two contexts each), `m_pendingEventCount`, epoll, the tickle pipe | addEvent, delEvent, cancelEvent, cancelAll, triggerEvent, tickle, stopping, idle | epoll; schedules fibers and callbacks; asks the timers for the next deadline |
| `TimerManager`, `Timer` (timer.cc/.h) | `m_timers` (a set ordered by deadline), `m_tickled`, `m_previouseTime`; `m_ms`, `m_next`, `m_cb` of each timer | addTimer, cancel, refresh, reset, getNextTimer, listExpiredCb | idle() calls it; a new front timer tickles |
| `Hook` (hook.cc) | a `timer_info` for each timed call | do_io, connect, accept, sleep, socket, close, fcntl, ioctl | timers, events, `FdManager` |
| `FdManager`, `FdCtx` (fd_manager.cc) | `m_datas`, the O_NONBLOCK flags of user and system | get, del, init | every hook looks its descriptor up |
| `Socket` (socket.cc) | `m_sock`, `m_isConnected` | bind, listen, accept, init, close, connect, send, recv | through the hooks |
| `TcpServer` (tcp_server.cc) | `m_socks`, `m_isStop` | bind, start, startAccept, stop, handleClient | schedules its accept loops and the task of stop() |
| `Address`, `Endian` | values only | masks, networks, lookup | `Socket` |
| `JsonConfig` | a cache of parsed files, never written | lookups | file system, jsoncpp |
| jsoncpp, spdlog (vendored), log, util, singleton | - | - | - |

What is hard here, and where the properties aim (the full list, line by line, is
`hazards` in PROJECT.json):

- the two counters of the scheduler are atomics that are written outside `m_mutex`;
  `stopping()` and `tickle()` decide from them;
- `yield()` publishes a fiber as READY before `swapcontext` has saved it;
- every fiber saves its caller into one fixed context and returns to it, whoever called;
  a thread keeps a raw pointer to the fiber it believes it runs;
- the tables of descriptor contexts grow between a look under a read lock and the write
  lock;
- a batch that `epoll_wait` returned is handled one descriptor at a time while other
  threads add, delete and cancel events;
- `listExpiredCb` reads the clock before it takes the lock, in unsigned numbers;
- wake-ups are suppressed (`m_tickled`, "only if the queue was empty", "only if some
  thread is idle"), so that one lost wake-up is never repeated, and a signal makes
  idle() wait again with an old timeout;
- `close()` is three steps (cancelAll, del, close_f), and so is a wait (the call that
  would block, the timer, addEvent): those of two threads interleave;
- a timeout, an event and a close race to wake the same fiber, and descriptor numbers
  are reused by the kernel;
- `TcpServer::stop()` only schedules the work of stopping.

What makes each component correct, in one line each:

- Scheduler: every submitted task runs to its end once, on one thread at a time; no
  stale context, counters exact, and stop() returns, when all has ended.
- Fibers: control returns to the fiber that resumed, no saved continuation is
  overwritten, the current-fiber pointer is right.
- Descriptor events: each registration is answered by one wake-up or deleted, no edge is
  lost, the pending count is exact.
- IOManager: stop() also waits for awaited events and armed timers, and returns; a
  queued task runs.
- Timers: the set stays searchable, nothing early, nothing cancelled runs, no thread
  sleeps past the front deadline but for signals, every due timer is collected.
- Hooks: a timed wait that began in time ends, through the timer, the event or the
  close, once, and the call reports the one that ended it.
- Addresses: broadcast, network and mask of a prefix by bits; node and service.
- Server: only a loop that registers between cancelAll and close_f is left behind by
  stop(), no listener is, no loop spins on a socket that is not its own, every managed
  descriptor is non-blocking, connections are accepted.

## 2. Modules

| Module | Models | Remarks |
|---|---|---|
| `Timer` | timer.cc, and idle()'s use of it (iomanager.cc:356-400) | critical sections are actions; the clock read before the lock is an action of its own |
| `Alarm` | the promise of `Timer`: Set, Cancel, Refresh, Reset, Ring | abstract; implemented by `Timer` through a refinement mapping |
| `TimerProofs` | theorems about `Timer`, the refinement among them | |
| `Scheduler` | scheduler.cc, fiber.cc resume/yield/MainFunc, thread.cc | a callback task is a fiber task, as run() wraps it |
| `TaskPool` | the promise of `Scheduler`: Submit, Begin, Yield, End, Stop | abstract; implemented by `Scheduler` and by `IOManager`, each through a refinement mapping |
| `SchedulerProofs` | theorems about `Scheduler`, the refinement among them | |
| `Fiber` | fiber.cc below the scheduler: constructors, GetThis, resume, yield, reset, MainFunc, destructor | a call of yield is one step here, two in `Scheduler` |
| `FiberProofs` | theorems about `Fiber` | |
| `FdEvents` | addEvent, delEvent, cancelEvent, cancelAll, triggerEvent and the loop of idle() | edge-triggered epoll is external |
| `OneShot` | the promise of `FdEvents`: Register, Notify or Delete | abstract; implemented by `FdEvents` and, for the wait of a call, by `Hook`, each through a refinement mapping |
| `FdEventsProofs` | theorems about `FdEvents`, the refinement among them | |
| `FdTable` | addEvent's lookup and contextResize against cancelAll | `FdEvents` starts where it ends, with every context present |
| `IOManager` | EXTENDS `Scheduler` with the overridden tickle, stopping, idle and stop's tickles | a wait for an event is one registration here; of the timers there is what stopping() and idle() see of one-shot timers |
| `IOManagerProofs` | theorems about `IOManager`, the refinement among them | reuses the lemmas of `SchedulerProofs` about the queue |
| `Hook` | do_io, connect, sleep, socket, close with timers, events and descriptor contexts | composes at the level of what timers and events promise; the steps of calls, callbacks, reports of epoll_wait and closes interleave on any number of threads |
| `HookProofs` | theorems about `Hook`, the refinement among them | |
| `Server` | TcpServer on Socket, FdManager and accept, close, fcntl, ioctl of hook.cc | the steps of accept, of the closes and of the task of stop() interleave |
| `ServerProofs` | theorems about `Server` | |
| `Address` | broadcastAddress, networkAddress, subnetMask of IPv4 and IPv6, and the splitting of Lookup | bytes and words are sets of bits |
| `AddressProofs` | theorems about `Address` | |
| `MCTimer` ... `MCAddress` | the instances for TLC | constants are in the .cfg files |

How state and actions correspond to the code:

- **Timer.** Variables keep their C++ names. `Construct` is the Timer constructor (which
  reads the clock), `Insert` the critical section of addTimer, `Notify` the
  onTimerInsertedAtFront after it; `Cancel`, `Refresh`, `Reset` are one critical section
  each. An idle thread goes through `GetNextTimer`, sleeps, wakes and reads the clock
  (`WakeUp`), and runs `ListExpiredCb`. `Interrupted` is EINTR (iomanager.cc:378): the
  thread enters epoll_wait again with the timeout it had, and `overslept`, which is not
  in the code, keeps by how much that postpones its waking. `Tick` moves the clock, at
  most `MaxStall` while a thread is between the reading of the clock and the lock.
  `Plus` and `Minus` are uint64_t arithmetic modulo `Wrap`, `ToInt` and `ToUint64` the
  conversions to and from the int of epoll_wait. No client begins a call at the last
  instant `MaxTime` (`MayCall`), so that what is in the set then still falls due.
- **Alarm in Timer.** An alarm is `set` from the constructor of its timer while the
  timer has a callback, and `over` when it has been published and has none; `at` is
  `m_next`, and `handed` what listExpiredCb has given a thread that it has not dealt
  with yet. The set, its keys, the locks and `m_tickled` are hidden.
- **Scheduler.** `pc[p]` is where thread p is in run(): `run` (about to search the
  queue), `tickle`, `empty`, `idle`, `resume`, `task`, `yield`, `swap`, `back`; the
  owner adds `main`, `create`, `semaphore`, `join`, `done`. `Take` and `FindNothing` are
  the search under `m_mutex` with its skips; `YieldState` and `YieldSwap` split yield()
  where the context is not yet saved; `saved` is the set of fibers whose `m_ctx` is
  valid. start() holds `m_mutex` (`Unlocked`) while `CreateThread`, `ThreadRuns` and
  `RecordThread` shake hands.
- **TaskPool in Scheduler.** A task is `waiting` while an entry of it is queued or a
  thread has taken one and not resumed it, and it does not execute; `running` is what a
  thread executes until its yield changes m_state; `stopped` is that stop() has
  returned. In `IOManager` a registered fiber is `waiting` too, and `stopped` stays
  FALSE with two threads or more in run(), as stop() then does not wait for them all
  (`iomanager_stop`).
- **Fiber.** `on[th]` is whose code the thread really executes, `cur[th]` is
  `p_cur_running_fiber`; `m_ctx[f]` names the continuation stored in f, so that `Swap`
  (swapcontext) can be seen to overwrite one. `begun` are the fibers inside MainFunc,
  whose local shared_ptr keeps them alive, `held` those somebody else refers to.
  `m_runInScheduler` of a main fiber is not initialised by fiber.cc:42 and is chosen
  freely (`Made`). `Disciplined` says that callers keep to `MayResume` (as run() and
  stop() do), `MayYield` (only resumed fibers yield) and `MayDrop` (no fiber that never
  ran is destroyed).
- **FdTable.** A context is its slot and the count of its predecessors in that slot, as
  a shrinking vector forgets contexts and frees none. Sizes are divided by 16.
- **Address.** One request is answered by one action; the widths are the real ones. The
  shift by the width of int in CreateMask is undefined, and the build is -O0
  (CMakeLists.txt:5), where the processor takes it modulo 32.
- **FdEvents.** `events`, `ctx`, `m_pendingEventCount` are the code's; `interest`,
  `level`, `inReady` are epoll's. `EpollWait` takes a batch, `Handle` processes one
  descriptor of it under its lock. `aborted` records a failed LT_ASSERT of triggerEvent.
- **IOManager.** `IOTickle`, `IOStop`/`StopTickles`, and the idle loop: stopping() in
  the order of its reads, `IdleReadsTimers` (getNextTimer() == ~0ull),
  `IdleReadsPending` (m_pendingEventCount), `IdleReadsStopping` (the rest, under the
  lock); then `EpollReturns`, `ListExpired`, a `CallbackScheduled` for each callback,
  `Drain`, `Triggers` and `CountsDown` for each event of the batch, and `IdleYields`
  back to run(). `AddsTimer` arms a one-shot timer for a callback, which is one of the
  tasks, with or without the tickle of a front insertion; `TimerDue` lets it expire.
  Deadlines, cancel() and recurring timers are in `Timer` only. The timeout of
  epoll_wait is always possible, so that a lost tickle delays and does not block.
- **Hook.** One action for each stretch of a call between two points at which another
  thread, timer or event may step in: arm the timer, addEvent with the yield, the
  wake-up, the retry; for close() cancelAll, `Del` and `CloseF`. (Between addEvent and
  the yield nothing else of the fiber happens, and a fiber woken there stays in the
  queue until it is READY.) Timer callbacks have a step of their own between being
  collected and marking the call, and between that and cancelEvent; what epoll_wait
  returns (`Collect`) is handled later (`Deliver`), when the socket may be another.
  `polled` is the epoll set: close_f takes a number out of it, and what epoll_ctl then
  refuses triggers nothing (`Changed`). `history`, which is not in the code, names what
  went wrong with a wait: `late` (addEvent after a close()'s cancelAll), `spent`
  (addEvent after the callback of the call's own timer), `stray` (woken by something
  that is neither an event of the socket nor its own timer). For `OneShot` a fiber is
  `registered` while it is suspended and `notified` once it is queued.
- **Server.** `Bind`, `BindFails` and `Start` are calls of the owner, `Stop` sets
  m_isStop and schedules the task of stop(): `TaskBegins`, then for each socket
  `NextSocket` (its cancelAll) and the close, `Cancel`, `Del` and `CloseF`, then
  `AllClosed`. A failed bind goes the same way through the sockets that clear()
  destroys, and so does the last owner of a socket. startAccept is a loop through `test`
  (m_isStop), `try` (the kernel's accept), `add` (addEvent), `wait` and `woken`; a loop
  that is registered on a number when it is closed is `lost`, and `late` are those that
  had registered after the cancelAll of that close. One of bind, start and the task of
  stop() goes through m_socks at a time (`Owns`): what two at once do to the vector is
  undefined (tcp_server.cc:105). `m_socks` loses a number when its close ends, as m_sock
  is then -1; close_f and m_sock = -1 are one step. addEvent fails only on a closed
  number here; memory and limits of epoll are left to `Hook`. `HandleClient` is the
  handler until it closes its socket.

## 3. Runs

Bounds are chosen so that the case a property is about occurs; the mutant of each
property in PROJECT.json breaks it within the same bounds.

| Run | Instance | Shows |
|---|---|---|
| `timer` | 2 timers, 2 clients, 1 idle thread, delays {1, 3}, MAX_TIMEOUT 2, clock 10..12, stall 1, signals | deadlines fit, keys match, no wake-up for the front timer is lost, due timers are collected, and the refinement of `Alarm`: nothing early, nothing cancelled runs |
| `scheduler` | 2 workers and the caller, 2 tasks, 1 yield each, fibers requeue on their own thread | counts, ids, states and contexts, the refinement of `TaskPool`, and the end of stop() |
| `scheduler_requeue` | fibers requeue for any thread | violation of `ResumesSavedContext` |
| `fd_events` | 1 descriptor, 2 fibers, 2 idle threads | counts, tables, edges, wake-ups and the refinement of `OneShot` |
| `fd_events_stale` | the same | violation of `TriggersOnlyRegistered` |
| `fiber` | 2 threads, the root fiber and 2 others, created, resumed, migrated, reset and dropped in any order | control stacks, contexts, the current fiber |
| `fd_table` | 2 threads, descriptors 0..4, first size 2 | violation of `CancelFindsEvents` |
| `iomanager` | 1 worker and the owner, 2 tasks, each of which may be a timer's callback, 2 yields | counters exact, stop() returns, queued tasks run, and the refinement of `TaskPool`: stop() waits for tasks and events |
| `iomanager_stop` | 2 workers, 1 task, 2 yields | violation of `IOStopWaits` |
| `hook` | 2 fibers with 2 and 1 calls, 1 descriptor, 2 threads | a timed wait that began in time ends, by its own timer, the event or the close; connect() tells the truth; the refinement of `OneShot` |
| `tcp_server` | 2 numbers, 2 listeners, 2 threads, 2 starts, 1 pending task of stop(), 2 connections | no listener and no loop but a late one left behind, one loop for each listener while the server runs, no loop spins on a socket that is not its own, connections are accepted |
| `address` | every prefix, three patterns of bytes; every host of up to 5 characters of 4 kinds | prefixes by bits, node and service |

Why the bounds are enough. The races are between two parties on one object: two clients
on one timer, two threads on one fiber, two stale batches on one descriptor, an event
and a timer for one call; a second object (timer, task, fiber) is there because the code
orders objects or skips over one to reach the other. In `timer` one delay ends within
the bound of the clock and the other does not, one is cut by MAX_TIMEOUT and one not,
and a signal may postpone a wait. In `hook` the fiber with two calls is what a callback
or report of the first can meet in the second, while the other fiber calls or closes on
the second thread. In `tcp_server` one number is a listener and the other its client or
a second listener, so that the numbers run out (EMFILE) within the run. `Wrap`, `Hour`
and `IntMax` are scaled down and keep their order. In `fd_table` the first size and the
largest descriptor leave room for a resize that grows and one that shrinks. In `address`
a calculation treats each bit alike, so all zeros, all ones and one mixed byte suffice;
hosts need up to five characters for brackets around a node, a colon and a service. The
theorems below remove the bounds for eight modules.

`CHECK_DEADLOCK FALSE` appears where the program really may stop: clients that need not
act again (`timer`, `hook`), an aborted process (`fd_events`), a server with no more
callers (`tcp_server`). Scheduler and IOManager have an explicit `Done`, and deadlock is
checked.

### What holds only under a condition

Where a constant is named, TLC finds the property violated with the other value.

- `SetConsistent`, `FrontTimerCovered`, `WaitIsBounded`, `ImplementsAlarm`: no sum of
  the clock and a delay reaches 2^64 (`NoWrap`). With a wrapped sum m_next is below
  m_ms, and reset() computes a deadline from it that nobody asked for; a negative
  timeval given to setsockopt makes such a delay (hook.cc:477). That the set matches its
  keys and callbacks needs no such condition (`SetMatchesCallbacksCorrect`).
- `FrontTimerCovered`, `WaitIsBounded`: delays that fit an int (iomanager.cc:373).
  `FrontTimerCovered` holds up to what signals have added to the wait: after EINTR the
  code enters epoll_wait with the old timeout and does not ask for the next timer
  (iomanager.cc:378-379), so that the thread sleeps past the front deadline by as long
  as it had slept before the signal. Without `overslept` the property fails.
- `NeverEarly`, `ImplementsAlarm`: the machine has been up longer than the rollover
  threshold and no thread is stalled that long between reading the clock and locking.
  With `Boot` below `Hour` and two idle threads m_previouseTime - 3600000 (timer.cc:195)
  wraps, and a clock reading overtaken before the lock runs every timer at once. The run
  `timer` has one idle thread and `Boot` above `Hour`, so that neither happens in it:
  overtaken readings are in the theorem only, the wrap is in neither.
- `IOStopReturns`: the armed timers are one-shot and fall due. A recurring timer, or one
  that is never due, keeps stopping() false and stop() from returning, which
  iomanager.cc:335-339 asks for.
- `ResumesSavedContext`: fibers requeue themselves only for their own thread; the run
  `scheduler_requeue` shows the other case.
- `iomanager`: one worker; `WindowMissed` leaves out the executions in which the swap of
  `scheduler_requeue` happens, as what follows it is undefined. With two workers
  `IOStopWaits` fails (`iomanager_stop`); the counters stay exact, and
  `IOImplementsTaskPool` asks for the stop of TaskPool only with one thread in run(). A
  tickle may be lost even with one worker (iomanager.cc:322), so that a task waits for
  the timeout of epoll_wait; `QueuedTaskRuns` holds by that timeout.
- `hook`: two threads, and three ways in which a wait goes wrong in the code, which
  `history` names and the properties exempt; without the exemption TLC finds each of
  them violated. `late`: a fiber that calls addEvent between cancelAll and close_f of
  another thread's close() (hook.cc:353-357) stays registered on a number that epoll has
  forgotten, and nothing but its timer, whose cancelEvent then fails
  (iomanager.cc:258-262), could wake it (`CloseWakesWaiters`, `TimedWaitCovered`,
  `TimedWaitEnds`). `spent`: the timer may fire and its callback run between the arming
  and addEvent (hook.cc:122-132); the call then waits without a timeout, against "here
  is a read timeout" (test_tcp_server.cc:22), a test with two threads. `stray`:
  connect() looks at SO_ERROR whoever has woken it (hook.cc:281), and returns 0 with the
  connection pending if that was a close() that has not reached close_f, a late callback
  of an earlier call, or a report of epoll_wait from before; and it looks there too when
  addEvent has been refused (hook.cc:273) (`ConnectTellsTruth`). A thread that holds
  several reports counts once for each against `Threads`. `HeldReuse = FALSE`: a number
  that a suspended call holds is not given to a new socket; otherwise the woken call
  retries on the other socket (hook.cc:148), and `WaitersConsistent` and
  `ConnectTellsTruth` fail.
- `fiber`: `Disciplined = TRUE`, which keeps callers to what the assertions of fiber.cc
  ask for: that none of them fails is assumed and not shown. Otherwise each invariant of
  the run fails: a fiber that resumes another with the same target loses its
  continuation, a main fiber or run() that yields breaks the current-fiber pointer, and
  destroying a fiber that never ran aborts (fiber.cc:110).
- `PrefixesExact`: IPv4 prefixes of 1 to 32 bits. For zero the mask comes out empty;
  subnetMask has no test for more than 32. IPv6Address::networkAddress is left out: in
  the byte in which the prefix ends it keeps the bits below the prefix and clears those
  above (address.cc:442; address.cc:344 has the complement), against "get the segment of
  this address" (address.h:158), as the theorem `Network6KeepsHostBits` states; with 128
  bits broadcastAddress writes one byte past the address, into sin6_scope_id.
- `LookupSplits`: hosts of the formats of address.cc:33. A bare IPv6 host has more than
  one colon, and service is left at the first.
- `tcp_server`: hooked threads only; bind and start only after a stop has ended
  (`Overlap = FALSE`; otherwise both parts of `LoopsMatchListeners` and `NoLoopSpins`
  fail, as the task of an earlier stop() closes the sockets of the new start);
  ioctl(FIONBIO) with one only (with zero `ManagedIsNonblocking` fails). A loop that
  registers between cancelAll and close_f of the task of stop() (`late`;
  hook.cc:353-357) may be lost: it waits for ever on a closed number, as a listener has
  no timer. `LoopsCovered` and `StopEndsLoops` name these loops; TLC reaches one in 13
  steps. When the process has no number left accept fails with EMFILE and the loop tries
  again and again: `NoLoopSpins` allows that, and `ConnectionsAccepted` holds unless
  `Exhausted`, that is unless no client has a number to give back or the loops that
  retry have all the threads its handler would need. All of this happens in the run.

### Findings

Four runs show the code doing what a comment, an assertion or a test excludes; the
quotations are in `findings`.

1. `scheduler_requeue`: a fiber that requeues itself for any thread, as
   test_scheduler.cc does, can be resumed from a context not yet saved.
2. `fd_events_stale`: idle() triggers an event of its batch that has been deleted
   meanwhile, and the assertion of triggerEvent aborts.
3. `fd_table`: a second resize of `m_fdContexts` drops a context with a registered
   event, which cancelAll then does not find.
4. `iomanager_stop`: stopping() reads the pending count before it takes the lock for the
   queue and the active threads. A worker that has left idle() still runs one more task;
   that task registers for an event between the two reads of the other worker, and
   stop() returns with a fiber registered.

Two comments of fiber.h describe another design than fiber.cc: the fiber that resumes
does not become READY (fiber.h:62, 68), as only the fiber that is resumed or yields
changes its state, and GetThis() is not the executing fiber in run() on the caller's
thread (fiber.h:89; `CurrentIsExecuting` names the exception).

## 4. Fairness

Fairness is weak everywhere and is stated per thread: the operating system keeps
scheduling every thread, and a thread that can take its next step takes it. None is
assumed for the owner's calls (schedule, stop, bind), for clients of timers, for the
arrival of events at a descriptor, or for what a task chooses. Beyond threads: `Timer`
has `WF(Tick)` (time passes) and none for `Interrupted` (signals cease, by the bound of
the clock); `IOManager` lets its constructor start the threads (iomanager.cc:122), each
awaited event occur and each armed timer fall due (its properties are about stop(),
which waits for them by design, and about queued tasks, which a thread that is busy for
ever would starve); `Hook` lets timers expire, their callbacks run and idle() handle the
reports it has (`Deliver`), but no event ever has to occur: that is what a timeout is
for; `Server` lets a thread that is in a close, or in the task of stop(), go on with it,
that task begin, and handlers return. Locks need no fairness of their own: a critical
section is one action.

## 5. Proofs

All are checked by TLAPS without assumptions other than the named ASSUMEs of the
modules, for every value of the constants.

**TimerProofs** (any timers, clients, idle threads, delays). Inductive invariants:
`SetInv` - the key of each timer in the set is its `m_next`, the set holds the published
timers with a callback, a timer under construction is not published yet, and a cancelled
one is in no list; `Fits` - no deadline wraps, so that each lies between its interval
and its interval from now; `CoverInv` - `m_tickled` is set only while some thread is
about to look at the timers or a wake-up is under way, and otherwise some thread sleeps
no longer than the front deadline and what signals have added; `Recent` - clock readings
and m_previouseTime lie within MaxStall of each other, so that the rollover test stays
silent. `SetMatchesCallbacks` and `CancelledNeverRuns` follow whatever the delays,
wrapped sums included; `SetConsistent` with the hypothesis `NoWrap`; `FrontTimerCovered`
and `WaitIsBounded` with `NoWrap` and delays that fit an int, for any number of signals;
`NeverEarly` with an uptime above the threshold and stalls below it. `AlarmImplemented`
puts them into one refinement: with `NoWrap` and the hypotheses of `NeverEarly`,
`Expired` returns exactly the entries that are due (no rollover), so that listExpiredCb
is one Ring of alarms that were due at the instant the thread read, to a thread that has
dealt with what it was handed before (`HandsFree`), and every call of a client is Set,
Cancel, Refresh, Reset or hidden, because the deadline it changes is that of a timer in
the set. `NeverEarly` and `CancelledNeverRuns`, which `Alarm` implies, are theorems and
no longer runs.

**SchedulerProofs** (any finite set of workers, with or without the caller, any tasks,
pins and bounds). `Shape` says in which phases a thread holds a task and that the owner
is outside run() only before stop(). The counters are the cardinalities of the threads
that hold a task and of those in their idle fiber (`Counts`). `Token` is the heart: a
task has at most one token, its queue entry or the thread that took the entry and has
not queued it again; a thread that is about to yield owns a RUNNING fiber whose entry
nobody may take. `Somewhere` says that a task that is neither new nor at its end has
one. Without them neither "READY when resumed" nor "on one thread" is inductive, as a
second entry of the same fiber would be enough to break them. From these follow
`PoolConsistent` (types, counts and ids), `NoEarlyLeave`, `OneThreadPerFiber` and
`StopWaitsForTasks`. With the same invariant every step of `Scheduler` is a step or a
stutter of `TaskPool`: a new task that is queued is Submit, resume is Begin, the change
of m_state in yield() is Yield, MainFunc's end is End, the last join is Stop, and the
rest (taking, requeueing, ticking, idling) is hidden; `TaskPoolImplemented` says so
without a hypothesis on the pins. `ResumesSavedContext` needs `Contexts` as well (a
fiber that is queued but not saved is pinned to the thread that is still saving it) and
the hypothesis that fibers requeue for their own thread; `scheduler_requeue` shows that
it is needed.

**IOManagerProofs** (any finite set of workers, with or without the caller, any tasks
and pins). `Registered` says that an event returned by epoll_wait is in one batch or on
the ready list and belongs to a registered fiber. The tokens are those of the scheduler,
with one more place for a task (`Exclusive`, `Known`): registered, and then neither
queued nor about to run. So each wait adds one registration and each trigger takes one
away, which makes `PendingCoversWakeUps` inductive; `IdleConsistent` counts the threads
inside idle() and types the timers (`TimerTypes`), and `OneThreadPerFiber` carries over.
`StopWaitsWithOneThread` has the hypothesis that one thread takes part in run(): then no
fiber registers between the two reads of stopping() (`Rest`). That invariant is what
fails with two threads. `IOTaskPoolImplemented` is the refinement of `TaskPool` without
a hypothesis: a task that registers and one that is triggered change places (running to
registered, registered to queued) that TaskPool does not tell apart, a callback that
idle() schedules is Submit (a timer holds new tasks only), and a yield finds the fiber
in one of them by `Known`. Its stop is Stop of TaskPool with one thread in run(), by
`Rest` (`Rests`).

**FdEventsProofs** (any finite set of descriptors, any fibers and idle threads). `Kinds`
reduces the actions to six kinds of change. `Table` - events and contexts agree;
`Whereabouts` - every fiber is running, registered in exactly one slot, queued once or
dropped; `Edges` - epoll's interest is what is registered, and a registered event whose
condition holds is on the ready list or in a batch. They give `PendingExact` (by
counting registrations), `OneWakeUpPerRegistration`, `NoLostEdge`, `TableConsistent`,
and with them every step of `FdEvents` is a step or a stutter of `OneShot`: the theorem
`OneShotImplemented`.

**FiberProofs** (any threads and fibers, `Disciplined` as hypothesis). The invariant
says in which of four places a thread is (not begun, its main fiber, run() on the
owner's thread, a fiber), which fibers are RUNNING, the root fiber under the tasks of
run() among them, that no fiber executes on two threads, and whose continuation each
context holds. `ResumeKeeps` and `YieldKeeps` do the work, from lemmas that say what one
swapcontext does. `FiberConsistent` and `CurrentIsExecuting` follow.

**HookProofs** (any finite set of fibers, any descriptors, number of calls and number of
threads). What concerns one call at a time: `Slots` - a registered fiber waits for that
event and is not queued yet; `Sleepers` - a sleeping fiber has one timer until its
callback has queued it; `Armed` and `Own` - an armed timer belongs to the present call,
and every timer of that call to the event it waits for. These give `NoOrphanTimer` and
`TimeoutIsOwn`. `Known` says that epoll has no closed number and every number with a
registration that is not late, and that between cancelAll and close_f of a number only
late ones are registered there: this gives `CloseWakesWaiters`. `Covered` says that a
timed wait that is not queued and began in time has a callback of its own still to come,
which with `Known` is `TimedWaitCovered`: addEvent finds the callback or notes `spent`,
and what ends a callback queues the fiber. `Users` (one user for each event of a number,
and none is left managed after its close) needs the hypothesis that no held number is
reused, and gives `WaitersConsistent`; with it a connect() that is woken without `stray`
and without a timeout has been answered by the kernel (`Kinds`, `Answers`), which is
`ConnectTellsTruth`. `OneShotWaits` needs no hypothesis: with numbers reused while held,
too, a suspended fiber is woken once for each wait, although an event, a timer and a
close compete for it; `Slots` and `Sleepers` say that each of them finds the fiber
registered or not at all.

**ServerProofs** (any numbers, threads, addresses, starts, stops and connections).
`Sockets` says that what the server and its loops hold listens, and that a close is
under way only of an open number, of m_socks only while somebody goes through it, of
others only when no loop holds them. With it `ListenersConsistent` holds whatever
overlaps: a failed bind closes exactly the sockets no loop holds, the task of stop() all
of m_socks, and the last loop its own. `ManagedIsNonblocking` needs that a number has a
context from when it is opened until the close has deleted it (`ContextWhileOpen`), and
the hypothesis that nobody clears the flag with ioctl(FIONBIO, 0). With ~Overlap every
live loop is of the last start (`OneRun`), which gives the half `OneLoopPerSocket` of
`LoopsMatchListeners`, and its socket is open, listens and has its context while the
server runs, which is `NoLoopSpins`. The other half, `LoopsCovered`, follows from
`Covered`: while the server runs, the live loops are on sockets of m_socks and every
socket there has one; once it is stopped, a task of stop() stands against the sockets
that are left, and a cancelAll against every loop that waits and is not late. A loop
that registers finds the close of its number before cancelAll, or is late by definition;
one that is registered when cancelAll comes is woken. ~Overlap is needed, as section 3
says: with it FALSE the code fails, and the theorems say what the discipline buys.

**AddressProofs** (any addresses and hosts). Bit by bit: `SwappedBit` says where
byteswap puts a bit, `MaskBit` which bits CreateMask sets, and the six calculations are
compared with `InPrefix` through them. `PrefixesExact` follows for every address, and
`Network6KeepsHostBits` says where the sixth calculation, which `PrefixesExact` leaves
out, goes wrong. For `LookupSplits` the places that memchr finds are determined from
what occurs in which part of the host (`PartOf`), so that for each of the three forms
Lookup has one answer, whatever the length and the characters.

Model-checked only: liveness (`DueTimerCollected`, `StopReturns`, `ReadyEventDelivered`,
`IOStopReturns`, `QueuedTaskRuns`, `TimedWaitEnds`, `StopEndsLoops`,
`ConnectionsAccepted`), which TLAPS cannot derive from fairness.

## 6. Not modelled

- The growth of `FdManager::m_datas`: get() has the race of `FdTable`
  (fd_manager.cc:94), and besides replaces a context that another thread has just
  created.
- The failure of the second epoll_ctl of idle() (iomanager.cc:433-437), in `FdEvents`:
  it takes a descriptor that epoll no longer knows, and no descriptor is closed there;
  `Hook` has it (`Changed`).
- Recurring timers and cancel() together with stop(): `IOManager` has one-shot timers
  only.
- Calls on threads without hooks, file descriptors that are not sockets, the lengths of
  reads and writes, socket options other than the timeouts and flags above. setsockopt
  with a timeout of zero, "no timeout" for the kernel, makes every timed call of do_io
  time out at once (hook.cc:477).
- The hook flag, which run() leaves set on the caller's thread (scheduler.cc:139).
- Thread and lock wrappers beyond the construction handshake and join: names, pthread
  wrappers; a critical section is one action.
- The products of sleep and nanosleep (hook.cc:172, 197), which may wrap: what they wrap
  to is an ordinary delay.
- Address: getaddrinfo, interfaces, unix addresses, comparison and printing.
- JsonConfig: its cache is looked up and never filled, so no operation of it changes
  state, and what a lookup answers is jsoncpp's.
- jsoncpp and spdlog are third-party; logging, names and toString decide nothing.

## 7. Plan

Done: Timer with Alarm, Scheduler and IOManager with TaskPool, FdEvents and Hook with
OneShot, Fiber, FdTable, Server, Address; the proofs of the Timer, the Scheduler, the
Fiber, IOManager, FdEvents, Hook, Server and Address.

Left, in order:

1. `FdTable` for `FdManager::m_datas`, with the contexts that get() replaces.
2. The abstract promise of `Fiber` (a stack of calls for each thread) and of `Server` (a
   set of served addresses), with the refinements.
