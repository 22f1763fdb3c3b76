------------------------------- MODULE Timer -------------------------------
(***************************************************************************)
(* TimerManager and Timer (src/src/timer.cc, src/include/timer.h), with    *)
(* the two kinds of thread that use them: clients that add, cancel,        *)
(* refresh and reset timers, and the idle loop of IOManager, which sleeps  *)
(* until the next deadline and collects the expired callbacks.             *)
(*                                                                         *)
(* A critical section under m_mutex is one action.  What the code reads    *)
(* before it takes the lock is read in an earlier action: the deadline     *)
(* computed by the Timer constructor, and now_ms of listExpiredCb.         *)
(***************************************************************************)
EXTENDS Integers, FiniteSets

CONSTANTS
  Timers,      \* the Timer objects, named by their address
  Clients,     \* threads that call addTimer, cancel, refresh, reset
  Idlers,      \* threads that run IOManager::idle
  Delays,      \* the intervals clients ask for, in clock ticks (uint64_t)
  Boot,        \* GetElapsedMS() when the manager is built
  MaxTime,     \* bound of the clock and of the calls of clients
  MaxStall,    \* bound of the time between reading now_ms and locking
  Hour,        \* 60 * 60 * 1000, the rollover threshold
  Wrap,        \* 2^64, the width of uint64_t
  IntMax,      \* 2^31, the width of int
  MaxTimeout   \* MAX_TIMEOUT of IOManager::idle

ASSUME TimersAssumption  == Timers \subseteq Nat
ASSUME IdlersAssumption  == Idlers # {}     \* LT_ASSERT(threads > 0)
ASSUME DelaysAssumption  == Delays \subseteq 0 .. (Wrap - 1)
ASSUME NumbersAssumption ==
  /\ Boot \in Nat /\ MaxTime \in Nat /\ MaxStall \in Nat
  /\ Hour \in Nat /\ Wrap \in Nat /\ IntMax \in Nat /\ MaxTimeout \in Nat
  /\ Boot <= MaxTime /\ MaxTime < Wrap /\ Hour < Wrap
  /\ MaxTimeout < IntMax /\ IntMax < Wrap

VARIABLES
  clock,            \* GetElapsedMS(): CLOCK_MONOTONIC_RAW, since boot
  m_timers,         \* the std::set: <<key, timer>>, ordered by Before
  m_ms, m_next, m_cb, m_recurring,   \* the fields of each Timer
  m_tickled,
  m_previouseTime,
  known,            \* timers whose pointer a client may hold
  cpc, carg,        \* each client: where it is, the timer it constructs
  ipc, now,         \* each idler: where it is, its now_ms
  timeout, until,   \* the timeout it gave to epoll_wait, when that ends
  overslept,        \* history: what signals have added to its wait
  cbs,              \* callbacks the idler's last listExpiredCb returned
  drains,           \* idlers whose epoll_wait returned the tickle pipe
  piped,            \* epoll_wait would return the tickle pipe
  cancelled         \* timers whose cancel() returned true

timerVars  == <<m_timers, m_ms, m_next, m_cb, m_recurring, known, cancelled>>
clientVars == <<cpc, carg>>
waitVars   == <<timeout, until, overslept>>
idlerVars  == <<ipc, now, waitVars, cbs, drains>>
vars == <<clock, timerVars, m_tickled, m_previouseTime, clientVars,
          idlerVars, piped>>

Never == -1      \* a negative timeout: epoll_wait blocks indefinitely

(***************************************************************************)
(* uint64_t arithmetic, and the conversions between uint64_t and int.      *)
(***************************************************************************)
Uint64 == 0 .. (Wrap - 1)
Plus(a, b) == IF a + b < Wrap THEN a + b ELSE a + b - Wrap
Minus(a, b) == IF a >= b THEN a - b ELSE Wrap + a - b
ToUint64(n) == IF n >= 0 THEN n ELSE Wrap + n
ToInt(x) == IF x < IntMax THEN x
            ELSE ((x + IntMax) % (2 * IntMax)) - IntMax

(* Timer::Comparator: by deadline, then by address. *)
Before(a, b) == \/ a[1] < b[1]
                \/ a[1] = b[1] /\ a[2] < b[2]

AtFront(e, S) == \A f \in S : ~Before(f, e)

(* What find(shared_from_this()) looks for, and the set once it is erased. *)
Key(t) == <<m_next[t], t>>
WithoutNoErase(t) == m_timers
Without(t) == m_timers \ {Key(t)}

Init ==
  /\ clock = Boot
  /\ m_timers = {}
  /\ m_ms = [t \in Timers |-> 0]
  /\ m_next = [t \in Timers |-> 0]
  /\ m_cb = [t \in Timers |-> FALSE]
  /\ m_recurring = [t \in Timers |-> FALSE]
  /\ m_tickled = FALSE
  /\ m_previouseTime = Boot
  /\ known = {}
  /\ cpc = [c \in Clients |-> "free"]
  /\ carg = [c \in Clients |-> 0]
  /\ ipc = [i \in Idlers |-> "run"]
  /\ timeout = [i \in Idlers |-> 0]
  /\ until = [i \in Idlers |-> 0]
  /\ overslept = [i \in Idlers |-> 0]
  /\ now = [i \in Idlers |-> 0]
  /\ cbs = [i \in Idlers |-> {}]
  /\ drains = {}
  /\ piped = FALSE
  /\ cancelled = {}

----------------------------------------------------------------------------
(***************************************************************************)
(* TimerManager::addTimer(val, lock): the private overload that inserts    *)
(* under the caller's lock and, once it is released, owes the virtual      *)
(* onTimerInsertedAtFront (the client's next step, Notify).                *)
(***************************************************************************)
FrontOnlyIfEmpty(e, rest) == rest = {} /\ ~m_tickled
FrontInsertion(e, rest) == AtFront(e, rest) /\ ~m_tickled

InsertLocked(c, e, rest) ==
  LET at_front == FrontInsertion(e, rest)
  IN /\ m_timers' = rest \cup {e}
     /\ m_tickled' = (m_tickled \/ at_front)
     /\ cpc' = [cpc EXCEPT ![c] = IF at_front THEN "notify" ELSE "free"]

(* A client between two calls; it begins none at the last instant, MaxTime. *)
MayCall(c) == cpc[c] = "free" /\ clock < MaxTime

(* The Timer constructor: the deadline is computed before the lock. *)
Construct(c, t, ms, recurring) ==
  /\ MayCall(c)
  /\ ~m_cb[t] /\ t \notin known
  /\ \A d \in Clients : cpc[d] = "insert" => carg[d] # t
  /\ m_recurring' = [m_recurring EXCEPT ![t] = recurring]
  /\ m_ms' = [m_ms EXCEPT ![t] = ms]
  /\ m_cb' = [m_cb EXCEPT ![t] = TRUE]
  /\ m_next' = [m_next EXCEPT ![t] = Plus(clock, ms)]
  /\ cpc' = [cpc EXCEPT ![c] = "insert"]
  /\ carg' = [carg EXCEPT ![c] = t]
  /\ UNCHANGED <<clock, m_timers, known, cancelled, m_tickled,
                 m_previouseTime, idlerVars, piped>>

(* The rest of TimerManager::addTimer(ms, cb, recurring). *)
Insert(c) ==
  /\ cpc[c] = "insert"
  /\ InsertLocked(c, Key(carg[c]), m_timers)
  /\ known' = known \cup {carg[c]}
  /\ carg' = [carg EXCEPT ![c] = 0]       \* meaningful in "insert" only
  /\ UNCHANGED <<clock, m_ms, m_next, m_cb, m_recurring, cancelled,
                 m_previouseTime, idlerVars, piped>>

(***************************************************************************)
(* onTimerInsertedAtFront, which IOManager overrides with tickle(): a byte *)
(* is written only when some thread is in idle(), as one in "run" may be.  *)
(***************************************************************************)
Notify(c) ==
  /\ cpc[c] = "notify"
  /\ \/ piped' = TRUE
     \/ (\A i \in Idlers : ipc[i] = "run") /\ UNCHANGED piped
  /\ cpc' = [cpc EXCEPT ![c] = "free"]
  /\ UNCHANGED <<clock, timerVars, m_tickled, m_previouseTime, carg,
                 idlerVars>>

(* Timer::cancel: erase(find(..)) with no test of the iterator. *)
Cancel(c, t) ==
  /\ MayCall(c) /\ t \in known
  /\ m_cb[t]
  /\ m_cb' = [m_cb EXCEPT ![t] = FALSE]
  /\ m_timers' = Without(t)
  /\ cancelled' = cancelled \cup {t}
  /\ UNCHANGED <<clock, m_ms, m_next, m_recurring, known, m_tickled,
                 m_previouseTime, clientVars, idlerVars, piped>>

(* Timer::refresh: reinserts without addTimer, so it never tickles. *)
Refresh(c, t) ==
  /\ MayCall(c) /\ t \in known
  /\ m_cb[t] /\ Key(t) \in m_timers
  /\ m_next' = [m_next EXCEPT ![t] = Plus(clock, m_ms[t])]
  /\ m_timers' = Without(t) \cup {<<Plus(clock, m_ms[t]), t>>}
  /\ UNCHANGED <<clock, m_ms, m_cb, m_recurring, known, cancelled, m_tickled,
                 m_previouseTime, clientVars, idlerVars, piped>>

(* The instant a reset interval counts from. *)
Start(t, ms, from_now) ==
  IF from_now THEN clock ELSE Minus(m_next[t], m_ms[t])

(* Timer::reset; with the old interval and ~from_now it returns at once. *)
Reset(c, t, ms, from_now) ==
  /\ MayCall(c) /\ t \in known
  /\ ms # m_ms[t] \/ from_now
  /\ m_cb[t] /\ Key(t) \in m_timers
  /\ LET start == Start(t, ms, from_now)
     IN /\ m_ms' = [m_ms EXCEPT ![t] = ms]
        /\ m_next' = [m_next EXCEPT ![t] = Plus(start, ms)]
        /\ InsertLocked(c, <<Plus(start, ms), t>>, Without(t))
  /\ UNCHANGED <<clock, m_cb, m_recurring, known, cancelled,
                 m_previouseTime, carg, idlerVars, piped>>

----------------------------------------------------------------------------
(***************************************************************************)
(* The idle loop.  "run": anywhere outside idle's wait, including a task   *)
(* the thread is executing; "wait": in epoll_wait until the deadline       *)
(* until[i]; "list": now_ms is read, the lock of listExpiredCb not taken.  *)
(***************************************************************************)
EpollTimeout(next_timeout) ==
  LET n == ToInt(next_timeout)
  IN IF next_timeout # Wrap - 1 /\ n < MaxTimeout THEN n ELSE MaxTimeout

EndOf(ms) == IF ms < 0 THEN Never ELSE clock + ms

(* getNextTimer, ~0ull when there is no timer. *)
NextTimer(e) == IF clock >= e[1] THEN 0 ELSE e[1] - clock

EpollWait(i, ms) ==
  /\ timeout' = [timeout EXCEPT ![i] = ms]
  /\ until' = [until EXCEPT ![i] = EndOf(ms)]

GetNextTimer(i) ==
  /\ ipc[i] = "run" /\ i \notin drains
  /\ m_tickled' = FALSE
  /\ \/ m_timers = {} /\ EpollWait(i, EpollTimeout(Wrap - 1))
     \/ \E e \in m_timers : /\ AtFront(e, m_timers)
                            /\ EpollWait(i, EpollTimeout(NextTimer(e)))
  /\ overslept' = [overslept EXCEPT ![i] = 0]
  /\ ipc' = [ipc EXCEPT ![i] = "wait"]
  /\ cbs' = [cbs EXCEPT ![i] = {}]
  /\ UNCHANGED <<clock, timerVars, m_previouseTime, clientVars, now, drains,
                 piped>>

TimedOut(i) == until[i] # Never /\ clock >= until[i]

(***************************************************************************)
(* A signal interrupts epoll_wait, which idle calls again with the timeout *)
(* it has: neither getNextTimer nor listExpiredCb comes in between, so the *)
(* wait starts afresh.  (-1, the only timeout that reads as ~0ull, becomes *)
(* MAX_TIMEOUT.)  MaxTime bounds the signals: the new wait ends before it. *)
(***************************************************************************)
Interrupted(i) ==
  /\ ipc[i] = "wait" /\ ~piped
  /\ LET ms == EpollTimeout(ToUint64(timeout[i]))
     IN /\ EndOf(ms) <= MaxTime
        /\ EpollWait(i, ms)
        /\ overslept' = [overslept EXCEPT ![i] =
             IF until[i] = Never THEN 0 ELSE @ + EndOf(ms) - until[i]]
  /\ UNCHANGED <<clock, timerVars, m_tickled, m_previouseTime, clientVars,
                 ipc, now, cbs, drains, piped>>

(***************************************************************************)
(* epoll_wait returns: after its timeout, for the pipe, or at any time for *)
(* a descriptor.  Its batch takes the edge of the pipe with it.  Then      *)
(* listExpiredCb reads the clock.                                          *)
(***************************************************************************)
WakeUp(i) ==
  /\ ipc[i] = "wait"
  /\ ipc' = [ipc EXCEPT ![i] = "list"]
  /\ now' = [now EXCEPT ![i] = clock]
  /\ timeout' = [timeout EXCEPT ![i] = 0]      \* meaningful in "wait" only
  /\ until' = [until EXCEPT ![i] = 0]
  /\ overslept' = [overslept EXCEPT ![i] = 0]
  /\ drains' = IF piped THEN drains \cup {i} ELSE drains
  /\ piped' = FALSE
  /\ UNCHANGED <<clock, timerVars, m_tickled, m_previouseTime, clientVars, cbs>>

(* The pipe is read until it is empty, later bytes included. *)
Drain(i) ==
  /\ ipc[i] = "run" /\ i \in drains
  /\ drains' = drains \ {i}
  /\ piped' = FALSE
  /\ UNCHANGED <<clock, timerVars, m_tickled, m_previouseTime, clientVars,
                 ipc, now, waitVars, cbs>>

(* detectClockRollover, on the m_previouseTime before it is overwritten. *)
Rollover(now_ms) ==
  /\ now_ms < m_previouseTime
  /\ now_ms < Minus(m_previouseTime, Hour)

(* The entries [begin, it) that listExpiredCb takes. *)
ExpiredOffByOne(now_ms) == {e \in m_timers : e[1] <= now_ms + 1}
Expired(now_ms) ==
  IF Rollover(now_ms) THEN m_timers
                      ELSE {e \in m_timers : e[1] <= now_ms}

(* Does a collected timer keep its callback?  A one-shot timer does not. *)
KeepsAllCallbacks(t) == TRUE
KeepsCallback(t) == m_recurring[t]

(* The critical section of listExpiredCb; an empty set returns early. *)
ListExpiredCb(i) ==
  /\ ipc[i] = "list"
  /\ LET expired == Expired(now[i])
         taken == {e[2] : e \in expired}
     IN /\ m_next' = [t \in Timers |->
                        IF t \in taken /\ m_recurring[t]
                          THEN Plus(now[i], m_ms[t]) ELSE m_next[t]]
        /\ m_cb' = [t \in Timers |->
                      IF t \in taken THEN KeepsCallback(t) ELSE m_cb[t]]
        /\ m_timers' = (m_timers \ expired) \cup
                         {<<Plus(now[i], m_ms[t]), t>> :
                            t \in {u \in taken : m_recurring[u]}}
        /\ cbs' = [cbs EXCEPT ![i] = taken]
  /\ m_previouseTime' = IF m_timers = {} THEN m_previouseTime ELSE now[i]
  /\ ipc' = [ipc EXCEPT ![i] = "run"]
  /\ now' = [now EXCEPT ![i] = 0]         \* meaningful in "list" only
  /\ UNCHANGED <<clock, m_ms, m_recurring, known, cancelled, m_tickled,
                 clientVars, waitVars, drains, piped>>

(* Time passes, but no idler stays longer than MaxStall before its lock. *)
Tick ==
  /\ clock < MaxTime
  /\ \A i \in Idlers : ipc[i] = "list" => clock < now[i] + MaxStall
  /\ clock' = clock + 1
  /\ UNCHANGED <<timerVars, m_tickled, m_previouseTime, clientVars,
                 idlerVars, piped>>

ClientStep(c) ==
  \/ \E t \in Timers, ms \in Delays, r \in BOOLEAN : Construct(c, t, ms, r)
  \/ Insert(c)
  \/ Notify(c)
  \/ \E t \in Timers : Cancel(c, t)
  \/ \E t \in Timers : Refresh(c, t)
  \/ \E t \in Timers, ms \in Delays, b \in BOOLEAN : Reset(c, t, ms, b)

IdlerStep(i) ==
  \/ GetNextTimer(i)
  \/ Interrupted(i)
  \/ WakeUp(i)
  \/ ListExpiredCb(i)
  \/ Drain(i)

Next == \/ \E c \in Clients : ClientStep(c)
        \/ \E i \in Idlers : IdlerStep(i)
        \/ Tick

Spec == Init /\ [][Next]_vars

(***************************************************************************)
(* Fairness: threads that can run do run, time passes, epoll_wait returns  *)
(* once its timeout has passed or the pipe is readable, signals cease.     *)
(* Nothing forces a client to start a new call, nor an event to arrive.    *)
(***************************************************************************)
MustWake(i) == (TimedOut(i) \/ piped) /\ WakeUp(i)

Fairness ==
  /\ WF_vars(Tick)
  /\ \A c \in Clients : WF_vars(Insert(c) \/ Notify(c))
  /\ \A i \in Idlers :
       WF_vars(GetNextTimer(i) \/ MustWake(i) \/ ListExpiredCb(i) \/ Drain(i))

FairSpec == Spec /\ Fairness

----------------------------------------------------------------------------
(* Every variable has its type. *)
TypeFlags == m_tickled \in BOOLEAN /\ piped \in BOOLEAN
TypeTimers ==
  /\ clock \in Uint64 /\ m_previouseTime \in Uint64
  /\ m_timers \subseteq Uint64 \X Timers
  /\ m_ms \in [Timers -> Uint64]
  /\ m_next \in [Timers -> Uint64]
  /\ m_cb \in [Timers -> BOOLEAN]
  /\ m_recurring \in [Timers -> BOOLEAN]
  /\ known \subseteq Timers /\ cancelled \subseteq Timers
TypeThreads ==
  /\ cpc \in [Clients -> {"free", "insert", "notify"}]
  /\ carg \in [Clients -> Nat]
  /\ \A c \in Clients : cpc[c] = "insert" => carg[c] \in Timers
  /\ ipc \in [Idlers -> {"run", "wait", "list"}]
  /\ timeout \in [Idlers -> Int] /\ until \in [Idlers -> Int]
  /\ overslept \in [Idlers -> Int]
  /\ now \in [Idlers -> Uint64]
  /\ cbs \in [Idlers -> SUBSET Timers]
  /\ drains \subseteq Idlers
TypeOK == TypeFlags /\ TypeTimers /\ TypeThreads

(***************************************************************************)
(* Deadlines and intervals agree: m_next - m_ms, which reset() computes in *)
(* uint64_t, does not underflow, and no deadline lies further ahead than   *)
(* its own interval, which is why refresh() can only postpone.  It takes   *)
(* delays whose sum with the clock fits uint64_t.                          *)
(***************************************************************************)
DeadlinesFitIntervals ==
  \A t \in Timers : m_ms[t] <= m_next[t] /\ m_next[t] <= clock + m_ms[t]

(***************************************************************************)
(* The ordered set stays searchable: the key under which a timer was       *)
(* inserted is its current m_next, and the timers in the set are those     *)
(* published with a callback.  cancel() erases what find() returns without *)
(* comparing it with end(), and listExpiredCb copies m_cb without testing  *)
(* it: both rest on this.                                                  *)
(***************************************************************************)
SetMatchesCallbacks ==
  /\ \A e \in m_timers : e[1] = m_next[e[2]] /\ e[2] \in known /\ m_cb[e[2]]
  /\ \A t \in known : m_cb[t] => Key(t) \in m_timers

(* The set and the records of its timers are sound: types, keys, deadlines. *)
SetConsistent == TypeOK /\ DeadlinesFitIntervals /\ SetMatchesCallbacks

(***************************************************************************)
(* Once cancel() of a one-shot timer has returned true, its callback is    *)
(* in no list of callbacks to run, now or later (recurring timers may have *)
(* a copy of the callback under way).                                      *)
(***************************************************************************)
CancelledNeverRuns ==
  \A i \in Idlers : \A t \in cbs[i] : t \in cancelled => m_recurring[t]

(***************************************************************************)
(* No lost timer wake-up: if every idler sleeps in epoll_wait, the pipe is *)
(* empty and no client owes a notification, then some idler's wait ends no *)
(* later than the earliest deadline (or has already timed out), but for    *)
(* what signals have added to it: nothing else makes it oversleep.         *)
(* refresh and the reinsertion of recurring timers never tickle, and       *)
(* m_tickled suppresses the second notification: that this is sound is     *)
(* what the property says.                                                 *)
(***************************************************************************)
WaitCovers(i) ==
  LET asked == until[i] - overslept[i]
  IN until[i] # Never /\ (asked <= clock \/ \A e \in m_timers : asked <= e[1])

Alert == \/ piped
         \/ \E c \in Clients : cpc[c] = "notify"
         \/ \E i \in Idlers : ipc[i] # "wait"

FrontTimerCovered ==
  m_timers # {} => Alert \/ \E i \in Idlers : WaitCovers(i)

(***************************************************************************)
(* A callback is never handed out before its deadline: listExpiredCb takes *)
(* nothing whose m_next is still in the future.  It takes an uptime of     *)
(* more than an hour: before, the unsigned subtraction of the rollover     *)
(* test wraps, every call answers true and every timer is handed out.      *)
(***************************************************************************)
NeverEarly ==
  [][\A i \in Idlers :
       ListExpiredCb(i) => \A t \in cbs'[i] : m_next[t] <= clock]_vars

(***************************************************************************)
(* epoll_wait is never asked to sleep beyond MAX_TIMEOUT, however distant  *)
(* the next timer is (the comment of iomanager.cc:370): stop() and lost    *)
(* tickles rely on every idle thread looking again.  It takes delays that  *)
(* fit an int.                                                             *)
(***************************************************************************)
WaitIsBounded ==
  \A i \in Idlers :
    ipc[i] = "wait" => until[i] # Never /\ until[i] <= clock + MaxTimeout

(***************************************************************************)
(* A timer whose deadline has passed is eventually collected, cancelled or *)
(* postponed: no interleaving of clients leaves it in the set for ever.    *)
(***************************************************************************)
Due(t) == \E e \in m_timers : e[2] = t /\ e[1] <= clock
DueTimerCollected == \A t \in Timers : Due(t) ~> ~Due(t)

(***************************************************************************)
(* Refinement: the records and the ordered set, under the lock and outside *)
(* of it, keep the promise of Alarm, with the uptime NeverEarly needs. The *)
(* constructor sets the alarm, before addTimer publishes it.               *)
(***************************************************************************)
StateOf(t) ==
  IF m_cb[t] THEN "set" ELSE IF t \in known THEN "over" ELSE "new"

Promise == INSTANCE Alarm WITH
  state <- [t \in Timers |-> StateOf(t)], at <- m_next, period <- m_ms,
  recurring <- m_recurring, handed <- cbs
ImplementsAlarm == Promise!Spec
=============================================================================
