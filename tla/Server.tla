------------------------------- MODULE Server -------------------------------
(***************************************************************************)
(* TcpServer (src/src/tcp_server.cc) on the Socket class                   *)
(* (src/src/socket.cc), with the descriptor contexts of                    *)
(* src/src/fd_manager.cc and the hooks that maintain them (socket, accept, *)
(* close, fcntl, ioctl in src/src/hook.cc).                                *)
(*                                                                         *)
(* The owner, the accept loops, the task of stop() and the handlers of     *)
(* clients are fibers of one IOManager with Threads threads. The look at   *)
(* m_isStop, the call of accept, addEvent with the yield, and the steps of *)
(* a close (cancelAll, del, close_f) interleave. Hook.tla has the waits    *)
(* of other calls, and the ways in which addEvent fails on an open number. *)
(***************************************************************************)
EXTENDS Integers, FiniteSets

CONSTANTS
  MaxFd,       \* the highest descriptor number the process may have
  MaxListen,   \* bound of the addresses the server listens on
  None,
  Threads,     \* threads of the IOManager
  MaxStarts,   \* bound of the calls of start() while stopped
  MaxStops,    \* bound of the tasks of stop() that have not run
  MaxConnects, \* bound of the connections made by peers
  FionbioArgs, \* the values a program passes to ioctl(FIONBIO)
  Overlap      \* TRUE: bind and start are called while a stop is under way
               \* or the server runs

ASSUME ServerAssumption ==
  /\ Threads \in Nat \ {0} /\ MaxStarts \in Nat /\ MaxStops \in Nat
  /\ MaxConnects \in Nat
  /\ FionbioArgs \subseteq BOOLEAN /\ Overlap \in BOOLEAN
  /\ MaxFd \in Nat /\ MaxListen \in Nat
  /\ None \notin [user : BOOLEAN]

Fds == 1 .. MaxFd
Runs == 1 .. MaxStarts

VARIABLES
  kind,      \* kernel: what each number is
  nonblock,  \* kernel: numbers with O_NONBLOCK
  backlog,   \* kernel: connections that wait for accept
  connects,  \* how many connections peers have made
  m_datas,   \* FdManager: None or the FdCtx of each number
  closing,   \* how far a close of each number has come, "no" without one
  m_socks,   \* the numbers of the server's listening sockets, without those
             \* that the task of stop() has closed
  m_isStop,
  starts,    \* how many times start() has started something
  loop,      \* loop[r][n]: startAccept for the socket that had number n
  open,      \* <<r, n>>: that loop's Socket is not closed
  late,      \* loops that registered when the close had called cancelAll
  stops,     \* tasks of stop() that have not begun
  busy       \* who goes through m_socks and closes: "no", "stop", "bind"

kernelVars == <<kind, nonblock, backlog, connects>>
serverVars == <<m_socks, m_isStop, starts, stops, busy>>
loopVars == <<loop, open, late>>
vars == <<kernelVars, m_datas, closing, serverVars, loopVars>>

Init ==
  /\ kind = [n \in Fds |-> "closed"]
  /\ nonblock = {} /\ backlog = [n \in Fds |-> 0] /\ connects = 0
  /\ m_datas = [n \in Fds |-> None] /\ closing = [n \in Fds |-> "no"]
  /\ m_socks = {} /\ m_isStop = TRUE
  /\ starts = 0 /\ stops = 0 /\ busy = "no"
  /\ loop = [r \in Runs |-> [n \in Fds |-> "none"]]
  /\ open = {} /\ late = {}

----------------------------------------------------------------------------
Loops == Runs \X Fds
At(l) == loop[l[1]][l[2]]
AllAt(ls, s) ==
  [r \in Runs |-> [n \in Fds |-> IF <<r, n>> \in ls THEN s ELSE loop[r][n]]]
OnThread == {"test", "try", "add"}
Live(l) == At(l) \notin {"none", "ended"}

Free ==
  Cardinality({l \in Loops : At(l) \in OnThread})
    + Cardinality({n \in Fds \ m_socks : closing[n] # "no"})
    + (IF busy = "no" THEN 0 ELSE 1) < Threads

(* The Socket behind this number has no other owners than m_socks and these. *)
Holders(n) == {l \in open : l[2] = n /\ Live(l)}

(* FdManager::get(fd, true) for the numbers ns, with FdCtx::init. *)
Context == [user |-> FALSE]
Created(ns) == {n \in ns : m_datas[n] = None}
Managed(ns) ==
  [n \in Fds |-> IF n \in Created(ns) THEN Context ELSE m_datas[n]]

----------------------------------------------------------------------------
(* IOManager::cancelAll: the loops that are registered on n are scheduled. *)
NobodyWoken(n) == {}
Waiting(n) == {l \in Loops : l[2] = n /\ At(l) = "wait"}

(***************************************************************************)
(* close(n), of a Socket by its last owner or by the task of stop(), goes  *)
(* through three steps on the closer's thread: cancelAll,                  *)
(***************************************************************************)
Cancel(n) ==
  /\ closing[n] = "cancel"
  /\ closing' = [closing EXCEPT ![n] = "del"]
  /\ loop' = AllAt(Waiting(n), "woken")
  /\ UNCHANGED <<kernelVars, m_datas, serverVars, open, late>>

(* FdManager::del, *)
KeepsContexts(n) == m_datas
Unmanaged(n) == [m_datas EXCEPT ![n] = None]

Del(n) ==
  /\ closing[n] = "del"
  /\ closing' = [closing EXCEPT ![n] = "close"]
  /\ m_datas' = Unmanaged(n)
  /\ UNCHANGED <<kernelVars, serverVars, loopVars>>

(***************************************************************************)
(* and close_f, after which m_sock is -1. epoll forgets the number: a loop *)
(* that is still registered on it is never scheduled again.                *)
(***************************************************************************)
CloseF(n) ==
  /\ closing[n] = "close"
  /\ closing' = [closing EXCEPT ![n] = "no"]
  /\ kind' = [kind EXCEPT ![n] = "closed"]
  /\ backlog' = [backlog EXCEPT ![n] = 0]
  /\ nonblock' = nonblock \ {n}
  /\ m_socks' = m_socks \ {n}
  /\ loop' = AllAt(Waiting(n), "lost")
  /\ open' = {l \in open : l[2] # n}
  /\ UNCHANGED <<connects, m_datas, m_isStop, starts, stops, busy, late>>

CloseStep(n) == Cancel(n) \/ Del(n) \/ CloseF(n)

----------------------------------------------------------------------------
(* Nothing of an earlier start is left. *)
Settled == m_isStop /\ stops = 0 /\ \A l \in Loops : ~Live(l)

(* Nobody goes through m_socks: what two at once do to it is undefined. *)
Owns == Free /\ busy = "no"

(* The kernel hands out the lowest free numbers. *)
Closeds == {n \in Fds : kind[n] = "closed"}
Lowest(k) ==
  {n \in Closeds : Cardinality({m \in Closeds : m < n}) < k}

(* Socket::bind and listen succeed for the sockets ns. *)
Listening(ns) == [n \in Fds |-> IF n \in ns THEN "listen" ELSE kind[n]]

(* TcpServer::bind: k addresses are bound and listened on. *)
Bind(k) ==
  LET ns == Lowest(k)
  IN /\ Owns /\ (Overlap \/ Settled)
     /\ Cardinality(ns) = k
     /\ Cardinality({n \in Fds : kind[n] = "listen"}) + k <= MaxListen
     /\ kind' = Listening(ns)
     /\ nonblock' = nonblock \cup Created(ns)
     /\ m_datas' = Managed(ns)
     /\ m_socks' = m_socks \cup ns
     /\ UNCHANGED <<backlog, connects, closing, m_isStop, starts, stops, busy,
                    loopVars>>

(***************************************************************************)
(* It fails for some address: m_socks is cleared, which closes the sockets *)
(* that no accept loop holds, those of earlier calls included.             *)
(***************************************************************************)
NobodyCloses == {}
NotHeld == {n \in m_socks : Holders(n) = {}}

BindFails ==
  /\ Owns /\ (Overlap \/ Settled)
  /\ m_socks' = NotHeld
  /\ busy' = "bind"
  /\ UNCHANGED <<kernelVars, m_datas, closing, m_isStop, starts, stops,
                 loopVars>>

(* start(): one startAccept for each socket, unless it already runs. *)
AlwaysStarts == TRUE
MayStart == m_isStop

Start ==
  /\ Owns /\ MayStart /\ starts < MaxStarts
  /\ Overlap \/ Settled \/ ~m_isStop
  /\ m_isStop' = FALSE
  /\ starts' = starts + 1
  /\ loop' = AllAt({<<starts + 1, n>> : n \in m_socks}, "ready")
  /\ open' = open \cup {<<starts + 1, n>> : n \in m_socks}
  /\ UNCHANGED <<kernelVars, m_datas, closing, m_socks, stops, busy, late>>

(* stop(): the flag, and a task that closes the sockets. *)
FlagForgotten == m_isStop
FlagAfterStop == TRUE

Stop ==
  /\ Free /\ stops < MaxStops
  /\ m_isStop' = FlagAfterStop
  /\ stops' = stops + 1
  /\ UNCHANGED <<kernelVars, m_datas, closing, m_socks, starts, busy,
                 loopVars>>

TaskBegins ==
  /\ Owns /\ stops > 0
  /\ stops' = stops - 1
  /\ busy' = "stop"
  /\ UNCHANGED <<kernelVars, m_datas, closing, m_socks, m_isStop, starts,
                 loopVars>>

NoneToClose == {}
ToClose == m_socks

(***************************************************************************)
(* The next socket of m_socks: the task of stop() calls cancelAll and then *)
(* close, clear() after a failed bind only the destructor's close.         *)
(***************************************************************************)
NextSocket(n) ==
  /\ busy # "no" /\ n \in ToClose
  /\ \A m \in m_socks : closing[m] = "no"
  /\ closing' = [closing EXCEPT ![n] = "cancel"]
  /\ loop' = IF busy = "stop" THEN AllAt(Waiting(n), "woken") ELSE loop
  /\ UNCHANGED <<kernelVars, m_datas, serverVars, open, late>>

AllClosed ==
  /\ busy # "no" /\ ToClose = {}
  /\ m_socks' = {} /\ busy' = "no"
  /\ UNCHANGED <<kernelVars, m_datas, closing, m_isStop, starts, stops,
                 loopVars>>

----------------------------------------------------------------------------
(* The scheduler runs an accept loop, which looks at m_isStop or goes on   *)
(* after the yield in accept.                                              *)
Resume(l) ==
  /\ \/ At(l) = "ready" /\ loop' = AllAt({l}, "test")
     \/ At(l) = "woken" /\ loop' = AllAt({l}, "try")
  /\ Free
  /\ UNCHANGED <<kernelVars, m_datas, closing, serverVars, open, late>>

(* The loop sees m_isStop; the last owner of a socket closes it. *)
LoopEnds == m_isStop

LoopStops(l) ==
  /\ At(l) = "test" /\ LoopEnds
  /\ loop' = AllAt({l}, "ended")
  /\ open' = open \ {l}
  /\ closing' = IF l \in open /\ Holders(l[2]) = {l} /\ l[2] \notin m_socks
                  THEN [closing EXCEPT ![l[2]] = "cancel"]
                  ELSE closing
  /\ UNCHANGED <<kernelVars, m_datas, serverVars, late>>

(* It calls accept on a Socket that is not closed. *)
CallsAccept(l) == At(l) = "test" /\ ~LoopEnds /\ l \in open

(***************************************************************************)
(* With a context do_io takes the number and goes on with it. Without one  *)
(* or on a closed Socket accept() fails at once: the loop only logs it and *)
(* looks at m_isStop again, a step that changes nothing.                   *)
(***************************************************************************)
EntersDoIo(l) ==
  /\ CallsAccept(l) /\ m_datas[l[2]] # None
  /\ loop' = AllAt({l}, "try")
  /\ UNCHANGED <<kernelVars, m_datas, closing, serverVars, open, late>>

(* The kernel's accept: in do_io, or without a context. *)
Accepting(l) == At(l) = "try" \/ (CallsAccept(l) /\ m_datas[l[2]] = None)

(* It succeeds: context, Socket::init, recv timeout, the handler. *)
AcceptsOnce == "ended"
AcceptsAgain == "test"

Accepts(l, c) ==
  /\ Accepting(l) /\ kind[l[2]] = "listen" /\ backlog[l[2]] > 0
  /\ c \in Lowest(1)
  /\ kind' = [kind EXCEPT ![c] = "client"]
  /\ nonblock' = nonblock \cup Created({c})
  /\ m_datas' = Managed({c})
  /\ backlog' = [backlog EXCEPT ![l[2]] = @ - 1]
  /\ loop' = AllAt({l}, AcceptsAgain)
  /\ UNCHANGED <<connects, closing, serverVars, open, late>>

(* It fails: the number is no listening socket any more, or no number is   *)
(* left. The loop keeps its thread and begins anew.                        *)
AcceptFails(l) ==
  /\ At(l) = "try"
  /\ kind[l[2]] = "listen" => backlog[l[2]] > 0 /\ Lowest(1) = {}
  /\ loop' = AllAt({l}, "test")
  /\ UNCHANGED <<kernelVars, m_datas, closing, serverVars, open, late>>

(* EAGAIN. *)
AcceptAgain(l) ==
  /\ At(l) = "try" /\ kind[l[2]] = "listen" /\ backlog[l[2]] = 0
  /\ loop' = AllAt({l}, "add")
  /\ UNCHANGED <<kernelVars, m_datas, closing, serverVars, open, late>>

(***************************************************************************)
(* addEvent registers the loop on the number and it yields; on a number    *)
(* that is closed by now addEvent fails and accept() with it. A second     *)
(* registration on a number is an assertion: the process aborts.           *)
(***************************************************************************)
Cancelled(n) == closing[n] \in {"del", "close"}

AddEvent(l) ==
  /\ At(l) = "add" /\ kind[l[2]] # "closed"
  /\ \A k \in Loops : k[2] = l[2] => At(k) \notin {"wait", "lost"}
  /\ loop' = AllAt({l}, "wait")
  /\ late' = IF Cancelled(l[2]) THEN late \cup {l} ELSE late \ {l}
  /\ UNCHANGED <<kernelVars, m_datas, closing, serverVars, open>>

AddEventFails(l) ==
  /\ At(l) = "add" /\ kind[l[2]] = "closed"
  /\ loop' = AllAt({l}, "test")
  /\ UNCHANGED <<kernelVars, m_datas, closing, serverVars, open, late>>

(* A connection wakes it. *)
AcceptWakes(l) ==
  /\ At(l) = "wait" /\ kind[l[2]] = "listen" /\ backlog[l[2]] > 0 /\ Free
  /\ loop' = AllAt({l}, "woken")
  /\ UNCHANGED <<kernelVars, m_datas, closing, serverVars, open, late>>

----------------------------------------------------------------------------
(* A handler ends, and with it the last reference to the client. *)
HandleClient(c) ==
  /\ kind[c] = "client" /\ closing[c] = "no" /\ Free
  /\ closing' = [closing EXCEPT ![c] = "cancel"]
  /\ UNCHANGED <<kernelVars, m_datas, serverVars, loopVars>>

(* fcntl(F_SETFL): the user's wish is recorded, O_NONBLOCK stays. *)
Fcntl(c, b) ==
  /\ Free /\ kind[c] = "client" /\ closing[c] = "no" /\ m_datas[c] # None
  /\ m_datas' = [m_datas EXCEPT ![c].user = b]
  /\ nonblock' = nonblock \cup {c}          \* m_sysNonblock is set
  /\ UNCHANGED <<kind, backlog, connects, closing, serverVars, loopVars>>

(* ioctl(FIONBIO): the wish is recorded and passed on to the kernel. *)
Ioctl(c, b) ==
  /\ Free /\ kind[c] = "client" /\ closing[c] = "no" /\ m_datas[c] # None
  /\ m_datas' = [m_datas EXCEPT ![c].user = b]
  /\ nonblock' = IF b THEN nonblock \cup {c} ELSE nonblock \ {c}
  /\ UNCHANGED <<kind, backlog, connects, closing, serverVars, loopVars>>

(* A peer connects. *)
PeerConnects(n) ==
  /\ kind[n] = "listen" /\ connects < MaxConnects
  /\ connects' = connects + 1
  /\ backlog' = [backlog EXCEPT ![n] = @ + 1]
  /\ UNCHANGED <<kind, nonblock, m_datas, closing, serverVars, loopVars>>

----------------------------------------------------------------------------
Owner == BindFails \/ Start \/ Stop
           \/ \E k \in 1 .. MaxListen : Bind(k)

ClosingAll == AllClosed \/ \E n \in Fds : NextSocket(n)

LoopStep(l) ==
  \/ Resume(l) \/ LoopStops(l) \/ EntersDoIo(l) \/ AcceptFails(l)
  \/ AcceptAgain(l) \/ AddEvent(l) \/ AddEventFails(l) \/ AcceptWakes(l)
  \/ \E c \in Fds : Accepts(l, c)

Handlers == \E c \in Fds :
  \/ HandleClient(c)
  \/ \E b \in BOOLEAN : Fcntl(c, b)
  \/ \E b \in FionbioArgs : Ioctl(c, b)

Next ==
  \/ Owner \/ TaskBegins \/ ClosingAll \/ Handlers
  \/ \E n \in Fds : CloseStep(n)
  \/ \E l \in Loops : LoopStep(l)
  \/ \E n \in Fds : PeerConnects(n)

Spec == Init /\ [][Next]_vars

(***************************************************************************)
(* Tasks of the scheduler get a thread in their turn, handlers return, and *)
(* a thread that is in a close goes on with it.                            *)
(***************************************************************************)
Fairness ==
  /\ WF_vars(TaskBegins) /\ WF_vars(ClosingAll)
  /\ \A n \in Fds : WF_vars(CloseStep(n))
  /\ \A l \in Loops : WF_vars(LoopStep(l))
  /\ \A c \in Fds : WF_vars(HandleClient(c))

FairSpec == Spec /\ Fairness

----------------------------------------------------------------------------
(* Every variable has its type. *)
LoopStates == {"none", "ready", "test", "try", "add", "wait", "woken", "lost",
               "ended"}

TypeOK ==
  /\ kind \in [Fds -> {"closed", "listen", "client"}]
  /\ nonblock \subseteq Fds
  /\ backlog \in [Fds -> Nat] /\ connects \in 0 .. MaxConnects
  /\ m_datas \in [Fds -> [user : BOOLEAN] \cup {None}]
  /\ closing \in [Fds -> {"no", "cancel", "del", "close"}]
  /\ m_socks \subseteq Fds /\ busy \in {"no", "stop", "bind"}
  /\ m_isStop \in BOOLEAN
  /\ starts \in 0 .. MaxStarts /\ stops \in 0 .. MaxStops
  /\ loop \in [Runs -> [Fds -> LoopStates]]
  /\ open \subseteq Loops /\ late \subseteq Loops

(***************************************************************************)
(* No accept loop of a running server repeats a failing accept() because   *)
(* of what its own side did: as long as m_isStop is FALSE the socket it    *)
(* calls accept on is open, listens and has its context, so that accept    *)
(* succeeds, waits, or fails because the process has no number left.       *)
(***************************************************************************)
NoLoopSpins ==
  \A l \in Loops : ~m_isStop /\ At(l) \in OnThread =>
    l \in open /\ kind[l[2]] = "listen" /\ m_datas[l[2]] # None

(***************************************************************************)
(* No listening socket is leaked: each is in m_socks, held by a live       *)
(* accept loop or being closed, whatever the order of stop, its task and   *)
(* failed binds.                                                           *)
(***************************************************************************)
NoLeakedListener ==
  \A n \in Fds : kind[n] = "listen" =>
    n \in m_socks \/ Holders(n) # {} \/ closing[n] # "no"

(* The kernel's view of the listening sockets and the server's agree. *)
ListenersConsistent == TypeOK /\ NoLeakedListener

(***************************************************************************)
(* do_io may call the original function on a descriptor with a context the *)
(* user has not made non-blocking only if the kernel's flag is set: else   *)
(* the whole thread blocks. A number is without a context only closed, or  *)
(* between the two steps of close() that delete the one and the other.     *)
(***************************************************************************)
ManagedIsNonblocking ==
  \A n \in Fds : kind[n] # "closed" /\ closing[n] # "close" =>
    /\ m_datas[n] # None
    /\ ~m_datas[n].user => n \in nonblock

(***************************************************************************)
(* One loop accepts on a socket, as addEvent demands.                      *)
(***************************************************************************)
OneLoopPerSocket == \A n \in Fds : Cardinality(Holders(n)) <= 1

(* Somebody still has to call cancelAll on this number. *)
CancelToCome(n) ==
  \/ closing[n] = "cancel"
  \/ closing[n] = "no" /\ n \in m_socks /\ (stops > 0 \/ busy = "stop")
  \/ closing[n] = "no" /\ kind[n] = "client"

(***************************************************************************)
(* Nothing is forgotten: while the server runs each listening socket has a *)
(* loop that accepts on it, and once it is stopped a loop that still waits *)
(* has a cancelAll to come that will wake it. The exception, and the only  *)
(* one, are the loops that registered on a number whose close had called   *)
(* cancelAll already (late): they may be left on the closed number.        *)
(***************************************************************************)
LoopsCovered ==
  /\ \A n \in Fds : ~m_isStop /\ kind[n] = "listen" /\ closing[n] = "no" =>
       Holders(n) # {}
  /\ \A l \in Loops \ late :
       /\ At(l) # "lost"
       /\ m_isStop /\ At(l) = "wait" => CancelToCome(l[2])

(* Both: accept loops and listening sockets belong together, one to one.   *)
LoopsMatchListeners == OneLoopPerSocket /\ LoopsCovered

(***************************************************************************)
(* After stop() all accept loops end, unless the server is started again   *)
(* first, but for those that LoopsCovered names: the close has left them   *)
(* behind.                                                                 *)
(***************************************************************************)
AllEnded == \A l \in Loops : Live(l) => At(l) = "lost"

StopEndsLoops == m_isStop ~> ~m_isStop \/ AllEnded

(* No number is left, and either no client has one to give back or the     *)
(* accept loops, which try again and again, have all the threads.          *)
Exhausted ==
  /\ Closeds = {}
  /\ \/ \A n \in Fds : kind[n] = "listen"
     \/ Cardinality({l \in Loops : At(l) \in OnThread}) = Threads

(***************************************************************************)
(* A connection to a running server is accepted, or the server stops; a    *)
(* loop that finds no number left keeps trying until a handler closes its  *)
(* client, so that only Exhausted hinders it.                              *)
(***************************************************************************)
ConnectionsAccepted ==
  \A n \in Fds :
    ~m_isStop /\ backlog[n] > 0 ~> m_isStop \/ backlog[n] = 0 \/ Exhausted
=============================================================================
