---------------------------- MODULE ServerProofs ----------------------------
(***************************************************************************)
(* TcpServer for any number of descriptors, threads, addresses, starts,    *)
(* stops and connections. What concerns the kernel's view of the sockets   *)
(* holds whatever the order of bind, start and stop; what concerns the     *)
(* accept loops is proved with ~Overlap as a hypothesis.                   *)
(***************************************************************************)
EXTENDS Server, FiniteSetTheorems, TLAPS

(***************************************************************************)
(* What a step may rely on when it closes or opens a number: the sockets   *)
(* of the server and of its loops listen, a close is under way only of an  *)
(* open number, of m_socks only while somebody goes through it and of      *)
(* others only without a loop that holds them, and a number has a context  *)
(* from when it is opened until the close has deleted it.                  *)
(***************************************************************************)
Sockets ==
  /\ \A n \in m_socks : kind[n] = "listen"
  /\ \A l \in open : kind[l[2]] = "listen"
  /\ \A n \in Fds : closing[n] # "no" => kind[n] # "closed"
  /\ busy = "no" => \A n \in m_socks : closing[n] = "no"
  /\ \A n \in Fds : closing[n] # "no" /\ n \notin m_socks =>
       \A l \in open : Live(l) => l[2] # n

ContextWhileOpen == \A n \in Fds :
  m_datas[n] = None <=> kind[n] = "closed" \/ closing[n] = "close"

(* The loops that have not ended are of the last start, nobody closes the  *)
(* sockets of a running server, and its loops hold theirs.                 *)
OneRun ==
  /\ \A l \in Loops : Live(l) => l[1] = starts
  /\ stops > 0 \/ busy # "no" => m_isStop
  /\ ~m_isStop => \A l \in Loops : Live(l) => l \in open

(***************************************************************************)
(* While the server runs, its sockets and its live loops correspond. Once  *)
(* it is stopped, a task of stop() stands against the sockets that are     *)
(* left, and a cancelAll against every loop that waits and is not late.    *)
(***************************************************************************)
Covered ==
  /\ \A l \in open : Live(l) => l[2] \in m_socks
  /\ ~m_isStop => \A n \in m_socks : \E l \in open : l[2] = n /\ Live(l)
  /\ m_isStop /\ m_socks # {} /\ (\E l \in Loops : Live(l)) =>
       stops > 0 \/ busy = "stop"
  /\ \A l \in Loops \ late :
       /\ At(l) # "lost"
       /\ m_isStop /\ At(l) = "wait" => CancelToCome(l[2])

(* A step that only takes loop l from one live state to another. *)
Moves(l, s) ==
  /\ Live(l) /\ loop' = AllAt({l}, s)
  /\ UNCHANGED <<kernelVars, m_datas, closing, serverVars, open>>

----------------------------------------------------------------------------
(* What a change of some loops' states does to each of them. *)
LEMMA AllAtValue ==
  ASSUME TypeOK, NEW ls, NEW s \in LoopStates
  PROVE  /\ AllAt(ls, s) \in [Runs -> [Fds -> LoopStates]]
         /\ \A l \in Loops :
              AllAt(ls, s)[l[1]][l[2]] = IF l \in ls THEN s ELSE At(l)
<1>1. ASSUME NEW r \in Runs, NEW n \in Fds
      PROVE  (IF <<r, n>> \in ls THEN s ELSE loop[r][n]) \in LoopStates
  BY <1>1 DEF TypeOK
<1>2. AllAt(ls, s) \in [Runs -> [Fds -> LoopStates]]
  BY <1>1 DEF AllAt
<1>3. ASSUME NEW l \in Loops
      PROVE  AllAt(ls, s)[l[1]][l[2]] = IF l \in ls THEN s ELSE At(l)
  <2>1. l[1] \in Runs /\ l[2] \in Fds /\ l = <<l[1], l[2]>>
    BY DEF Loops
  <2> QED
    BY <2>1 DEF AllAt, At
<1> QED
  BY <1>2, <1>3

(* FdManager::get creates contexts and keeps those there are. *)
LEMMA ManagedType ==
  ASSUME TypeOK, NEW ns
  PROVE  Managed(ns) \in [Fds -> [user : BOOLEAN] \cup {None}]
<1>1. Context \in [user : BOOLEAN]
  BY DEF Context
<1> HIDE DEF Context
<1> QED
  BY <1>1 DEF TypeOK, Managed

(* The steps of a loop: the last one, the accepted connection, the         *)
(* registration, and those that only move it.                              *)
LEMMA LoopStepCases ==
  ASSUME NEW l \in Loops, LoopStep(l)
  PROVE  \/ LoopStops(l)
         \/ \E c \in Fds : Accepts(l, c)
         \/ AddEvent(l) /\ Moves(l, "wait")
         \/ /\ \E s \in {"test", "try", "add", "woken"} : Moves(l, s)
            /\ late' = late
<1>1. CASE Resume(l)
  BY <1>1 DEF Resume, Moves, Live
<1>2. CASE EntersDoIo(l)
  BY <1>2 DEF EntersDoIo, CallsAccept, Moves, Live
<1>3. CASE AcceptFails(l)
  BY <1>3 DEF AcceptFails, Moves, Live
<1>4. CASE AcceptAgain(l)
  BY <1>4 DEF AcceptAgain, Moves, Live
<1>5. CASE AddEvent(l)
  BY <1>5 DEF AddEvent, Moves, Live
<1>6. CASE AddEventFails(l)
  BY <1>6 DEF AddEventFails, Moves, Live
<1>7. CASE AcceptWakes(l)
  BY <1>7 DEF AcceptWakes, Moves, Live
<1> QED
  BY <1>1, <1>2, <1>3, <1>4, <1>5, <1>6, <1>7 DEF LoopStep

LEMMA TypeNext ==
  ASSUME TypeOK, [Next]_vars
  PROVE  TypeOK'
<1> USE DEF vars, kernelVars, serverVars, loopVars
<1>l. \A ls : \A s \in LoopStates :
        AllAt(ls, s) \in [Runs -> [Fds -> LoopStates]]
  BY AllAtValue
<1>1. CASE \E k \in 1 .. MaxListen : Bind(k)
  <2> PICK k \in 1 .. MaxListen : Bind(k)
    BY <1>1
  <2> DEFINE ns == Lowest(k)
  <2>1. ns \subseteq Fds /\ Created(ns) \subseteq Fds
    BY DEF Lowest, Closeds, Created
  <2>2. kind' \in [Fds -> {"closed", "listen", "client"}]
    BY DEF Bind, Listening, TypeOK
  <2>3. m_datas' \in [Fds -> [user : BOOLEAN] \cup {None}]
    BY ManagedType DEF Bind
  <2> QED
    BY <2>1, <2>2, <2>3 DEF Bind, TypeOK
<1>2. CASE BindFails
  BY <1>2 DEF BindFails, NotHeld, TypeOK
<1>3. CASE Start
  <2>1. loop' \in [Runs -> [Fds -> LoopStates]]
    BY <1>3, <1>l DEF Start, LoopStates
  <2>2. starts' \in 0 .. MaxStarts /\ starts + 1 \in Runs
    BY <1>3, ServerAssumption DEF Start, TypeOK, ServerAssumption, Runs
  <2>3. open' \subseteq Loops
    BY <1>3, <2>2 DEF Start, TypeOK, Loops
  <2> QED
    BY <1>3, <2>1, <2>2, <2>3 DEF Start, TypeOK
<1>4. CASE Stop
  BY <1>4, ServerAssumption DEF Stop, FlagAfterStop, TypeOK, ServerAssumption
<1>5. CASE TaskBegins
  <2>1. stops' \in 0 .. MaxStops
    BY <1>5, ServerAssumption DEF TaskBegins, TypeOK, ServerAssumption
  <2> QED
    BY <1>5, <2>1 DEF TaskBegins, TypeOK
<1>6. CASE ClosingAll
  <2>1. CASE AllClosed
    BY <1>6, <2>1 DEF AllClosed, TypeOK
  <2>2. ASSUME NEW n \in Fds, NextSocket(n)
        PROVE  TypeOK'
    <3>1. loop' \in [Runs -> [Fds -> LoopStates]]
      BY <2>2, <1>l DEF NextSocket, LoopStates, TypeOK
    <3>2. closing' \in [Fds -> {"no", "cancel", "del", "close"}]
      BY <2>2 DEF NextSocket, TypeOK
    <3> QED
      BY <2>2, <3>1, <3>2 DEF NextSocket, TypeOK
  <2> QED
    BY <1>6, <2>1, <2>2 DEF ClosingAll
<1>7. ASSUME NEW n \in Fds, CloseStep(n)
      PROVE  TypeOK'
  <2>1. loop' \in [Runs -> [Fds -> LoopStates]]
    BY <1>7, <1>l DEF CloseStep, Cancel, Del, CloseF, LoopStates, TypeOK
  <2>2. closing' \in [Fds -> {"no", "cancel", "del", "close"}]
    BY <1>7 DEF CloseStep, Cancel, Del, CloseF, TypeOK
  <2>3. m_datas' \in [Fds -> [user : BOOLEAN] \cup {None}]
    BY <1>7 DEF CloseStep, Cancel, Del, CloseF, Unmanaged, TypeOK
  <2>4. /\ kind' \in [Fds -> {"closed", "listen", "client"}]
        /\ backlog' \in [Fds -> Nat]
    BY <1>7 DEF CloseStep, Cancel, Del, CloseF, TypeOK
  <2> QED
    BY <1>7, <2>1, <2>2, <2>3, <2>4 DEF CloseStep, Cancel, Del, CloseF, TypeOK
<1>8. ASSUME NEW l \in Loops, NEW s \in LoopStates, Moves(l, s),
             late' \subseteq Loops
      PROVE  TypeOK'
  BY <1>8, <1>l DEF Moves, TypeOK
<1>9. ASSUME NEW l \in Loops, LoopStops(l)
      PROVE  TypeOK'
  <2>1. loop' \in [Runs -> [Fds -> LoopStates]]
    BY <1>9, <1>l DEF LoopStops, LoopStates
  <2>2. closing' \in [Fds -> {"no", "cancel", "del", "close"}]
    BY <1>9 DEF LoopStops, TypeOK
  <2> QED
    BY <1>9, <2>1, <2>2 DEF LoopStops, TypeOK
<1>10. ASSUME NEW l \in Loops, NEW c \in Fds, Accepts(l, c)
       PROVE  TypeOK'
  <2>1. loop' \in [Runs -> [Fds -> LoopStates]]
    BY <1>10, <1>l DEF Accepts, AcceptsAgain, LoopStates
  <2>2. m_datas' \in [Fds -> [user : BOOLEAN] \cup {None}]
    BY <1>10, ManagedType DEF Accepts
  <2>3. l[2] \in Fds
    BY DEF Loops
  <2>4. backlog' \in [Fds -> Nat]
    BY <1>10, <2>3 DEF Accepts, TypeOK
  <2>5. nonblock' \subseteq Fds
    BY <1>10 DEF Accepts, TypeOK, Created
  <2>6. kind' \in [Fds -> {"closed", "listen", "client"}]
    BY <1>10 DEF Accepts, TypeOK
  <2> QED
    BY <1>10, <2>1, <2>2, <2>4, <2>5, <2>6 DEF Accepts, TypeOK
<1>11. ASSUME NEW l \in Loops, LoopStep(l)
       PROVE  TypeOK'
  <2>1. AddEvent(l) => late' \subseteq Loops
    BY DEF AddEvent, TypeOK
  <2>2. late \subseteq Loops
    BY DEF TypeOK
  <2> QED
    BY <1>8, <1>9, <1>10, <1>11, <2>1, <2>2, LoopStepCases DEF LoopStates
<1>12. ASSUME NEW c \in Fds, HandleClient(c)
       PROVE  TypeOK'
  BY <1>12 DEF HandleClient, TypeOK
<1>13. ASSUME NEW c \in Fds, NEW b \in BOOLEAN,
              Fcntl(c, b) \/ (b \in FionbioArgs /\ Ioctl(c, b))
       PROVE  TypeOK'
  <2>1. m_datas[c] \in [user : BOOLEAN]
    BY <1>13 DEF Fcntl, Ioctl, TypeOK
  <2>2. [m_datas[c] EXCEPT !.user = b] \in [user : BOOLEAN]
    BY <2>1
  <2>3. m_datas' \in [Fds -> [user : BOOLEAN] \cup {None}]
    BY <1>13, <2>2 DEF Fcntl, Ioctl, TypeOK
  <2>4. nonblock' \subseteq Fds
    BY <1>13 DEF Fcntl, Ioctl, TypeOK
  <2> QED
    BY <1>13, <2>3, <2>4 DEF Fcntl, Ioctl, TypeOK
<1>14. ASSUME NEW n \in Fds, PeerConnects(n)
       PROVE  TypeOK'
  <2>1. backlog' \in [Fds -> Nat]
    BY <1>14 DEF PeerConnects, TypeOK
  <2>2. connects' \in 0 .. MaxConnects
    BY <1>14, ServerAssumption DEF PeerConnects, TypeOK, ServerAssumption
  <2> QED
    BY <1>14, <2>1, <2>2 DEF PeerConnects, TypeOK
<1>15. CASE UNCHANGED vars
  BY <1>15 DEF TypeOK
<1> QED
  BY <1>1, <1>2, <1>3, <1>4, <1>5, <1>6, <1>7, <1>11, <1>12, <1>13, <1>14,
     <1>15, ServerAssumption
     DEF Next, Owner, Handlers, ServerAssumption

LEMMA TypeHolds == Spec => []TypeOK
<1>1. Init => TypeOK
  BY ServerAssumption DEF Init, TypeOK, LoopStates, ServerAssumption
<1> QED
  BY <1>1, TypeNext, PTL DEF Spec

----------------------------------------------------------------------------
(* A loop that moves is as live as before, and the others stay. *)
LEMMA LoopMoves ==
  ASSUME TypeOK, NEW l \in Loops, NEW s \in LoopStates \ {"none", "ended"},
         Live(l), loop' = AllAt({l}, s)
  PROVE  /\ \A k \in Loops : At(k)' = IF k = l THEN s ELSE At(k)
         /\ \A k \in Loops : Live(k)' <=> Live(k)
<1>1. \A k \in Loops : At(k)' = IF k = l THEN s ELSE At(k)
  BY AllAtValue DEF At
<1> QED
  BY <1>1 DEF Live, LoopStates

(* start() makes loops live and leaves those that are. *)
LEMMA StartMoves ==
  ASSUME TypeOK, Start
  PROVE  \A k \in Loops :
           Live(k)' <=> Live(k) \/ (k[1] = starts + 1 /\ k[2] \in m_socks)
<1> DEFINE ls == {<<starts + 1, n>> : n \in m_socks}
<1>1. \A k \in Loops : At(k)' = IF k \in ls THEN "ready" ELSE At(k)
  BY AllAtValue DEF Start, At, LoopStates
<1>2. \A k \in Loops : k \in ls <=> k[1] = starts + 1 /\ k[2] \in m_socks
  BY DEF Loops
<1> QED
  BY <1>1, <1>2 DEF Live

LEMMA EndMoves ==
  ASSUME TypeOK, NEW l \in Loops, LoopStops(l)
  PROVE  /\ \A k \in Loops : At(k)' = IF k = l THEN "ended" ELSE At(k)
         /\ \A k \in Loops : Live(k)' <=> Live(k) /\ k # l
<1>1. \A k \in Loops : At(k)' = IF k = l THEN "ended" ELSE At(k)
  BY AllAtValue DEF LoopStops, At, LoopStates
<1> QED
  BY <1>1 DEF Live

(* A cancelAll takes the loops that wait on n out of "wait", and so does   *)
(* the close_f; no loop ends by them.                                      *)
LEMMA WaitingMoves ==
  ASSUME TypeOK, NEW n \in Fds, NEW s \in {"woken", "lost"},
         loop' = AllAt(Waiting(n), s)
  PROVE  /\ \A k \in Loops :
              At(k)' = IF k[2] = n /\ At(k) = "wait" THEN s ELSE At(k)
         /\ \A k \in Loops : Live(k)' <=> Live(k)
<1>1. \A k \in Loops : At(k)' = IF k \in Waiting(n) THEN s ELSE At(k)
  BY AllAtValue DEF At, LoopStates
<1>2. \A k \in Loops : k \in Waiting(n) <=> k[2] = n /\ At(k) = "wait"
  BY DEF Waiting
<1> QED
  BY <1>1, <1>2 DEF Live

----------------------------------------------------------------------------
(***************************************************************************)
(* A listening socket keeps an owner in every step: a failed bind drops    *)
(* exactly those a loop holds, and the loop that ends last closes its own. *)
(***************************************************************************)
LEMMA NoLeakedNext ==
  ASSUME TypeOK, NoLeakedListener, [Next]_vars
  PROVE  NoLeakedListener'
<1> USE DEF vars, kernelVars, serverVars, loopVars
<1>h. \A n \in Fds : Holders(n) # {} <=> \E l \in open : l[2] = n /\ Live(l)
  BY DEF Holders
<1>k. \A n \in Fds :
        Holders(n)' # {} <=> \E l \in open' : l[2] = n /\ Live(l)'
  BY DEF Holders
<1>s. ASSUME NEW n \in Fds, kind'[n] = "listen" => kind[n] = "listen",
             closing[n] # "no" => closing'[n] # "no",
             n \in m_socks => n \in m_socks',
             \A l \in open : l[2] = n /\ Live(l) => l \in open' /\ Live(l)'
      PROVE  kind'[n] = "listen" =>
               n \in m_socks' \/ Holders(n)' # {} \/ closing'[n] # "no"
  BY <1>s, <1>h, <1>k DEF NoLeakedListener
<1>1. ASSUME NEW k \in 1 .. MaxListen, Bind(k)
      PROVE  NoLeakedListener'
  <2>1. ASSUME NEW n \in Fds, n \notin Lowest(k)
        PROVE  kind'[n] = "listen" =>
                 n \in m_socks' \/ Holders(n)' # {} \/ closing'[n] # "no"
    BY <1>1, <1>s, <2>1 DEF Bind, Listening, Live, At
  <2> QED
    BY <1>1, <2>1 DEF NoLeakedListener, Bind
<1>2. CASE BindFails
  BY <1>2, <1>h, <1>k DEF BindFails, NotHeld, NoLeakedListener, Live, At
<1>3. CASE Start
  <2>1. \A k \in open : Live(k) => k \in open' /\ Live(k)'
    BY <1>3, StartMoves DEF Start, TypeOK
  <2> QED
    BY <1>3, <1>s, <2>1 DEF Start, NoLeakedListener
<1>4. ASSUME NEW l \in Loops, LoopStops(l)
      PROVE  NoLeakedListener'
  <2> SUFFICES ASSUME NEW n \in Fds, kind'[n] = "listen", n \notin m_socks',
                      closing'[n] = "no"
               PROVE  \E k \in open' : k[2] = n /\ Live(k)'
    BY <1>k DEF NoLeakedListener
  <2>1. kind[n] = "listen" /\ n \notin m_socks /\ closing[n] = "no"
    BY <1>4 DEF LoopStops, TypeOK
  <2>2. PICK k \in open : k[2] = n /\ Live(k)
    BY <2>1, <1>h DEF NoLeakedListener
  <2>3. CASE Holders(n) = {l}
    <3>1. l \in open /\ l[2] = n
      BY <2>3 DEF Holders
    <3>2. closing'[n] = "cancel"
      BY <1>4, <2>1, <2>3, <3>1 DEF LoopStops, TypeOK
    <3> QED
      BY <3>2
  <2>4. CASE Holders(n) # {l}
    <3>1. PICK j \in Holders(n) : j # l
      BY <2>2, <2>4 DEF Holders
    <3> QED
      BY <1>4, <3>1, EndMoves DEF Holders, LoopStops, TypeOK
  <2> QED
    BY <2>3, <2>4
<1>5. CASE \/ Stop \/ TaskBegins \/ Handlers
           \/ \E n \in Fds : PeerConnects(n)
           \/ UNCHANGED vars
  <2>1. \A l \in Loops : Live(l)' <=> Live(l)
    BY <1>5 DEF Stop, TaskBegins, Handlers, HandleClient, Fcntl, Ioctl,
                PeerConnects, Live, At
  <2>2. /\ kind' = kind /\ m_socks' = m_socks /\ open' = open
        /\ \A n \in Fds : closing[n] # "no" => closing'[n] # "no"
    BY <1>5 DEF Stop, TaskBegins, Handlers, HandleClient, Fcntl, Ioctl,
                PeerConnects, TypeOK
  <2> QED
    BY <1>s, <2>1, <2>2 DEF NoLeakedListener, TypeOK
<1>6. CASE AllClosed
  BY <1>6, <1>s DEF AllClosed, ToClose, NoLeakedListener, Live, At
<1>7. ASSUME NEW n \in Fds, NextSocket(n) \/ Cancel(n) \/ Del(n)
      PROVE  NoLeakedListener'
  <2>1. \A k \in Loops : Live(k)' <=> Live(k)
    BY <1>7, WaitingMoves DEF NextSocket, Cancel, Del, Live, At
  <2>2. /\ kind' = kind /\ m_socks' = m_socks /\ open' = open
        /\ \A m \in Fds : closing[m] # "no" => closing'[m] # "no"
    BY <1>7 DEF NextSocket, Cancel, Del, TypeOK
  <2> QED
    BY <1>s, <2>1, <2>2 DEF NoLeakedListener, TypeOK
<1>8. ASSUME NEW n \in Fds, CloseF(n)
      PROVE  NoLeakedListener'
  <2>1. \A k \in Loops : Live(k)' <=> Live(k)
    BY <1>8, WaitingMoves DEF CloseF
  <2>2. kind'[n] = "closed"
    BY <1>8 DEF CloseF, TypeOK
  <2>3. ASSUME NEW m \in Fds, m # n
        PROVE  kind'[m] = "listen" =>
                 m \in m_socks' \/ Holders(m)' # {} \/ closing'[m] # "no"
    BY <1>8, <1>s, <2>1, <2>3 DEF CloseF, TypeOK
  <2> QED
    BY <2>2, <2>3 DEF NoLeakedListener
<1>9. ASSUME NEW l \in Loops, NEW s \in LoopStates \ {"none", "ended"},
             Live(l), loop' = AllAt({l}, s),
             \A n \in Fds : kind'[n] = "listen" => kind[n] = "listen",
             UNCHANGED <<closing, m_socks, open>>
      PROVE  NoLeakedListener'
  BY <1>9, <1>s, LoopMoves DEF NoLeakedListener, TypeOK
<1>10. ASSUME NEW l \in Loops, LoopStep(l)
       PROVE  NoLeakedListener'
  <2>1. ASSUME NEW c \in Fds, Accepts(l, c)
        PROVE  NoLeakedListener'
    <3>1. Live(l) /\ loop' = AllAt({l}, "test")
      BY <2>1 DEF Accepts, Accepting, CallsAccept, AcceptsAgain, Live
    <3>2. \A n \in Fds : kind'[n] = "listen" => kind[n] = "listen"
      BY <2>1 DEF Accepts, TypeOK
    <3> QED
      BY <2>1, <1>9, <3>1, <3>2 DEF Accepts, LoopStates
  <2> QED
    BY <1>4, <1>9, <1>10, <2>1, LoopStepCases DEF Moves, LoopStates
<1> QED
  BY <1>1, <1>2, <1>3, <1>5, <1>6, <1>7, <1>8, <1>10, ServerAssumption
     DEF Next, Owner, ClosingAll, CloseStep, ServerAssumption

(***************************************************************************)
(* The server's view of its listening sockets and the kernel's agree,      *)
(* whatever the order of bind, start, stop and the end of the loops.       *)
(***************************************************************************)
THEOREM ListenersConsistentCorrect == Spec => []ListenersConsistent
<1>1. Init => ListenersConsistent
  BY ServerAssumption
     DEF Init, TypeOK, LoopStates, ServerAssumption, ListenersConsistent,
         NoLeakedListener
<1>2. ListenersConsistent /\ [Next]_vars => ListenersConsistent'
  BY TypeNext, NoLeakedNext DEF ListenersConsistent
<1> QED
  BY <1>1, <1>2, PTL DEF Spec

----------------------------------------------------------------------------
(* Nobody closes a socket of the server but who goes through m_socks, and  *)
(* nobody a socket that a loop holds.                                      *)
LEMMA SocketsNext ==
  ASSUME TypeOK, Sockets, [Next]_vars
  PROVE  Sockets'
<1> USE DEF vars, kernelVars, serverVars, loopVars
<1>l. \A l \in open : l \in Loops /\ l[2] \in Fds
  BY DEF TypeOK, Loops
<1>s. ASSUME \A k \in Loops : Live(k)' => Live(k),
             UNCHANGED <<kind, closing, m_socks, busy>>, open' \subseteq open
      PROVE  Sockets'
  BY <1>l, <1>s DEF Sockets
<1>1. ASSUME NEW k \in 1 .. MaxListen, Bind(k)
      PROVE  Sockets'
  <2>1. \A n \in Lowest(k) : n \in Fds /\ kind[n] = "closed"
    BY DEF Lowest, Closeds
  <2>2. \A n \in Fds : kind'[n] = IF n \in Lowest(k) THEN "listen" ELSE kind[n]
    BY <1>1 DEF Bind, Listening
  <2>3. \A k2 \in Loops : Live(k2)' <=> Live(k2)
    BY <1>1 DEF Bind, Live, At
  <2>4. m_socks \subseteq Fds
    BY DEF TypeOK
  <2>5. \A n \in Lowest(k) : closing[n] = "no"
    BY <2>1 DEF Sockets
  <2> QED
    BY <1>1, <1>l, <2>1, <2>2, <2>3, <2>4, <2>5 DEF Bind, Sockets
<1>2. CASE BindFails
  <2>1. \A n \in m_socks : n \in Fds /\ closing[n] = "no"
    BY <1>2 DEF BindFails, Owns, Sockets, TypeOK
  <2>2. \A k \in Loops : Live(k)' <=> Live(k)
    BY <1>2 DEF BindFails, Live, At
  <2> QED
    BY <1>2, <1>l, <2>1, <2>2 DEF BindFails, NotHeld, Sockets
<1>3. CASE Start
  <2>1. \A l \in open' : l \in open \/ l[2] \in m_socks
    BY <1>3 DEF Start
  <2>2. \A k \in open : Live(k)' => Live(k) \/ k[2] \in m_socks
    BY <1>3, <1>l, StartMoves
  <2> QED
    BY <1>3, <1>l, <2>1, <2>2 DEF Start, Sockets
<1>4. ASSUME NEW l \in Loops, LoopStops(l)
      PROVE  Sockets'
  <2>1. \A k \in Loops : Live(k)' <=> Live(k) /\ k # l
    BY <1>4, EndMoves
  <2>2. CASE closing' = closing
    BY <1>4, <1>s, <2>1, <2>2 DEF LoopStops
  <2>3. CASE l \in open /\ Holders(l[2]) = {l} /\ l[2] \notin m_socks
    <3> DEFINE n == l[2]
    <3>1. n \in Fds /\ kind[n] = "listen"
      BY <1>l, <2>3 DEF Sockets
    <3>2. /\ closing' = [closing EXCEPT ![n] = "cancel"]
          /\ UNCHANGED <<kind, m_socks, busy>> /\ open' = open \ {l}
      BY <1>4, <2>3 DEF LoopStops
    <3>3. \A m \in Fds : closing'[m] = IF m = n THEN "cancel" ELSE closing[m]
      BY <3>2 DEF TypeOK
    <3>4. \A k \in open' : Live(k)' => k[2] # n
      BY <1>l, <2>1, <2>3, <3>2 DEF Holders
    <3>5. m_socks \subseteq Fds
      BY DEF TypeOK
    <3> QED
      BY <1>l, <2>1, <2>3, <3>1, <3>2, <3>3, <3>4, <3>5 DEF Sockets
  <2> QED
    BY <1>4, <2>2, <2>3 DEF LoopStops
<1>5. CASE Stop \/ (\E n \in Fds : PeerConnects(n)) \/ UNCHANGED vars
  <2>1. \A k \in Loops : Live(k)' <=> Live(k)
    BY <1>5 DEF Stop, PeerConnects, Live, At
  <2> QED
    BY <1>5, <1>s, <2>1 DEF Stop, PeerConnects
<1>6. CASE TaskBegins \/ AllClosed
  <2>1. \A k \in Loops : Live(k)' <=> Live(k)
    BY <1>6 DEF TaskBegins, AllClosed, Live, At
  <2> QED
    BY <1>6, <1>l, <2>1 DEF TaskBegins, AllClosed, ToClose, Sockets
<1>7. ASSUME NEW n \in Fds, NextSocket(n)
      PROVE  Sockets'
  <2>1. \A k \in Loops : Live(k)' <=> Live(k)
    BY <1>7, WaitingMoves DEF NextSocket, Live, At
  <2>2. \A m \in Fds : closing'[m] = IF m = n THEN "cancel" ELSE closing[m]
    BY <1>7 DEF NextSocket, TypeOK
  <2> QED
    BY <1>7, <1>l, <2>1, <2>2 DEF NextSocket, ToClose, Sockets
<1>8. ASSUME NEW n \in Fds, Cancel(n) \/ Del(n)
      PROVE  Sockets'
  <2>1. \A k \in Loops : Live(k)' <=> Live(k)
    BY <1>8, WaitingMoves DEF Cancel, Del, Live, At
  <2>2. /\ closing[n] # "no" /\ closing'[n] # "no"
        /\ \A m \in Fds \ {n} : closing'[m] = closing[m]
    BY <1>8 DEF Cancel, Del, TypeOK
  <2>3. UNCHANGED <<kind, m_socks, busy, open>> /\ m_socks \subseteq Fds
    BY <1>8 DEF Cancel, Del, TypeOK
  <2>4. \A m \in Fds : closing'[m] = "no" <=> closing[m] = "no"
    BY <2>2
  <2> QED
    BY <1>l, <2>1, <2>3, <2>4 DEF Sockets
<1>9. ASSUME NEW n \in Fds, CloseF(n)
      PROVE  Sockets'
  <2>1. \A k \in Loops : Live(k)' <=> Live(k)
    BY <1>9, WaitingMoves DEF CloseF
  <2>2. \A m \in Fds : /\ closing'[m] = IF m = n THEN "no" ELSE closing[m]
                       /\ kind'[m] = IF m = n THEN "closed" ELSE kind[m]
    BY <1>9 DEF CloseF, TypeOK
  <2>3. /\ m_socks' = m_socks \ {n} /\ busy' = busy /\ m_socks \subseteq Fds
        /\ \A l \in open' : l \in open /\ l[2] # n
    BY <1>9 DEF CloseF, TypeOK
  <2> QED
    BY <1>l, <2>1, <2>2, <2>3 DEF Sockets
<1>10. ASSUME NEW l \in Loops, LoopStep(l)
       PROVE  Sockets'
  <2>1. ASSUME NEW c \in Fds, Accepts(l, c)
        PROVE  Sockets'
    <3>1. Live(l) /\ loop' = AllAt({l}, "test")
      BY <2>1 DEF Accepts, Accepting, CallsAccept, AcceptsAgain, Live
    <3>2. \A k \in Loops : Live(k)' <=> Live(k)
      BY <3>1, LoopMoves DEF LoopStates
    <3>3. /\ kind[c] = "closed"
          /\ \A m \in Fds : kind'[m] = IF m = c THEN "client" ELSE kind[m]
      BY <2>1 DEF Accepts, Lowest, Closeds, TypeOK
    <3>4. UNCHANGED <<closing, m_socks, busy, open>> /\ m_socks \subseteq Fds
      BY <2>1 DEF Accepts, TypeOK
    <3> QED
      BY <1>l, <3>2, <3>3, <3>4 DEF Sockets
  <2>2. ASSUME NEW s \in LoopStates \ {"none", "ended"}, Moves(l, s)
        PROVE  Sockets'
    BY <2>2, <1>s, LoopMoves DEF Moves
  <2> QED
    BY <1>4, <1>10, <2>1, <2>2, LoopStepCases DEF LoopStates
<1>11. ASSUME NEW c \in Fds, HandleClient(c)
       PROVE  Sockets'
  <2>1. \A k \in Loops : Live(k)' <=> Live(k)
    BY <1>11 DEF HandleClient, Live, At
  <2>2. /\ kind[c] = "client" /\ UNCHANGED <<kind, m_socks, busy, open>>
        /\ m_socks \subseteq Fds
    BY <1>11 DEF HandleClient, TypeOK
  <2>3. \A m \in Fds : closing'[m] = IF m = c THEN "cancel" ELSE closing[m]
    BY <1>11 DEF HandleClient, TypeOK
  <2> QED
    BY <1>l, <2>1, <2>2, <2>3 DEF Sockets
<1>12. ASSUME NEW c \in Fds, NEW b \in BOOLEAN, Fcntl(c, b) \/ Ioctl(c, b)
       PROVE  Sockets'
  <2>1. \A k \in Loops : Live(k)' <=> Live(k)
    BY <1>12 DEF Fcntl, Ioctl, Live, At
  <2> QED
    BY <1>12, <1>s, <2>1 DEF Fcntl, Ioctl
<1> QED
  BY <1>1, <1>2, <1>3, <1>5, <1>6, <1>7, <1>8, <1>9, <1>10, <1>11, <1>12,
     ServerAssumption
     DEF Next, Owner, ClosingAll, CloseStep, Handlers, ServerAssumption

LEMMA SocketsHold == Spec => [](TypeOK /\ Sockets)
<1>1. Init => TypeOK /\ Sockets
  BY ServerAssumption DEF Init, TypeOK, LoopStates, Sockets, ServerAssumption
<1>2. TypeOK /\ Sockets /\ [Next]_vars => (TypeOK /\ Sockets)'
  BY TypeNext, SocketsNext
<1> QED
  BY <1>1, <1>2, PTL DEF Spec

----------------------------------------------------------------------------
(* Contexts are created for numbers just opened and deleted before close_f. *)
LEMMA ContextsNext ==
  ASSUME TypeOK, Sockets, ContextWhileOpen, [Next]_vars
  PROVE  ContextWhileOpen'
<1> USE DEF vars, kernelVars, serverVars, loopVars
<1>n. Context # None
  <2>1. Context \in [user : BOOLEAN]
    BY DEF Context
  <2> HIDE DEF Context
  <2> QED
    BY <2>1, ServerAssumption DEF ServerAssumption
<1>u. ASSUME UNCHANGED <<kind, m_datas>>,
             \A n \in Fds : closing'[n] = "close" <=> closing[n] = "close"
      PROVE  ContextWhileOpen'
  BY <1>u DEF ContextWhileOpen
<1>1. CASE \E k \in 1 .. MaxListen : Bind(k)
  BY <1>1, <1>n DEF Bind, Listening, Managed, Created, Lowest, Closeds,
                    Sockets, ContextWhileOpen, TypeOK
<1>2. CASE BindFails \/ Start \/ Stop \/ TaskBegins \/ AllClosed
  BY <1>2, <1>u DEF BindFails, Start, Stop, TaskBegins, AllClosed
<1>3. ASSUME NEW n \in Fds, NextSocket(n) \/ Cancel(n)
      PROVE  ContextWhileOpen'
  BY <1>3, <1>u DEF NextSocket, ToClose, Cancel, TypeOK
<1>4. ASSUME NEW n \in Fds, Del(n)
      PROVE  ContextWhileOpen'
  BY <1>4 DEF Del, Unmanaged, ContextWhileOpen, TypeOK
<1>5. ASSUME NEW n \in Fds, CloseF(n)
      PROVE  ContextWhileOpen'
  BY <1>5 DEF CloseF, ContextWhileOpen, TypeOK
<1>6. ASSUME NEW l \in Loops, NEW c \in Fds, Accepts(l, c)
      PROVE  ContextWhileOpen'
  BY <1>6, <1>n DEF Accepts, Managed, Created, Lowest, Closeds, Sockets,
                    ContextWhileOpen, TypeOK
<1>7. ASSUME NEW l \in Loops, LoopStops(l)
      PROVE  ContextWhileOpen'
  <2>1. l \in open /\ Holders(l[2]) = {l} /\ l[2] \notin m_socks =>
          l[2] \in Fds /\ closing[l[2]] = "no"
    BY DEF Holders, Sockets, Loops
  <2> QED
    BY <1>7, <1>u, <2>1 DEF LoopStops, TypeOK
<1>8. ASSUME NEW l \in Loops, LoopStep(l)
      PROVE  ContextWhileOpen'
  BY <1>6, <1>7, <1>8, <1>u, LoopStepCases DEF Moves
<1>9. ASSUME NEW c \in Fds, HandleClient(c)
      PROVE  ContextWhileOpen'
  BY <1>9, <1>u DEF HandleClient, TypeOK
<1>10. ASSUME NEW c \in Fds, NEW b \in BOOLEAN, Fcntl(c, b) \/ Ioctl(c, b)
       PROVE  ContextWhileOpen'
  <2>1. m_datas[c] \in [user : BOOLEAN]
    BY <1>10 DEF Fcntl, Ioctl, TypeOK
  <2>2. [m_datas[c] EXCEPT !.user = b] \in [user : BOOLEAN]
    BY <2>1
  <2>3. m_datas'[c] # None /\ m_datas[c] # None
    BY <1>10, <2>2, ServerAssumption DEF Fcntl, Ioctl, TypeOK, ServerAssumption
  <2>4. /\ \A n \in Fds \ {c} : m_datas'[n] = m_datas[n]
        /\ kind' = kind /\ closing' = closing
    BY <1>10 DEF Fcntl, Ioctl, TypeOK
  <2> QED
    BY <2>3, <2>4 DEF ContextWhileOpen
<1>11. CASE (\E n \in Fds : PeerConnects(n)) \/ UNCHANGED vars
  BY <1>11, <1>u DEF PeerConnects
<1> QED
  BY <1>1, <1>2, <1>3, <1>4, <1>5, <1>8, <1>9, <1>10, <1>11, ServerAssumption
     DEF Next, Owner, ClosingAll, CloseStep, Handlers, ServerAssumption

(* A context is made with the flag set, and only the user's own wish for a *)
(* non-blocking descriptor lets a call of ioctl touch the flag.            *)
LEMMA NonblockingNext ==
  ASSUME TypeOK, Sockets, ContextWhileOpen, ManagedIsNonblocking, [Next]_vars,
         FionbioArgs \subseteq {TRUE}
  PROVE  ManagedIsNonblocking'
<1> USE DEF vars, kernelVars, serverVars, loopVars
<1> DEFINE Fine(n) == m_datas[n].user \/ n \in nonblock
           Due(n) == kind[n] # "closed" /\ closing[n] # "close"
<1>0. ASSUME \A n \in Fds : Due(n)' => Fine(n)'
      PROVE  ManagedIsNonblocking'
  BY <1>0, ContextsNext DEF ManagedIsNonblocking, ContextWhileOpen
<1>f. \A n \in Fds : Due(n) => Fine(n)
  BY DEF ManagedIsNonblocking
<1>u. ASSUME UNCHANGED <<kind, nonblock, m_datas>>,
             \A n \in Fds : closing'[n] # "close" => closing[n] # "close"
      PROVE  ManagedIsNonblocking'
  BY <1>f, <1>0, <1>u
<1>1. CASE \E k \in 1 .. MaxListen : Bind(k)
  BY <1>1, <1>f, <1>0 DEF Bind, Listening, Managed, Created, Lowest, Closeds,
                    ContextWhileOpen, TypeOK
<1>2. CASE BindFails \/ Start \/ Stop \/ TaskBegins \/ AllClosed
  BY <1>2, <1>u DEF BindFails, Start, Stop, TaskBegins, AllClosed
<1>3. ASSUME NEW n \in Fds, NextSocket(n) \/ Cancel(n)
      PROVE  ManagedIsNonblocking'
  BY <1>3, <1>u DEF NextSocket, ToClose, Cancel, TypeOK
<1>4. ASSUME NEW n \in Fds, Del(n)
      PROVE  ManagedIsNonblocking'
  BY <1>4, <1>f, <1>0 DEF Del, Unmanaged, TypeOK
<1>5. ASSUME NEW n \in Fds, CloseF(n)
      PROVE  ManagedIsNonblocking'
  BY <1>5, <1>f, <1>0 DEF CloseF, TypeOK
<1>6. ASSUME NEW l \in Loops, NEW c \in Fds, Accepts(l, c)
      PROVE  ManagedIsNonblocking'
  BY <1>6, <1>f, <1>0 DEF Accepts, Managed, Created, Lowest, Closeds,
                    ContextWhileOpen, TypeOK
<1>7. ASSUME NEW l \in Loops, LoopStops(l)
      PROVE  ManagedIsNonblocking'
  <2>1. l \in open /\ Holders(l[2]) = {l} /\ l[2] \notin m_socks =>
          l[2] \in Fds /\ closing[l[2]] = "no"
    BY DEF Holders, Sockets, Loops
  <2> QED
    BY <1>7, <1>u, <2>1 DEF LoopStops, TypeOK
<1>8. ASSUME NEW l \in Loops, LoopStep(l)
      PROVE  ManagedIsNonblocking'
  BY <1>6, <1>7, <1>8, <1>u, LoopStepCases DEF Moves
<1>9. ASSUME NEW c \in Fds, HandleClient(c)
      PROVE  ManagedIsNonblocking'
  BY <1>9, <1>u DEF HandleClient, TypeOK
<1>10. ASSUME NEW c \in Fds, NEW b \in BOOLEAN,
              Fcntl(c, b) \/ (b \in FionbioArgs /\ Ioctl(c, b))
       PROVE  ManagedIsNonblocking'
  <2>1. c \in nonblock' /\ nonblock \subseteq nonblock'
    BY <1>10 DEF Fcntl, Ioctl
  <2>2. /\ \A n \in Fds \ {c} : m_datas'[n] = m_datas[n]
        /\ kind' = kind /\ closing' = closing
    BY <1>10 DEF Fcntl, Ioctl, TypeOK
  <2> QED
    BY <1>f, <1>0, <2>1, <2>2
<1>11. CASE (\E n \in Fds : PeerConnects(n)) \/ UNCHANGED vars
  BY <1>11, <1>u DEF PeerConnects
<1> QED
  BY <1>1, <1>2, <1>3, <1>4, <1>5, <1>8, <1>9, <1>10, <1>11, ServerAssumption
     DEF Next, Owner, ClosingAll, CloseStep, Handlers, ServerAssumption

LEMMA ContextsHold == Spec => []ContextWhileOpen
<1>1. Init => ContextWhileOpen
  BY DEF Init, ContextWhileOpen
<1>2. TypeOK /\ Sockets /\ ContextWhileOpen /\ [Next]_vars => ContextWhileOpen'
  BY ContextsNext
<1> QED
  BY <1>1, <1>2, SocketsHold, PTL DEF Spec

(***************************************************************************)
(* A descriptor that the hooks manage blocks no thread: the kernel's flag  *)
(* is set unless the user asked for it, as long as no program clears it    *)
(* with ioctl(FIONBIO, 0).                                                 *)
(***************************************************************************)
THEOREM ManagedIsNonblockingCorrect ==
  FionbioArgs \subseteq {TRUE} => (Spec => []ManagedIsNonblocking)
<1> SUFFICES ASSUME FionbioArgs \subseteq {TRUE}
             PROVE  Spec => []ManagedIsNonblocking
  OBVIOUS
<1>1. Init => ManagedIsNonblocking
  BY DEF Init, ManagedIsNonblocking
<1>2. TypeOK /\ Sockets /\ ContextWhileOpen /\ ManagedIsNonblocking
        /\ [Next]_vars => ManagedIsNonblocking'
  BY NonblockingNext
<1> QED
  BY <1>1, <1>2, SocketsHold, ContextsHold, PTL DEF Spec

----------------------------------------------------------------------------
(***************************************************************************)
(* While nothing overlaps, start() finds no live loop and no task of       *)
(* stop(), so every live loop is of the last start.                        *)
(***************************************************************************)
LEMMA OneRunNext ==
  ASSUME TypeOK, Sockets, OneRun, [Next]_vars, ~Overlap
  PROVE  OneRun'
<1> USE DEF vars, kernelVars, serverVars, loopVars
<1>s. ASSUME \A k \in Loops :
               Live(k)' => Live(k) /\ (k \in open => k \in open'),
             UNCHANGED <<m_isStop, starts>>,
             stops' > 0 \/ busy' # "no" => m_isStop
      PROVE  OneRun'
  BY <1>s DEF OneRun
<1>t. ASSUME \A k \in Loops : Live(k)' <=> Live(k),
             UNCHANGED <<m_isStop, starts, stops, busy, open>>
      PROVE  OneRun'
  BY <1>t DEF OneRun
<1>1. CASE (\E k \in 1 .. MaxListen : Bind(k)) \/ BindFails
  BY <1>1, <1>s DEF Bind, BindFails, Settled, Live, At
<1>2. CASE Start
  <2>1. stops = 0 /\ \A l \in Loops : ~Live(l)
    BY <1>2 DEF Start, MayStart, Settled
  <2>2. \A k \in Loops :
          Live(k)' <=> k[1] = starts + 1 /\ k[2] \in m_socks
    BY <1>2, <2>1, StartMoves
  <2>3. \A k \in Loops : Live(k)' => k \in open' /\ k[1] = starts'
    BY <1>2, <2>2 DEF Start, Loops
  <2>4. ~(stops' > 0) /\ busy' = "no"
    BY <1>2, <2>1 DEF Start, Owns
  <2> QED
    BY <2>3, <2>4 DEF OneRun
<1>3. CASE Stop
  BY <1>3 DEF Stop, FlagAfterStop, OneRun, Live, At
<1>4. CASE TaskBegins \/ AllClosed
  BY <1>4, <1>s, ServerAssumption
     DEF TaskBegins, AllClosed, OneRun, TypeOK, Live, At, ServerAssumption
<1>5. ASSUME NEW n \in Fds, NextSocket(n) \/ Cancel(n) \/ Del(n)
      PROVE  OneRun'
  <2>1. \A k \in Loops : Live(k)' <=> Live(k)
    BY <1>5, WaitingMoves DEF NextSocket, Cancel, Del, Live, At
  <2> QED
    BY <1>5, <1>t, <2>1 DEF NextSocket, Cancel, Del
<1>6. ASSUME NEW n \in Fds, CloseF(n)
      PROVE  OneRun'
  <2>1. \A k \in Loops : Live(k)' <=> Live(k)
    BY <1>6, WaitingMoves DEF CloseF
  <2>2. ASSUME ~m_isStop, NEW k \in Loops, Live(k)
        PROVE  k \in open'
    <3>1. k \in open /\ busy = "no"
      BY <2>2 DEF OneRun
    <3>2. closing[n] # "no"
      BY <1>6 DEF CloseF
    <3>3. n \notin m_socks
      BY <3>1, <3>2 DEF Sockets
    <3>4. k[2] # n
      BY <2>2, <3>1, <3>2, <3>3 DEF Sockets
    <3> QED
      BY <1>6, <3>1, <3>4 DEF CloseF
  <2>3. UNCHANGED <<m_isStop, starts, stops, busy>>
    BY <1>6 DEF CloseF
  <2> QED
    BY <2>1, <2>2, <2>3 DEF OneRun
<1>7. ASSUME NEW l \in Loops, LoopStops(l)
      PROVE  OneRun'
  BY <1>7, <1>s, EndMoves DEF LoopStops, LoopEnds
<1>8. ASSUME NEW l \in Loops, LoopStep(l)
      PROVE  OneRun'
  <2>1. ASSUME NEW c \in Fds, Accepts(l, c)
        PROVE  Live(l) /\ loop' = AllAt({l}, "test")
    BY <2>1 DEF Accepts, Accepting, CallsAccept, AcceptsAgain, Live
  <2>2. ASSUME NEW c \in Fds, Accepts(l, c)
        PROVE  OneRun'
    BY <1>t, <2>1, <2>2, LoopMoves DEF Accepts, LoopStates
  <2> QED
    BY <1>7, <1>8, <1>t, <2>2, LoopStepCases, LoopMoves DEF Moves, LoopStates
<1>9. CASE Handlers \/ (\E n \in Fds : PeerConnects(n)) \/ UNCHANGED vars
  BY <1>9, <1>t
     DEF Handlers, HandleClient, Fcntl, Ioctl, PeerConnects, Live, At
<1> QED
  BY <1>1, <1>2, <1>3, <1>4, <1>5, <1>6, <1>8, <1>9, ServerAssumption
     DEF Next, Owner, ClosingAll, CloseStep, ServerAssumption

LEMMA OneRunHolds == ~Overlap => (Spec => []OneRun)
<1> SUFFICES ASSUME ~Overlap PROVE Spec => []OneRun
  OBVIOUS
<1>1. Init => OneRun
  BY DEF Init, OneRun, Live, At, Loops
<1>2. TypeOK /\ Sockets /\ OneRun /\ [Next]_vars => OneRun'
  BY OneRunNext
<1> QED
  BY <1>1, <1>2, SocketsHold, PTL DEF Spec

(* One loop accepts on a socket when starts and stops do not overlap. *)
LEMMA OneLoopAtMost == ~Overlap => (Spec => []OneLoopPerSocket)
<1>1. ASSUME TypeOK, OneRun, NEW n \in Fds
      PROVE  Cardinality(Holders(n)) <= 1
  <2>1. Holders(n) \in SUBSET {<<starts, n>>}
    BY <1>1 DEF Holders, OneRun, TypeOK, Loops
  <2>2. IsFiniteSet({<<starts, n>>}) /\ Cardinality({<<starts, n>>}) = 1
    BY FS_Singleton
  <2> QED
    BY <2>1, <2>2, FS_Subset
<1>2. TypeOK /\ OneRun => OneLoopPerSocket
  BY <1>1 DEF OneLoopPerSocket
<1> QED
  BY <1>2, OneRunHolds, SocketsHold, PTL

----------------------------------------------------------------------------
(* A step that changes nothing of what the loops depend on. *)
LEMMA CoveredSame ==
  ASSUME Covered, open \subseteq Loops, \A k \in Loops : Live(k)' <=> Live(k),
         \A k \in Loops : /\ At(k)' = "lost" => At(k) = "lost"
                          /\ At(k)' = "wait" => At(k) = "wait",
         UNCHANGED <<m_isStop, m_socks, open, late>>,
         stops > 0 \/ busy = "stop" => stops' > 0 \/ busy' = "stop",
         \A k \in Loops : At(k)' = "wait" /\ CancelToCome(k[2]) =>
           CancelToCome(k[2])'
  PROVE  Covered'
<1>1. \A l \in open' : Live(l)' => l[2] \in m_socks'
  BY DEF Covered
<1>2. ~m_isStop' => \A n \in m_socks' : \E l \in open' : l[2] = n /\ Live(l)'
  BY DEF Covered
<1>3. m_isStop' /\ m_socks' # {} /\ (\E l \in Loops : Live(l)') =>
        stops' > 0 \/ busy' = "stop"
  BY DEF Covered
<1>4. \A l \in Loops \ late' :
        /\ At(l)' # "lost"
        /\ m_isStop' /\ At(l)' = "wait" => CancelToCome(l[2])'
  BY DEF Covered
<1> QED
  BY <1>1, <1>2, <1>3, <1>4 DEF Covered

(* What a loop does when it registers on its number: it is late, or a      *)
(* cancelAll is still to come if the server has been stopped.              *)
LEMMA RegistersInTime ==
  ASSUME TypeOK, NoLeakedListener, Covered, NEW l \in Loops, Live(l), m_isStop,
         kind[l[2]] # "closed", ~Cancelled(l[2])
  PROVE  CancelToCome(l[2])
<1> DEFINE n == l[2]
<1>1. n \in Fds /\ (closing[n] = "no" \/ closing[n] = "cancel")
  BY DEF Loops, Cancelled, TypeOK
<1>2. CASE closing[n] = "cancel" \/ kind[n] = "client"
  BY <1>1, <1>2 DEF CancelToCome
<1>3. CASE closing[n] = "no" /\ kind[n] = "listen"
  <2>1. n \in m_socks \/ \E k \in open : k[2] = n /\ Live(k)
    BY <1>1, <1>3 DEF NoLeakedListener, Holders
  <2>2. n \in m_socks
    BY <2>1 DEF Covered
  <2> QED
    BY <1>3, <2>2 DEF Covered, CancelToCome
<1> QED
  BY <1>1, <1>2, <1>3 DEF TypeOK

LEMMA CoveredNext ==
  ASSUME TypeOK, NoLeakedListener, Sockets, OneRun, Covered, [Next]_vars,
         ~Overlap
  PROVE  Covered'
<1> USE DEF vars, kernelVars, serverVars, loopVars
<1>o. open \subseteq Loops /\ m_socks \subseteq Fds
  BY DEF TypeOK
<1>1. CASE (\E k \in 1 .. MaxListen : Bind(k)) \/ BindFails
  <2>1. m_isStop /\ \A l \in Loops : ~Live(l)
    BY <1>1 DEF Bind, BindFails, Settled
  <2>2. UNCHANGED <<m_isStop, loopVars>>
    BY <1>1 DEF Bind, BindFails
  <2>3. \A l \in Loops : ~Live(l)' /\ At(l)' # "wait" /\ At(l)' # "lost"
    BY <2>1, <2>2 DEF Live, At
  <2> QED
    BY <1>o, <2>1, <2>2, <2>3 DEF Covered
<1>2. CASE Start
  <2>1. \A l \in Loops : ~Live(l)
    BY <1>2 DEF Start, MayStart, Settled
  <2>2. \A k \in Loops :
          Live(k)' <=> k[1] = starts + 1 /\ k[2] \in m_socks
    BY <1>2, <2>1, StartMoves
  <2>3. m_isStop' = FALSE /\ m_socks' = m_socks
    BY <1>2 DEF Start
  <2>4. ASSUME NEW n \in m_socks
        PROVE  \E l \in open' : l[2] = n /\ Live(l)'
    <3>1. starts + 1 \in Runs /\ n \in Fds
      BY <1>2, ServerAssumption DEF Start, Runs, TypeOK, ServerAssumption
    <3>2. <<starts + 1, n>> \in Loops /\ <<starts + 1, n>> \in open'
      BY <1>2, <3>1 DEF Start, Loops
    <3> QED
      BY <2>2, <3>2
  <2>5. ASSUME NEW l \in Loops
        PROVE  At(l)' # "lost"
    <3>1. At(l)' = "ready" \/ At(l)' = At(l)
      BY <1>2, AllAtValue DEF Start, At, LoopStates
    <3> QED
      BY <2>1, <3>1 DEF Live
  <2>6. \A l \in open' : l \in Loops
    BY TypeNext, <1>2 DEF TypeOK
  <2> QED
    BY <2>2, <2>3, <2>4, <2>5, <2>6 DEF Covered
<1>3. CASE Stop
  <2>1. /\ m_isStop' /\ stops' = stops + 1 /\ stops \in Nat
        /\ UNCHANGED <<kind, closing, m_socks, busy, loopVars>>
    BY <1>3, ServerAssumption DEF Stop, FlagAfterStop, TypeOK, ServerAssumption
  <2>2. \A l \in Loops : At(l)' = At(l) /\ (Live(l)' <=> Live(l))
    BY <2>1 DEF At, Live
  <2>3. ASSUME NEW l \in Loops \ late, At(l) = "wait"
        PROVE  CancelToCome(l[2])'
    <3>1. CASE m_isStop
      BY <2>1, <2>3, <3>1 DEF Covered, CancelToCome
    <3>2. CASE ~m_isStop
      <4>1. l \in open /\ Live(l) /\ busy = "no"
        BY <2>3, <3>2 DEF OneRun, Live
      <4>2. l[2] \in m_socks /\ closing[l[2]] = "no"
        BY <4>1 DEF Covered, Sockets
      <4> QED
        BY <2>1, <4>2 DEF CancelToCome
    <3> QED
      BY <3>1, <3>2
  <2> QED
    BY <1>o, <2>1, <2>2, <2>3 DEF Covered
<1>4. CASE TaskBegins
  <2>1. \A l \in Loops : At(l)' = At(l) /\ (Live(l)' <=> Live(l))
    BY <1>4 DEF TaskBegins, At, Live
  <2>2. \A n : CancelToCome(n) => CancelToCome(n)'
    BY <1>4 DEF TaskBegins, CancelToCome
  <2> QED
    BY <1>4, <1>o, <2>1, <2>2, CoveredSame DEF TaskBegins
<1>5. CASE AllClosed
  <2>1. \A l \in Loops : At(l)' = At(l) /\ (Live(l)' <=> Live(l))
    BY <1>5 DEF AllClosed, At, Live
  <2>2. \A n : CancelToCome(n) => CancelToCome(n)'
    BY <1>5 DEF AllClosed, ToClose, CancelToCome
  <2> QED
    BY <1>5, <1>o, <2>1, <2>2 DEF AllClosed, ToClose, Covered
<1>6. ASSUME NEW n \in Fds, NextSocket(n)
      PROVE  Covered'
  <2>1. \A k \in Loops : Live(k)' <=> Live(k)
    BY <1>6, WaitingMoves DEF NextSocket, Live, At
  <2>2. \A k \in Loops : At(k)' = At(k) \/ At(k)' = "woken"
    BY <1>6, WaitingMoves DEF NextSocket, At
  <2>3. \A m \in Fds : closing'[m] = IF m = n THEN "cancel" ELSE closing[m]
    BY <1>6 DEF NextSocket, TypeOK
  <2>4. \A m \in Fds : CancelToCome(m) => CancelToCome(m)'
    BY <1>6, <2>3 DEF NextSocket, CancelToCome
  <2>5. \A k \in Loops : k[2] \in Fds
    BY DEF Loops
  <2> QED
    BY <1>6, <1>o, <2>1, <2>2, <2>4, <2>5, CoveredSame DEF NextSocket
<1>7. ASSUME NEW n \in Fds, Cancel(n)
      PROVE  Covered'
  <2>1. \A k \in Loops : Live(k)' <=> Live(k)
    BY <1>7, WaitingMoves DEF Cancel
  <2>2. \A k \in Loops :
          At(k)' = IF k[2] = n /\ At(k) = "wait" THEN "woken" ELSE At(k)
    BY <1>7, WaitingMoves DEF Cancel
  <2>3. \A m \in Fds \ {n} : CancelToCome(m) => CancelToCome(m)'
    BY <1>7 DEF Cancel, CancelToCome, TypeOK
  <2>4. \A k \in Loops : k[2] \in Fds
    BY DEF Loops
  <2> QED
    BY <1>7, <1>o, <2>1, <2>2, <2>3, <2>4, CoveredSame DEF Cancel
<1>8. ASSUME NEW n \in Fds, Del(n)
      PROVE  Covered'
  <2>1. \A l \in Loops : At(l)' = At(l) /\ (Live(l)' <=> Live(l))
    BY <1>8 DEF Del, At, Live
  <2>2. ~CancelToCome(n)
    BY <1>8 DEF Del, CancelToCome
  <2>3. \A m \in Fds : CancelToCome(m) => CancelToCome(m)'
    BY <1>8, <2>2 DEF Del, CancelToCome, TypeOK
  <2>4. \A k \in Loops : k[2] \in Fds
    BY DEF Loops
  <2> QED
    BY <1>8, <1>o, <2>1, <2>3, <2>4, CoveredSame DEF Del
<1>9. ASSUME NEW n \in Fds, CloseF(n)
      PROVE  Covered'
  <2>1. \A k \in Loops : Live(k)' <=> Live(k)
    BY <1>9, WaitingMoves DEF CloseF
  <2>2. \A k \in Loops :
          At(k)' = IF k[2] = n /\ At(k) = "wait" THEN "lost" ELSE At(k)
    BY <1>9, WaitingMoves DEF CloseF
  <2>3. /\ closing[n] = "close" /\ m_socks' = m_socks \ {n}
        /\ open' = {l \in open : l[2] # n}
        /\ UNCHANGED <<m_isStop, stops, busy, late>>
    BY <1>9 DEF CloseF
  <2>4. ASSUME NEW k \in Loops \ late, At(k) = "wait"
        PROVE  k[2] # n
    <3>1. CASE m_isStop
      BY <2>3, <2>4, <3>1 DEF Covered, CancelToCome
    <3>2. CASE ~m_isStop
      <4>1. k \in open /\ Live(k) /\ busy = "no"
        BY <2>4, <3>2 DEF OneRun, Live
      <4>2. k[2] \in m_socks /\ closing[k[2]] = "no"
        BY <4>1 DEF Covered, Sockets
      <4> QED
        BY <2>3, <4>2
    <3> QED
      BY <3>1, <3>2
  <2>5. \A m \in Fds \ {n} : CancelToCome(m) => CancelToCome(m)'
    BY <1>9 DEF CloseF, CancelToCome, TypeOK
  <2>6. \A k \in Loops : k[2] \in Fds
    BY DEF Loops
  <2>7. \A l \in Loops \ late' :
          /\ At(l)' # "lost"
          /\ m_isStop' /\ At(l)' = "wait" => CancelToCome(l[2])'
    BY <2>2, <2>3, <2>4, <2>5, <2>6 DEF Covered
  <2>8. ~m_isStop => \A m \in m_socks' : \E l \in open' : l[2] = m /\ Live(l)'
    BY <1>o, <2>1, <2>3 DEF Covered
  <2>9. \A l \in open' : Live(l)' => l[2] \in m_socks'
    BY <1>o, <2>1, <2>3 DEF Covered
  <2>10. m_isStop' /\ m_socks' # {} /\ (\E l \in Loops : Live(l)') =>
           stops' > 0 \/ busy' = "stop"
    BY <2>1, <2>3 DEF Covered
  <2> QED
    BY <2>3, <2>7, <2>8, <2>9, <2>10 DEF Covered
<1>10. ASSUME NEW l \in Loops, LoopStops(l)
       PROVE  Covered'
  <2>1. /\ \A k \in Loops : At(k)' = IF k = l THEN "ended" ELSE At(k)
        /\ \A k \in Loops : Live(k)' <=> Live(k) /\ k # l
    BY <1>10, EndMoves
  <2>2. /\ m_isStop /\ open' = open \ {l}
        /\ UNCHANGED <<serverVars, kind, late>>
    BY <1>10 DEF LoopStops, LoopEnds
  <2>3. closing' = closing
    BY <1>10, <1>o DEF LoopStops, Covered, Live
  <2>4. \A n : CancelToCome(n) => CancelToCome(n)'
    BY <2>2, <2>3 DEF CancelToCome
  <2> QED
    BY <1>o, <2>1, <2>2, <2>4 DEF Covered
<1>11. ASSUME NEW l \in Loops, NEW s \in {"test", "try", "add", "woken"},
              Live(l), loop' = AllAt({l}, s),
              UNCHANGED <<closing, serverVars, open, late>>,
              \A n \in Fds : kind[n] = "client" => kind'[n] = "client"
       PROVE  Covered'
  <2>1. /\ \A k \in Loops : At(k)' = IF k = l THEN s ELSE At(k)
        /\ \A k \in Loops : Live(k)' <=> Live(k)
    BY <1>11, LoopMoves DEF LoopStates
  <2>2. \A n \in Fds : CancelToCome(n) => CancelToCome(n)'
    BY <1>11 DEF CancelToCome
  <2>3. \A k \in Loops : k[2] \in Fds
    BY DEF Loops
  <2> QED
    BY <1>11, <1>o, <2>1, <2>2, <2>3, CoveredSame
<1>12. ASSUME NEW l \in Loops, AddEvent(l), Moves(l, "wait")
       PROVE  Covered'
  <2>1. /\ \A k \in Loops : At(k)' = IF k = l THEN "wait" ELSE At(k)
        /\ \A k \in Loops : Live(k)' <=> Live(k)
    BY <1>12, LoopMoves DEF Moves, LoopStates
  <2>2. UNCHANGED <<kind, closing, serverVars, open>>
    BY <1>12 DEF AddEvent
  <2>3. \A n : CancelToCome(n) => CancelToCome(n)'
    BY <2>2 DEF CancelToCome
  <2>4. late' = IF Cancelled(l[2]) THEN late \cup {l} ELSE late \ {l}
    BY <1>12 DEF AddEvent
  <2>5. ASSUME NEW k \in Loops \ late'
        PROVE  /\ At(k)' # "lost"
               /\ m_isStop' /\ At(k)' = "wait" => CancelToCome(k[2])'
    <3>1. CASE k = l
      <4>1. kind[l[2]] # "closed" /\ ~Cancelled(l[2]) /\ Live(l)
        BY <1>12, <2>4, <2>5, <3>1 DEF AddEvent, Moves
      <4>2. m_isStop => CancelToCome(l[2])
        BY <4>1, RegistersInTime
      <4> QED
        BY <2>1, <2>2, <2>3, <3>1, <4>2
    <3>2. CASE k # l
      <4>1. k \notin late /\ At(k)' = At(k)
        BY <2>1, <2>4, <2>5, <3>2
      <4> QED
        BY <2>2, <2>3, <4>1 DEF Covered
    <3> QED
      BY <3>1, <3>2
  <2> QED
    BY <1>o, <2>1, <2>2, <2>5 DEF Covered
<1>13. ASSUME NEW l \in Loops, LoopStep(l)
       PROVE  Covered'
  <2>1. ASSUME NEW c \in Fds, Accepts(l, c)
        PROVE  Covered'
    <3>1. Live(l) /\ loop' = AllAt({l}, "test")
      BY <2>1 DEF Accepts, Accepting, CallsAccept, AcceptsAgain, Live
    <3>2. \A n \in Fds : kind[n] = "client" => kind'[n] = "client"
      BY <2>1 DEF Accepts, TypeOK
    <3> QED
      BY <1>11, <2>1, <3>1, <3>2 DEF Accepts
  <2> QED
    BY <1>10, <1>11, <1>12, <1>13, <2>1, LoopStepCases DEF Moves
<1>14. ASSUME NEW c \in Fds, HandleClient(c)
       PROVE  Covered'
  <2>1. \A l \in Loops : At(l)' = At(l) /\ (Live(l)' <=> Live(l))
    BY <1>14 DEF HandleClient, At, Live
  <2>2. \A m \in Fds : closing'[m] = IF m = c THEN "cancel" ELSE closing[m]
    BY <1>14 DEF HandleClient, TypeOK
  <2>3. \A m \in Fds : CancelToCome(m) => CancelToCome(m)'
    BY <1>14, <2>2 DEF HandleClient, CancelToCome
  <2>4. \A k \in Loops : k[2] \in Fds
    BY DEF Loops
  <2> QED
    BY <1>14, <1>o, <2>1, <2>3, <2>4, CoveredSame DEF HandleClient
<1>15. CASE \/ \E c \in Fds, b \in BOOLEAN : Fcntl(c, b) \/ Ioctl(c, b)
            \/ \E n \in Fds : PeerConnects(n)
            \/ UNCHANGED vars
  <2>1. UNCHANGED <<kind, closing, serverVars, loopVars>>
    BY <1>15 DEF Fcntl, Ioctl, PeerConnects
  <2>2. \A l \in Loops : At(l)' = At(l) /\ (Live(l)' <=> Live(l))
    BY <2>1 DEF At, Live
  <2>3. \A n : CancelToCome(n) => CancelToCome(n)'
    BY <2>1 DEF CancelToCome
  <2> QED
    BY <1>o, <2>1, <2>2, <2>3, CoveredSame
<1> QED
  BY <1>1, <1>2, <1>3, <1>4, <1>5, <1>6, <1>7, <1>8, <1>9, <1>13, <1>14, <1>15,
     ServerAssumption
     DEF Next, Owner, ClosingAll, CloseStep, Handlers, ServerAssumption

LEMMA CoveredHolds == ~Overlap => (Spec => []Covered)
<1> SUFFICES ASSUME ~Overlap PROVE Spec => []Covered
  OBVIOUS
<1>1. Init => Covered
  BY DEF Init, Covered, Live, At, Loops
<1>2. TypeOK /\ NoLeakedListener /\ Sockets /\ OneRun /\ Covered
        /\ [Next]_vars => Covered'
  BY CoveredNext
<1>3. ListenersConsistent => NoLeakedListener
  BY DEF ListenersConsistent
<1> QED
  BY <1>1, <1>2, <1>3, SocketsHold, OneRunHolds, ListenersConsistentCorrect,
     PTL DEF Spec

(***************************************************************************)
(* Accept loops and listening sockets belong together: each socket of a    *)
(* running server has one loop that accepts on it, no socket has two, and  *)
(* when stop() leaves a loop behind, it is one that registered between     *)
(* cancelAll and close_f.                                                  *)
(***************************************************************************)
THEOREM LoopsMatchListenersCorrect ==
  ~Overlap => (Spec => []LoopsMatchListeners)
<1> SUFFICES ASSUME ~Overlap PROVE Spec => []LoopsMatchListeners
  OBVIOUS
<1>1. ASSUME NoLeakedListener, Covered
      PROVE  LoopsCovered
  <2>1. ASSUME NEW n \in Fds, ~m_isStop, kind[n] = "listen", closing[n] = "no"
        PROVE  Holders(n) # {}
    <3>1. n \in m_socks \/ Holders(n) # {}
      BY <1>1, <2>1 DEF NoLeakedListener
    <3>2. n \in m_socks => \E l \in open : l[2] = n /\ Live(l)
      BY <1>1, <2>1 DEF Covered
    <3> QED
      BY <3>1, <3>2 DEF Holders
  <2> QED
    BY <1>1, <2>1 DEF LoopsCovered, Covered
<1>2. ListenersConsistent => NoLeakedListener
  BY DEF ListenersConsistent
<1>3. OneLoopPerSocket /\ LoopsCovered => LoopsMatchListeners
  BY DEF LoopsMatchListeners
<1> QED
  BY <1>1, <1>2, <1>3, OneLoopAtMost, CoveredHolds, ListenersConsistentCorrect,
     PTL

(***************************************************************************)
(* No accept loop of a running server repeats an accept() that fails for a *)
(* closed socket: nothing closes the sockets of a running server, and its  *)
(* loops hold them. Whether a number is left is up to the process.         *)
(***************************************************************************)
THEOREM NoLoopSpinsCorrect == ~Overlap => (Spec => []NoLoopSpins)
<1> SUFFICES ASSUME ~Overlap PROVE Spec => []NoLoopSpins
  OBVIOUS
<1>1. ASSUME TypeOK, Sockets, ContextWhileOpen, OneRun, Covered,
             NEW l \in Loops, ~m_isStop, At(l) \in OnThread
      PROVE  l \in open /\ kind[l[2]] = "listen" /\ m_datas[l[2]] # None
  <2>1. Live(l)
    BY <1>1 DEF Live, OnThread
  <2>2. l \in open /\ busy = "no" /\ l[2] \in Fds
    BY <1>1, <2>1 DEF OneRun, Loops
  <2>3. l[2] \in m_socks
    BY <1>1, <2>1, <2>2 DEF Covered
  <2>4. kind[l[2]] = "listen" /\ closing[l[2]] = "no"
    BY <1>1, <2>2, <2>3 DEF Sockets
  <2> QED
    BY <1>1, <2>2, <2>4 DEF ContextWhileOpen
<1>2. TypeOK /\ Sockets /\ ContextWhileOpen /\ OneRun /\ Covered => NoLoopSpins
  BY <1>1 DEF NoLoopSpins
<1> QED
  BY <1>2, SocketsHold, ContextsHold, OneRunHolds, CoveredHolds, PTL
=============================================================================
