------------------------------ MODULE FdTable ------------------------------
(***************************************************************************)
(* IOManager::m_fdContexts: how addEvent finds or makes the context of a   *)
(* descriptor while other threads make the table grow, and what cancelAll  *)
(* finds afterwards (src/src/iomanager.cc).  FdEvents starts where this    *)
(* ends, with a context for every descriptor.                              *)
(*                                                                         *)
(* A context is the slot's number and the count of those that were in the  *)
(* slot before; a shrinking vector forgets contexts and frees none.        *)
(***************************************************************************)
EXTENDS Integers

CONSTANTS
  Threads,
  MaxFd,      \* descriptors are 0 .. MaxFd
  FirstSize,  \* contextResize(32) of the constructor
  MaxMade,    \* bound of the contexts made for one descriptor
  None

Fds == 0 .. MaxFd

VARIABLES
  size,    \* m_fdContexts.size()
  made,    \* contexts made for each descriptor; the table holds the last
  events,  \* contexts with a registered event
  watched, \* kernel: descriptors in the epoll set
  pc, fd, fd_ctx   \* of each thread

vars == <<size, made, events, watched, pc, fd, fd_ctx>>

Grown(s) == [n \in Fds |-> IF n \in size .. s - 1 THEN made[n] + 1 ELSE made[n]]

Init ==
  /\ size = FirstSize
  /\ made = [n \in Fds |-> IF n < FirstSize THEN 1 ELSE 0]
  /\ events = {} /\ watched = {}
  /\ pc = [t \in Threads |-> "idle"]
  /\ fd = [t \in Threads |-> None]
  /\ fd_ctx = [t \in Threads |-> None]

(* addEvent, under the read lock: the context, or the lock is given up. *)
Lookup(t, n) ==
  /\ pc[t] = "idle"
  /\ fd' = [fd EXCEPT ![t] = n]
  /\ \/ /\ size > n
        /\ fd_ctx' = [fd_ctx EXCEPT ![t] = <<n, made[n]>>]
        /\ pc' = [pc EXCEPT ![t] = "register"]
     \/ /\ size <= n
        /\ pc' = [pc EXCEPT ![t] = "resize"]
        /\ UNCHANGED fd_ctx
  /\ UNCHANGED <<size, made, events, watched>>

(* contextResize(fd * 1.5) under the write lock, whatever the size is now. *)
Resize(t) ==
  LET s == (3 * fd[t]) \div 2
  IN  /\ pc[t] = "resize"
      /\ \A n \in Fds : Grown(s)[n] <= MaxMade
      /\ size' = s
      /\ made' = Grown(s)
      /\ fd_ctx' = [fd_ctx EXCEPT ![t] = <<fd[t], made'[fd[t]]>>]
      /\ pc' = [pc EXCEPT ![t] = "register"]
      /\ UNCHANGED <<events, watched, fd>>

(* EPOLL_CTL_ADD fails when epoll has the descriptor already. *)
Register(t) ==
  /\ pc[t] = "register" /\ fd_ctx[t] \notin events
  /\ pc' = [pc EXCEPT ![t] = "idle"]
  /\ events' = IF fd[t] \in watched THEN events ELSE events \cup {fd_ctx[t]}
  /\ watched' = watched \cup {fd[t]}
  /\ UNCHANGED <<size, made, fd, fd_ctx>>

(* cancelAll, cancelEvent and delEvent find an event in the table's context; *)
(* where they do not, they return false.                                     *)
Found(n) == n < size /\ <<n, made[n]>> \in events

CancelAll(n) ==
  /\ Found(n)
  /\ events' = events \ {<<n, made[n]>>}
  /\ watched' = watched \ {n}
  /\ UNCHANGED <<size, made, pc, fd, fd_ctx>>

Next ==
  \/ \E t \in Threads : \/ Resize(t) \/ Register(t)
                        \/ \E n \in Fds : Lookup(t, n)
  \/ \E n \in Fds : CancelAll(n)

Spec == Init /\ [][Next]_vars

(* "Every registered callback is executed once before the cancel"          *)
(* (iomanager.h:115): cancelAll finds the event of every descriptor that   *)
(* is registered, that is no registered context has left the table.        *)
CancelFindsEvents == \A n \in watched : Found(n)
=============================================================================
