------------------------------ MODULE ConnFifo ------------------------------
(***************************************************************************)
(* What the connection queue of proxy.c promises its callers: a bounded    *)
(* first-in first-out queue whose push and pop each happen at one moment,  *)
(* and a connection that has one owner from its push until it is closed.   *)
(***************************************************************************)
EXTENDS Naturals, Sequences

CONSTANTS Conn,      \* connected descriptors
          Popper,    \* threads that take them
          Cap,       \* capacity
          NoConn     \* what a thread has that serves nobody

VARIABLES fifo,      \* the connections that wait, oldest first
          serving    \* the connection each popper has taken
vars == <<fifo, serving>>

Init == fifo = <<>> /\ serving = [t \in Popper |-> NoConn]

Push(c) ==
  /\ Len(fifo) < Cap
  /\ \A i \in 1..Len(fifo) : fifo[i] # c
  /\ \A t \in Popper : serving[t] # c
  /\ fifo' = Append(fifo, c) /\ UNCHANGED serving

Pop(t) ==
  /\ fifo # <<>>
  /\ serving' = [serving EXCEPT ![t] = Head(fifo)]
  /\ fifo' = Tail(fifo)

Close(t) ==
  /\ serving' = [serving EXCEPT ![t] = NoConn]
  /\ UNCHANGED fifo

Next == (\E c \in Conn : Push(c)) \/ \E t \in Popper : Pop(t) \/ Close(t)

Spec == Init /\ [][Next]_vars
=============================================================================
