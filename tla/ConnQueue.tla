----------------------------- MODULE ConnQueue -----------------------------
(***************************************************************************)
(* struct queue_t of proxylab-handout/proxy.c: a ring buffer of connected  *)
(* descriptors between the accept loop and the worker threads, guarded by  *)
(* one mutex and one condition variable that pushers and poppers share.    *)
(*                                                                         *)
(* Everything between pthread_mutex_lock and the unlock, or the wait that  *)
(* releases it, is one action.  A thread in pthread_cond_wait has to get   *)
(* the mutex again and test again, whoever woke it; POSIX also lets it     *)
(* wake for no reason.                                                     *)
(***************************************************************************)
EXTENDS Naturals, FiniteSets

CONSTANTS Pusher,    \* threads that push (the accept loop)
          Popper,    \* threads that pop (client_func)
          Conn,      \* descriptors
          Cap,       \* capacity of the ring (9 in main)
          NoConn     \* content of a slot that was never written

ASSUME CapAssumption    == Cap \in Nat \ {0}
ASSUME ThreadAssumption == Pusher \cap Popper = {}
ASSUME NoConnAssumption == NoConn \notin Conn

Thread == Pusher \cup Popper
Index  == 0..(Cap - 1)

VARIABLES
  buf, front, rear, size,   \* the ring buffer
  pc,                       \* where each thread is
  fd                        \* the descriptor it brings or has got

ring == <<buf, front, rear, size>>
vars == <<ring, pc, fd>>

queue_init ==
  /\ buf = [i \in Index |-> NoConn]
  /\ front = 0 /\ rear = 0 /\ size = 0

Init ==
  /\ queue_init
  /\ pc = [t \in Thread |-> "out"]
  /\ fd = [t \in Thread |-> NoConn]

(* pthread_cond_broadcast: every waiter goes back to compete for the mutex.*)
Woken == [t \in Thread |-> IF pc[t] = "waiting" THEN "testing" ELSE pc[t]]

(* Descriptors that are in the program's hands: queued, or held by a thread.*)
Entry(i) == buf[(front + i) % Cap]
Queued   == {Entry(i) : i \in 0..(size - 1)}
Held     == {fd[t] : t \in Thread} \ {NoConn}

(* The caller brings a descriptor the kernel has just handed out.          *)
CallPush(t, c) ==
  /\ t \in Pusher /\ pc[t] = "out" /\ c \notin Queued \cup Held
  /\ fd' = [fd EXCEPT ![t] = c]
  /\ pc' = [pc EXCEPT ![t] = "testing"]
  /\ UNCHANGED ring

CallPop(t) ==
  /\ t \in Popper /\ pc[t] = "out"
  /\ pc' = [pc EXCEPT ![t] = "testing"]
  /\ fd' = [fd EXCEPT ![t] = NoConn]       \* the last one is closed by now
  /\ UNCHANGED ring

(* One round of queue_push's loop: wait while the ring is full.            *)
PushWaits(t) ==
  /\ t \in Pusher /\ pc[t] = "testing" /\ size >= Cap
  /\ pc' = [pc EXCEPT ![t] = "waiting"]
  /\ UNCHANGED <<ring, fd>>

(* Faulty variant: rear is not taken modulo the capacity when it advances. *)
PushDoneWithoutWrap(t) ==
  /\ t \in Pusher /\ pc[t] = "testing" /\ size < Cap
  /\ buf' = [buf EXCEPT ![rear % Cap] = fd[t]]
  /\ size' = size + 1 /\ rear' = rear + 1
  /\ pc' = [Woken EXCEPT ![t] = "out"]
  /\ fd' = [fd EXCEPT ![t] = NoConn]
  /\ UNCHANGED front

PushDone(t) ==
  /\ t \in Pusher /\ pc[t] = "testing" /\ size < Cap
  /\ buf' = [buf EXCEPT ![rear % Cap] = fd[t]]
  /\ size' = size + 1 /\ rear' = (rear + 1) % Cap
  /\ pc' = [Woken EXCEPT ![t] = "out"]
  /\ fd' = [fd EXCEPT ![t] = NoConn]
  /\ UNCHANGED front

PopWaits(t) ==
  /\ t \in Popper /\ pc[t] = "testing" /\ size <= 0
  /\ pc' = [pc EXCEPT ![t] = "waiting"]
  /\ UNCHANGED <<ring, fd>>

(* Faulty variant: the newest connection is taken first.                   *)
TakeNewest(t) ==
  /\ t \in Popper /\ pc[t] = "testing" /\ size > 0
  /\ fd' = [fd EXCEPT ![t] = buf[(front + size - 1) % Cap]]
  /\ size' = size - 1 /\ rear' = (front + size - 1) % Cap
  /\ UNCHANGED <<buf, front>>

Take(t) ==
  /\ t \in Popper /\ pc[t] = "testing" /\ size > 0
  /\ fd' = [fd EXCEPT ![t] = buf[front % Cap]]
  /\ size' = size - 1 /\ front' = (front + 1) % Cap
  /\ UNCHANGED <<buf, rear>>

(* Faulty variant: the test is an "if" and a woken popper does not repeat it. *)
PopDoneUntested(t) ==
  /\ t \in Popper /\ pc[t] = "testing"
  /\ fd' = [fd EXCEPT ![t] = buf[front % Cap]]
  /\ size' = (IF size = 0 THEN 0 ELSE size - 1) /\ front' = (front + 1) % Cap
  /\ UNCHANGED <<buf, rear>>
  /\ pc' = [Woken EXCEPT ![t] = "out"]

(* Faulty variant: a pop wakes nobody.                                     *)
PopDoneSilent(t) == Take(t) /\ pc' = [pc EXCEPT ![t] = "out"]

PopDone(t) == Take(t) /\ pc' = [Woken EXCEPT ![t] = "out"]

SpuriousWakeup(t) ==
  /\ pc[t] = "waiting"
  /\ pc' = [pc EXCEPT ![t] = "testing"]
  /\ UNCHANGED <<ring, fd>>

Next ==
  \/ \E t \in Pusher : PushWaits(t) \/ PushDone(t) \/ \E c \in Conn : CallPush(t, c)
  \/ \E t \in Popper : PopWaits(t) \/ PopDone(t) \/ CallPop(t)
  \/ \E t \in Thread : SpuriousWakeup(t)

Spec == Init /\ [][Next]_vars

(* A thread that wants the mutex gets it in the end, and client_func calls *)
(* queue_pop again after each request.  Nobody is owed a spurious wakeup,  *)
(* nor the arrival of a connection.                                        *)
Fairness ==
  /\ \A t \in Pusher : WF_vars(PushWaits(t) \/ PushDone(t))
  /\ \A t \in Popper : WF_vars(PopWaits(t) \/ PopDone(t)) /\ WF_vars(CallPop(t))

FairSpec == Spec /\ Fairness
-----------------------------------------------------------------------------
TypeOK ==
  /\ buf \in [Index -> Conn \cup {NoConn}]
  /\ front \in Index /\ rear \in Index /\ size \in 0..Cap
  /\ pc \in [Thread -> {"out", "testing", "waiting"}]
  /\ fd \in [Thread -> Conn \cup {NoConn}]

(* The ring's counters agree, and a connection is in one place: it is not  *)
(* queued twice, nor queued and held, nor held by two threads, so no two   *)
(* workers serve one client.                                               *)
OneOwner ==
  /\ rear = (front + size) % Cap /\ Cardinality(Queued) = size
  /\ NoConn \notin Queued
  /\ Queued \cap Held = {}
  /\ \A t, u \in Thread : fd[t] = fd[u] /\ fd[t] # NoConn => t = u

(* The ring is a first-in first-out queue of at most Cap connections, and  *)
(* each pop hands the oldest one to a single thread.                       *)
Abstract == INSTANCE ConnFifo WITH
  fifo    <- [i \in 1..size |-> Entry(i - 1)],
  serving <- [t \in Popper |-> fd[t]]

FifoSpec == Abstract!Spec

(* No push is stuck: the accept loop gets rid of every connection, however *)
(* the wakeups of pushers and poppers mix on the one condition variable.   *)
PushCompletes == \A t \in Pusher : pc[t] # "out" ~> pc[t] = "out"
=============================================================================
