-------------------------- MODULE ConnQueueProofs --------------------------
(***************************************************************************)
(* The ring buffer of proxy.c is a bounded first-in first-out queue, for   *)
(* every capacity, set of threads and set of descriptors.  The invariant   *)
(* says where the free slot is and that a descriptor is in one place; the  *)
(* refinement of ConnFifo then takes one step per action of ConnQueue.     *)
(***************************************************************************)
EXTENDS ConnQueue, Integers, SequenceTheorems, FiniteSetTheorems, TLAPS

(* What a pusher brings and a popper holds, by control point.              *)
HandsInv ==
  /\ \A t \in Pusher : fd[t] = NoConn <=> pc[t] = "out"
  /\ \A t \in Popper : pc[t] # "out" => fd[t] = NoConn

(* The queued descriptors are pairwise different and in nobody's hands, and *)
(* no two threads have the same one.                                       *)
PlacesInv ==
  /\ \A i \in 0..(size - 1) : Entry(i) \in Conn
  /\ \A i, j \in 0..(size - 1) : Entry(i) = Entry(j) => i = j
  /\ \A i \in 0..(size - 1), t \in Thread : Entry(i) # fd[t]
  /\ \A t, u \in Thread : fd[t] = fd[u] /\ fd[t] # NoConn => t = u

IInv ==
  /\ TypeOK
  /\ rear = (front + size) % Cap
  /\ HandsInv
  /\ PlacesInv
-----------------------------------------------------------------------------
(* Positions of the ring: at most one round is made.                       *)
LEMMA ModCap ==
  ASSUME NEW a \in Nat, a < Cap + Cap
  PROVE  a % Cap = IF a < Cap THEN a ELSE a - Cap
<1>1. Cap \in Nat \ {0}
  BY CapAssumption
<1>2. ASSUME a < Cap PROVE a % Cap = a
  BY <1>1, <1>2
<1>3. ASSUME a >= Cap, a < Cap + Cap PROVE a % Cap = a - Cap
  BY <1>1, <1>3
<1> QED
  BY <1>1, <1>2, <1>3

(* The slot of position i when the front is f.                             *)
Pos(f, i) == (f + i) % Cap

LEMMA PosValue ==
  ASSUME NEW f \in Index, NEW i \in 0..Cap
  PROVE  /\ Pos(f, i) = IF f + i < Cap THEN f + i ELSE f + i - Cap
         /\ Pos(f, i) \in Index
<1> DEFINE a == f + i
<1>1. a \in Nat /\ a < Cap + Cap
  BY CapAssumption DEF Index
<1> HIDE DEF a
<1>2. a % Cap = IF a < Cap THEN a ELSE a - Cap
  BY <1>1, ModCap
<1>3. Pos(f, i) = IF f + i < Cap THEN f + i ELSE f + i - Cap
  BY <1>1, <1>2, CapAssumption DEF Pos, a, Index
<1> QED
  BY <1>3, CapAssumption DEF Index

(* Different positions are different slots, unless a whole round apart.    *)
LEMMA PosInjective ==
  ASSUME NEW f \in Index, NEW i \in 0..Cap, NEW j \in 0..Cap, i < j, j < i + Cap
  PROVE  Pos(f, i) # Pos(f, j)
<1>1. /\ Pos(f, i) = IF f + i < Cap THEN f + i ELSE f + i - Cap
      /\ Pos(f, j) = IF f + j < Cap THEN f + j ELSE f + j - Cap
  BY PosValue
<1> QED
  BY <1>1, CapAssumption DEF Index

(* After a pop each entry is one position nearer to the front.             *)
LEMMA PosAdvance ==
  ASSUME NEW f \in Index, NEW i \in 0..(Cap - 1)
  PROVE  /\ Pos(f, 1) \in Index
         /\ Pos(Pos(f, 1), i) = Pos(f, i + 1)
<1>1. Pos(f, 1) \in Index /\ Pos(f, 1) = IF f + 1 < Cap THEN f + 1 ELSE f + 1 - Cap
  BY PosValue, CapAssumption
<1>2. Pos(Pos(f, 1), i) = IF Pos(f, 1) + i < Cap THEN Pos(f, 1) + i ELSE Pos(f, 1) + i - Cap
  BY <1>1, PosValue, CapAssumption
<1>3. Pos(f, i + 1) = IF f + (i + 1) < Cap THEN f + (i + 1) ELSE f + (i + 1) - Cap
  BY PosValue, CapAssumption
<1> QED
  BY <1>1, <1>2, <1>3, CapAssumption DEF Index

(* The front entry is at position 0, the free slot at position size.       *)
LEMMA RingView ==
  ASSUME TypeOK, rear = (front + size) % Cap
  PROVE  /\ front % Cap = Pos(front, 0)
         /\ rear % Cap = Pos(front, size) /\ rear = Pos(front, size)
         /\ \A i : Entry(i) = buf[Pos(front, i)]
         /\ Pos(front, 0) = front
<1>1. front \in Index /\ size \in 0..Cap /\ rear \in Index
  BY DEF TypeOK
<1>2. front % Cap = front /\ rear % Cap = rear
  BY <1>1, ModCap, CapAssumption DEF Index
<1>3. Pos(front, 0) = front
  BY <1>1, PosValue, CapAssumption DEF Index
<1> QED
  BY <1>2, <1>3 DEF Pos, Entry
-----------------------------------------------------------------------------
(* What a push and a pop do to the entries.                                *)
LEMMA PushEffect ==
  ASSUME IInv, NEW t \in Pusher, PushDone(t)
  PROVE  /\ size' = size + 1 /\ size' \in 0..Cap /\ rear' \in Index /\ front' = front
         /\ rear' = Pos(front, size + 1)
         /\ buf' \in [Index -> Conn \cup {NoConn}]
         /\ \A i \in 0..size : Entry(i)' = IF i = size THEN fd[t] ELSE Entry(i)
<1>1. /\ front \in Index /\ size \in 0..Cap /\ size < Cap
      /\ buf \in [Index -> Conn \cup {NoConn}] /\ fd[t] \in Conn \cup {NoConn}
  BY DEF IInv, TypeOK, PushDone, Thread
<1>2. /\ rear % Cap = Pos(front, size) /\ rear = Pos(front, size)
      /\ \A i : Entry(i) = buf[Pos(front, i)]
  BY RingView DEF IInv
<1>3. buf' = [buf EXCEPT ![Pos(front, size)] = fd[t]] /\ front' = front /\ size' = size + 1
  BY <1>2 DEF PushDone
<1>4. \A i : Entry(i)' = buf'[Pos(front, i)]
  BY <1>3 DEF Entry, Pos
<1>5. Pos(front, size) \in Index
  BY <1>1, PosValue
<1>6. ASSUME NEW i \in 0..(size - 1) PROVE Entry(i)' = Entry(i)
  <2>1. Pos(front, i) # Pos(front, size) /\ Pos(front, i) \in Index
    BY <1>1, PosInjective, PosValue, CapAssumption
  <2> QED
    BY <1>1, <1>2, <1>3, <1>4, <2>1
<1>7. rear' = Pos(front, size + 1) /\ rear' \in Index
  <2>1. rear' = Pos(rear, 1) /\ rear \in Index
    BY <1>1, <1>2, <1>5 DEF PushDone, Pos
  <2>2. Pos(rear, 1) = IF rear + 1 < Cap THEN rear + 1 ELSE rear + 1 - Cap
    BY <2>1, PosValue, CapAssumption
  <2>3. Pos(front, size + 1) = IF front + (size + 1) < Cap THEN front + (size + 1)
                               ELSE front + (size + 1) - Cap
    BY <1>1, PosValue, CapAssumption
  <2>4. rear = IF front + size < Cap THEN front + size ELSE front + size - Cap
    BY <1>1, <1>2, PosValue
  <2> QED
    BY <1>1, <2>1, <2>2, <2>3, <2>4, CapAssumption DEF Index
<1>8. size' \in 0..Cap
  BY <1>1, <1>3, CapAssumption
<1>9. ASSUME NEW i \in 0..size, i = size PROVE Entry(i)' = fd[t]
  BY <1>1, <1>3, <1>4, <1>5, <1>9
<1>10. \A i \in 0..size : i = size \/ i \in 0..(size - 1)
  BY <1>1
<1> QED
  BY <1>1, <1>3, <1>6, <1>7, <1>8, <1>9, <1>10

LEMMA TakeEffect ==
  ASSUME IInv, NEW t \in Popper, Take(t)
  PROVE  /\ size > 0 /\ size' = size - 1 /\ size' \in 0..Cap /\ front' \in Index
         /\ rear = Pos(front', size')
         /\ fd' = [fd EXCEPT ![t] = Entry(0)]
         /\ \A i \in 0..(size - 2) : Entry(i)' = Entry(i + 1)
<1>1. front \in Index /\ size \in 1..Cap /\ Cap \in Nat \ {0}
  BY CapAssumption DEF IInv, TypeOK, Take
<1>2. /\ front % Cap = Pos(front, 0) /\ rear = Pos(front, size)
      /\ \A i : Entry(i) = buf[Pos(front, i)]
  BY RingView DEF IInv
<1>3. front' = Pos(front, 1) /\ buf' = buf /\ size' = size - 1
  BY DEF Take, Pos
<1>4. \A i : Entry(i)' = buf[Pos(front', i)]
  BY <1>3 DEF Entry, Pos
<1>5. ASSUME NEW i \in 0..(size - 1)
      PROVE  Pos(front, 1) \in Index /\ Pos(front', i) = Pos(front, i + 1)
  BY <1>1, <1>3, PosAdvance
<1>6. rear = Pos(front', size') /\ front' \in Index
  BY <1>1, <1>2, <1>3, <1>5
<1>7. fd' = [fd EXCEPT ![t] = Entry(0)]
  BY <1>2 DEF Take
<1>8. ASSUME NEW i \in 0..(size - 2) PROVE Entry(i)' = Entry(i + 1)
  BY <1>1, <1>2, <1>4, <1>5
<1> QED
  BY <1>1, <1>3, <1>6, <1>7, <1>8
-----------------------------------------------------------------------------
LEMMA InitInv == Init => IInv
<1> SUFFICES ASSUME Init PROVE IInv
  OBVIOUS
<1>1. TypeOK
  BY CapAssumption DEF Init, queue_init, TypeOK, Index, Thread
<1>2. rear = (front + size) % Cap
  <2>1. Pos(0, 0) = 0
    BY PosValue, CapAssumption DEF Index
  <2> QED
    BY <2>1 DEF Init, queue_init, Pos
<1>3. HandsInv
  BY DEF Init, HandsInv, Thread
<1>4. PlacesInv
  BY DEF Init, queue_init, PlacesInv, Thread
<1> QED
  BY <1>1, <1>2, <1>3, <1>4 DEF IInv

(* A step that only moves control points and wakes threads.                *)
LEMMA CallPushInv == ASSUME IInv, NEW t \in Pusher, NEW c \in Conn, CallPush(t, c) PROVE IInv'
<1>1. UNCHANGED ring /\ \A i : Entry(i)' = Entry(i)
  BY DEF CallPush, ring, Entry
<1>2. /\ t \in Thread /\ t \notin Popper
      /\ fd' = [fd EXCEPT ![t] = c] /\ pc' = [pc EXCEPT ![t] = "testing"]
      /\ c # NoConn
  BY ThreadAssumption, NoConnAssumption DEF CallPush, Thread
<1>3. TypeOK'
  BY <1>1, <1>2 DEF IInv, TypeOK, ring
<1>4. HandsInv'
  BY <1>2 DEF IInv, HandsInv, TypeOK, Thread
<1>5. PlacesInv'
  <2>1. /\ \A i \in 0..(size - 1) : Entry(i) # c
        /\ \A u \in Thread : fd[u] # c
    BY <1>2 DEF CallPush, Queued, Held
  <2>2. \A u \in Thread : fd'[u] = IF u = t THEN c ELSE fd[u]
    BY <1>2 DEF IInv, TypeOK
  <2> QED
    BY <1>1, <2>1, <2>2 DEF IInv, PlacesInv, ring
<1> QED
  BY <1>1, <1>3, <1>4, <1>5 DEF IInv, ring

LEMMA CallPopInv == ASSUME IInv, NEW t \in Popper, CallPop(t) PROVE IInv'
<1>1. UNCHANGED ring /\ \A i : Entry(i)' = Entry(i)
  BY DEF CallPop, ring, Entry
<1>2. /\ t \in Thread /\ t \notin Pusher
      /\ fd' = [fd EXCEPT ![t] = NoConn] /\ pc' = [pc EXCEPT ![t] = "testing"]
  BY ThreadAssumption DEF CallPop, Thread
<1>3. TypeOK'
  BY <1>1, <1>2 DEF IInv, TypeOK, ring
<1>4. HandsInv'
  BY <1>2 DEF IInv, HandsInv, TypeOK, Thread
<1>5. PlacesInv'
  <2>1. \A i \in 0..(size - 1) : Entry(i) # NoConn
    BY NoConnAssumption DEF IInv, PlacesInv
  <2>2. \A u \in Thread : fd'[u] = IF u = t THEN NoConn ELSE fd[u]
    BY <1>2 DEF IInv, TypeOK
  <2> QED
    BY <1>1, <2>1, <2>2 DEF IInv, PlacesInv, ring
<1> QED
  BY <1>1, <1>3, <1>4, <1>5 DEF IInv, ring

(* PushWaits, PopWaits, SpuriousWakeup: between testing and waiting.       *)
LEMMA PcOnlyInv ==
  ASSUME IInv, NEW t \in Thread, pc[t] # "out", NEW l \in {"testing", "waiting"},
         pc' = [pc EXCEPT ![t] = l], UNCHANGED <<ring, fd>>
  PROVE  IInv'
<1>1. \A i : Entry(i)' = Entry(i)
  BY DEF ring, Entry
<1>2. TypeOK'
  BY DEF IInv, TypeOK, ring
<1>3. \A u \in Thread : pc'[u] # "out" <=> pc[u] # "out"
  BY DEF IInv, TypeOK
<1>4. HandsInv'
  BY <1>3 DEF IInv, HandsInv, Thread
<1>5. PlacesInv'
  BY <1>1 DEF IInv, PlacesInv, ring
<1> QED
  BY <1>2, <1>4, <1>5 DEF IInv, ring

LEMMA PushDoneInv == ASSUME IInv, NEW t \in Pusher, PushDone(t) PROVE IInv'
<1>1. /\ t \in Thread /\ t \notin Popper
      /\ fd' = [fd EXCEPT ![t] = NoConn] /\ pc' = [Woken EXCEPT ![t] = "out"]
      /\ fd[t] # NoConn /\ fd[t] \in Conn
  BY ThreadAssumption DEF PushDone, Thread, IInv, HandsInv, TypeOK
<1>2. \A u \in Thread : pc'[u] = IF u = t THEN "out"
                                 ELSE IF pc[u] = "waiting" THEN "testing" ELSE pc[u]
  BY <1>1 DEF Woken
<1>3. \A u \in Thread : fd'[u] = IF u = t THEN NoConn ELSE fd[u]
  BY <1>1 DEF IInv, TypeOK
<1>4. TypeOK'
  <2>1. pc' \in [Thread -> {"out", "testing", "waiting"}]
    BY <1>1 DEF Woken, IInv, TypeOK
  <2>2. fd' \in [Thread -> Conn \cup {NoConn}]
    BY <1>1 DEF IInv, TypeOK
  <2> QED
    BY <2>1, <2>2, PushEffect DEF IInv, TypeOK
<1>5. HandsInv'
  BY <1>1, <1>2, <1>3 DEF IInv, HandsInv, Thread, TypeOK
<1>6. PlacesInv'
  <2>1. size \in Nat /\ size' = size + 1
    BY PushEffect DEF IInv, TypeOK
  <2>2. \A i \in 0..size : Entry(i)' = IF i = size THEN fd[t] ELSE Entry(i)
    BY PushEffect
  <2>3. (0..(size - 1))' = 0..size
    BY <2>1
  <2>4. /\ \A i \in 0..(size - 1) : Entry(i) \in Conn
        /\ \A i, j \in 0..(size - 1) : Entry(i) = Entry(j) => i = j
        /\ \A i \in 0..(size - 1), u \in Thread : Entry(i) # fd[u]
        /\ \A u, w \in Thread : fd[u] = fd[w] /\ fd[u] # NoConn => u = w
    BY DEF IInv, PlacesInv
  <2>5. \A i \in 0..size : i = size \/ i \in 0..(size - 1)
    BY <2>1
  <2>6. \A i \in 0..size : Entry(i)' \in Conn
    BY <1>1, <2>2, <2>4, <2>5
  <2>7. \A i, j \in 0..size : Entry(i)' = Entry(j)' => i = j
    BY <1>1, <2>2, <2>4, <2>5
  <2>8. \A i \in 0..size, u \in Thread : Entry(i)' # fd'[u]
    BY <1>1, <1>3, <2>2, <2>4, <2>5, NoConnAssumption
  <2>9. \A u, w \in Thread : fd'[u] = fd'[w] /\ fd'[u] # NoConn => u = w
    BY <1>3, <2>4
  <2> QED
    BY <2>3, <2>6, <2>7, <2>8, <2>9 DEF PlacesInv
<1>7. rear' = (front' + size') % Cap
  BY PushEffect DEF Pos
<1> QED
  BY <1>4, <1>5, <1>6, <1>7 DEF IInv

LEMMA PopDoneInv == ASSUME IInv, NEW t \in Popper, PopDone(t) PROVE IInv'
<1>1. /\ t \in Thread /\ t \notin Pusher /\ Take(t)
      /\ pc' = [Woken EXCEPT ![t] = "out"] /\ fd[t] = NoConn
  BY ThreadAssumption DEF PopDone, Take, Thread, IInv, HandsInv
<1>2. \A u \in Thread : pc'[u] = IF u = t THEN "out"
                                 ELSE IF pc[u] = "waiting" THEN "testing" ELSE pc[u]
  BY <1>1 DEF Woken
<1>3. /\ size \in Nat /\ size > 0 /\ size' = size - 1 /\ fd' = [fd EXCEPT ![t] = Entry(0)]
      /\ \A i \in 0..(size - 2) : Entry(i)' = Entry(i + 1)
      /\ size' \in 0..Cap /\ front' \in Index /\ rear = Pos(front', size')
  BY <1>1, TakeEffect DEF IInv, TypeOK
<1>4. \A u \in Thread : fd'[u] = IF u = t THEN Entry(0) ELSE fd[u]
  BY <1>3 DEF IInv, TypeOK
<1>5. /\ \A i \in 0..(size - 1) : Entry(i) \in Conn
      /\ \A i, j \in 0..(size - 1) : Entry(i) = Entry(j) => i = j
      /\ \A i \in 0..(size - 1), u \in Thread : Entry(i) # fd[u]
      /\ \A u, w \in Thread : fd[u] = fd[w] /\ fd[u] # NoConn => u = w
  BY DEF IInv, PlacesInv
<1>6. 0 \in 0..(size - 1) /\ Entry(0) \in Conn
  BY <1>3, <1>5
<1>7. TypeOK'
  <2>1. pc' \in [Thread -> {"out", "testing", "waiting"}]
    BY <1>1 DEF Woken, IInv, TypeOK
  <2>2. fd' \in [Thread -> Conn \cup {NoConn}]
    BY <1>3, <1>6 DEF IInv, TypeOK
  <2>3. buf' = buf /\ rear' = rear
    BY <1>1 DEF Take
  <2> QED
    BY <2>1, <2>2, <2>3, <1>3 DEF IInv, TypeOK
<1>8. HandsInv'
  BY <1>1, <1>2, <1>4 DEF IInv, HandsInv, Thread
<1>9. PlacesInv'
  <2>1. (0..(size - 1))' = 0..(size - 2)
    BY <1>3
  <2>2. \A i \in 0..(size - 2) : i + 1 \in 0..(size - 1) /\ i + 1 # 0
    BY <1>3
  <2>3. \A i \in 0..(size - 2) : Entry(i)' \in Conn
    BY <1>3, <1>5, <2>2
  <2>4. \A i, j \in 0..(size - 2) : Entry(i)' = Entry(j)' => i = j
    <3> SUFFICES ASSUME NEW i \in 0..(size - 2), NEW j \in 0..(size - 2), Entry(i)' = Entry(j)'
                 PROVE  i = j
      OBVIOUS
    <3>1. Entry(i + 1) = Entry(j + 1)
      BY <1>3
    <3>2. i + 1 = j + 1
      BY <3>1, <2>2, <1>5
    <3> QED
      BY <3>2, <1>3
  <2>5. \A i \in 0..(size - 2), u \in Thread : Entry(i)' # fd'[u]
    BY <1>3, <1>4, <1>5, <1>6, <2>2
  <2>6. \A u, w \in Thread : fd'[u] = fd'[w] /\ fd'[u] # NoConn => u = w
    BY <1>4, <1>5, <1>6
  <2> QED
    BY <2>1, <2>3, <2>4, <2>5, <2>6 DEF PlacesInv
<1>10. rear' = (front' + size') % Cap
  BY <1>1, <1>3 DEF Pos, Take
<1> QED
  BY <1>7, <1>8, <1>9, <1>10 DEF IInv

LEMMA NextInv == IInv /\ [Next]_vars => IInv'
<1> SUFFICES ASSUME IInv, [Next]_vars PROVE IInv'
  OBVIOUS
<1>1. ASSUME NEW t \in Pusher, PushWaits(t) PROVE IInv'
  BY <1>1, PcOnlyInv DEF PushWaits, Thread
<1>2. ASSUME NEW t \in Pusher, PushDone(t) PROVE IInv'
  BY <1>2, PushDoneInv
<1>3. ASSUME NEW t \in Pusher, NEW c \in Conn, CallPush(t, c) PROVE IInv'
  BY <1>3, CallPushInv
<1>4. ASSUME NEW t \in Popper, PopWaits(t) PROVE IInv'
  BY <1>4, PcOnlyInv DEF PopWaits, Thread
<1>5. ASSUME NEW t \in Popper, PopDone(t) PROVE IInv'
  BY <1>5, PopDoneInv
<1>6. ASSUME NEW t \in Popper, CallPop(t) PROVE IInv'
  BY <1>6, CallPopInv
<1>7. ASSUME NEW t \in Thread, SpuriousWakeup(t) PROVE IInv'
  BY <1>7, PcOnlyInv DEF SpuriousWakeup
<1>8. CASE UNCHANGED vars
  <2>1. UNCHANGED <<buf, front, rear, size, pc, fd>> /\ \A i : Entry(i)' = Entry(i)
    BY <1>8 DEF vars, ring, Entry
  <2> QED
    BY <2>1 DEF IInv, TypeOK, HandsInv, PlacesInv
<1> QED
  BY <1>1, <1>2, <1>3, <1>4, <1>5, <1>6, <1>7, <1>8 DEF Next

THEOREM Invariance == Spec => []IInv
BY InitInv, NextInv, PTL DEF Spec

(* The indices stay in the ring and the size within the capacity.          *)
THEOREM TypeCorrect == Spec => []TypeOK
<1>1. IInv => TypeOK
  BY DEF IInv
<1> QED
  BY <1>1, Invariance, PTL

(* A connection is queued once or in one thread's hands: no two workers    *)
(* serve one client, and none is lost from the ring.                       *)
THEOREM OwnersUnique == Spec => []OneOwner
<1>1. ASSUME IInv PROVE Cardinality(Queued) = size
  <2> DEFINE f == [i \in 0..(size - 1) |-> Entry(i)]
  <2>1. size \in Nat
    BY <1>1, CapAssumption DEF IInv, TypeOK
  <2>2. f \in Surjection(0..(size - 1), Queued) /\ f \in Injection(0..(size - 1), Queued)
    BY <1>1 DEF Surjection, Injection, IsInjective, Queued, IInv, PlacesInv
  <2>3. IsFiniteSet(0..(size - 1)) /\ Cardinality(0..(size - 1)) = size
    BY <2>1, FS_Interval
  <2> QED
    BY <2>2, <2>3, FS_Surjection
<1>2. IInv => OneOwner
  BY <1>1, NoConnAssumption DEF IInv, PlacesInv, OneOwner, Queued, Held
<1> QED
  BY <1>2, Invariance, PTL
-----------------------------------------------------------------------------
(* The refinement of ConnFifo.                                             *)
Fifo    == [i \in 1..size |-> Entry(i - 1)]
Serving == [t \in Popper |-> fd[t]]

LEMMA FifoSeq ==
  ASSUME IInv
  PROVE  Fifo \in Seq(Conn) /\ Len(Fifo) = size /\ DOMAIN Fifo = 1..size
<1>1. size \in Nat /\ \A i \in 1..size : Entry(i - 1) \in Conn
  <2>1. size \in Nat
    BY CapAssumption DEF IInv, TypeOK
  <2>2. \A i \in 1..size : i - 1 \in 0..(size - 1)
    BY <2>1
  <2> QED
    BY <2>1, <2>2 DEF IInv, PlacesInv
<1>2. Fifo \in [1..size -> Conn]
  BY <1>1 DEF Fifo
<1> QED
  BY <1>1, <1>2 DEF Fifo

LEMMA RefinesPush ==
  ASSUME IInv, IInv', NEW t \in Pusher, PushDone(t)
  PROVE  fd[t] \in Conn /\ Abstract!Push(fd[t])
<1>1. /\ fd[t] \in Conn /\ fd[t] # NoConn /\ t \in Thread /\ t \notin Popper
      /\ fd' = [fd EXCEPT ![t] = NoConn] /\ size < Cap
  BY ThreadAssumption DEF PushDone, Thread, IInv, HandsInv, TypeOK
<1>2. /\ size \in Nat /\ size' = size + 1
      /\ \A i \in 0..size : Entry(i)' = IF i = size THEN fd[t] ELSE Entry(i)
  BY PushEffect DEF IInv, TypeOK
<1>3. Len(Fifo) < Cap
  BY <1>1, FifoSeq
<1>4. \A i \in 1..Len(Fifo) : Fifo[i] # fd[t]
  <2>1. \A i \in 1..size : i - 1 \in 0..(size - 1)
    BY <1>2
  <2> QED
    BY <1>1, <2>1, FifoSeq DEF Fifo, IInv, PlacesInv
<1>5. \A u \in Popper : Serving[u] # fd[t]
  BY <1>1 DEF Serving, IInv, PlacesInv, Thread
<1>6. Serving' = Serving
  BY <1>1 DEF Serving, IInv, TypeOK, Thread
<1>7. Fifo' = Append(Fifo, fd[t])
  <2>1. \A i \in 1..(size + 1) : Entry(i - 1)' = IF i = size + 1 THEN fd[t] ELSE Fifo[i]
    <3>1. \A i \in 1..(size + 1) : i - 1 \in 0..size /\ (i - 1 = size <=> i = size + 1)
      BY <1>2
    <3>2. \A i \in 1..(size + 1) : i # size + 1 => Fifo[i] = Entry(i - 1)
      BY <1>2 DEF Fifo
    <3> QED
      BY <1>2, <3>1, <3>2
  <2>2. Fifo' = [i \in 1..(size + 1) |-> IF i = size + 1 THEN fd[t] ELSE Fifo[i]]
    BY <1>2, <2>1 DEF Fifo
  <2>3. Append(Fifo, fd[t]) = [i \in 1..(size + 1) |-> IF i = size + 1 THEN fd[t] ELSE Fifo[i]]
    BY <1>1, <1>2, FifoSeq
  <2> QED
    BY <2>2, <2>3
<1> QED
  BY <1>1, <1>3, <1>4, <1>5, <1>6, <1>7 DEF Abstract!Push, Fifo, Serving

LEMMA RefinesPop ==
  ASSUME IInv, NEW t \in Popper, PopDone(t)
  PROVE  Abstract!Pop(t)
<1>1. /\ size \in Nat /\ size > 0 /\ size' = size - 1 /\ fd' = [fd EXCEPT ![t] = Entry(0)]
      /\ \A i \in 0..(size - 2) : Entry(i)' = Entry(i + 1)
  BY TakeEffect DEF PopDone, IInv, TypeOK
<1>2. Fifo \in Seq(Conn) /\ Len(Fifo) = size /\ DOMAIN Fifo = 1..size
  BY FifoSeq
<1>3. Fifo # <<>> /\ Head(Fifo) = Entry(0)
  BY <1>1, <1>2 DEF Fifo
<1>4. Fifo' = Tail(Fifo)
  <2>1. \A i \in 1..(size - 1) : Entry(i - 1)' = Fifo[i + 1]
    <3>1. \A i \in 1..(size - 1) : /\ i - 1 \in 0..(size - 2) /\ (i - 1) + 1 = i
                                   /\ i + 1 \in 1..size /\ (i + 1) - 1 = i
      BY <1>1
    <3> QED
      BY <1>1, <3>1 DEF Fifo
  <2>2. Fifo' = [i \in 1..(size - 1) |-> Fifo[i + 1]]
    BY <1>1, <2>1 DEF Fifo
  <2>3. Tail(Fifo) = [i \in 1..(size - 1) |-> Fifo[i + 1]]
    <3>1. Tail(Fifo) \in Seq(Conn) /\ Len(Tail(Fifo)) = size - 1
      BY <1>1, <1>2, <1>3
    <3>2. \A i \in 1..(size - 1) : Tail(Fifo)[i] = Fifo[i + 1]
      BY <1>1, <1>2, <1>3
    <3>3. Tail(Fifo) \in [1..(size - 1) -> Conn]
      BY <3>1, LenProperties
    <3> QED
      BY <3>2, <3>3
  <2> QED
    BY <2>2, <2>3
<1>5. Serving' = [Serving EXCEPT ![t] = Head(Fifo)]
  BY <1>1, <1>3 DEF Serving, IInv, TypeOK, Thread
<1> QED
  BY <1>3, <1>4, <1>5 DEF Abstract!Pop, Fifo, Serving

(* Steps that leave the ring and what the poppers hold as they are.        *)
LEMMA RefinesStutter ==
  ASSUME IInv, UNCHANGED ring, \A u \in Popper : fd'[u] = fd[u]
  PROVE  UNCHANGED Abstract!vars
<1>1. Fifo' = Fifo
  BY DEF ring, Entry, Fifo
<1>2. Serving' = Serving
  BY DEF Serving
<1> QED
  BY <1>1, <1>2 DEF Abstract!vars, Fifo, Serving

LEMMA RefinesStep == IInv /\ IInv' /\ [Next]_vars => [Abstract!Next]_(Abstract!vars)
<1> SUFFICES ASSUME IInv, IInv', [Next]_vars PROVE [Abstract!Next]_(Abstract!vars)
  OBVIOUS
<1> USE DEF Thread
<1>1. ASSUME NEW t \in Pusher, PushWaits(t) PROVE UNCHANGED Abstract!vars
  BY <1>1, RefinesStutter DEF PushWaits
<1>2. ASSUME NEW t \in Pusher, PushDone(t) PROVE Abstract!Next
  BY <1>2, RefinesPush DEF Abstract!Next
<1>3. ASSUME NEW t \in Pusher, NEW c \in Conn, CallPush(t, c) PROVE UNCHANGED Abstract!vars
  <2>1. \A u \in Popper : fd'[u] = fd[u]
    BY <1>3, ThreadAssumption DEF CallPush, IInv, TypeOK
  <2> QED
    BY <1>3, <2>1, RefinesStutter DEF CallPush
<1>4. ASSUME NEW t \in Popper, PopWaits(t) PROVE UNCHANGED Abstract!vars
  BY <1>4, RefinesStutter DEF PopWaits
<1>5. ASSUME NEW t \in Popper, PopDone(t) PROVE Abstract!Next
  BY <1>5, RefinesPop DEF Abstract!Next
<1>6. ASSUME NEW t \in Popper, CallPop(t) PROVE Abstract!Next
  <2>1. Fifo' = Fifo
    BY <1>6 DEF CallPop, ring, Entry, Fifo
  <2>2. Serving' = [Serving EXCEPT ![t] = NoConn]
    BY <1>6 DEF CallPop, Serving, IInv, TypeOK
  <2>3. Abstract!Close(t)
    BY <2>1, <2>2 DEF Abstract!Close, Fifo, Serving
  <2> QED
    BY <2>3 DEF Abstract!Next
<1>7. ASSUME NEW t \in Thread, SpuriousWakeup(t) PROVE UNCHANGED Abstract!vars
  BY <1>7, RefinesStutter DEF SpuriousWakeup
<1>8. CASE UNCHANGED vars
  BY <1>8, RefinesStutter DEF vars
<1> QED
  BY <1>1, <1>2, <1>3, <1>4, <1>5, <1>6, <1>7, <1>8 DEF Next

LEMMA RefinesInit == Init => Abstract!Init
<1> SUFFICES ASSUME Init PROVE Abstract!Init
  OBVIOUS
<1>1. size = 0 /\ Fifo = <<>>
  BY DEF Init, queue_init, Fifo
<1>2. Serving = [t \in Popper |-> NoConn]
  BY DEF Init, Serving, Thread
<1> QED
  BY <1>1, <1>2 DEF Abstract!Init, Fifo, Serving

(* queue_push and queue_pop implement a bounded first-in first-out queue   *)
(* whose operations are atomic, for every capacity and number of threads.  *)
THEOREM Refinement == Spec => FifoSpec
BY RefinesInit, RefinesStep, Invariance, PTL DEF Spec, FifoSpec, Abstract!Spec
=============================================================================
