-------------------------- MODULE ProxyCacheProofs --------------------------
(***************************************************************************)
(* The readers-writer lock of cache.c and what it protects, for any number *)
(* of threads, entries and urls.  read_cnt and write_cnt count the threads *)
(* that have announced themselves and not left; a writer enters only when  *)
(* both are 0; hence a writer is alone, and the entry it is filling is the *)
(* only one whose url and content may disagree.                            *)
(***************************************************************************)
EXTENDS ProxyCache, Integers, Sequences, SequenceTheorems, FiniteSetTheorems, WellFoundedInduction,
        TLAPS

Label == {"idle", "srcTest", "srcWait", "scan", "srcStamp", "send", "srcLeave", "fetch",
          "addTest", "addWait", "pick", "url", "content", "addStamp", "grow", "addLeave"}

(* Readers that have counted themselves, whether they wait or read.        *)
Announced == {t \in Thread :
                pc[t] \in {"srcTest", "srcWait", "scan", "srcStamp", "send", "srcLeave"}}

LockInv ==
  /\ read_cnt = Cardinality(Announced)
  /\ write_cnt = Cardinality(Writing)
  /\ Exclusion

(* Who wakes a sleeper: the writer inside, the last reader, or a writer    *)
(* that is awake and has not tested yet.                                   *)
WaitInv ==
  /\ \A t \in Thread : pc[t] = "srcWait" => write_cnt > 0
  /\ (\E t \in Thread : pc[t] = "addWait") =>
        write_cnt > 0 \/ read_cnt > 0 \/ \E w \in Thread : pc[w] = "addTest"

(* The entry a thread works on, by control point.                          *)
SlotInv ==
  \A t \in Thread :
    /\ pc[t] \notin {"srcStamp", "send", "srcLeave", "url", "content", "addStamp", "grow",
                     "addLeave"} => slot[t] = 0
    /\ pc[t] \in {"srcStamp", "send"} => slot[t] \in 1..cache_size
    /\ pc[t] \in {"url", "content", "addStamp", "grow"} =>
         slot[t] \in Slot /\ slot[t] <= cache_size + 1
    /\ pc[t] = "grow" => slot[t] = cache_size + 1
    /\ pc[t] # "idle" => uri[t] \in Url

(* An entry is whole unless a writer is between its url and its content.   *)
EntryInv ==
  /\ \A t \in Thread : pc[t] \in {"srcStamp", "send", "content", "addStamp", "grow"} =>
       caches[slot[t]].url = uri[t]
  /\ \A t \in Thread : pc[t] \in {"srcStamp", "send", "addStamp", "grow"} =>
       caches[slot[t]].content = uri[t]
  /\ \A i \in 1..cache_size :
       (\A t \in Thread : pc[t] = "content" => slot[t] # i) =>
         caches[i].url = caches[i].content

IInv == TypeOK /\ LockInv /\ WaitInv /\ SlotInv /\ EntryInv
-----------------------------------------------------------------------------
(* Every step moves one thread t to a label l and may wake sleepers.       *)
Moves(t, l) ==
  /\ pc' \in [Thread -> Label]
  /\ pc'[t] = l
  /\ \A u \in Thread \ {t} : pc'[u] = pc[u] \/ (u \in Sleepers /\ pc'[u] = Awake(u))

LEMMA GoToMoves ==
  ASSUME TypeOK, NEW t \in Thread, NEW l \in Label, GoTo(t, l)
  PROVE  Moves(t, l) /\ \A u \in Thread \ {t} : pc'[u] = pc[u]
BY DEF TypeOK, GoTo, Moves, Label

(* A sleeper that wakes stays announced or not, and is neither reading nor *)
(* writing before it has tested.                                           *)
LEMMA MoveSets ==
  ASSUME TypeOK, NEW t \in Thread, NEW l \in Label, Moves(t, l)
  PROVE  /\ Announced' = IF l \in {"srcTest", "srcWait", "scan", "srcStamp", "send", "srcLeave"}
                         THEN Announced \cup {t} ELSE Announced \ {t}
         /\ Reading' = IF l \in {"scan", "srcStamp", "send", "srcLeave"}
                       THEN Reading \cup {t} ELSE Reading \ {t}
         /\ Writing' = IF l \in {"pick", "url", "content", "addStamp", "grow", "addLeave"}
                       THEN Writing \cup {t} ELSE Writing \ {t}
BY DEF Moves, Announced, Reading, Writing, Sleepers, Awake

LEMMA Counting ==
  ASSUME NEW S \in SUBSET Thread, NEW t \in Thread
  PROVE  /\ Cardinality(S) \in Nat
         /\ Cardinality(S) = 0 <=> S = {}
         /\ t \in S => Cardinality(S) > 0
         /\ t \notin S => Cardinality(S \cup {t}) = Cardinality(S) + 1
         /\ t \in S => Cardinality(S \ {t}) = Cardinality(S) - 1
<1>1. IsFiniteSet(S)
  BY ThreadAssumption, FS_Subset
<1>2. Cardinality(S) \in Nat
  BY <1>1, FS_CardinalityType
<1>3. Cardinality(S) = 0 <=> S = {}
  BY <1>1, FS_EmptySet
<1>4. t \notin S => Cardinality(S \cup {t}) = Cardinality(S) + 1
  BY <1>1, FS_AddElement
<1>5. t \in S => Cardinality(S \ {t}) = Cardinality(S) - 1
  BY <1>1, FS_RemoveElement
<1> QED
  BY <1>2, <1>3, <1>4, <1>5

(* The lock after a step, from the label t leaves and the one it goes to.  *)
LEMMA SameSides ==
  ASSUME TypeOK, LockInv, NEW t \in Thread, NEW l \in Label, Moves(t, l), UNCHANGED counters,
         t \in Announced <=>
           l \in {"srcTest", "srcWait", "scan", "srcStamp", "send", "srcLeave"},
         t \in Writing <=>
           l \in {"pick", "url", "content", "addStamp", "grow", "addLeave"},
         l \in {"scan", "srcStamp", "send", "srcLeave"} => t \in Reading \/ write_cnt = 0
  PROVE  LockInv'
<1>1. Announced' = Announced /\ Writing' = Writing
  BY MoveSets
<1>2. Reading' \subseteq Reading \cup {t} /\ (t \in Reading' => t \in Reading \/ write_cnt = 0)
  BY MoveSets
<1>3. write_cnt = 0 => Writing = {}
  BY Counting DEF LockInv, Writing
<1>4. Exclusion'
  BY <1>1, <1>2, <1>3 DEF LockInv, Exclusion
<1> QED
  BY <1>1, <1>4 DEF LockInv, counters

(* Steps of a thread that neither sleeps, wakes nor crosses the lock.      *)
LEMMA InsideStep ==
  ASSUME TypeOK, LockInv, WaitInv, NEW t \in Thread, NEW l \in Label, GoTo(t, l),
         UNCHANGED counters, pc[t] \notin {"srcWait", "addWait", "addTest"},
         l \notin {"srcWait", "addWait"},
         t \in Announced <=>
           l \in {"srcTest", "srcWait", "scan", "srcStamp", "send", "srcLeave"},
         t \in Writing <=>
           l \in {"pick", "url", "content", "addStamp", "grow", "addLeave"},
         l \in {"scan", "srcStamp", "send", "srcLeave"} => t \in Reading
  PROVE  LockInv' /\ WaitInv' /\ pc' \in [Thread -> Label] /\ pc'[t] = l
         /\ \A u \in Thread \ {t} : pc'[u] = pc[u]
<1>1. Moves(t, l) /\ \A u \in Thread \ {t} : pc'[u] = pc[u]
  BY GoToMoves
<1>2. LockInv'
  BY <1>1, SameSides
<1>3. WaitInv'
  BY <1>1 DEF WaitInv, Moves, counters
<1> QED
  BY <1>1, <1>2, <1>3 DEF Moves

LEMMA LeastNat ==
  ASSUME NEW S, S \subseteq Nat, S # {}
  PROVE  \E m \in S : \A x \in S : m <= x
<1>1. PICK m \in S : \A x \in S : ~(<<x, m>> \in OpToRel(<, Nat))
  BY WFMin, NatLessThanWellFounded
<1>2. \A x \in S : m \in Nat /\ x \in Nat /\ ~(x < m)
  BY <1>1 DEF OpToRel
<1>3. \A x \in S : m <= x
  BY <1>2
<1> QED
  BY <1>3

(* The scan keeps the first of the entries with the smallest stamp.        *)
LEMMA OldestChosen ==
  ASSUME TypeOK, Older # {}
  PROVE  /\ OldestEntry \in Older
         /\ \A j \in Older : \/ caches[OldestEntry].timestp < caches[j].timestp
                             \/ /\ caches[OldestEntry].timestp = caches[j].timestp
                                /\ OldestEntry <= j
<1> DEFINE Stamps == {caches[i].timestp : i \in Older}
<1>1. Older \subseteq Slot /\ Older \subseteq Nat /\ \A i \in Older : caches[i].timestp \in Nat
  BY DEF TypeOK, Older, Slot
<1>2. Stamps \subseteq Nat /\ Stamps # {}
  BY <1>1
<1>3. PICK m \in Stamps : \A x \in Stamps : m <= x
  BY <1>2, LeastNat
<1> DEFINE Least == {i \in Older : caches[i].timestp = m}
<1>4. Least \subseteq Nat /\ Least # {}
  BY <1>1, <1>3
<1>5. PICK i \in Least : \A j \in Least : i <= j
  BY <1>4, LeastNat
<1>6. \A j \in Older : m <= caches[j].timestp /\ m \in Nat
  BY <1>2, <1>3
<1>7. \A j \in Older : \/ caches[i].timestp < caches[j].timestp
                       \/ caches[i].timestp = caches[j].timestp /\ i <= j
  BY <1>1, <1>5, <1>6
<1> QED
  BY <1>5, <1>7 DEF OldestEntry

LEMMA OldestIsSlot == TypeOK => OldestEntry \in Slot
<1>1. Older = {} => OldestEntry \in Slot
  BY MaxCacheAssumption DEF OldestEntry, Slot
<1>2. TypeOK /\ Older # {} => OldestEntry \in Slot
  BY OldestChosen DEF Older
<1> QED
  BY <1>1, <1>2
-----------------------------------------------------------------------------
LEMMA InitInv == Init => IInv
<1> SUFFICES ASSUME Init PROVE IInv
  OBVIOUS
<1>1. TypeOK
  BY MaxCacheAssumption DEF Init, TypeOK, Slot
<1>2. LockInv
  <2>1. Announced = {} /\ Writing = {}
    BY DEF Init, Announced, Writing
  <2> QED
    BY <2>1, FS_EmptySet DEF Init, LockInv, Exclusion
<1>3. WaitInv
  BY DEF Init, WaitInv
<1>4. SlotInv
  BY DEF Init, SlotInv
<1>5. EntryInv
  BY DEF Init, EntryInv
<1> QED
  BY <1>1, <1>2, <1>3, <1>4, <1>5 DEF IInv

(* A reader announces itself; it goes on to the scan only when no writer   *)
(* is inside.                                                              *)
LEMMA SrcEnterInv ==
  ASSUME IInv, NEW t \in Thread, NEW u \in Url, SrcEnter(t, u) PROVE IInv'
<1> DEFINE l == IF write_cnt > 0 THEN "srcWait" ELSE "scan"
<1>1. /\ TypeOK /\ l \in Label /\ GoTo(t, l) /\ pc[t] = "idle"
      /\ uri' = [uri EXCEPT ![t] = u] /\ read_cnt' = read_cnt + 1
      /\ UNCHANGED <<entries, write_cnt, timestp, slot>>
  BY DEF SrcEnter, IInv, Label
<1>2. Moves(t, l) /\ \A w \in Thread \ {t} : pc'[w] = pc[w]
  BY <1>1, GoToMoves
<1>3. TypeOK'
  <2>1. uri' \in [Thread -> Url \cup {NoUrl}] /\ read_cnt' \in Nat
    BY <1>1 DEF TypeOK
  <2>2. pc' \in [Thread -> Label]
    BY <1>2 DEF Moves
  <2> QED
    BY <1>1, <2>1, <2>2 DEF TypeOK, entries, Label
<1>4. LockInv'
  <2>1. Announced' = Announced \cup {t} /\ Writing' = Writing /\ t \notin Announced
    BY <1>1, <1>2, MoveSets DEF Announced, Writing
  <2>2. read_cnt' = Cardinality(Announced')
    BY <1>1, <2>1, Counting DEF Announced, LockInv, IInv
  <2>3. Reading' \subseteq Reading \cup {t} /\ (t \in Reading' => write_cnt = 0)
    BY <1>1, <1>2, MoveSets DEF Reading, TypeOK
  <2>4. write_cnt = 0 => Writing = {}
    BY Counting DEF LockInv, Writing, IInv
  <2> QED
    BY <1>1, <2>1, <2>2, <2>3, <2>4 DEF LockInv, Exclusion, IInv
<1>5. WaitInv'
  BY <1>1, <1>2 DEF WaitInv, IInv, Moves, TypeOK
<1>6. SlotInv'
  BY <1>1, <1>2 DEF SlotInv, IInv, Moves, entries, TypeOK
<1>7. EntryInv'
  BY <1>1, <1>2 DEF EntryInv, IInv, Moves, entries, TypeOK
<1> QED
  BY <1>3, <1>4, <1>5, <1>6, <1>7 DEF IInv

LEMMA SrcRetestInv == ASSUME IInv, NEW t \in Thread, SrcRetest(t) PROVE IInv'
<1> DEFINE l == IF write_cnt > 0 THEN "srcWait" ELSE "scan"
<1>1. /\ TypeOK /\ l \in Label /\ GoTo(t, l) /\ pc[t] = "srcTest"
      /\ UNCHANGED <<entries, counters, timestp, uri, slot>>
  BY DEF SrcRetest, IInv, Label
<1>2. Moves(t, l) /\ \A w \in Thread \ {t} : pc'[w] = pc[w]
  BY <1>1, GoToMoves
<1>3. TypeOK'
  BY <1>1, <1>2 DEF TypeOK, entries, counters, Moves, Label
<1>4. LockInv'
  <2>1. t \in Announced /\ t \notin Writing /\ (l = "scan" => write_cnt = 0)
    BY <1>1 DEF Announced, Writing, TypeOK
  <2>2. LockInv
    BY DEF IInv
  <2>3. l \in {"srcWait", "scan"}
    OBVIOUS
  <2> HIDE DEF l
  <2> QED
    BY <1>1, <1>2, <2>1, <2>2, <2>3, SameSides
<1>5. WaitInv'
  <2>1. read_cnt > 0
    BY <1>1, Counting DEF IInv, LockInv, Announced
  <2> QED
    BY <1>1, <1>2, <2>1 DEF WaitInv, IInv, Moves, TypeOK, counters
<1>6. SlotInv'
  BY <1>1, <1>2 DEF SlotInv, IInv, Moves, entries, TypeOK
<1>7. EntryInv'
  BY <1>1, <1>2 DEF EntryInv, IInv, Moves, entries, TypeOK
<1> QED
  BY <1>3, <1>4, <1>5, <1>6, <1>7 DEF IInv

(* The scan runs while no writer is inside, so the entry it finds is whole.*)
LEMMA SrcHitInv == ASSUME IInv, NEW t \in Thread, SrcHit(t) PROVE IInv'
<1>1. /\ TypeOK /\ LockInv /\ WaitInv /\ "srcStamp" \in Label /\ GoTo(t, "srcStamp")
      /\ pc[t] = "scan" /\ UNCHANGED <<entries, counters, timestp, uri>>
  BY DEF SrcHit, IInv, Label
<1>2. PICK i \in Hits(uri[t]) : slot' = [slot EXCEPT ![t] = i]
  BY DEF SrcHit
<1>3. i \in 1..cache_size /\ i \in 0..MaxCache /\ caches[i].url = uri[t]
  BY <1>1, <1>2 DEF Hits, Slot, TypeOK
<1>4. /\ LockInv' /\ WaitInv' /\ pc' \in [Thread -> Label] /\ pc'[t] = "srcStamp"
      /\ \A u \in Thread \ {t} : pc'[u] = pc[u]
  BY <1>1, InsideStep DEF Announced, Writing, Reading
<1>5. TypeOK'
  BY <1>1, <1>2, <1>3, <1>4 DEF TypeOK, entries, counters, Label
<1>6. \A u \in Thread : pc[u] # "content"
  BY <1>1 DEF LockInv, Exclusion, Reading, Writing
<1>7. caches[i].content = uri[t]
  BY <1>3, <1>6 DEF IInv, EntryInv
<1>8. \A u \in Thread : slot'[u] = IF u = t THEN i ELSE slot[u]
  BY <1>1, <1>2 DEF TypeOK
<1>9. SlotInv'
  BY <1>1, <1>3, <1>4, <1>8 DEF SlotInv, IInv, entries
<1>10. EntryInv'
  BY <1>1, <1>3, <1>4, <1>6, <1>7, <1>8 DEF EntryInv, IInv, entries
<1> QED
  BY <1>4, <1>5, <1>9, <1>10 DEF IInv

LEMMA SrcMissInv == ASSUME IInv, NEW t \in Thread, SrcMiss(t) PROVE IInv'
<1>1. /\ TypeOK /\ LockInv /\ WaitInv /\ "srcLeave" \in Label /\ GoTo(t, "srcLeave")
      /\ pc[t] = "scan" /\ UNCHANGED <<entries, counters, timestp, uri, slot>>
  BY DEF SrcMiss, IInv, Label
<1>2. /\ LockInv' /\ WaitInv' /\ pc' \in [Thread -> Label] /\ pc'[t] = "srcLeave"
      /\ \A u \in Thread \ {t} : pc'[u] = pc[u]
  BY <1>1, InsideStep DEF Announced, Writing, Reading
<1>3. TypeOK'
  BY <1>1, <1>2 DEF TypeOK, entries, counters, Label
<1>4. SlotInv' /\ EntryInv'
  BY <1>1, <1>2 DEF SlotInv, EntryInv, IInv, entries
<1> QED
  BY <1>2, <1>3, <1>4 DEF IInv

(* A time stamp changes neither the url nor the content of an entry.       *)
LEMMA StampKeeps ==
  ASSUME TypeOK, NEW i \in Slot, Stamp(i)
  PROVE  /\ caches' \in [Slot -> [url : Url \cup {NoUrl}, content : Url \cup {NoUrl},
                                  timestp : Nat]]
         /\ timestp' \in Nat
         /\ \A j \in Slot : caches'[j].url = caches[j].url /\ caches'[j].content = caches[j].content
BY DEF TypeOK, Stamp

LEMMA SrcStampInv == ASSUME IInv, NEW t \in Thread, SrcStamp(t) PROVE IInv'
<1>1. /\ TypeOK /\ LockInv /\ WaitInv /\ "send" \in Label /\ GoTo(t, "send")
      /\ pc[t] = "srcStamp" /\ UNCHANGED <<cache_size, counters, uri, slot>>
  BY DEF SrcStamp, IInv, Label
<1>2. /\ LockInv' /\ WaitInv' /\ pc' \in [Thread -> Label] /\ pc'[t] = "send"
      /\ \A u \in Thread \ {t} : pc'[u] = pc[u]
  BY <1>1, InsideStep DEF Announced, Writing, Reading
<1>3. slot[t] \in Slot /\ 1..cache_size \subseteq Slot
  <2>1. slot[t] \in 1..cache_size
    BY <1>1 DEF IInv, SlotInv
  <2>2. cache_size \in Nat /\ cache_size <= MaxCache
    BY <1>1, MaxCacheAssumption DEF TypeOK
  <2> QED
    BY <2>1, <2>2, MaxCacheAssumption DEF Slot
<1>4. /\ caches' \in [Slot -> [url : Url \cup {NoUrl}, content : Url \cup {NoUrl}, timestp : Nat]]
      /\ timestp' \in Nat
      /\ \A j \in Slot : caches'[j].url = caches[j].url /\ caches'[j].content = caches[j].content
  BY <1>1, <1>3, StampKeeps DEF SrcStamp
<1>5. TypeOK'
  BY <1>1, <1>2, <1>4 DEF TypeOK, counters, Label
<1>6. SlotInv'
  BY <1>1, <1>2 DEF SlotInv, IInv
<1>7. EntryInv'
  <2>1. \A u \in Thread : pc[u] \in {"srcStamp", "send", "content", "addStamp", "grow"} =>
          slot[u] \in Slot
    BY <1>3 DEF IInv, SlotInv
  <2> QED
    BY <1>1, <1>2, <1>3, <1>4, <2>1 DEF EntryInv, IInv
<1> QED
  BY <1>2, <1>5, <1>6, <1>7 DEF IInv

LEMMA SrcSendInv == ASSUME IInv, NEW t \in Thread, SrcSend(t) PROVE IInv'
<1>1. /\ TypeOK /\ LockInv /\ WaitInv /\ "srcLeave" \in Label /\ GoTo(t, "srcLeave")
      /\ pc[t] = "send" /\ UNCHANGED <<entries, counters, timestp, uri, slot>>
  BY DEF SrcSend, IInv, Label
<1>2. /\ LockInv' /\ WaitInv' /\ pc' \in [Thread -> Label] /\ pc'[t] = "srcLeave"
      /\ \A u \in Thread \ {t} : pc'[u] = pc[u]
  BY <1>1, InsideStep DEF Announced, Writing, Reading
<1>3. TypeOK'
  BY <1>1, <1>2 DEF TypeOK, entries, counters, Label
<1>4. SlotInv' /\ EntryInv'
  BY <1>1, <1>2 DEF SlotInv, EntryInv, IInv, entries
<1> QED
  BY <1>2, <1>3, <1>4 DEF IInv

(* The last reader wakes one sleeper.  With no writer inside, the sleepers *)
(* are writers, so the one that wakes is a writer about to test.           *)
LEMMA SrcLeaveInv == ASSUME IInv, NEW t \in Thread, SrcLeave(t) PROVE IInv'
<1> DEFINE l == AfterSrc(t)
<1>1. /\ TypeOK /\ LockInv /\ WaitInv /\ l \in {"idle", "fetch"} /\ pc[t] = "srcLeave"
      /\ read_cnt' = read_cnt - 1 /\ slot' = [slot EXCEPT ![t] = 0]
      /\ UNCHANGED <<entries, write_cnt, timestp, uri>>
  BY DEF SrcLeave, IInv, AfterSrc
<1> HIDE DEF l
<1>2. /\ Moves(t, l)
      /\ read_cnt = 1 /\ (\E u \in Thread : pc'[u] = "addWait") =>
           write_cnt > 0 \/ \E w \in Thread : pc'[w] = "addTest"
  <2>1. CASE read_cnt = 1 /\ Sleepers # {}
    <3>1. PICK w \in Sleepers : pc' = [pc EXCEPT ![t] = l, ![w] = Awake(w)]
      BY <2>1 DEF SrcLeave, l
    <3>2. w \in Thread /\ w # t /\ Awake(w) \in Label
      BY <1>1, <3>1 DEF Sleepers, Awake, Label
    <3>3. Moves(t, l) /\ pc'[w] = Awake(w)
      BY <1>1, <3>1, <3>2 DEF TypeOK, Moves, Label
    <3>4. pc'[w] = "addTest" \/ write_cnt > 0
      BY <3>1, <3>3, <1>1 DEF WaitInv, Sleepers, Awake
    <3> QED
      BY <3>2, <3>3, <3>4
  <2>2. CASE ~(read_cnt = 1 /\ Sleepers # {})
    <3>1. GoTo(t, l) /\ l \in Label
      BY <1>1, <2>2 DEF SrcLeave, l, Label
    <3>2. Moves(t, l) /\ \A u \in Thread \ {t} : pc'[u] = pc[u]
      BY <1>1, <3>1, GoToMoves
    <3>3. read_cnt = 1 => ~ \E u \in Thread : pc'[u] = "addWait"
      BY <1>1, <2>2, <3>2 DEF Sleepers, Moves
    <3> QED
      BY <3>2, <3>3
  <2> QED
    BY <2>1, <2>2
<1>3. /\ Announced' = Announced \ {t} /\ Writing' = Writing /\ Reading' = Reading \ {t}
      /\ t \in Announced /\ t \notin Writing
  BY <1>1, <1>2, MoveSets DEF Announced, Writing, Label
<1>4. read_cnt' = Cardinality(Announced') /\ read_cnt > 0 /\ read_cnt' \in Nat
  BY <1>1, <1>3, Counting DEF Announced, LockInv
<1>5. LockInv'
  BY <1>1, <1>3, <1>4 DEF LockInv, Exclusion
<1>6. TypeOK'
  <2>1. pc' \in [Thread -> Label]
    BY <1>2 DEF Moves
  <2>2. 0 \in 0..MaxCache
    BY MaxCacheAssumption
  <2>3. slot' \in [Thread -> 0..MaxCache]
    BY <1>1, <2>2 DEF TypeOK
  <2> QED
    BY <1>1, <1>4, <2>1, <2>3 DEF TypeOK, entries, Label
<1>7. WaitInv'
  <2>1. \A u \in Thread : pc'[u] = "srcWait" => pc[u] = "srcWait"
    BY <1>1, <1>2 DEF Moves, Sleepers, Awake
  <2>2. read_cnt' > 0 \/ read_cnt = 1
    BY <1>1, <1>4 DEF TypeOK
  <2> QED
    BY <1>1, <1>2, <2>1, <2>2 DEF WaitInv
<1>8. SlotInv' /\ EntryInv'
  <2>1. \A u \in Thread : slot'[u] = IF u = t THEN 0 ELSE slot[u]
    BY <1>1 DEF TypeOK
  <2>2. \A u \in Thread : pc[u] = "srcLeave" => uri[u] \in Url
    BY DEF IInv, SlotInv
  <2>3. \A u \in Thread \ {t} : \/ pc'[u] = pc[u]
                                \/ /\ pc[u] \in {"srcWait", "addWait"}
                                   /\ pc'[u] \in {"srcTest", "addTest"}
    BY <1>2 DEF Moves, Sleepers, Awake
  <2>4. pc'[t] \in {"idle", "fetch"}
    BY <1>1, <1>2 DEF Moves
  <2>5. SlotInv'
    BY <1>1, <2>1, <2>2, <2>3, <2>4 DEF SlotInv, IInv, entries
  <2>6. EntryInv'
    BY <1>1, <2>1, <2>3, <2>4 DEF EntryInv, IInv, entries
  <2> QED
    BY <2>5, <2>6
<1> QED
  BY <1>5, <1>6, <1>7, <1>8 DEF IInv

LEMMA GiveUpInv == ASSUME IInv, NEW t \in Thread, GiveUp(t) PROVE IInv'
<1>1. /\ TypeOK /\ LockInv /\ WaitInv /\ "idle" \in Label /\ GoTo(t, "idle")
      /\ pc[t] = "fetch" /\ UNCHANGED <<entries, counters, timestp, uri, slot>>
  BY DEF GiveUp, IInv, Label
<1>2. /\ LockInv' /\ WaitInv' /\ pc' \in [Thread -> Label] /\ pc'[t] = "idle"
      /\ \A u \in Thread \ {t} : pc'[u] = pc[u]
  BY <1>1, InsideStep DEF Announced, Writing, Reading
<1>3. TypeOK'
  BY <1>1, <1>2 DEF TypeOK, entries, counters, Label
<1>4. SlotInv' /\ EntryInv'
  BY <1>1, <1>2 DEF SlotInv, EntryInv, IInv, entries
<1> QED
  BY <1>2, <1>3, <1>4 DEF IInv

(* A writer enters only when it is alone.                                  *)
LEMMA AddEnterInv == ASSUME IInv, NEW t \in Thread, AddEnter(t) PROVE IInv'
<1> DEFINE l == IF read_cnt > 0 \/ write_cnt > 0 THEN "addWait" ELSE "pick"
<1>1. /\ TypeOK /\ LockInv /\ WaitInv /\ GoTo(t, l) /\ l \in Label
      /\ pc[t] \in {"fetch", "addTest"}
      /\ UNCHANGED <<entries, read_cnt, timestp, uri, slot>>
      /\ write_cnt' = IF l = "pick" THEN write_cnt + 1 ELSE write_cnt
      /\ l \in {"addWait", "pick"}
      /\ l = "addWait" => read_cnt > 0 \/ write_cnt > 0
      /\ l = "pick" => read_cnt = 0 /\ write_cnt = 0
  BY DEF AddEnter, IInv, Label, TypeOK
<1> HIDE DEF l
<1>2. Moves(t, l) /\ \A u \in Thread \ {t} : pc'[u] = pc[u]
  BY <1>1, GoToMoves
<1>3. /\ Announced' = Announced /\ Reading' = Reading
      /\ Writing' = IF l = "pick" THEN Writing \cup {t} ELSE Writing
      /\ t \notin Writing
  BY <1>1, <1>2, MoveSets DEF Announced, Reading, Writing
<1>4. write_cnt' = Cardinality(Writing')
  <2>1. Writing \in SUBSET Thread /\ write_cnt = Cardinality(Writing)
    BY <1>1 DEF LockInv, Writing
  <2>2. Cardinality(Writing \cup {t}) = Cardinality(Writing) + 1
    BY <1>3, <2>1, Counting
  <2> QED
    BY <1>1, <1>3, <2>1, <2>2
<1>5. l = "pick" => Announced = {} /\ Writing = {}
  BY <1>1, Counting DEF LockInv, Announced, Writing
<1>6. Exclusion'
  BY <1>1, <1>3, <1>5 DEF LockInv, Exclusion, Announced, Reading
<1>7. LockInv'
  BY <1>1, <1>3, <1>4, <1>6 DEF LockInv
<1>8. TypeOK'
  <2>1. pc' \in [Thread -> Label] /\ write_cnt' \in Nat
    BY <1>1, <1>2 DEF Moves, TypeOK
  <2> QED
    BY <1>1, <2>1 DEF TypeOK, entries, Label
<1>9. WaitInv'
  BY <1>1, <1>2 DEF WaitInv, Moves, TypeOK
<1>10. SlotInv' /\ EntryInv'
  BY <1>1, <1>2 DEF SlotInv, EntryInv, IInv, entries, Moves
<1> QED
  BY <1>7, <1>8, <1>9, <1>10 DEF IInv

LEMMA AddPickInv == ASSUME IInv, NEW t \in Thread, AddPick(t) PROVE IInv'
<1> DEFINE i == IF cache_size < MaxCache THEN cache_size + 1 ELSE OldestEntry
<1>1. /\ TypeOK /\ LockInv /\ WaitInv /\ "url" \in Label /\ GoTo(t, "url")
      /\ pc[t] = "pick" /\ UNCHANGED <<entries, counters, timestp, uri>>
      /\ slot' = [slot EXCEPT ![t] = i]
  BY DEF AddPick, IInv, Label
<1>2. i \in Slot /\ i <= cache_size + 1 /\ i \in 0..MaxCache
  <2>1. OldestEntry \in Slot
    BY <1>1, OldestIsSlot
  <2> QED
    BY <1>1, <2>1, MaxCacheAssumption DEF TypeOK, Slot
<1> HIDE DEF i
<1>3. /\ LockInv' /\ WaitInv' /\ pc' \in [Thread -> Label] /\ pc'[t] = "url"
      /\ \A u \in Thread \ {t} : pc'[u] = pc[u]
  BY <1>1, InsideStep DEF Announced, Writing, Reading
<1>4. TypeOK'
  BY <1>1, <1>2, <1>3 DEF TypeOK, entries, counters, Label
<1>5. \A u \in Thread : slot'[u] = IF u = t THEN i ELSE slot[u]
  BY <1>1 DEF TypeOK
<1>6. SlotInv'
  BY <1>1, <1>2, <1>3, <1>5 DEF SlotInv, IInv, entries
<1>7. EntryInv'
  BY <1>1, <1>3, <1>5 DEF EntryInv, IInv, entries
<1> QED
  BY <1>3, <1>4, <1>6, <1>7 DEF IInv

(* While a writer is inside nobody reads, so an entry may be torn.         *)
LEMMA WriterAlone ==
  ASSUME IInv, NEW t \in Thread,
         pc[t] \in {"pick", "url", "content", "addStamp", "grow", "addLeave"}
  PROVE  \A u \in Thread \ {t} :
           pc[u] \notin {"scan", "srcStamp", "send", "srcLeave",
                         "pick", "url", "content", "addStamp", "grow", "addLeave"}
BY DEF IInv, LockInv, Exclusion, Writing, Reading

LEMMA AddUrlInv == ASSUME IInv, NEW t \in Thread, AddUrl(t) PROVE IInv'
<1>1. /\ TypeOK /\ LockInv /\ WaitInv /\ "content" \in Label /\ GoTo(t, "content")
      /\ pc[t] = "url" /\ UNCHANGED <<cache_size, counters, timestp, uri, slot>>
      /\ caches' = [caches EXCEPT ![slot[t]].url = uri[t]]
  BY DEF AddUrl, IInv, Label
<1>2. /\ LockInv' /\ WaitInv' /\ pc' \in [Thread -> Label] /\ pc'[t] = "content"
      /\ \A u \in Thread \ {t} : pc'[u] = pc[u]
  BY <1>1, InsideStep DEF Announced, Writing, Reading
<1>3. slot[t] \in Slot /\ uri[t] \in Url
  BY <1>1 DEF IInv, SlotInv
<1>4. /\ caches' \in [Slot -> [url : Url \cup {NoUrl}, content : Url \cup {NoUrl}, timestp : Nat]]
      /\ caches'[slot[t]].url = uri[t]
      /\ \A j \in Slot \ {slot[t]} : caches'[j] = caches[j]
  BY <1>1, <1>3 DEF TypeOK
<1>5. TypeOK'
  BY <1>1, <1>2, <1>4 DEF TypeOK, counters, Label
<1>6. SlotInv'
  BY <1>1, <1>2 DEF SlotInv, IInv
<1>7. EntryInv'
  <2>1. \A u \in Thread \ {t} : pc[u] \notin {"srcStamp", "send", "content", "addStamp", "grow"}
    BY <1>1, WriterAlone
  <2>2. 1..cache_size \subseteq Slot
    BY <1>1, MaxCacheAssumption DEF TypeOK, Slot
  <2> QED
    BY <1>1, <1>2, <1>4, <2>1, <2>2 DEF EntryInv, IInv
<1> QED
  BY <1>2, <1>5, <1>6, <1>7 DEF IInv

LEMMA AddContentInv == ASSUME IInv, NEW t \in Thread, AddContent(t) PROVE IInv'
<1>1. /\ TypeOK /\ LockInv /\ WaitInv /\ "addStamp" \in Label /\ GoTo(t, "addStamp")
      /\ pc[t] = "content" /\ UNCHANGED <<cache_size, counters, timestp, uri, slot>>
      /\ caches' = [caches EXCEPT ![slot[t]].content = uri[t]]
  BY DEF AddContent, IInv, Label
<1>2. /\ LockInv' /\ WaitInv' /\ pc' \in [Thread -> Label] /\ pc'[t] = "addStamp"
      /\ \A u \in Thread \ {t} : pc'[u] = pc[u]
  BY <1>1, InsideStep DEF Announced, Writing, Reading
<1>3. slot[t] \in Slot /\ uri[t] \in Url /\ caches[slot[t]].url = uri[t]
  BY <1>1 DEF IInv, SlotInv, EntryInv
<1>4. /\ caches' \in [Slot -> [url : Url \cup {NoUrl}, content : Url \cup {NoUrl}, timestp : Nat]]
      /\ caches'[slot[t]].content = uri[t] /\ caches'[slot[t]].url = uri[t]
      /\ \A j \in Slot \ {slot[t]} : caches'[j] = caches[j]
  BY <1>1, <1>3 DEF TypeOK
<1>5. TypeOK'
  BY <1>1, <1>2, <1>4 DEF TypeOK, counters, Label
<1>6. SlotInv'
  BY <1>1, <1>2 DEF SlotInv, IInv
<1>7. EntryInv'
  <2>1. \A u \in Thread \ {t} : pc[u] \notin {"srcStamp", "send", "content", "addStamp", "grow"}
    BY <1>1, WriterAlone
  <2>2. 1..cache_size \subseteq Slot
    BY <1>1, MaxCacheAssumption DEF TypeOK, Slot
  <2> QED
    BY <1>1, <1>2, <1>3, <1>4, <2>1, <2>2 DEF EntryInv, IInv
<1> QED
  BY <1>2, <1>5, <1>6, <1>7 DEF IInv

LEMMA AddStampInv == ASSUME IInv, NEW t \in Thread, AddStamp(t) PROVE IInv'
<1> DEFINE l == IF slot[t] > cache_size THEN "grow" ELSE "addLeave"
<1>1. /\ TypeOK /\ LockInv /\ WaitInv /\ l \in Label /\ GoTo(t, l) /\ l \in {"grow", "addLeave"}
      /\ pc[t] = "addStamp" /\ UNCHANGED <<cache_size, counters, uri, slot>>
      /\ l = "grow" => slot[t] > cache_size
  BY DEF AddStamp, IInv, Label
<1> HIDE DEF l
<1>2. /\ LockInv' /\ WaitInv' /\ pc' \in [Thread -> Label] /\ pc'[t] = l
      /\ \A u \in Thread \ {t} : pc'[u] = pc[u]
  BY <1>1, InsideStep DEF Announced, Writing, Reading
<1>3. slot[t] \in Slot /\ slot[t] <= cache_size + 1 /\ uri[t] \in Url /\ slot[t] \in Nat
  BY <1>1 DEF IInv, SlotInv, Slot
<1>4. /\ caches' \in [Slot -> [url : Url \cup {NoUrl}, content : Url \cup {NoUrl}, timestp : Nat]]
      /\ timestp' \in Nat
      /\ \A j \in Slot : caches'[j].url = caches[j].url /\ caches'[j].content = caches[j].content
  BY <1>1, <1>3, StampKeeps DEF AddStamp
<1>5. TypeOK'
  BY <1>1, <1>2, <1>4 DEF TypeOK, counters, Label
<1>6. l = "grow" => slot[t] = cache_size + 1
  BY <1>1, <1>3 DEF TypeOK
<1>7. SlotInv'
  BY <1>1, <1>2, <1>3, <1>6 DEF SlotInv, IInv
<1>8. EntryInv'
  <2>1. \A u \in Thread \ {t} : pc[u] \notin {"srcStamp", "send", "content", "addStamp", "grow"}
    BY <1>1, WriterAlone
  <2>2. 1..cache_size \subseteq Slot
    BY <1>1, MaxCacheAssumption DEF TypeOK, Slot
  <2> QED
    BY <1>1, <1>2, <1>3, <1>4, <2>1, <2>2 DEF EntryInv, IInv
<1> QED
  BY <1>2, <1>5, <1>7, <1>8 DEF IInv

LEMMA AddGrowInv == ASSUME IInv, NEW t \in Thread, AddGrow(t) PROVE IInv'
<1>1. /\ TypeOK /\ LockInv /\ WaitInv /\ "addLeave" \in Label /\ GoTo(t, "addLeave")
      /\ pc[t] = "grow" /\ UNCHANGED <<caches, counters, timestp, uri, slot>>
      /\ cache_size' = cache_size + 1
  BY DEF AddGrow, IInv, Label
<1>2. /\ LockInv' /\ WaitInv' /\ pc' \in [Thread -> Label] /\ pc'[t] = "addLeave"
      /\ \A u \in Thread \ {t} : pc'[u] = pc[u]
  BY <1>1, InsideStep DEF Announced, Writing, Reading
<1>3. /\ slot[t] \in Slot /\ slot[t] = cache_size + 1
      /\ caches[slot[t]].url = uri[t] /\ caches[slot[t]].content = uri[t]
  BY <1>1 DEF IInv, SlotInv, EntryInv
<1>4. cache_size \in Nat /\ cache_size' \in 0..MaxCache
  BY <1>1, <1>3, MaxCacheAssumption DEF TypeOK, Slot
<1>5. TypeOK'
  BY <1>1, <1>2, <1>4 DEF TypeOK, counters, Label
<1>6. \A u \in Thread \ {t} : pc[u] \notin {"srcStamp", "send", "url", "content", "addStamp", "grow"}
  BY <1>1, WriterAlone
<1>7. SlotInv'
  BY <1>1, <1>2, <1>4, <1>6 DEF SlotInv, IInv
<1>8. EntryInv'
  <2>1. \A i \in 1..cache_size' : i \in 1..cache_size \/ i = slot[t]
    BY <1>1, <1>3, <1>4
  <2> QED
    BY <1>1, <1>2, <1>3, <1>6, <2>1 DEF EntryInv, IInv
<1> QED
  BY <1>2, <1>5, <1>7, <1>8 DEF IInv

(* The writer that leaves wakes every sleeper.                             *)
LEMMA AddLeaveInv == ASSUME IInv, NEW t \in Thread, AddLeave(t) PROVE IInv'
<1>1. /\ TypeOK /\ LockInv /\ WaitInv /\ pc[t] = "addLeave" /\ "idle" \in Label
      /\ write_cnt' = write_cnt - 1 /\ slot' = [slot EXCEPT ![t] = 0]
      /\ pc' = [Broadcast EXCEPT ![t] = "idle"]
      /\ UNCHANGED <<entries, read_cnt, timestp, uri>>
  BY DEF AddLeave, IInv, Label
<1>2. /\ Moves(t, "idle")
      /\ \A u \in Thread : pc'[u] \notin {"srcWait", "addWait"}
  BY <1>1 DEF Broadcast, Moves, Awake, Sleepers, TypeOK, Label
<1>3. /\ Announced' = Announced /\ Reading' = Reading /\ Writing' = Writing \ {t}
      /\ t \in Writing
  BY <1>1, <1>2, MoveSets DEF Announced, Reading, Writing
<1>4. write_cnt' = Cardinality(Writing') /\ write_cnt' \in Nat
  <2>1. Writing \in SUBSET Thread /\ write_cnt = Cardinality(Writing)
    BY <1>1 DEF LockInv, Writing
  <2>2. Writing \ {t} \in SUBSET Thread /\ Cardinality(Writing \ {t}) = Cardinality(Writing) - 1
    BY <1>3, <2>1, Counting
  <2>3. Cardinality(Writing \ {t}) \in Nat
    BY <2>2, Counting
  <2> QED
    BY <1>1, <1>3, <2>1, <2>2, <2>3
<1>5. LockInv'
  BY <1>1, <1>3, <1>4 DEF LockInv, Exclusion
<1>6. TypeOK'
  <2>1. pc' \in [Thread -> Label]
    BY <1>2 DEF Moves
  <2>2. 0 \in 0..MaxCache
    BY MaxCacheAssumption
  <2>3. slot' \in [Thread -> 0..MaxCache]
    BY <1>1, <2>2 DEF TypeOK
  <2> QED
    BY <1>1, <1>4, <2>1, <2>3 DEF TypeOK, entries, Label
<1>7. WaitInv'
  BY <1>2 DEF WaitInv
<1>8. SlotInv' /\ EntryInv'
  <2>1. \A u \in Thread : slot'[u] = IF u = t THEN 0 ELSE slot[u]
    BY <1>1 DEF TypeOK
  <2>2. \A u \in Thread \ {t} : \/ pc'[u] = pc[u]
                                \/ /\ pc[u] \in {"srcWait", "addWait"}
                                   /\ pc'[u] \in {"srcTest", "addTest"}
    BY <1>2 DEF Moves, Sleepers, Awake
  <2>3. pc'[t] = "idle"
    BY <1>2 DEF Moves
  <2>4. SlotInv'
    BY <1>1, <2>1, <2>2, <2>3 DEF SlotInv, IInv, entries
  <2>5. EntryInv'
    BY <1>1, <2>1, <2>2, <2>3 DEF EntryInv, IInv, entries
  <2> QED
    BY <2>4, <2>5
<1> QED
  BY <1>5, <1>6, <1>7, <1>8 DEF IInv

LEMMA SpuriousWakeupInv == ASSUME IInv, NEW t \in Thread, SpuriousWakeup(t) PROVE IInv'
<1> DEFINE l == Awake(t)
<1>1. /\ TypeOK /\ LockInv /\ WaitInv /\ GoTo(t, l) /\ l \in Label
      /\ \/ pc[t] = "srcWait" /\ l = "srcTest"
         \/ pc[t] = "addWait" /\ l = "addTest"
      /\ UNCHANGED <<entries, counters, timestp, uri, slot>>
  BY DEF SpuriousWakeup, IInv, Label, Awake, Sleepers
<1> HIDE DEF l
<1>2. Moves(t, l) /\ \A u \in Thread \ {t} : pc'[u] = pc[u]
  BY <1>1, GoToMoves
<1>3. LockInv'
  BY <1>1, <1>2, SameSides DEF Announced, Writing
<1>4. TypeOK'
  BY <1>1, <1>2 DEF TypeOK, entries, counters, Moves, Label
<1>5. WaitInv'
  BY <1>1, <1>2 DEF WaitInv, Moves, counters
<1>6. SlotInv' /\ EntryInv'
  BY <1>1, <1>2 DEF SlotInv, EntryInv, IInv, entries, Moves
<1> QED
  BY <1>3, <1>4, <1>5, <1>6 DEF IInv
-----------------------------------------------------------------------------
LEMMA NextInv == IInv /\ [Next]_vars => IInv'
<1> SUFFICES ASSUME IInv, [Next]_vars PROVE IInv'
  OBVIOUS
<1>1. ASSUME NEW t \in Thread, Step(t) PROVE IInv'
  BY <1>1, SrcRetestInv, SrcHitInv, SrcMissInv, SrcStampInv, SrcSendInv, SrcLeaveInv,
     AddEnterInv, AddPickInv, AddUrlInv, AddContentInv, AddStampInv, AddGrowInv, AddLeaveInv
     DEF Step
<1>2. ASSUME NEW t \in Thread, GiveUp(t) \/ SpuriousWakeup(t) PROVE IInv'
  BY <1>2, GiveUpInv, SpuriousWakeupInv
<1>3. ASSUME NEW t \in Thread, NEW u \in Url, SrcEnter(t, u) PROVE IInv'
  BY <1>3, SrcEnterInv
<1>4. CASE UNCHANGED vars
  <2>1. UNCHANGED <<caches, cache_size, read_cnt, write_cnt, timestp, pc, uri, slot>>
    BY <1>4 DEF vars, entries, counters
  <2>2. Announced' = Announced /\ Writing' = Writing /\ Reading' = Reading
    BY <2>1 DEF Announced, Writing, Reading
  <2> QED
    BY <2>1, <2>2 DEF IInv, TypeOK, LockInv, Exclusion, WaitInv, SlotInv, EntryInv
<1> QED
  BY <1>1, <1>2, <1>3, <1>4 DEF Next

THEOREM Invariance == Spec => []IInv
BY InitInv, NextInv, PTL DEF Spec

(* Entries, counters and threads keep their types: cache_size never passes *)
(* the end of the table, and a counter is never decremented below 0.       *)
THEOREM TypeCorrect == Spec => []TypeOK
<1>1. IInv => TypeOK
  BY DEF IInv
<1> QED
  BY <1>1, Invariance, PTL

(* A thread between write_cnt++ and write_cnt-- is the only one in the     *)
(* cache, although the entries are read and written without the mutex.     *)
THEOREM WriterExcludes == Spec => []Exclusion
<1>1. IInv => Exclusion
  BY DEF IInv, LockInv
<1> QED
  BY <1>1, Invariance, PTL

(* A hit sends the object whose url was asked for, for as long as it takes.*)
THEOREM HitIsWhole == Spec => []HitServesOwnObject
<1>1. IInv => HitServesOwnObject
  BY DEF IInv, EntryInv, HitServesOwnObject
<1> QED
  BY <1>1, Invariance, PTL

(* One signal of the last reader is enough: no wakeup is lost.             *)
THEOREM WakeupsKept == Spec => []SleepersHaveWaker
<1>1. IInv => SleepersHaveWaker
  BY DEF IInv, WaitInv, SleepersHaveWaker, Sleepers
<1> QED
  BY <1>1, Invariance, PTL
-----------------------------------------------------------------------------
(***************************************************************************)
(* The copies of an url.  Each step trades: a copy that appears is one     *)
(* thread fewer that is yet to add one, and a thread joins those only when *)
(* its scan has found no copy at all.                                      *)
(***************************************************************************)
Bounded(u) == Cardinality(Copies(u)) + Cardinality(YetToAdd(u)) <= Cardinality(Thread)

LEMMA CopiesFinite ==
  ASSUME NEW u \in Url
  PROVE  /\ IsFiniteSet(Copies(u)) /\ IsFiniteSet(Copies(u)')
         /\ IsFiniteSet(YetToAdd(u)) /\ IsFiniteSet(YetToAdd(u)')
<1>1. Copies(u) \subseteq 1..MaxCache /\ Copies(u)' \subseteq 1..MaxCache
  BY DEF Copies, Slot
<1>2. YetToAdd(u) \subseteq Thread /\ YetToAdd(u)' \subseteq Thread
  BY DEF YetToAdd
<1>3. IsFiniteSet(1..MaxCache)
  BY MaxCacheAssumption, FS_Interval
<1> QED
  BY <1>1, <1>2, <1>3, ThreadAssumption, FS_Subset

(* No copy and no thread is new.                                           *)
LEMMA NoneNew ==
  ASSUME NEW u \in Url, Bounded(u),
         Copies(u)' \subseteq Copies(u), YetToAdd(u)' \subseteq YetToAdd(u)
  PROVE  Bounded(u)'
<1> DEFINE c == Cardinality(Copies(u))   y == Cardinality(YetToAdd(u))
<1>1. /\ IsFiniteSet(Copies(u)) /\ IsFiniteSet(Copies(u)')
      /\ IsFiniteSet(YetToAdd(u)) /\ IsFiniteSet(YetToAdd(u)')
  BY CopiesFinite
<1>2. Cardinality(Copies(u)') <= Cardinality(Copies(u))
  BY <1>1, FS_Subset
<1>3. Cardinality(YetToAdd(u)') <= Cardinality(YetToAdd(u))
  BY <1>1, FS_Subset
<1>4. /\ Cardinality(Copies(u)) \in Nat /\ Cardinality(Copies(u)') \in Nat
      /\ Cardinality(YetToAdd(u)) \in Nat /\ Cardinality(YetToAdd(u)') \in Nat
      /\ Cardinality(Thread) \in Nat
  BY <1>1, ThreadAssumption, FS_CardinalityType
<1> QED
  BY <1>2, <1>3, <1>4 DEF Bounded

(* One copy appears and one thread is done.                                *)
LEMMA OneTraded ==
  ASSUME NEW u \in Url, Bounded(u), NEW t \in YetToAdd(u), NEW i,
         Copies(u)' \subseteq Copies(u) \cup {i}, YetToAdd(u)' \subseteq YetToAdd(u) \ {t}
  PROVE  Bounded(u)'
<1>1. /\ IsFiniteSet(Copies(u)) /\ IsFiniteSet(Copies(u)')
      /\ IsFiniteSet(YetToAdd(u)) /\ IsFiniteSet(YetToAdd(u)')
  BY CopiesFinite
<1>2. /\ IsFiniteSet(Copies(u) \cup {i})
      /\ \/ Cardinality(Copies(u) \cup {i}) = Cardinality(Copies(u))
         \/ Cardinality(Copies(u) \cup {i}) = Cardinality(Copies(u)) + 1
  BY <1>1, FS_AddElement
<1>3. /\ IsFiniteSet(YetToAdd(u) \ {t})
      /\ Cardinality(YetToAdd(u) \ {t}) = Cardinality(YetToAdd(u)) - 1
  BY <1>1, FS_RemoveElement
<1>4. Cardinality(Copies(u)') <= Cardinality(Copies(u) \cup {i})
  BY <1>1, <1>2, FS_Subset
<1>5. Cardinality(YetToAdd(u)') <= Cardinality(YetToAdd(u) \ {t})
  BY <1>1, <1>3, FS_Subset
<1>6. /\ Cardinality(Copies(u)) \in Nat /\ Cardinality(Copies(u)') \in Nat
      /\ Cardinality(Copies(u) \cup {i}) \in Nat
      /\ Cardinality(YetToAdd(u)) \in Nat /\ Cardinality(YetToAdd(u)') \in Nat
      /\ Cardinality(YetToAdd(u) \ {t}) \in Nat
      /\ Cardinality(Thread) \in Nat
  BY <1>1, <1>2, <1>3, ThreadAssumption, FS_CardinalityType
<1> QED
  BY <1>2, <1>3, <1>4, <1>5, <1>6 DEF Bounded

(* Without a copy the threads may all be about to add one.                 *)
LEMMA NoCopy ==
  ASSUME NEW u \in Url, Copies(u)' = {}
  PROVE  Bounded(u)'
<1>1. YetToAdd(u)' \subseteq Thread
  BY DEF YetToAdd
<1>2. IsFiniteSet(YetToAdd(u)') /\ Cardinality(YetToAdd(u)') <= Cardinality(Thread)
  BY <1>1, ThreadAssumption, FS_Subset
<1>3. Cardinality(Copies(u)') = 0
  BY FS_EmptySet
<1>4. Cardinality(YetToAdd(u)') \in Nat /\ Cardinality(Thread) \in Nat
  BY <1>2, ThreadAssumption, FS_CardinalityType
<1> QED
  BY <1>2, <1>3, <1>4 DEF Bounded

(* A step that moves t between two labels on the same side of the counting *)
(* and leaves the entries alone, whoever it wakes.                         *)
LEMMA SameEntries ==
  ASSUME NEW t \in Thread, NEW l \in Label, Moves(t, l), UNCHANGED entries,
         NEW u \in Url, Bounded(u), \A w \in Thread \ {t} : uri'[w] = uri[w] /\ slot'[w] = slot[w],
         t \in YetToAdd(u)' => t \in YetToAdd(u)
  PROVE  Bounded(u)'
<1>1. Copies(u)' \subseteq Copies(u)
  BY DEF Copies, entries
<1>2. \A w \in Thread \ {t} : pc'[w] = pc[w] \/ (pc[w] = "srcWait" /\ pc'[w] = "srcTest")
                                            \/ (pc[w] = "addWait" /\ pc'[w] = "addTest")
  BY DEF Moves, Sleepers, Awake
<1>3. cache_size' = cache_size
  BY DEF entries
<1>4. YetToAdd(u)' \subseteq YetToAdd(u)
  BY <1>2, <1>3 DEF YetToAdd
<1> QED
  BY <1>1, <1>4, NoneNew

LEMMA SameEntriesGo ==
  ASSUME TypeOK, NEW t \in Thread, NEW l \in Label, GoTo(t, l), UNCHANGED <<entries, uri, slot>>,
         NEW u \in Url, Bounded(u), t \in YetToAdd(u)' => t \in YetToAdd(u)
  PROVE  Bounded(u)'
BY GoToMoves, SameEntries

LEMMA LookupBounded ==
  ASSUME IInv, IInv', NEW t \in Thread, NEW u \in Url, Bounded(u),
         \/ \E v \in Url : SrcEnter(t, v)
         \/ SrcRetest(t) \/ SrcHit(t) \/ SrcMiss(t) \/ SrcStamp(t) \/ SrcSend(t) \/ SrcLeave(t)
  PROVE  Bounded(u)'
<1>1. TypeOK /\ SlotInv
  BY DEF IInv
<1>2. ASSUME NEW v \in Url, SrcEnter(t, v) PROVE Bounded(u)'
  <2> DEFINE l == IF write_cnt > 0 THEN "srcWait" ELSE "scan"
  <2>1. l \in Label /\ GoTo(t, l) /\ l \in {"srcWait", "scan"}
    BY <1>2 DEF SrcEnter, Label
  <2> HIDE DEF l
  <2>2. Moves(t, l)
    BY <1>1, <2>1, GoToMoves
  <2>3. UNCHANGED entries /\ \A w \in Thread \ {t} : uri'[w] = uri[w] /\ slot'[w] = slot[w]
    BY <1>1, <1>2 DEF SrcEnter, TypeOK
  <2>4. t \notin YetToAdd(u)'
    BY <2>1, <2>2 DEF YetToAdd, Moves
  <2> QED
    BY <2>1, <2>2, <2>3, <2>4, SameEntries
<1>3. CASE SrcRetest(t)
  <2> DEFINE l == IF write_cnt > 0 THEN "srcWait" ELSE "scan"
  <2>1. l \in Label /\ GoTo(t, l) /\ l \in {"srcWait", "scan"} /\ UNCHANGED <<entries, uri, slot>>
    BY <1>3 DEF SrcRetest, Label
  <2> HIDE DEF l
  <2>2. t \notin YetToAdd(u)'
    BY <1>1, <2>1, GoToMoves DEF YetToAdd, Moves
  <2> QED
    BY <1>1, <2>1, <2>2, SameEntriesGo
<1>4. CASE SrcHit(t)
  <2>1. "srcStamp" \in Label /\ GoTo(t, "srcStamp") /\ UNCHANGED <<entries, uri>>
    BY <1>4 DEF SrcHit, Label
  <2>2. Moves(t, "srcStamp")
    BY <1>1, <2>1, GoToMoves
  <2>3. \A w \in Thread \ {t} : uri'[w] = uri[w] /\ slot'[w] = slot[w]
    BY <1>1, <1>4 DEF SrcHit, TypeOK
  <2>4. t \notin YetToAdd(u)'
    BY <2>2 DEF YetToAdd, Moves
  <2> QED
    BY <2>1, <2>2, <2>3, <2>4, SameEntries
<1>5. CASE SrcMiss(t)
  <2>1. /\ "srcLeave" \in Label /\ GoTo(t, "srcLeave") /\ UNCHANGED <<entries, uri, slot>>
        /\ Hits(uri[t]) = {}
    BY <1>5 DEF SrcMiss, Label
  <2>2. CASE uri[t] = u
    <3>1. Copies(u)' = {}
      BY <2>1, <2>2 DEF Copies, Hits, entries
    <3> QED
      BY <3>1, NoCopy
  <2>3. CASE uri[t] # u
    <3>1. t \notin YetToAdd(u)'
      BY <2>1, <2>3 DEF YetToAdd
    <3> QED
      BY <1>1, <2>1, <3>1, SameEntriesGo
  <2> QED
    BY <2>2, <2>3
<1>6. CASE SrcStamp(t)
  <2>1. /\ "send" \in Label /\ GoTo(t, "send") /\ UNCHANGED <<cache_size, uri, slot>>
        /\ pc[t] = "srcStamp" /\ Stamp(slot[t])
    BY <1>6 DEF SrcStamp, Label
  <2>2. slot[t] \in Slot
    BY <1>1, <2>1, MaxCacheAssumption DEF SlotInv, TypeOK, Slot
  <2>3. \A j \in Slot : caches'[j].url = caches[j].url
    BY <1>1, <2>1, <2>2, StampKeeps
  <2>4. Copies(u)' \subseteq Copies(u)
    BY <2>1, <2>3 DEF Copies
  <2>5. Moves(t, "send") /\ \A w \in Thread \ {t} : pc'[w] = pc[w]
    BY <1>1, <2>1, GoToMoves
  <2>6. YetToAdd(u)' \subseteq YetToAdd(u)
    BY <2>1, <2>5 DEF YetToAdd, Moves
  <2> QED
    BY <2>4, <2>6, NoneNew
<1>7. CASE SrcSend(t)
  <2>1. /\ "srcLeave" \in Label /\ GoTo(t, "srcLeave") /\ UNCHANGED <<entries, uri, slot>>
        /\ pc[t] = "send"
    BY <1>7 DEF SrcSend, Label
  <2>2. slot[t] # 0 /\ slot[t]' = slot[t]
    BY <1>1, <2>1 DEF SlotInv, TypeOK
  <2>3. pc'[t] = "srcLeave"
    BY <1>1, <2>1, GoToMoves DEF Moves
  <2>4. t \notin YetToAdd(u)'
    BY <2>2, <2>3 DEF YetToAdd
  <2> QED
    BY <1>1, <2>1, <2>4, SameEntriesGo
<1>8. CASE SrcLeave(t)
  <2> DEFINE l == AfterSrc(t)
  <2>1. /\ l \in Label /\ pc[t] = "srcLeave" /\ slot' = [slot EXCEPT ![t] = 0]
        /\ UNCHANGED <<entries, uri>>
        /\ \/ \E w \in Sleepers : pc' = [pc EXCEPT ![t] = l, ![w] = Awake(w)]
           \/ GoTo(t, l)
        /\ l = IF slot[t] # 0 THEN "idle" ELSE "fetch"
    BY <1>8 DEF SrcLeave, AfterSrc, Label
  <2> HIDE DEF l
  <2>2. Moves(t, l)
    <3>1. CASE GoTo(t, l)
      BY <1>1, <2>1, <3>1, GoToMoves
    <3>2. ASSUME NEW w \in Sleepers, pc' = [pc EXCEPT ![t] = l, ![w] = Awake(w)]
          PROVE  Moves(t, l)
      BY <1>1, <2>1, <3>2 DEF Moves, Sleepers, Awake, TypeOK, Label
    <3> QED
      BY <2>1, <3>1, <3>2
  <2>3. \A w \in Thread \ {t} : uri'[w] = uri[w] /\ slot'[w] = slot[w]
    BY <1>1, <2>1 DEF TypeOK
  <2>4. t \in YetToAdd(u)' => t \in YetToAdd(u)
    BY <2>1, <2>2 DEF YetToAdd, Moves
  <2> QED
    BY <2>1, <2>2, <2>3, <2>4, SameEntries
<1> QED
  BY <1>2, <1>3, <1>4, <1>5, <1>6, <1>7, <1>8

LEMMA AddBounded ==
  ASSUME IInv, IInv', NEW t \in Thread, NEW u \in Url, Bounded(u),
         \/ GiveUp(t) \/ SpuriousWakeup(t) \/ AddEnter(t) \/ AddPick(t) \/ AddUrl(t)
         \/ AddContent(t) \/ AddStamp(t) \/ AddGrow(t) \/ AddLeave(t)
  PROVE  Bounded(u)'
<1>1. TypeOK /\ SlotInv /\ EntryInv
  BY DEF IInv
<1>2. CASE GiveUp(t)
  <2>1. "idle" \in Label /\ GoTo(t, "idle") /\ UNCHANGED <<entries, uri, slot>>
    BY <1>2 DEF GiveUp, Label
  <2>2. t \notin YetToAdd(u)'
    BY <1>1, <2>1, GoToMoves DEF YetToAdd, Moves
  <2> QED
    BY <1>1, <2>1, <2>2, SameEntriesGo
<1>3. CASE SpuriousWakeup(t)
  <2> DEFINE l == Awake(t)
  <2>1. /\ l \in Label /\ GoTo(t, l) /\ UNCHANGED <<entries, uri, slot>>
        /\ \/ l = "srcTest"
           \/ l = "addTest" /\ pc[t] = "addWait"
    BY <1>3 DEF SpuriousWakeup, Sleepers, Awake, Label
  <2> HIDE DEF l
  <2>2. t \in YetToAdd(u)' => t \in YetToAdd(u)
    BY <1>1, <2>1, GoToMoves DEF YetToAdd, Moves
  <2> QED
    BY <1>1, <2>1, <2>2, SameEntriesGo
<1>4. CASE AddEnter(t)
  <2> DEFINE l == IF read_cnt > 0 \/ write_cnt > 0 THEN "addWait" ELSE "pick"
  <2>1. /\ l \in Label /\ GoTo(t, l) /\ UNCHANGED <<entries, uri, slot>>
        /\ pc[t] \in {"fetch", "addTest"}
    BY <1>4 DEF AddEnter, Label
  <2> HIDE DEF l
  <2>2. t \in YetToAdd(u)' => t \in YetToAdd(u)
    BY <2>1 DEF YetToAdd
  <2> QED
    BY <1>1, <2>1, <2>2, SameEntriesGo
<1>5. CASE AddPick(t)
  <2>1. "url" \in Label /\ GoTo(t, "url") /\ UNCHANGED <<entries, uri>> /\ pc[t] = "pick"
    BY <1>5 DEF AddPick, Label
  <2>2. Moves(t, "url")
    BY <1>1, <2>1, GoToMoves
  <2>3. \A w \in Thread \ {t} : uri'[w] = uri[w] /\ slot'[w] = slot[w]
    BY <1>1, <1>5 DEF AddPick, TypeOK
  <2>4. t \in YetToAdd(u)' => t \in YetToAdd(u)
    BY <2>1 DEF YetToAdd
  <2> QED
    BY <2>1, <2>2, <2>3, <2>4, SameEntries
<1>6. CASE AddUrl(t)
  <2>1. /\ "content" \in Label /\ GoTo(t, "content") /\ UNCHANGED <<cache_size, uri, slot>>
        /\ pc[t] = "url" /\ caches' = [caches EXCEPT ![slot[t]].url = uri[t]]
    BY <1>6 DEF AddUrl, Label
  <2>2. slot[t] \in Slot /\ slot[t] \in Nat /\ cache_size \in Nat
    BY <1>1, <2>1 DEF SlotInv, TypeOK, Slot
  <2>3. /\ caches'[slot[t]].url = uri[t]
        /\ \A j \in Slot \ {slot[t]} : caches'[j] = caches[j]
    BY <1>1, <2>1, <2>2 DEF TypeOK
  <2>4. pc'[t] = "content" /\ \A w \in Thread \ {t} : pc'[w] = pc[w]
    BY <1>1, <2>1, GoToMoves DEF Moves
  <2>5. YetToAdd(u)' \subseteq YetToAdd(u)
    BY <2>1, <2>4 DEF YetToAdd
  <2>6. CASE uri[t] = u /\ slot[t] <= cache_size
    <3>1. t \in YetToAdd(u) /\ t \notin YetToAdd(u)'
      BY <2>1, <2>2, <2>4, <2>6 DEF YetToAdd
    <3>2. Copies(u)' \subseteq Copies(u) \cup {slot[t]}
      BY <2>1, <2>3 DEF Copies
    <3> QED
      BY <2>5, <3>1, <3>2, OneTraded
  <2>7. CASE uri[t] # u \/ slot[t] > cache_size
    <3>1. Copies(u)' \subseteq Copies(u)
      BY <2>1, <2>2, <2>3, <2>7 DEF Copies
    <3> QED
      BY <2>5, <3>1, NoneNew
  <2> QED
    BY <2>2, <2>6, <2>7
<1>7. CASE AddContent(t)
  <2>1. /\ "addStamp" \in Label /\ GoTo(t, "addStamp") /\ UNCHANGED <<cache_size, uri, slot>>
        /\ pc[t] = "content" /\ caches' = [caches EXCEPT ![slot[t]].content = uri[t]]
    BY <1>7 DEF AddContent, Label
  <2>2. slot[t] \in Slot
    BY <1>1, <2>1 DEF SlotInv
  <2>3. \A j \in Slot : caches'[j].url = caches[j].url
    BY <1>1, <2>1, <2>2 DEF TypeOK
  <2>4. pc'[t] = "addStamp" /\ \A w \in Thread \ {t} : pc'[w] = pc[w]
    BY <1>1, <2>1, GoToMoves DEF Moves
  <2>5. Copies(u)' \subseteq Copies(u)
    BY <2>1, <2>3 DEF Copies
  <2>6. YetToAdd(u)' \subseteq YetToAdd(u)
    BY <2>1, <2>4 DEF YetToAdd
  <2> QED
    BY <2>5, <2>6, NoneNew
<1>8. CASE AddStamp(t)
  <2> DEFINE l == IF slot[t] > cache_size THEN "grow" ELSE "addLeave"
  <2>1. /\ l \in Label /\ GoTo(t, l) /\ UNCHANGED <<cache_size, uri, slot>>
        /\ pc[t] = "addStamp" /\ Stamp(slot[t]) /\ l \in {"grow", "addLeave"}
    BY <1>8 DEF AddStamp, Label
  <2> HIDE DEF l
  <2>2. slot[t] \in Slot
    BY <1>1, <2>1 DEF SlotInv
  <2>3. \A j \in Slot : caches'[j].url = caches[j].url
    BY <1>1, <2>1, <2>2, StampKeeps
  <2>4. pc'[t] = l /\ \A w \in Thread \ {t} : pc'[w] = pc[w]
    BY <1>1, <2>1, GoToMoves DEF Moves
  <2>5. Copies(u)' \subseteq Copies(u)
    BY <2>1, <2>3 DEF Copies
  <2>6. YetToAdd(u)' \subseteq YetToAdd(u)
    BY <2>1, <2>4 DEF YetToAdd
  <2> QED
    BY <2>5, <2>6, NoneNew
<1>9. CASE AddGrow(t)
  <2>1. /\ "addLeave" \in Label /\ GoTo(t, "addLeave") /\ UNCHANGED <<caches, uri, slot>>
        /\ pc[t] = "grow" /\ cache_size' = cache_size + 1
    BY <1>9 DEF AddGrow, Label
  <2>2. slot[t] = cache_size + 1 /\ caches[slot[t]].url = uri[t] /\ cache_size \in Nat
    BY <1>1, <2>1, MaxCacheAssumption DEF SlotInv, EntryInv, TypeOK
  <2>3. pc'[t] = "addLeave" /\ \A w \in Thread \ {t} : pc'[w] = pc[w]
    BY <1>1, <2>1, GoToMoves DEF Moves
  <2>4. \A w \in Thread \ {t} : pc[w] \notin {"content", "addStamp", "grow"}
    BY <2>1, WriterAlone
  <2>5. YetToAdd(u)' \subseteq YetToAdd(u) \ {t}
    BY <2>1, <2>3, <2>4 DEF YetToAdd
  <2>6. CASE uri[t] = u
    <3>1. t \in YetToAdd(u)
      BY <2>1, <2>2, <2>6 DEF YetToAdd
    <3>2. \A i \in Slot : i <= cache_size' => i <= cache_size \/ i = slot[t]
      BY <2>1, <2>2, MaxCacheAssumption DEF Slot
    <3>3. Copies(u)' \subseteq Copies(u) \cup {slot[t]}
      BY <2>1, <3>2 DEF Copies
    <3> QED
      BY <2>5, <3>1, <3>3, OneTraded
  <2>7. CASE uri[t] # u
    <3>1. \A i \in Slot : i <= cache_size' => i <= cache_size \/ i = slot[t]
      BY <2>1, <2>2, MaxCacheAssumption DEF Slot
    <3>2. Copies(u)' \subseteq Copies(u)
      BY <2>1, <2>2, <2>7, <3>1 DEF Copies
    <3> QED
      BY <2>5, <3>2, NoneNew
  <2> QED
    BY <2>6, <2>7
<1>10. CASE AddLeave(t)
  <2>1. /\ "idle" \in Label /\ slot' = [slot EXCEPT ![t] = 0] /\ UNCHANGED <<entries, uri>>
        /\ pc' = [Broadcast EXCEPT ![t] = "idle"]
    BY <1>10 DEF AddLeave, Label
  <2>2. Moves(t, "idle")
    BY <1>1, <2>1 DEF Broadcast, Moves, Awake, Sleepers, TypeOK, Label
  <2>3. \A w \in Thread \ {t} : uri'[w] = uri[w] /\ slot'[w] = slot[w]
    BY <1>1, <2>1 DEF TypeOK
  <2>4. t \notin YetToAdd(u)'
    BY <2>2 DEF YetToAdd, Moves
  <2> QED
    BY <2>1, <2>2, <2>3, <2>4, SameEntries
<1> QED
  BY <1>2, <1>3, <1>4, <1>5, <1>6, <1>7, <1>8, <1>9, <1>10

(* Misses of one url at a time may leave it in the cache more than once,   *)
(* but there are never more copies than threads: AddUrl and AddGrow make   *)
(* one for each scan that found none.                                      *)
THEOREM CopiesLimited == Spec => []CopiesBounded
<1>1. Init => CopiesBounded
  <2> SUFFICES ASSUME Init, NEW u \in Url PROVE Bounded(u)
    BY DEF CopiesBounded, Bounded
  <2>1. Copies(u) = {} /\ YetToAdd(u) = {}
    BY NoUrlAssumption DEF Init, Copies, YetToAdd, Slot
  <2>2. Cardinality(Thread) \in Nat
    BY ThreadAssumption, FS_CardinalityType
  <2> QED
    BY <2>1, <2>2, FS_EmptySet DEF Bounded
<1>2. IInv /\ IInv' /\ CopiesBounded /\ [Next]_vars => CopiesBounded'
  <2> SUFFICES ASSUME IInv, IInv', CopiesBounded, [Next]_vars, NEW u \in Url PROVE Bounded(u)'
    BY DEF CopiesBounded, Bounded
  <2>1. Bounded(u)
    BY DEF CopiesBounded, Bounded
  <2>2. CASE UNCHANGED vars
    BY <2>1, <2>2 DEF Bounded, Copies, YetToAdd, vars, entries
  <2>3. CASE Next
    BY <2>1, <2>3, LookupBounded, AddBounded DEF Next, Step
  <2> QED
    BY <2>2, <2>3
<1> QED
  BY <1>1, <1>2, Invariance, PTL DEF Spec

(***************************************************************************)
(* The time stamps keep a least-recently-used list: ProxyCache implements  *)
(* LruCache.  The list is read off the stamps of the live entries, so the  *)
(* first part is about entries ranked by distinct stamps, and the second   *)
(* follows each step of a thread.                                          *)
(***************************************************************************)
Newer(L, c, i) == {j \in L : c[j].timestp > c[i].timestp}
Rank(L, c, i)  == Cardinality(Newer(L, c, i)) + 1

(* The urls of the entries L of c, the last stamped first.                 *)
List(L, c) ==
  [k \in 1..Cardinality(L) |-> c[CHOOSE i \in L : Cardinality(Newer(L, c, i)) = k - 1].url]

Dated(L, c) ==
  /\ IsFiniteSet(L)
  /\ \A i \in L : c[i].timestp \in Nat
  /\ \A i, j \in L : c[i].timestp = c[j].timestp => i = j

(* Ranks are 1..n, each taken by one entry, in the order of the stamps.    *)
LEMMA RankRange ==
  ASSUME NEW L, NEW c, Dated(L, c)
  PROVE  /\ Cardinality(L) \in Nat
         /\ \A i \in L : Rank(L, c, i) \in 1..Cardinality(L)
<1> SUFFICES ASSUME NEW i \in L PROVE Rank(L, c, i) \in 1..Cardinality(L)
  BY FS_CardinalityType DEF Dated
<1>1. Newer(L, c, i) \subseteq L \ {i}
  BY DEF Newer, Dated
<1>2. IsFiniteSet(L \ {i}) /\ Cardinality(L \ {i}) = Cardinality(L) - 1 /\ Cardinality(L) \in Nat
  BY FS_RemoveElement, FS_CardinalityType DEF Dated
<1>3. /\ Cardinality(Newer(L, c, i)) <= Cardinality(L \ {i})
      /\ IsFiniteSet(Newer(L, c, i))
  BY <1>1, <1>2, FS_Subset
<1>4. Cardinality(Newer(L, c, i)) \in Nat
  BY <1>3, FS_CardinalityType
<1> QED
  BY <1>2, <1>3, <1>4 DEF Rank

LEMMA RankOrder ==
  ASSUME NEW L, NEW c, Dated(L, c), NEW i \in L, NEW j \in L, c[i].timestp < c[j].timestp
  PROVE  Rank(L, c, j) < Rank(L, c, i)
<1>1. Newer(L, c, j) \subseteq Newer(L, c, i) /\ j \in Newer(L, c, i) /\ j \notin Newer(L, c, j)
  BY DEF Newer, Dated
<1>2. Newer(L, c, i) \subseteq L
  BY DEF Newer
<1>3. IsFiniteSet(Newer(L, c, i))
  BY <1>2, FS_Subset DEF Dated
<1>4. /\ Cardinality(Newer(L, c, j)) <= Cardinality(Newer(L, c, i))
      /\ Cardinality(Newer(L, c, i)) = Cardinality(Newer(L, c, j)) =>
           Newer(L, c, i) = Newer(L, c, j)
      /\ IsFiniteSet(Newer(L, c, j))
  BY <1>1, <1>3, FS_Subset
<1>5. Cardinality(Newer(L, c, j)) \in Nat /\ Cardinality(Newer(L, c, i)) \in Nat
  BY <1>3, <1>4, FS_CardinalityType
<1> QED
  BY <1>1, <1>4, <1>5 DEF Rank

LEMMA RankDistinct ==
  ASSUME NEW L, NEW c, Dated(L, c), NEW i \in L, NEW j \in L, Rank(L, c, i) = Rank(L, c, j)
  PROVE  i = j
<1>1. Rank(L, c, i) \in Nat /\ Rank(L, c, j) \in Nat
  BY RankRange
<1>2. ~(c[i].timestp < c[j].timestp) /\ ~(c[j].timestp < c[i].timestp)
  BY <1>1, RankOrder
<1> QED
  BY <1>2 DEF Dated

LEMMA RankOnto ==
  ASSUME NEW L, NEW c, Dated(L, c), NEW k \in 1..Cardinality(L)
  PROVE  \E i \in L : Rank(L, c, i) = k
<1> DEFINE n == Cardinality(L)
           f == [i \in L |-> Rank(L, c, i)]
<1>1. n \in Nat /\ f \in [L -> 1..n]
  BY RankRange
<1>2. f \in Injection(L, 1..n)
  BY <1>1, RankDistinct DEF Injection, IsInjective
<1>3. IsFiniteSet(1..n) /\ Cardinality(1..n) = n
  BY <1>1, FS_Interval
<1>4. f \in Surjection(L, 1..n)
  BY <1>2, <1>3, FS_Injection
<1> QED
  BY <1>4 DEF Surjection

LEMMA ListAt ==
  ASSUME NEW L, NEW c, Dated(L, c), NEW i \in L
  PROVE  List(L, c)[Rank(L, c, i)] = c[i].url
<1> DEFINE k == Rank(L, c, i)
           at == CHOOSE j \in L : Cardinality(Newer(L, c, j)) = k - 1
<1>1. k \in 1..Cardinality(L) /\ \A j \in L : Rank(L, c, j) \in Nat
  BY RankRange
<1>2. \A j \in L : Cardinality(Newer(L, c, j)) \in Nat
  <2> SUFFICES ASSUME NEW j \in L PROVE Cardinality(Newer(L, c, j)) \in Nat
    OBVIOUS
  <2>1. Newer(L, c, j) \subseteq L
    BY DEF Newer
  <2> QED
    BY <2>1, FS_Subset, FS_CardinalityType DEF Dated
<1>3. \A j \in L : Cardinality(Newer(L, c, j)) = k - 1 <=> Rank(L, c, j) = k
  BY <1>1, <1>2 DEF Rank
<1>4. at \in L /\ Rank(L, c, at) = k
  BY <1>3
<1>5. at = i
  BY <1>4, RankDistinct
<1> QED
  BY <1>1, <1>5 DEF List

(* A list that has the url of each entry at its rank is the list.          *)
LEMMA ListIs ==
  ASSUME NEW L, NEW c, Dated(L, c), NEW q, NEW U, q \in [1..Cardinality(L) -> U],
         \A i \in L : q[Rank(L, c, i)] = c[i].url
  PROVE  q = List(L, c)
<1>1. \A k \in 1..Cardinality(L) : q[k] = List(L, c)[k]
  BY RankOnto, ListAt
<1> QED
  BY <1>1 DEF List

LEMMA ListType ==
  ASSUME NEW L, NEW c, Dated(L, c), NEW U, \A i \in L : c[i].url \in U
  PROVE  /\ List(L, c) \in Seq(U) /\ Len(List(L, c)) = Cardinality(L)
         /\ DOMAIN List(L, c) = 1..Cardinality(L)
<1>1. \A k \in 1..Cardinality(L) : List(L, c)[k] \in U
  BY RankOnto, ListAt
<1>2. List(L, c) \in [1..Cardinality(L) -> U]
  BY <1>1 DEF List
<1>3. Cardinality(L) \in Nat
  BY RankRange
<1> QED
  BY <1>2, <1>3
-----------------------------------------------------------------------------
(* The list changes with the stamps as the operations of LruCache do.      *)
LEMMA ListKept ==
  ASSUME NEW L, NEW c, NEW d, Dated(L, c), NEW U, \A i \in L : c[i].url \in U,
         \A i \in L : d[i].timestp = c[i].timestp /\ d[i].url = c[i].url
  PROVE  Dated(L, d) /\ List(L, d) = List(L, c)
<1>1. Dated(L, d)
  BY DEF Dated
<1>2. \A i \in L : Rank(L, d, i) = Rank(L, c, i)
  <2> SUFFICES ASSUME NEW i \in L PROVE Newer(L, d, i) = Newer(L, c, i)
    BY DEF Rank
  <2> QED
    BY DEF Newer
<1>3. List(L, c) \in [1..Cardinality(L) -> U]
  BY ListType, LenProperties
<1> QED
  BY <1>1, <1>2, <1>3, ListAt, ListIs

(* The oldest entry is the last of the list.                               *)
LEMMA ListDrop ==
  ASSUME NEW L, NEW c, Dated(L, c), NEW U, \A i \in L : c[i].url \in U,
         NEW o \in L, \A i \in L : c[o].timestp <= c[i].timestp
  PROVE  /\ Dated(L \ {o}, c)
         /\ List(L, c) # <<>>
         /\ List(L \ {o}, c) = SubSeq(List(L, c), 1, Len(List(L, c)) - 1)
<1> DEFINE n == Cardinality(L)
           M == L \ {o}
           q == SubSeq(List(L, c), 1, n - 1)
<1>1. n \in Nat /\ List(L, c) \in Seq(U) /\ Len(List(L, c)) = n /\ n > 0
      /\ \A k \in 1..n : List(L, c)[k] \in U
  <2>1. n \in Nat /\ Rank(L, c, o) \in 1..n
    BY RankRange
  <2>2. List(L, c) \in Seq(U) /\ Len(List(L, c)) = n
    BY ListType
  <2> QED
    BY <2>1, <2>2, ElementOfSeq
<1>2. IsFiniteSet(M) /\ Cardinality(M) = n - 1
  BY FS_RemoveElement DEF Dated
<1>3. Dated(M, c)
  BY <1>2 DEF Dated
<1>4. \A i \in M : Newer(M, c, i) = Newer(L, c, i)
  BY DEF Newer, Dated
<1>5. \A i \in M : Rank(M, c, i) = Rank(L, c, i)
  BY <1>4 DEF Rank
<1>6. q \in Seq(U) /\ Len(q) = n - 1 /\ \A k \in 1..(n - 1) : q[k] = List(L, c)[k]
  BY <1>1, SubSeqProperties
<1>7. q \in [1..(n - 1) -> U]
  BY <1>6, LenProperties
<1>8. \A i \in M : Rank(M, c, i) \in 1..(n - 1)
  BY <1>2, <1>3, RankRange
<1>9. ASSUME NEW i \in M PROVE q[Rank(M, c, i)] = c[i].url
  <2>1. q[Rank(M, c, i)] = List(L, c)[Rank(M, c, i)]
    BY <1>6, <1>8
  <2>2. List(L, c)[Rank(L, c, i)] = c[i].url
    BY ListAt
  <2> QED
    BY <1>5, <2>1, <2>2
<1> HIDE DEF q, M
<1>10. q = List(M, c)
  BY <1>2, <1>3, <1>7, <1>9, ListIs
<1>11. List(L, c) # <<>>
  BY <1>1
<1> QED
  BY <1>1, <1>3, <1>10, <1>11 DEF q, M

Urls(L, c, U)      == \A i \in L : c[i].url \in U
Kept(L, c, d)      == \A i \in L : d[i].timestp = c[i].timestp /\ d[i].url = c[i].url
Newest(L, c, d, e) == d[e].timestp \in Nat /\ \A i \in L : c[i].timestp < d[e].timestp

(* A new entry with the newest stamp is the first of the list.             *)
LEMMA ListFront ==
  ASSUME NEW L, NEW c, NEW d, Dated(L, c), NEW U, Urls(L, c, U), Kept(L, c, d),
         NEW e, e \notin L, d[e].url \in U, Newest(L, c, d, e),
         NEW M, M = L \cup {e}
  PROVE  Dated(M, d) /\ List(M, d) = <<d[e].url>> \o List(L, c)
<1> DEFINE n == Cardinality(L)
           l == List(L, c)
           h == <<d[e].url>>
           q == h \o l
<1>1. /\ n \in Nat /\ l \in Seq(U) /\ Len(l) = n
      /\ h \in Seq(U) /\ Len(h) = 1 /\ h[1] = d[e].url
  BY RankRange, ListType DEF Urls
<1>2. IsFiniteSet(M) /\ Cardinality(M) = n + 1
  BY FS_AddElement DEF Dated
<1>3. Dated(M, d)
  BY <1>2 DEF Dated, Kept, Newest
<1>4. Newer(M, d, e) = {} /\ \A i \in L : Newer(M, d, i) = Newer(L, c, i) \cup {e}
  BY DEF Newer, Dated, Kept, Newest
<1>5. Rank(M, d, e) = 1
  <2>1. Cardinality(Newer(M, d, e)) = 0
    BY <1>4, FS_EmptySet
  <2> QED
    BY <2>1 DEF Rank
<1>6. ASSUME NEW i \in L PROVE Rank(M, d, i) = Rank(L, c, i) + 1
  <2>1. Newer(L, c, i) \subseteq L
    BY DEF Newer
  <2>2. IsFiniteSet(Newer(L, c, i)) /\ e \notin Newer(L, c, i)
    BY <2>1, FS_Subset DEF Dated
  <2>3. Cardinality(Newer(L, c, i) \cup {e}) = Cardinality(Newer(L, c, i)) + 1
    BY <2>2, FS_AddElement
  <2> QED
    BY <1>4, <2>3 DEF Rank
<1> HIDE DEF h, l, n
<1>7. /\ q \in Seq(U) /\ Len(q) = Len(h) + Len(l)
      /\ \A m \in 1..(Len(h) + Len(l)) : q[m] = IF m <= Len(h) THEN h[m] ELSE l[m - Len(h)]
  BY <1>1, ConcatProperties
<1> HIDE DEF q
<1>8. /\ Len(q) = n + 1 /\ 1 \in 1..(n + 1) /\ q[1] = d[e].url
      /\ \A m \in 1..n : q[m + 1] = l[m]
  <2>1. \A m \in 1..n : m + 1 \in 1..(1 + n) /\ ~(m + 1 <= 1) /\ (m + 1) - 1 = m
    BY <1>1
  <2>2. Len(q) = n + 1 /\ 1 \in 1..(n + 1) /\ 1 \in 1..(1 + n)
    BY <1>1, <1>7
  <2>3. \A m \in 1..(1 + n) : q[m] = IF m <= 1 THEN h[m] ELSE l[m - 1]
    BY <1>1, <1>7
  <2>4. q[1] = d[e].url
    BY <1>1, <2>2, <2>3
  <2>5. \A m \in 1..n : q[m + 1] = l[m]
    BY <2>1, <2>3
  <2> QED
    BY <2>2, <2>4, <2>5
<1>9. q \in [1..Cardinality(M) -> U]
  BY <1>2, <1>7, <1>8, LenProperties
<1>10. ASSUME NEW i \in M PROVE q[Rank(M, d, i)] = d[i].url
  <2>1. CASE i = e
    BY <1>5, <1>8, <2>1
  <2>2. CASE i \in L
    <3>1. Rank(L, c, i) \in 1..n
      BY <2>2, RankRange DEF n
    <3>2. l[Rank(L, c, i)] = c[i].url
      BY <2>2, ListAt DEF l
    <3> QED
      BY <1>6, <1>8, <2>2, <3>1, <3>2 DEF Kept
  <2> QED
    BY <2>1, <2>2
<1>11. q = List(M, d)
  <2>1. ASSUME NEW k \in 1..Cardinality(M) PROVE q[k] = List(M, d)[k]
    <3>1. PICK i \in M : Rank(M, d, i) = k
      BY <1>3, RankOnto
    <3>2. q[Rank(M, d, i)] = d[i].url
      BY <1>10
    <3>3. List(M, d)[Rank(M, d, i)] = d[i].url
      BY <1>3, ListAt
    <3> QED
      BY <3>1, <3>2, <3>3
  <2> QED
    BY <1>9, <2>1 DEF List
<1> QED
  BY <1>3, <1>11 DEF q, h, l

(* An entry stamped again moves to the front.                              *)
LEMMA ListTouch ==
  ASSUME NEW L, NEW c, NEW d, Dated(L, c), NEW U, \A i \in L : c[i].url \in U,
         NEW e \in L, d[e].timestp \in Nat, \A i \in L : d[i].url = c[i].url,
         \A i \in L \ {e} : d[i].timestp = c[i].timestp /\ c[i].timestp < d[e].timestp
  PROVE  /\ Dated(L, d)
         /\ \E k \in 1..Len(List(L, c)) :
              List(L, d) = <<List(L, c)[k]>> \o SubSeq(List(L, c), 1, k - 1)
                             \o SubSeq(List(L, c), k + 1, Len(List(L, c)))
<1> DEFINE n == Cardinality(L)
           l == List(L, c)
           k == Rank(L, c, e)
           h == <<l[k]>>
           a == SubSeq(l, 1, k - 1)
           b == SubSeq(l, k + 1, n)
           f == h \o a
           q == f \o b
<1>1. /\ n \in Nat /\ l \in Seq(U) /\ Len(l) = n /\ k \in 1..n
      /\ \A m \in 1..n : l[m] \in U
  BY RankRange, ListType, ElementOfSeq
<1>2. Dated(L, d)
  BY DEF Dated
<1>3. Newer(L, d, e) = {} /\ \A i \in L \ {e} : Newer(L, d, i) = Newer(L, c, i) \cup {e}
  BY DEF Newer, Dated
<1>4. Rank(L, d, e) = 1
  <2>1. Cardinality(Newer(L, d, e)) = 0
    BY <1>3, FS_EmptySet
  <2> QED
    BY <2>1 DEF Rank
<1>5. ASSUME NEW i \in L \ {e}
      PROVE  /\ k < Rank(L, c, i) => Rank(L, d, i) = Rank(L, c, i)
             /\ Rank(L, c, i) < k => Rank(L, d, i) = Rank(L, c, i) + 1
             /\ Rank(L, c, i) # k
  <2>1. Newer(L, c, i) \subseteq L
    BY DEF Newer
  <2>2. IsFiniteSet(Newer(L, c, i))
    BY <2>1, FS_Subset DEF Dated
  <2>3. Cardinality(Newer(L, c, i) \cup {e}) =
          IF e \in Newer(L, c, i) THEN Cardinality(Newer(L, c, i))
          ELSE Cardinality(Newer(L, c, i)) + 1
    BY <2>2, FS_AddElement
  <2>4. Rank(L, d, i) = IF e \in Newer(L, c, i) THEN Rank(L, c, i) ELSE Rank(L, c, i) + 1
    BY <1>3, <2>3 DEF Rank
  <2>5. Rank(L, c, i) \in Nat /\ k \in Nat
    BY RankRange
  <2>6. e \in Newer(L, c, i) => k < Rank(L, c, i)
    BY RankOrder DEF Newer
  <2>7. e \notin Newer(L, c, i) => Rank(L, c, i) < k
    <3>1. e \notin Newer(L, c, i) => c[e].timestp < c[i].timestp
      BY DEF Newer, Dated
    <3> QED
      BY <3>1, RankOrder
  <2> HIDE DEF k
  <2> QED
    BY <2>4, <2>5, <2>6, <2>7
<1> HIDE DEF k
<1>6. h \in Seq(U) /\ Len(h) = 1 /\ h[1] = l[k]
  BY <1>1
<1>7. a \in Seq(U) /\ Len(a) = k - 1 /\ \A m \in 1..(k - 1) : a[m] = l[m]
  <2>1. \A m \in 1..(k - 1) : l[m] \in U
    BY <1>1
  <2>2. /\ a \in Seq(U) /\ Len(a) = IF 1 <= k - 1 THEN (k - 1) - 1 + 1 ELSE 0
        /\ \A m \in 1..((k - 1) - 1 + 1) : a[m] = l[1 + m - 1]
    BY <1>1, <2>1, SubSeqProperties
  <2> HIDE DEF a, l
  <2> QED
    BY <1>1, <2>2
<1>8. b \in Seq(U) /\ Len(b) = n - k /\ \A m \in 1..(n - k) : b[m] = l[k + m]
  <2>1. \A m \in (k + 1)..n : l[m] \in U
    BY <1>1
  <2>2. /\ b \in Seq(U) /\ Len(b) = IF k + 1 <= n THEN n - (k + 1) + 1 ELSE 0
        /\ \A m \in 1..(n - (k + 1) + 1) : b[m] = l[(k + 1) + m - 1]
    BY <1>1, <2>1, SubSeqProperties
  <2> HIDE DEF b, l, n
  <2>3. \A m \in 1..(n - k) : m \in 1..(n - (k + 1) + 1) /\ (k + 1) + m - 1 = k + m
    BY <1>1
  <2> QED
    BY <1>1, <2>2, <2>3
<1> HIDE DEF h, a, b, l, n
<1>9. /\ f \in Seq(U) /\ Len(f) = k
      /\ \A m \in 1..k : f[m] = IF m <= 1 THEN l[k] ELSE l[m - 1]
  <2>1. /\ f \in Seq(U) /\ Len(f) = Len(h) + Len(a)
        /\ \A m \in 1..(Len(h) + Len(a)) :
             f[m] = IF m <= Len(h) THEN h[m] ELSE a[m - Len(h)]
    BY <1>6, <1>7, ConcatProperties
  <2>2. \A m \in 1..k : m \in 1..(1 + (k - 1)) /\ (m <= 1 => m = 1)
                        /\ (~(m <= 1) => m - 1 \in 1..(k - 1))
    BY <1>1
  <2> QED
    BY <1>1, <1>6, <1>7, <2>1, <2>2
<1> HIDE DEF f
<1>10. /\ q \in Seq(U) /\ Len(q) = n
       /\ \A m \in 1..n : q[m] = IF m <= k THEN f[m] ELSE l[m]
  <2>1. /\ q \in Seq(U) /\ Len(q) = Len(f) + Len(b)
        /\ \A m \in 1..(Len(f) + Len(b)) :
             q[m] = IF m <= Len(f) THEN f[m] ELSE b[m - Len(f)]
    BY <1>8, <1>9, ConcatProperties
  <2>2. \A m \in 1..n : m \in 1..(k + (n - k)) /\ (~(m <= k) => m - k \in 1..(n - k))
                        /\ k + (m - k) = m
    BY <1>1
  <2> HIDE DEF q
  <2> QED
    BY <1>1, <1>8, <1>9, <2>1, <2>2
<1>11. q \in [1..n -> U]
  BY <1>1, <1>10, LenProperties
<1>12. ASSUME NEW i \in L PROVE q[Rank(L, d, i)] = d[i].url
  <2>1. Rank(L, c, i) \in 1..n /\ l[Rank(L, c, i)] = d[i].url
    BY <1>12, RankRange, ListAt DEF l, n
  <2>2. CASE i = e
    BY <1>1, <1>4, <1>9, <1>10, <2>1, <2>2 DEF k
  <2>3. CASE i # e /\ k < Rank(L, c, i)
    BY <1>1, <1>5, <1>10, <2>1, <2>3
  <2>4. CASE i # e /\ Rank(L, c, i) < k
    <3> DEFINE m == Rank(L, c, i) + 1
    <3>1. m \in 1..n /\ m \in 1..k /\ m <= k /\ ~(m <= 1) /\ m - 1 = Rank(L, c, i)
      BY <1>1, <2>1, <2>4
    <3>2. q[m] = l[m - 1]
      BY <1>9, <1>10, <3>1
    <3> QED
      BY <1>5, <2>1, <2>4, <3>1, <3>2
  <2>5. i # e => k < Rank(L, c, i) \/ Rank(L, c, i) < k
    <3>1. i # e => Rank(L, c, i) # k
      BY <1>5
    <3> QED
      BY <1>1, <2>1, <3>1
  <2> QED
    BY <2>2, <2>3, <2>4, <2>5
<1> HIDE DEF q
<1>13. q = List(L, d)
  <2>1. ASSUME NEW m \in 1..Cardinality(L) PROVE q[m] = List(L, d)[m]
    <3>1. PICK i \in L : Rank(L, d, i) = m
      BY <1>2, RankOnto
    <3> QED
      BY <1>2, <1>12, <3>1, ListAt
  <2> QED
    BY <1>11, <2>1 DEF List, n
<1> QED
  BY <1>1, <1>2, <1>13 DEF q, f, h, a, b, l, n
-----------------------------------------------------------------------------
(***************************************************************************)
(* The live entries, and the refinement.                                   *)
(***************************************************************************)
Recency == [k \in 1..Cardinality(Live) |-> caches[ByRecency(k)].url]

LEMMA RecencyIsList ==
  Recency = List(Live, caches) /\ Recency' = List(Live', caches')
BY DEF Recency, List, ByRecency, Newer

(* The stamps of the live entries differ, and timestp is newer than all.   *)
StampInv == Dated(Live, caches) /\ \A i \in Live : caches[i].timestp < timestp

Busy  == {"url", "content", "addStamp", "grow"}
Fills == {"url", "content", "addStamp"}

LiveAt(p, s, n) ==
  {i \in Slot : i <= n \/ \E w \in Thread : p[w] = "grow" /\ s[w] = i}
    \ {s[w] : w \in {v \in Thread : p[v] \in {"url", "content", "addStamp"}}}

LEMMA LiveIs ==
  Live = LiveAt(pc, slot, cache_size) /\ Live' = LiveAt(pc', slot', cache_size')
BY DEF Live, Filling, LiveAt

LEMMA NoneBusy ==
  ASSUME NEW p, NEW s, NEW n, \A w \in Thread : p[w] \notin Busy
  PROVE  LiveAt(p, s, n) = {i \in Slot : i <= n}
BY DEF LiveAt, Busy

(* The entries and who fills them stay as they are: the list does not move.*)
LEMMA ListStutters ==
  ASSUME IInv, StampInv, Live' = Live, timestp' = timestp,
         \A i \in Live : caches'[i].timestp = caches[i].timestp /\ caches'[i].url = caches[i].url
  PROVE  StampInv' /\ Recency' = Recency
<1>1. \A i \in Live : caches[i].url \in Url \cup {NoUrl}
  BY DEF IInv, TypeOK, Live
<1>2. Dated(Live, caches)
  BY DEF StampInv
<1>3. Dated(Live, caches') /\ List(Live, caches') = List(Live, caches)
  BY <1>1, <1>2, ListKept
<1> QED
  BY <1>3, RecencyIsList DEF StampInv

LEMMA QuietStep ==
  ASSUME IInv, StampInv, NEW t \in Thread, NEW l \in Label, Moves(t, l), pc[t] \notin Busy,
         l \notin Busy, UNCHANGED <<entries, timestp>>,
         \A w \in Thread \ {t} : slot'[w] = slot[w]
  PROVE  StampInv' /\ Recency' = Recency
<1>1. \A w \in Thread \ {t} : pc[w] \in Busy \/ pc'[w] \in Busy => pc'[w] = pc[w]
  BY DEF Moves, Busy, Sleepers, Awake
<1>2. pc'[t] \notin Busy
  BY DEF Moves
<1>3. LiveAt(pc', slot', cache_size) = LiveAt(pc, slot, cache_size)
  <2>1. \A w \in Thread : pc'[w] = "grow" <=> pc[w] = "grow"
    BY <1>1, <1>2 DEF Busy
  <2>2. \A w \in Thread : pc[w] \in Busy => slot'[w] = slot[w]
    OBVIOUS
  <2>3. {v \in Thread : pc'[v] \in {"url", "content", "addStamp"}} =
          {v \in Thread : pc[v] \in {"url", "content", "addStamp"}}
    BY <1>1, <1>2 DEF Busy
  <2> QED
    BY <2>1, <2>2, <2>3 DEF LiveAt, Busy
<1>4. Live' = Live
  BY <1>3, LiveIs DEF entries
<1> QED
  BY <1>4, ListStutters DEF entries

(* The steps that neither stamp an entry nor fill one.                     *)
LEMMA Quiet ==
  ASSUME IInv, NEW t \in Thread,
         \/ \E u \in Url : SrcEnter(t, u)
         \/ SrcRetest(t) \/ SrcHit(t) \/ SrcMiss(t) \/ SrcSend(t) \/ SrcLeave(t) \/ GiveUp(t)
         \/ AddEnter(t) \/ AddLeave(t) \/ SpuriousWakeup(t)
  PROVE  \E l \in Label : /\ Moves(t, l) /\ l \notin Busy /\ pc[t] \notin Busy
                          /\ UNCHANGED <<entries, timestp>>
                          /\ \A w \in Thread \ {t} : slot'[w] = slot[w]
<1>1. TypeOK
  BY DEF IInv
<1>2. ASSUME NEW l \in Label \ Busy, GoTo(t, l), pc[t] \notin Busy,
             UNCHANGED <<entries, timestp>>, \A w \in Thread \ {t} : slot'[w] = slot[w]
      PROVE  \E m \in Label : /\ Moves(t, m) /\ m \notin Busy /\ pc[t] \notin Busy
                              /\ UNCHANGED <<entries, timestp>>
                              /\ \A w \in Thread \ {t} : slot'[w] = slot[w]
  BY <1>1, <1>2, GoToMoves
<1>3. CASE \E u \in Url : SrcEnter(t, u)
  <2>1. (IF write_cnt > 0 THEN "srcWait" ELSE "scan") \in Label \ Busy
    BY DEF Label, Busy
  <2> QED
    BY <1>2, <1>3, <2>1 DEF SrcEnter, Busy
<1>4. CASE SrcRetest(t)
  <2>1. (IF write_cnt > 0 THEN "srcWait" ELSE "scan") \in Label \ Busy
    BY DEF Label, Busy
  <2> QED
    BY <1>2, <1>4, <2>1 DEF SrcRetest, Busy
<1>5. CASE SrcHit(t)
  <2>1. "srcStamp" \in Label \ Busy /\ pc[t] \notin Busy
    BY <1>5 DEF SrcHit, Label, Busy
  <2>2. \A w \in Thread \ {t} : slot'[w] = slot[w]
    BY <1>1, <1>5 DEF SrcHit, TypeOK
  <2> QED
    BY <1>2, <1>5, <2>1, <2>2 DEF SrcHit
<1>6. CASE SrcMiss(t) \/ SrcSend(t)
  <2>1. "srcLeave" \in Label \ Busy
    BY DEF Label, Busy
  <2> QED
    BY <1>2, <1>6, <2>1 DEF SrcMiss, SrcSend, Busy
<1>7. CASE SrcLeave(t)
  <2> DEFINE l == AfterSrc(t)
  <2>1. l \in Label /\ l \notin Busy /\ pc[t] \notin Busy /\ UNCHANGED <<entries, timestp>>
    BY <1>7 DEF SrcLeave, AfterSrc, Label, Busy
  <2>2. \A w \in Thread \ {t} : slot'[w] = slot[w]
    BY <1>1, <1>7 DEF SrcLeave, TypeOK
  <2>3. GoTo(t, l) \/ \E w \in Sleepers : pc' = [pc EXCEPT ![t] = l, ![w] = Awake(w)]
    BY <1>7 DEF SrcLeave
  <2>4. pc[t] = "srcLeave"
    BY <1>7 DEF SrcLeave
  <2> HIDE DEF l
  <2>5. ASSUME NEW w \in Sleepers, pc' = [pc EXCEPT ![t] = l, ![w] = Awake(w)]
        PROVE  Moves(t, l)
    BY <1>1, <2>1, <2>4, <2>5 DEF Moves, Sleepers, Awake, TypeOK, Label
  <2>6. Moves(t, l)
    BY <1>1, <2>1, <2>3, <2>5, GoToMoves
  <2> QED
    BY <2>1, <2>2, <2>6
<1>8. CASE GiveUp(t)
  <2>1. "idle" \in Label \ Busy
    BY DEF Label, Busy
  <2> QED
    BY <1>2, <1>8, <2>1 DEF GiveUp, Busy
<1>9. CASE AddEnter(t)
  <2>1. "addWait" \in Label \ Busy /\ "pick" \in Label \ Busy
    BY DEF Label, Busy
  <2> QED
    BY <1>2, <1>9, <2>1 DEF AddEnter, Busy
<1>10. CASE AddLeave(t)
  <2>1. "idle" \in Label \ Busy /\ pc[t] \notin Busy
    BY <1>10 DEF AddLeave, Label, Busy
  <2>2. \A w \in Thread \ {t} : slot'[w] = slot[w]
    BY <1>1, <1>10 DEF AddLeave, TypeOK
  <2>3. Moves(t, "idle")
    BY <1>1, <1>10 DEF AddLeave, Broadcast, Moves, Awake, Sleepers, TypeOK, Label
  <2> QED
    BY <1>10, <2>1, <2>2, <2>3 DEF AddLeave
<1>11. CASE SpuriousWakeup(t)
  <2>1. Awake(t) \in Label \ Busy
    BY DEF Awake, Label, Busy
  <2> QED
    BY <1>2, <1>11, <2>1 DEF SpuriousWakeup, Sleepers, Busy
<1> QED
  BY <1>3, <1>4, <1>5, <1>6, <1>7, <1>8, <1>9, <1>10, <1>11

(* A hit moves the entry to the front: nobody is filling one meanwhile.    *)
LEMMA RefinesTouch ==
  ASSUME IInv, StampInv, NEW t \in Thread, SrcStamp(t)
  PROVE  StampInv' /\ \E k \in 1..Len(Recency) : Abstract!Touch(k)
<1> DEFINE e == slot[t]
<1>1. /\ TypeOK /\ GoTo(t, "send") /\ pc[t] = "srcStamp" /\ "send" \in Label /\ Stamp(e)
      /\ UNCHANGED <<cache_size, slot>>
  BY DEF SrcStamp, IInv, Label
<1>2. e \in 1..cache_size /\ e \in Slot
  BY <1>1, MaxCacheAssumption DEF IInv, SlotInv, TypeOK, Slot
<1>3. \A w \in Thread : pc[w] \notin Busy
  BY <1>1 DEF IInv, LockInv, Exclusion, Reading, Writing, Busy
<1>4. \A w \in Thread : pc'[w] \notin Busy
  BY <1>1, <1>3, GoToMoves DEF Moves, Busy
<1>5. Live = {i \in Slot : i <= cache_size} /\ Live' = Live
  <2>1. LiveAt(pc, slot, cache_size) = {i \in Slot : i <= cache_size}
    BY <1>3, NoneBusy
  <2>2. LiveAt(pc', slot', cache_size') = {i \in Slot : i <= cache_size'}
    BY <1>4, NoneBusy
  <2> QED
    BY <1>1, <2>1, <2>2, LiveIs
<1>6. e \in Live /\ \A i \in Live : i \in Slot
  BY <1>1, <1>2, <1>5 DEF TypeOK
<1>7. /\ caches'[e].timestp = timestp /\ timestp \in Nat /\ timestp' = timestp + 1
      /\ \A i \in Slot : caches'[i].url = caches[i].url
      /\ \A i \in Slot \ {e} : caches'[i].timestp = caches[i].timestp
  BY <1>1, <1>2 DEF Stamp, TypeOK
<1>8. \A i \in Live : caches[i].url \in Url \cup {NoUrl}
  BY <1>1, <1>6 DEF TypeOK
<1>9. \A i \in Live : caches[i].timestp < timestp
  BY DEF StampInv
<1>10. Dated(Live, caches)
  BY DEF StampInv
<1> HIDE DEF e
<1>11. /\ Dated(Live, caches')
       /\ \E k \in 1..Len(List(Live, caches)) :
            List(Live, caches') = <<List(Live, caches)[k]>> \o SubSeq(List(Live, caches), 1, k - 1)
              \o SubSeq(List(Live, caches), k + 1, Len(List(Live, caches)))
  BY <1>6, <1>7, <1>8, <1>9, <1>10, ListTouch
<1>12. StampInv'
  <2>1. \A i \in Live : caches[i].timestp \in Nat
    BY <1>10 DEF Dated
  <2>2. \A i \in Live : caches'[i].timestp < timestp'
    BY <1>6, <1>7, <1>9, <2>1
  <2> QED
    BY <1>5, <1>11, <2>2 DEF StampInv
<1>13. \E k \in 1..Len(Recency) :
         Recency' = <<Recency[k]>> \o SubSeq(Recency, 1, k - 1)
                      \o SubSeq(Recency, k + 1, Len(Recency))
  BY <1>5, <1>11, RecencyIsList
<1>14. \E k \in 1..Len(Recency) : Abstract!Touch(k)
  BY <1>13 DEF Abstract!Touch, Recency
<1> QED
  BY <1>12, <1>14

LEMMA OldestIsLeast ==
  ASSUME TypeOK, Older # {}
  PROVE  \A i \in Older : caches[OldestEntry].timestp <= caches[i].timestp
BY OldestChosen DEF TypeOK, Older

(* The writer that takes the entry with the smallest stamp evicts the last *)
(* of the list; one that takes a free entry changes nothing yet.           *)
LEMMA RefinesPick ==
  ASSUME IInv, StampInv, NEW t \in Thread, AddPick(t)
  PROVE  StampInv' /\ (Recency' = Recency \/ Abstract!Evict)
<1> DEFINE e == IF cache_size < MaxCache THEN cache_size + 1 ELSE OldestEntry
<1>1. /\ TypeOK /\ GoTo(t, "url") /\ pc[t] = "pick" /\ "url" \in Label
      /\ UNCHANGED <<caches, cache_size, timestp>> /\ slot' = [slot EXCEPT ![t] = e]
  BY DEF AddPick, IInv, Label, entries
<1>2. e \in Slot
  BY <1>1, OldestIsSlot, MaxCacheAssumption DEF TypeOK, Slot
<1>3. \A w \in Thread \ {t} : pc[w] \notin Busy /\ pc'[w] = pc[w]
  BY <1>1, WriterAlone, GoToMoves DEF Busy
<1>4. pc'[t] = "url" /\ slot'[t] = e
  BY <1>1, GoToMoves DEF Moves, TypeOK
<1>5. Live = {i \in Slot : i <= cache_size} /\ Live' = Live \ {e}
  <2>1. \A w \in Thread : pc[w] \notin Busy
    BY <1>1, <1>3 DEF Busy
  <2>2. LiveAt(pc, slot, cache_size) = {i \in Slot : i <= cache_size}
    BY <2>1, NoneBusy
  <2>3. \A w \in Thread \ {t} : pc'[w] \notin Busy
    BY <1>3
  <2>4. pc'[t] \in Fills
    BY <1>4 DEF Fills
  <2>5. LiveAt(pc', slot', cache_size') = {i \in Slot : i <= cache_size'} \ {slot'[t]}
    BY <2>3, <2>4 DEF LiveAt, Busy, Fills
  <2> QED
    BY <1>1, <1>4, <2>2, <2>5, LiveIs
<1>6. \A i \in Live : i \in Slot /\ caches[i].url \in Url \cup {NoUrl} /\ caches[i].timestp \in Nat
  BY <1>1, <1>5 DEF TypeOK
<1>7. Dated(Live, caches) /\ \A i \in Live : caches[i].timestp < timestp
  BY DEF StampInv
<1>8. CASE cache_size < MaxCache
  <2>1. e \notin Live
    BY <1>1, <1>5, <1>8 DEF TypeOK
  <2>2. Live' = Live
    BY <1>5, <2>1
  <2> QED
    BY <1>1, <2>2, ListStutters
<1>9. CASE ~(cache_size < MaxCache)
  <2>1. Live = Slot
    BY <1>1, <1>5, <1>9, MaxCacheAssumption DEF TypeOK, Slot
  <2>2. Older = Slot
    BY <1>7, <2>1 DEF Older
  <2>3. e \in Live /\ \A i \in Live : caches[e].timestp <= caches[i].timestp
    BY <1>1, <1>2, <1>6, <1>9, <2>1, <2>2, OldestIsLeast
  <2> HIDE DEF e
  <2>4. /\ Dated(Live \ {e}, caches)
        /\ List(Live, caches) # <<>>
        /\ List(Live \ {e}, caches) = SubSeq(List(Live, caches), 1, Len(List(Live, caches)) - 1)
    BY <1>6, <1>7, <2>3, ListDrop
  <2>5. StampInv'
    BY <1>1, <1>5, <1>7, <2>4 DEF StampInv
  <2>6. Recency # <<>> /\ Recency' = SubSeq(Recency, 1, Len(Recency) - 1)
    BY <1>1, <1>5, <2>4, RecencyIsList
  <2>7. Abstract!Evict
    BY <2>6 DEF Abstract!Evict, Recency
  <2> QED
    BY <2>5, <2>7
<1> QED
  BY <1>8, <1>9

(* The url and then the content of an entry that no reader can find.       *)
LEMMA RefinesFill ==
  ASSUME IInv, StampInv, NEW t \in Thread, AddUrl(t) \/ AddContent(t)
  PROVE  StampInv' /\ Recency' = Recency
<1>1. /\ TypeOK /\ pc[t] \in {"url", "content"} /\ UNCHANGED <<cache_size, timestp, slot>>
      /\ GoTo(t, "content") \/ GoTo(t, "addStamp")
      /\ "content" \in Label /\ "addStamp" \in Label
  BY DEF AddUrl, AddContent, IInv, Label
<1>2. \A w \in Thread \ {t} : pc[w] \notin Busy /\ pc'[w] = pc[w]
  BY <1>1, WriterAlone, GoToMoves DEF Busy
<1>3. pc'[t] \in Fills
  BY <1>1, GoToMoves DEF Moves, Fills
<1>4. Live = {i \in Slot : i <= cache_size} \ {slot[t]} /\ Live' = Live
  <2>1. pc[t] \in Fills /\ \A w \in Thread \ {t} : pc[w] \notin Busy
    BY <1>1, <1>2 DEF Fills
  <2>2. LiveAt(pc, slot, cache_size) = {i \in Slot : i <= cache_size} \ {slot[t]}
    BY <2>1 DEF LiveAt, Busy, Fills
  <2>3. \A w \in Thread \ {t} : pc'[w] \notin Busy
    BY <1>2
  <2>4. LiveAt(pc', slot', cache_size') = {i \in Slot : i <= cache_size'} \ {slot'[t]}
    BY <1>3, <2>3 DEF LiveAt, Busy, Fills
  <2> QED
    BY <1>1, <2>2, <2>4, LiveIs
<1>5. \A i \in Slot \ {slot[t]} : caches'[i] = caches[i]
  BY <1>1 DEF AddUrl, AddContent, TypeOK
<1> QED
  BY <1>1, <1>4, <1>5, ListStutters

(* The stamp makes the new entry the first of the list.                    *)
LEMMA RefinesInsert ==
  ASSUME IInv, StampInv, NEW t \in Thread, AddStamp(t)
  PROVE  StampInv' /\ \E u \in Url : Abstract!Insert(u)
<1> DEFINE l == IF slot[t] > cache_size THEN "grow" ELSE "addLeave"
           e == slot[t]
<1>1. /\ TypeOK /\ GoTo(t, l) /\ pc[t] = "addStamp" /\ l \in Label /\ Stamp(e)
      /\ UNCHANGED <<cache_size, slot>>
      /\ l \in {"grow", "addLeave"} /\ (l = "addLeave" => ~(e > cache_size))
  BY DEF AddStamp, IInv, Label
<1>2. e \in Slot /\ e <= cache_size + 1 /\ uri[t] \in Url /\ caches[e].url = uri[t]
  BY <1>1 DEF IInv, SlotInv, EntryInv
<1> HIDE DEF l, e
<1>3. \A w \in Thread \ {t} : pc[w] \notin Busy /\ pc'[w] = pc[w]
  BY <1>1, WriterAlone, GoToMoves DEF Busy
<1>4. pc'[t] = l
  BY <1>1, GoToMoves DEF Moves
<1>5. Live = {i \in Slot : i <= cache_size} \ {e} /\ Live' = Live \cup {e}
  <2>1. /\ \A w \in Thread \ {t} : pc[w] \notin Busy
        /\ \A w \in Thread \ {t} : pc'[w] \notin Busy
    BY <1>3
  <2>2. LiveAt(pc, slot, cache_size) = {i \in Slot : i <= cache_size} \ {e}
    <3>1. pc[t] \in Fills
      BY <1>1 DEF Fills
    <3> QED
      BY <2>1, <3>1 DEF LiveAt, Busy, Fills, e
  <2>3. slot'[t] = e /\ cache_size' = cache_size /\ cache_size \in Nat /\ e \in Nat
    BY <1>1, <1>2 DEF e, TypeOK, Slot
  <2>4. CASE l = "grow"
    <3>1. LiveAt(pc', slot', cache_size') = {i \in Slot : i <= cache_size' \/ i = slot'[t]}
      BY <1>4, <2>1, <2>4 DEF LiveAt, Busy
    <3> QED
      BY <1>2, <2>2, <2>3, <3>1, LiveIs
  <2>5. CASE l = "addLeave"
    <3>1. \A w \in Thread : pc'[w] \notin Busy
      BY <1>4, <2>1, <2>5 DEF Busy
    <3>2. LiveAt(pc', slot', cache_size') = {i \in Slot : i <= cache_size'}
      BY <3>1, NoneBusy
    <3>3. e <= cache_size
      BY <1>1, <2>3, <2>5
    <3> QED
      BY <1>2, <2>2, <2>3, <3>2, <3>3, LiveIs
  <2> QED
    BY <1>1, <2>4, <2>5
<1>6. /\ caches'[e].timestp = timestp /\ timestp \in Nat /\ timestp' = timestp + 1
      /\ \A i \in Slot : caches'[i].url = caches[i].url
      /\ \A i \in Slot \ {e} : caches'[i].timestp = caches[i].timestp
  BY <1>1, <1>2 DEF Stamp, TypeOK
<1>7. \A i \in Live : i \in Slot \ {e} /\ caches[i].url \in Url \cup {NoUrl}
  BY <1>1, <1>5 DEF TypeOK
<1>8. Dated(Live, caches) /\ \A i \in Live : caches[i].timestp < timestp
  BY DEF StampInv
<1>9. /\ Dated(Live', caches')
      /\ List(Live', caches') = <<uri[t]>> \o List(Live, caches)
  <2>1. e \notin Live /\ caches'[e].url = uri[t] /\ uri[t] \in Url \cup {NoUrl}
    BY <1>2, <1>5, <1>6
  <2>2. Kept(Live, caches, caches')
    BY <1>6, <1>7 DEF Kept
  <2>3. /\ caches'[e].url \in Url \cup {NoUrl} /\ Newest(Live, caches, caches', e)
        /\ Urls(Live, caches, Url \cup {NoUrl}) /\ Dated(Live, caches)
    BY <1>6, <1>7, <1>8, <2>1 DEF Newest, Urls
  <2>4. Live' = Live \cup {e}
    BY <1>5
  <2>5. Dated(Live', caches') /\ List(Live', caches') = <<caches'[e].url>> \o List(Live, caches)
    BY <2>1, <2>2, <2>3, <2>4, ListFront
  <2> QED
    BY <2>1, <2>5
<1>10. StampInv'
  <2>1. \A i \in Live : caches[i].timestp \in Nat
    BY <1>8 DEF Dated
  <2>2. \A i \in Live' : caches'[i].timestp < timestp'
    BY <1>5, <1>6, <1>7, <1>8, <2>1
  <2> QED
    BY <1>9, <2>2 DEF StampInv
<1>11. Len(Recency) < MaxCache
  <2>1. Live \subseteq Slot \ {e}
    BY <1>7
  <2>2. IsFiniteSet(Slot) /\ Cardinality(Slot) = MaxCache
    BY MaxCacheAssumption, FS_Interval DEF Slot
  <2>3. IsFiniteSet(Slot \ {e}) /\ Cardinality(Slot \ {e}) = MaxCache - 1
    BY <1>2, <2>2, FS_RemoveElement
  <2>4. Cardinality(Live) <= MaxCache - 1 /\ IsFiniteSet(Live)
    BY <2>1, <2>3, FS_Subset
  <2>5. Cardinality(Live) \in Nat
    BY <2>4, FS_CardinalityType
  <2>6. Len(List(Live, caches)) = Cardinality(Live)
    BY <1>7, <1>8, ListType
  <2> QED
    BY <2>4, <2>5, <2>6, MaxCacheAssumption, RecencyIsList
<1>12. Recency' = <<uri[t]>> \o Recency
  BY <1>9, RecencyIsList
<1>13. Abstract!Insert(uri[t])
  BY <1>11, <1>12 DEF Abstract!Insert, Recency
<1> QED
  BY <1>2, <1>10, <1>13

LEMMA RefinesGrow ==
  ASSUME IInv, StampInv, NEW t \in Thread, AddGrow(t)
  PROVE  StampInv' /\ Recency' = Recency
<1>1. /\ TypeOK /\ GoTo(t, "addLeave") /\ pc[t] = "grow" /\ "addLeave" \in Label
      /\ cache_size' = cache_size + 1 /\ UNCHANGED <<caches, timestp, slot>>
  BY DEF AddGrow, IInv, Label
<1>2. slot[t] = cache_size + 1 /\ cache_size \in Nat
  BY <1>1, MaxCacheAssumption DEF IInv, SlotInv, TypeOK
<1>3. \A w \in Thread \ {t} : pc[w] \notin Busy /\ pc'[w] = pc[w]
  BY <1>1, WriterAlone, GoToMoves DEF Busy
<1>4. pc'[t] = "addLeave"
  BY <1>1, GoToMoves DEF Moves
<1>5. Live' = Live
  <2>1. pc[t] = "grow" /\ \A w \in Thread \ {t} : pc[w] \notin Busy
    BY <1>1, <1>3
  <2>2. LiveAt(pc, slot, cache_size) = {i \in Slot : i <= cache_size \/ i = slot[t]}
    BY <2>1 DEF LiveAt, Busy
  <2>3. \A w \in Thread : pc'[w] \notin Busy
    BY <1>3, <1>4 DEF Busy
  <2>4. LiveAt(pc', slot', cache_size') = {i \in Slot : i <= cache_size'}
    BY <2>3, NoneBusy
  <2>5. \A i \in Slot : i <= cache_size + 1 <=> i <= cache_size \/ i = cache_size + 1
    BY <1>2 DEF Slot
  <2> QED
    BY <1>1, <1>2, <2>2, <2>4, <2>5, LiveIs
<1> QED
  BY <1>1, <1>5, ListStutters
-----------------------------------------------------------------------------
LEMMA InitList == Init => StampInv /\ Abstract!Init
<1> SUFFICES ASSUME Init PROVE StampInv /\ Abstract!Init
  OBVIOUS
<1>1. Live = {}
  BY DEF Init, Live, Slot
<1>2. StampInv
  BY <1>1, FS_EmptySet DEF StampInv, Dated
<1>3. Recency = <<>>
  BY <1>1, FS_EmptySet DEF Recency
<1> QED
  BY <1>2, <1>3 DEF Abstract!Init, Recency

LEMMA RefinesStep ==
  IInv /\ StampInv /\ [Next]_vars => StampInv' /\ (Abstract!Next \/ Recency' = Recency)
<1> SUFFICES ASSUME IInv, StampInv, [Next]_vars
             PROVE  StampInv' /\ (Abstract!Next \/ Recency' = Recency)
  OBVIOUS
<1>1. ASSUME NEW t \in Thread, NEW l \in Label, Moves(t, l), l \notin Busy, pc[t] \notin Busy,
             UNCHANGED <<entries, timestp>>, \A w \in Thread \ {t} : slot'[w] = slot[w]
      PROVE  StampInv' /\ Recency' = Recency
  BY <1>1, QuietStep
<1>2. ASSUME NEW t \in Thread,
             \/ \E u \in Url : SrcEnter(t, u)
             \/ SrcRetest(t) \/ SrcHit(t) \/ SrcMiss(t) \/ SrcSend(t) \/ SrcLeave(t) \/ GiveUp(t)
             \/ AddEnter(t) \/ AddLeave(t) \/ SpuriousWakeup(t)
      PROVE  StampInv' /\ Recency' = Recency
  BY <1>1, <1>2, Quiet
<1>3. ASSUME NEW t \in Thread, SrcStamp(t) PROVE StampInv' /\ Abstract!Next
  BY <1>3, RefinesTouch DEF Abstract!Next, Recency
<1>4. ASSUME NEW t \in Thread, AddPick(t)
      PROVE  StampInv' /\ (Abstract!Next \/ Recency' = Recency)
  BY <1>4, RefinesPick DEF Abstract!Next
<1>5. ASSUME NEW t \in Thread, AddUrl(t) \/ AddContent(t) \/ AddGrow(t)
      PROVE  StampInv' /\ Recency' = Recency
  BY <1>5, RefinesFill, RefinesGrow
<1>6. ASSUME NEW t \in Thread, AddStamp(t) PROVE StampInv' /\ Abstract!Next
  BY <1>6, RefinesInsert DEF Abstract!Next
<1>7. CASE UNCHANGED vars
  <2>1. Live' = Live
    BY <1>7 DEF vars, entries, Live, Filling
  <2> QED
    BY <1>7, <2>1, ListStutters DEF vars, entries
<1>8. CASE Next
  BY <1>2, <1>3, <1>4, <1>5, <1>6, <1>8 DEF Next, Step
<1> QED
  BY <1>7, <1>8

(* The entries, ordered by time stamp, behave as a least-recently-used     *)
(* list: a hit moves its entry to the front, an eviction takes the last,   *)
(* and cache_add puts the new one in front, whatever the threads do.       *)
THEOREM Refinement == Spec => LruSpec
<1>1. IInv /\ StampInv /\ [Next]_vars => [Abstract!Next]_Recency
  BY RefinesStep
<1> QED
  BY <1>1, InitList, RefinesStep, Invariance, PTL DEF Spec, LruSpec, Abstract!Spec, Recency
=============================================================================
