----------------------------- MODULE ProxyCache -----------------------------
(***************************************************************************)
(* The object cache of proxylab-handout/cache.c and the worker threads     *)
(* that use it as do_request of proxy.c does: look an url up, and on a     *)
(* miss fetch the object and add it.                                       *)
(*                                                                         *)
(* cache_src and cache_add are the two sides of a readers-writer lock made *)
(* of the counters read_cnt and write_cnt, one mutex and one condition     *)
(* variable.  A stretch of code under the mutex is one action; what is     *)
(* done outside it (the scan, the copies, the write to the client) is      *)
(* split where another thread could see the difference.                    *)
(***************************************************************************)
EXTENDS Naturals, FiniteSets

CONSTANTS Thread, Url,
          MaxCache,    \* MAX_CACHE_SIZE
          NoUrl,       \* url and content of an entry that was never written
          TimeBound    \* bound: no lookup starts once timestp has reached it

ASSUME MaxCacheAssumption == MaxCache \in Nat \ {0}
ASSUME NoUrlAssumption    == NoUrl \notin Url
ASSUME ThreadAssumption   == IsFiniteSet(Thread)

Slot == 1..MaxCache

VARIABLES
  caches,                        \* the entries; content is named by its url
  cache_size,
  read_cnt, write_cnt, timestp,
  pc,                            \* where each thread is
  uri,                           \* the url of its request
  slot                           \* the entry it works on, 0 for none

entries  == <<caches, cache_size>>
counters == <<read_cnt, write_cnt>>
vars     == <<entries, counters, timestp, pc, uri, slot>>

Init ==
  /\ caches = [i \in Slot |-> [url |-> NoUrl, content |-> NoUrl, timestp |-> 0]]
  /\ cache_size = 0
  /\ read_cnt = 0 /\ write_cnt = 0 /\ timestp = 0
  /\ pc = [t \in Thread |-> "idle"]
  /\ uri = [t \in Thread |-> NoUrl]
  /\ slot = [t \in Thread |-> 0]

(* Threads in pthread_cond_wait, and where each goes when it wakes.        *)
Sleepers == {t \in Thread : pc[t] \in {"srcWait", "addWait"}}
Awake(t) == IF pc[t] = "srcWait" THEN "srcTest" ELSE "addTest"
Broadcast == [t \in Thread |-> IF t \in Sleepers THEN Awake(t) ELSE pc[t]]

GoTo(t, label) == pc' = [pc EXCEPT ![t] = label]

(***************************************************************************)
(* cache_src                                                               *)
(***************************************************************************)
(* Faulty variant: a reader does not wait for a writer.                    *)
SrcEnterAtOnce(t, u) ==
  /\ pc[t] = "idle" /\ timestp < TimeBound
  /\ uri' = [uri EXCEPT ![t] = u]
  /\ read_cnt' = read_cnt + 1
  /\ GoTo(t, "scan")
  /\ UNCHANGED <<entries, write_cnt, timestp, slot>>

(* A reader counts itself before it waits for the writer to leave.         *)
SrcEnter(t, u) ==
  /\ pc[t] = "idle" /\ timestp < TimeBound
  /\ uri' = [uri EXCEPT ![t] = u]
  /\ read_cnt' = read_cnt + 1
  /\ GoTo(t, IF write_cnt > 0 THEN "srcWait" ELSE "scan")
  /\ UNCHANGED <<entries, write_cnt, timestp, slot>>

SrcRetest(t) ==
  /\ pc[t] = "srcTest"
  /\ GoTo(t, IF write_cnt > 0 THEN "srcWait" ELSE "scan")
  /\ UNCHANGED <<entries, counters, timestp, uri, slot>>

(* Faulty variant: the scan stops one entry short.                         *)
HitsButLast(u) == {i \in Slot : i < cache_size /\ caches[i].url = u}

Hits(u) == {i \in Slot : i <= cache_size /\ caches[i].url = u}

SrcHit(t) ==
  /\ pc[t] = "scan"
  /\ \E i \in Hits(uri[t]) :
       /\ \A j \in Hits(uri[t]) : i <= j
       /\ slot' = [slot EXCEPT ![t] = i]
  /\ GoTo(t, "srcStamp")
  /\ UNCHANGED <<entries, counters, timestp, uri>>

SrcMiss(t) ==
  /\ pc[t] = "scan" /\ Hits(uri[t]) = {}
  /\ GoTo(t, "srcLeave")
  /\ UNCHANGED <<entries, counters, timestp, uri, slot>>

Stamp(i) ==
  /\ caches' = [caches EXCEPT ![i].timestp = timestp]
  /\ timestp' = timestp + 1

SrcStamp(t) ==
  /\ pc[t] = "srcStamp"
  /\ Stamp(slot[t])
  /\ GoTo(t, "send")
  /\ UNCHANGED <<cache_size, counters, uri, slot>>

(* Rio_writen of the content, as long as the client takes.                 *)
SrcSend(t) ==
  /\ pc[t] = "send"
  /\ GoTo(t, "srcLeave")
  /\ UNCHANGED <<entries, counters, timestp, uri, slot>>

(* A hit ends the request, a miss goes on to the server.                   *)
AfterSrc(t) == IF slot[t] # 0 THEN "idle" ELSE "fetch"

(* Faulty variant: the last reader signals nobody.                         *)
SrcLeaveSilent(t) ==
  /\ pc[t] = "srcLeave"
  /\ read_cnt' = read_cnt - 1
  /\ slot' = [slot EXCEPT ![t] = 0]
  /\ GoTo(t, AfterSrc(t))
  /\ UNCHANGED <<entries, write_cnt, timestp, uri>>

(* The last reader signals: one thread that waits, whichever, wakes up.    *)
SrcLeave(t) ==
  /\ pc[t] = "srcLeave"
  /\ read_cnt' = read_cnt - 1
  /\ slot' = [slot EXCEPT ![t] = 0]
  /\ IF read_cnt = 1 /\ Sleepers # {}
     THEN \E w \in Sleepers : pc' = [pc EXCEPT ![t] = AfterSrc(t), ![w] = Awake(w)]
     ELSE GoTo(t, AfterSrc(t))
  /\ UNCHANGED <<entries, write_cnt, timestp, uri>>

(* The server cannot be reached, or the object is too large to be cached.  *)
GiveUp(t) ==
  /\ pc[t] = "fetch"
  /\ GoTo(t, "idle")
  /\ UNCHANGED <<entries, counters, timestp, uri, slot>>

(***************************************************************************)
(* cache_add                                                               *)
(***************************************************************************)
AddEnter(t) ==
  /\ pc[t] \in {"fetch", "addTest"}
  /\ IF read_cnt > 0 \/ write_cnt > 0
     THEN GoTo(t, "addWait") /\ UNCHANGED write_cnt
     ELSE GoTo(t, "pick") /\ write_cnt' = write_cnt + 1
  /\ UNCHANGED <<entries, read_cnt, timestp, uri, slot>>

(* Faulty variant: the scan for the victim keeps the largest time stamp.   *)
NewestEntry ==
  CHOOSE i \in Slot : \A j \in Slot : caches[j].timestp <= caches[i].timestp

(* The scan for a victim: the first entry with the smallest time stamp, or *)
(* the entry it starts from when none is older than timestp.               *)
Older == {i \in Slot : caches[i].timestp < timestp}

OldestEntry ==
  IF Older = {} THEN 1
  ELSE CHOOSE i \in Older : \A j \in Older :
         \/ caches[i].timestp < caches[j].timestp
         \/ caches[i].timestp = caches[j].timestp /\ i <= j

(* Faulty variant: a full cache is taken for one with a free entry.        *)
AddPickBeyond(t) ==
  /\ pc[t] = "pick"
  /\ slot' = [slot EXCEPT ![t] = IF cache_size <= MaxCache THEN cache_size + 1 ELSE OldestEntry]
  /\ GoTo(t, "url")
  /\ UNCHANGED <<entries, counters, timestp, uri>>

AddPick(t) ==
  /\ pc[t] = "pick"
  /\ slot' = [slot EXCEPT ![t] = IF cache_size < MaxCache THEN cache_size + 1 ELSE OldestEntry]
  /\ GoTo(t, "url")
  /\ UNCHANGED <<entries, counters, timestp, uri>>

AddUrl(t) ==
  /\ pc[t] = "url"
  /\ caches' = [caches EXCEPT ![slot[t]].url = uri[t]]
  /\ GoTo(t, "content")
  /\ UNCHANGED <<cache_size, counters, timestp, uri, slot>>

AddContent(t) ==
  /\ pc[t] = "content"
  /\ caches' = [caches EXCEPT ![slot[t]].content = uri[t]]
  /\ GoTo(t, "addStamp")
  /\ UNCHANGED <<cache_size, counters, timestp, uri, slot>>

AddStamp(t) ==
  /\ pc[t] = "addStamp"
  /\ Stamp(slot[t])
  /\ GoTo(t, IF slot[t] > cache_size THEN "grow" ELSE "addLeave")
  /\ UNCHANGED <<cache_size, counters, uri, slot>>

AddGrow(t) ==
  /\ pc[t] = "grow"
  /\ cache_size' = cache_size + 1
  /\ GoTo(t, "addLeave")
  /\ UNCHANGED <<caches, counters, timestp, uri, slot>>

(* Faulty variant: signal for broadcast.                                   *)
AddLeaveSignal(t) ==
  /\ pc[t] = "addLeave"
  /\ write_cnt' = write_cnt - 1
  /\ slot' = [slot EXCEPT ![t] = 0]
  /\ IF Sleepers # {}
     THEN \E w \in Sleepers : pc' = [pc EXCEPT ![t] = "idle", ![w] = Awake(w)]
     ELSE GoTo(t, "idle")
  /\ UNCHANGED <<entries, read_cnt, timestp, uri>>

AddLeave(t) ==
  /\ pc[t] = "addLeave"
  /\ write_cnt' = write_cnt - 1
  /\ slot' = [slot EXCEPT ![t] = 0]
  /\ pc' = [Broadcast EXCEPT ![t] = "idle"]
  /\ UNCHANGED <<entries, read_cnt, timestp, uri>>

SpuriousWakeup(t) ==
  /\ t \in Sleepers
  /\ GoTo(t, Awake(t))
  /\ UNCHANGED <<entries, counters, timestp, uri, slot>>
-----------------------------------------------------------------------------
(* What a thread does on its own once it has a request.                    *)
Step(t) ==
  \/ SrcRetest(t) \/ SrcHit(t) \/ SrcMiss(t) \/ SrcStamp(t) \/ SrcSend(t) \/ SrcLeave(t)
  \/ AddEnter(t) \/ AddPick(t) \/ AddUrl(t) \/ AddContent(t) \/ AddStamp(t) \/ AddGrow(t)
  \/ AddLeave(t)

Next ==
  \E t \in Thread : Step(t) \/ GiveUp(t) \/ SpuriousWakeup(t) \/ \E u \in Url : SrcEnter(t, u)

Spec == Init /\ [][Next]_vars

(* Threads that can run do, and clients and servers answer in the end.  A  *)
(* thread is owed no spurious wakeup, and no request has to come.          *)
Fairness == \A t \in Thread : WF_vars(Step(t))

FairSpec == Spec /\ Fairness
-----------------------------------------------------------------------------
TypeOK ==
  /\ caches \in [Slot -> [url : Url \cup {NoUrl}, content : Url \cup {NoUrl}, timestp : Nat]]
  /\ cache_size \in 0..MaxCache
  /\ read_cnt \in Nat /\ write_cnt \in Nat /\ timestp \in Nat
  /\ pc \in [Thread -> {"idle", "srcTest", "srcWait", "scan", "srcStamp", "send", "srcLeave",
                        "fetch", "addTest", "addWait", "pick", "url", "content", "addStamp",
                        "grow", "addLeave"}]
  /\ uri \in [Thread -> Url \cup {NoUrl}]
  /\ slot \in [Thread -> 0..MaxCache]

Reading == {t \in Thread : pc[t] \in {"scan", "srcStamp", "send", "srcLeave"}}
Writing == {t \in Thread : pc[t] \in {"pick", "url", "content", "addStamp", "grow", "addLeave"}}

(* The counters make a readers-writer lock: a thread that copies into an   *)
(* entry is alone, though neither the scan nor the copies hold the mutex.  *)
Exclusion == \A w \in Writing : Writing = {w} /\ Reading = {}

(* A hit sends the client the object it asked for, whole, for as long as   *)
(* the write to a slow client takes: no writer replaces the entry meanwhile.*)
HitServesOwnObject ==
  \A t \in Thread : pc[t] \in {"srcStamp", "send"} =>
    caches[slot[t]].url = uri[t] /\ caches[slot[t]].content = uri[t]

(* No wakeup is lost, although the last reader signals one thread only: a  *)
(* thread sleeps only while somebody who will wake it is inside, or while  *)
(* a thread just woken is about to enter and will pass the baton on.       *)
SleepersHaveWaker ==
  Sleepers # {} =>
    \/ write_cnt > 0
    \/ \A t \in Sleepers : pc[t] = "addWait"
       /\ (read_cnt > 0 \/ \E w \in Thread : pc[w] = "addTest")

(* Two misses of one url at a time leave it in the cache twice.  But while *)
(* a copy is there no further lookup misses: the copies and the threads    *)
(* that are yet to add one never outnumber the threads.                    *)
Copies(u) == {i \in Slot : i <= cache_size /\ caches[i].url = u}

YetToAdd(u) ==
  {t \in Thread : uri[t] = u /\
     \/ pc[t] = "srcLeave" /\ slot[t] = 0
     \/ pc[t] \in {"fetch", "addTest", "addWait", "pick", "url"}
     \/ pc[t] \in {"content", "addStamp", "grow"} /\ slot[t] > cache_size}

CopiesBounded ==
  \A u \in Url : Cardinality(Copies(u)) + Cardinality(YetToAdd(u)) <= Cardinality(Thread)

(* The entries a reader could find, less the one that is being replaced,   *)
(* in the order of their time stamps, are a least-recently-used list.      *)
Filling == {slot[t] : t \in {w \in Thread : pc[w] \in {"url", "content", "addStamp"}}}
Live    == {i \in Slot : i <= cache_size \/ \E t \in Thread : pc[t] = "grow" /\ slot[t] = i}
             \ Filling

ByRecency(k) ==
  CHOOSE i \in Live : Cardinality({j \in Live : caches[j].timestp > caches[i].timestp}) = k - 1

Abstract == INSTANCE LruCache WITH
  recency <- [k \in 1..Cardinality(Live) |-> caches[ByRecency(k)].url]

LruSpec == Abstract!Spec

(* A lookup is never starved: new readers do not wait for one another, and *)
(* a writer that leaves lets every reader in.                              *)
LookupsProceed == \A t \in Thread : pc[t] \in {"srcTest", "srcWait"} ~> pc[t] = "scan"
=============================================================================
