-------------------------- MODULE MallocDriverProofs -------------------------
(***************************************************************************)
(* mdriver.c linked with mm_blk.c, for every heap size, chunk size, number *)
(* of ids, set of sizes and trace.                                         *)
(*                                                                         *)
(* BlockHeapProofs says what each routine does to the layout of blocks     *)
(* that the tags describe.  A replay of a trace is then a sequence of      *)
(* layouts, one after each request, with the place of every live id        *)
(* (Course): eval_mm_valid finds out which requests can be served, and     *)
(* since the routines depend on nothing but the layout, eval_mm_util and   *)
(* eval_mm_speed are served as it was.  Known is how far the course is     *)
(* known.                                                                  *)
(*                                                                         *)
(* DriverInv is inductive: the heap is on its course (CourseInv), the      *)
(* payloads hold what the driver filled them with and the ranges recorded  *)
(* are the live payloads (RecordInv).  From it follow the tags' agreement, *)
(* the driver never failing where it was served before, and the refinement *)
(* of AbstractHeap; AccountInv adds the totals of eval_mm_util and         *)
(* CountInv the bounds of the counters.                                    *)
(***************************************************************************)
EXTENDS BlockHeapProofs

(***************************************************************************)
(* Traces.                                                                 *)
(***************************************************************************)
Request == [type : {"ALLOC", "REALLOC", "FREE"}, index : Ids, size : Sizes \cup {0}]

(* What the trace ops last asks for id in its first n requests.            *)
Asked(ops, n, id) == {k \in 1..n : ops[k].index = id}
LastSize(ops, n, id) ==
  ops[CHOOSE k \in Asked(ops, n, id) : \A j \in Asked(ops, n, id) : j <= k].size

(* What read_trace reads: an id is allocated when it is not live, and      *)
(* reallocated or freed when it is.                                        *)
Sane(ops) ==
  /\ ops \in Seq(Request)
  /\ \A k \in 1..Len(ops) : /\ (ops[k].type = "ALLOC") <=> (ops[k].index \notin LiveAfter(ops, k - 1))
                            /\ (ops[k].type = "FREE") <=> (ops[k].size = 0)

(* Before the first request no id is live.                                 *)
LEMMA LiveStart ==
  ASSUME NEW ops
  PROVE  LiveAfter(ops, 0) = {}
BY DEF LiveAfter

(* A request makes its id live, or takes it from the live ones.            *)
LEMMA LiveStep ==
  ASSUME NEW ops, NEW n \in Nat, n > 0, ops[n].index \in Ids
  PROVE  LiveAfter(ops, n) = IF ops[n].type = "FREE" THEN LiveAfter(ops, n - 1) \ {ops[n].index}
                             ELSE LiveAfter(ops, n - 1) \cup {ops[n].index}
<1>1. PICK m \in Nat : n = m + 1
  <2>1. n - 1 \in Nat /\ n = (n - 1) + 1
    OBVIOUS
  <2> QED
    BY <2>1
<1>2. \A k \in 1..n : k \in 1..m \/ k = n
  BY <1>1
<1>3. \A k \in 1..m : k \in 1..n /\ k # n /\ k \in Nat
  BY <1>1
<1>4. n \in 1..n /\ n \notin (n + 1)..n
  BY <1>1
<1>5. \A k \in 1..m : n \in (k + 1)..n /\ \A j \in (k + 1)..n : j \in (k + 1)..m \/ j = n
  BY <1>1
<1>6. \A k \in 1..m : \A j \in (k + 1)..m : j \in (k + 1)..n
  BY <1>1
<1>7. \A j \in (n + 1)..n : FALSE
  BY <1>1
<1>8. ASSUME NEW id \in Ids
      PROVE  id \in LiveAfter(ops, n) <=>
               IF ops[n].index = id THEN ops[n].type # "FREE" ELSE id \in LiveAfter(ops, m)
  <2>1. CASE ops[n].index = id /\ ops[n].type # "FREE"
    BY <2>1, <1>4, <1>7 DEF LiveAfter
  <2>2. CASE ops[n].index = id /\ ops[n].type = "FREE"
    <3> SUFFICES ASSUME NEW k \in 1..n, ops[k].index = id, ops[k].type # "FREE",
                        \A j \in (k + 1)..n : ops[j].index = id => ops[j].type # "FREE"
                 PROVE  FALSE
      BY <2>2 DEF LiveAfter
    <3>1. k \in 1..m
      BY <1>2, <2>2
    <3> QED
      BY <3>1, <1>5, <2>2
  <2>3. CASE ops[n].index # id
    <3>1. ASSUME id \in LiveAfter(ops, n) PROVE id \in LiveAfter(ops, m)
      <4>1. PICK k \in 1..n : /\ ops[k].index = id /\ ops[k].type # "FREE"
                              /\ \A j \in (k + 1)..n : ops[j].index = id => ops[j].type # "FREE"
        BY <3>1 DEF LiveAfter
      <4>2. k \in 1..m
        BY <1>2, <2>3, <4>1
      <4>3. \A j \in (k + 1)..m : ops[j].index = id => ops[j].type # "FREE"
        BY <4>1, <4>2, <1>6
      <4> QED
        BY <4>1, <4>2, <4>3 DEF LiveAfter
    <3>2. ASSUME id \in LiveAfter(ops, m) PROVE id \in LiveAfter(ops, n)
      <4>1. PICK k \in 1..m : /\ ops[k].index = id /\ ops[k].type # "FREE"
                              /\ \A j \in (k + 1)..m : ops[j].index = id => ops[j].type # "FREE"
        BY <3>2 DEF LiveAfter
      <4>2. \A j \in (k + 1)..n : ops[j].index = id => ops[j].type # "FREE"
        BY <4>1, <1>5, <2>3
      <4> QED
        BY <4>1, <4>2, <1>3 DEF LiveAfter
    <3> QED
      BY <2>3, <3>1, <3>2
  <2> QED
    BY <2>1, <2>2, <2>3
<1>9. LiveAfter(ops, n) \subseteq Ids /\ LiveAfter(ops, m) \subseteq Ids
  BY DEF LiveAfter
<1>10. n - 1 = m
  BY <1>1
<1> QED
  BY <1>8, <1>9, <1>10

(* The size last asked for an id is that of its last request.              *)
LEMMA LastStep ==
  ASSUME NEW ops, NEW n \in Nat, n > 0, NEW id
  PROVE  LastSize(ops, n, id) = IF ops[n].index = id THEN ops[n].size ELSE LastSize(ops, n - 1, id)
<1>1. CASE ops[n].index = id
  <2>1. n \in Asked(ops, n, id) /\ \A j \in Asked(ops, n, id) : j \in Nat /\ j <= n
    BY <1>1 DEF Asked
  <2>2. PICK c : c = CHOOSE k \in Asked(ops, n, id) : \A j \in Asked(ops, n, id) : j <= k
    OBVIOUS
  <2>3. c \in Asked(ops, n, id) /\ n <= c
    BY <2>1, <2>2
  <2>4. c = n
    BY <2>1, <2>3
  <2>5. LastSize(ops, n, id) = ops[c].size
    BY <2>2, Zenon DEF LastSize
  <2> QED
    BY <1>1, <2>4, <2>5
<1>2. CASE ops[n].index # id
  <2>1. Asked(ops, n, id) = Asked(ops, n - 1, id)
    BY <1>2 DEF Asked
  <2> QED
    BY <1>2, <2>1 DEF LastSize
<1> QED
  BY <1>1, <1>2

(* One more request leaves alone what the earlier ones mean.               *)
LEMMA LiveAppend ==
  ASSUME NEW ops \in Seq(Request), NEW e \in Request, NEW n \in 0..Len(ops)
  PROVE  LiveAfter(Append(ops, e), n) = LiveAfter(ops, n)
<1>1. \A k \in 1..n : Append(ops, e)[k] = ops[k]
  OBVIOUS
<1>2. \A k \in 1..n : \A j \in (k + 1)..n : j \in 1..n
  OBVIOUS
<1> QED
  BY <1>1, <1>2 DEF LiveAfter

(* A request as read_trace reads it keeps the trace sane.                  *)
LEMMA SaneAppend ==
  ASSUME NEW ops, Sane(ops), NEW e \in Request,
         (e.type = "ALLOC") <=> (e.index \notin LiveAfter(ops, Len(ops))),
         (e.type = "FREE") <=> (e.size = 0)
  PROVE  Sane(Append(ops, e))
<1>1. ops \in Seq(Request) /\ Len(ops) \in Nat
  BY DEF Sane
<1>2. PICK new : new = Append(ops, e)
  OBVIOUS
<1>3. new \in Seq(Request) /\ Len(new) = Len(ops) + 1
  BY <1>1, <1>2
<1>4. ASSUME NEW k \in 1..Len(new)
      PROVE  /\ (new[k].type = "ALLOC") <=> (new[k].index \notin LiveAfter(new, k - 1))
             /\ (new[k].type = "FREE") <=> (new[k].size = 0)
  <2>1. k - 1 \in 0..Len(ops)
    BY <1>1, <1>3
  <2>2. LiveAfter(new, k - 1) = LiveAfter(ops, k - 1)
    BY <2>1, <1>1, <1>2, LiveAppend
  <2>3. CASE k = Len(ops) + 1
    BY <2>2, <2>3, <1>1, <1>2
  <2>4. CASE k # Len(ops) + 1
    <3>1. k \in 1..Len(ops) /\ new[k] = ops[k]
      BY <2>4, <1>1, <1>2, <1>3
    <3> QED
      BY <3>1, <2>2 DEF Sane
  <2> QED
    BY <2>3, <2>4
<1> QED
  BY <1>2, <1>3, <1>4 DEF Sane

(***************************************************************************)
(* Replays: what a request makes of a layout and of the payloads' places,  *)
(* when the package can serve it.  Nothing but the requests decides it, so *)
(* a trace takes the same course each time it is replayed.                 *)
(***************************************************************************)
Served(s, e, t) ==
  LET n     == Need(e.size)
      grown == AllocLayout(s.layout, n)
      moved == [s.at EXCEPT ![e.index] = HomeAt(s.layout, n)]
  IN  \/ e.type = "ALLOC" /\ Room(s.layout, n) /\ t = [layout |-> grown, at |-> moved]
      \/ /\ e.type = "REALLOC" /\ Room(s.layout, n)
         /\ t = [layout |-> FreeLayout(grown, s.at[e.index]), at |-> moved]
      \/ /\ e.type = "FREE"
         /\ t = [layout |-> FreeLayout(s.layout, s.at[e.index]), at |-> s.at]

(* R holds what the first K - 1 requests lead to, from the initial layout. *)
Replay(R, ops, K) ==
  /\ R[1].layout = StartLayout /\ R[1].at = Uninitialised
  /\ \A k \in 1..(K - 1) : Served(R[k], ops[k], R[k + 1])

(* The allocated blocks are those of the live ids, one each, with room for *)
(* what was asked.                                                         *)
Fits(s, ops, n) ==
  /\ Layout(s.layout) /\ Apart(s.layout) /\ s.at \in [Ids -> Nat]
  /\ s.layout.used = {s.at[id] : id \in LiveAfter(ops, n)}
  /\ \A x, y \in LiveAfter(ops, n) : s.at[x] = s.at[y] => x = y
  /\ \A id \in LiveAfter(ops, n) :
       LastSize(ops, n, id) \in Sizes /\ LastSize(ops, n, id) + 8 <= s.layout.size[s.at[id]]

(* Every size a trace asks for has a block.                                *)
LEMMA SizeFacts ==
  \A size \in Sizes : /\ size \in Nat /\ size > 0 /\ size % 4 = 0
                      /\ Need(size) \in Nat /\ Need(size) >= 16 /\ Need(size) % 8 = 0
                      /\ size + 8 <= Need(size)
BY NeedFacts, DriverAssumption DEF WSIZE

(* What is known of the k-th request of a sane trace.                      *)
LEMMA SaneRequest ==
  ASSUME NEW ops, Sane(ops), NEW k \in 1..Len(ops)
  PROVE  /\ k \in Nat /\ k > 0 /\ ops[k] \in Request /\ ops[k].index \in Ids
         /\ ops[k].type \in {"ALLOC", "REALLOC", "FREE"}
         /\ (ops[k].type = "ALLOC") <=> (ops[k].index \notin LiveAfter(ops, k - 1))
         /\ ops[k].type # "FREE" => ops[k].size \in Sizes
         /\ ops[k].type = "FREE" => ops[k].size = 0
<1>1. ops \in Seq(Request) /\ Len(ops) \in Nat
  BY DEF Sane
<1>2. ops[k] \in Request
  BY <1>1
<1> QED
  BY <1>1, <1>2 DEF Sane, Request

(* A request served keeps the live ids in blocks of their own that are     *)
(* large enough, and the break does not fall.                              *)
LEMMA ServedFits ==
  ASSUME NEW ops, Sane(ops), NEW k \in 1..Len(ops), NEW s, Fits(s, ops, k - 1),
         NEW t, Served(s, ops[k], t)
  PROVE  Fits(t, ops, k) /\ s.layout.brk <= t.layout.brk
<1>1. PICK e, id, live, L : e = ops[k] /\ id = e.index /\ live = LiveAfter(ops, k - 1) /\ L = s.layout
  OBVIOUS
<1>2. /\ k \in Nat /\ k > 0 /\ id \in Ids /\ e.type \in {"ALLOC", "REALLOC", "FREE"}
      /\ (e.type = "ALLOC") <=> (id \notin live)
      /\ e.type # "FREE" => e.size \in Sizes
  BY <1>1, SaneRequest
<1>3. LiveAfter(ops, k) = IF e.type = "FREE" THEN live \ {id} ELSE live \cup {id}
  BY <1>1, <1>2, LiveStep
<1>4. \A x : LastSize(ops, k, x) = IF id = x THEN e.size ELSE LastSize(ops, k - 1, x)
  BY <1>1, <1>2, LastStep
<1>5. /\ Layout(L) /\ Apart(L) /\ s.at \in [Ids -> Nat] /\ live \subseteq Ids
      /\ L.used = {s.at[x] : x \in live}
      /\ \A x, y \in live : s.at[x] = s.at[y] => x = y
      /\ \A x \in live : LastSize(ops, k - 1, x) \in Sizes
                         /\ LastSize(ops, k - 1, x) + 8 <= L.size[s.at[x]]
  BY <1>1 DEF Fits, LiveAfter
<1>6. L.brk \in Nat /\ \A x \in live : s.at[x] \in L.used
  BY <1>5, LayoutFacts
<1>7. CASE e.type = "FREE"
  <2>1. id \in live /\ t = [layout |-> FreeLayout(L, s.at[id]), at |-> s.at]
    BY <1>1, <1>2, <1>7 DEF Served
  <2>2. PICK M : M = FreeLayout(L, s.at[id])
    OBVIOUS
  <2>3. /\ Layout(M) /\ Apart(M) /\ M.brk = L.brk /\ M.used = L.used \ {s.at[id]}
        /\ \A x \in M.used : M.size[x] = L.size[x]
    BY <1>5, <1>6, <2>1, <2>2, FreeFacts
  <2>4. t.layout = M /\ t.at = s.at
    BY <2>1, <2>2
  <2>5. LiveAfter(ops, k) = live \ {id}
    BY <1>3, <1>7
  <2>6. M.used = {s.at[x] : x \in live \ {id}}
    BY <1>5, <2>1, <2>3
  <2>7. \A x \in live \ {id} : LastSize(ops, k, x) \in Sizes
                               /\ LastSize(ops, k, x) + 8 <= M.size[s.at[x]]
    BY <1>4, <1>5, <2>3, <2>6
  <2>8. Fits(t, ops, k)
    BY <1>5, <2>3, <2>4, <2>5, <2>6, <2>7 DEF Fits
  <2> QED
    BY <1>1, <1>6, <2>3, <2>4, <2>8
<1>8. CASE e.type # "FREE"
  <2>1. PICK n : n = Need(e.size)
    OBVIOUS
  <2>2. e.size \in Sizes /\ n \in Nat /\ n >= 16 /\ n % 8 = 0 /\ e.size + 8 <= n /\ e.size \in Nat
    BY <1>2, <1>8, <2>1, SizeFacts
  <2>3. PICK q, M : q = HomeAt(L, n) /\ M = AllocLayout(L, n)
    OBVIOUS
  <2>4. Room(L, n) /\ t.at = [s.at EXCEPT ![id] = q]
         /\ t.layout = IF e.type = "ALLOC" THEN M ELSE FreeLayout(M, s.at[id])
    BY <1>1, <1>8, <2>1, <2>3 DEF Served
  <2>5. /\ Layout(M) /\ Apart(M) /\ M.brk >= L.brk
        /\ M.used = L.used \cup {q} /\ q \notin L.used /\ M.size[q] >= n
        /\ \A x \in L.used : M.size[x] = L.size[x]
    <3>1. Layout(L) /\ Apart(L) /\ Room(L, n) /\ n \in Nat /\ n >= 16 /\ n % 8 = 0
      BY <1>5, <2>2, <2>4
    <3> QED
      BY <3>1, <2>3, AllocFacts
  <2>6. q \in Nat /\ M.size[q] \in Nat /\ M.brk \in Nat
    <3>1. q \in Tiles(M)
      BY <2>5, LayoutFacts
    <3> QED
      BY <3>1, <2>5, LayoutFacts
  <2>7. e.size + 8 <= M.size[q]
    BY <2>2, <2>5, <2>6
  <2>8. LiveAfter(ops, k) = live \cup {id}
    BY <1>3, <1>8
  <2>9. t.at \in [Ids -> Nat] /\ t.at[id] = q /\ \A x \in live \ {id} : t.at[x] = s.at[x]
    BY <1>2, <1>5, <2>4, <2>6
  <2>10. \A x \in live \ {id} : /\ t.at[x] \in L.used
                               /\ LastSize(ops, k, x) \in Sizes
                               /\ LastSize(ops, k, x) + 8 <= M.size[t.at[x]]
    BY <1>4, <1>5, <1>6, <2>5, <2>9
  <2>11. \A x, y \in live \cup {id} : t.at[x] = t.at[y] => x = y
    BY <1>5, <2>5, <2>9, <2>10
  <2>12. LastSize(ops, k, id) = e.size
    BY <1>4
  <2>13. CASE e.type = "ALLOC"
    <3>1. id \notin live /\ t.layout = M
      BY <1>2, <2>4, <2>13
    <3>2. M.used = {t.at[x] : x \in live \cup {id}}
      BY <1>5, <2>5, <2>9, <3>1
    <3>3. Fits(t, ops, k)
      BY <2>2, <2>5, <2>7, <2>8, <2>9, <2>10, <2>11, <2>12, <3>1, <3>2 DEF Fits
    <3> QED
      BY <1>1, <1>6, <2>5, <2>6, <3>1, <3>3
  <2>14. CASE e.type # "ALLOC"
    <3>1. id \in live /\ s.at[id] \in L.used
      BY <1>2, <1>6, <2>14
    <3>2. PICK N : N = FreeLayout(M, s.at[id])
      OBVIOUS
    <3>3. s.at[id] \in M.used /\ s.at[id] # q
      BY <2>5, <3>1
    <3>4. /\ Layout(N) /\ Apart(N) /\ N.brk = M.brk /\ N.used = M.used \ {s.at[id]}
          /\ \A x \in N.used : N.size[x] = M.size[x]
      BY <2>5, <3>2, <3>3, FreeFacts
    <3>5. t.layout = N
      BY <2>4, <2>14, <3>2
    <3>6. \A x \in live \ {id} : s.at[x] # s.at[id]
      BY <1>5, <3>1
    <3>7. N.used = {t.at[x] : x \in live \cup {id}}
      <4>1. \A x \in live \cup {id} : t.at[x] \in N.used
        BY <1>5, <2>5, <2>9, <3>1, <3>3, <3>4, <3>6
      <4>2. \A y \in N.used : y = q \/ \E x \in live : y = s.at[x] /\ x # id
        BY <1>5, <2>5, <3>4
      <4>3. \A y \in N.used : \E x \in live \cup {id} : y = t.at[x]
        BY <2>9, <4>2
      <4> QED
        BY <4>1, <4>3
    <3>8. \A x \in live \cup {id} : LastSize(ops, k, x) \in Sizes
                                    /\ LastSize(ops, k, x) + 8 <= N.size[t.at[x]]
      BY <2>2, <2>7, <2>9, <2>10, <2>12, <3>4, <3>7
    <3>9. Fits(t, ops, k)
      BY <2>8, <2>9, <2>11, <3>4, <3>5, <3>7, <3>8 DEF Fits
    <3> QED
      BY <1>1, <1>6, <2>5, <2>6, <3>4, <3>5, <3>9
  <2> QED
    BY <2>13, <2>14
<1> QED
  BY <1>7, <1>8

(* The blocks whose payload a request leaves alone.                        *)
Kept(s, e) == IF e.type = "ALLOC" THEN s.layout.used ELSE s.layout.used \ {s.at[e.index]}

(* What mm_malloc or mm_realloc returns, r, for the request e.             *)
Fails(h, s, e, r) == r = Result(h, NULL) /\ ~Room(s.layout, Need(e.size))

Succeeds(h, s, e, r, t) ==
  /\ Served(s, e, t) /\ r.ptr = t.at[e.index] /\ Tags(r.heap, t.layout)
  /\ Untouched(h, r.heap, s.layout, Kept(s, e))
  /\ e.type = "REALLOC" => Copied(h, r.heap, s.layout, s.at[e.index], r.ptr, e.size)

(* mm_malloc serves the request, or there was no room for it.              *)
LEMMA MallocOutcome ==
  ASSUME NEW ops, Sane(ops), NEW k \in 1..Len(ops), NEW s, Fits(s, ops, k - 1),
         NEW h, Tags(h, s.layout), ops[k].type = "ALLOC",
         NEW r, r = blk!mm_malloc(h, ops[k].size)
  PROVE  Fails(h, s, ops[k], r) \/ \E t : Succeeds(h, s, ops[k], r, t)
<1>1. PICK e, L : e = ops[k] /\ L = s.layout
  OBVIOUS
<1>2. PICK n : n = Need(e.size)
  OBVIOUS
<1>3. e.index \in Ids /\ e.size \in Nat /\ e.size > 0
  BY <1>1, SaneRequest, SizeFacts
<1>4. Apart(L) /\ s.at \in [Ids -> Nat] /\ Tags(h, L)
  BY <1>1 DEF Fits
<1>5. /\ Room(L, n) => /\ r.ptr = HomeAt(L, n) /\ Tags(r.heap, AllocLayout(L, n))
                       /\ Untouched(h, r.heap, L, L.used)
      /\ ~Room(L, n) => r = Result(h, NULL)
  <2>1. r = blk!mm_malloc(h, e.size)
    BY <1>1
  <2> QED
    BY <2>1, <1>2, <1>3, <1>4, MallocAllocates
<1>6. CASE ~Room(L, n)
  BY <1>1, <1>2, <1>5, <1>6 DEF Fails
<1>7. CASE Room(L, n)
  <2>1. PICK t : t = [layout |-> AllocLayout(L, n), at |-> [s.at EXCEPT ![e.index] = HomeAt(L, n)]]
    OBVIOUS
  <2>2. Served(s, e, t)
    BY <1>1, <1>2, <1>7, <2>1 DEF Served
  <2>3. t.at[e.index] = HomeAt(L, n) /\ t.layout = AllocLayout(L, n)
    BY <1>3, <1>4, <2>1
  <2>4. Succeeds(h, s, e, r, t)
    BY <1>1, <1>5, <1>7, <2>2, <2>3 DEF Succeeds, Kept
  <2> QED
    BY <1>1, <2>4
<1> QED
  BY <1>6, <1>7

(* mm_realloc serves the request, or there was no room for it.             *)
LEMMA ReallocOutcome ==
  ASSUME NEW ops, Sane(ops), NEW k \in 1..Len(ops), NEW s, Fits(s, ops, k - 1),
         NEW h, Tags(h, s.layout), ops[k].type = "REALLOC",
         NEW r, r = blk!mm_realloc(h, s.at[ops[k].index], ops[k].size)
  PROVE  Fails(h, s, ops[k], r) \/ \E t : Succeeds(h, s, ops[k], r, t)
<1>1. PICK e, L : e = ops[k] /\ L = s.layout
  OBVIOUS
<1>2. PICK n : n = Need(e.size)
  OBVIOUS
<1>3. e.index \in Ids /\ e.size \in Nat /\ e.size > 0 /\ e.size % 4 = 0
      /\ e.index \in LiveAfter(ops, k - 1)
  BY <1>1, SaneRequest, SizeFacts
<1>4. Apart(L) /\ s.at \in [Ids -> Nat] /\ Tags(h, L) /\ s.at[e.index] \in L.used
  BY <1>1, <1>3 DEF Fits
<1>5. PICK p : p = s.at[e.index]
  OBVIOUS
<1>6. PICK q : q = HomeAt(L, n)
  OBVIOUS
<1>7. /\ Room(L, n) => /\ r.ptr = q /\ Tags(r.heap, FreeLayout(AllocLayout(L, n), p))
                       /\ Untouched(h, r.heap, L, L.used \ {p}) /\ Copied(h, r.heap, L, p, q, e.size)
      /\ ~Room(L, n) => r = Result(h, NULL)
  <2>1. r = blk!mm_realloc(h, p, e.size) /\ p \in L.used
    BY <1>1, <1>4, <1>5
  <2>2. PICK size \in Nat : size = e.size
    BY <1>3
  <2>3. /\ size > 0 /\ size % 4 = 0 /\ n = Need(size) /\ r = blk!mm_realloc(h, p, size)
        /\ Tags(h, L) /\ Apart(L) /\ p \in L.used /\ q = HomeAt(L, n)
    BY <2>1, <2>2, <1>2, <1>3, <1>4, <1>6
  <2>4. Moved(h, L, p, size, n, q, r)
    BY <2>3, ReallocMoves
  <2> QED
    BY <2>2, <2>4 DEF Moved
<1>8. CASE ~Room(L, n)
  BY <1>1, <1>2, <1>7, <1>8 DEF Fails
<1>9. CASE Room(L, n)
  <2>1. PICK t : t = [layout |-> FreeLayout(AllocLayout(L, n), p), at |-> [s.at EXCEPT ![e.index] = q]]
    OBVIOUS
  <2>2. Served(s, e, t)
    BY <1>1, <1>2, <1>5, <1>6, <1>9, <2>1 DEF Served
  <2>3. t.at[e.index] = q /\ t.layout = FreeLayout(AllocLayout(L, n), p)
    BY <1>3, <1>4, <2>1
  <2>4. Succeeds(h, s, e, r, t)
    BY <1>1, <1>5, <1>7, <1>9, <2>2, <2>3 DEF Succeeds, Kept
  <2> QED
    BY <1>1, <2>4
<1> QED
  BY <1>8, <1>9

(* mm_free serves the request.                                             *)
LEMMA FreeOutcome ==
  ASSUME NEW ops, Sane(ops), NEW k \in 1..Len(ops), NEW s, Fits(s, ops, k - 1),
         NEW h, Tags(h, s.layout), ops[k].type = "FREE",
         NEW g, g = blk!mm_free(h, s.at[ops[k].index])
  PROVE  \E t : /\ Served(s, ops[k], t) /\ t.at = s.at /\ Tags(g, t.layout)
                /\ Untouched(h, g, s.layout, Kept(s, ops[k]))
<1>1. PICK e, L : e = ops[k] /\ L = s.layout
  OBVIOUS
<1>2. e.index \in LiveAfter(ops, k - 1)
  BY <1>1, SaneRequest
<1>3. PICK p : p = s.at[e.index]
  OBVIOUS
<1>4. Apart(L) /\ Tags(h, L) /\ p \in L.used
  BY <1>1, <1>2, <1>3 DEF Fits
<1>5. Tags(g, FreeLayout(L, p)) /\ Untouched(h, g, L, L.used \ {p})
  BY <1>1, <1>3, <1>4, FreeFrees
<1>6. PICK t : t = [layout |-> FreeLayout(L, p), at |-> s.at]
  OBVIOUS
<1>7. Served(s, e, t)
  BY <1>1, <1>3, <1>6 DEF Served
<1> QED
  BY <1>1, <1>3, <1>5, <1>6, <1>7 DEF Kept

(* The same request leads from the same layout to one place only.          *)
LEMMA ServedOnce ==
  ASSUME NEW s, NEW e, NEW t, NEW u, Served(s, e, t), Served(s, e, u)
  PROVE  t = u
BY DEF Served

(* A request that can be served is one there is room for.                  *)
LEMMA ServedRoom ==
  ASSUME NEW s, NEW e, NEW t, Served(s, e, t), e.type # "FREE"
  PROVE  Room(s.layout, Need(e.size))
BY DEF Served

(* Where a live payload is, and what separates it from the others.         *)
LEMMA FitsFacts ==
  ASSUME NEW s, NEW ops, NEW n, Fits(s, ops, n), NEW id \in LiveAfter(ops, n),
         NEW size, size = LastSize(ops, n, id), NEW p, p = s.at[id]
  PROVE  /\ id \in Ids /\ p \in Nat /\ p % 8 = 0 /\ p >= 16 /\ size \in Sizes
         /\ size \in Nat /\ size > 0 /\ size % 4 = 0
         /\ p \in s.layout.used /\ s.layout.size[p] \in Nat /\ size + 8 <= s.layout.size[p]
         /\ p + s.layout.size[p] <= s.layout.brk /\ s.layout.brk \in Nat
         /\ s.layout.brk <= MAX_HEAP
         /\ \A x \in LiveAfter(ops, n) : x # id =>
              p + s.layout.size[p] <= s.at[x] \/ s.at[x] + s.layout.size[s.at[x]] <= p
<1>1. PICK L : L = s.layout
  OBVIOUS
<1>2. /\ Layout(L) /\ s.at \in [Ids -> Nat] /\ L.used = {s.at[x] : x \in LiveAfter(ops, n)}
      /\ \A x, y \in LiveAfter(ops, n) : s.at[x] = s.at[y] => x = y
      /\ size \in Sizes /\ size + 8 <= L.size[p]
  BY <1>1 DEF Fits
<1>3. \A x \in LiveAfter(ops, n) : s.at[x] \in L.used /\ s.at[x] \in Tiles(L)
  BY <1>2, LayoutFacts
<1>4. p \in L.used /\ p \in Tiles(L)
  BY <1>3
<1>5. /\ p \in Nat /\ p % 8 = 0 /\ p >= 16 /\ L.size[p] \in Nat /\ p + L.size[p] \in Ends(L)
      /\ L.brk \in Nat /\ L.brk <= MAX_HEAP
  BY <1>2, <1>4, LayoutFacts DEF First, WSIZE
<1>6. p + L.size[p] <= L.brk
  BY <1>2, <1>5, LayoutFacts
<1>7. ASSUME NEW x \in LiveAfter(ops, n), x # id
      PROVE  p + L.size[p] <= s.at[x] \/ s.at[x] + L.size[s.at[x]] <= p
  <2>1. PICK q : q = s.at[x]
    OBVIOUS
  <2>2. q # p /\ q \in Tiles(L)
    BY <1>2, <1>3, <1>7, <2>1
  <2>3. q \in Nat /\ q \in Ends(L) /\ p \in Ends(L)
    BY <1>2, <1>4, <2>2, LayoutFacts
  <2>4. (p < q => p + L.size[p] <= q) /\ (q < p => q + L.size[q] <= p)
    BY <1>2, <1>4, <2>2, <2>3, LayoutFacts
  <2> QED
    BY <1>5, <2>1, <2>2, <2>3, <2>4
<1>8. id \in Ids
  BY DEF LiveAfter
<1>9. size \in Nat /\ size > 0 /\ size % 4 = 0
  BY <1>2, SizeFacts
<1> QED
  BY <1>1, <1>2, <1>4, <1>5, <1>6, <1>7, <1>8, <1>9

(***************************************************************************)
(* The words of a payload.                                                 *)
(***************************************************************************)
SameWords(h, g, p, size) ==
  \A j \in 1..(size \div WSIZE) : get(g, p + (j - 1) * WSIZE) = get(h, p + (j - 1) * WSIZE)

(* The words of the live payloads but that of id.                          *)
OthersSame(ops, n, h, g, at, id) ==
  \A x \in LiveAfter(ops, n) : x # id => SameWords(h, g, at[x], LastSize(ops, n, x))

Filled(h, p, size, v) == \A j \in 1..(size \div WSIZE) : get(h, p + (j - 1) * WSIZE) = v

(* The words of a live id's payload lie in its block.                      *)
LEMMA PayloadWord ==
  ASSUME NEW s, NEW ops, NEW n, Fits(s, ops, n), NEW id \in LiveAfter(ops, n),
         NEW j \in 1..(LastSize(ops, n, id) \div WSIZE)
  PROVE  /\ s.at[id] + (j - 1) * WSIZE \in Payload(s.layout, s.at[id])
         /\ s.at[id] + (j - 1) * WSIZE < s.at[id] + LastSize(ops, n, id)
<1>1. PICK p, size, S : p = s.at[id] /\ size = LastSize(ops, n, id) /\ S = s.layout.size[p]
  OBVIOUS
<1>2. /\ p \in Nat /\ p % 8 = 0 /\ size \in Nat /\ size % 4 = 0 /\ S \in Nat /\ size + 8 <= S
      /\ p + S <= s.layout.brk /\ s.layout.brk \in Nat /\ s.layout.brk <= MAX_HEAP
  BY <1>1, FitsFacts
<1>3. PICK m \in Nat : size = 4 * m /\ size \div 4 = m
  BY <1>2
<1>4. j \in 1..m
  BY <1>1, <1>3 DEF WSIZE
<1>5. PICK a \in Nat : a = p + (j - 1) * 4
  BY <1>2, <1>4
<1>6. p <= a /\ a < p + size /\ a + 8 < p + S /\ a % 4 = 0 /\ a < MAX_HEAP
  <2>1. p <= a /\ a + 4 <= p + size
    BY <1>2, <1>3, <1>4, <1>5
  <2>2. a % 4 = 0
    BY <1>2, <1>4, <1>5
  <2> QED
    BY <2>1, <2>2, <1>2, HeapAssumption
<1> QED
  BY <1>1, <1>5, <1>6 DEF Payload, Addr, WSIZE, DSIZE

(* A request leaves the other live payloads where they are, and as they    *)
(* are.                                                                    *)
LEMMA ServedAt ==
  ASSUME NEW s, NEW e, NEW t, Served(s, e, t), s.at \in [Ids -> Nat]
  PROVE  /\ \A x \in Ids : x # e.index => t.at[x] = s.at[x]
         /\ e.type = "FREE" => t.at = s.at
BY DEF Served

(* What a request leaves alone includes the payload of every other id.     *)
LEMMA OthersKept ==
  ASSUME NEW ops, Sane(ops), NEW k \in 1..Len(ops), NEW s, Fits(s, ops, k - 1),
         NEW h, NEW g, Untouched(h, g, s.layout, Kept(s, ops[k])),
         NEW x \in LiveAfter(ops, k - 1), x # ops[k].index
  PROVE  SameWords(h, g, s.at[x], LastSize(ops, k - 1, x))
<1>1. s.at[x] \in s.layout.used
  BY FitsFacts
<1>2. ops[k].type # "ALLOC" => s.at[x] # s.at[ops[k].index]
  BY SaneRequest DEF Fits
<1>3. s.at[x] \in Kept(s, ops[k])
  BY <1>1, <1>2 DEF Kept
<1>4. \A a \in Payload(s.layout, s.at[x]) : get(g, a) = get(h, a)
  BY <1>3 DEF Untouched
<1> QED
  BY <1>4, PayloadWord DEF SameWords

(* What is left of the live payloads and their places when request k has   *)
(* been served.                                                            *)
LEMMA LiveOthers ==
  ASSUME NEW ops, Sane(ops), NEW k \in 1..Len(ops), NEW e, e = ops[k]
  PROVE  /\ LiveAfter(ops, k) \ {e.index} = LiveAfter(ops, k - 1) \ {e.index}
         /\ (e.index \in LiveAfter(ops, k)) <=> (e.type # "FREE")
         /\ \A x : x # e.index => LastSize(ops, k, x) = LastSize(ops, k - 1, x)
         /\ LastSize(ops, k, e.index) = e.size
<1>1. k \in Nat /\ k > 0 /\ e.index \in Ids
  BY SaneRequest
<1>2. LiveAfter(ops, k) = IF e.type = "FREE" THEN LiveAfter(ops, k - 1) \ {e.index}
                          ELSE LiveAfter(ops, k - 1) \cup {e.index}
  BY <1>1, LiveStep
<1>3. \A x : LastSize(ops, k, x) = IF e.index = x THEN e.size ELSE LastSize(ops, k - 1, x)
  BY <1>1, LastStep
<1> QED
  BY <1>2, <1>3

(* memset in the new payload.                                              *)
LEMMA FillPlaced ==
  ASSUME NEW ops, NEW k, NEW t, Fits(t, ops, k), NEW id \in LiveAfter(ops, k),
         NEW h, Tags(h, t.layout), NEW v \in Nat,
         NEW g, g = memset(h, t.at[id], v, LastSize(ops, k, id))
  PROVE  /\ Tags(g, t.layout) /\ Filled(g, t.at[id], LastSize(ops, k, id), v)
         /\ OthersSame(ops, k, h, g, t.at, id)
<1>1. PICK p, size, L : p = t.at[id] /\ size = LastSize(ops, k, id) /\ L = t.layout
  OBVIOUS
<1>2. /\ p \in Nat /\ p % 8 = 0 /\ size \in Nat /\ size % 4 = 0 /\ size > 0 /\ p \in L.used
      /\ L.size[p] \in Nat /\ size + 8 <= L.size[p] /\ p + L.size[p] <= L.brk
      /\ L.brk \in Nat /\ L.brk <= MAX_HEAP
  BY <1>1, FitsFacts
<1>3. p \in Addr /\ h \in Heap /\ Layout(L)
  BY <1>1, <1>2, HeapAssumption DEF Addr, Tags
<1>4. g = memset(h, p, v, size) /\ size % 4 = 0 /\ size \in Nat /\ p \in Addr /\ h \in Heap
  BY <1>1, <1>2, <1>3
<1>5. /\ g \in Heap /\ g.brk = h.brk
      /\ \A a \in Addr : get(g, a) = IF p <= a /\ a < p + size THEN v ELSE get(h, a)
  BY <1>4, FillGet
<1>6. WritesOnly(h, g, Payload(L, p))
  <2> SUFFICES ASSUME NEW a \in Addr, a \notin Payload(L, p) PROVE ~(p <= a /\ a < p + size)
    BY <1>5 DEF WritesOnly
  <2>1. a \in Nat /\ ~(p <= a /\ a + 8 < p + L.size[p])
    BY DEF Payload, Addr, DSIZE
  <2> QED
    BY <2>1, <1>2
<1>7. p \in Tiles(L)
  BY <1>2, <1>3, LayoutFacts
<1>8. Tags(g, L) /\ Untouched(h, g, L, Tiles(L) \ {p})
  BY <1>1, <1>5, <1>6, <1>7, PayloadWrites
<1>9. Filled(g, p, size, v)
  <2> SUFFICES ASSUME NEW j \in 1..(size \div WSIZE) PROVE get(g, p + (j - 1) * WSIZE) = v
    BY DEF Filled
  <2>1. PICK a : a = p + (j - 1) * WSIZE
    OBVIOUS
  <2>2. a \in Payload(L, p) /\ a < p + size
    BY <2>1, <1>1, PayloadWord
  <2>3. a \in Addr /\ p <= a
    BY <2>2 DEF Payload
  <2> QED
    BY <2>1, <2>2, <2>3, <1>5
<1>10. ASSUME NEW x \in LiveAfter(ops, k), x # id
       PROVE  SameWords(h, g, t.at[x], LastSize(ops, k, x))
  <2>1. t.at[x] \in L.used /\ t.at[x] # p
    BY <1>1, <1>10, FitsFacts DEF Fits
  <2>2. t.at[x] \in Tiles(L) \ {p}
    BY <2>1, <1>3, LayoutFacts
  <2>3. \A a \in Payload(L, t.at[x]) : get(g, a) = get(h, a)
    BY <2>2, <1>8 DEF Untouched
  <2> QED
    BY <2>3, <1>1, PayloadWord DEF SameWords
<1> QED
  BY <1>1, <1>8, <1>9, <1>10 DEF OthersSame

(* mm_realloc carries over what fits of the words of the old payload.      *)
Carried(h, g, p, q, old, size) ==
  \A j \in 1..(old \div WSIZE) :
    j \in 1..(size \div WSIZE) => get(g, q + (j - 1) * WSIZE) = get(h, p + (j - 1) * WSIZE)

(* What mm_realloc copied, in terms of the sizes the trace asked for.      *)
LEMMA CopiedWords ==
  ASSUME NEW s, NEW ops, NEW n, Fits(s, ops, n), NEW id \in LiveAfter(ops, n),
         NEW h, NEW g, NEW q \in Nat, NEW size \in Sizes,
         Copied(h, g, s.layout, s.at[id], q, size)
  PROVE  Carried(h, g, s.at[id], q, LastSize(ops, n, id), size)
<1> SUFFICES ASSUME NEW j \in 1..(LastSize(ops, n, id) \div WSIZE), j \in 1..(size \div WSIZE)
             PROVE  get(g, q + (j - 1) * WSIZE) = get(h, s.at[id] + (j - 1) * WSIZE)
  BY DEF Carried
<1>1. size \in Nat /\ size % 4 = 0
  BY SizeFacts
<1>2. PICK p : p = s.at[id]
  OBVIOUS
<1>3. p \in Nat
  BY <1>2, FitsFacts
<1>4. PICK m \in Nat : size = 4 * m /\ size \div 4 = m
  BY <1>1
<1>5. j \in 1..m
  BY <1>4 DEF WSIZE
<1>6. PICK a \in Nat : a = p + (j - 1) * 4
  BY <1>3, <1>5
<1>7. a < p + size /\ q + (a - p) = q + (j - 1) * 4
  BY <1>3, <1>4, <1>5, <1>6
<1>8. a \in Payload(s.layout, p)
  BY <1>2, <1>6, PayloadWord DEF WSIZE
<1>9. get(g, q + (a - p)) = get(h, a)
  BY <1>2, <1>7, <1>8 DEF Copied
<1> QED
  BY <1>2, <1>6, <1>7, <1>9 DEF WSIZE

(* add_range finds no fault with a payload that has a block to itself.     *)
LEMMA PlacedRange ==
  ASSUME NEW t, NEW ops, NEW n, Fits(t, ops, n), NEW id \in LiveAfter(ops, n),
         NEW h, h.brk = t.layout.brk,
         NEW others, others = {Range(t.at[x], LastSize(ops, n, x)) : x \in LiveAfter(ops, n) \ {id}}
  PROVE  add_range(Range(t.at[id], LastSize(ops, n, id)), h, others)
<1>1. PICK p, size, S : p = t.at[id] /\ size = LastSize(ops, n, id) /\ S = t.layout.size[p]
  OBVIOUS
<1>2. /\ p \in Nat /\ p % 8 = 0 /\ size \in Nat /\ size > 0 /\ S \in Nat /\ size + 8 <= S
      /\ p + S <= h.brk /\ h.brk \in Nat
      /\ \A x \in LiveAfter(ops, n) : x # id =>
           p + S <= t.at[x] \/ t.at[x] + t.layout.size[t.at[x]] <= p
  BY <1>1, FitsFacts
<1>3. PICK r : r = Range(p, size)
  OBVIOUS
<1>4. r.lo = p /\ r.hi = p + size - 1
  BY <1>3 DEF Range
<1>5. IsAligned(r.lo) /\ InHeap(r, h)
  BY <1>2, <1>4 DEF IsAligned, InHeap
<1>6. ASSUME NEW o \in others PROVE ~Overlaps(r, o)
  <2>1. PICK x \in LiveAfter(ops, n) \ {id} : o = Range(t.at[x], LastSize(ops, n, x))
    OBVIOUS
  <2>2. PICK q, z, Z : q = t.at[x] /\ z = LastSize(ops, n, x) /\ Z = t.layout.size[q]
    OBVIOUS
  <2>3. q \in Nat /\ z \in Nat /\ z > 0 /\ Z \in Nat /\ z + 8 <= Z
    BY <2>2, FitsFacts
  <2>4. p + S <= q \/ q + Z <= p
    BY <1>2, <2>2
  <2>5. o.lo = q /\ o.hi = q + z - 1
    BY <2>1, <2>2 DEF Range
  <2> QED
    BY <1>2, <1>4, <2>3, <2>4, <2>5 DEF Overlaps
<1> QED
  BY <1>1, <1>3, <1>5, <1>6 DEF add_range

(***************************************************************************)
(* How far a replay has come: R holds the layouts of the requests served   *)
(* so far, K - 1 of them, and the heap and the table of blocks are as the  *)
(* first n - 1 have left them.                                             *)
(***************************************************************************)
AsPlanned(s, ops, n, h, b) ==
  /\ Fits(s, ops, n) /\ Tags(h, s.layout)
  /\ \A id \in LiveAfter(ops, n) : b[id] = s.at[id]

Course(R, ops, K, n, h, b) == Replay(R, ops, K) /\ AsPlanned(R[n], ops, n - 1, h, b)

(* A request served for the first time extends the known course.           *)
LEMMA CourseGrows ==
  ASSUME NEW R, NEW ops, NEW n \in Nat, n >= 1, NEW h, NEW b, Course(R, ops, n, n, h, b),
         NEW t, Served(R[n], ops[n], t), NEW g, NEW c, AsPlanned(t, ops, n, g, c)
  PROVE  \E Q : Course(Q, ops, n + 1, n + 1, g, c)
<1>1. PICK Q : Q = [k \in 1..(n + 1) |-> IF k = n + 1 THEN t ELSE R[k]]
  OBVIOUS
<1>2. Q[n + 1] = t /\ \A k \in 1..n : Q[k] = R[k]
  BY <1>1
<1>3. Q[1] = R[1]
  BY <1>2
<1>4. ASSUME NEW k \in 1..((n + 1) - 1) PROVE Served(Q[k], ops[k], Q[k + 1])
  <2>1. CASE k = n
    BY <1>2, <2>1
  <2>2. CASE k # n
    <3>1. k \in 1..(n - 1) /\ k \in 1..n /\ k + 1 \in 1..n
      BY <2>2
    <3> QED
      BY <3>1, <1>2 DEF Course, Replay
  <2> QED
    BY <2>1, <2>2
<1>5. Replay(Q, ops, n + 1)
  BY <1>3, <1>4 DEF Course, Replay
<1>6. (n + 1) - 1 = n
  OBVIOUS
<1> QED
  BY <1>2, <1>5, <1>6 DEF Course

(* A request served as it was before stays on the known course.            *)
LEMMA CourseAgain ==
  ASSUME NEW R, NEW ops, NEW K \in Nat, NEW n \in 1..(K - 1), NEW h, NEW b,
         Course(R, ops, K, n, h, b), NEW t, Served(R[n], ops[n], t),
         NEW g, NEW c, AsPlanned(t, ops, n, g, c)
  PROVE  Course(R, ops, K, n + 1, g, c)
<1>1. Served(R[n], ops[n], R[n + 1])
  BY DEF Course, Replay
<1>2. t = R[n + 1]
  BY <1>1, ServedOnce
<1>3. (n + 1) - 1 = n
  OBVIOUS
<1> QED
  BY <1>2, <1>3 DEF Course

(* A replay starts on its course.                                          *)
LEMMA CourseStarts ==
  ASSUME NEW ops, NEW h, Tags(h, StartLayout), Apart(StartLayout), StartLayout.used = {}, NEW b,
         NEW R, NEW K, Replay(R, ops, K)
  PROVE  Course(R, ops, K, 1, h, b)
<1>1. LiveAfter(ops, 0) = {}
  BY LiveStart
<1>2. R[1].layout = StartLayout /\ R[1].at \in [Ids -> Nat]
  BY DEF Replay, Uninitialised
<1>3. Layout(StartLayout)
  BY DEF Tags
<1>4. Fits(R[1], ops, 0)
  BY <1>1, <1>2, <1>3 DEF Fits
<1> QED
  BY <1>1, <1>2, <1>4 DEF Course, AsPlanned

(* The course of no request.                                               *)
LEMMA FirstReplay ==
  ASSUME NEW ops
  PROVE  \E R : Replay(R, ops, 1)
<1>1. PICK R : R = [k \in {1} |-> [layout |-> StartLayout, at |-> Uninitialised]]
  OBVIOUS
<1>2. R[1].layout = StartLayout /\ R[1].at = Uninitialised
  BY <1>1
<1>3. \A k \in 1..(1 - 1) : FALSE
  OBVIOUS
<1> QED
  BY <1>2, <1>3 DEF Replay

(***************************************************************************)
(* One request of a replay.                                                *)
(***************************************************************************)
LEMMA Placing ==
  ASSUME NEW ops, Sane(ops), NEW k \in 1..Len(ops), NEW e, e = ops[k], e.type # "FREE",
         NEW s, NEW h, NEW b, AsPlanned(s, ops, k - 1, h, b),
         NEW r, r = IF e.type = "ALLOC" THEN blk!mm_malloc(h, e.size)
                    ELSE blk!mm_realloc(h, b[e.index], e.size)
  PROVE  Fails(h, s, e, r) \/ \E t : Succeeds(h, s, e, r, t)
<1>1. Fits(s, ops, k - 1) /\ Tags(h, s.layout)
  BY DEF AsPlanned
<1>2. e.type \in {"ALLOC", "REALLOC"}
  BY SaneRequest
<1>3. CASE e.type = "ALLOC"
  BY <1>1, <1>3, MallocOutcome
<1>4. CASE e.type = "REALLOC"
  <2>1. e.index \in LiveAfter(ops, k - 1)
    BY <1>4, SaneRequest
  <2>2. r = blk!mm_realloc(h, s.at[e.index], e.size)
    BY <1>4, <2>1 DEF AsPlanned
  <2> QED
    BY <1>1, <1>4, <2>2, ReallocOutcome
<1> QED
  BY <1>2, <1>3, <1>4

(* The new payload has its place, and the others keep theirs.              *)
PlacesWell(ops, k, h, b, id, r, t, c) ==
  /\ Fits(t, ops, k) /\ id \in LiveAfter(ops, k) /\ c \in [Ids -> Nat]
  /\ c[id] = r.ptr /\ r.ptr = t.at[id]
  /\ r.ptr # NULL /\ r.ptr \in Nat /\ r.ptr < MAX_HEAP
  /\ AsPlanned(t, ops, k, r.heap, c)
  /\ \A x \in LiveAfter(ops, k - 1) : x # id => c[x] = b[x]
  /\ OthersSame(ops, k - 1, h, r.heap, b, id)

(* A successful allocation or reallocation puts the payload in a block of  *)
(* its own and keeps the other payloads.                                   *)
LEMMA PlacedWell ==
  ASSUME NEW ops, Sane(ops), NEW k \in 1..Len(ops), NEW e, e = ops[k], e.type # "FREE",
         NEW s, NEW h, NEW b \in [Ids -> Nat], AsPlanned(s, ops, k - 1, h, b),
         NEW r, NEW t, Succeeds(h, s, e, r, t), NEW c, c = [b EXCEPT ![e.index] = r.ptr]
  PROVE  PlacesWell(ops, k, h, b, e.index, r, t, c)
<1>1. Fits(s, ops, k - 1) /\ Tags(h, s.layout) /\ Served(s, e, t) /\ s.at \in [Ids -> Nat]
      /\ r.ptr = t.at[e.index] /\ Tags(r.heap, t.layout)
      /\ Untouched(h, r.heap, s.layout, Kept(s, e))
      /\ \A x \in LiveAfter(ops, k - 1) : b[x] = s.at[x]
  BY DEF AsPlanned, Fits, Succeeds
<1>2. Fits(t, ops, k)
  BY <1>1, ServedFits
<1>3. e.index \in LiveAfter(ops, k)
      /\ LiveAfter(ops, k) \ {e.index} = LiveAfter(ops, k - 1) \ {e.index}
  BY LiveOthers
<1>4. e.index \in Ids /\ r.ptr \in Nat /\ r.ptr >= 16 /\ r.ptr < MAX_HEAP
  <2>1. PICK id : id = e.index
    OBVIOUS
  <2>2. PICK p : p = t.at[id]
    OBVIOUS
  <2>3. id \in LiveAfter(ops, k)
    BY <1>3, <2>1
  <2>4. PICK S, brk : S = t.layout.size[p] /\ brk = t.layout.brk
    OBVIOUS
  <2>5. /\ id \in Ids /\ p \in Nat /\ p >= 16 /\ S \in Nat /\ p + S <= brk /\ brk \in Nat
        /\ brk <= MAX_HEAP /\ p \in t.layout.used
    BY <1>2, <2>2, <2>3, <2>4, FitsFacts, SMTT(30)
  <2>6. S >= 16
    <3>1. Layout(t.layout)
      BY <1>2 DEF Fits
    <3> QED
      BY <3>1, <2>4, <2>5, LayoutFacts
  <2>7. p < MAX_HEAP
    BY <2>5, <2>6, HeapAssumption
  <2> QED
    BY <1>1, <2>1, <2>2, <2>5, <2>7
<1>5. c \in [Ids -> Nat] /\ c[e.index] = r.ptr /\ \A x \in Ids : x # e.index => c[x] = b[x]
  BY <1>4
<1>6. \A x \in Ids : x # e.index => t.at[x] = s.at[x]
  BY <1>1, ServedAt
<1>7. LiveAfter(ops, k) \subseteq Ids /\ LiveAfter(ops, k - 1) \subseteq Ids
  BY DEF LiveAfter
<1>8. AsPlanned(t, ops, k, r.heap, c)
  <2>1. \A x \in LiveAfter(ops, k) : c[x] = t.at[x]
    BY <1>1, <1>3, <1>5, <1>6, <1>7
  <2> QED
    BY <2>1, <1>1, <1>2 DEF AsPlanned
<1>9. ASSUME NEW x \in LiveAfter(ops, k - 1), x # e.index
      PROVE  /\ c[x] = b[x] /\ b[x] = s.at[x]
             /\ SameWords(h, r.heap, b[x], LastSize(ops, k - 1, x))
  <2>1. c[x] = b[x] /\ b[x] = s.at[x]
    BY <1>1, <1>5, <1>7, <1>9
  <2>2. SameWords(h, r.heap, s.at[x], LastSize(ops, k - 1, x))
    BY <1>1, <1>9, OthersKept
  <2> QED
    BY <2>1, <2>2
<1> QED
  BY <1>1, <1>2, <1>3, <1>4, <1>5, <1>8, <1>9 DEF NULL, PlacesWell, OthersSame

(* mm_free frees the payload and keeps the others.                         *)
LEMMA Freed ==
  ASSUME NEW ops, Sane(ops), NEW k \in 1..Len(ops), NEW e, e = ops[k], e.type = "FREE",
         NEW s, NEW h, NEW b \in [Ids -> Nat], AsPlanned(s, ops, k - 1, h, b),
         NEW g, g = blk!mm_free(h, b[e.index])
  PROVE  /\ \E t : Served(s, e, t) /\ AsPlanned(t, ops, k, g, b) /\ Fits(t, ops, k)
         /\ OthersSame(ops, k - 1, h, g, b, e.index)
<1>1. /\ Fits(s, ops, k - 1) /\ Tags(h, s.layout)
      /\ \A x \in LiveAfter(ops, k - 1) : b[x] = s.at[x]
  BY DEF AsPlanned
<1>2. e.index \in LiveAfter(ops, k - 1)
  BY SaneRequest
<1>3. g = blk!mm_free(h, s.at[e.index])
  BY <1>1, <1>2
<1>4. PICK t : /\ Served(s, e, t) /\ t.at = s.at /\ Tags(g, t.layout)
               /\ Untouched(h, g, s.layout, Kept(s, e))
  BY <1>1, <1>3, FreeOutcome, ZenonT(60)
<1>5. Fits(t, ops, k)
  BY <1>1, <1>4, ServedFits
<1>6. LiveAfter(ops, k) \subseteq LiveAfter(ops, k - 1)
  BY LiveOthers
<1>7. AsPlanned(t, ops, k, g, b)
  BY <1>1, <1>4, <1>5, <1>6 DEF AsPlanned
<1>8. ASSUME NEW x \in LiveAfter(ops, k - 1), x # e.index
      PROVE  SameWords(h, g, b[x], LastSize(ops, k - 1, x))
  <2>1. SameWords(h, g, s.at[x], LastSize(ops, k - 1, x))
    BY <1>1, <1>4, <1>8, OthersKept
  <2> QED
    BY <2>1, <1>1
<1> QED
  BY <1>4, <1>5, <1>7, <1>8 DEF OthersSame

(***************************************************************************)
(* What eval_mm_valid remembers of the live payloads, and finds in them.   *)
(***************************************************************************)
RangesOf(ops, n, b) == {Range(b[x], LastSize(ops, n, x)) : x \in LiveAfter(ops, n)}

Recorded(ops, n, h, b, z, rg) ==
  /\ rg = RangesOf(ops, n, b)
  /\ \A x \in LiveAfter(ops, n) : /\ z[x] = LastSize(ops, n, x)
                                  /\ Filled(h, b[x], LastSize(ops, n, x), Fill(x))

Others(ops, n, b, id) == {Range(b[x], LastSize(ops, n, x)) : x \in LiveAfter(ops, n) \ {id}}

RangesBut(rg, lo) == {r \in rg : r.lo # lo}

(* remove_range drops the range of one id.                                 *)
LEMMA RangesWithout ==
  ASSUME NEW s, NEW ops, NEW n, NEW h, NEW b, AsPlanned(s, ops, n, h, b),
         NEW rg, rg = RangesOf(ops, n, b),
         NEW id \in LiveAfter(ops, n)
  PROVE  RangesBut(rg, b[id]) = Others(ops, n, b, id)
<1>1. \A x \in LiveAfter(ops, n) : b[x] = b[id] => x = id
  BY DEF AsPlanned, Fits
<1>2. \A x \in LiveAfter(ops, n) : Range(b[x], LastSize(ops, n, x)).lo = b[x]
  BY DEF Range
<1> QED
  BY <1>1, <1>2 DEF Others, RangesBut, RangesOf

(* add_range is content with a payload, and it is recorded as it is filled.*)
AcceptsWell(ops, k, h, b, e, r, t, c, g, z) ==
  /\ add_range(Range(r.ptr, e.size), r.heap, Others(ops, k - 1, b, e.index))
  /\ AsPlanned(t, ops, k, g, c)
  /\ Recorded(ops, k, g, c, [z EXCEPT ![e.index] = e.size],
              Others(ops, k - 1, b, e.index) \cup {Range(r.ptr, e.size)})
  /\ \A x \in LiveAfter(ops, k - 1) : x # e.index => c[x] = b[x]
  /\ OthersSame(ops, k - 1, h, g, b, e.index)

(* eval_mm_valid accepts the block of a successful request: add_range      *)
(* finds it aligned, in the heap and apart from the ranges recorded, and   *)
(* the records still agree with the trace.                                 *)
LEMMA AcceptRecords ==
  ASSUME NEW ops, Sane(ops), NEW k \in 1..Len(ops), NEW e, e = ops[k], e.type # "FREE",
         NEW s, NEW h, NEW b \in [Ids -> Nat], AsPlanned(s, ops, k - 1, h, b),
         NEW r, NEW t, Succeeds(h, s, e, r, t), NEW c, c = [b EXCEPT ![e.index] = r.ptr],
         NEW g, g = memset(r.heap, r.ptr, Fill(e.index), e.size),
         NEW z, z \in [Ids -> Sizes \cup {0}], NEW rg, Recorded(ops, k - 1, h, b, z, rg)
  PROVE  AcceptsWell(ops, k, h, b, e, r, t, c, g, z)
<1>1. PICK id, size, live, p : /\ id = e.index /\ size = e.size /\ p = r.ptr
                               /\ live = LiveAfter(ops, k - 1)
  OBVIOUS
<1>2. /\ Fits(t, ops, k) /\ id \in LiveAfter(ops, k) /\ c \in [Ids -> Nat]
      /\ c[id] = p /\ p = t.at[id]
      /\ AsPlanned(t, ops, k, r.heap, c)
      /\ \A x \in live : x # id => c[x] = b[x] /\ SameWords(h, r.heap, b[x], LastSize(ops, k - 1, x))
  <2>1. PlacesWell(ops, k, h, b, e.index, r, t, c)
    BY PlacedWell
  <2> QED
    BY <1>1, <2>1 DEF PlacesWell, OthersSame
<1>3. /\ LiveAfter(ops, k) \ {id} = live \ {id}
      /\ \A x : x # id => LastSize(ops, k, x) = LastSize(ops, k - 1, x)
      /\ LastSize(ops, k, id) = size
  BY <1>1, LiveOthers
<1>4. \A x \in LiveAfter(ops, k) : c[x] = t.at[x]
  BY <1>2 DEF AsPlanned
<1>5. Others(ops, k - 1, b, id) = {Range(t.at[x], LastSize(ops, k, x)) : x \in LiveAfter(ops, k) \ {id}}
  <2>1. \A x \in LiveAfter(ops, k) \ {id} :
          Range(t.at[x], LastSize(ops, k, x)) = Range(b[x], LastSize(ops, k - 1, x))
    BY <1>1, <1>2, <1>3, <1>4
  <2> QED
    BY <2>1, <1>1, <1>3 DEF Others
<1>6. add_range(Range(p, size), r.heap, Others(ops, k - 1, b, id))
  <2>1. r.heap.brk = t.layout.brk
    BY <1>2 DEF AsPlanned, Tags
  <2>2. add_range(Range(t.at[id], LastSize(ops, k, id)), r.heap, Others(ops, k - 1, b, id))
    BY <1>2, <1>5, <2>1, PlacedRange
  <2> QED
    BY <2>2, <1>2, <1>3
<1>7. /\ Tags(g, t.layout) /\ Filled(g, p, size, Fill(id))
      /\ \A x \in LiveAfter(ops, k) : x # id => SameWords(r.heap, g, t.at[x], LastSize(ops, k, x))
  <2>1. Tags(r.heap, t.layout)
    BY <1>2 DEF AsPlanned
  <2>2. Fill(id) \in Nat
    <3>1. id \in Nat
      BY <1>2, DriverAssumption DEF LiveAfter, Ids
    <3> QED
      BY <3>1, HeapAssumption DEF Fill
  <2>3. PICK v \in Nat : v = Fill(id)
    BY <2>2
  <2>4. g = memset(r.heap, t.at[id], v, LastSize(ops, k, id))
    BY <1>1, <1>2, <1>3, <2>3
  <2>5. /\ Tags(g, t.layout) /\ Filled(g, t.at[id], LastSize(ops, k, id), v)
        /\ OthersSame(ops, k, r.heap, g, t.at, id)
    BY <1>2, <2>1, <2>4, FillPlaced
  <2> QED
    BY <2>3, <2>5, <1>2, <1>3 DEF OthersSame
<1>8. AsPlanned(t, ops, k, g, c)
  BY <1>2, <1>7 DEF AsPlanned
<1>9. ASSUME NEW x \in live, x # id
      PROVE  c[x] = b[x] /\ SameWords(h, g, b[x], LastSize(ops, k - 1, x))
  <2>1. x \in LiveAfter(ops, k) /\ t.at[x] = b[x] /\ LastSize(ops, k, x) = LastSize(ops, k - 1, x)
    BY <1>2, <1>3, <1>4, <1>9
  <2>2. SameWords(h, r.heap, b[x], LastSize(ops, k - 1, x))
    BY <1>2, <1>9
  <2>3. SameWords(r.heap, g, b[x], LastSize(ops, k - 1, x))
    BY <1>7, <1>9, <2>1
  <2> QED
    BY <2>2, <2>3, <1>2, <1>9 DEF SameWords
<1>10. ASSUME NEW x \in LiveAfter(ops, k)
       PROVE  /\ [z EXCEPT ![id] = size][x] = LastSize(ops, k, x)
              /\ Filled(g, c[x], LastSize(ops, k, x), Fill(x))
  <2>1. CASE x = id
    BY <2>1, <1>2, <1>3, <1>7 DEF LiveAfter
  <2>2. CASE x # id
    <3>1. x \in live /\ x \in Ids
      BY <1>3, <2>2 DEF LiveAfter
    <3>2. z[x] = LastSize(ops, k - 1, x) /\ Filled(h, b[x], LastSize(ops, k - 1, x), Fill(x))
      BY <1>1, <3>1 DEF Recorded
    <3>3. c[x] = b[x] /\ SameWords(h, g, b[x], LastSize(ops, k - 1, x))
      BY <1>9, <2>2, <3>1
    <3>4. Filled(g, c[x], LastSize(ops, k - 1, x), Fill(x))
      BY <3>2, <3>3 DEF Filled, SameWords
    <3> QED
      BY <1>3, <2>2, <3>1, <3>2, <3>4
  <2> QED
    BY <2>1, <2>2
<1>11. Others(ops, k - 1, b, id) \cup {Range(p, size)}
         = {Range(c[x], LastSize(ops, k, x)) : x \in LiveAfter(ops, k)}
  <2>1. \A x \in LiveAfter(ops, k) : Range(c[x], LastSize(ops, k, x)) = Range(t.at[x], LastSize(ops, k, x))
    BY <1>4
  <2>2. Range(c[id], LastSize(ops, k, id)) = Range(p, size)
    BY <1>2, <1>3
  <2> QED
    BY <2>1, <2>2, <1>2, <1>5
<1>12. Recorded(ops, k, g, c, [z EXCEPT ![id] = size], Others(ops, k - 1, b, id) \cup {Range(p, size)})
  BY <1>10, <1>11 DEF Recorded, RangesOf
<1> QED
  BY <1>1, <1>6, <1>8, <1>9, <1>12 DEF OthersSame, AcceptsWell

(* The records agree with the trace after a free.                          *)
LEMMA FreeRecords ==
  ASSUME NEW ops, Sane(ops), NEW k \in 1..Len(ops), NEW e, e = ops[k], e.type = "FREE",
         NEW s, NEW h, NEW b \in [Ids -> Nat], AsPlanned(s, ops, k - 1, h, b),
         NEW g, g = blk!mm_free(h, b[e.index]),
         NEW z, NEW rg, Recorded(ops, k - 1, h, b, z, rg)
  PROVE  Recorded(ops, k, g, b, z, RangesBut(rg, b[e.index]))
<1>1. PICK id, live : id = e.index /\ live = LiveAfter(ops, k - 1)
  OBVIOUS
<1>2. \A x \in live : x # id => SameWords(h, g, b[x], LastSize(ops, k - 1, x))
  BY <1>1, Freed DEF OthersSame
<1>3. /\ LiveAfter(ops, k) = live \ {id} /\ id \in live
      /\ \A x : x # id => LastSize(ops, k, x) = LastSize(ops, k - 1, x)
  BY <1>1, LiveOthers, SaneRequest
<1>4. RangesBut(rg, b[id]) = Others(ops, k - 1, b, id)
  <2>1. rg = RangesOf(ops, k - 1, b)
    BY DEF Recorded
  <2>2. id \in LiveAfter(ops, k - 1)
    BY <1>1, <1>3
  <2> QED
    BY <2>1, <2>2, RangesWithout
<1>5. Others(ops, k - 1, b, id) = {Range(b[x], LastSize(ops, k, x)) : x \in LiveAfter(ops, k)}
  <2>1. \A x \in live \ {id} : Range(b[x], LastSize(ops, k, x)) = Range(b[x], LastSize(ops, k - 1, x))
    BY <1>3
  <2> QED
    BY <2>1, <1>1, <1>3 DEF Others
<1>6. ASSUME NEW x \in LiveAfter(ops, k)
      PROVE  z[x] = LastSize(ops, k, x) /\ Filled(g, b[x], LastSize(ops, k, x), Fill(x))
  <2>1. x \in live /\ x # id /\ LastSize(ops, k, x) = LastSize(ops, k - 1, x)
    BY <1>3
  <2>2. z[x] = LastSize(ops, k - 1, x) /\ Filled(h, b[x], LastSize(ops, k - 1, x), Fill(x))
    BY <1>1, <2>1 DEF Recorded
  <2>3. Filled(g, b[x], LastSize(ops, k - 1, x), Fill(x))
    BY <1>2, <2>1, <2>2 DEF Filled, SameWords
  <2> QED
    BY <2>1, <2>2, <2>3
<1> QED
  BY <1>1, <1>4, <1>5, <1>6 DEF Recorded, RangesOf

(***************************************************************************)
(* What a client sees of a request that is served: the payloads of the     *)
(* others stay where they are and as they are, and mm_realloc carries over *)
(* what fits of the payload it is asked for.                               *)
(***************************************************************************)
Serves(ops, k, h, b, g, c) ==
  /\ \E s, t : AsPlanned(s, ops, k - 1, h, b) /\ Served(s, ops[k], t) /\ AsPlanned(t, ops, k, g, c)
  /\ \A x \in LiveAfter(ops, k - 1) : x # ops[k].index => c[x] = b[x]
  /\ OthersSame(ops, k - 1, h, g, b, ops[k].index)
  /\ ops[k].type = "REALLOC" =>
       Carried(h, g, b[ops[k].index], c[ops[k].index], LastSize(ops, k - 1, ops[k].index), ops[k].size)

(* An allocation or reallocation does for the payloads what its request    *)
(* asks for.                                                               *)
LEMMA ServesPlaced ==
  ASSUME NEW ops, Sane(ops), NEW k \in 1..Len(ops), NEW e, e = ops[k], e.type # "FREE",
         NEW s, NEW h, NEW b \in [Ids -> Nat], AsPlanned(s, ops, k - 1, h, b),
         NEW r, NEW t, Succeeds(h, s, e, r, t), NEW c, c = [b EXCEPT ![e.index] = r.ptr]
  PROVE  Serves(ops, k, h, b, r.heap, c)
<1>1. PlacesWell(ops, k, h, b, e.index, r, t, c)
  BY PlacedWell
<1>2. r.ptr \in Nat /\ c[e.index] = r.ptr
  BY <1>1 DEF PlacesWell
<1>3. ASSUME e.type = "REALLOC"
      PROVE  Carried(h, r.heap, b[e.index], r.ptr, LastSize(ops, k - 1, e.index), e.size)
  <2>1. e.index \in LiveAfter(ops, k - 1) /\ e.size \in Sizes
    BY <1>3, SaneRequest
  <2>2. Fits(s, ops, k - 1) /\ b[e.index] = s.at[e.index]
    BY <2>1 DEF AsPlanned
  <2>3. Copied(h, r.heap, s.layout, s.at[e.index], r.ptr, e.size)
    BY <1>3 DEF Succeeds
  <2>4. Carried(h, r.heap, s.at[e.index], r.ptr, LastSize(ops, k - 1, e.index), e.size)
    BY <1>2, <2>1, <2>2, <2>3, CopiedWords
  <2> QED
    BY <2>2, <2>4
<1>4. Served(s, e, t)
  BY DEF Succeeds
<1> QED
  BY <1>1, <1>2, <1>3, <1>4 DEF Serves, PlacesWell

(* eval_mm_valid fills the new payload with what the old one was filled    *)
(* with.                                                                   *)
LEMMA ServesAccepted ==
  ASSUME NEW ops, Sane(ops), NEW k \in 1..Len(ops), NEW e, e = ops[k], e.type # "FREE",
         NEW s, NEW h, NEW b, AsPlanned(s, ops, k - 1, h, b),
         NEW z, NEW rg, Recorded(ops, k - 1, h, b, z, rg),
         NEW r, NEW t, Succeeds(h, s, e, r, t), NEW c, NEW g, AcceptsWell(ops, k, h, b, e, r, t, c, g, z)
  PROVE  Serves(ops, k, h, b, g, c)
<1>1. ASSUME e.type = "REALLOC"
      PROVE  Carried(h, g, b[e.index], c[e.index], LastSize(ops, k - 1, e.index), e.size)
  <2>1. e.index \in LiveAfter(ops, k - 1)
    BY <1>1, SaneRequest
  <2>2. e.index \in LiveAfter(ops, k) /\ LastSize(ops, k, e.index) = e.size
    BY LiveOthers
  <2>3. Filled(h, b[e.index], LastSize(ops, k - 1, e.index), Fill(e.index))
    BY <2>1 DEF Recorded
  <2>4. Filled(g, c[e.index], e.size, Fill(e.index))
    BY <2>2 DEF AcceptsWell, Recorded
  <2> QED
    BY <2>3, <2>4 DEF Carried, Filled
<1>2. Served(s, e, t)
  BY DEF Succeeds
<1> QED
  BY <1>1, <1>2 DEF Serves, AcceptsWell

(* A free does for the payloads what its request asks for.                 *)
LEMMA ServesFreed ==
  ASSUME NEW ops, Sane(ops), NEW k \in 1..Len(ops), NEW e, e = ops[k], e.type = "FREE",
         NEW s, NEW h, NEW b \in [Ids -> Nat], AsPlanned(s, ops, k - 1, h, b),
         NEW g, g = blk!mm_free(h, b[e.index])
  PROVE  Serves(ops, k, h, b, g, b)
<1>1. /\ \E t : Served(s, e, t) /\ AsPlanned(t, ops, k, g, b)
      /\ OthersSame(ops, k - 1, h, g, b, e.index)
  BY Freed
<1> QED
  BY <1>1 DEF Serves

(***************************************************************************)
(* The invariant of the driver linked with mm_blk.c.                       *)
(***************************************************************************)
HeapInv == heap \in Heap /\ heap.brk <= MAX_HEAP /\ heap.brk % 8 = 0

TraceInv == Sane(trace)

TableInv == blocks \in [Ids -> 0..MAX_HEAP] /\ block_sizes \in [Ids -> Sizes \cup {0}]

PcInv ==
  /\ pc \in {"main", "read_trace", "eval_mm_valid", "eval_mm_util", "eval_mm_speed"}
  /\ msg \in {"none", "failed"}

(* eval_mm_valid knows of the requests served so far that the package can  *)
(* serve them; the replays that follow know it of the whole trace.         *)
Known == IF pc = "eval_mm_valid" THEN i ELSE Len(trace) + 1

CourseInv ==
  Replaying => /\ i \in 1..(Len(trace) + 1) /\ First + CHUNKSIZE <= MAX_HEAP
               /\ \E R : Course(R, trace, Known, i, heap, blocks)

RecordInv ==
  /\ pc = "eval_mm_valid" => Recorded(trace, i - 1, heap, blocks, block_sizes, ranges)
  /\ pc = "eval_mm_util" =>
       \A x \in LiveAfter(trace, i - 1) : block_sizes[x] = LastSize(trace, i - 1, x)

DriverInv == HeapInv /\ TraceInv /\ TableInv /\ PcInv /\ CourseInv /\ RecordInv

(* What the driver calls is mm_blk.c.                                      *)
LEMMA Linked ==
  ASSUME lib = "blk", NEW h, NEW p, NEW size
  PROVE  /\ mm_init(h) = blk!mm_init(h) /\ mm_malloc(size) = blk!mm_malloc(heap, size)
         /\ mm_free(p) = blk!mm_free(heap, p)
         /\ mm_realloc(p, size) = blk!mm_realloc(heap, p, size)
BY DEF mm_init, mm_malloc, mm_free, mm_realloc

(* The invariant holds at the start.                                       *)
LEMMA Inits ==
  ASSUME Init
  PROVE  DriverInv
<1>1. heap \in Heap /\ heap.brk = 0
  BY DEF Init, mem_init, Heap, NULL
<1>2. HeapInv
  BY <1>1, HeapAssumption DEF HeapInv
<1>3. TraceInv
  <2>1. trace = <<>>
    BY DEF Init
  <2>2. trace \in Seq(Request) /\ Len(trace) = 0
    BY <2>1
  <2> QED
    BY <2>2 DEF TraceInv, Sane
<1>4. TableInv
  BY HeapAssumption DEF TableInv, Init, Uninitialised
<1>5. pc = "main" /\ msg = "none"
  BY DEF Init
<1> QED
  BY <1>2, <1>3, <1>4, <1>5 DEF DriverInv, PcInv, CourseInv, RecordInv, Replaying

(* Where no trace is replayed little is to be kept.                        *)
LEMMA Between ==
  ASSUME HeapInv', TraceInv', TableInv', pc' \in {"main", "read_trace"}, msg' \in {"none", "failed"}
  PROVE  DriverInv'
BY DEF DriverInv, PcInv, CourseInv, RecordInv, Replaying

(* Each action keeps the invariant, one lemma per action.                  *)
LEMMA OpenTraceKeeps ==
  ASSUME DriverInv, OpenTrace
  PROVE  DriverInv'
<1>1. HeapInv' /\ pc' = "read_trace" /\ msg' \in {"none", "failed"}
  BY DEF DriverInv, HeapInv, PcInv, OpenTrace
<1>2. TraceInv'
  <2>1. trace' = <<>>
    BY DEF OpenTrace
  <2>2. trace' \in Seq(Request) /\ Len(trace') = 0
    BY <2>1
  <2> QED
    BY <2>2 DEF TraceInv, Sane
<1>3. TableInv'
  BY HeapAssumption DEF OpenTrace, TableInv, Uninitialised
<1> QED
  BY <1>1, <1>2, <1>3, Between

(* Reading a request: the trace stays sane.                                *)
LEMMA ReadRequestKeeps ==
  ASSUME DriverInv, ReadRequest
  PROVE  DriverInv'
<1>1. HeapInv' /\ TableInv' /\ pc' = "read_trace" /\ msg' \in {"none", "failed"}
  BY DEF DriverInv, HeapInv, TableInv, PcInv, ReadRequest
<1>2. PICK id \in Ids, type \in {"ALLOC", "REALLOC", "FREE"}, size \in Sizes \cup {0} :
        /\ (type = "ALLOC") <=> (id \notin LiveAfter(trace, Len(trace)))
        /\ (type = "FREE") <=> (size = 0)
        /\ trace' = Append(trace, [type |-> type, index |-> id, size |-> size])
  BY DEF ReadRequest
<1>3. PICK e : e = [type |-> type, index |-> id, size |-> size]
  OBVIOUS
<1>4. e \in Request /\ e.type = type /\ e.index = id /\ e.size = size
  BY <1>3 DEF Request
<1>5. TraceInv'
  <2>1. Sane(Append(trace, e))
    BY <1>2, <1>4, SaneAppend DEF DriverInv, TraceInv
  <2>2. trace' = Append(trace, e)
    BY <1>2, <1>3
  <2> QED
    BY <2>1, <2>2 DEF TraceInv, Sane
<1> QED
  BY <1>1, <1>5, Between

(* mem_reset_brk and mm_init.                                              *)
LEMMA BeginsWell ==
  ASSUME lib = "blk", HeapInv, NEW eval, NEW failed, Begin(eval, failed)
  PROVE  /\ HeapInv' /\ i' = 1
         /\ First + CHUNKSIZE <= MAX_HEAP =>
              /\ pc' = eval /\ Tags(heap', StartLayout) /\ Apart(StartLayout)
              /\ StartLayout.used = {}
         /\ ~(First + CHUNKSIZE <= MAX_HEAP) => pc' = failed
<1>1. PICK h : h = mem_reset_brk(heap)
  OBVIOUS
<1>2. h \in Heap /\ h.brk = 0
  BY <1>1 DEF HeapInv, Heap, mem_reset_brk
<1>3. PICK r : r = blk!mm_init(h)
  OBVIOUS
<1>4. heap' = r.heap /\ i' = 1 /\ pc' = IF r.ptr = NULL THEN failed ELSE eval
  BY <1>1, <1>3, Linked DEF Begin
<1>5. /\ First + CHUNKSIZE <= MAX_HEAP =>
            /\ r.ptr # NULL /\ Tags(r.heap, StartLayout) /\ Apart(StartLayout)
            /\ StartLayout.used = {}
      /\ ~(First + CHUNKSIZE <= MAX_HEAP) => r.ptr = NULL
      /\ r.heap \in Heap /\ r.heap.brk <= MAX_HEAP /\ r.heap.brk % 8 = 0
  BY <1>2, <1>3, InitStarts
<1> QED
  BY <1>4, <1>5 DEF HeapInv

(* The first replay begins with mm_init and nothing recorded.              *)
LEMMA BeginValidKeeps ==
  ASSUME lib = "blk", DriverInv, BeginValid
  PROVE  DriverInv'
<1>1. /\ HeapInv' /\ i' = 1
      /\ First + CHUNKSIZE <= MAX_HEAP =>
           /\ pc' = "eval_mm_valid" /\ Tags(heap', StartLayout) /\ Apart(StartLayout)
           /\ StartLayout.used = {}
      /\ ~(First + CHUNKSIZE <= MAX_HEAP) => pc' = "main"
  BY BeginsWell DEF DriverInv, BeginValid
<1>2. TraceInv' /\ TableInv' /\ trace' = trace /\ blocks' = blocks /\ ranges' = {}
  BY DEF DriverInv, TraceInv, TableInv, BeginValid, clear_ranges
<1>3. msg' \in {"none", "failed"}
  BY DEF DriverInv, PcInv, BeginValid, malloc_error
<1>4. CASE ~(First + CHUNKSIZE <= MAX_HEAP)
  BY <1>1, <1>2, <1>3, <1>4, Between
<1>5. CASE First + CHUNKSIZE <= MAX_HEAP
  <2>1. PICK R : Replay(R, trace, 1)
    BY FirstReplay
  <2>2. Course(R, trace, 1, 1, heap', blocks)
    BY <1>1, <1>5, <2>1, CourseStarts
  <2>3. Known' = 1 /\ i' = 1 /\ pc' = "eval_mm_valid"
    BY <1>1, <1>5 DEF Known
  <2>4. Course(R, trace', Known', i', heap', blocks')
    BY <2>2, <2>3, <1>2
  <2>5. CourseInv'
    <3>1. Len(trace') \in Nat
      BY <1>2 DEF TraceInv, Sane
    <3> QED
      BY <2>3, <2>4, <3>1, <1>5 DEF CourseInv
  <2>6. RecordInv'
    <3>1. LiveAfter(trace', 0) = {}
      BY LiveStart
    <3>2. Recorded(trace', 0, heap', blocks', block_sizes', ranges')
      BY <3>1, <1>2 DEF Recorded, RangesOf
    <3> QED
      BY <2>3, <3>2 DEF RecordInv
  <2> QED
    BY <1>1, <1>2, <1>3, <2>3, <2>5, <2>6 DEF DriverInv, PcInv
<1> QED
  BY <1>4, <1>5

(***************************************************************************)
(* The replays.                                                            *)
(***************************************************************************)
LEMMA TagsHeap ==
  ASSUME NEW h, NEW L, Tags(h, L)
  PROVE  h \in Heap /\ h.brk <= MAX_HEAP /\ h.brk % 8 = 0
<1>1. Layout(L) /\ h \in Heap /\ h.brk = L.brk
  BY DEF Tags
<1> QED
  BY <1>1, LayoutFacts

(* The addresses of the table are naturals.                                *)
LEMMA TableNat ==
  ASSUME TableInv
  PROVE  blocks \in [Ids -> Nat]
BY HeapAssumption DEF TableInv

(* The next request of a replay.                                           *)
LEMMA Here ==
  ASSUME DriverInv, Replaying, i <= Len(trace)
  PROVE  /\ i \in Nat /\ i \in 1..Len(trace) /\ Len(trace) \in Nat /\ Sane(trace)
         /\ \E R : /\ Course(R, trace, Known, i, heap, blocks)
                   /\ AsPlanned(R[i], trace, i - 1, heap, blocks)
<1>1. Sane(trace) /\ Len(trace) \in Nat /\ i \in 1..(Len(trace) + 1)
  BY DEF DriverInv, TraceInv, CourseInv, Sane
<1>2. PICK R : Course(R, trace, Known, i, heap, blocks)
  BY DEF DriverInv, CourseInv
<1> QED
  BY <1>1, <1>2 DEF Course

(* A request is served, and the replay goes on to the next.                *)
Advances ==
  /\ Replaying /\ Replaying' /\ trace' = trace /\ i \in 1..Len(trace) /\ i' = i + 1
  /\ Serves(trace, i, heap, blocks, heap', blocks')

(* eval_mm_valid learns the course as it serves the requests.              *)
LEMMA AdvanceValid ==
  ASSUME DriverInv, pc = "eval_mm_valid", i <= Len(trace),
         NEW R, Course(R, trace, Known, i, heap, blocks),
         NEW t, Served(R[i], trace[i], t), AsPlanned(t, trace, i, heap', blocks'),
         pc' = pc, trace' = trace, i' = i + 1
  PROVE  CourseInv'
<1>1. i \in Nat /\ i \in 1..Len(trace) /\ Len(trace) \in Nat /\ First + CHUNKSIZE <= MAX_HEAP
  BY Here DEF Replaying, DriverInv, CourseInv
<1>2. Known = i /\ Known' = i + 1
  BY DEF Known
<1>3. \E Q : Course(Q, trace, i + 1, i + 1, heap', blocks')
  <2>1. i \in Nat /\ i >= 1 /\ Course(R, trace, i, i, heap, blocks)
    BY <1>1, <1>2
  <2> QED
    BY <2>1, CourseGrows
<1> QED
  BY <1>1, <1>2, <1>3 DEF CourseInv

(* The later replays find the course as eval_mm_valid left it.             *)
LEMMA AdvanceAgain ==
  ASSUME DriverInv, pc \in {"eval_mm_util", "eval_mm_speed"}, i <= Len(trace),
         NEW R, Course(R, trace, Known, i, heap, blocks),
         NEW t, Served(R[i], trace[i], t), AsPlanned(t, trace, i, heap', blocks'),
         pc' = pc, trace' = trace, i' = i + 1
  PROVE  CourseInv'
<1>1. i \in Nat /\ i \in 1..Len(trace) /\ Len(trace) \in Nat /\ First + CHUNKSIZE <= MAX_HEAP
  BY Here DEF Replaying, DriverInv, CourseInv
<1>2. Known = Len(trace) + 1 /\ Known' = Len(trace) + 1
  BY DEF Known
<1>3. i \in 1..((Len(trace) + 1) - 1) /\ Len(trace) + 1 \in Nat
  BY <1>1
<1>4. Course(R, trace, Len(trace) + 1, i + 1, heap', blocks')
  BY <1>2, <1>3, CourseAgain
<1> QED
  BY <1>1, <1>2, <1>4 DEF CourseInv

(* A replay that follows eval_mm_valid is never refused memory.            *)
LEMMA NeverFails ==
  ASSUME DriverInv, pc \in {"eval_mm_util", "eval_mm_speed"}, i <= Len(trace),
         NEW R, Course(R, trace, Known, i, heap, blocks),
         trace[i].type # "FREE", NEW r
  PROVE  ~Fails(heap, R[i], trace[i], r)
<1>1. i \in Nat /\ i \in 1..Len(trace) /\ Len(trace) \in Nat /\ Known = Len(trace) + 1
  BY Here DEF Replaying, Known
<1>2. i \in 1..(Known - 1)
  BY <1>1
<1>3. Served(R[i], trace[i], R[i + 1])
  BY <1>2 DEF Course, Replay
<1>4. Room(R[i].layout, Need(trace[i].size))
  BY <1>3, ServedRoom
<1> QED
  BY <1>4 DEF Fails

(* When a replay has come to the end of the trace, the next may begin.     *)
LEMMA Rewinds ==
  ASSUME lib = "blk", DriverInv, Replaying, ~(i <= Len(trace)), NEW eval, NEW failed,
         eval \in {"eval_mm_util", "eval_mm_speed"}, Begin(eval, failed),
         trace' = trace, blocks' = blocks
  PROVE  HeapInv' /\ i' = 1 /\ pc' = eval /\ CourseInv'
<1>1. Len(trace) \in Nat /\ i \in 1..(Len(trace) + 1) /\ First + CHUNKSIZE <= MAX_HEAP
  BY DEF DriverInv, TraceInv, Sane, CourseInv
<1>2. i = Len(trace) + 1
  BY <1>1
<1>3. PICK R : Course(R, trace, Known, i, heap, blocks)
  BY DEF DriverInv, CourseInv
<1>4. Replay(R, trace, Len(trace) + 1)
  BY <1>2, <1>3 DEF Course, Known
<1>5. /\ HeapInv' /\ i' = 1 /\ pc' = eval /\ Tags(heap', StartLayout) /\ Apart(StartLayout)
      /\ StartLayout.used = {}
  BY <1>1, BeginsWell DEF DriverInv
<1>6. Course(R, trace, Len(trace) + 1, 1, heap', blocks)
  BY <1>4, <1>5, CourseStarts
<1>7. Known' = Len(trace) + 1
  BY <1>5 DEF Known
<1>8. Course(R, trace', Known', i', heap', blocks')
  BY <1>5, <1>6, <1>7
<1> QED
  BY <1>1, <1>5, <1>8 DEF CourseInv

(* The second replay starts from mm_init, on the known course.             *)
LEMMA BeginUtilKeeps ==
  ASSUME lib = "blk", DriverInv, BeginUtil
  PROVE  DriverInv'
<1>1. /\ pc = "eval_mm_valid" /\ ~(i <= Len(trace)) /\ Begin("eval_mm_util", "app_error")
      /\ trace' = trace /\ blocks' = blocks /\ block_sizes' = block_sizes /\ msg' = msg
  <2>1. Len(trace) \in Nat /\ i \in Nat
    BY DEF BeginUtil, DriverInv, TraceInv, Sane, CourseInv, Replaying
  <2> QED
    BY <2>1 DEF BeginUtil
<1>2. HeapInv' /\ i' = 1 /\ pc' = "eval_mm_util" /\ CourseInv'
  BY <1>1, Rewinds DEF Replaying
<1>3. TraceInv' /\ TableInv' /\ PcInv'
  BY <1>1, <1>2 DEF DriverInv, TraceInv, TableInv, PcInv
<1>4. RecordInv'
  <2>1. LiveAfter(trace', 0) = {}
    BY LiveStart
  <2> QED
    BY <1>2, <2>1 DEF RecordInv
<1> QED
  BY <1>2, <1>3, <1>4 DEF DriverInv

(* So does the third.                                                      *)
LEMMA BeginSpeedKeeps ==
  ASSUME lib = "blk", DriverInv, BeginSpeed
  PROVE  DriverInv'
<1>1. /\ pc \in {"eval_mm_util", "eval_mm_speed"} /\ ~(i <= Len(trace))
      /\ Begin("eval_mm_speed", "app_error")
      /\ trace' = trace /\ blocks' = blocks /\ block_sizes' = block_sizes /\ msg' = msg
  <2>1. Len(trace) \in Nat /\ i \in Nat
    BY DEF BeginSpeed, DriverInv, TraceInv, Sane, CourseInv, Replaying
  <2> QED
    BY <2>1 DEF BeginSpeed
<1>2. HeapInv' /\ i' = 1 /\ pc' = "eval_mm_speed" /\ CourseInv'
  BY <1>1, Rewinds DEF Replaying
<1>3. TraceInv' /\ TableInv' /\ PcInv'
  BY <1>1, <1>2 DEF DriverInv, TraceInv, TableInv, PcInv
<1>4. RecordInv'
  BY <1>2 DEF RecordInv
<1> QED
  BY <1>2, <1>3, <1>4 DEF DriverInv

(* Between two traces nothing is to be kept.                               *)
LEMMA NextTraceKeeps ==
  ASSUME DriverInv, NextTrace
  PROVE  DriverInv'
<1>1. HeapInv' /\ TraceInv' /\ TableInv' /\ pc' = "main" /\ msg' \in {"none", "failed"}
  BY DEF DriverInv, HeapInv, TraceInv, TableInv, PcInv, NextTrace
<1> QED
  BY <1>1, Between

(***************************************************************************)
(* eval_mm_valid.                                                          *)
(***************************************************************************)
LEMMA Accepts ==
  ASSUME DriverInv, pc = "eval_mm_valid", i <= Len(trace), trace[i].type # "FREE",
         NEW R, Course(R, trace, Known, i, heap, blocks),
         NEW r, NEW t, Succeeds(heap, R[i], trace[i], r, t), Accept(r.heap, r.ptr),
         ranges' = Others(trace, i - 1, blocks, trace[i].index) \cup {Range(r.ptr, trace[i].size)},
         trace' = trace
  PROVE  DriverInv' /\ Advances
<1>1. /\ i \in Nat /\ i \in 1..Len(trace) /\ Sane(trace) /\ blocks \in [Ids -> Nat]
      /\ AsPlanned(R[i], trace, i - 1, heap, blocks)
      /\ block_sizes \in [Ids -> Sizes \cup {0}]
      /\ Recorded(trace, i - 1, heap, blocks, block_sizes, ranges)
  BY Here, TableNat DEF Replaying, Course, DriverInv, TableInv, RecordInv
<1>2. PICK e : e = trace[i]
  OBVIOUS
<1>3. /\ heap' = memset(r.heap, r.ptr, Fill(e.index), e.size)
      /\ blocks' = [blocks EXCEPT ![e.index] = r.ptr]
      /\ block_sizes' = [block_sizes EXCEPT ![e.index] = e.size]
      /\ i' = i + 1 /\ pc' = pc /\ msg' = msg
  BY <1>2 DEF Accept, op
<1>4. /\ AsPlanned(t, trace, i, heap', blocks')
      /\ Recorded(trace, i, heap', blocks', block_sizes', ranges')
      /\ Serves(trace, i, heap, blocks, heap', blocks')
  <2>1. AcceptsWell(trace, i, heap, blocks, e, r, t, blocks', heap', block_sizes)
    BY <1>1, <1>2, <1>3, AcceptRecords
  <2>2. Serves(trace, i, heap, blocks, heap', blocks')
    BY <2>1, <1>1, <1>2, ServesAccepted
  <2> QED
    BY <2>1, <2>2, <1>2, <1>3 DEF AcceptsWell
<1>5. PlacesWell(trace, i, heap, blocks, e.index, r, t, blocks')
  BY <1>1, <1>2, <1>3, PlacedWell
<1>6. HeapInv'
  <2>1. Tags(heap', t.layout)
    BY <1>4 DEF AsPlanned
  <2> QED
    BY <2>1, TagsHeap DEF HeapInv
<1>7. TableInv'
  <2>1. e.index \in Ids /\ e.size \in Sizes
    BY <1>1, <1>2, SaneRequest
  <2>2. r.ptr \in 0..MAX_HEAP
    BY <1>5, HeapAssumption DEF PlacesWell
  <2> QED
    BY <2>1, <2>2, <1>3 DEF DriverInv, TableInv
<1>8. CourseInv'
  <2>1. Served(R[i], trace[i], t)
    BY DEF Succeeds
  <2> QED
    BY <2>1, <1>3, <1>4, AdvanceValid
<1>9. RecordInv'
  <2>1. i' - 1 = i
    BY <1>1, <1>3
  <2> QED
    BY <2>1, <1>3, <1>4 DEF RecordInv
<1>10. PcInv' /\ TraceInv'
  BY <1>3 DEF DriverInv, PcInv, TraceInv
<1> QED
  BY <1>1, <1>3, <1>4, <1>6, <1>7, <1>8, <1>9, <1>10 DEF DriverInv, Advances, Replaying

(* A replay given up, with an error recorded, keeps the invariant.         *)
LEMMA GivenUp ==
  ASSUME DriverInv, heap' = heap, Invalid("failed"), trace' = trace
  PROVE  DriverInv' /\ ~Replaying'
<1>1. HeapInv' /\ TraceInv' /\ TableInv' /\ pc' = "main" /\ msg' \in {"none", "failed"}
  BY DEF DriverInv, HeapInv, TraceInv, TableInv, Invalid, malloc_error
<1> QED
  BY <1>1, Between DEF Replaying

(* An allocation in eval_mm_valid, served or refused.                      *)
LEMMA ValidAllocKeeps ==
  ASSUME lib = "blk", DriverInv, ValidAlloc
  PROVE  DriverInv' /\ (Advances \/ ~Replaying')
<1>1. pc = "eval_mm_valid" /\ i <= Len(trace) /\ trace[i].type = "ALLOC" /\ trace' = trace
  BY DEF ValidAlloc, Pending, op
<1>2. i \in Nat /\ i \in 1..Len(trace) /\ Sane(trace) /\ blocks \in [Ids -> Nat]
      /\ block_sizes \in [Ids -> Sizes \cup {0}]
      /\ Recorded(trace, i - 1, heap, blocks, block_sizes, ranges)
  BY <1>1, Here, TableNat DEF Replaying, DriverInv, TableInv, RecordInv
<1>3. PICK R : /\ Course(R, trace, Known, i, heap, blocks)
               /\ AsPlanned(R[i], trace, i - 1, heap, blocks)
  BY <1>1, Here DEF Replaying
<1>4. PICK e : e = trace[i]
  OBVIOUS
<1>5. PICK new : new = blk!mm_malloc(heap, e.size)
  OBVIOUS
<1>6. PICK r : r = Range(new.ptr, e.size)
  OBVIOUS
<1>7. LET ok == new.ptr # NULL /\ add_range(r, new.heap, ranges)
      IN  /\ ranges' = IF ok THEN ranges \cup {r} ELSE ranges
          /\ IF ok THEN Accept(new.heap, new.ptr)
             ELSE /\ heap' = new.heap
                  /\ Invalid(IF new.ptr = NULL THEN "failed" ELSE "misplaced")
  BY <1>4, <1>5, <1>6, Linked DEF ValidAlloc, op
<1>8. Fails(heap, R[i], e, new) \/ \E t : Succeeds(heap, R[i], e, new, t)
  <2>1. new = IF e.type = "ALLOC" THEN blk!mm_malloc(heap, e.size)
              ELSE blk!mm_realloc(heap, blocks[e.index], e.size)
    BY <1>1, <1>4, <1>5
  <2>2. e.type # "FREE"
    BY <1>1, <1>4
  <2> QED
    BY <1>2, <1>3, <1>4, <2>1, <2>2, Placing
<1>9. CASE Fails(heap, R[i], e, new)
  <2>1. new.ptr = NULL /\ new.heap = heap
    BY <1>9 DEF Fails, Result
  <2> QED
    BY <2>1, <1>1, <1>7, GivenUp
<1>10. ASSUME NEW t, Succeeds(heap, R[i], e, new, t) PROVE DriverInv' /\ Advances
  <2>1. ranges = Others(trace, i - 1, blocks, e.index)
    <3>1. e.index \notin LiveAfter(trace, i - 1)
      BY <1>1, <1>2, <1>4, SaneRequest
    <3> QED
      BY <3>1, <1>2 DEF Recorded, RangesOf, Others
  <2>2. PlacesWell(trace, i, heap, blocks, e.index, new, t, [blocks EXCEPT ![e.index] = new.ptr])
    BY <1>1, <1>2, <1>3, <1>4, <1>10, PlacedWell
  <2>3. add_range(r, new.heap, ranges)
    <3>1. PICK c, g : /\ c = [blocks EXCEPT ![e.index] = new.ptr]
                      /\ g = memset(new.heap, new.ptr, Fill(e.index), e.size)
      OBVIOUS
    <3>2. AcceptsWell(trace, i, heap, blocks, e, new, t, c, g, block_sizes)
      BY <1>1, <1>2, <1>3, <1>4, <1>10, <3>1, AcceptRecords
    <3> QED
      BY <1>6, <2>1, <3>2 DEF AcceptsWell
  <2>4. new.ptr # NULL
    BY <2>2 DEF PlacesWell
  <2>5. Accept(new.heap, new.ptr) /\ ranges' = ranges \cup {r}
    BY <1>7, <2>3, <2>4
  <2> QED
    BY <1>1, <1>3, <1>4, <1>6, <1>10, <2>1, <2>5, Accepts
<1> QED
  BY <1>8, <1>9, <1>10

(* The driver finds in the reallocated payload what it had filled it with. *)
LEMMA FindsPreserved ==
  ASSUME DriverInv, pc = "eval_mm_valid", i <= Len(trace), trace[i].type = "REALLOC",
         NEW s, AsPlanned(s, trace, i - 1, heap, blocks), NEW g, NEW q \in Nat,
         Copied(heap, g, s.layout, s.at[trace[i].index], q, trace[i].size)
  PROVE  Preserved(g, q)
<1>1. /\ i \in Nat /\ i \in 1..Len(trace) /\ Sane(trace)
      /\ Recorded(trace, i - 1, heap, blocks, block_sizes, ranges)
      /\ Fits(s, trace, i - 1) /\ \A x \in LiveAfter(trace, i - 1) : blocks[x] = s.at[x]
  BY Here DEF Replaying, DriverInv, RecordInv, AsPlanned
<1>2. PICK id, size : id = trace[i].index /\ size = trace[i].size
  OBVIOUS
<1>3. id \in LiveAfter(trace, i - 1) /\ size \in Nat /\ size > 0 /\ size % 4 = 0
  BY <1>1, <1>2, SaneRequest, SizeFacts
<1>4. PICK old : old = LastSize(trace, i - 1, id)
  OBVIOUS
<1>5. old \in Nat /\ old > 0 /\ old % 4 = 0
  BY <1>1, <1>3, <1>4, FitsFacts
<1>6. block_sizes[id] = old /\ Filled(heap, s.at[id], old, Fill(id))
  BY <1>1, <1>3, <1>4 DEF Recorded
<1>7. Carried(heap, g, s.at[id], q, old, size)
  <2>1. id \in LiveAfter(trace, i - 1) /\ size \in Sizes /\ Copied(heap, g, s.layout, s.at[id], q, size)
    BY <1>1, <1>2, <1>3, SaneRequest
  <2>2. Carried(heap, g, s.at[id], q, LastSize(trace, i - 1, id), size)
    BY <1>1, <2>1, CopiedWords
  <2> QED
    BY <1>4, <2>2
<1>8. ASSUME NEW k \in 0..(Smaller(size, old) \div WSIZE - 1)
      PROVE  get(g, q + k * WSIZE) = Fill(id)
  <2>1. PICK a \in Nat : size = 4 * a /\ size \div 4 = a
    BY <1>3
  <2>2. PICK b \in Nat : old = 4 * b /\ old \div 4 = b
    BY <1>5
  <2>3. Smaller(size, old) = size \/ Smaller(size, old) = old
    BY DEF Smaller
  <2>4. size < old \/ Smaller(size, old) = old
    BY DEF Smaller
  <2>5. size < old => Smaller(size, old) = size
    BY DEF Smaller
  <2>6. k \in Nat /\ k < a /\ k < b
    BY <1>3, <1>5, <2>1, <2>2, <2>3, <2>4, <2>5 DEF WSIZE
  <2>7. PICK j \in Nat : j = k + 1
    BY <2>6
  <2>8. j \in 1..(old \div WSIZE) /\ j \in 1..(size \div WSIZE) /\ j - 1 = k
    BY <2>1, <2>2, <2>6, <2>7 DEF WSIZE
  <2>9. get(g, q + (j - 1) * WSIZE) = get(heap, s.at[id] + (j - 1) * WSIZE)
    BY <1>7, <2>8 DEF Carried
  <2>10. get(heap, s.at[id] + (j - 1) * WSIZE) = Fill(id)
    BY <1>6, <2>8 DEF Filled
  <2> QED
    BY <2>8, <2>9, <2>10
<1> QED
  BY <1>2, <1>6, <1>8 DEF Preserved, op

(* A reallocation in eval_mm_valid: served with the old contents found in  *)
(* the new block, or refused.                                              *)
LEMMA ValidReallocKeeps ==
  ASSUME lib = "blk", DriverInv, ValidRealloc
  PROVE  DriverInv' /\ (Advances \/ ~Replaying')
<1>1. pc = "eval_mm_valid" /\ i <= Len(trace) /\ trace[i].type = "REALLOC" /\ trace' = trace
  BY DEF ValidRealloc, Pending, op
<1>2. i \in Nat /\ i \in 1..Len(trace) /\ Sane(trace) /\ blocks \in [Ids -> Nat]
      /\ block_sizes \in [Ids -> Sizes \cup {0}]
      /\ Recorded(trace, i - 1, heap, blocks, block_sizes, ranges)
  BY <1>1, Here, TableNat DEF Replaying, DriverInv, TableInv, RecordInv
<1>3. PICK R : /\ Course(R, trace, Known, i, heap, blocks)
               /\ AsPlanned(R[i], trace, i - 1, heap, blocks)
  BY <1>1, Here DEF Replaying
<1>4. PICK e : e = trace[i]
  OBVIOUS
<1>5. PICK new : new = blk!mm_realloc(heap, blocks[e.index], e.size)
  OBVIOUS
<1>6. PICK r, rest : r = Range(new.ptr, e.size) /\ rest = RangesBut(ranges, blocks[e.index])
  OBVIOUS
<1>7. /\ new.ptr = NULL /\ new.ptr # mm!Crash => Invalid("failed") /\ heap' = new.heap
      /\ new.ptr # NULL /\ new.ptr # mm!Crash /\ add_range(r, new.heap, rest)
         /\ Preserved(new.heap, new.ptr) =>
           Accept(new.heap, new.ptr) /\ ranges' = rest \cup {r}
  <2>1. mm_realloc(blocks[e.index], e.size) = new
    BY <1>5, Linked
  <2>2. remove_range(blocks[e.index]) = rest
    BY <1>6 DEF remove_range, RangesBut
  <2> QED
    BY <1>4, <1>6, <2>1, <2>2 DEF ValidRealloc, op
<1>8. Fails(heap, R[i], e, new) \/ \E t : Succeeds(heap, R[i], e, new, t)
  <2>1. new = IF e.type = "ALLOC" THEN blk!mm_malloc(heap, e.size)
              ELSE blk!mm_realloc(heap, blocks[e.index], e.size)
    BY <1>1, <1>4, <1>5
  <2>2. e.type # "FREE"
    BY <1>1, <1>4
  <2> QED
    BY <1>2, <1>3, <1>4, <2>1, <2>2, Placing
<1>9. mm!Crash = MAX_HEAP + 1
  BY DEF mm!Crash
<1>10. CASE Fails(heap, R[i], e, new)
  <2>1. new.ptr = NULL /\ new.heap = heap
    BY <1>10 DEF Fails, Result
  <2>2. new.ptr # mm!Crash
    BY <2>1, <1>9, HeapAssumption DEF NULL
  <2>3. Invalid("failed") /\ heap' = heap
    BY <1>7, <2>1, <2>2
  <2> QED
    BY <1>1, <2>3, GivenUp
<1>11. ASSUME NEW t, Succeeds(heap, R[i], e, new, t) PROVE DriverInv' /\ Advances
  <2>1. rest = Others(trace, i - 1, blocks, e.index)
    <3>1. e.index \in LiveAfter(trace, i - 1)
      BY <1>1, <1>2, <1>4, SaneRequest
    <3>2. ranges = RangesOf(trace, i - 1, blocks)
      BY <1>2 DEF Recorded
    <3> QED
      BY <1>3, <1>6, <3>1, <3>2, RangesWithout
  <2>2. PICK c, g : /\ c = [blocks EXCEPT ![e.index] = new.ptr]
                    /\ g = memset(new.heap, new.ptr, Fill(e.index), e.size)
    OBVIOUS
  <2>3. PlacesWell(trace, i, heap, blocks, e.index, new, t, c)
    BY <1>1, <1>2, <1>3, <1>4, <1>11, <2>2, PlacedWell
  <2>4. add_range(r, new.heap, rest)
    <3>1. AcceptsWell(trace, i, heap, blocks, e, new, t, c, g, block_sizes)
      BY <1>1, <1>2, <1>3, <1>4, <1>11, <2>2, AcceptRecords
    <3> QED
      BY <1>6, <2>1, <3>1 DEF AcceptsWell
  <2>5. new.ptr \in Nat /\ new.ptr # NULL /\ new.ptr # mm!Crash
    BY <2>3, <1>9, HeapAssumption DEF PlacesWell
  <2>6. Preserved(new.heap, new.ptr)
    <3>1. Copied(heap, new.heap, R[i].layout, R[i].at[trace[i].index], new.ptr, trace[i].size)
      BY <1>1, <1>4, <1>11 DEF Succeeds
    <3> QED
      BY <1>1, <1>3, <2>5, <3>1, FindsPreserved
  <2>7. Accept(new.heap, new.ptr) /\ ranges' = rest \cup {r}
    BY <1>7, <2>4, <2>5, <2>6
  <2> QED
    BY <1>1, <1>3, <1>4, <1>6, <1>11, <2>1, <2>7, Accepts
<1> QED
  BY <1>8, <1>10, <1>11

(* A free in eval_mm_valid.                                                *)
LEMMA ValidFreeKeeps ==
  ASSUME lib = "blk", DriverInv, ValidFree
  PROVE  DriverInv' /\ Advances
<1>1. /\ pc = "eval_mm_valid" /\ i <= Len(trace) /\ trace[i].type = "FREE"
      /\ trace' = trace /\ pc' = pc /\ msg' = msg /\ i' = i + 1
      /\ blocks' = blocks /\ block_sizes' = block_sizes
  BY DEF ValidFree, Pending, op
<1>2. i \in Nat /\ i \in 1..Len(trace) /\ Sane(trace) /\ blocks \in [Ids -> Nat]
      /\ Recorded(trace, i - 1, heap, blocks, block_sizes, ranges)
  BY <1>1, Here, TableNat DEF Replaying, DriverInv, RecordInv
<1>3. PICK R : /\ Course(R, trace, Known, i, heap, blocks)
               /\ AsPlanned(R[i], trace, i - 1, heap, blocks)
  BY <1>1, Here DEF Replaying
<1>4. PICK e : e = trace[i]
  OBVIOUS
<1>5. heap' = blk!mm_free(heap, blocks[e.index]) /\ ranges' = RangesBut(ranges, blocks[e.index])
  BY <1>4, Linked DEF ValidFree, op, remove_range, RangesBut
<1>6. PICK t : Served(R[i], e, t) /\ AsPlanned(t, trace, i, heap', blocks)
  BY <1>1, <1>2, <1>3, <1>4, <1>5, Freed
<1>7. CourseInv'
  BY <1>1, <1>3, <1>4, <1>6, AdvanceValid
<1>8. HeapInv'
  <2>1. Tags(heap', t.layout)
    BY <1>6 DEF AsPlanned
  <2> QED
    BY <2>1, TagsHeap DEF HeapInv
<1>9. RecordInv'
  <2>1. i' - 1 = i
    BY <1>1, <1>2
  <2>2. Recorded(trace, i, heap', blocks, block_sizes, RangesBut(ranges, blocks[e.index]))
    BY <1>1, <1>2, <1>3, <1>4, <1>5, FreeRecords
  <2> QED
    BY <2>1, <2>2, <1>1, <1>5 DEF RecordInv
<1>10. PcInv' /\ TraceInv' /\ TableInv'
  BY <1>1 DEF DriverInv, PcInv, TraceInv, TableInv
<1>11. Advances
  <2>1. Serves(trace, i, heap, blocks, heap', blocks)
    BY <1>1, <1>2, <1>3, <1>4, <1>5, ServesFreed
  <2> QED
    BY <2>1, <1>1, <1>2 DEF Advances, Replaying
<1> QED
  BY <1>7, <1>8, <1>9, <1>10, <1>11 DEF DriverInv

(***************************************************************************)
(* eval_mm_util and eval_mm_speed.                                         *)
(***************************************************************************)
LEMMA PlacesAgain ==
  ASSUME lib = "blk", DriverInv, pc \in {"eval_mm_util", "eval_mm_speed"}, i <= Len(trace),
         op.type # "FREE", NEW new, new = Placed
  PROVE  /\ new.ptr \notin {NULL, mm!Crash} /\ new.ptr \in 0..MAX_HEAP
         /\ \A g, c : g = new.heap /\ c = [blocks EXCEPT ![op.index] = new.ptr] =>
              /\ g \in Heap /\ g.brk <= MAX_HEAP /\ g.brk % 8 = 0
              /\ c \in [Ids -> 0..MAX_HEAP]
              /\ \E R, t : /\ Course(R, trace, Known, i, heap, blocks)
                           /\ Served(R[i], trace[i], t) /\ AsPlanned(t, trace, i, g, c)
              /\ Serves(trace, i, heap, blocks, g, c)
<1>1. i \in Nat /\ i \in 1..Len(trace) /\ Sane(trace) /\ blocks \in [Ids -> Nat]
  BY Here, TableNat DEF Replaying, DriverInv
<1>2. PICK R : /\ Course(R, trace, Known, i, heap, blocks)
               /\ AsPlanned(R[i], trace, i - 1, heap, blocks)
  BY Here DEF Replaying
<1>3. PICK e : e = trace[i]
  OBVIOUS
<1>4. e.type # "FREE" /\ op = e
  BY <1>3 DEF op
<1>5. new = IF e.type = "ALLOC" THEN blk!mm_malloc(heap, e.size)
            ELSE blk!mm_realloc(heap, blocks[e.index], e.size)
  BY <1>4, Linked DEF Placed
<1>6. PICK t : Succeeds(heap, R[i], e, new, t)
  <2>1. Fails(heap, R[i], e, new) \/ \E t : Succeeds(heap, R[i], e, new, t)
    BY <1>1, <1>2, <1>3, <1>4, <1>5, Placing
  <2>2. ~Fails(heap, R[i], e, new)
    BY <1>2, <1>3, <1>4, NeverFails
  <2> QED
    BY <2>1, <2>2
<1>7. PICK c : c = [blocks EXCEPT ![e.index] = new.ptr]
  OBVIOUS
<1>8. PlacesWell(trace, i, heap, blocks, e.index, new, t, c)
  BY <1>1, <1>2, <1>3, <1>4, <1>6, <1>7, PlacedWell
<1>9. /\ new.ptr # NULL /\ new.ptr \in Nat /\ new.ptr < MAX_HEAP
      /\ AsPlanned(t, trace, i, new.heap, c)
  BY <1>8 DEF PlacesWell
<1>10. new.ptr \in 0..MAX_HEAP /\ new.ptr # mm!Crash
  BY <1>9, HeapAssumption DEF mm!Crash
<1>11. Tags(new.heap, t.layout)
  BY <1>9 DEF AsPlanned
<1>12. new.heap \in Heap /\ new.heap.brk <= MAX_HEAP /\ new.heap.brk % 8 = 0
  BY <1>11, TagsHeap
<1>13. c \in [Ids -> 0..MAX_HEAP]
  BY <1>7, <1>10 DEF DriverInv, TableInv
<1>14. Served(R[i], trace[i], t)
  BY <1>3, <1>6 DEF Succeeds
<1>15. Serves(trace, i, heap, blocks, new.heap, c)
  BY <1>1, <1>2, <1>3, <1>4, <1>6, <1>7, ServesPlaced
<1> QED
  BY <1>2, <1>4, <1>7, <1>9, <1>10, <1>12, <1>13, <1>14, <1>15

(* A free in a later replay.                                               *)
LEMMA FreesAgain ==
  ASSUME lib = "blk", DriverInv, pc \in {"eval_mm_util", "eval_mm_speed"}, i <= Len(trace),
         op.type = "FREE", heap' = mm_free(blocks[op.index]), blocks' = blocks,
         pc' = pc, trace' = trace, i' = i + 1
  PROVE  HeapInv' /\ CourseInv' /\ Advances
<1>1. i \in Nat /\ i \in 1..Len(trace) /\ Sane(trace) /\ blocks \in [Ids -> Nat]
  BY Here, TableNat DEF Replaying, DriverInv
<1>2. PICK R : /\ Course(R, trace, Known, i, heap, blocks)
               /\ AsPlanned(R[i], trace, i - 1, heap, blocks)
  BY Here DEF Replaying
<1>3. PICK e : e = trace[i]
  OBVIOUS
<1>4. e.type = "FREE" /\ heap' = blk!mm_free(heap, blocks[e.index])
  BY <1>3, Linked DEF op
<1>5. PICK t : Served(R[i], e, t) /\ AsPlanned(t, trace, i, heap', blocks)
  BY <1>1, <1>2, <1>3, <1>4, Freed
<1>6. CourseInv'
  BY <1>2, <1>3, <1>5, AdvanceAgain
<1>7. Tags(heap', t.layout)
  BY <1>5 DEF AsPlanned
<1>8. Serves(trace, i, heap, blocks, heap', blocks)
  BY <1>1, <1>2, <1>3, <1>4, ServesFreed
<1>9. Advances
  BY <1>1, <1>8 DEF Advances, Replaying
<1> QED
  BY <1>6, <1>7, <1>9, TagsHeap DEF HeapInv

(* eval_mm_util is served what eval_mm_valid was.                          *)
LEMMA UtilPlaceKeeps ==
  ASSUME lib = "blk", DriverInv, UtilPlace
  PROVE  DriverInv' /\ Advances
<1>1. /\ pc = "eval_mm_util" /\ i <= Len(trace) /\ op.type # "FREE"
      /\ trace' = trace /\ msg' = msg
  BY DEF UtilPlace, Pending
<1>2. PICK new : new = Placed
  OBVIOUS
<1>3. PICK g, c : g = new.heap /\ c = [blocks EXCEPT ![op.index] = new.ptr]
  OBVIOUS
<1>4. /\ new.ptr \notin {NULL, mm!Crash}
      /\ g \in Heap /\ g.brk <= MAX_HEAP /\ g.brk % 8 = 0 /\ c \in [Ids -> 0..MAX_HEAP]
      /\ \E R, t : /\ Course(R, trace, Known, i, heap, blocks)
                   /\ Served(R[i], trace[i], t) /\ AsPlanned(t, trace, i, g, c)
      /\ Serves(trace, i, heap, blocks, g, c)
  BY <1>1, <1>2, <1>3, PlacesAgain
<1>5. /\ heap' = g /\ blocks' = c /\ i' = i + 1 /\ pc' = pc
      /\ block_sizes' = [block_sizes EXCEPT ![op.index] = op.size]
  BY <1>2, <1>3, <1>4 DEF UtilPlace
<1>6. i \in Nat /\ i \in 1..Len(trace) /\ Sane(trace)
  BY <1>1, Here DEF Replaying
<1>7. op.index \in Ids /\ op.size \in Sizes
  BY <1>1, <1>6, SaneRequest DEF op
<1>8. CourseInv'
  BY <1>1, <1>4, <1>5, AdvanceAgain
<1>9. HeapInv' /\ TableInv'
  BY <1>4, <1>5, <1>7 DEF HeapInv, TableInv, DriverInv
<1>10. RecordInv'
  <2>1. i' - 1 = i
    BY <1>5, <1>6
  <2>2. ASSUME NEW x \in LiveAfter(trace, i) PROVE block_sizes'[x] = LastSize(trace, i, x)
    <3>1. x \in Ids /\ block_sizes \in [Ids -> Sizes \cup {0}]
      BY DEF LiveAfter, DriverInv, TableInv
    <3>2. CASE x = op.index
      BY <3>1, <3>2, <1>5, <1>6, LiveOthers DEF op
    <3>3. CASE x # op.index
      <4>1. x \in LiveAfter(trace, i - 1) /\ LastSize(trace, i, x) = LastSize(trace, i - 1, x)
        BY <3>3, <1>6, LiveOthers DEF op
      <4> QED
        BY <3>1, <3>3, <4>1, <1>1, <1>5 DEF DriverInv, RecordInv
    <3> QED
      BY <3>2, <3>3
  <2> QED
    BY <2>1, <2>2, <1>1, <1>5 DEF RecordInv
<1>11. PcInv' /\ TraceInv'
  BY <1>1, <1>5 DEF DriverInv, PcInv, TraceInv
<1>12. Advances
  BY <1>1, <1>4, <1>5, <1>6 DEF Advances, Replaying
<1> QED
  BY <1>8, <1>9, <1>10, <1>11, <1>12 DEF DriverInv

(* So is eval_mm_speed.                                                    *)
LEMMA SpeedPlaceKeeps ==
  ASSUME lib = "blk", DriverInv, SpeedPlace
  PROVE  DriverInv' /\ Advances
<1>1. /\ pc = "eval_mm_speed" /\ i <= Len(trace) /\ op.type # "FREE"
      /\ trace' = trace /\ msg' = msg /\ block_sizes' = block_sizes
  BY DEF SpeedPlace, Pending
<1>2. PICK new : new = Placed
  OBVIOUS
<1>3. PICK g, c : g = new.heap /\ c = [blocks EXCEPT ![op.index] = new.ptr]
  OBVIOUS
<1>4. /\ new.ptr \notin {NULL, mm!Crash}
      /\ g \in Heap /\ g.brk <= MAX_HEAP /\ g.brk % 8 = 0 /\ c \in [Ids -> 0..MAX_HEAP]
      /\ \E R, t : /\ Course(R, trace, Known, i, heap, blocks)
                   /\ Served(R[i], trace[i], t) /\ AsPlanned(t, trace, i, g, c)
      /\ Serves(trace, i, heap, blocks, g, c)
  BY <1>1, <1>2, <1>3, PlacesAgain
<1>5. heap' = g /\ blocks' = c /\ i' = i + 1 /\ pc' = pc
  BY <1>2, <1>3, <1>4 DEF SpeedPlace
<1>6. CourseInv'
  BY <1>1, <1>4, <1>5, AdvanceAgain
<1>7. HeapInv' /\ TableInv'
  BY <1>1, <1>4, <1>5 DEF HeapInv, TableInv, DriverInv
<1>8. RecordInv'
  BY <1>1, <1>5 DEF RecordInv
<1>9. PcInv' /\ TraceInv'
  BY <1>1, <1>5 DEF DriverInv, PcInv, TraceInv
<1>10. Advances
  <2>1. i \in 1..Len(trace)
    BY <1>1, Here DEF Replaying
  <2> QED
    BY <2>1, <1>1, <1>4, <1>5 DEF Advances, Replaying
<1> QED
  BY <1>6, <1>7, <1>8, <1>9, <1>10 DEF DriverInv

(* A free in eval_mm_util.                                                 *)
LEMMA UtilFreeKeeps ==
  ASSUME lib = "blk", DriverInv, UtilFree
  PROVE  DriverInv' /\ Advances
<1>1. /\ pc = "eval_mm_util" /\ i <= Len(trace) /\ op.type = "FREE"
      /\ heap' = mm_free(blocks[op.index]) /\ blocks' = blocks /\ block_sizes' = block_sizes
      /\ trace' = trace /\ msg' = msg /\ pc' = pc /\ i' = i + 1
  BY DEF UtilFree, Pending
<1>2. HeapInv' /\ CourseInv' /\ Advances
  BY <1>1, FreesAgain
<1>3. i \in Nat /\ i \in 1..Len(trace) /\ Sane(trace)
  BY <1>1, Here DEF Replaying
<1>4. RecordInv'
  <2>1. i' - 1 = i
    BY <1>1, <1>3
  <2>2. ASSUME NEW x \in LiveAfter(trace, i) PROVE block_sizes[x] = LastSize(trace, i, x)
    <3>1. x \in LiveAfter(trace, i - 1) /\ LastSize(trace, i, x) = LastSize(trace, i - 1, x)
      BY <1>1, <1>3, LiveOthers DEF op
    <3> QED
      BY <3>1, <1>1 DEF DriverInv, RecordInv
  <2> QED
    BY <2>1, <2>2, <1>1 DEF RecordInv
<1>5. PcInv' /\ TraceInv' /\ TableInv'
  BY <1>1 DEF DriverInv, PcInv, TraceInv, TableInv
<1> QED
  BY <1>2, <1>4, <1>5 DEF DriverInv

(* A free in eval_mm_speed.                                                *)
LEMMA SpeedFreeKeeps ==
  ASSUME lib = "blk", DriverInv, SpeedFree
  PROVE  DriverInv' /\ Advances
<1>1. /\ pc = "eval_mm_speed" /\ i <= Len(trace) /\ op.type = "FREE"
      /\ heap' = mm_free(blocks[op.index]) /\ blocks' = blocks /\ block_sizes' = block_sizes
      /\ trace' = trace /\ msg' = msg /\ pc' = pc /\ i' = i + 1
  BY DEF SpeedFree, Pending
<1>2. HeapInv' /\ CourseInv' /\ Advances
  BY <1>1, FreesAgain
<1>3. PcInv' /\ TraceInv' /\ TableInv' /\ RecordInv'
  BY <1>1 DEF DriverInv, PcInv, TraceInv, TableInv, RecordInv
<1> QED
  BY <1>2, <1>3 DEF DriverInv

(* A stuttering step keeps the invariant.                                  *)
LEMMA Stays ==
  ASSUME DriverInv, UNCHANGED vars
  PROVE  DriverInv'
BY DEF DriverInv, HeapInv, TraceInv, TableInv, PcInv, CourseInv, RecordInv, Replaying, Known, vars

(* Every step of the driver keeps its invariant.                           *)
LEMMA StepsKeep ==
  ASSUME lib = "blk", DriverInv, [Next]_vars
  PROVE  DriverInv' /\ lib' = lib
<1>1. CASE OpenTrace
  BY <1>1, OpenTraceKeeps DEF OpenTrace
<1>2. CASE ReadRequest
  BY <1>2, ReadRequestKeeps DEF ReadRequest
<1>3. CASE BeginValid
  BY <1>3, BeginValidKeeps DEF BeginValid
<1>4. CASE ValidAlloc
  BY <1>4, ValidAllocKeeps DEF ValidAlloc
<1>5. CASE ValidRealloc
  BY <1>5, ValidReallocKeeps DEF ValidRealloc
<1>6. CASE ValidFree
  BY <1>6, ValidFreeKeeps DEF ValidFree
<1>7. CASE BeginUtil
  BY <1>7, BeginUtilKeeps DEF BeginUtil
<1>8. CASE UtilPlace
  BY <1>8, UtilPlaceKeeps DEF UtilPlace
<1>9. CASE UtilFree
  BY <1>9, UtilFreeKeeps DEF UtilFree
<1>10. CASE BeginSpeed
  BY <1>10, BeginSpeedKeeps DEF BeginSpeed
<1>11. CASE SpeedPlace
  BY <1>11, SpeedPlaceKeeps DEF SpeedPlace
<1>12. CASE SpeedFree
  BY <1>12, SpeedFreeKeeps DEF SpeedFree
<1>13. CASE NextTrace
  BY <1>13, NextTraceKeeps DEF NextTrace
<1>14. CASE UNCHANGED vars
  BY <1>14, Stays DEF vars
<1> QED
  BY <1>1, <1>2, <1>3, <1>4, <1>5, <1>6, <1>7, <1>8, <1>9, <1>10, <1>11, <1>12, <1>13, <1>14 DEF Next

(***************************************************************************)
(* Theorems about the driver linked with mm_blk.c.                         *)
(***************************************************************************)
Blk == lib = "blk" /\ DriverInv

(* With mm_blk linked the driver invariant holds throughout: the tags      *)
(* describe a layout, the live payloads lie in blocks of their own, the    *)
(* replay is on the course eval_mm_valid learned, and its records agree    *)
(* with the trace.                                                         *)
THEOREM Invariance == Spec /\ lib = "blk" => []Blk
<1>1. Init /\ lib = "blk" => Blk
  BY Inits DEF Blk
<1>2. Blk /\ [Next]_vars => Blk'
  BY StepsKeep DEF Blk
<1> QED
  BY <1>1, <1>2, PTL DEF Spec

(* A trace is only given up for want of memory, and the driver never ends  *)
(* in app_error.                                                           *)
THEOREM Satisfied == Spec /\ lib = "blk" => []DriverSatisfied
<1>1. Blk => DriverSatisfied
  BY DEF Blk, DriverInv, PcInv, DriverSatisfied
<1> QED
  BY <1>1, Invariance, PTL

(* What the walk over the blocks of a heap finds.                          *)
LEMMA WalkFinds ==
  ASSUME lib = "blk", NEW L, Tags(heap, L)
  PROVE  /\ HeapWalk = Ends(L) \cup {8} /\ Blocks = Tiles(L) /\ FreeBlocks = Gaps(L)
         /\ heap.brk = L.brk
<1>1. PICK w : w = blk!BlockWalk(heap, 8)
  OBVIOUS
<1>2. IsWalk(heap, 8, Far, w)
  BY <1>1, WalkUnfolds
<1>3. prologue_blk = 8
  BY DEF prologue_blk, WSIZE
<1>4. HeapWalk = {w[n] : n \in 0..Far} \ {NULL}
  BY <1>1, <1>3 DEF HeapWalk, Elements, Steps, Far
<1>5. Far \in Nat /\ \A n \in 0..Far : n = 0 \/ n \in 1..Far
  BY FarFacts
<1>6. w[0] = 8 /\ \A n \in 1..Far : w[n] \in Ends(L) \cup {NULL}
  BY <1>2, WalkSteps
<1>7. \A e \in Ends(L) : e # NULL /\ e # 8 /\ \E n \in 1..Far : w[n] = e
  <2> TAKE e \in Ends(L)
  <2>1. e \in Nat /\ e >= 16
    BY LayoutFacts DEF Tags, First, WSIZE
  <2>2. \E n \in 1..Far : w[n] = e
    BY <1>2, WalkReaches
  <2> QED
    BY <2>1, <2>2 DEF NULL
<1>8. \A n \in 1..Far : n \in 0..Far
  BY <1>5
<1>9. HeapWalk = Ends(L) \cup {8}
  <2>1. 8 \in HeapWalk
    BY <1>4, <1>5, <1>6 DEF NULL
  <2>2. \A e \in Ends(L) : e \in HeapWalk
    BY <1>4, <1>7, <1>8
  <2>3. \A e \in HeapWalk : e = 8 \/ e \in Ends(L)
    BY <1>4, <1>5, <1>6
  <2> QED
    BY <2>1, <2>2, <2>3
<1>10. heap.brk = L.brk /\ L.brk \notin Tiles(L)
  BY LayoutFacts DEF Tags
<1>11. Blocks = Tiles(L)
  BY <1>3, <1>7, <1>9, <1>10 DEF Blocks, Ends
<1>12. FreeBlocks = Gaps(L)
  BY <1>11, ReadTile DEF FreeBlocks, Gaps
<1> QED
  BY <1>9, <1>10, <1>11, <1>12

(* A live payload has a block with room for what was asked.                *)
LEMMA LiveBlocks ==
  ASSUME Replaying, NEW s, AsPlanned(s, trace, i - 1, heap, blocks)
  PROVE  /\ s.layout.used = {blocks[id] : id \in Live}
         /\ \A id \in Live : blocks[id] \in s.layout.used /\ Requested(id) \in Nat
                             /\ s.layout.size[blocks[id]] \in Nat
                             /\ s.layout.size[blocks[id]] >= Requested(id) + DSIZE
<1>1. Live = LiveAfter(trace, i - 1)
  BY DEF Live
<1>2. Fits(s, trace, i - 1) /\ \A id \in Live : blocks[id] = s.at[id]
  BY <1>1 DEF AsPlanned
<1>3. s.layout.used = {s.at[id] : id \in Live}
  BY <1>1, <1>2 DEF Fits
<1>4. ASSUME NEW id \in Live
      PROVE  /\ blocks[id] \in s.layout.used /\ Requested(id) \in Nat
             /\ s.layout.size[blocks[id]] \in Nat
             /\ s.layout.size[blocks[id]] >= Requested(id) + DSIZE
  <2>1. PICK size : size = LastSize(trace, i - 1, id)
    OBVIOUS
  <2>2. Requested(id) = size
    BY <2>1 DEF Requested, LastSize, Asked
  <2>3. /\ s.at[id] \in s.layout.used /\ s.layout.size[s.at[id]] \in Nat
        /\ size \in Nat /\ size + 8 <= s.layout.size[s.at[id]]
    BY <1>1, <1>2, <2>1, FitsFacts
  <2> QED
    BY <1>2, <2>2, <2>3 DEF DSIZE
<1> QED
  BY <1>2, <1>3, <1>4

(* Between two requests of a replay the boundary tags describe the heap:   *)
(* its blocks, of which no two free ones are neighbours, and among them    *)
(* the live payloads, each with room for what was asked.                   *)
THEOREM TagsDescribe == Spec /\ lib = "blk" => []TagsAgree
<1>1. Blk => TagsAgree
  <2> SUFFICES ASSUME Blk, Replaying
               PROVE  /\ heap.brk \in HeapWalk /\ get(heap, get_hdrp(heap.brk)) = pack(0, 1)
                      /\ \A p \in Blocks :
                           /\ size_of(heap, p) % DSIZE = 0 /\ size_of(heap, p) >= 2 * DSIZE
                           /\ get(heap, get_ftrp(heap, p)) = get(heap, get_hdrp(p))
                           /\ is_free(heap, p) => next_blkp(heap, p) \notin FreeBlocks
                      /\ Blocks \ FreeBlocks = {blocks[id] : id \in Live}
                      /\ \A id \in Live : size_of(heap, blocks[id]) >= Requested(id) + DSIZE
    BY DEF TagsAgree
  <2>1. PICK R : Course(R, trace, Known, i, heap, blocks)
    BY DEF Blk, DriverInv, CourseInv
  <2>2. PICK s : s = R[i]
    OBVIOUS
  <2>3. AsPlanned(s, trace, i - 1, heap, blocks)
    BY <2>1, <2>2 DEF Course
  <2>4. PICK L : L = s.layout
    OBVIOUS
  <2>5. Tags(heap, L) /\ Apart(L) /\ Layout(L)
    BY <2>3, <2>4 DEF AsPlanned, Fits, Tags
  <2>6. /\ HeapWalk = Ends(L) \cup {8} /\ Blocks = Tiles(L) /\ FreeBlocks = Gaps(L)
        /\ heap.brk = L.brk
    BY <2>5, WalkFinds DEF Blk
  <2>7. heap.brk \in HeapWalk /\ get(heap, get_hdrp(heap.brk)) = pack(0, 1)
    BY <2>5, <2>6 DEF Tags, Ends, get_hdrp
  <2>8. ASSUME NEW p \in Blocks
        PROVE  /\ size_of(heap, p) % DSIZE = 0 /\ size_of(heap, p) >= 2 * DSIZE
               /\ get(heap, get_ftrp(heap, p)) = get(heap, get_hdrp(p))
               /\ is_free(heap, p) => next_blkp(heap, p) \notin FreeBlocks
    <3>1. /\ size_of(heap, p) = L.size[p] /\ next_blkp(heap, p) = p + L.size[p]
          /\ is_free(heap, p) <=> p \in Gaps(L)
      BY <2>5, <2>6, ReadTile
    <3>2. L.size[p] \in Nat /\ L.size[p] % 8 = 0 /\ L.size[p] >= 16
      BY <2>5, <2>6, LayoutFacts
    <3>3. get(heap, get_ftrp(heap, p)) = get(heap, get_hdrp(p))
      <4>1. get_ftrp(heap, p) = p + L.size[p] - DSIZE
        BY <3>1 DEF get_ftrp, size_of
      <4> QED
        BY <4>1, <2>5, <2>6 DEF Tags, get_hdrp
    <3> QED
      BY <2>5, <2>6, <3>1, <3>2, <3>3 DEF Apart, DSIZE
  <2>9. Blocks \ FreeBlocks = {blocks[id] : id \in Live}
    <3>1. L.used = {blocks[id] : id \in Live} /\ L.used \subseteq Tiles(L)
      BY <2>3, <2>4, <2>5, LiveBlocks, LayoutFacts
    <3> QED
      BY <2>6, <3>1 DEF Gaps
  <2>10. ASSUME NEW id \in Live PROVE size_of(heap, blocks[id]) >= Requested(id) + DSIZE
    <3>1. blocks[id] \in L.used /\ L.size[blocks[id]] >= Requested(id) + DSIZE
      BY <2>3, <2>4, LiveBlocks
    <3>2. blocks[id] \in Tiles(L)
      BY <3>1, <2>5, LayoutFacts
    <3>3. size_of(heap, blocks[id]) = L.size[blocks[id]]
      BY <3>2, <2>5, ReadTile
    <3> QED
      BY <3>1, <3>3
  <2> QED
    BY <2>7, <2>8, <2>9, <2>10
<1> QED
  BY <1>1, Invariance, PTL

(***************************************************************************)
(* mm_blk.c keeps the promises of AbstractHeap.                            *)
(***************************************************************************)
Words(h, p, size) == [j \in 1..(size \div WSIZE) |-> get(h, p + (j - 1) * WSIZE)]

PayloadsOf(ops, n, h, b) ==
  [id \in LiveAfter(ops, n) |-> [lo |-> b[id], data |-> Words(h, b[id], LastSize(ops, n, id))]]

(* No payloads at all are the empty function.                              *)
LEMMA NoPayloads == [x \in {} |-> x] = <<>>
OBVIOUS

(* A payload has the words of the size asked for.                          *)
LEMMA WordsLength ==
  ASSUME NEW h, NEW p, NEW size \in Sizes
  PROVE  /\ DOMAIN Words(h, p, size) = 1..(size \div WSIZE) /\ 4 * Len(Words(h, p, size)) = size
<1>1. PICK m \in Nat : size = 4 * m /\ size \div 4 = m
  BY SizeFacts
<1>2. Words(h, p, size) = [j \in 1..m |-> get(h, p + (j - 1) * WSIZE)]
  BY <1>1 DEF Words, WSIZE
<1>3. Len([j \in 1..m |-> get(h, p + (j - 1) * WSIZE)]) = m
  OBVIOUS
<1> QED
  BY <1>1, <1>2, <1>3 DEF WSIZE

(* The payload of id is given a place in Q, and the others are as in P.    *)
Given(P, Q, id) ==
  /\ DOMAIN Q = DOMAIN P \cup {id}
  /\ \A x \in DOMAIN P \ {id} : Q[x] = P[x]
  /\ Q[id].lo % 8 = 0 /\ Q[id].lo > 0 /\ Q[id].lo + 4 * Len(Q[id].data) <= MAX_HEAP
  /\ \A x \in DOMAIN P \ {id} :
       \/ Q[id].lo + 4 * Len(Q[id].data) <= P[x].lo
       \/ P[x].lo + 4 * Len(P[x].data) <= Q[id].lo

(* mm_realloc has kept what fits.                                          *)
KeepsData(P, Q, id) ==
  /\ id \in DOMAIN P
  /\ \A j \in DOMAIN P[id].data \cap DOMAIN Q[id].data : Q[id].data[j] = P[id].data[j]

Gone(P, Q, id) == id \in DOMAIN P /\ Q = [x \in DOMAIN P \ {id} |-> P[x]]

(* A request changes the contents of no other id's payload.                *)
LEMMA PayloadsKept ==
  ASSUME NEW ops, Sane(ops), NEW k \in 1..Len(ops), NEW e, e = ops[k],
         NEW h, NEW b, NEW g, NEW c, Serves(ops, k, h, b, g, c),
         NEW P, P = PayloadsOf(ops, k - 1, h, b), NEW Q, Q = PayloadsOf(ops, k, g, c)
  PROVE  /\ DOMAIN P = LiveAfter(ops, k - 1) /\ DOMAIN Q = LiveAfter(ops, k)
         /\ DOMAIN Q \ {e.index} = DOMAIN P \ {e.index}
         /\ \A x \in DOMAIN P \ {e.index} : Q[x] = P[x]
<1>1. DOMAIN P = LiveAfter(ops, k - 1) /\ DOMAIN Q = LiveAfter(ops, k)
  BY DEF PayloadsOf
<1>2. /\ DOMAIN Q \ {e.index} = DOMAIN P \ {e.index}
      /\ \A x : x # e.index => LastSize(ops, k, x) = LastSize(ops, k - 1, x)
  BY <1>1, LiveOthers
<1>3. ASSUME NEW x \in DOMAIN P \ {e.index} PROVE Q[x] = P[x]
  <2>1. PICK size : size = LastSize(ops, k - 1, x) /\ size = LastSize(ops, k, x)
    BY <1>2
  <2>2. P[x] = [lo |-> b[x], data |-> Words(h, b[x], size)]
        /\ Q[x] = [lo |-> c[x], data |-> Words(g, c[x], size)]
    BY <1>1, <1>2, <2>1 DEF PayloadsOf
  <2>3. c[x] = b[x] /\ SameWords(h, g, b[x], size)
    BY <1>1, <2>1 DEF Serves, OthersSame
  <2>4. Words(g, b[x], size) = Words(h, b[x], size)
    BY <2>3 DEF Words, SameWords
  <2> QED
    BY <2>2, <2>3, <2>4
<1> QED
  BY <1>1, <1>2, <1>3

(* An allocated or reallocated id has a payload of the size asked for.     *)
LEMMA PayloadGiven ==
  ASSUME NEW ops, Sane(ops), NEW k \in 1..Len(ops), NEW e, e = ops[k], e.type # "FREE",
         NEW h, NEW b, NEW g, NEW c, Serves(ops, k, h, b, g, c),
         NEW P, P = PayloadsOf(ops, k - 1, h, b), NEW Q, Q = PayloadsOf(ops, k, g, c)
  PROVE  Given(P, Q, e.index)
<1>1. PICK id : id = e.index
  OBVIOUS
<1>2. /\ DOMAIN P = LiveAfter(ops, k - 1) /\ DOMAIN Q = LiveAfter(ops, k)
      /\ DOMAIN Q \ {id} = DOMAIN P \ {id}
      /\ \A x \in DOMAIN P \ {id} : Q[x] = P[x]
  BY <1>1, PayloadsKept
<1>3. id \in DOMAIN Q
  BY <1>1, <1>2, LiveOthers
<1>4. PICK t : AsPlanned(t, ops, k, g, c)
  BY DEF Serves
<1>5. Fits(t, ops, k) /\ \A x \in DOMAIN Q : c[x] = t.at[x]
  BY <1>2, <1>4 DEF AsPlanned
<1>6. \A x \in DOMAIN Q : /\ LastSize(ops, k, x) \in Sizes /\ Q[x].lo = t.at[x]
                          /\ 4 * Len(Q[x].data) = LastSize(ops, k, x)
  <2> TAKE x \in DOMAIN Q
  <2>1. PICK size : size = LastSize(ops, k, x)
    OBVIOUS
  <2>2. size \in Sizes
    BY <1>2, <1>5, <2>1, FitsFacts
  <2>3. Q[x].lo = c[x] /\ Q[x].data = Words(g, c[x], size)
    BY <1>2, <2>1 DEF PayloadsOf
  <2> QED
    BY <1>5, <2>1, <2>2, <2>3, WordsLength
<1>7. PICK p, size, S : p = t.at[id] /\ size = LastSize(ops, k, id) /\ S = t.layout.size[p]
  OBVIOUS
<1>8. /\ p \in Nat /\ p % 8 = 0 /\ p >= 16 /\ size \in Nat /\ S \in Nat /\ size + 8 <= S
      /\ p + S <= t.layout.brk /\ t.layout.brk \in Nat /\ t.layout.brk <= MAX_HEAP
      /\ \A x \in DOMAIN Q : x # id => p + S <= t.at[x] \/ t.at[x] + t.layout.size[t.at[x]] <= p
  BY <1>2, <1>3, <1>5, <1>7, FitsFacts, SMTT(30)
<1>9. Q[id].lo = p /\ 4 * Len(Q[id].data) = size
  BY <1>3, <1>6, <1>7
<1>10. p + size <= MAX_HEAP
  BY <1>8, HeapAssumption
<1>11. ASSUME NEW x \in DOMAIN P \ {id}
       PROVE  p + size <= P[x].lo \/ P[x].lo + 4 * Len(P[x].data) <= p
  <2>1. x \in DOMAIN Q /\ x # id /\ P[x] = Q[x]
    BY <1>2
  <2>2. PICK q, z, Z : q = t.at[x] /\ z = LastSize(ops, k, x) /\ Z = t.layout.size[q]
    OBVIOUS
  <2>3. q \in Nat /\ z \in Nat /\ Z \in Nat /\ z + 8 <= Z
    BY <1>2, <1>5, <2>1, <2>2, FitsFacts
  <2>4. P[x].lo = q /\ 4 * Len(P[x].data) = z
    BY <1>6, <2>1, <2>2
  <2>5. p + S <= q \/ q + Z <= p
    BY <1>8, <2>1, <2>2
  <2>6. p + size <= q \/ q + z <= p
    BY <1>8, <2>3, <2>5
  <2> QED
    BY <2>4, <2>6
<1>12. DOMAIN Q = DOMAIN P \cup {id}
  BY <1>2, <1>3
<1>13. Q[id].lo % 8 = 0 /\ Q[id].lo > 0 /\ Q[id].lo + 4 * Len(Q[id].data) <= MAX_HEAP
  <2>1. p % 8 = 0 /\ p > 0
    BY <1>8
  <2> QED
    BY <2>1, <1>9, <1>10
<1>14. ASSUME NEW x \in DOMAIN P \ {id}
       PROVE  \/ Q[id].lo + 4 * Len(Q[id].data) <= P[x].lo
              \/ P[x].lo + 4 * Len(P[x].data) <= Q[id].lo
  BY <1>9, <1>11
<1>15. Given(P, Q, id)
  BY <1>2, <1>12, <1>13, <1>14 DEF Given
<1> QED
  BY <1>1, <1>15

(* A reallocated payload begins with the old contents.                     *)
LEMMA PayloadCarried ==
  ASSUME NEW ops, Sane(ops), NEW k \in 1..Len(ops), NEW e, e = ops[k], e.type = "REALLOC",
         NEW h, NEW b, NEW g, NEW c, Serves(ops, k, h, b, g, c),
         NEW P, P = PayloadsOf(ops, k - 1, h, b), NEW Q, Q = PayloadsOf(ops, k, g, c)
  PROVE  KeepsData(P, Q, e.index)
<1>1. PICK id : id = e.index
  OBVIOUS
<1>2. id \in LiveAfter(ops, k - 1) /\ id \in LiveAfter(ops, k) /\ LastSize(ops, k, id) = e.size
  BY <1>1, SaneRequest, LiveOthers
<1>3. PICK old, size : old = LastSize(ops, k - 1, id) /\ size = e.size
  OBVIOUS
<1>4. Carried(h, g, b[id], c[id], old, size)
  BY <1>1, <1>3 DEF Serves
<1>5. id \in DOMAIN P /\ P[id].data = Words(h, b[id], old) /\ Q[id].data = Words(g, c[id], size)
  BY <1>2, <1>3 DEF PayloadsOf
<1>6. ASSUME NEW j \in DOMAIN P[id].data \cap DOMAIN Q[id].data
      PROVE  Q[id].data[j] = P[id].data[j]
  <2>1. j \in DOMAIN Words(h, b[id], old) /\ j \in DOMAIN Words(g, c[id], size)
    BY <1>5
  <2>2. j \in 1..(old \div WSIZE) /\ j \in 1..(size \div WSIZE)
    BY <2>1 DEF Words
  <2>3. get(g, c[id] + (j - 1) * WSIZE) = get(h, b[id] + (j - 1) * WSIZE)
    BY <2>2, <1>4 DEF Carried
  <2>4. Words(g, c[id], size)[j] = Words(h, b[id], old)[j]
    BY <2>2, <2>3 DEF Words
  <2> QED
    BY <1>5, <2>4
<1>7. KeepsData(P, Q, id)
  BY <1>5, <1>6 DEF KeepsData
<1> QED
  BY <1>1, <1>7

(* A freed id has no payload any more.                                     *)
LEMMA PayloadFreed ==
  ASSUME NEW ops, Sane(ops), NEW k \in 1..Len(ops), NEW e, e = ops[k], e.type = "FREE",
         NEW h, NEW b, NEW g, NEW c, Serves(ops, k, h, b, g, c),
         NEW P, P = PayloadsOf(ops, k - 1, h, b), NEW Q, Q = PayloadsOf(ops, k, g, c)
  PROVE  Gone(P, Q, e.index)
<1>1. /\ DOMAIN P = LiveAfter(ops, k - 1) /\ DOMAIN Q \ {e.index} = DOMAIN P \ {e.index}
      /\ DOMAIN Q = LiveAfter(ops, k) /\ \A x \in DOMAIN P \ {e.index} : Q[x] = P[x]
  BY PayloadsKept
<1>2. e.index \in DOMAIN P /\ e.index \notin DOMAIN Q
  BY <1>1, SaneRequest, LiveOthers
<1>3. DOMAIN Q = DOMAIN P \ {e.index}
  BY <1>1, <1>2
<1>4. Q = [x \in DOMAIN Q |-> Q[x]]
  BY DEF PayloadsOf
<1> QED
  BY <1>1, <1>2, <1>3, <1>4 DEF Gone

(* The refinement's payloads are those after the requests replayed.        *)
LEMMA PayloadsNow ==
  /\ Replaying => Payloads = PayloadsOf(trace, i - 1, heap, blocks)
  /\ Live = {} => Payloads = <<>>
<1>1. ASSUME Replaying PROVE Payloads = PayloadsOf(trace, i - 1, heap, blocks)
  <2>1. Live = LiveAfter(trace, i - 1)
    BY <1>1 DEF Live
  <2>2. \A id : Requested(id) = LastSize(trace, i - 1, id)
    BY DEF Requested, LastSize, Asked
  <2> QED
    BY <2>1, <2>2 DEF Payloads, PayloadsOf, Words
<1>2. ASSUME Live = {} PROVE Payloads = <<>>
  <2>1. Payloads = [x \in {} |-> x]
    BY <1>2 DEF Payloads
  <2> QED
    BY <2>1, NoPayloads
<1> QED
  BY <1>1, <1>2

(* The same, of the next state.                                            *)
LEMMA PayloadsNext ==
  /\ Replaying' => Payloads' = PayloadsOf(trace', i' - 1, heap', blocks')
  /\ Live' = {} => Payloads' = <<>>
<1>1. ASSUME Replaying' PROVE Payloads' = PayloadsOf(trace', i' - 1, heap', blocks')
  <2>1. Live' = LiveAfter(trace', i' - 1)
    BY <1>1 DEF Live
  <2>2. \A id : Requested(id)' = LastSize(trace', i' - 1, id)
    BY DEF Requested, LastSize, Asked
  <2> QED
    BY <2>1, <2>2 DEF Payloads, PayloadsOf, Words
<1>2. ASSUME Live' = {} PROVE Payloads' = <<>>
  <2>1. Payloads' = [x \in {} |-> x]
    BY <1>2 DEF Payloads
  <2> QED
    BY <2>1, NoPayloads
<1> QED
  BY <1>1, <1>2

(* A request that is served is a step of AbstractHeap.                     *)
LEMMA ServesAbstract ==
  ASSUME DriverInv, Advances
  PROVE  Abstract!Next
<1>1. Sane(trace) /\ Len(trace) \in Nat
  BY DEF DriverInv, TraceInv, Sane
<1>2. i \in 1..Len(trace) /\ Replaying /\ Replaying' /\ trace' = trace /\ i' = i + 1 /\ i' - 1 = i
      /\ Serves(trace, i, heap, blocks, heap', blocks')
  BY <1>1 DEF Advances
<1>3. PICK e, P, Q : /\ e = trace[i]
                     /\ P = PayloadsOf(trace, i - 1, heap, blocks)
                     /\ Q = PayloadsOf(trace, i, heap', blocks')
  OBVIOUS
<1>4. Payloads = P
  BY <1>2, <1>3, PayloadsNow
<1>5. Payloads' = Q
  <2>1. Payloads' = PayloadsOf(trace', i' - 1, heap', blocks')
    BY <1>2, PayloadsNext
  <2> QED
    BY <1>2, <1>3, <2>1
<1>6. e.type \in {"ALLOC", "REALLOC", "FREE"}
      /\ (e.type = "ALLOC" <=> e.index \notin LiveAfter(trace, i - 1))
  BY <1>1, <1>2, <1>3, SaneRequest
<1>7. ASSUME e.type # "FREE" PROVE Abstract!Gets(e.index)
  <2>1. Given(P, Q, e.index)
    BY <1>1, <1>2, <1>3, <1>7, PayloadGiven
  <2>2. PICK O : O = [x \in DOMAIN P \ {e.index} |-> P[x]]
    OBVIOUS
  <2>3. DOMAIN O = DOMAIN P \ {e.index} /\ \A x \in DOMAIN O : O[x] = P[x]
    BY <2>2
  <2>4. Abstract!Without(e.index) = O
    BY <1>4, <2>2 DEF Abstract!Without
  <2>5. Abstract!Fits(Q[e.index], O)
    BY <2>1, <2>3 DEF Given, Abstract!Fits, Abstract!End
  <2> QED
    BY <1>4, <1>5, <2>1, <2>4, <2>5 DEF Given, Abstract!Gets
<1>8. CASE e.type = "ALLOC"
  <2>1. Abstract!Gets(e.index)
    BY <1>7, <1>8
  <2>2. e.index \in DOMAIN Q \ DOMAIN P
    <3>1. DOMAIN P = LiveAfter(trace, i - 1) /\ DOMAIN Q = LiveAfter(trace, i)
      BY <1>1, <1>2, <1>3, PayloadsKept
    <3>2. e.index \in LiveAfter(trace, i)
      BY <1>1, <1>2, <1>3, <1>8, LiveOthers
    <3> QED
      BY <3>1, <3>2, <1>6, <1>8
  <2> QED
    BY <1>4, <1>5, <2>1, <2>2 DEF Abstract!Next, Abstract!Malloc
<1>9. CASE e.type = "REALLOC"
  <2>1. Abstract!Gets(e.index)
    BY <1>7, <1>9
  <2>2. KeepsData(P, Q, e.index)
    BY <1>1, <1>2, <1>3, <1>9, PayloadCarried
  <2> QED
    BY <1>4, <1>5, <2>1, <2>2 DEF KeepsData, Abstract!Next, Abstract!Realloc
<1>10. CASE e.type = "FREE"
  <2>1. Gone(P, Q, e.index)
    BY <1>1, <1>2, <1>3, <1>10, PayloadFreed
  <2> QED
    BY <1>4, <1>5, <2>1 DEF Gone, Abstract!Next, Abstract!Free, Abstract!Without
<1> QED
  BY <1>6, <1>8, <1>9, <1>10

(* Outside the replays, and when one begins, nothing is live.              *)
LEMMA NothingLive ==
  ASSUME ~Replaying' \/ i' = 1
  PROVE  Abstract!Next
<1>1. Live' = {}
  BY LiveStart DEF Live
<1>2. Payloads' = <<>>
  BY <1>1, PayloadsNext
<1> QED
  BY <1>2 DEF Abstract!Next, Abstract!Reset

(* Every step of the driver is a step of the abstract heap, or changes no  *)
(* payload.                                                                *)
LEMMA StepsAbstract ==
  ASSUME lib = "blk", DriverInv, [Next]_vars
  PROVE  [Abstract!Next]_Payloads
<1>1. CASE Advances
  BY <1>1, ServesAbstract
<1>2. CASE ~Replaying' \/ i' = 1
  BY <1>2, NothingLive
<1>3. CASE OpenTrace \/ ReadRequest \/ NextTrace
  BY <1>3, <1>2 DEF OpenTrace, ReadRequest, NextTrace, Replaying
<1>4. CASE BeginValid \/ BeginUtil \/ BeginSpeed
  BY <1>4, <1>2 DEF BeginValid, BeginUtil, BeginSpeed, Begin
<1>5. CASE ValidAlloc
  BY <1>5, <1>1, <1>2, ValidAllocKeeps
<1>6. CASE ValidRealloc
  BY <1>6, <1>1, <1>2, ValidReallocKeeps
<1>7. CASE ValidFree
  BY <1>7, <1>1, ValidFreeKeeps
<1>8. CASE UtilPlace
  BY <1>8, <1>1, UtilPlaceKeeps
<1>9. CASE UtilFree
  BY <1>9, <1>1, UtilFreeKeeps
<1>10. CASE SpeedPlace
  BY <1>10, <1>1, SpeedPlaceKeeps
<1>11. CASE SpeedFree
  BY <1>11, <1>1, SpeedFreeKeeps
<1>12. CASE UNCHANGED vars
  BY <1>12 DEF vars, Payloads, Live, Replaying, Requested
<1> QED
  BY <1>3, <1>4, <1>5, <1>6, <1>7, <1>8, <1>9, <1>10, <1>11, <1>12 DEF Next

(* Between any two requests of any replay the live payloads are aligned,   *)
(* in the heap, disjoint and as their owner left them, and mm_realloc      *)
(* carries over what fits: mm_blk.c implements AbstractHeap.               *)
THEOREM Refinement == Spec /\ lib = "blk" => HeapSpec
<1>1. Init => Abstract!Init
  <2> SUFFICES ASSUME Init PROVE Payloads = <<>>
    BY DEF Abstract!Init
  <2>1. Live = {}
    BY DEF Init, Live, Replaying
  <2> QED
    BY <2>1, PayloadsNow
<1>2. Blk /\ [Next]_vars => [Abstract!Next]_Payloads
  BY StepsAbstract DEF Blk
<1> QED
  BY <1>1, <1>2, Invariance, PTL DEF Spec, HeapSpec, Abstract!Spec

(***************************************************************************)
(* Sums over the ids, one id after the other.                              *)
(***************************************************************************)
IsSum(c, K, s) == s \in [0..K -> Nat] /\ s[0] = 0 /\ \A k \in 1..K : s[k] = s[k - 1] + c[k - 1]

Total(c) == (CHOOSE s : IsSum(c, NumIds, s))[NumIds]

(* The running sum of a table over the ids exists.                         *)
LEMMA SumExists ==
  ASSUME NEW c \in [Ids -> Nat]
  PROVE  \E s : IsSum(c, NumIds, s)
<1> DEFINE Without == {K \in 0..NumIds : ~\E s : IsSum(c, K, s)}
<1>1. SUFFICES ASSUME Without # {} PROVE FALSE
  BY DriverAssumption
<1>2. PICK K \in Without : \A m \in Without : K <= m
  <2>1. Without \subseteq Nat
    BY DriverAssumption
  <2> QED
    BY <1>1, <2>1, LeastNat
<1>3. K # 0
  <2>1. IsSum(c, 0, [k \in 0..0 |-> 0])
    BY DEF IsSum
  <2> QED
    BY <2>1
<1>4. K \in Nat /\ K - 1 \in Nat /\ K - 1 \in 0..NumIds /\ K - 1 \in Ids
  BY <1>3, DriverAssumption DEF Ids
<1>5. PICK s : IsSum(c, K - 1, s)
  <2>1. K - 1 \notin Without
    BY <1>2, <1>4
  <2> QED
    BY <2>1, <1>4
<1>6. PICK r : r = [k \in 0..K |-> IF k = K THEN s[K - 1] + c[K - 1] ELSE s[k]]
  OBVIOUS
<1>7. r \in [0..K -> Nat]
  <2>1. s[K - 1] \in Nat /\ c[K - 1] \in Nat /\ \A k \in 0..(K - 1) : s[k] \in Nat
    BY <1>4, <1>5 DEF IsSum
  <2>2. \A k \in 0..K : k = K \/ k \in 0..(K - 1)
    BY <1>4
  <2> QED
    BY <1>6, <2>1, <2>2
<1>8. ASSUME NEW k \in 1..K PROVE r[k] = r[k - 1] + c[k - 1]
  <2>1. r[k - 1] = s[k - 1]
    BY <1>4, <1>6
  <2>2. k # K => k \in 1..(K - 1)
    BY <1>4
  <2>3. r[k] = s[k - 1] + c[k - 1]
    BY <1>4, <1>5, <1>6, <2>2 DEF IsSum
  <2> QED
    BY <2>1, <2>3
<1>9. r[0] = 0
  BY <1>3, <1>4, <1>5, <1>6 DEF IsSum
<1>10. IsSum(c, K, r)
  BY <1>7, <1>8, <1>9 DEF IsSum
<1> QED
  BY <1>10

(* Tables that differ at x have totals that differ by as much.             *)
LEMMA SumShift ==
  ASSUME NEW c \in [Ids -> Nat], NEW d \in [Ids -> Nat], NEW x \in Ids,
         \A y \in Ids : y # x => d[y] = c[y],
         NEW s, IsSum(c, NumIds, s), NEW r, IsSum(d, NumIds, r)
  PROVE  s[NumIds] + d[x] = r[NumIds] + c[x]
<1> DEFINE Agree(k) == IF x < k THEN s[k] + d[x] = r[k] + c[x] ELSE s[k] = r[k]
<1> DEFINE Bad == {k \in 0..NumIds : ~Agree(k)}
<1>1. NumIds \in Nat /\ x \in Nat /\ x < NumIds /\ c[x] \in Nat /\ d[x] \in Nat
  BY DriverAssumption DEF Ids
<1>2. CASE Bad = {}
  <2>1. NumIds \notin Bad
    BY <1>2
  <2>2. Agree(NumIds)
    BY <1>1, <2>1
  <2> QED
    BY <1>1, <2>2
<1>3. CASE Bad # {}
  <2>1. PICK k \in Bad : \A m \in Bad : k <= m
    <3>1. Bad \subseteq Nat
      BY <1>1
    <3> QED
      BY <1>3, <3>1, LeastNat
  <2>2. k # 0
    <3>1. Agree(0)
      BY <1>1 DEF IsSum
    <3> QED
      BY <2>1, <3>1
  <2>3. k \in 1..NumIds /\ k \in 0..NumIds /\ k - 1 \in 0..NumIds /\ k - 1 \in Ids
    BY <1>1, <2>1, <2>2 DEF Ids
  <2>4. Agree(k - 1)
    <3>1. k - 1 \notin Bad
      BY <2>1, <2>3
    <3> QED
      BY <2>3, <3>1
  <2>5. s[k] = s[k - 1] + c[k - 1] /\ r[k] = r[k - 1] + d[k - 1]
    BY <2>3 DEF IsSum
  <2>6. s[k - 1] \in Nat /\ r[k - 1] \in Nat /\ c[k - 1] \in Nat /\ d[k - 1] \in Nat
    BY <2>3 DEF IsSum
  <2>7. Agree(k)
    <3>1. CASE x < k - 1
      <4>1. k - 1 # x /\ x < k
        BY <1>1, <2>3, <3>1
      <4>2. d[k - 1] = c[k - 1]
        BY <2>3, <4>1
      <4>3. s[k - 1] + d[x] = r[k - 1] + c[x]
        BY <2>4, <3>1
      <4> QED
        BY <1>1, <2>5, <2>6, <4>1, <4>2, <4>3
    <3>2. CASE x = k - 1
      BY <1>1, <2>3, <2>4, <2>5, <2>6, <3>2
    <3>3. CASE x > k - 1
      <4>1. k - 1 # x /\ ~(x < k) /\ ~(x < k - 1)
        BY <1>1, <2>3, <3>3
      <4>2. d[k - 1] = c[k - 1]
        BY <2>3, <4>1
      <4> QED
        BY <2>4, <2>5, <4>1, <4>2
    <3> QED
      BY <1>1, <2>3, <3>1, <3>2, <3>3
  <2> QED
    BY <2>1, <2>7
<1> QED
  BY <1>2, <1>3

(* The total of a table: a natural number, 0 for zeros, and shifted by     *)
(* what one entry changes.                                                 *)
LEMMA TotalFacts ==
  ASSUME NEW c \in [Ids -> Nat]
  PROVE  /\ Total(c) \in Nat
         /\ \A d \in [Ids -> Nat], x \in Ids :
              (\A y \in Ids : y # x => d[y] = c[y]) => Total(c) + d[x] = Total(d) + c[x]
         /\ (\A x \in Ids : c[x] = 0) => Total(c) = 0
<1>1. PICK s : s = CHOOSE r : IsSum(c, NumIds, r)
  OBVIOUS
<1>2. IsSum(c, NumIds, s) /\ Total(c) = s[NumIds]
  BY <1>1, SumExists DEF Total
<1>3. NumIds \in Nat
  BY DriverAssumption
<1>4. ASSUME NEW d \in [Ids -> Nat], NEW x \in Ids, \A y \in Ids : y # x => d[y] = c[y]
      PROVE  Total(c) + d[x] = Total(d) + c[x]
  <2>1. PICK r : r = CHOOSE q : IsSum(d, NumIds, q)
    OBVIOUS
  <2>2. IsSum(d, NumIds, r) /\ Total(d) = r[NumIds]
    BY <2>1, SumExists DEF Total
  <2> QED
    BY <1>2, <1>4, <2>2, SumShift
<1>5. ASSUME \A x \in Ids : c[x] = 0 PROVE Total(c) = 0
  <2> DEFINE Bad == {k \in 0..NumIds : s[k] # 0}
  <2>1. SUFFICES ASSUME Bad # {} PROVE FALSE
    <3>1. NumIds \in 0..NumIds
      BY <1>3
    <3> QED
      BY <1>2, <3>1
  <2>2. PICK k \in Bad : \A m \in Bad : k <= m
    <3>1. Bad \subseteq Nat
      OBVIOUS
    <3> QED
      BY <2>1, <3>1, LeastNat
  <2>3. k # 0
    BY <1>2, <2>2 DEF IsSum
  <2>4. k \in 1..NumIds /\ k - 1 \in 0..NumIds /\ k - 1 \in Ids
    BY <1>3, <2>2, <2>3 DEF Ids
  <2>5. s[k - 1] = 0
    <3>1. k - 1 \notin Bad
      BY <2>2, <2>4
    <3> QED
      BY <2>4, <3>1
  <2>6. s[k] = s[k - 1] + c[k - 1]
    BY <1>2, <2>4 DEF IsSum
  <2> QED
    BY <1>5, <2>2, <2>4, <2>5, <2>6
<1> QED
  BY <1>2, <1>3, <1>4, <1>5 DEF IsSum

(* What the payloads of S add up to.                                       *)
Part(S) == [x \in Ids |-> IF x \in S THEN Requested(x) ELSE 0]
Ones(S) == [x \in Ids |-> IF x \in S THEN 1 ELSE 0]

(* One id taken out of a total.                                            *)
LEMMA TakeOne ==
  ASSUME NEW S, S \subseteq Ids, \A x \in S : Requested(x) \in Nat, NEW x \in S
  PROVE  /\ Total(Part(S)) \in Nat /\ Total(Part(S)) = Requested(x) + Total(Part(S \ {x}))
         /\ Total(Ones(S)) \in Nat /\ Total(Ones(S)) = 1 + Total(Ones(S \ {x}))
<1>1. PICK c, d : c = Part(S) /\ d = Part(S \ {x})
  OBVIOUS
<1>2. /\ c \in [Ids -> Nat] /\ d \in [Ids -> Nat] /\ c[x] = Requested(x) /\ d[x] = 0
      /\ \A y \in Ids : y # x => d[y] = c[y]
  BY <1>1 DEF Part
<1>3. Total(c) \in Nat /\ Total(d) \in Nat /\ Total(c) + d[x] = Total(d) + c[x] /\ c[x] \in Nat
  BY <1>2, TotalFacts
<1>4. PICK a, b : a = Ones(S) /\ b = Ones(S \ {x})
  OBVIOUS
<1>5. /\ a \in [Ids -> Nat] /\ b \in [Ids -> Nat] /\ a[x] = 1 /\ b[x] = 0
      /\ \A y \in Ids : y # x => b[y] = a[y]
  BY <1>4 DEF Ones
<1>6. Total(a) \in Nat /\ Total(b) \in Nat /\ Total(a) + b[x] = Total(b) + a[x]
  BY <1>5, TotalFacts
<1> QED
  BY <1>1, <1>2, <1>3, <1>4, <1>5, <1>6

(* The sum over a set, taken element by element in whatever order.         *)
LEMMA SumOfLive ==
  ASSUME Live \subseteq Ids, \A x \in Live : Requested(x) \in Nat
  PROVE  Sets!MapThenSumSet(Requested, Live) = Total(Part(Live))
<1> DEFINE One(s)  == CHOOSE x \in s : TRUE
           Step(f) == [s \in SUBSET Live |-> IF s = {} THEN 0 ELSE Requested(One(s)) + f[s \ {One(s)}]]
<1>1. PICK f : f = CHOOSE g : g = Step(g)
  OBVIOUS
<1>2. Sets!MapThenSumSet(Requested, Live) = f[Live]
  BY <1>1 DEF Sets!MapThenSumSet, Sets!MapThenFoldSet
<1>3. PICK G : G = [s \in SUBSET Live |-> Total(Part(s))]
  OBVIOUS
<1>4. ASSUME NEW s \in SUBSET Live, s # {}
      PROVE  /\ One(s) \in s /\ s \ {One(s)} \in SUBSET Live
             /\ Total(Part(s)) = Requested(One(s)) + Total(Part(s \ {One(s)}))
             /\ Total(Ones(s)) \in Nat /\ Total(Ones(s)) = 1 + Total(Ones(s \ {One(s)}))
  <2>1. One(s) \in s
    BY <1>4
  <2>2. s \subseteq Ids /\ \A x \in s : Requested(x) \in Nat
    OBVIOUS
  <2>3. \A x \in s : /\ Total(Part(s)) = Requested(x) + Total(Part(s \ {x}))
                     /\ Total(Ones(s)) \in Nat /\ Total(Ones(s)) = 1 + Total(Ones(s \ {x}))
    BY <2>2, TakeOne
  <2> HIDE DEF One
  <2> QED
    BY <2>1, <2>3
<1>5. Total(Part({})) = 0
  <2>1. Part({}) \in [Ids -> Nat] /\ \A x \in Ids : Part({})[x] = 0
    BY DEF Part
  <2> QED
    BY <2>1, TotalFacts
<1> HIDE DEF One
<1>6. G = Step(G)
  BY <1>3, <1>4, <1>5
<1>7. f = Step(f)
  <2> HIDE DEF Step
  <2> QED
    BY <1>1, <1>6
<1> DEFINE Off == {s \in SUBSET Live : f[s] # G[s]}
           Counts == {Total(Ones(s)) : s \in Off}
<1>8. CASE Off = {}
  <2>1. f[Live] = G[Live]
    BY <1>8
  <2> QED
    BY <1>2, <1>3, <2>1
<1>9. CASE Off # {}
  <2>1. Counts # {} /\ Counts \subseteq Nat
    <3>1. ASSUME NEW s \in Off PROVE Total(Ones(s)) \in Nat
      <4>1. Ones(s) \in [Ids -> Nat]
        BY DEF Ones
      <4> QED
        BY <4>1, TotalFacts
    <3> QED
      BY <1>9, <3>1
  <2>2. PICK m \in Counts : \A n \in Counts : m <= n
    <3> HIDE DEF Counts
    <3> QED
      BY <2>1, LeastNat
  <2>3. PICK s \in Off : m = Total(Ones(s))
    OBVIOUS
  <2>4. s # {}
    BY <1>3, <1>5, <1>7
  <2>5. PICK r : r = s \ {One(s)}
    OBVIOUS
  <2>6. /\ r \in SUBSET Live /\ m \in Nat /\ m = 1 + Total(Ones(r))
        /\ Total(Part(s)) = Requested(One(s)) + Total(Part(r))
    BY <1>4, <2>3, <2>4, <2>5
  <2>7. r \notin Off
    <3>1. Total(Ones(r)) \in Nat
      <4>1. Ones(r) \in [Ids -> Nat]
        BY DEF Ones
      <4> QED
        BY <4>1, TotalFacts
    <3>2. ~(m <= Total(Ones(r)))
      BY <2>6, <3>1
    <3> QED
      BY <2>2, <3>2
  <2>8. f[r] = Total(Part(r))
    BY <1>3, <2>6, <2>7
  <2>9. f[s] = Requested(One(s)) + f[r]
    BY <1>7, <2>4, <2>5
  <2> QED
    BY <1>3, <2>6, <2>8, <2>9
<1> QED
  BY <1>8, <1>9

(***************************************************************************)
(* The accounts of eval_mm_util.                                           *)
(***************************************************************************)
Wanted(ops, n) == [x \in Ids |-> IF x \in LiveAfter(ops, n) THEN LastSize(ops, n, x) ELSE 0]

(* The live payloads below e.                                              *)
Below(s, ops, n, e) ==
  [x \in Ids |-> IF x \in LiveAfter(ops, n) /\ s.at[x] < e THEN LastSize(ops, n, x) ELSE 0]

(* The payloads live in disjoint blocks, so there is room for their sum.   *)
LEMMA SumFits ==
  ASSUME NEW s, NEW ops, NEW n, Fits(s, ops, n)
  PROVE  Wanted(ops, n) \in [Ids -> Nat] /\ Total(Wanted(ops, n)) <= s.layout.brk
<1>1. PICK L, live : L = s.layout /\ live = LiveAfter(ops, n)
  OBVIOUS
<1>2. Layout(L) /\ live \subseteq Ids /\ \A x, y \in live : s.at[x] = s.at[y] => x = y
  BY <1>1 DEF Fits, LiveAfter
<1>3. \A x \in live : /\ LastSize(ops, n, x) \in Nat /\ s.at[x] \in Tiles(L) /\ s.at[x] \in Nat
                      /\ s.at[x] >= 16 /\ s.at[x] < L.brk /\ L.size[s.at[x]] \in Nat
                      /\ LastSize(ops, n, x) <= L.size[s.at[x]]
  <2> TAKE x \in live
  <2>1. PICK p, z, S : p = s.at[x] /\ z = LastSize(ops, n, x) /\ S = L.size[p]
    OBVIOUS
  <2>2. p \in Nat /\ p >= 16 /\ z \in Nat /\ S \in Nat /\ z + 8 <= S /\ p \in L.used
    BY <1>1, <2>1, FitsFacts
  <2>3. p \in Tiles(L) /\ p < L.brk
    BY <1>2, <2>2, LayoutFacts
  <2> QED
    BY <2>1, <2>2, <2>3
<1>4. \A e : Below(s, ops, n, e) \in [Ids -> Nat]
  BY <1>1, <1>3 DEF Below
<1>5. Wanted(ops, n) = Below(s, ops, n, L.brk)
  BY <1>1, <1>3 DEF Wanted, Below
<1> DEFINE Over == {e \in Ends(L) : ~(Total(Below(s, ops, n, e)) <= e)}
<1>6. L.brk \in Ends(L) /\ \A e \in Ends(L) : e \in Nat /\ e >= 16
  BY <1>2, LayoutFacts DEF First, WSIZE
<1>7. CASE Over = {}
  <2>1. Total(Below(s, ops, n, L.brk)) <= L.brk
    BY <1>6, <1>7
  <2> QED
    BY <1>1, <1>4, <1>5, <2>1
<1>8. CASE Over # {}
  <2>1. PICK e \in Over : \A d \in Over : e <= d
    <3>1. Over \subseteq Nat
      BY <1>6
    <3> QED
      BY <1>8, <3>1, LeastNat
  <2>2. PICK c : c = Below(s, ops, n, e)
    OBVIOUS
  <2>3. c \in [Ids -> Nat] /\ Total(c) \in Nat /\ e \in Ends(L) /\ e \in Nat /\ e >= 16
    BY <1>4, <1>6, <2>2, TotalFacts
  <2>4. CASE e = First
    <3>1. \A x \in Ids : c[x] = 0
      <4> TAKE x \in Ids
      <4>1. x \in live => ~(s.at[x] < e)
        BY <1>3, <2>4 DEF First, WSIZE
      <4> QED
        BY <1>1, <2>2, <4>1 DEF Below
    <3>2. Total(c) = 0
      BY <2>3, <3>1, TotalFacts
    <3> QED
      BY <2>1, <2>2, <2>3, <3>2
  <2>5. ASSUME NEW q \in Tiles(L), q + L.size[q] = e PROVE FALSE
    <3>1. /\ q \in Nat /\ q \in Ends(L) /\ L.size[q] \in Nat /\ L.size[q] >= 16 /\ q < e
      <4>1. q \in Ends(L) /\ L.size[q] \in Nat /\ L.size[q] >= 16
        BY <1>2, LayoutFacts
      <4>2. q \in Nat /\ q + L.size[q] = e
        BY <1>6, <2>5, <4>1
      <4>3. q < e
        BY <2>3, <4>1, <4>2
      <4> QED
        BY <4>1, <4>2, <4>3
    <3>2. PICK d : d = Below(s, ops, n, q)
      OBVIOUS
    <3>3. d \in [Ids -> Nat] /\ Total(d) \in Nat
      BY <1>4, <3>2, TotalFacts
    <3>4. Total(d) <= q
      <4>1. q \notin Over
        BY <2>1, <2>3, <3>1
      <4> QED
        BY <3>1, <3>2, <4>1
    <3>5. \A x \in live : s.at[x] < e <=> (s.at[x] < q \/ s.at[x] = q)
      <4> TAKE x \in live
      <4>1. PICK p : p = s.at[x] /\ p \in Tiles(L) /\ p \in Nat
        BY <1>3
      <4>2. ~(q < p /\ p < e)
        <5>1. p \in Ends(L) /\ (q < p => q + L.size[q] <= p)
          BY <1>2, <4>1, LayoutFacts
        <5> QED
          BY <2>3, <2>5, <4>1, <5>1
      <4> QED
        BY <2>3, <3>1, <4>1, <4>2
    <3>6. CASE \E x \in live : s.at[x] = q
      <4>1. PICK x \in live : s.at[x] = q
        BY <3>6
      <4>2. c[x] = LastSize(ops, n, x) /\ d[x] = 0 /\ x \in Ids
        BY <1>1, <1>2, <2>2, <3>1, <3>2, <3>5, <4>1 DEF Below
      <4>3. \A y \in Ids : y # x => d[y] = c[y]
        <5> TAKE y \in Ids
        <5>1. y \in live /\ y # x => (s.at[y] < e <=> s.at[y] < q)
          BY <1>2, <3>5, <4>1
        <5> QED
          BY <1>1, <2>2, <3>2, <5>1 DEF Below
      <4>4. Total(c) + d[x] = Total(d) + c[x]
        BY <2>3, <3>3, <4>2, <4>3, TotalFacts
      <4>5. c[x] \in Nat /\ c[x] <= L.size[q]
        BY <1>3, <4>1, <4>2
      <4>6. Total(c) <= e
        BY <2>3, <2>5, <3>1, <3>3, <3>4, <4>2, <4>4, <4>5
      <4> QED
        BY <2>1, <2>2, <4>6
    <3>7. CASE ~\E x \in live : s.at[x] = q
      <4>1. c = d
        BY <1>1, <2>2, <3>2, <3>5, <3>7 DEF Below
      <4>2. Total(c) <= e
        BY <2>3, <3>1, <3>3, <3>4, <4>1
      <4> QED
        BY <2>1, <2>2, <4>2
    <3> QED
      BY <3>6, <3>7
  <2>6. e = First \/ \E q \in Tiles(L) : q + L.size[q] = e
    <3>1. IsEnd(L, e)
      BY <1>2, <2>3, LayoutFacts
    <3> QED
      BY <3>1 DEF IsEnd
  <2> QED
    BY <2>4, <2>5, <2>6
<1> QED
  BY <1>7, <1>8

AccountInv ==
  /\ total_size \in Nat /\ max_total_size \in Nat
  /\ pc = "eval_mm_util" => /\ total_size = Total(Wanted(trace, i - 1))
                            /\ total_size <= max_total_size /\ max_total_size <= heap.brk

(* What a request changes of the sum, and of the heap.                     *)
LEMMA SumChanges ==
  ASSUME DriverInv, Advances, pc = "eval_mm_util",
         NEW old, old = (IF op.type = "ALLOC" THEN 0 ELSE block_sizes[op.index]),
         NEW sum, sum = Total(Wanted(trace, i))
  PROVE  /\ old \in Nat /\ op.size \in Nat /\ sum \in Nat /\ Total(Wanted(trace, i - 1)) \in Nat
         /\ sum + old = Total(Wanted(trace, i - 1)) + op.size
         /\ sum <= heap'.brk /\ heap.brk <= heap'.brk /\ heap.brk \in Nat /\ heap'.brk \in Nat
<1>1. Sane(trace) /\ i \in 1..Len(trace) /\ Serves(trace, i, heap, blocks, heap', blocks')
  BY DEF DriverInv, TraceInv, Advances
<1>2. PICK s, t : /\ AsPlanned(s, trace, i - 1, heap, blocks) /\ Served(s, trace[i], t)
                  /\ AsPlanned(t, trace, i, heap', blocks')
  BY <1>1 DEF Serves
<1>3. /\ Fits(s, trace, i - 1) /\ heap.brk = s.layout.brk
      /\ Fits(t, trace, i) /\ heap'.brk = t.layout.brk
  BY <1>2 DEF AsPlanned, Tags
<1>4. heap.brk <= heap'.brk /\ heap.brk \in Nat /\ heap'.brk \in Nat
  <2>1. s.layout.brk <= t.layout.brk
    BY <1>1, <1>2, <1>3, ServedFits
  <2>2. s.layout.brk \in Nat /\ t.layout.brk \in Nat
    BY <1>3, LayoutFacts DEF Fits
  <2> QED
    BY <1>3, <2>1, <2>2
<1>5. PICK c, d : c = Wanted(trace, i - 1) /\ d = Wanted(trace, i)
  OBVIOUS
<1>6. c \in [Ids -> Nat] /\ d \in [Ids -> Nat] /\ Total(d) <= heap'.brk
  BY <1>3, <1>5, SumFits
<1>7. PICK e, id : e = trace[i] /\ id = e.index
  OBVIOUS
<1>8. /\ id \in Ids /\ e.type \in {"ALLOC", "REALLOC", "FREE"}
      /\ (e.type = "ALLOC") <=> (id \notin LiveAfter(trace, i - 1))
      /\ e.type = "FREE" => e.size = 0
  BY <1>1, <1>7, SaneRequest
<1>9. /\ LiveAfter(trace, i) \ {id} = LiveAfter(trace, i - 1) \ {id}
      /\ (id \in LiveAfter(trace, i)) <=> (e.type # "FREE")
      /\ \A x : x # id => LastSize(trace, i, x) = LastSize(trace, i - 1, x)
      /\ LastSize(trace, i, id) = e.size
  BY <1>1, <1>7, LiveOthers
<1>10. \A y \in Ids : y # id => d[y] = c[y]
  BY <1>5, <1>9 DEF Wanted
<1>11. d[id] = e.size
  BY <1>5, <1>8, <1>9 DEF Wanted
<1>12. c[id] = old
  <2>1. CASE e.type = "ALLOC"
    BY <1>5, <1>7, <1>8, <2>1 DEF Wanted, op
  <2>2. CASE e.type # "ALLOC"
    <3>1. id \in LiveAfter(trace, i - 1)
      BY <1>8, <2>2
    <3>2. block_sizes[id] = LastSize(trace, i - 1, id)
      BY <3>1 DEF DriverInv, RecordInv
    <3> QED
      BY <1>5, <1>7, <1>8, <2>2, <3>1, <3>2 DEF Wanted, op
  <2> QED
    BY <2>1, <2>2
<1>13. Total(c) \in Nat /\ Total(d) \in Nat /\ Total(c) + d[id] = Total(d) + c[id]
  BY <1>6, <1>8, <1>10, TotalFacts
<1>14. old \in Nat /\ e.size \in Nat
  BY <1>6, <1>8, <1>11, <1>12
<1> QED
  BY <1>4, <1>5, <1>6, <1>7, <1>11, <1>12, <1>13, <1>14 DEF op

(* Each action keeps the account, one lemma per action that changes it.    *)
LEMMA UtilPlaceAccounts ==
  ASSUME lib = "blk", DriverInv, AccountInv, UtilPlace
  PROVE  AccountInv'
<1>1. Advances /\ pc = "eval_mm_util"
  BY UtilPlaceKeeps DEF UtilPlace, Pending
<1>2. PICK old : old = IF op.type = "ALLOC" THEN 0 ELSE block_sizes[op.index]
  OBVIOUS
<1>3. PICK sum, before : sum = Total(Wanted(trace, i)) /\ before = Total(Wanted(trace, i - 1))
  OBVIOUS
<1>4. /\ old \in Nat /\ op.size \in Nat /\ sum \in Nat /\ before \in Nat
      /\ sum + old = before + op.size
      /\ sum <= heap'.brk /\ heap.brk <= heap'.brk /\ heap.brk \in Nat /\ heap'.brk \in Nat
  BY <1>1, <1>2, <1>3, SumChanges
<1>5. /\ i \in Nat /\ i' = i + 1 /\ trace' = trace
      /\ total_size = before /\ max_total_size \in Nat /\ max_total_size <= heap.brk
  BY <1>1, <1>3 DEF Advances, AccountInv
<1>6. Account(op.size) /\ pc' = pc
  <2>1. i' # i
    BY <1>5
  <2> QED
    BY <2>1 DEF UtilPlace
<1>7. total_size' = (before + op.size) - old /\ max_total_size' = Larger(max_total_size, total_size')
  BY <1>2, <1>4, <1>5, <1>6 DEF Account
<1>8. total_size' = sum
  BY <1>4, <1>7
<1>9. max_total_size' \in Nat /\ sum <= max_total_size' /\ max_total_size' <= heap'.brk
  BY <1>4, <1>5, <1>7, <1>8 DEF Larger
<1>10. i' - 1 = i
  BY <1>5
<1> QED
  BY <1>3, <1>4, <1>5, <1>8, <1>9, <1>10 DEF AccountInv

(* A free subtracts what the id had.                                       *)
LEMMA UtilFreeAccounts ==
  ASSUME lib = "blk", DriverInv, AccountInv, UtilFree
  PROVE  AccountInv'
<1>1. /\ Advances /\ pc = "eval_mm_util" /\ op.type = "FREE"
      /\ total_size' = total_size - block_sizes[op.index] /\ max_total_size' = max_total_size
  BY UtilFreeKeeps DEF UtilFree, Pending
<1>2. PICK old : old = IF op.type = "ALLOC" THEN 0 ELSE block_sizes[op.index]
  OBVIOUS
<1>3. PICK sum, before : sum = Total(Wanted(trace, i)) /\ before = Total(Wanted(trace, i - 1))
  OBVIOUS
<1>4. /\ old \in Nat /\ sum \in Nat /\ before \in Nat /\ op.size \in Nat
      /\ sum + old = before + op.size
      /\ sum <= heap'.brk /\ heap.brk <= heap'.brk /\ heap.brk \in Nat /\ heap'.brk \in Nat
  BY <1>1, <1>2, <1>3, SumChanges
<1>5. /\ i \in Nat /\ i' = i + 1 /\ trace' = trace
      /\ total_size = before /\ max_total_size \in Nat /\ before <= max_total_size
      /\ max_total_size <= heap.brk
  BY <1>1, <1>3 DEF Advances, AccountInv
<1>6. op.size = 0
  <2>1. Sane(trace) /\ i \in 1..Len(trace)
    BY <1>1 DEF DriverInv, TraceInv, Advances
  <2> QED
    BY <1>1, <2>1, SaneRequest DEF op
<1>7. total_size' = sum
  BY <1>1, <1>2, <1>4, <1>5, <1>6
<1>8. i' - 1 = i
  BY <1>5
<1> QED
  BY <1>1, <1>3, <1>4, <1>5, <1>6, <1>7, <1>8 DEF AccountInv

(* The account starts at nothing live.                                     *)
LEMMA BeginUtilAccounts ==
  ASSUME lib = "blk", DriverInv, BeginUtil
  PROVE  AccountInv'
<1>1. total_size' = 0 /\ max_total_size' = 0 /\ i' = 1 /\ trace' = trace
  BY DEF BeginUtil, Begin
<1>2. DriverInv'
  BY BeginUtilKeeps
<1>3. heap'.brk \in Nat
  BY <1>2 DEF DriverInv, HeapInv, Heap
<1>4. LiveAfter(trace, 0) = {}
  BY LiveStart
<1>5. PICK c : c = Wanted(trace, 0)
  OBVIOUS
<1>6. c \in [Ids -> Nat] /\ \A x \in Ids : c[x] = 0
  BY <1>4, <1>5 DEF Wanted
<1>7. Total(c) = 0
  BY <1>6, TotalFacts
<1> QED
  BY <1>1, <1>3, <1>5, <1>7 DEF AccountInv

(* Every step keeps the account.                                           *)
LEMMA StepsAccount ==
  ASSUME lib = "blk", DriverInv, AccountInv, [Next]_vars
  PROVE  AccountInv'
<1>1. CASE UtilPlace
  BY <1>1, UtilPlaceAccounts
<1>2. CASE UtilFree
  BY <1>2, UtilFreeAccounts
<1>3. CASE BeginUtil
  BY <1>3, BeginUtilAccounts
<1>4. CASE ValidAlloc
  BY <1>4 DEF ValidAlloc, Pending, Accept, Invalid, AccountInv
<1>5. CASE ValidRealloc
  BY <1>5 DEF ValidRealloc, Pending, Accept, Invalid, AccountInv
<1>6. CASE OpenTrace \/ ReadRequest \/ BeginValid \/ ValidFree \/ BeginSpeed \/ SpeedPlace
           \/ SpeedFree \/ NextTrace
  BY <1>6 DEF OpenTrace, ReadRequest, BeginValid, ValidFree, BeginSpeed, SpeedPlace, SpeedFree,
              NextTrace, Begin, Pending, AccountInv
<1>7. CASE UNCHANGED vars
  BY <1>7 DEF vars, AccountInv
<1> QED
  BY <1>1, <1>2, <1>3, <1>4, <1>5, <1>6, <1>7 DEF Next

(* The sum eval_mm_util keeps is that of the live payloads, and its high   *)
(* water mark never exceeds the heap, which does not shrink.               *)
THEOREM Utilisation == Spec /\ lib = "blk" => []UtilisationSound
<1>1. Init => AccountInv
  BY DEF Init, AccountInv
<1>2. Blk /\ AccountInv /\ [Next]_vars => AccountInv'
  BY StepsAccount DEF Blk
<1>3. Blk /\ AccountInv => UtilisationSound
  <2> SUFFICES ASSUME Blk, AccountInv, pc = "eval_mm_util"
               PROVE  total_size = Sets!MapThenSumSet(Requested, Live)
    BY DEF UtilisationSound, AccountInv
  <2>1. Replaying /\ Live = LiveAfter(trace, i - 1)
    BY DEF Replaying, Live
  <2>2. PICK R : AsPlanned(R[i], trace, i - 1, heap, blocks)
    BY <2>1 DEF Blk, DriverInv, CourseInv, Course
  <2>3. Live \subseteq Ids /\ \A x \in Live : Requested(x) \in Nat
    BY <2>1, <2>2, LiveBlocks DEF LiveAfter
  <2>4. Wanted(trace, i - 1) = Part(Live)
    <3>1. \A x \in Live : Requested(x) = LastSize(trace, i - 1, x)
      BY DEF Requested, LastSize, Asked
    <3> QED
      BY <2>1, <3>1 DEF Wanted, Part
  <2> QED
    BY <2>3, <2>4, SumOfLive DEF AccountInv
<1> QED
  BY <1>1, <1>2, <1>3, Invariance, PTL DEF Spec

(***************************************************************************)
(* The driver's counters.                                                  *)
(***************************************************************************)
Open == IF pc \in {"read_trace", "eval_mm_valid"} THEN 1 ELSE 0

CountInv ==
  /\ lib \in Libs
  /\ files \in 0..MaxFiles /\ budget \in 0..MaxOps /\ Len(trace) + budget <= MaxOps
  /\ i \in 1..(MaxOps + 1)
  /\ errors \in Nat /\ errors + Open <= files

(* Every step keeps the counters in their bounds.                          *)
LEMMA StepsCount ==
  ASSUME lib = "blk", DriverInv, CountInv, [Next]_vars
  PROVE  CountInv'
<1>1. /\ Len(trace) \in Nat /\ files \in Nat /\ budget \in Nat /\ i \in Nat
      /\ MaxOps \in Nat /\ MaxFiles \in Nat /\ Len(trace) <= MaxOps
  BY DriverAssumption DEF DriverInv, TraceInv, Sane, CountInv
<1>2. lib' = lib
  BY StepsKeep
<1>3. CASE OpenTrace
  <2>1. Len(trace') = 0
    BY <1>3 DEF OpenTrace
  <2> QED
    BY <1>1, <1>2, <1>3, <2>1 DEF OpenTrace, CountInv, Open
<1>4. CASE ReadRequest
  <2>1. Len(trace') = Len(trace) + 1
    BY <1>4 DEF ReadRequest, DriverInv, TraceInv, Sane
  <2> QED
    BY <1>1, <1>2, <1>4, <2>1 DEF ReadRequest, CountInv, Open
<1>5. CASE BeginValid
  BY <1>1, <1>2, <1>5 DEF BeginValid, Begin, malloc_error, CountInv, Open
<1>6. ASSUME pc = "eval_mm_valid", UNCHANGED <<files, budget, trace>>,
             \/ pc' = pc /\ i <= Len(trace) /\ i' = i + 1 /\ errors' = errors
             \/ pc' \in {"main", "crashed"} /\ i' = i /\ errors' \in {errors, errors + 1}
      PROVE  CountInv'
  BY <1>1, <1>2, <1>6 DEF CountInv, Open
<1>7. CASE ValidAlloc
  BY <1>6, <1>7 DEF ValidAlloc, Pending, Accept, Invalid, malloc_error
<1>8. CASE ValidRealloc
  BY <1>6, <1>8 DEF ValidRealloc, Pending, Accept, Invalid, malloc_error
<1>9. CASE ValidFree
  BY <1>6, <1>9 DEF ValidFree, Pending
<1>10. ASSUME pc \in {"eval_mm_valid", "eval_mm_util", "eval_mm_speed"},
              pc' \in {"main", "eval_mm_util", "eval_mm_speed", "app_error"},
              UNCHANGED <<files, budget, trace, errors>>,
              i' \in {1, i} \/ (i <= Len(trace) /\ i' = i + 1)
       PROVE  CountInv'
  BY <1>1, <1>2, <1>10 DEF CountInv, Open
<1>11. CASE BeginUtil \/ BeginSpeed \/ NextTrace
  <2>1. /\ pc \in {"eval_mm_valid", "eval_mm_util", "eval_mm_speed"}
        /\ pc' \in {"main", "eval_mm_util", "eval_mm_speed", "app_error"}
        /\ UNCHANGED <<files, budget, trace, errors>> /\ i' \in {1, i}
    BY <1>11 DEF BeginUtil, BeginSpeed, NextTrace, Begin
  <2> QED
    BY <1>1, <1>2, <2>1 DEF CountInv, Open
<1>12. CASE UtilPlace \/ UtilFree \/ SpeedPlace \/ SpeedFree
  <2>1. /\ pc \in {"eval_mm_util", "eval_mm_speed"} /\ pc' \in {pc, "app_error"}
        /\ UNCHANGED <<files, budget, errors>>
    BY <1>12 DEF UtilPlace, UtilFree, SpeedPlace, SpeedFree, Pending
  <2>2. Advances
    BY <1>12, UtilPlaceKeeps, UtilFreeKeeps, SpeedPlaceKeeps, SpeedFreeKeeps
  <2>3. trace' = trace /\ i <= Len(trace) /\ i' = i + 1
    BY <1>1, <2>2 DEF Advances
  <2> QED
    BY <1>10, <2>1, <2>3
<1>13. CASE UNCHANGED vars
  BY <1>13 DEF vars, CountInv, Open
<1> QED
  BY <1>3, <1>4, <1>5, <1>7, <1>8, <1>9, <1>11, <1>12, <1>13 DEF Next

(* The driver's variables have the values its code can give them.          *)
THEOREM TypeCorrect == Spec /\ lib = "blk" => []TypeOK
<1>1. Init => AccountInv /\ CountInv
  <2> SUFFICES ASSUME Init PROVE AccountInv /\ CountInv
    OBVIOUS
  <2>1. Len(trace) = 0
    BY DEF Init
  <2> QED
    BY <2>1, DriverAssumption DEF Init, AccountInv, CountInv, Open
<1>2. Blk /\ AccountInv /\ CountInv /\ [Next]_vars => (AccountInv /\ CountInv)'
  BY StepsAccount, StepsCount DEF Blk
<1>3. Blk /\ AccountInv /\ CountInv => TypeOK
  <2> SUFFICES ASSUME Blk, AccountInv, CountInv PROVE TypeOK
    OBVIOUS
  <2>1. heap.brk \in 0..MAX_HEAP /\ heap.brk % DSIZE = 0 /\ heap.free_listp \in 0..MAX_HEAP
    BY HeapAssumption DEF Blk, DriverInv, HeapInv, Heap, DSIZE, NULL
  <2>2. Len(trace) \in Nat
    BY DEF Blk, DriverInv, TraceInv, Sane
  <2>3. Len(trace) <= MaxOps /\ errors \in 0..files
    BY <2>2, DriverAssumption DEF CountInv, Open
  <2> QED
    BY <2>1, <2>3 DEF TypeOK, Blk, DriverInv, PcInv, TableInv, AccountInv, CountInv
<1> QED
  BY <1>1, <1>2, <1>3, Invariance, PTL DEF Spec
=============================================================================
