-------------------------- MODULE BlockHeapProofs ---------------------------
(***************************************************************************)
(* The allocator mm_blk.c, for every heap size and chunk size.             *)
(*                                                                         *)
(* A layout says which blocks tile the heap and which of them are          *)
(* allocated; Tags says that the words of the heap are the headers and     *)
(* footers of a layout.  What mm_init, mm_malloc, mm_free and mm_realloc   *)
(* do to the words, reading nothing but tags, is shown to be what the      *)
(* operators on layouts do (StartLayout, AllocLayout, FreeLayout), and to  *)
(* leave alone the words of the other allocated blocks.                    *)
(***************************************************************************)
EXTENDS MallocDriver, WellFoundedInduction, TLAPS

(***************************************************************************)
(* Words of the heap.                                                      *)
(***************************************************************************)
Heap == [mem : [Word -> Nat], brk : Nat, free_listp : {NULL}]

Addr == {a \in Nat : a % 4 = 0 /\ a < MAX_HEAP}

(* An address and its word name each other.                                *)
LEMMA WordOf ==
  ASSUME NEW a \in Addr
  PROVE  a \div WSIZE \in Word /\ a = 4 * (a \div WSIZE)
<1>1. a = 4 * (a \div 4) /\ a \div 4 \in Nat
  BY DEF Addr
<1>2. MAX_HEAP = 8 * (MAX_HEAP \div 8) /\ MAX_HEAP \div 4 = 2 * (MAX_HEAP \div 8)
  BY HeapAssumption
<1>3. a \div 4 < MAX_HEAP \div 4
  BY <1>1, <1>2, HeapAssumption DEF Addr
<1> QED
  BY <1>1, <1>3, HeapAssumption DEF Word, WSIZE

(* What a word holds is a natural number.                                  *)
LEMMA GetNat ==
  ASSUME NEW h \in Heap, NEW a \in Addr
  PROVE  get(h, a) \in Nat
BY WordOf DEF get, Heap

(* Only the words at the addresses A may have changed.                     *)
WritesOnly(h, g, A) == \A a \in Addr \ A : get(g, a) = get(h, a)

(* A store changes the word it is given.                                   *)
Stored(h, a, v, g) ==
  g \in Heap /\ g.brk = h.brk /\ get(g, a) = v /\ WritesOnly(h, g, {a})

(* A store changes the word stored to and no other.                        *)
LEMMA SetGet ==
  ASSUME NEW h \in Heap, NEW a \in Addr, NEW v \in Nat
  PROVE  Stored(h, a, v, set(h, a, v))
<1>1. a \div WSIZE \in Word /\ a = 4 * (a \div WSIZE)
  BY WordOf
<1>2. set(h, a, v) \in Heap /\ set(h, a, v).brk = h.brk
  BY <1>1 DEF set, Heap
<1>3. ASSUME NEW b \in Addr
      PROVE  get(set(h, a, v), b) = IF b = a THEN v ELSE get(h, b)
  <2>1. b \div WSIZE \in Word /\ b = 4 * (b \div WSIZE)
    BY WordOf
  <2>2. (b \div WSIZE = a \div WSIZE) <=> (b = a)
    BY <1>1, <2>1
  <2> QED
    BY <1>1, <2>1, <2>2 DEF get, set, Heap
<1> QED
  BY <1>2, <1>3 DEF Stored, WritesOnly

(* A tag gives back the size and the flag it was packed from.              *)
LEMMA Unpacked ==
  ASSUME NEW s \in Nat, NEW f \in {0, 1}, s % 8 = 0
  PROVE  ((s + f) \div 8) * 8 = s /\ (s + f) % 2 = f
<1>1. s = 8 * (s \div 8)
  OBVIOUS
<1>2. PICK q \in Nat : s = 8 * q
  BY <1>1
<1> QED
  BY <1>2

(* Multiples of 8 are closed under sums and differences.                   *)
LEMMA Mod8 ==
  ASSUME NEW a \in Nat, NEW b \in Nat, a % 8 = 0, b % 8 = 0
  PROVE  a + b \in Nat /\ (a + b) % 8 = 0 /\ (b <= a => a - b \in Nat /\ (a - b) % 8 = 0)
OBVIOUS

(***************************************************************************)
(* Layouts: where the blocks of a heap begin, how long they are, and which *)
(* are allocated.  The first block is at 16, behind the prologue; from it  *)
(* each block ends where the next one begins, or at the break.             *)
(***************************************************************************)
First == 4 * WSIZE

Tiles(L) == DOMAIN L.size
Ends(L)  == Tiles(L) \cup {L.brk}
Gaps(L)  == Tiles(L) \ L.used

IsEnd(L, e) ==
  /\ e \in Nat /\ e % 8 = 0 /\ First <= e /\ e <= MAX_HEAP
  /\ e = First \/ \E q \in Tiles(L) : q + L.size[q] = e

IsTile(L, p) ==
  /\ L.size[p] \in Nat /\ L.size[p] % 8 = 0 /\ L.size[p] >= 16
  /\ p < L.brk /\ p + L.size[p] \in Ends(L)
  /\ \A e \in Ends(L) : p < e => p + L.size[p] <= e

Layout(L) ==
  /\ L.size = [p \in Tiles(L) |-> L.size[p]] /\ L.used \subseteq Tiles(L)
  /\ First \in Ends(L)
  /\ \A e \in Ends(L) : IsEnd(L, e)
  /\ \A p \in Tiles(L) : IsTile(L, p)

Tag(L, p) == L.size[p] + (IF p \in L.used THEN 1 ELSE 0)

(* One block, allocated or not, in the place of those from p to e.         *)
Span(L, p, e, flag) ==
  [size |-> [x \in {y \in Tiles(L) : y <= p \/ e <= y} |-> IF x = p THEN e - p ELSE L.size[x]],
   used |-> (L.used \ p..(e - 1)) \cup (IF flag = 1 THEN {p} ELSE {}),
   brk  |-> L.brk]

(* The first n bytes of the block at p allocated, the rest a free block.   *)
Cut(L, p, n) ==
  [size |-> [x \in Tiles(L) \cup {p + n} |->
               IF x = p THEN n ELSE IF x = p + n THEN L.size[p] - n ELSE L.size[x]],
   used |-> L.used \cup {p},
   brk  |-> L.brk]

(* A free block of n bytes at the break.                                   *)
Grow(L, n) ==
  [size |-> [x \in Ends(L) |-> IF x = L.brk THEN n ELSE L.size[x]],
   used |-> L.used,
   brk  |-> L.brk + n]

(* What a layout says of its ends and its blocks.                          *)
LEMMA LayoutFacts ==
  ASSUME NEW L, Layout(L)
  PROVE  /\ \A e \in Ends(L) : /\ e \in Nat /\ e % 8 = 0 /\ First <= e /\ e <= L.brk
                               /\ e <= MAX_HEAP /\ IsEnd(L, e)
         /\ \A p \in Tiles(L) : /\ p \in Ends(L) /\ IsTile(L, p)
                                /\ L.size[p] \in Nat /\ L.size[p] % 8 = 0 /\ L.size[p] >= 16
                                /\ p < L.brk /\ p + L.size[p] \in Ends(L)
         /\ \A p \in Tiles(L), e \in Ends(L) : p < e => p + L.size[p] <= e
         /\ L.brk \in Ends(L) /\ First \in Ends(L)
         /\ L.used \subseteq Tiles(L)
<1>1. \A e \in Ends(L) : e \in Nat /\ e % 8 = 0 /\ First <= e /\ e <= MAX_HEAP /\ IsEnd(L, e)
  BY DEF Layout, IsEnd
<1>2. \A p \in Tiles(L) : p \in Ends(L) /\ IsTile(L, p)
  BY DEF Layout, Ends
<1>3. \A p \in Tiles(L) : /\ L.size[p] \in Nat /\ L.size[p] % 8 = 0 /\ L.size[p] >= 16
                          /\ p < L.brk /\ p + L.size[p] \in Ends(L)
  BY <1>2 DEF IsTile
<1>4. L.brk \in Ends(L) /\ First \in Ends(L) /\ L.used \subseteq Tiles(L)
  BY DEF Layout, Ends
<1>5. ASSUME NEW e \in Ends(L) PROVE e <= L.brk
  <2>1. e \in Nat /\ L.brk \in Nat
    BY <1>1, <1>4
  <2>2. e \in Tiles(L) => e < L.brk
    BY <1>3
  <2> QED
    BY <2>1, <2>2 DEF Ends
<1> QED
  BY <1>1, <1>2, <1>3, <1>4, <1>5 DEF IsTile

(* The parts of a layout after one of the three changes.                   *)
LEMMA SpanParts ==
  ASSUME NEW L, Layout(L), NEW p \in Tiles(L), NEW e \in Ends(L), p < e, NEW flag \in {0, 1},
         NEW M, M = Span(L, p, e, flag)
  PROVE  /\ M.brk = L.brk
         /\ Tiles(M) = {y \in Tiles(L) : y <= p \/ e <= y}
         /\ M.size[p] = e - p
         /\ \A x \in Tiles(M) : x # p => /\ M.size[x] = L.size[x]
                                         /\ (x \in M.used) <=> (x \in L.used)
         /\ (p \in M.used) <=> (flag = 1)
         /\ M.used \subseteq Tiles(M)
<1> DEFINE Kept == {y \in Tiles(L) : y <= p \/ e <= y}
<1>1. p \in Nat /\ e \in Nat /\ L.used \subseteq Nat /\ L.used \subseteq Tiles(L)
      /\ Tiles(L) \subseteq Nat
  BY LayoutFacts
<1>2. /\ M.size = [x \in Kept |-> IF x = p THEN e - p ELSE L.size[x]] /\ M.brk = L.brk
      /\ M.used = (L.used \ p..(e - 1)) \cup (IF flag = 1 THEN {p} ELSE {})
  BY DEF Span
<1>3. p \in Kept /\ Tiles(M) = Kept
  BY <1>1, <1>2 DEF Tiles
<1>4. L.used \ p..(e - 1) \subseteq Kept
  BY <1>1
<1>5. p \in p..(e - 1)
  BY <1>1
<1>6. \A x \in Kept : x # p => x \notin p..(e - 1)
  BY <1>1
<1>7. \A x \in Tiles(M) : x # p => /\ M.size[x] = L.size[x]
                                   /\ (x \in M.used) <=> (x \in L.used)
  BY <1>2, <1>3, <1>6
<1> QED
  BY <1>2, <1>3, <1>4, <1>5, <1>7

(* Merging or flagging the blocks from p to e leaves a layout.             *)
LEMMA SpanLayout ==
  ASSUME NEW L, Layout(L), NEW p \in Tiles(L), NEW e \in Ends(L), p < e, NEW flag \in {0, 1}
  PROVE  Layout(Span(L, p, e, flag))
<1>1. PICK M : M = Span(L, p, e, flag)
  OBVIOUS
<1> DEFINE Kept == {y \in Tiles(L) : y <= p \/ e <= y}
<1>2. /\ Tiles(M) = Kept /\ M.brk = L.brk /\ p \in Kept
      /\ M.size[p] = e - p /\ \A x \in Kept : x # p => M.size[x] = L.size[x]
      /\ M.used \subseteq Tiles(M)
  BY <1>1, SpanParts, LayoutFacts
<1>3. \A x \in Ends(L) : /\ x \in Nat /\ x % 8 = 0 /\ First <= x /\ x <= MAX_HEAP /\ x <= L.brk
                         /\ IsEnd(L, x)
  BY LayoutFacts
<1>4. \A x \in Tiles(L) : x \in Ends(L) /\ IsTile(L, x)
  BY LayoutFacts
<1>5. /\ L.brk \in Ends(L) /\ Ends(M) \subseteq Ends(L) /\ First \in Ends(M) /\ p \in Ends(M)
      /\ e \in Ends(M)
  BY <1>2, <1>3, <1>4, LayoutFacts DEF Ends
<1>6. ASSUME NEW x \in Ends(M) PROVE IsEnd(M, x)
  <2>1. CASE x = First
    BY <2>1, <1>3, <1>5 DEF IsEnd
  <2>2. CASE x = e
    BY <2>2, <1>2, <1>3, <1>4, <1>5 DEF IsEnd
  <2>3. CASE x # First /\ x # e
    <3>1. PICK q \in Tiles(L) : q + L.size[q] = x
      BY <2>3, <1>3, <1>5 DEF IsEnd
    <3>2. x <= p \/ e < x
      <4>1. x \in Nat /\ e \in Nat /\ e <= L.brk
        BY <1>3, <1>5
      <4>2. x = L.brk \/ x \in Kept
        BY <1>2 DEF Ends
      <4> QED
        BY <4>1, <4>2, <2>3
    <3>3. q # p /\ q \in Kept
      <4>1. CASE x <= p
        BY <3>1, <4>1, <1>3, <1>4 DEF IsTile
      <4>2. CASE e < x
        BY <3>1, <4>2, <1>3, <1>4 DEF IsTile
      <4> QED
        BY <3>2, <4>1, <4>2
    <3> QED
      BY <3>1, <3>3, <1>2, <1>3, <1>5 DEF IsEnd
  <2> QED
    BY <2>1, <2>2, <2>3
<1>7. ASSUME NEW x \in Tiles(M) PROVE IsTile(M, x)
  <2>1. CASE x = p
    <3>1. p + L.size[p] <= e /\ L.size[p] \in Nat /\ L.size[p] >= 16 /\ p < L.brk
      BY <1>4 DEF IsTile
    <3>2. e - p \in Nat /\ (e - p) % 8 = 0 /\ e - p >= 16 /\ p + (e - p) = e
      BY <3>1, <1>3, <1>4
    <3>3. \A d \in Ends(M) : p < d => e <= d
      BY <1>2, <1>3, <1>5 DEF Ends
    <3> QED
      BY <2>1, <3>1, <3>2, <3>3, <1>2, <1>5 DEF IsTile
  <2>2. CASE x # p
    <3>1. x + L.size[x] \in Ends(L) /\ x < L.brk
      BY <1>2, <1>4 DEF IsTile
    <3>2. x + L.size[x] <= p \/ e <= x + L.size[x]
      BY <2>2, <1>2, <1>3, <1>4 DEF IsTile
    <3>3. x + L.size[x] \in Ends(M)
      BY <3>1, <3>2, <1>2 DEF Ends
    <3> QED
      BY <2>2, <3>1, <3>3, <1>2, <1>4, <1>5 DEF IsTile
  <2> QED
    BY <2>1, <2>2
<1>8. M.size = [x \in Tiles(M) |-> M.size[x]]
  BY <1>1 DEF Span, Tiles
<1> QED
  BY <1>2, <1>5, <1>6, <1>7, <1>8, <1>1 DEF Layout

(* What Cut does to the parts of a layout.                                 *)
LEMMA CutParts ==
  ASSUME NEW L, Layout(L), NEW p \in Gaps(L), NEW n \in Nat, n >= 16, n < L.size[p],
         NEW M, M = Cut(L, p, n)
  PROVE  /\ M.brk = L.brk
         /\ Tiles(M) = Tiles(L) \cup {p + n} /\ p + n \notin Ends(L)
         /\ M.size[p] = n /\ M.size[p + n] = L.size[p] - n
         /\ \A x \in Tiles(L) : x # p => M.size[x] = L.size[x]
         /\ M.used = L.used \cup {p}
<1>1. p \in Nat /\ p \in Tiles(L)
  BY LayoutFacts DEF Gaps
<1>2. p + n \notin Ends(L)
  <2>1. \A d \in Ends(L) : p < d => p + L.size[p] <= d
    BY <1>1, LayoutFacts
  <2>2. L.size[p] \in Nat
    BY <1>1, LayoutFacts
  <2> QED
    BY <1>1, <2>1, <2>2
<1>3. /\ M.size = [x \in Tiles(L) \cup {p + n} |->
               IF x = p THEN n ELSE IF x = p + n THEN L.size[p] - n ELSE L.size[x]]
      /\ M.brk = L.brk /\ M.used = L.used \cup {p}
  BY DEF Cut
<1>4. Tiles(M) = Tiles(L) \cup {p + n}
  BY <1>3 DEF Tiles
<1> QED
  BY <1>1, <1>2, <1>3, <1>4 DEF Ends

(* Splitting a free block leaves a layout.                                 *)
LEMMA CutLayout ==
  ASSUME NEW L, Layout(L), NEW p \in Gaps(L), NEW n \in Nat, n >= 16, n % 8 = 0,
         L.size[p] - n >= 16
  PROVE  Layout(Cut(L, p, n))
<1>1. PICK M : M = Cut(L, p, n)
  OBVIOUS
<1>2. p \in Nat /\ p \in Tiles(L) /\ n < L.size[p] /\ L.size[p] \in Nat
  BY LayoutFacts DEF Gaps
<1>3. /\ Tiles(M) = Tiles(L) \cup {p + n} /\ M.brk = L.brk /\ p + n \notin Ends(L)
      /\ M.size[p] = n /\ M.size[p + n] = L.size[p] - n
      /\ \A x \in Tiles(L) : x # p => M.size[x] = L.size[x]
      /\ M.used = L.used \cup {p}
  BY <1>1, <1>2, CutParts
<1>4. \A x \in Ends(L) : /\ x \in Nat /\ x % 8 = 0 /\ First <= x /\ x <= MAX_HEAP /\ x <= L.brk
                         /\ IsEnd(L, x)
  BY LayoutFacts
<1>5. \A x \in Tiles(L) : x \in Ends(L) /\ IsTile(L, x)
  BY LayoutFacts
<1>6. Ends(M) = Ends(L) \cup {p + n} /\ L.brk \in Ends(L) /\ First \in Ends(L)
  BY <1>3, LayoutFacts DEF Ends
<1>7. ASSUME NEW x \in Ends(M) PROVE IsEnd(M, x)
  <2>1. CASE x = p + n
    <3>1. p % 8 = 0 /\ First <= p /\ p + L.size[p] <= MAX_HEAP
      BY <1>2, <1>4, <1>5 DEF IsTile
    <3>2. (p + n) % 8 = 0 /\ p + n \in Nat
      BY <1>2, <3>1, Mod8
    <3>3. p + n <= MAX_HEAP /\ First <= p + n
      BY <1>2, <3>1, HeapAssumption DEF First, WSIZE
    <3> QED
      BY <2>1, <3>2, <3>3, <1>2, <1>3 DEF IsEnd
  <2>2. CASE x # p + n /\ x = First
    BY <2>2, <1>4, <1>6 DEF IsEnd
  <2>3. CASE x # p + n /\ x # First
    <3>1. PICK q \in Tiles(L) : q + L.size[q] = x
      BY <2>3, <1>4, <1>6 DEF IsEnd
    <3>2. CASE q = p
      BY <3>1, <3>2, <2>3, <1>2, <1>3, <1>4, <1>6 DEF IsEnd
    <3>3. CASE q # p
      BY <3>1, <3>3, <2>3, <1>3, <1>4, <1>6 DEF IsEnd
    <3> QED
      BY <3>2, <3>3
  <2> QED
    BY <2>1, <2>2, <2>3
<1>8. ASSUME NEW x \in Tiles(M) PROVE IsTile(M, x)
  <2>1. CASE x = p
    <3>1. \A d \in Ends(M) : p < d => p + n <= d
      BY <1>2, <1>4, <1>5, <1>6 DEF IsTile
    <3> QED
      BY <2>1, <3>1, <1>2, <1>3, <1>5, <1>6 DEF IsTile
  <2>2. CASE x = p + n
    <3>1. (L.size[p] - n) % 8 = 0 /\ L.size[p] - n \in Nat
      BY <1>2, <1>5 DEF IsTile
    <3>2. p + L.size[p] \in Ends(L) /\ p + L.size[p] <= L.brk
      BY <1>2, <1>4, <1>5 DEF IsTile
    <3>3. p + n + (L.size[p] - n) = p + L.size[p] /\ p + n < L.brk
      BY <1>2, <3>2, <1>4, <1>6
    <3>4. \A d \in Ends(M) : p + n < d => p + L.size[p] <= d
      BY <1>2, <1>4, <1>5, <1>6 DEF IsTile
    <3> QED
      BY <2>2, <3>1, <3>2, <3>3, <3>4, <1>3, <1>6 DEF IsTile
  <2>3. CASE x # p /\ x # p + n
    <3>1. x \in Tiles(L) /\ x \in Nat
      BY <2>3, <1>3, <1>4, <1>5
    <3>2. x < p + n => x + L.size[x] <= p + n
      BY <2>3, <3>1, <1>2, <1>4, <1>5 DEF IsTile
    <3> QED
      BY <2>3, <3>1, <3>2, <1>3, <1>5, <1>6 DEF IsTile
  <2> QED
    BY <2>1, <2>2, <2>3
<1>9. M.size = [x \in Tiles(M) |-> M.size[x]]
  BY <1>1 DEF Cut, Tiles
<1> QED
  BY <1>1, <1>2, <1>3, <1>6, <1>7, <1>8, <1>9, LayoutFacts DEF Layout

(* What Grow does to the parts of a layout.                                *)
LEMMA GrowParts ==
  ASSUME NEW L, Layout(L), NEW n \in Nat, NEW M, M = Grow(L, n)
  PROVE  /\ M.brk = L.brk + n
         /\ Tiles(M) = Ends(L)
         /\ M.size[L.brk] = n
         /\ \A x \in Tiles(L) : x # L.brk /\ M.size[x] = L.size[x]
         /\ M.used = L.used /\ L.brk \notin L.used
<1>1. M.size = [x \in Ends(L) |-> IF x = L.brk THEN n ELSE L.size[x]] /\ M.brk = L.brk + n
      /\ M.used = L.used
  BY DEF Grow
<1>2. \A x \in Tiles(L) : x \in Ends(L) /\ x # L.brk
  BY LayoutFacts
<1> QED
  BY <1>1, <1>2, LayoutFacts DEF Tiles

(* A block added at the break leaves a layout.                             *)
LEMMA GrowLayout ==
  ASSUME NEW L, Layout(L), NEW n \in Nat, n >= 16, n % 8 = 0, L.brk + n <= MAX_HEAP
  PROVE  Layout(Grow(L, n))
<1>1. PICK M : M = Grow(L, n)
  OBVIOUS
<1>2. /\ Tiles(M) = Ends(L) /\ M.brk = L.brk + n
      /\ M.size[L.brk] = n
      /\ \A x \in Tiles(L) : M.size[x] = L.size[x]
      /\ M.used = L.used
  BY <1>1, GrowParts
<1>3. \A x \in Ends(L) : /\ x \in Nat /\ x % 8 = 0 /\ First <= x /\ x <= MAX_HEAP /\ x <= L.brk
                         /\ IsEnd(L, x)
  BY LayoutFacts
<1>4. \A x \in Tiles(L) : x \in Ends(L) /\ IsTile(L, x)
  BY LayoutFacts
<1>5. Ends(M) = Ends(L) \cup {M.brk} /\ L.brk \in Ends(L) /\ First \in Ends(L)
  BY <1>2, LayoutFacts DEF Ends
<1>6. M.brk \in Nat /\ M.brk % 8 = 0 /\ M.brk <= MAX_HEAP /\ First <= M.brk
  BY <1>2, <1>3, <1>5
<1>7. ASSUME NEW x \in Ends(M) PROVE IsEnd(M, x)
  <2>1. CASE x = M.brk
    BY <2>1, <1>2, <1>5, <1>6 DEF IsEnd
  <2>2. CASE x \in Ends(L)
    BY <2>2, <1>2, <1>3, <1>4 DEF IsEnd
  <2> QED
    BY <2>1, <2>2, <1>5
<1>8. ASSUME NEW x \in Tiles(M) PROVE IsTile(M, x)
  <2>1. CASE x = L.brk
    <3>1. \A d \in Ends(M) : L.brk < d => d = M.brk
      BY <1>3, <1>5
    <3> QED
      BY <2>1, <3>1, <1>2, <1>3, <1>5, <1>6 DEF IsTile
  <2>2. CASE x \in Tiles(L)
    <3>1. IsTile(L, x) /\ M.size[x] = L.size[x] /\ x \in Nat /\ x < L.brk
      BY <2>2, <1>2, <1>4, LayoutFacts
    <3>2. x + L.size[x] <= M.brk
      BY <2>2, <3>1, <1>2, <1>3, <1>5, LayoutFacts
    <3>3. x < M.brk /\ x + L.size[x] \in Ends(M)
      BY <3>1, <1>2, <1>3, <1>5, <1>6 DEF IsTile
    <3> QED
      BY <3>1, <3>2, <3>3, <1>5 DEF IsTile
  <2> QED
    BY <2>1, <2>2, <1>2 DEF Ends
<1>9. M.size = [x \in Tiles(M) |-> M.size[x]]
  BY <1>1 DEF Grow, Tiles
<1> QED
  BY <1>1, <1>2, <1>4, <1>5, <1>7, <1>8, <1>9, LayoutFacts DEF Layout

(***************************************************************************)
(* What the routines of mm_blk.c do to a layout.                           *)
(***************************************************************************)

(* No two neighbours are free; none but p and one of its neighbours.       *)
Apart(L) == \A x \in Gaps(L) : x + L.size[x] \notin Gaps(L)
ApartBut(L, p) == \A x \in Gaps(L) : x + L.size[x] \in Gaps(L) => x = p \/ x + L.size[x] = p

(* Where the free space around the free block at p begins and ends.        *)
Low(L, p) == IF \E q \in Gaps(L) : q + L.size[q] = p
             THEN CHOOSE q \in Gaps(L) : q + L.size[q] = p ELSE p
High(L, p) == LET e == p + L.size[p] IN IF e \in Gaps(L) THEN e + L.size[e] ELSE e

Join(L, p) == Span(L, Low(L, p), High(L, p), 0)

(* A free block and its free neighbours: where they begin, where they end, *)
(* and that nothing between is allocated.                                  *)
LEMMA LowHigh ==
  ASSUME NEW L, Layout(L), NEW p \in Gaps(L)
  PROVE  /\ Low(L, p) \in Gaps(L) /\ High(L, p) \in Ends(L)
         /\ Low(L, p) = p \/ Low(L, p) + L.size[Low(L, p)] = p
         /\ Low(L, p) = p => \A q \in Gaps(L) : q + L.size[q] # p
         /\ Low(L, p) <= p /\ p + L.size[p] <= High(L, p)
         /\ \A x \in Tiles(L) : Low(L, p) <= x /\ x < High(L, p) => x \in Gaps(L)
<1> DEFINE s == Low(L, p)
           e == High(L, p)
           m == p + L.size[p]
<1>1. p \in Tiles(L) /\ p \in Nat
  BY LayoutFacts DEF Gaps
<1>2. s \in Gaps(L) /\ (s = p \/ s + L.size[s] = p)
  BY DEF Low
<1>3. s = p => \A q \in Gaps(L) : q + L.size[q] # p
  <2>1. \A q \in Gaps(L) : q + L.size[q] # q
    BY LayoutFacts DEF Gaps
  <2> QED
    BY <2>1 DEF Low
<1>4. s \in Tiles(L) /\ s \in Nat /\ s <= p
  <2>1. s \in Tiles(L)
    BY <1>2 DEF Gaps
  <2>2. s \in Nat /\ L.size[s] \in Nat
    BY <2>1, LayoutFacts
  <2> QED
    BY <2>1, <2>2, <1>1, <1>2
<1>5. m \in Ends(L) /\ m \in Nat
  BY <1>1, LayoutFacts
<1>6. e \in Ends(L) /\ m <= e /\ e \in Nat
  BY <1>5, LayoutFacts DEF High, Gaps
<1>7. ASSUME NEW x \in Tiles(L), s <= x, x < e
      PROVE  x \in Gaps(L)
  <2>1. x \in Nat /\ x \in Ends(L) /\ p \in Ends(L)
    BY <1>1, LayoutFacts
  <2>2. s < x => p <= x
    BY <2>1, <1>1, <1>2, <1>4, LayoutFacts
  <2>3. p < x => m <= x
    BY <2>1, <1>1, LayoutFacts
  <2>4. m < x => e <= x
    BY <2>1, <1>5, <1>6, <1>7, LayoutFacts DEF High, Gaps
  <2>5. x = s \/ x = p \/ x = m
    BY <2>1, <2>2, <2>3, <2>4, <1>1, <1>4, <1>5, <1>6, <1>7
  <2>6. CASE x = m
    BY <2>6, <1>6, <1>7 DEF High
  <2> QED
    BY <2>5, <2>6, <1>2
<1> QED
  BY <1>2, <1>3, <1>4, <1>6, <1>7

(* Coalescing: the allocated blocks keep place and size, and no two free   *)
(* blocks are left side by side if only p had free neighbours.             *)
LEMMA JoinFacts ==
  ASSUME NEW L, Layout(L), NEW p \in Gaps(L), NEW M, M = Join(L, p)
  PROVE  /\ Layout(M) /\ M.brk = L.brk /\ M.used = L.used
         /\ Tiles(M) = {y \in Tiles(L) : y <= Low(L, p) \/ High(L, p) <= y}
         /\ Low(L, p) \in Gaps(M) /\ M.size[Low(L, p)] = High(L, p) - Low(L, p)
         /\ M.size[Low(L, p)] >= L.size[p]
         /\ \A x \in Tiles(M) : x # Low(L, p) => M.size[x] = L.size[x]
         /\ \A x \in L.used : M.size[x] = L.size[x]
         /\ ApartBut(L, p) => Apart(M)
<1> DEFINE s == Low(L, p)
           e == High(L, p)
<1>1. /\ s \in Gaps(L) /\ e \in Ends(L) /\ s \in Tiles(L) /\ p \in Tiles(L)
      /\ s = p \/ s + L.size[s] = p
      /\ s = p => \A q \in Gaps(L) : q + L.size[q] # p
      /\ s <= p /\ p + L.size[p] <= e
      /\ \A x \in Tiles(L) : s <= x /\ x < e => x \in Gaps(L)
  BY LowHigh DEF Gaps
<1>2. /\ s \in Nat /\ p \in Nat /\ e \in Nat /\ L.size[p] \in Nat /\ L.size[p] >= 16
      /\ s < e /\ p < e /\ e - s >= L.size[p] /\ p \in Ends(L) /\ s \in Ends(L)
  BY <1>1, LayoutFacts
<1>3. M = Span(L, s, e, 0)
  BY DEF Join
<1> HIDE DEF s, e
<1>4. /\ M.brk = L.brk
      /\ Tiles(M) = {y \in Tiles(L) : y <= s \/ e <= y}
      /\ M.size[s] = e - s
      /\ \A x \in Tiles(M) : x # s => M.size[x] = L.size[x] /\ ((x \in M.used) <=> (x \in L.used))
      /\ s \notin M.used
      /\ M.used \subseteq Tiles(M)
  <2>1. 0 \in {0, 1} /\ s \in Tiles(L) /\ e \in Ends(L) /\ s < e
    BY <1>1, <1>2
  <2>2. /\ M.brk = L.brk
        /\ Tiles(M) = {y \in Tiles(L) : y <= s \/ e <= y}
        /\ M.size[s] = e - s
        /\ \A x \in Tiles(M) : x # s => /\ M.size[x] = L.size[x]
                                        /\ (x \in M.used) <=> (x \in L.used)
        /\ (s \in M.used) <=> (0 = 1)
        /\ M.used \subseteq Tiles(M)
    BY <2>1, <1>3, SpanParts
  <2> QED
    BY <2>2
<1>5. Layout(M)
  BY <1>1, <1>2, <1>3, SpanLayout
<1>6. L.used \subseteq Tiles(M) /\ s \notin L.used
  <2>1. \A x \in L.used : x \in Tiles(L) /\ x \in Nat /\ x \notin Gaps(L)
    BY LayoutFacts DEF Gaps
  <2> QED
    BY <2>1, <1>1, <1>2, <1>4
<1>7. M.used = L.used
  BY <1>4, <1>6
<1>8. s \in Tiles(M) /\ s \in Gaps(M)
  BY <1>1, <1>2, <1>4 DEF Gaps
<1>9. ASSUME ApartBut(L, p) PROVE Apart(M)
  <2> SUFFICES ASSUME NEW x \in Gaps(M), x + M.size[x] \in Gaps(M) PROVE FALSE
    BY DEF Apart
  <2>1. \A y \in Gaps(M) : y \in Gaps(L) /\ y \in Nat /\ (y <= s \/ e <= y)
    BY <1>4, <1>7, LayoutFacts DEF Gaps
  <2>2. CASE x = s
    <3>1. e \in Gaps(L)
      BY <2>1, <2>2, <1>2, <1>4
    <3>2. PICK q \in Gaps(L) : q = p + L.size[p] /\ e = q + L.size[q]
      BY <3>1 DEF High, e
    <3>3. q = p \/ e = p
      BY <3>1, <3>2, <1>9 DEF ApartBut
    <3> QED
      BY <3>2, <3>3, <1>2
  <2>3. CASE x # s /\ x + M.size[x] = s
    <3>1. x \in Gaps(L) /\ x + L.size[x] = s /\ x < s
      BY <2>1, <2>3, <1>2, <1>4, <1>5, LayoutFacts DEF Gaps
    <3>2. x = p \/ s = p
      BY <3>1, <1>1, <1>9 DEF ApartBut
    <3> QED
      BY <3>1, <3>2, <2>1, <1>1, <1>2
  <2>4. CASE x # s /\ x + M.size[x] # s
    <3>1. x \in Tiles(M)
      BY DEF Gaps
    <3>2. x \in Gaps(L) /\ x + L.size[x] \in Gaps(L)
      BY <3>1, <2>1, <2>4, <1>4
    <3>3. x = p \/ x + L.size[x] = p
      BY <3>2, <1>9 DEF ApartBut
    <3>4. p \in Gaps(M)
      BY <3>1, <3>3, <2>4, <1>4
    <3>5. p = s
      BY <3>4, <2>1, <1>1, <1>2
    <3> QED
      BY <3>1, <3>3, <3>5, <2>4, <1>4
  <2> QED
    BY <2>2, <2>3, <2>4
<1>10. \A x \in L.used : M.size[x] = L.size[x]
  BY <1>4, <1>6
<1> QED
  BY <1>2, <1>4, <1>5, <1>7, <1>8, <1>9, <1>10 DEF s, e

(* The block at p itself, allocated or free.                               *)
Flag(L, p, flag) == Span(L, p, p + L.size[p], flag)

(* Flagging a block changes nothing but whether it is allocated.           *)
Flagged(L, p, flag, M) ==
  /\ Layout(M) /\ M.brk = L.brk /\ Tiles(M) = Tiles(L)
  /\ \A x \in Tiles(L) : M.size[x] = L.size[x]
  /\ \A x \in Tiles(L) : x # p => ((x \in M.used) <=> (x \in L.used))
  /\ (p \in M.used) <=> (flag = 1)

LEMMA FlagFacts ==
  ASSUME NEW L, Layout(L), NEW p \in Tiles(L), NEW flag \in {0, 1}, NEW M, M = Flag(L, p, flag)
  PROVE  Flagged(L, p, flag, M)
<1>1. /\ p \in Nat /\ L.size[p] \in Nat /\ L.size[p] >= 16 /\ p + L.size[p] \in Ends(L)
      /\ \A x \in Tiles(L) : x \in Nat /\ x \in Ends(L)
      /\ \A x \in Ends(L) : p < x => p + L.size[p] <= x
  BY LayoutFacts
<1>2. PICK e : e = p + L.size[p]
  OBVIOUS
<1>3. e \in Ends(L) /\ p < e /\ e - p = L.size[p] /\ M = Span(L, p, e, flag)
  BY <1>1, <1>2 DEF Flag
<1>4. Layout(M)
  BY <1>3, SpanLayout
<1>5. /\ M.brk = L.brk
      /\ Tiles(M) = {y \in Tiles(L) : y <= p \/ e <= y}
      /\ M.size[p] = e - p
      /\ \A x \in Tiles(M) : x # p => /\ M.size[x] = L.size[x]
                                      /\ (x \in M.used) <=> (x \in L.used)
      /\ (p \in M.used) <=> (flag = 1)
  BY <1>3, SpanParts
<1>6. Tiles(M) = Tiles(L)
  <2>1. \A y \in Tiles(L) : y <= p \/ e <= y
    BY <1>1, <1>2
  <2> QED
    BY <2>1, <1>5
<1> QED
  BY <1>3, <1>4, <1>5, <1>6 DEF Flagged

(* place.                                                                  *)
Put(L, p, n) == IF L.size[p] - n < 16 THEN Flag(L, p, 1) ELSE Cut(L, p, n)

(* Placing n bytes in a free block large enough, split or not.             *)
LEMMA PutFacts ==
  ASSUME NEW L, Layout(L), Apart(L), NEW p \in Gaps(L), NEW n \in Nat, n >= 16, n % 8 = 0,
         n <= L.size[p], NEW M, M = Put(L, p, n)
  PROVE  /\ Layout(M) /\ Apart(M) /\ M.brk = L.brk
         /\ M.used = L.used \cup {p} /\ M.size[p] >= n
         /\ \A x \in L.used : M.size[x] = L.size[x]
<1>1. /\ p \in Tiles(L) /\ p \notin L.used /\ p \in Nat /\ L.size[p] \in Nat
      /\ L.used \subseteq Tiles(L)
  BY LayoutFacts DEF Gaps
<1>2. CASE L.size[p] - n < 16
  <2>1. M = Flag(L, p, 1) /\ 1 \in {0, 1}
    BY <1>2 DEF Put
  <2>2. /\ Layout(M) /\ M.brk = L.brk /\ Tiles(M) = Tiles(L)
        /\ \A x \in Tiles(L) : M.size[x] = L.size[x]
        /\ \A x \in Tiles(L) : x # p => ((x \in M.used) <=> (x \in L.used))
        /\ (p \in M.used) <=> (1 = 1)
    <3>1. Flagged(L, p, 1, M)
      BY <2>1, <1>1, FlagFacts
    <3> QED
      BY <3>1 DEF Flagged
  <2>3. M.used = L.used \cup {p}
    BY <2>2, <1>1, LayoutFacts
  <2>4. Apart(M)
    BY <2>2, <2>3 DEF Apart, Gaps
  <2> QED
    BY <2>2, <2>3, <2>4, <1>1
<1>3. CASE ~(L.size[p] - n < 16)
  <2>1. M = Cut(L, p, n) /\ n < L.size[p] /\ L.size[p] - n >= 16
    BY <1>1, <1>3 DEF Put
  <2>2. Layout(M)
    BY <2>1, CutLayout
  <2>3. /\ M.brk = L.brk
        /\ Tiles(M) = Tiles(L) \cup {p + n} /\ p + n \notin Ends(L)
        /\ M.size[p] = n /\ M.size[p + n] = L.size[p] - n
        /\ \A x \in Tiles(L) : x # p => M.size[x] = L.size[x]
        /\ M.used = L.used \cup {p}
    BY <2>1, CutParts
  <2>4. ASSUME NEW x \in Gaps(M) PROVE x + M.size[x] \notin Gaps(M)
    <3>1. CASE x = p + n
      <4>1. x + M.size[x] = p + L.size[p]
        BY <3>1, <2>3, <1>1
      <4>2. p + L.size[p] \notin Gaps(L) /\ p + L.size[p] # p + n
        BY <2>1, <1>1 DEF Apart
      <4> QED
        BY <4>1, <4>2, <2>3 DEF Gaps
    <3>2. CASE x # p + n
      <4>1. x \in Gaps(L) /\ x # p
        BY <3>2, <2>3 DEF Gaps
      <4>2. x + M.size[x] = x + L.size[x] /\ x + L.size[x] \in Ends(L)
        BY <4>1, <2>3, LayoutFacts DEF Gaps
      <4>3. x + L.size[x] \notin Gaps(L)
        BY <4>1 DEF Apart
      <4> QED
        BY <4>2, <4>3, <2>3 DEF Gaps
    <3> QED
      BY <3>1, <3>2
  <2> QED
    BY <2>2, <2>3, <2>4, <1>1 DEF Apart
<1> QED
  BY <1>2, <1>3

(* mm_free.                                                                *)
FreeLayout(L, p) == Join(Flag(L, p, 0), p)

(* Freeing a block takes it, and it alone, from the allocated ones.        *)
LEMMA FreeFacts ==
  ASSUME NEW L, Layout(L), Apart(L), NEW p \in L.used, NEW M, M = FreeLayout(L, p)
  PROVE  /\ Layout(M) /\ Apart(M) /\ M.brk = L.brk
         /\ M.used = L.used \ {p}
         /\ \A x \in M.used : M.size[x] = L.size[x]
<1>1. p \in Tiles(L) /\ 0 \in {0, 1} /\ L.used \subseteq Tiles(L)
  BY LayoutFacts
<1>2. PICK N : N = Flag(L, p, 0)
  OBVIOUS
<1>3. /\ Layout(N) /\ N.brk = L.brk /\ Tiles(N) = Tiles(L)
      /\ \A x \in Tiles(L) : N.size[x] = L.size[x]
      /\ \A x \in Tiles(L) : x # p => ((x \in N.used) <=> (x \in L.used))
      /\ (p \in N.used) <=> (0 = 1)
  <2>1. Flagged(L, p, 0, N)
    BY <1>1, <1>2, FlagFacts
  <2> QED
    BY <2>1 DEF Flagged
<1>4. N.used = L.used \ {p} /\ p \in Gaps(N)
  BY <1>1, <1>3, LayoutFacts DEF Gaps
<1>5. ApartBut(N, p)
  <2>1. \A x \in Gaps(N) : x # p => x \in Gaps(L)
    BY <1>3, <1>4 DEF Gaps
  <2> QED
    BY <2>1, <1>3 DEF Apart, ApartBut, Gaps
<1>6. /\ Layout(M) /\ M.brk = N.brk /\ M.used = N.used
      /\ \A x \in N.used : M.size[x] = N.size[x]
      /\ Apart(M)
  BY <1>2, <1>3, <1>4, <1>5, JoinFacts DEF FreeLayout
<1> QED
  BY <1>1, <1>3, <1>4, <1>6

(* What mm_malloc puts the block into: the first free block that fits, or  *)
(* one from an extended heap.                                              *)
Fitting(L, n) == {p \in Gaps(L) : n <= L.size[p]}
Lowest(S)     == CHOOSE p \in S : \A q \in S : p <= q
Chunk(n)      == Larger(n, CHUNKSIZE)

Room(L, n) == Fitting(L, n) # {} \/ L.brk + Chunk(n) <= MAX_HEAP

Extended(L, n) == Join(Grow(L, n), L.brk)

HomeLayout(L, n) == IF Fitting(L, n) # {} THEN L ELSE Extended(L, Chunk(n))
HomeAt(L, n) == IF Fitting(L, n) # {} THEN Lowest(Fitting(L, n))
                ELSE Low(Grow(L, Chunk(n)), L.brk)
AllocLayout(L, n) == Put(HomeLayout(L, n), HomeAt(L, n), n)

(* A set of naturals has a least element.                                  *)
LEMMA LeastNat ==
  ASSUME NEW S, S \subseteq Nat, S # {}
  PROVE  \E m \in S : \A n \in S : m <= n
<1>1. \E m \in S : \A n \in S : ~(<<n, m>> \in OpToRel(<, Nat))
  BY WFMin, NatLessThanWellFounded
<1>2. PICK m \in S : \A n \in S : ~(<<n, m>> \in OpToRel(<, Nat))
  BY <1>1
<1>3. \A n \in S : <<n, m>> \in Nat \X Nat
  OBVIOUS
<1>4. \A n \in S : ~(n < m)
  BY <1>2, <1>3 DEF OpToRel
<1> QED
  BY <1>4

(* First fit finds the lowest free block that is large enough.             *)
LEMMA LowestFits ==
  ASSUME NEW L, Layout(L), NEW n, Fitting(L, n) # {}
  PROVE  /\ Lowest(Fitting(L, n)) \in Gaps(L) /\ n <= L.size[Lowest(Fitting(L, n))]
         /\ \A q \in Fitting(L, n) : Lowest(Fitting(L, n)) <= q
<1>1. Fitting(L, n) \subseteq Nat
  BY LayoutFacts DEF Fitting, Gaps
<1>2. \E m \in Fitting(L, n) : \A q \in Fitting(L, n) : m <= q
  BY <1>1, LeastNat
<1>3. Lowest(Fitting(L, n)) \in Fitting(L, n)
      /\ \A q \in Fitting(L, n) : Lowest(Fitting(L, n)) <= q
  BY <1>2 DEF Lowest
<1> QED
  BY <1>3 DEF Fitting

(* A larger heap, its new block merged with a free one before it.          *)
LEMMA ExtendedFacts ==
  ASSUME NEW L, Layout(L), Apart(L), NEW n \in Nat, n >= 16, n % 8 = 0, L.brk + n <= MAX_HEAP,
         NEW M, M = Extended(L, n), NEW p, p = Low(Grow(L, n), L.brk)
  PROVE  /\ Layout(M) /\ Apart(M) /\ M.brk = L.brk + n /\ M.used = L.used
         /\ p \in Gaps(M) /\ M.size[p] >= n
         /\ \A x \in L.used : M.size[x] = L.size[x]
<1>1. PICK N : N = Grow(L, n)
  OBVIOUS
<1>2. Layout(N)
  BY <1>1, GrowLayout
<1>3. /\ N.brk = L.brk + n /\ Tiles(N) = Ends(L) /\ N.size[L.brk] = n
      /\ \A x \in Tiles(L) : x # L.brk /\ N.size[x] = L.size[x]
      /\ N.used = L.used /\ L.brk \notin L.used
  BY <1>1, GrowParts
<1>4. L.brk \in Gaps(N) /\ L.used \subseteq Tiles(L) /\ Gaps(N) = Gaps(L) \cup {L.brk}
  BY <1>3, LayoutFacts DEF Gaps, Ends
<1>5. ApartBut(N, L.brk)
  <2>1. \A x \in Gaps(N) : x # L.brk => x \in Gaps(L) /\ N.size[x] = L.size[x]
    BY <1>3, <1>4 DEF Gaps
  <2> QED
    BY <2>1, <1>4 DEF Apart, ApartBut
<1>6. /\ Layout(M) /\ M.brk = N.brk /\ M.used = N.used
      /\ p \in Gaps(M) /\ M.size[p] >= N.size[L.brk]
      /\ \A x \in N.used : M.size[x] = N.size[x]
      /\ Apart(M)
  BY <1>1, <1>2, <1>4, <1>5, JoinFacts DEF Extended
<1> QED
  BY <1>3, <1>4, <1>6

(* Where there is room, the block placed in is free and large enough,      *)
(* found or made by extending the heap.                                    *)
LEMMA HomeFacts ==
  ASSUME NEW L, Layout(L), Apart(L), NEW n \in Nat, n >= 16, n % 8 = 0, Room(L, n),
         NEW M, M = HomeLayout(L, n), NEW p, p = HomeAt(L, n)
  PROVE  /\ Layout(M) /\ Apart(M) /\ M.brk >= L.brk /\ M.used = L.used
         /\ p \in Gaps(M) /\ n <= M.size[p]
         /\ \A x \in L.used : M.size[x] = L.size[x]
<1>1. L.brk \in Nat
  BY LayoutFacts
<1>2. CASE Fitting(L, n) # {}
  <2>1. M = L /\ p = Lowest(Fitting(L, n))
    BY <1>2 DEF HomeLayout, HomeAt
  <2> QED
    BY <1>1, <1>2, <2>1, LowestFits
<1>3. CASE Fitting(L, n) = {}
  <2>1. PICK k : k = Chunk(n)
    OBVIOUS
  <2>2. k \in Nat /\ k >= 16 /\ k % 8 = 0 /\ k >= n
    BY <2>1, HeapAssumption DEF Chunk, Larger
  <2>3. M = Extended(L, k) /\ p = Low(Grow(L, k), L.brk) /\ L.brk + k <= MAX_HEAP
    BY <1>3, <2>1 DEF HomeLayout, HomeAt, Room
  <2>4. /\ Layout(M) /\ Apart(M) /\ M.brk = L.brk + k /\ M.used = L.used
        /\ p \in Gaps(M) /\ M.size[p] >= k
        /\ \A x \in L.used : M.size[x] = L.size[x]
    BY <2>2, <2>3, ExtendedFacts
  <2>5. M.size[p] \in Nat
    BY <2>4, LayoutFacts DEF Gaps
  <2> QED
    BY <1>1, <2>2, <2>4, <2>5
<1> QED
  BY <1>2, <1>3

(* mm_malloc.                                                              *)
LEMMA AllocFacts ==
  ASSUME NEW L, Layout(L), Apart(L), NEW n \in Nat, n >= 16, n % 8 = 0, Room(L, n),
         NEW M, M = AllocLayout(L, n), NEW p, p = HomeAt(L, n)
  PROVE  /\ Layout(M) /\ Apart(M) /\ M.brk >= L.brk
         /\ M.used = L.used \cup {p} /\ p \notin L.used /\ M.size[p] >= n
         /\ \A x \in L.used : M.size[x] = L.size[x]
<1>1. PICK H : H = HomeLayout(L, n)
  OBVIOUS
<1>2. /\ Layout(H) /\ Apart(H) /\ H.brk >= L.brk /\ H.used = L.used
      /\ p \in Gaps(H) /\ n <= H.size[p]
      /\ \A x \in L.used : H.size[x] = L.size[x]
  BY <1>1, HomeFacts
<1>3. M = Put(H, p, n)
  BY <1>1 DEF AllocLayout
<1>4. /\ Layout(M) /\ Apart(M) /\ M.brk = H.brk
      /\ M.used = H.used \cup {p} /\ M.size[p] >= n
      /\ \A x \in H.used : M.size[x] = H.size[x]
  BY <1>2, <1>3, PutFacts
<1> QED
  BY <1>2, <1>4 DEF Gaps

(***************************************************************************)
(* Heaps whose boundary tags describe a layout.                            *)
(***************************************************************************)
Tags(h, L) ==
  /\ h \in Heap /\ Layout(L) /\ h.brk = L.brk
  /\ get(h, WSIZE) = pack(DSIZE, 1) /\ get(h, 2 * WSIZE) = pack(DSIZE, 1)
  /\ get(h, L.brk - WSIZE) = pack(0, 1)
  /\ \A p \in Tiles(L) : /\ get(h, p - WSIZE) = Tag(L, p)
                         /\ get(h, p + L.size[p] - DSIZE) = Tag(L, p)

(* The words between the tags of the block at p.                           *)
Payload(L, p) == {a \in Addr : p <= a /\ a + DSIZE < p + L.size[p]}

(* The payloads of the blocks B have kept their words.                     *)
Untouched(h, g, L, B) == \A p \in B : \A a \in Payload(L, p) : get(g, a) = get(h, a)

(* The tags of a layout lie in the heap.                                   *)
LEMMA TagAddrs ==
  ASSUME NEW L, Layout(L)
  PROVE  /\ WSIZE \in Addr /\ 2 * WSIZE \in Addr /\ L.brk - WSIZE \in Addr
         /\ \A p \in Tiles(L) : p - WSIZE \in Addr /\ p + L.size[p] - DSIZE \in Addr
<1>1. /\ L.brk \in Nat /\ L.brk % 8 = 0 /\ L.brk >= 16 /\ L.brk <= MAX_HEAP
  BY LayoutFacts DEF First, WSIZE
<1>2. 4 \in Addr /\ 8 \in Addr
  BY <1>1, HeapAssumption DEF Addr
<1>3. ASSUME NEW e \in Ends(L)
      PROVE  e - 4 \in Addr /\ e - 8 \in Addr
  <2>1. e \in Nat /\ e % 8 = 0 /\ e >= 16 /\ e <= MAX_HEAP
    BY LayoutFacts DEF First, WSIZE
  <2>2. (e - 4) % 4 = 0 /\ (e - 8) % 4 = 0 /\ e - 4 \in Nat /\ e - 8 \in Nat
    BY <2>1
  <2> QED
    BY <2>1, <2>2, HeapAssumption DEF Addr
<1>4. L.brk \in Ends(L) /\ \A p \in Tiles(L) : p \in Ends(L) /\ p + L.size[p] \in Ends(L)
  BY LayoutFacts
<1>5. L.brk - 4 \in Addr
  BY <1>3, <1>4
<1>6. ASSUME NEW p \in Tiles(L)
      PROVE  p - 4 \in Addr /\ p + L.size[p] - 8 \in Addr
  <2>1. PICK e \in Ends(L) : e = p + L.size[p]
    BY <1>4
  <2>2. p \in Ends(L) /\ p \in Nat /\ L.size[p] \in Nat
    BY LayoutFacts
  <2>3. p - 4 \in Addr
    BY <2>2, <1>3
  <2>4. e - 8 \in Addr
    BY <1>3
  <2> QED
    BY <2>1, <2>2, <2>3, <2>4
<1> QED
  BY <1>2, <1>5, <1>6 DEF WSIZE, DSIZE

(* mark writes the two tags of a block.                                    *)
Marked(h, a, b, v, g) ==
  /\ g \in Heap /\ g.brk = h.brk
  /\ get(g, a) = v /\ get(g, b) = v /\ WritesOnly(h, g, {a, b})

(* mark writes the header and the footer of a block and no other word.     *)
LEMMA MarkWrites ==
  ASSUME NEW h \in Heap, NEW p, NEW n, NEW flag, NEW a \in Addr, NEW b \in Addr,
         a = p - WSIZE, b = p + n - DSIZE, n + flag \in Nat
  PROVE  Marked(h, a, b, n + flag, mark(h, p, n, flag))
<1>1. PICK v \in Nat : v = n + flag
  OBVIOUS
<1>2. Stored(h, a, v, set(h, a, v))
  BY SetGet
<1>3. set(h, a, v) \in Heap
  BY <1>2 DEF Stored
<1>4. Stored(set(h, a, v), b, v, set(set(h, a, v), b, v))
  BY <1>3, SetGet
<1>5. mark(h, p, n, flag) = set(set(h, a, v), b, v)
  BY <1>1 DEF mark, get_hdrp, pack
<1>6. PICK g1, g : g1 = set(h, a, v) /\ g = mark(h, p, n, flag)
  OBVIOUS
<1>7. Stored(h, a, v, g1) /\ Stored(g1, b, v, g)
  BY <1>2, <1>4, <1>5, <1>6
<1>8. Marked(h, a, b, v, g)
  BY <1>7 DEF Stored, WritesOnly, Marked
<1> QED
  BY <1>1, <1>6, <1>8

(* One mark over blocks side by side makes the tags those of one block.    *)
LEMMA MarkSpan ==
  ASSUME NEW h, NEW L, Tags(h, L), NEW p \in Tiles(L), NEW e \in Ends(L), p < e,
         NEW flag \in {0, 1}, NEW g, g = mark(h, p, e - p, flag)
  PROVE  /\ Tags(g, Span(L, p, e, flag))
         /\ WritesOnly(h, g, {p - WSIZE, e - DSIZE})
<1>1. PICK M : M = Span(L, p, e, flag)
  OBVIOUS
<1>2. Layout(L) /\ h \in Heap
  BY DEF Tags
<1>3. Layout(M)
  BY <1>1, <1>2, SpanLayout
<1>4. /\ M.brk = L.brk
      /\ Tiles(M) = {y \in Tiles(L) : y <= p \/ e <= y}
      /\ M.size[p] = e - p
      /\ \A x \in Tiles(M) : x # p => /\ M.size[x] = L.size[x]
                                      /\ (x \in M.used) <=> (x \in L.used)
      /\ (p \in M.used) <=> (flag = 1)
  BY <1>1, <1>2, SpanParts
<1>5. /\ p \in Nat /\ e \in Nat /\ p >= 16 /\ e >= p + 16 /\ e <= L.brk /\ L.brk \in Nat
      /\ e - p \in Nat /\ p + (e - p) = e /\ p \in Tiles(M)
  <2>1. p \in Nat /\ e \in Nat /\ p >= 16 /\ e <= L.brk /\ L.brk \in Nat
    BY <1>2, LayoutFacts DEF First, WSIZE
  <2>2. L.size[p] \in Nat /\ L.size[p] >= 16 /\ p + L.size[p] <= e
    BY <1>2, LayoutFacts
  <2> QED
    BY <2>1, <2>2, <1>4
<1>6. /\ WSIZE \in Addr /\ 2 * WSIZE \in Addr /\ M.brk - WSIZE \in Addr
      /\ \A x \in Tiles(M) : x - WSIZE \in Addr /\ x + M.size[x] - DSIZE \in Addr
  BY <1>3, TagAddrs
<1>7. /\ p - WSIZE \in Addr /\ e - DSIZE \in Addr
      /\ e - DSIZE = p + (e - p) - DSIZE
  BY <1>4, <1>5, <1>6 DEF DSIZE
<1>8. /\ g \in Heap /\ g.brk = h.brk
      /\ get(g, p - WSIZE) = e - p + flag /\ get(g, e - DSIZE) = e - p + flag
      /\ WritesOnly(h, g, {p - WSIZE, e - DSIZE})
  <2>1. PICK n \in Nat, a \in Addr, b \in Addr : n = e - p /\ a = p - WSIZE /\ b = e - DSIZE
    BY <1>5, <1>7
  <2>2. b = p + n - DSIZE /\ g = mark(h, p, n, flag) /\ n + flag \in Nat
    BY <2>1, <1>7
  <2>3. Marked(h, a, b, n + flag, g)
    BY <2>1, <2>2, <1>2, MarkWrites
  <2> QED
    BY <2>1, <2>3 DEF Marked
<1>9. ASSUME NEW x \in Tiles(M)
      PROVE  /\ get(g, x - WSIZE) = Tag(M, x)
             /\ get(g, x + M.size[x] - DSIZE) = Tag(M, x)
  <2>1. CASE x = p
    <3>1. Tag(M, p) = e - p + flag
      BY <1>4 DEF Tag
    <3>2. p + M.size[p] - DSIZE = e - DSIZE
      BY <1>4, <1>7
    <3> QED
      BY <2>1, <3>1, <3>2, <1>8
  <2>2. CASE x # p
    <3>1. x \in Tiles(L) /\ x \in Nat /\ M.size[x] = L.size[x] /\ Tag(M, x) = Tag(L, x)
      BY <2>2, <1>2, <1>4, LayoutFacts DEF Tag
    <3>2. L.size[x] \in Nat /\ L.size[x] >= 16 /\ (x < p => x + L.size[x] <= p)
      BY <1>2, <3>1, LayoutFacts
    <3>3. x < p \/ e <= x
      BY <2>2, <3>1, <1>4, <1>5
    <3>4. x - WSIZE \notin {p - WSIZE, e - DSIZE} /\ x + L.size[x] - DSIZE \notin {p - WSIZE, e - DSIZE}
      BY <2>2, <3>1, <3>2, <3>3, <1>5 DEF WSIZE, DSIZE
    <3>5. get(h, x - WSIZE) = Tag(L, x) /\ get(h, x + L.size[x] - DSIZE) = Tag(L, x)
      BY <3>1 DEF Tags
    <3> QED
      BY <3>1, <3>4, <3>5, <1>6, <1>8 DEF WritesOnly
  <2> QED
    BY <2>1, <2>2
<1>10. /\ get(g, WSIZE) = pack(DSIZE, 1) /\ get(g, 2 * WSIZE) = pack(DSIZE, 1)
       /\ get(g, L.brk - WSIZE) = pack(0, 1)
  <2>1. /\ get(h, WSIZE) = pack(DSIZE, 1) /\ get(h, 2 * WSIZE) = pack(DSIZE, 1)
        /\ get(h, L.brk - WSIZE) = pack(0, 1)
    BY DEF Tags
  <2>2. \A a \in {WSIZE, 2 * WSIZE, L.brk - WSIZE} : a \notin {p - WSIZE, e - DSIZE}
    BY <1>5 DEF WSIZE, DSIZE
  <2> QED
    BY <2>1, <2>2, <1>4, <1>6, <1>8 DEF WritesOnly
<1> QED
  BY <1>1, <1>3, <1>4, <1>8, <1>9, <1>10 DEF Tags

(* The two marks of place's split make the tags those of two blocks.       *)
LEMMA MarkCut ==
  ASSUME NEW h, NEW L, Tags(h, L), NEW p \in Gaps(L), NEW n \in Nat, n >= 16, n % 8 = 0,
         L.size[p] - n >= 16, NEW g, g = mark(mark(h, p, n, 1), p + n, L.size[p] - n, 0)
  PROVE  /\ Tags(g, Cut(L, p, n))
         /\ WritesOnly(h, g, {p - WSIZE, p + n - DSIZE, p + n - 4, p + L.size[p] - DSIZE})
<1>1. PICK M : M = Cut(L, p, n)
  OBVIOUS
<1>2. Layout(L) /\ h \in Heap /\ p \in Tiles(L)
  BY DEF Tags, Gaps
<1>3. n < L.size[p] /\ L.size[p] - n >= 16 /\ L.size[p] \in Nat
  BY <1>2, LayoutFacts
<1>4. PICK m \in Nat : m >= 16 /\ n + m = L.size[p] /\ m = L.size[p] - n
  BY <1>3
<1>5. /\ p \in Nat /\ p >= 16 /\ L.size[p] \in Nat /\ n + m = L.size[p] /\ m >= 16
      /\ p + L.size[p] \in Ends(L) /\ p + L.size[p] <= L.brk /\ L.brk \in Nat
  <2>1. p \in Nat /\ p >= 16 /\ L.size[p] \in Nat /\ L.brk \in Nat
    BY <1>2, LayoutFacts DEF First, WSIZE
  <2>2. p + L.size[p] \in Ends(L) /\ p + L.size[p] <= L.brk
    BY <1>2, LayoutFacts
  <2> QED
    BY <2>1, <2>2, <1>4
<1>6. Layout(M)
  BY <1>3, <1>1, <1>2, CutLayout
<1>7. /\ M.brk = L.brk
      /\ Tiles(M) = Tiles(L) \cup {p + n} /\ p + n \notin Ends(L)
      /\ M.size[p] = n /\ M.size[p + n] = L.size[p] - n
      /\ \A x \in Tiles(L) : x # p => M.size[x] = L.size[x]
      /\ M.used = L.used \cup {p}
  BY <1>3, <1>1, <1>2, CutParts
<1>8. /\ WSIZE \in Addr /\ 2 * WSIZE \in Addr /\ M.brk - WSIZE \in Addr
      /\ \A x \in Tiles(M) : x - WSIZE \in Addr /\ x + M.size[x] - DSIZE \in Addr
  BY <1>6, TagAddrs
<1>9. PICK a \in Addr, b \in Addr, c \in Addr, d \in Addr :
        a = p - 4 /\ b = p + n - 8 /\ c = p + n - 4 /\ d = p + n + m - 8
  <2>1. /\ p - WSIZE \in Addr /\ p + M.size[p] - DSIZE \in Addr
        /\ (p + n) - WSIZE \in Addr /\ p + n + M.size[p + n] - DSIZE \in Addr
    BY <1>2, <1>7, <1>8
  <2> QED
    BY <2>1, <1>5, <1>7, <1>4 DEF WSIZE, DSIZE
<1>10. PICK k \in Nat : k = p + n
  BY <1>5
<1>11. PICK g1 : g1 = mark(h, p, n, 1)
  OBVIOUS
<1>12. Marked(h, a, b, n + 1, g1)
  <2>1. n + 1 \in Nat /\ a = p - WSIZE /\ b = p + n - DSIZE
    BY <1>9 DEF WSIZE, DSIZE
  <2> QED
    BY <2>1, <1>2, <1>11, MarkWrites
<1>13. Marked(g1, c, d, m + 0, g)
  <2>1. m + 0 \in Nat /\ c = k - WSIZE /\ d = k + m - DSIZE /\ g1 \in Heap
    BY <1>5, <1>9, <1>10, <1>12 DEF WSIZE, DSIZE, Marked
  <2> QED
    BY <2>1, <1>10, <1>11, <1>4, MarkWrites
<1>14. a # c /\ a # d /\ b # c /\ b # d
  BY <1>5, <1>9
<1>15. /\ g \in Heap /\ g.brk = h.brk
       /\ get(g, a) = n + 1 /\ get(g, b) = n + 1 /\ get(g, c) = m /\ get(g, d) = m
       /\ WritesOnly(h, g, {a, b, c, d})
  BY <1>12, <1>13, <1>14 DEF Marked, WritesOnly
<1>16. ASSUME NEW x \in Tiles(M)
       PROVE  /\ get(g, x - WSIZE) = Tag(M, x)
              /\ get(g, x + M.size[x] - DSIZE) = Tag(M, x)
  <2>1. CASE x = p
    <3>1. Tag(M, p) = n + 1
      BY <1>7 DEF Tag
    <3> QED
      BY <2>1, <3>1, <1>7, <1>9, <1>15 DEF WSIZE, DSIZE
  <2>2. CASE x = p + n
    <3>1. p + n \notin M.used
      BY <1>2, <1>5, <1>7, LayoutFacts DEF Ends
    <3>2. Tag(M, p + n) = m /\ M.size[p + n] = m
      BY <3>1, <1>7, <1>4 DEF Tag
    <3>3. p + n - WSIZE = c /\ p + n + m - DSIZE = d
      BY <1>5, <1>9 DEF WSIZE, DSIZE
    <3> QED
      BY <2>2, <3>2, <3>3, <1>5, <1>9, <1>15 DEF WSIZE, DSIZE
  <2>3. CASE x # p /\ x # p + n
    <3>1. x \in Tiles(L) /\ x \in Nat /\ x \in Ends(L) /\ M.size[x] = L.size[x] /\ Tag(M, x) = Tag(L, x)
      BY <2>3, <1>2, <1>7, LayoutFacts DEF Tag
    <3>2. L.size[x] \in Nat /\ L.size[x] >= 16
      BY <1>2, <3>1, LayoutFacts
    <3>3. (x < p => x + L.size[x] <= p) /\ (p < x => p + L.size[p] <= x)
      BY <1>2, <3>1, LayoutFacts
    <3>4. PICK y, z : y = x - WSIZE /\ z = x + L.size[x] - DSIZE
      OBVIOUS
    <3>5. y \notin {a, b, c, d} /\ z \notin {a, b, c, d}
      BY <2>3, <3>1, <3>2, <3>3, <3>4, <1>5, <1>9 DEF WSIZE, DSIZE
    <3>6. get(h, y) = Tag(L, x) /\ get(h, z) = Tag(L, x)
      BY <3>1, <3>4 DEF Tags
    <3>7. y \in Addr /\ z \in Addr
      BY <3>1, <3>4, <1>8
    <3> QED
      BY <3>1, <3>4, <3>5, <3>6, <3>7, <1>15 DEF WritesOnly
  <2> QED
    BY <2>1, <2>2, <2>3
<1>17. /\ get(g, WSIZE) = pack(DSIZE, 1) /\ get(g, 2 * WSIZE) = pack(DSIZE, 1)
       /\ get(g, L.brk - WSIZE) = pack(0, 1)
  <2>1. /\ get(h, WSIZE) = pack(DSIZE, 1) /\ get(h, 2 * WSIZE) = pack(DSIZE, 1)
        /\ get(h, L.brk - WSIZE) = pack(0, 1)
    BY DEF Tags
  <2>2. \A y \in {WSIZE, 2 * WSIZE, L.brk - WSIZE} : y \notin {a, b, c, d}
    BY <1>5, <1>9 DEF WSIZE
  <2> QED
    BY <2>1, <2>2, <1>7, <1>8, <1>15 DEF WritesOnly
<1>18. a = p - WSIZE /\ b = p + n - DSIZE /\ d = p + L.size[p] - DSIZE
  BY <1>5, <1>9 DEF WSIZE, DSIZE
<1> QED
  BY <1>1, <1>6, <1>7, <1>9, <1>15, <1>16, <1>17, <1>18 DEF Tags

(* extend_heap's tags and epilogue describe the grown layout.              *)
LEMMA MarkGrow ==
  ASSUME NEW h, NEW L, Tags(h, L), NEW n \in Nat, n >= 16, n % 8 = 0, L.brk + n <= MAX_HEAP,
         NEW g, g = fresh_block(h, n)
  PROVE  /\ Tags(g, Grow(L, n))
         /\ WritesOnly(h, g, {L.brk - WSIZE, L.brk + n - DSIZE, L.brk + n - 4})
<1>1. PICK M : M = Grow(L, n)
  OBVIOUS
<1>2. Layout(L) /\ h \in Heap /\ h.brk = L.brk
  BY DEF Tags
<1>3. Layout(M)
  BY <1>1, <1>2, GrowLayout
<1>4. /\ M.brk = L.brk + n /\ Tiles(M) = Ends(L) /\ M.size[L.brk] = n
      /\ \A x \in Tiles(L) : x # L.brk /\ M.size[x] = L.size[x]
      /\ M.used = L.used /\ L.brk \notin L.used
  BY <1>1, <1>2, GrowParts
<1>5. PICK p \in Nat : p = L.brk
  BY <1>2, LayoutFacts
<1>6. p >= 16 /\ p % 8 = 0 /\ p \in Tiles(M)
  BY <1>2, <1>4, <1>5, LayoutFacts DEF First, WSIZE
<1>7. /\ WSIZE \in Addr /\ 2 * WSIZE \in Addr /\ M.brk - WSIZE \in Addr
      /\ \A x \in Tiles(M) : x - WSIZE \in Addr /\ x + M.size[x] - DSIZE \in Addr
  BY <1>3, TagAddrs
<1>8. PICK a \in Addr, b \in Addr, c \in Addr : a = p - 4 /\ b = p + n - 8 /\ c = p + n - 4
  <2>1. p - WSIZE \in Addr /\ p + n - DSIZE \in Addr /\ (p + n) - WSIZE \in Addr
    BY <1>4, <1>5, <1>6, <1>7
  <2> QED
    BY <2>1 DEF WSIZE, DSIZE
<1>9. PICK h1, g1 : h1 = mem_sbrk(h, n) /\ g1 = mark(h1, p, n, 0)
  OBVIOUS
<1>10. h1 \in Heap /\ h1.brk = p + n /\ \A x \in Addr : get(h1, x) = get(h, x)
  BY <1>2, <1>5, <1>9 DEF mem_sbrk, Heap, get
<1>11. Marked(h1, a, b, n + 0, g1)
  <2>1. n + 0 \in Nat /\ a = p - WSIZE /\ b = p + n - DSIZE
    BY <1>8 DEF WSIZE, DSIZE
  <2> QED
    BY <2>1, <1>9, <1>10, MarkWrites
<1>12. g = set(g1, c, 1)
  <2>1. g = set(g1, next_blkp(g1, p) - WSIZE, pack(0, 1))
    BY <1>2, <1>5, <1>9 DEF fresh_block, get_hdrp
  <2>2. get(g1, p - WSIZE) = n + 0
    BY <1>8, <1>11 DEF Marked, WSIZE
  <2>3. ((n + 0) \div 8) * 8 = n
    BY Unpacked
  <2>4. next_blkp(g1, p) = p + n
    BY <2>2, <2>3 DEF next_blkp, unpack_size, get_hdrp
  <2>5. pack(0, 1) = 1 /\ (p + n) - WSIZE = c
    BY <1>8 DEF pack, WSIZE
  <2> QED
    BY <2>1, <2>4, <2>5
<1>13. Stored(g1, c, 1, g)
  <2>1. g1 \in Heap
    BY <1>11 DEF Marked
  <2> QED
    BY <2>1, <1>12, SetGet
<1>14. a # c /\ b # c /\ a # b
  BY <1>8
<1>15. /\ g \in Heap /\ g.brk = M.brk
       /\ get(g, a) = n /\ get(g, b) = n /\ get(g, c) = 1
       /\ WritesOnly(h, g, {a, b, c})
  <2>1. /\ g1 \in Heap /\ g1.brk = p + n
        /\ get(g1, a) = n /\ get(g1, b) = n /\ WritesOnly(h1, g1, {a, b})
    BY <1>10, <1>11 DEF Marked
  <2>2. g \in Heap /\ g.brk = p + n /\ get(g, c) = 1 /\ WritesOnly(g1, g, {c})
    BY <2>1, <1>13 DEF Stored
  <2>3. get(g, a) = n /\ get(g, b) = n
    BY <2>1, <2>2, <1>14 DEF WritesOnly
  <2>4. WritesOnly(h, g, {a, b, c})
    BY <2>1, <2>2, <1>10 DEF WritesOnly
  <2> QED
    BY <2>2, <2>3, <2>4, <1>4, <1>5
<1>16. ASSUME NEW x \in Tiles(M)
       PROVE  /\ get(g, x - WSIZE) = Tag(M, x)
              /\ get(g, x + M.size[x] - DSIZE) = Tag(M, x)
  <2>1. CASE x = p
    <3>1. Tag(M, p) = n
      BY <1>4, <1>5 DEF Tag
    <3> QED
      BY <2>1, <3>1, <1>4, <1>5, <1>8, <1>15 DEF WSIZE, DSIZE
  <2>2. CASE x # p
    <3>1. x \in Tiles(L) /\ x \in Nat /\ M.size[x] = L.size[x] /\ Tag(M, x) = Tag(L, x)
      BY <2>2, <1>2, <1>4, <1>5, LayoutFacts DEF Tag, Ends
    <3>2. L.size[x] \in Nat /\ L.size[x] >= 16 /\ x + L.size[x] <= p
      BY <1>2, <1>5, <3>1, LayoutFacts
    <3>3. PICK y, z : y = x - WSIZE /\ z = x + L.size[x] - DSIZE
      OBVIOUS
    <3>4. y \notin {a, b, c} /\ z \notin {a, b, c}
      BY <3>1, <3>2, <3>3, <1>8 DEF WSIZE, DSIZE
    <3>5. get(h, y) = Tag(L, x) /\ get(h, z) = Tag(L, x)
      BY <3>1, <3>3 DEF Tags
    <3>6. y \in Addr /\ z \in Addr
      BY <3>1, <3>3, <1>7
    <3> QED
      BY <3>1, <3>3, <3>4, <3>5, <3>6, <1>15 DEF WritesOnly
  <2> QED
    BY <2>1, <2>2
<1>17. /\ get(g, WSIZE) = pack(DSIZE, 1) /\ get(g, 2 * WSIZE) = pack(DSIZE, 1)
       /\ get(g, M.brk - WSIZE) = pack(0, 1)
  <2>1. get(h, WSIZE) = pack(DSIZE, 1) /\ get(h, 2 * WSIZE) = pack(DSIZE, 1)
    BY DEF Tags
  <2>2. \A y \in {WSIZE, 2 * WSIZE} : y \notin {a, b, c}
    BY <1>6, <1>8 DEF WSIZE
  <2>3. M.brk - WSIZE = c /\ pack(0, 1) = 1
    BY <1>4, <1>5, <1>8 DEF WSIZE, pack
  <2> QED
    BY <2>1, <2>2, <2>3, <1>7, <1>15 DEF WritesOnly
<1>18. a = p - WSIZE /\ b = p + n - DSIZE
  BY <1>8 DEF WSIZE, DSIZE
<1> QED
  BY <1>1, <1>3, <1>5, <1>8, <1>15, <1>16, <1>17, <1>18 DEF Tags

(* The heap of mm_init before it is extended: no block.                    *)
Empty == [size |-> [p \in {} |-> 0], used |-> {}, brk |-> First]

(* The tags mm_init writes describe a layout with no block.                *)
LEMMA Prologue ==
  ASSUME NEW h \in Heap, h.brk = 0, First <= MAX_HEAP
  PROVE  Tags(prologue(mem_sbrk(h, First), 0), Empty) /\ Apart(Empty)
<1>1. PICK h0 : h0 = mem_sbrk(h, First)
  OBVIOUS
<1>2. h0 \in Heap /\ h0.brk = 16
  BY <1>1 DEF mem_sbrk, Heap, First, WSIZE
<1>3. /\ Tiles(Empty) = {} /\ Ends(Empty) = {16} /\ Empty.brk = 16 /\ Empty.used = {}
      /\ Empty.size = [p \in Tiles(Empty) |-> Empty.size[p]]
  BY DEF Empty, Tiles, Ends, First, WSIZE
<1>4. IsEnd(Empty, 16)
  BY DEF IsEnd, First, WSIZE
<1>5. Layout(Empty)
  BY <1>3, <1>4 DEF Layout, First, WSIZE
<1>6. 0 \in Addr /\ 4 \in Addr /\ 8 \in Addr /\ 12 \in Addr
  BY HeapAssumption DEF Addr, First, WSIZE
<1>7. PICK h1, h2, h3, h4 : /\ h1 = set(h0, 0, 0) /\ h2 = set(h1, 4, 9)
                            /\ h3 = set(h2, 8, 9) /\ h4 = set(h3, 12, 1)
  OBVIOUS
<1>8. Stored(h0, 0, 0, h1)
  BY <1>2, <1>6, <1>7, SetGet
<1>9. Stored(h1, 4, 9, h2)
  BY <1>6, <1>7, <1>8, SetGet DEF Stored
<1>10. Stored(h2, 8, 9, h3)
  BY <1>6, <1>7, <1>9, SetGet DEF Stored
<1>11. Stored(h3, 12, 1, h4)
  BY <1>6, <1>7, <1>10, SetGet DEF Stored
<1>12. /\ h4 \in Heap /\ h4.brk = 16
       /\ get(h4, 4) = 9 /\ get(h4, 8) = 9 /\ get(h4, 12) = 1
  BY <1>2, <1>6, <1>8, <1>9, <1>10, <1>11 DEF Stored, WritesOnly
<1>13. prologue(h0, 0) = h4
  BY <1>7 DEF prologue, pack, WSIZE, DSIZE
<1>14. Tags(h4, Empty)
  BY <1>3, <1>5, <1>12 DEF Tags, pack, WSIZE, DSIZE
<1>15. Apart(Empty)
  BY <1>3 DEF Apart, Gaps
<1> QED
  BY <1>1, <1>13, <1>14, <1>15

(***************************************************************************)
(* What the routines read from the tags.                                   *)
(***************************************************************************)
LEMMA ReadTile ==
  ASSUME NEW h, NEW L, Tags(h, L), NEW p \in Tiles(L)
  PROVE  /\ size_of(h, p) = L.size[p] /\ next_blkp(h, p) = p + L.size[p]
         /\ is_free(h, p) <=> p \in Gaps(L)
         /\ unpack_alloc(h, get_ftrp(h, p)) = IF p \in L.used THEN 1 ELSE 0
         /\ unpack_size(h, p + L.size[p] - DSIZE) = L.size[p]
<1>1. PICK s \in Nat, f \in {0, 1} : s = L.size[p] /\ f = IF p \in L.used THEN 1 ELSE 0
  BY LayoutFacts DEF Tags
<1>2. s % 8 = 0
  BY <1>1, LayoutFacts DEF Tags
<1>3. ((s + f) \div 8) * 8 = s /\ (s + f) % 2 = f
  BY <1>2, Unpacked
<1>4. get(h, p - WSIZE) = s + f /\ get(h, p + s - DSIZE) = s + f
  BY <1>1 DEF Tags, Tag
<1>5. unpack_size(h, p - WSIZE) = s /\ unpack_alloc(h, p - WSIZE) = f
      /\ unpack_size(h, p + s - DSIZE) = s /\ unpack_alloc(h, p + s - DSIZE) = f
  BY <1>3, <1>4 DEF unpack_size, unpack_alloc
<1>6. f = 0 <=> p \in Gaps(L)
  BY <1>1 DEF Gaps
<1>7. size_of(h, p) = s /\ next_blkp(h, p) = p + s /\ get_ftrp(h, p) = p + s - DSIZE
      /\ (is_free(h, p) <=> f = 0)
  BY <1>5 DEF size_of, next_blkp, get_ftrp, is_free, get_hdrp
<1> QED
  BY <1>1, <1>5, <1>6, <1>7

(* The epilogue is read as an allocated block of size 0.                   *)
LEMMA ReadBreak ==
  ASSUME NEW h, NEW L, Tags(h, L)
  PROVE  size_of(h, L.brk) = 0 /\ ~is_free(h, L.brk)
<1>1. get(h, L.brk - WSIZE) = 0 + 1
  BY DEF Tags, pack
<1>2. ((0 + 1) \div 8) * 8 = 0 /\ (0 + 1) % 2 = 1
  BY Unpacked
<1> QED
  BY <1>1, <1>2 DEF size_of, is_free, unpack_size, unpack_alloc, get_hdrp

(* The header at the end of a block tells whether a free block follows.    *)
LEMMA ReadNext ==
  ASSUME NEW h, NEW L, Tags(h, L), NEW e \in Ends(L)
  PROVE  is_free(h, e) <=> e \in Gaps(L)
<1>1. CASE e \in Tiles(L)
  BY <1>1, ReadTile
<1>2. CASE e = L.brk
  <2>1. L.brk \notin Tiles(L)
    BY LayoutFacts DEF Tags
  <2> QED
    BY <1>2, <2>1, ReadBreak DEF Gaps
<1> QED
  BY <1>1, <1>2 DEF Ends

(* The word before a block's header is the footer of the block before it, *)
(* or the prologue's.                                                      *)
LEMMA ReadPrevious ==
  ASSUME NEW h, NEW L, Tags(h, L), NEW p \in Tiles(L),
         NEW prev_alloc, prev_alloc = unpack_alloc(h, get_ftrp(h, prev_blkp(h, p)))
  PROVE  /\ prev_alloc \in {0, 1}
         /\ prev_alloc = 1 => Low(L, p) = p
         /\ prev_alloc = 0 => prev_blkp(h, p) = Low(L, p) /\ Low(L, p) # p
<1>1. p \in Nat /\ IsEnd(L, p) /\ Layout(L)
  BY LayoutFacts DEF Tags
<1>2. CASE p = First
  <2>1. get(h, 8) = 8 + 1
    BY DEF Tags, WSIZE, DSIZE, pack
  <2>2. ((8 + 1) \div 8) * 8 = 8 /\ (8 + 1) % 2 = 1
    BY Unpacked
  <2>3. p - DSIZE = 8
    BY <1>2 DEF First, WSIZE, DSIZE
  <2>4. unpack_size(h, 8) = 8 /\ unpack_alloc(h, 8) = 1
    BY <2>1, <2>2 DEF unpack_size, unpack_alloc
  <2>5. prev_blkp(h, p) = 8
    BY <1>2, <2>3, <2>4 DEF prev_blkp, First, WSIZE
  <2>6. get(h, 4) = 8 + 1
    BY DEF Tags, WSIZE, DSIZE, pack
  <2>7. unpack_size(h, 4) = 8
    BY <2>2, <2>6 DEF unpack_size
  <2>8. get_ftrp(h, 8) = 8
    BY <2>7 DEF get_ftrp, get_hdrp, WSIZE, DSIZE
  <2>9. \A q \in Gaps(L) : q + L.size[q] # p
    BY <1>1, <1>2, LayoutFacts DEF Gaps
  <2>10. Low(L, p) = p
    BY <2>9 DEF Low
  <2> QED
    BY <2>4, <2>5, <2>8, <2>10
<1>3. CASE p # First
  <2>1. PICK q \in Tiles(L) : q + L.size[q] = p
    BY <1>1, <1>3 DEF IsEnd
  <2>2. q \in Nat /\ L.size[q] \in Nat /\ L.size[q] >= 16
    BY <1>1, LayoutFacts
  <2>3. q + L.size[q] - DSIZE = p - DSIZE
    BY <2>1, <2>2, <1>1 DEF DSIZE
  <2>4. unpack_size(h, p - DSIZE) = L.size[q] /\ prev_alloc = IF q \in L.used THEN 1 ELSE 0
    <3>1. /\ unpack_alloc(h, get_ftrp(h, q)) = IF q \in L.used THEN 1 ELSE 0
          /\ unpack_size(h, q + L.size[q] - DSIZE) = L.size[q]
      BY ReadTile
    <3>2. prev_blkp(h, p) = q
      BY <3>1, <2>1, <2>2, <2>3, <1>1 DEF prev_blkp
    <3> QED
      BY <3>1, <3>2, <2>3
  <2>5. prev_blkp(h, p) = q
    BY <2>1, <2>2, <2>4, <1>1 DEF prev_blkp
  <2>6. \A x \in Tiles(L) : x + L.size[x] = p => x = q
    <3> SUFFICES ASSUME NEW x \in Tiles(L), x + L.size[x] = p, x # q PROVE FALSE
      OBVIOUS
    <3>1. x \in Nat /\ x \in Ends(L) /\ q \in Ends(L) /\ L.size[x] \in Nat /\ L.size[x] >= 16
      BY <1>1, LayoutFacts
    <3>2. (x < q => x + L.size[x] <= q) /\ (q < x => q + L.size[q] <= x)
      BY <3>1, <1>1, LayoutFacts
    <3> QED
      BY <3>1, <3>2, <2>1, <2>2
  <2>7. CASE q \in Gaps(L)
    <3>1. Low(L, p) = q
      BY <2>1, <2>6, <2>7 DEF Low, Gaps
    <3> QED
      BY <3>1, <2>1, <2>2, <2>4, <2>5, <2>7 DEF Gaps
  <2>8. CASE q \notin Gaps(L)
    <3>1. Low(L, p) = p
      BY <2>6, <2>8 DEF Low, Gaps
    <3> QED
      BY <3>1, <2>4, <2>8 DEF Gaps
  <2> QED
    BY <2>7, <2>8
<1> QED
  BY <1>2, <1>3

(***************************************************************************)
(* The routines of mm_blk.c on a heap with a layout.                       *)
(***************************************************************************)
LEMMA SameOps ==
  ASSUME NEW h, NEW p, NEW n, NEW a
  PROVE  /\ blk!size_of(h, p) = size_of(h, p) /\ (blk!is_free(h, p) <=> is_free(h, p))
         /\ blk!prev_blkp(h, p) = prev_blkp(h, p) /\ blk!next_blkp(h, p) = next_blkp(h, p)
         /\ blk!get_ftrp(h, p) = get_ftrp(h, p) /\ blk!unpack_alloc(h, p) = unpack_alloc(h, p)
         /\ blk!mark(h, p, n, a) = mark(h, p, n, a)
         /\ blk!fresh_block(h, n) = fresh_block(h, n)
         /\ blk!mem_sbrk(h, n) = mem_sbrk(h, n) /\ blk!prologue(h, a) = prologue(h, a)
         /\ blk!Result(h, p) = Result(h, p)
BY DEF blk!size_of, size_of, blk!is_free, is_free, blk!prev_blkp, prev_blkp, blk!next_blkp,
       next_blkp, blk!get_ftrp, get_ftrp, blk!unpack_alloc, unpack_alloc, blk!unpack_size,
       unpack_size, blk!get_hdrp, get_hdrp, blk!get, get, blk!set, set, blk!mark, mark,
       blk!pack, pack, blk!WSIZE, WSIZE, blk!DSIZE, DSIZE, blk!mem_sbrk, mem_sbrk,
       blk!fresh_block, fresh_block, blk!prologue, prologue, blk!Result, Result

(* Tags outside the payload of another block.                              *)
LEMMA TagsOutside ==
  ASSUME NEW h, NEW g, NEW L, Layout(L), NEW p \in Tiles(L), NEW e \in Ends(L), p < e,
         WritesOnly(h, g, {p - WSIZE, e - DSIZE}),
         NEW B, B \subseteq Tiles(L), \A x \in B : x < p \/ e <= x
  PROVE  Untouched(h, g, L, B)
<1> SUFFICES ASSUME NEW x \in B, NEW a \in Payload(L, x)
             PROVE  a \notin {p - WSIZE, e - DSIZE} /\ a \in Addr
  BY DEF Untouched, WritesOnly
<1>1. /\ x \in Nat /\ p \in Nat /\ e \in Nat /\ L.size[x] \in Nat /\ L.size[p] \in Nat
      /\ L.size[p] >= 16 /\ p + L.size[p] <= e /\ p \in Ends(L) /\ x \in Tiles(L)
  BY LayoutFacts
<1>2. x < p => x + L.size[x] <= p
  BY <1>1, LayoutFacts
<1>3. a \in Nat /\ x <= a /\ a + 8 < x + L.size[x] /\ a \in Addr
  BY DEF Payload, Addr, DSIZE
<1>4. x < p \/ e <= x
  OBVIOUS
<1> QED
  BY <1>1, <1>2, <1>3, <1>4 DEF WSIZE, DSIZE

(* coalesce reads the neighbours from the tags alone, and what it does to  *)
(* the heap is Join; it writes in no allocated block.                      *)
LEMMA CoalesceJoins ==
  ASSUME NEW h, NEW L, Tags(h, L), NEW p \in Gaps(L), NEW r, r = blk!coalesce(h, p)
  PROVE  /\ r.ptr = Low(L, p) /\ Tags(r.heap, Join(L, p))
         /\ Untouched(h, r.heap, L, L.used)
<1>1. PICK prev_alloc : prev_alloc = unpack_alloc(h, get_ftrp(h, prev_blkp(h, p)))
  OBVIOUS
<1>2. Layout(L) /\ p \in Tiles(L)
  BY DEF Tags, Gaps
<1>3. /\ prev_alloc \in {0, 1}
      /\ prev_alloc = 1 => Low(L, p) = p
      /\ prev_alloc = 0 => prev_blkp(h, p) = Low(L, p) /\ Low(L, p) # p
  BY <1>1, <1>2, ReadPrevious
<1>4. /\ Low(L, p) \in Gaps(L) /\ High(L, p) \in Ends(L)
      /\ Low(L, p) = p \/ Low(L, p) + L.size[Low(L, p)] = p
      /\ Low(L, p) <= p /\ p + L.size[p] <= High(L, p)
      /\ \A x \in Tiles(L) : Low(L, p) <= x /\ x < High(L, p) => x \in Gaps(L)
  BY <1>2, LowHigh
<1>5. PICK s, m, e : s = Low(L, p) /\ m = p + L.size[p] /\ e = High(L, p)
  OBVIOUS
<1>6. /\ s \in Tiles(L) /\ s \in Nat /\ p \in Nat /\ L.size[p] \in Nat /\ L.size[s] \in Nat
      /\ L.size[p] >= 16 /\ m \in Ends(L) /\ m \in Nat /\ e \in Ends(L) /\ e \in Nat /\ s < e
  <2>1. s \in Tiles(L)
    BY <1>4, <1>5 DEF Gaps
  <2>2. /\ s \in Nat /\ p \in Nat /\ L.size[p] \in Nat /\ L.size[s] \in Nat
        /\ L.size[p] >= 16 /\ m \in Ends(L) /\ m \in Nat /\ e \in Ends(L) /\ e \in Nat
    BY <2>1, <1>2, <1>4, <1>5, LayoutFacts
  <2> QED
    BY <2>1, <2>2, <1>4, <1>5
<1>7. /\ size_of(h, p) = L.size[p] /\ next_blkp(h, p) = m /\ (is_free(h, m) <=> m \in Gaps(L))
      /\ m \in Gaps(L) => size_of(h, m) = L.size[m]
      /\ size_of(h, s) = L.size[s]
  BY <1>2, <1>5, <1>6, ReadTile, ReadNext DEF Gaps
<1>8. blk!coalesce(h, p) = merge(h, p, prev_alloc)
  BY <1>1, SameOps DEF blk!coalesce, blk!merge, merge
<1>9. \A x \in L.used : x \in Tiles(L) /\ (x < s \/ e <= x)
  <2>1. \A x \in L.used : x \in Tiles(L) /\ x \in Nat /\ x \notin Gaps(L)
    BY <1>2, LayoutFacts DEF Gaps
  <2> QED
    BY <2>1, <1>4, <1>5, <1>6
<1>10. CASE s = p /\ m \notin Gaps(L)
  <2>1. prev_alloc = 1
    BY <1>3, <1>5, <1>10
  <2>2. r = Result(h, p)
    BY <2>1, <1>7, <1>8, <1>10 DEF merge
  <2>3. r.heap = h /\ r.ptr = p
    BY <2>2 DEF Result
  <2>4. e = m
    BY <1>5, <1>10 DEF High
  <2>5. PICK M : M = Join(L, p)
    OBVIOUS
  <2>6. M = Flag(L, p, 0)
    BY <2>4, <2>5, <1>5, <1>10 DEF Join, Flag
  <2>7. /\ Layout(M) /\ M.brk = L.brk /\ Tiles(M) = Tiles(L)
        /\ \A x \in Tiles(L) : M.size[x] = L.size[x]
        /\ \A x \in Tiles(L) : x # p => ((x \in M.used) <=> (x \in L.used))
        /\ (p \in M.used) <=> (0 = 1)
    <3>1. 0 \in {0, 1} /\ Flagged(L, p, 0, M)
      BY <2>6, <1>2, FlagFacts
    <3> QED
      BY <3>1 DEF Flagged
  <2>8. \A x \in Tiles(M) : Tag(M, x) = Tag(L, x)
    BY <2>7 DEF Tag, Gaps
  <2>9. Tags(h, M)
    BY <2>7, <2>8 DEF Tags
  <2> QED
    BY <2>3, <2>5, <2>9, <1>5, <1>10 DEF Untouched
<1>11. CASE ~(s = p /\ m \notin Gaps(L))
  <2>1. s = IF prev_alloc = 1 THEN p ELSE prev_blkp(h, p)
    BY <1>3, <1>5
  <2>2. e - s = L.size[p] + (IF is_free(h, m) THEN size_of(h, m) ELSE 0)
                          + (IF prev_alloc = 1 THEN 0 ELSE size_of(h, s))
    <3>1. e = IF m \in Gaps(L) THEN m + L.size[m] ELSE m
      BY <1>5 DEF High
    <3>2. p - s = IF prev_alloc = 1 THEN 0 ELSE L.size[s]
      BY <1>3, <1>4, <1>5, <1>6
    <3>3. m \in Gaps(L) => L.size[m] \in Nat
      BY <1>2, LayoutFacts DEF Gaps
    <3> QED
      BY <3>1, <3>2, <3>3, <1>5, <1>6, <1>7
  <2>3. r = Result(mark(h, s, e - s, 0), s)
    <3>1. ~(s = p /\ ~is_free(h, m))
      BY <1>7, <1>11
    <3> QED
      BY <3>1, <2>1, <2>2, <1>3, <1>7, <1>8 DEF merge
  <2>4. r.heap = mark(h, s, e - s, 0) /\ r.ptr = s
    BY <2>3 DEF Result
  <2>5. PICK g : g = r.heap
    OBVIOUS
  <2>6. Tags(g, Span(L, s, e, 0)) /\ WritesOnly(h, g, {s - WSIZE, e - DSIZE})
    <3>1. 0 \in {0, 1} /\ g = mark(h, s, e - s, 0)
      BY <2>4, <2>5
    <3> QED
      BY <3>1, <1>6, MarkSpan
  <2>7. Untouched(h, g, L, L.used)
    BY <2>6, <1>2, <1>6, <1>9, TagsOutside
  <2> QED
    BY <2>4, <2>5, <2>6, <2>7, <1>5 DEF Join
<1> QED
  BY <1>10, <1>11

(* Two routines that leave the same payloads alone do so in turn.          *)
LEMMA UntouchedAgain ==
  ASSUME NEW h, NEW g, NEW k, NEW L, NEW M, NEW B, Untouched(h, g, L, B), Untouched(g, k, M, B),
         \A x \in B : M.size[x] = L.size[x]
  PROVE  Untouched(h, k, L, B)
BY DEF Untouched, Payload

(* The walk over the blocks, as far as K.                                  *)
IsWalk(h, p, K, w) ==
  w = [n \in 0..K |-> IF n = 0 THEN p
                      ELSE IF w[n - 1] = NULL THEN NULL ELSE blk!after(h, w[n - 1])]

(* The walk over the headers is defined for any number of steps.           *)
LEMMA WalkExists ==
  ASSUME NEW h, NEW p, NEW K \in Nat
  PROVE  \E w : IsWalk(h, p, K, w)
<1> DEFINE Without == {k \in Nat : ~\E w : IsWalk(h, p, k, w)}
<1>1. SUFFICES ASSUME Without # {} PROVE FALSE
  OBVIOUS
<1>2. PICK k \in Without : \A m \in Without : k <= m
  <2>1. Without \subseteq Nat
    OBVIOUS
  <2> QED
    BY <1>1, <2>1, LeastNat
<1>3. k # 0
  <2>1. IsWalk(h, p, 0, [n \in 0..0 |-> p])
    BY DEF IsWalk
  <2> QED
    BY <2>1
<1>4. k \in Nat /\ k - 1 \in Nat
  BY <1>3
<1>5. PICK w : IsWalk(h, p, k - 1, w)
  <2>1. k - 1 \notin Without
    BY <1>2, <1>4
  <2> QED
    BY <2>1, <1>4
<1>6. PICK v : v = [n \in 0..k |-> IF n = k
                                   THEN IF w[k - 1] = NULL THEN NULL ELSE blk!after(h, w[k - 1])
                                   ELSE w[n]]
  OBVIOUS
<1>7. /\ w[0] = p
      /\ \A n \in 1..(k - 1) : w[n] = IF w[n - 1] = NULL THEN NULL ELSE blk!after(h, w[n - 1])
  BY <1>4, <1>5 DEF IsWalk
<1>8. \A n \in 0..k :
        v[n] = IF n = 0 THEN p ELSE IF v[n - 1] = NULL THEN NULL ELSE blk!after(h, v[n - 1])
  <2> TAKE n \in 0..k
  <2>1. CASE n = 0
    BY <2>1, <1>3, <1>4, <1>6, <1>7
  <2>2. CASE n # 0 /\ n # k
    BY <2>2, <1>4, <1>6, <1>7
  <2>3. CASE n = k
    BY <2>3, <1>3, <1>4, <1>6
  <2> QED
    BY <2>1, <2>2, <2>3
<1>9. v = [n \in 0..k |-> IF n = 0 THEN p
                          ELSE IF v[n - 1] = NULL THEN NULL ELSE blk!after(h, v[n - 1])]
  BY <1>6, <1>8
<1>10. IsWalk(h, p, k, v)
  BY <1>9 DEF IsWalk
<1> QED
  BY <1>10

Far == MAX_HEAP \div (2 * DSIZE) + 2

(* BlockWalk is that walk.                                                 *)
LEMMA WalkUnfolds ==
  ASSUME NEW h, NEW p
  PROVE  IsWalk(h, p, Far, blk!BlockWalk(h, p))
<1>1. Far \in Nat
  BY HeapAssumption DEF Far, DSIZE
<1>2. PICK w : IsWalk(h, p, Far, w)
  BY <1>1, WalkExists
<1>3. blk!BlockWalk(h, p) =
        CHOOSE w1 : w1 = [n \in 0..Far |-> IF n = 0 THEN p
                       ELSE IF w1[n - 1] = NULL THEN NULL ELSE blk!after(h, w1[n - 1])]
  BY DEF blk!BlockWalk, blk!Steps, Far, blk!NULL, NULL, blk!DSIZE, DSIZE
<1> QED
  BY <1>2, <1>3 DEF IsWalk

(* Far steps are enough to walk over the heap.                             *)
LEMMA FarFacts ==
  /\ Far \in Nat /\ Far >= 2 /\ \A n \in Nat : 16 * n <= MAX_HEAP => n + 1 <= Far /\ n <= Far
<1>1. PICK q \in Nat, r \in 0..15 : MAX_HEAP = 16 * q + r /\ MAX_HEAP \div 16 = q
  BY HeapAssumption
<1>2. Far = q + 2
  BY <1>1 DEF Far, DSIZE
<1> QED
  BY <1>1, <1>2

(* One step of the walk, from the prologue on.                             *)
LEMMA AfterFacts ==
  ASSUME NEW h, NEW L, Tags(h, L)
  PROVE  /\ blk!after(h, 8) = First
         /\ \A p \in Tiles(L) : blk!after(h, p) = p + L.size[p]
         /\ blk!after(h, L.brk) = NULL
<1>1. get(h, 4) = 8 + 1
  BY DEF Tags, WSIZE, DSIZE, pack
<1>2. ((8 + 1) \div 8) * 8 = 8
  BY Unpacked
<1>3. size_of(h, 8) = 8 /\ next_blkp(h, 8) = 16
  BY <1>1, <1>2 DEF size_of, next_blkp, unpack_size, get_hdrp, WSIZE
<1>4. blk!after(h, 8) = First
  BY <1>3, SameOps DEF blk!after, First, WSIZE
<1>5. ASSUME NEW p \in Tiles(L) PROVE blk!after(h, p) = p + L.size[p]
  <2>1. size_of(h, p) = L.size[p] /\ next_blkp(h, p) = p + L.size[p]
    BY ReadTile
  <2>2. L.size[p] # 0
    BY LayoutFacts DEF Tags
  <2> QED
    BY <2>1, <2>2, SameOps DEF blk!after
<1>6. blk!after(h, L.brk) = NULL
  BY ReadBreak, SameOps DEF blk!after, blk!NULL, NULL
<1> QED
  BY <1>4, <1>5, <1>6

(* The walk follows the blocks of the layout.                              *)
LEMMA WalkSteps ==
  ASSUME NEW h, NEW L, Tags(h, L), NEW w, IsWalk(h, 8, Far, w)
  PROVE  /\ w[0] = 8 /\ w[1] = First
         /\ \A n \in 1..Far :
              /\ w[n] \in Ends(L) \cup {NULL}
              /\ n < Far => w[n + 1] = IF w[n] \in Tiles(L) THEN w[n] + L.size[w[n]] ELSE NULL
              /\ w[n] # NULL /\ n > 1 => w[n - 1] \in Tiles(L) /\ w[n] = w[n - 1] + L.size[w[n - 1]]
<1>1. Far \in Nat /\ Far >= 2
  BY FarFacts
<1>2. /\ w[0] = 8
      /\ \A n \in 1..Far : w[n] = IF w[n - 1] = NULL THEN NULL ELSE blk!after(h, w[n - 1])
  BY <1>1 DEF IsWalk
<1>3. w[1] = First
  BY <1>1, <1>2, AfterFacts DEF NULL
<1>4. L.brk \in Ends(L) /\ First \in Ends(L) /\ Layout(L) /\ NULL \notin Ends(L)
      /\ \A p \in Tiles(L) : p + L.size[p] \in Ends(L) /\ p # L.brk /\ p \in Ends(L)
  <2>1. Layout(L)
    BY DEF Tags
  <2>2. \A e \in Ends(L) : e >= 16
    BY <2>1, LayoutFacts DEF First, WSIZE
  <2> QED
    BY <2>1, <2>2, LayoutFacts DEF NULL
<1>5. \A x \in Ends(L) \cup {NULL} :
        (IF x = NULL THEN NULL ELSE blk!after(h, x)) =
          IF x \in Tiles(L) THEN x + L.size[x] ELSE NULL
  BY <1>4, AfterFacts DEF Ends
<1>6. \A n \in 1..Far : w[n] \in Ends(L) \cup {NULL}
  <2> DEFINE Bad == {n \in 1..Far : w[n] \notin Ends(L) \cup {NULL}}
  <2> SUFFICES ASSUME Bad # {} PROVE FALSE
    OBVIOUS
  <2>1. PICK n \in Bad : \A m \in Bad : n <= m
    <3>1. Bad \subseteq Nat
      BY <1>1
    <3> QED
      BY <3>1, LeastNat
  <2>2. n # 1
    BY <1>3, <1>4
  <2>3. n - 1 \in 1..Far /\ w[n - 1] \in Ends(L) \cup {NULL}
    BY <2>1, <2>2, <1>1
  <2>4. w[n] = IF w[n - 1] \in Tiles(L) THEN w[n - 1] + L.size[w[n - 1]] ELSE NULL
    BY <2>3, <1>2, <1>5
  <2> QED
    BY <2>4, <1>4
<1>7. ASSUME NEW n \in 1..Far, n < Far
      PROVE  w[n + 1] = IF w[n] \in Tiles(L) THEN w[n] + L.size[w[n]] ELSE NULL
  <2>1. n + 1 \in 1..Far /\ (n + 1) - 1 = n
    BY <1>1, <1>7
  <2> QED
    BY <2>1, <1>2, <1>5, <1>6
<1>8. ASSUME NEW n \in 1..Far, w[n] # NULL, n > 1
      PROVE  w[n - 1] \in Tiles(L) /\ w[n] = w[n - 1] + L.size[w[n - 1]]
  <2>1. n - 1 \in 1..Far /\ n - 1 < Far /\ (n - 1) + 1 = n
    BY <1>1, <1>8
  <2> QED
    BY <2>1, <1>7, <1>8
<1> QED
  BY <1>2, <1>3, <1>6, <1>7, <1>8

(* The walk comes to every block and to the break, and goes upwards.       *)
LEMMA WalkReaches ==
  ASSUME NEW h, NEW L, Tags(h, L), NEW w, IsWalk(h, 8, Far, w), NEW e \in Ends(L)
  PROVE  \E n \in 1..Far : w[n] = e
<1>1. /\ w[1] = First
      /\ \A n \in 1..Far : n < Far => w[n + 1] = IF w[n] \in Tiles(L) THEN w[n] + L.size[w[n]] ELSE NULL
  BY WalkSteps
<1>2. Layout(L) /\ \A d \in Ends(L) : d \in Nat /\ 16 <= d /\ d <= MAX_HEAP /\ IsEnd(L, d)
  BY LayoutFacts DEF Tags, First, WSIZE
<1> DEFINE Late == {d \in Ends(L) : ~\E n \in 1..Far : w[n] = d /\ 16 * n <= d}
<1>3. SUFFICES ASSUME Late # {} PROVE FALSE
  OBVIOUS
<1>4. PICK d \in Late : \A x \in Late : d <= x
  <2>1. Late \subseteq Nat
    BY <1>2
  <2> QED
    BY <1>3, <2>1, LeastNat
<1>5. d \in Ends(L) /\ d \in Nat /\ d <= MAX_HEAP
  BY <1>2, <1>4
<1>6. d # First
  BY <1>1, <1>4, FarFacts DEF First, WSIZE
<1>7. PICK q \in Tiles(L) : q + L.size[q] = d
  BY <1>2, <1>5, <1>6 DEF IsEnd
<1>8. q \in Ends(L) /\ q \in Nat /\ L.size[q] \in Nat /\ L.size[q] >= 16 /\ q < d
  BY <1>2, <1>7, LayoutFacts
<1>9. PICK n \in 1..Far : w[n] = q /\ 16 * n <= q
  BY <1>4, <1>8
<1>10. n + 1 \in 1..Far /\ 16 * (n + 1) <= d
  <2>1. n \in Nat /\ 1 <= n /\ 16 * n <= q
    BY <1>9, FarFacts
  <2>2. 16 * (n + 1) <= d /\ 16 * n <= MAX_HEAP
    BY <2>1, <1>5, <1>7, <1>8, HeapAssumption
  <2> QED
    BY <2>1, <2>2, FarFacts
<1>11. w[n + 1] = d
  BY <1>1, <1>7, <1>9, <1>10, FarFacts
<1> QED
  BY <1>4, <1>10, <1>11

(* The walk climbs: an address met later is a higher one.                  *)
LEMMA WalkClimbs ==
  ASSUME NEW h, NEW L, Tags(h, L), NEW w, IsWalk(h, 8, Far, w),
         NEW m \in 1..Far, NEW n \in 1..Far, m < n, w[n] # NULL
  PROVE  w[m] \in Tiles(L) /\ w[m] < w[n]
<1>1. \A k \in 1..Far : w[k] # NULL /\ k > 1 =>
        w[k - 1] \in Tiles(L) /\ w[k] = w[k - 1] + L.size[w[k - 1]]
  BY WalkSteps
<1>2. Layout(L) /\ \A x \in Tiles(L) : x \in Nat /\ L.size[x] \in Nat /\ L.size[x] >= 16 /\ x # NULL
  BY LayoutFacts DEF Tags, First, WSIZE, NULL
<1> DEFINE Bad == {k \in (m + 1)..Far : w[k] # NULL /\ ~(w[m] \in Tiles(L) /\ w[m] < w[k])}
<1>3. SUFFICES ASSUME Bad # {} PROVE FALSE
  BY FarFacts
<1>4. PICK k \in Bad : \A j \in Bad : k <= j
  <2>1. Bad \subseteq Nat
    BY FarFacts
  <2> QED
    BY <1>3, <2>1, LeastNat
<1>5. k \in 1..Far /\ k > 1 /\ k \in Nat /\ m \in Nat /\ m < k
  BY FarFacts
<1>6. w[k - 1] \in Tiles(L) /\ w[k] = w[k - 1] + L.size[w[k - 1]]
  BY <1>1, <1>4, <1>5
<1>7. w[k - 1] \in Nat /\ w[k - 1] # NULL /\ w[k - 1] < w[k]
  BY <1>2, <1>6
<1>8. CASE k - 1 = m
  BY <1>4, <1>6, <1>7, <1>8
<1>9. CASE k - 1 # m
  <2>1. k - 1 \in (m + 1)..Far /\ k - 1 \notin Bad
    BY <1>4, <1>5, <1>9, FarFacts
  <2>2. w[m] \in Tiles(L) /\ w[m] < w[k - 1]
    BY <2>1, <1>7
  <2>3. w[m] \in Nat /\ w[k] \in Nat
    BY <2>2, <1>2, <1>6
  <2> QED
    BY <2>2, <2>3, <1>4, <1>7
<1> QED
  BY <1>8, <1>9

(* first_fit finds the free block with the lowest address that fits.       *)
LEMMA FirstFits ==
  ASSUME NEW h, NEW L, Tags(h, L), NEW n \in Nat
  PROVE  blk!first_fit(h, n) = IF Fitting(L, n) = {} THEN NULL ELSE Lowest(Fitting(L, n))
<1>1. PICK w : w = blk!BlockWalk(h, 8)
  OBVIOUS
<1>2. IsWalk(h, 8, Far, w)
  BY <1>1, WalkUnfolds
<1>3. PICK elements : elements = {w[k] : k \in 0..Far} \ {NULL}
  OBVIOUS
<1>4. Layout(L) /\ Gaps(L) \subseteq Ends(L) /\ \A e \in Ends(L) : e # NULL /\ e \in Nat /\ e # 8
  BY LayoutFacts DEF Tags, First, WSIZE, NULL, Gaps, Ends
<1>5. Ends(L) \subseteq elements /\ elements \subseteq Ends(L) \cup {8}
  <2>1. \A e \in Ends(L) : \E k \in 1..Far : w[k] = e
    BY <1>2, WalkReaches
  <2>2. w[0] = 8 /\ \A k \in 1..Far : w[k] \in Ends(L) \cup {NULL}
    BY <1>2, WalkSteps
  <2> QED
    BY <2>1, <2>2, <1>3, <1>4, FarFacts
<1>6. ~is_free(h, 8)
  <2>1. get(h, 4) = 8 + 1
    BY DEF Tags, WSIZE, DSIZE, pack
  <2>2. (8 + 1) % 2 = 1
    OBVIOUS
  <2> QED
    BY <2>1, <2>2 DEF is_free, unpack_alloc, get_hdrp, WSIZE
<1>7. PICK fits : fits = {p \in elements : size_of(h, p) >= n /\ is_free(h, p)}
  OBVIOUS
<1>8. fits = Fitting(L, n)
  <2>1. \A p \in Ends(L) : is_free(h, p) <=> p \in Gaps(L)
    BY ReadNext
  <2>2. \A p \in Gaps(L) : size_of(h, p) = L.size[p] /\ L.size[p] \in Nat
    BY ReadTile, LayoutFacts DEF Gaps, Tags
  <2>3. \A p \in fits : p \in Fitting(L, n)
    BY <2>1, <2>2, <1>5, <1>6, <1>7 DEF Fitting
  <2>4. \A p \in Fitting(L, n) : p \in fits
    BY <2>1, <2>2, <1>4, <1>5, <1>7 DEF Fitting
  <2> QED
    BY <2>3, <2>4
<1>9. PICK found : found = {k \in 0..Far : w[k] # NULL /\ w[k] \in fits}
  OBVIOUS
<1>10. blk!first_fit(h, n) =
         IF found = {} THEN NULL ELSE w[CHOOSE k \in found : \A m \in found : k <= m]
  <2>1. blk!heap_listp = 8 /\ blk!NULL = NULL /\ blk!Steps = 0..Far
    BY DEF blk!heap_listp, blk!WSIZE, blk!NULL, NULL, blk!Steps, Far, blk!DSIZE, DSIZE
  <2>2. blk!Elements(w) = elements
    BY <2>1, <1>3 DEF blk!Elements
  <2>3. {p \in blk!Elements(w) : blk!size_of(h, p) >= n /\ blk!is_free(h, p)} = fits
    BY <2>2, <1>7, SameOps
  <2>4. blk!first_fit(h, n) = blk!FirstFit(w, fits)
    BY <2>1, <2>3, <1>1 DEF blk!first_fit
  <2> QED
    BY <2>1, <2>4, <1>9 DEF blk!FirstFit
<1>11. CASE Fitting(L, n) = {}
  BY <1>8, <1>9, <1>10, <1>11
<1>12. CASE Fitting(L, n) # {}
  <2>1. Fitting(L, n) \subseteq Gaps(L)
    BY DEF Fitting
  <2>2. \A p \in Fitting(L, n) : \E k \in found : k >= 1 /\ w[k] = p
    <3>1. \A p \in Fitting(L, n) : \E k \in 1..Far : w[k] = p
      BY <2>1, <1>2, <1>4, WalkReaches
    <3> QED
      BY <3>1, <2>1, <1>4, <1>8, <1>9, FarFacts
  <2>3. found # {} /\ found \subseteq Nat
    BY <2>2, <1>9, <1>12, FarFacts
  <2>4. PICK m \in found : \A k \in found : m <= k
    BY <2>3, LeastNat
  <2>5. (CHOOSE k \in found : \A j \in found : k <= j) = m
    <3>1. \A k \in found : (\A j \in found : k <= j) => k = m
      BY <2>3, <2>4
    <3> QED
      BY <3>1, <2>4
  <2>6. w[m] \in Fitting(L, n) /\ m \in 1..Far
    <3>1. w[m] \in Fitting(L, n) /\ m \in 0..Far
      BY <1>8, <1>9
    <3>2. m # 0
      BY <3>1, <2>1, <1>2, <1>4, WalkSteps
    <3> QED
      BY <3>1, <3>2, FarFacts
  <2>7. \A q \in Fitting(L, n) : w[m] <= q
    <3> SUFFICES ASSUME NEW q \in Fitting(L, n) PROVE w[m] <= q
      OBVIOUS
    <3>1. PICK k \in found : k >= 1 /\ w[k] = q
      BY <2>2
    <3>2. /\ k \in 1..Far /\ w[k] # NULL /\ m <= k /\ w[m] \in Nat /\ q \in Nat
          /\ k \in Nat /\ m \in Nat
      BY <3>1, <2>1, <2>3, <2>4, <2>6, <1>4, <1>9, FarFacts
    <3>3. m < k => w[m] < w[k]
      BY <3>2, <2>6, <1>2, WalkClimbs
    <3> QED
      BY <3>1, <3>2, <3>3, <2>6, FarFacts
  <2>8. Lowest(Fitting(L, n)) = w[m]
    <3>1. Lowest(Fitting(L, n)) \in Fitting(L, n)
          /\ \A q \in Fitting(L, n) : Lowest(Fitting(L, n)) <= q
      BY <2>6, <2>7 DEF Lowest
    <3>2. w[m] \in Nat /\ Lowest(Fitting(L, n)) \in Nat
      BY <3>1, <2>1, <2>6, <1>4
    <3> QED
      BY <3>1, <3>2, <2>6, <2>7
  <2> QED
    BY <2>3, <2>5, <2>8, <1>10, <1>12
<1> QED
  BY <1>11, <1>12

(* extend_heap.                                                            *)
LEMMA ExtendJoins ==
  ASSUME NEW h, NEW L, Tags(h, L), NEW n \in Nat, n >= 16, n % 8 = 0,
         NEW r, r = blk!extend_heap(h, n)
  PROVE  /\ L.brk + n <= MAX_HEAP =>
              /\ r.ptr = Low(Grow(L, n), L.brk) /\ Tags(r.heap, Extended(L, n))
              /\ Untouched(h, r.heap, L, L.used)
         /\ ~(L.brk + n <= MAX_HEAP) => r = Result(h, NULL)
<1>1. Layout(L) /\ h.brk = L.brk
  BY DEF Tags
<1>2. blk!HasRoom(h, n) <=> L.brk + n <= MAX_HEAP
  BY <1>1 DEF blk!HasRoom
<1>3. ASSUME L.brk + n <= MAX_HEAP
      PROVE  /\ r.ptr = Low(Grow(L, n), L.brk) /\ Tags(r.heap, Extended(L, n))
             /\ Untouched(h, r.heap, L, L.used)
  <2>1. PICK g, M : g = fresh_block(h, n) /\ M = Grow(L, n)
    OBVIOUS
  <2>2. r = blk!coalesce(g, L.brk)
    BY <2>1, <1>1, <1>2, <1>3, SameOps DEF blk!extend_heap
  <2>3. /\ Tags(g, M)
        /\ WritesOnly(h, g, {L.brk - WSIZE, L.brk + n - DSIZE, L.brk + n - 4})
    BY <2>1, <1>3, MarkGrow
  <2>4. /\ Tiles(M) = Ends(L) /\ M.used = L.used /\ L.brk \notin L.used
        /\ \A x \in Tiles(L) : x # L.brk /\ M.size[x] = L.size[x]
    BY <2>1, <1>1, GrowParts
  <2>5. L.brk \in Gaps(M) /\ L.used \subseteq Tiles(L)
    BY <2>4, <1>1, LayoutFacts DEF Gaps
  <2>6. /\ r.ptr = Low(M, L.brk) /\ Tags(r.heap, Join(M, L.brk))
        /\ Untouched(g, r.heap, M, M.used)
    BY <2>2, <2>3, <2>5, CoalesceJoins
  <2>7. Untouched(h, g, L, L.used)
    <3> SUFFICES ASSUME NEW x \in L.used, NEW a \in Payload(L, x)
                 PROVE  a \in Addr /\ a \notin {L.brk - WSIZE, L.brk + n - DSIZE, L.brk + n - 4}
      BY <2>3 DEF Untouched, WritesOnly
    <3>1. /\ x \in Nat /\ L.size[x] \in Nat /\ x + L.size[x] \in Ends(L)
          /\ x + L.size[x] <= L.brk /\ L.brk \in Nat
      BY <2>5, <1>1, LayoutFacts
    <3>2. a \in Nat /\ a \in Addr /\ a + 8 < x + L.size[x]
      BY DEF Payload, Addr, DSIZE
    <3> QED
      BY <3>1, <3>2 DEF WSIZE, DSIZE
  <2>8. Untouched(h, r.heap, L, L.used)
    BY <2>4, <2>5, <2>6, <2>7, UntouchedAgain
  <2> QED
    BY <2>1, <2>6, <2>8 DEF Extended
<1>4. ASSUME ~(L.brk + n <= MAX_HEAP) PROVE r = Result(h, NULL)
  BY <1>2, <1>4, SameOps DEF blk!extend_heap, blk!NULL, NULL
<1> QED
  BY <1>3, <1>4

(* mm_init, on a heap whose break has been reset.                          *)
StartLayout == Extended(Empty, CHUNKSIZE)

(* mm_init makes one free block of CHUNKSIZE bytes, or fails for want of   *)
(* heap and leaves a heap all the same.                                    *)
LEMMA InitStarts ==
  ASSUME NEW h \in Heap, h.brk = 0, NEW r, r = blk!mm_init(h)
  PROVE  /\ First + CHUNKSIZE <= MAX_HEAP =>
              /\ r.ptr # NULL /\ Tags(r.heap, StartLayout) /\ Apart(StartLayout)
              /\ StartLayout.used = {}
         /\ ~(First + CHUNKSIZE <= MAX_HEAP) => r.ptr = NULL
         /\ r.heap \in Heap /\ r.heap.brk <= MAX_HEAP /\ r.heap.brk % 8 = 0
<1>1. blk!HasRoom(h, 4 * WSIZE) <=> First <= MAX_HEAP
  BY DEF blk!HasRoom, First, WSIZE
<1>2. CASE First <= MAX_HEAP
  <2>1. PICK g : g = prologue(mem_sbrk(h, First), 0)
    OBVIOUS
  <2>2. Tags(g, Empty) /\ Apart(Empty)
    BY <2>1, <1>2, Prologue
  <2>3. r = blk!extend_heap(g, CHUNKSIZE)
    BY <2>1, <1>1, <1>2, SameOps DEF blk!mm_init, First, blk!WSIZE, WSIZE
  <2>4. Empty.brk = First /\ Empty.used = {} /\ Layout(Empty)
    BY <2>2 DEF Empty, Tags
  <2>5. CHUNKSIZE \in Nat /\ CHUNKSIZE >= 16 /\ CHUNKSIZE % 8 = 0
    BY HeapAssumption
  <2>6. /\ First + CHUNKSIZE <= MAX_HEAP =>
             /\ r.ptr = Low(Grow(Empty, CHUNKSIZE), First) /\ Tags(r.heap, StartLayout)
        /\ ~(First + CHUNKSIZE <= MAX_HEAP) => r = Result(g, NULL)
    BY <2>2, <2>3, <2>4, <2>5, ExtendJoins DEF StartLayout
  <2>7. ASSUME First + CHUNKSIZE <= MAX_HEAP
        PROVE  r.ptr # NULL /\ Apart(StartLayout) /\ StartLayout.used = {}
    <3>1. PICK p : p = Low(Grow(Empty, CHUNKSIZE), Empty.brk)
      OBVIOUS
    <3>2. /\ Layout(StartLayout) /\ Apart(StartLayout) /\ StartLayout.used = Empty.used
          /\ p \in Gaps(StartLayout)
      BY <3>1, <2>2, <2>4, <2>5, <2>7, ExtendedFacts DEF StartLayout
    <3>3. p >= 16
      BY <3>2, LayoutFacts DEF Gaps, First, WSIZE
    <3> QED
      BY <3>1, <3>2, <3>3, <2>4, <2>6, <2>7 DEF NULL
  <2>8. g \in Heap /\ g.brk = 16
    BY <2>2, <2>4 DEF Tags, First, WSIZE
  <2>9. CASE First + CHUNKSIZE <= MAX_HEAP
    <3>1. /\ r.heap \in Heap /\ Layout(StartLayout) /\ r.heap.brk = StartLayout.brk
      BY <2>6, <2>9 DEF Tags
    <3>2. StartLayout.brk \in Ends(StartLayout)
      BY <3>1, LayoutFacts
    <3>3. StartLayout.brk <= MAX_HEAP /\ StartLayout.brk % 8 = 0
      BY <3>1, <3>2, LayoutFacts
    <3> QED
      BY <3>1, <3>3, <2>6, <2>7, <2>9
  <2>10. CASE ~(First + CHUNKSIZE <= MAX_HEAP)
    <3>1. r.heap = g /\ r.ptr = NULL
      BY <2>6, <2>10 DEF Result
    <3> QED
      BY <3>1, <2>8, <2>10, <1>2 DEF First, WSIZE
  <2> QED
    BY <2>9, <2>10
<1>3. CASE ~(First <= MAX_HEAP)
  <2>1. r = Result(h, NULL)
    BY <1>1, <1>3, SameOps DEF blk!mm_init, blk!NULL, NULL, blk!WSIZE, WSIZE
  <2>2. ~(First + CHUNKSIZE <= MAX_HEAP)
    BY <1>3, HeapAssumption DEF First, WSIZE
  <2> QED
    BY <2>1, <2>2, HeapAssumption DEF Result
<1> QED
  BY <1>2, <1>3

(* place.                                                                  *)
LEMMA PlacePuts ==
  ASSUME NEW h, NEW L, Tags(h, L), NEW p \in Gaps(L), NEW n \in Nat, n >= 16, n % 8 = 0,
         n <= L.size[p], NEW g, g = blk!place(h, p, n)
  PROVE  Tags(g, Put(L, p, n)) /\ Untouched(h, g, L, L.used)
<1>1. Layout(L) /\ p \in Tiles(L) /\ p \notin L.used
  BY DEF Tags, Gaps
<1>2. /\ p \in Nat /\ L.size[p] \in Nat /\ p \in Ends(L) /\ p + L.size[p] \in Ends(L)
      /\ L.size[p] >= 16 /\ L.used \subseteq Tiles(L)
  BY <1>1, LayoutFacts
<1>3. size_of(h, p) = L.size[p]
  BY <1>1, ReadTile
<1>4. \A x \in L.used : x < p \/ p + L.size[p] <= x
  <2>1. \A x \in L.used : x \in Tiles(L) /\ x \in Nat /\ x \in Ends(L) /\ x # p
    BY <1>1, LayoutFacts
  <2> QED
    BY <2>1, <1>1, <1>2, LayoutFacts
<1>5. CASE L.size[p] - n < 16
  <2>1. g = mark(h, p, L.size[p], 1)
    BY <1>3, <1>5, SameOps DEF blk!place, blk!DSIZE
  <2>2. PICK e \in Ends(L) : e = p + L.size[p]
    BY <1>2
  <2>3. p < e /\ e - p = L.size[p] /\ 1 \in {0, 1} /\ g = mark(h, p, e - p, 1)
    BY <2>1, <2>2, <1>2
  <2>4. Tags(g, Span(L, p, e, 1)) /\ WritesOnly(h, g, {p - WSIZE, e - DSIZE})
    BY <2>3, <1>1, MarkSpan
  <2>5. Untouched(h, g, L, L.used)
    BY <2>2, <2>3, <2>4, <1>1, <1>2, <1>4, TagsOutside
  <2> QED
    BY <2>2, <2>4, <2>5, <1>5 DEF Put, Flag
<1>6. CASE ~(L.size[p] - n < 16)
  <2>1. L.size[p] - n >= 16
    BY <1>2, <1>6
  <2>2. g = mark(mark(h, p, n, 1), p + n, L.size[p] - n, 0)
    BY <1>3, <1>6, SameOps DEF blk!place, blk!DSIZE
  <2>3. /\ Tags(g, Cut(L, p, n))
        /\ WritesOnly(h, g, {p - WSIZE, p + n - DSIZE, p + n - 4, p + L.size[p] - DSIZE})
    BY <2>1, <2>2, MarkCut
  <2>4. Untouched(h, g, L, L.used)
    <3> SUFFICES ASSUME NEW x \in L.used, NEW a \in Payload(L, x)
                 PROVE  /\ a \in Addr
                        /\ a \notin {p - WSIZE, p + n - DSIZE, p + n - 4, p + L.size[p] - DSIZE}
      BY <2>3 DEF Untouched, WritesOnly
    <3>1. x \in Tiles(L) /\ x \in Nat /\ L.size[x] \in Nat /\ (x < p => x + L.size[x] <= p)
      BY <1>1, <1>2, LayoutFacts
    <3>2. a \in Nat /\ a \in Addr /\ x <= a /\ a + 8 < x + L.size[x]
      BY DEF Payload, Addr, DSIZE
    <3>3. x < p \/ p + L.size[p] <= x
      BY <1>4
    <3> QED
      BY <3>1, <3>2, <3>3, <2>1, <1>2 DEF WSIZE, DSIZE
  <2> QED
    BY <2>3, <2>4, <1>6 DEF Put
<1> QED
  BY <1>5, <1>6

(* The bytes of the block that serves a request.                           *)
Need(size) == ALIGN(size + DSIZE)

(* The block for a request has room for the payload and both tags.         *)
LEMMA NeedFacts ==
  ASSUME NEW size \in Nat, size > 0
  PROVE  Need(size) \in Nat /\ Need(size) >= 16 /\ Need(size) % 8 = 0 /\ size + 8 <= Need(size)
<1>1. PICK q \in Nat, r \in 0..7 : size + 15 = 8 * q + r /\ (size + 15) \div 8 = q
  OBVIOUS
<1>2. Need(size) = q * 8
  BY <1>1 DEF Need, ALIGN, DSIZE
<1> QED
  BY <1>1, <1>2

(* mm_malloc serves every request there is room for, at the address and    *)
(* with the layout planned, and writes in no allocated block; otherwise it *)
(* changes nothing.                                                        *)
LEMMA MallocAllocates ==
  ASSUME NEW h, NEW L, Tags(h, L), Apart(L), NEW size \in Nat, size > 0,
         NEW n, n = Need(size), NEW r, r = blk!mm_malloc(h, size)
  PROVE  /\ Room(L, n) =>
              /\ r.ptr = HomeAt(L, n) /\ Tags(r.heap, AllocLayout(L, n))
              /\ Untouched(h, r.heap, L, L.used)
         /\ ~Room(L, n) => r = Result(h, NULL)
<1>1. n \in Nat /\ n >= 16 /\ n % 8 = 0
  BY NeedFacts
<1>2. PICK c : c = Chunk(n)
  OBVIOUS
<1>3. c \in Nat /\ c >= 16 /\ c % 8 = 0
  BY <1>1, <1>2, HeapAssumption DEF Chunk, Larger
<1>4. PICK found, ext : found = blk!first_fit(h, n) /\ ext = blk!extend_heap(h, c)
  OBVIOUS
<1>5. r = blk!placed(blk!serve(h, found, ext), n)
  BY <1>2, <1>4 DEF blk!mm_malloc, blk!ALIGN, blk!DSIZE, Need, ALIGN, DSIZE, Chunk, Larger,
                    blk!Larger
<1>6. found = IF Fitting(L, n) = {} THEN NULL ELSE Lowest(Fitting(L, n))
  BY <1>1, <1>4, FirstFits
<1>7. /\ L.brk + c <= MAX_HEAP =>
           /\ ext.ptr = Low(Grow(L, c), L.brk) /\ Tags(ext.heap, Extended(L, c))
           /\ Untouched(h, ext.heap, L, L.used)
      /\ ~(L.brk + c <= MAX_HEAP) => ext = Result(h, NULL)
  BY <1>3, <1>4, ExtendJoins
<1>8. PICK got : got = blk!serve(h, found, ext)
  OBVIOUS
<1>9. ASSUME Room(L, n)
      PROVE  /\ r.ptr = HomeAt(L, n) /\ Tags(r.heap, AllocLayout(L, n))
             /\ Untouched(h, r.heap, L, L.used)
  <2>1. PICK H, p : H = HomeLayout(L, n) /\ p = HomeAt(L, n)
    OBVIOUS
  <2>2. Layout(L)
    BY DEF Tags
  <2>3. /\ Layout(H) /\ Apart(H) /\ H.used = L.used
        /\ p \in Gaps(H) /\ n <= H.size[p]
        /\ \A x \in L.used : H.size[x] = L.size[x]
    BY <2>1, <2>2, <1>1, <1>9, HomeFacts
  <2>4. p # NULL
    BY <2>3, LayoutFacts DEF Gaps, NULL, First, WSIZE
  <2>5. got.ptr = p /\ Tags(got.heap, H) /\ Untouched(h, got.heap, L, L.used)
    <3>1. CASE Fitting(L, n) # {}
      <4>1. found = p /\ H = L
        BY <3>1, <2>1, <1>6 DEF HomeLayout, HomeAt
      <4>2. got = Result(h, p)
        BY <4>1, <2>4, <1>8, SameOps DEF blk!serve, blk!NULL, NULL
      <4> QED
        BY <4>1, <4>2 DEF Result, Untouched
    <3>2. CASE Fitting(L, n) = {}
      <4>1. L.brk + c <= MAX_HEAP
        BY <3>2, <1>2, <1>9 DEF Room
      <4>2. got = ext
        BY <3>2, <1>6, <1>8 DEF blk!serve, blk!NULL, NULL
      <4> QED
        BY <3>2, <4>1, <4>2, <2>1, <1>2, <1>7 DEF HomeLayout, HomeAt
    <3> QED
      BY <3>1, <3>2
  <2>6. PICK g : g = blk!place(got.heap, p, n)
    OBVIOUS
  <2>7. r = Result(g, p)
    BY <2>4, <2>5, <2>6, <1>5, <1>8, SameOps DEF blk!placed, blk!NULL, NULL
  <2>8. Tags(g, Put(H, p, n)) /\ Untouched(got.heap, g, H, H.used)
    BY <2>3, <2>5, <2>6, <1>1, PlacePuts
  <2>9. Untouched(h, g, L, L.used)
    BY <2>3, <2>5, <2>8, UntouchedAgain
  <2> QED
    BY <2>1, <2>7, <2>8, <2>9 DEF Result, AllocLayout
<1>10. ASSUME ~Room(L, n) PROVE r = Result(h, NULL)
  <2>1. found = NULL /\ ext = Result(h, NULL)
    BY <1>2, <1>6, <1>7, <1>10 DEF Room
  <2>2. blk!NULL = NULL
    BY DEF blk!NULL, NULL
  <2>3. got = Result(h, NULL)
    BY <2>1, <2>2, <1>8 DEF blk!serve
  <2> QED
    BY <2>2, <2>3, <1>5, <1>8 DEF blk!placed, Result
<1> QED
  BY <1>9, <1>10

(* mm_free makes the layout FreeLayout and writes in no other block that   *)
(* is allocated.                                                           *)
LEMMA FreeFrees ==
  ASSUME NEW h, NEW L, Tags(h, L), Apart(L), NEW p \in L.used, NEW g, g = blk!mm_free(h, p)
  PROVE  Tags(g, FreeLayout(L, p)) /\ Untouched(h, g, L, L.used \ {p})
<1>1. Layout(L) /\ p \in Tiles(L)
  BY LayoutFacts DEF Tags
<1>2. /\ p \in Nat /\ p >= 16 /\ L.size[p] \in Nat /\ p \in Ends(L) /\ p + L.size[p] \in Ends(L)
      /\ L.size[p] >= 16 /\ L.used \subseteq Tiles(L)
  BY <1>1, LayoutFacts DEF First, WSIZE
<1>3. size_of(h, p) = L.size[p]
  BY <1>1, ReadTile
<1>4. PICK k, M : k = mark(h, p, L.size[p], 0) /\ M = Flag(L, p, 0)
  OBVIOUS
<1>5. PICK r : r = blk!coalesce(k, p)
  OBVIOUS
<1>6. g = r.heap
  BY <1>5, <1>2, <1>3, <1>4, SameOps DEF blk!mm_free, blk!NULL
<1>7. PICK e \in Ends(L) : e = p + L.size[p]
  BY <1>2
<1>8. p < e /\ e - p = L.size[p] /\ 0 \in {0, 1} /\ k = mark(h, p, e - p, 0)
  BY <1>2, <1>4, <1>7
<1>9. Tags(k, Span(L, p, e, 0)) /\ WritesOnly(h, k, {p - WSIZE, e - DSIZE})
  BY <1>1, <1>8, MarkSpan
<1>10. Tags(k, M)
  BY <1>4, <1>7, <1>9 DEF Flag
<1>11. /\ Layout(M) /\ Tiles(M) = Tiles(L) /\ \A x \in Tiles(L) : M.size[x] = L.size[x]
       /\ \A x \in Tiles(L) : x # p => ((x \in M.used) <=> (x \in L.used))
       /\ (p \in M.used) <=> (0 = 1)
  <2>1. Flagged(L, p, 0, M)
    BY <1>1, <1>4, <1>8, FlagFacts
  <2> QED
    BY <2>1 DEF Flagged
<1>12. p \in Gaps(M) /\ M.used = L.used \ {p}
  BY <1>1, <1>11, LayoutFacts DEF Gaps
<1>13. Tags(g, Join(M, p)) /\ Untouched(k, g, M, M.used)
  <2>1. Tags(r.heap, Join(M, p)) /\ Untouched(k, r.heap, M, M.used)
    BY <1>10, <1>12, <1>5, CoalesceJoins
  <2> QED
    BY <2>1, <1>6
<1>14. \A x \in M.used : x < p \/ e <= x
  <2>1. \A x \in M.used : x \in Tiles(L) /\ x \in Nat /\ x \in Ends(L) /\ x # p
    BY <1>1, <1>12, LayoutFacts
  <2> QED
    BY <2>1, <1>1, <1>2, <1>7, LayoutFacts
<1>15. Untouched(h, k, L, M.used)
  BY <1>1, <1>2, <1>8, <1>9, <1>12, <1>14, TagsOutside
<1>16. Untouched(h, g, L, M.used)
  BY <1>2, <1>11, <1>12, <1>13, <1>15, UntouchedAgain
<1> QED
  BY <1>4, <1>12, <1>13, <1>16 DEF FreeLayout

(***************************************************************************)
(* memcpy and memset, and mm_realloc, which copies.                        *)
(***************************************************************************)
LEMMA CopyGet ==
  ASSUME NEW h \in Heap, NEW to \in Addr, NEW from \in Addr, NEW bytes \in Nat, bytes % 4 = 0,
         to + bytes <= MAX_HEAP, from + bytes <= MAX_HEAP,
         NEW g, g = blk!memcpy(h, to, from, bytes)
  PROVE  /\ g \in Heap /\ g.brk = h.brk
         /\ \A a \in Addr : get(g, a) = IF to <= a /\ a < to + bytes THEN get(h, a - to + from)
                                        ELSE get(h, a)
<1>1. PICK t \in Nat, f \in Nat, b \in Nat, m \in Nat :
        /\ to = 4 * t /\ from = 4 * f /\ bytes = 4 * b /\ MAX_HEAP = 4 * m
        /\ to \div 4 = t /\ from \div 4 = f /\ (to + bytes) \div 4 = t + b
        /\ MAX_HEAP \div 4 = m
  <2>1. /\ to = 4 * (to \div 4) /\ from = 4 * (from \div 4) /\ bytes = 4 * (bytes \div 4)
        /\ to \div 4 \in Nat /\ from \div 4 \in Nat /\ bytes \div 4 \in Nat
    BY DEF Addr
  <2>2. MAX_HEAP = 4 * (MAX_HEAP \div 4) /\ MAX_HEAP \div 4 \in Nat
    BY HeapAssumption
  <2>3. (to + bytes) \div 4 = to \div 4 + bytes \div 4
    BY <2>1
  <2> QED
    BY <2>1, <2>2, <2>3
<1>2. Word = 0..(m - 1) /\ t + b <= m /\ f + b <= m
  BY <1>1 DEF Word, WSIZE
<1>3. g = [h EXCEPT !.mem = [w \in Word |->
             IF w \in t..((t + b) - 1) THEN h.mem[w - t + f] ELSE h.mem[w]]]
  <2>1. g = [h EXCEPT !.mem = [w \in Word |->
               IF w \in (to \div 4)..((to + bytes) \div 4 - 1)
               THEN h.mem[w - to \div 4 + from \div 4] ELSE h.mem[w]]]
    BY Zenon DEF blk!memcpy, blk!Word, Word, blk!WSIZE, WSIZE
  <2>2. to \div 4 = t /\ from \div 4 = f /\ (to + bytes) \div 4 = t + b
    BY <1>1
  <2> QED
    BY <2>1, <2>2, Zenon
<1>4. \A w \in Word : w \in t..((t + b) - 1) => w - t + f \in Word
  BY <1>2
<1>5. g \in Heap /\ g.brk = h.brk
        /\ g.mem = [w \in Word |-> IF w \in t..((t + b) - 1) THEN h.mem[w - t + f] ELSE h.mem[w]]
  BY <1>3, <1>4 DEF Heap
<1>6. ASSUME NEW a \in Addr
      PROVE  get(g, a) = IF to <= a /\ a < to + bytes THEN get(h, a - to + from)
                         ELSE get(h, a)
  <2>1. PICK w \in Word : a = 4 * w /\ a \div 4 = w
    BY WordOf DEF WSIZE
  <2>2. w \in Nat
    BY <1>2
  <2>3. (to <= a /\ a < to + bytes) <=> w \in t..((t + b) - 1)
    BY <1>1, <2>1, <2>2
  <2>4. w \in t..((t + b) - 1) => (a - to + from) \div 4 = w - t + f
    <3> SUFFICES ASSUME w \in t..((t + b) - 1) PROVE (a - to + from) \div 4 = w - t + f
      OBVIOUS
    <3>1. PICK v \in Nat : v = w - t + f
      BY <2>2
    <3>2. a - to + from = 4 * v
      BY <1>1, <2>1, <2>2, <3>1
    <3> QED
      BY <3>1, <3>2
  <2> QED
    BY <1>5, <2>1, <2>3, <2>4 DEF get, WSIZE
<1> QED
  BY <1>5, <1>6

(* memset sets the words of its range and no other.                        *)
LEMMA FillGet ==
  ASSUME NEW h \in Heap, NEW p \in Addr, NEW v \in Nat, NEW bytes \in Nat, bytes % 4 = 0,
         NEW g, g = memset(h, p, v, bytes)
  PROVE  /\ g \in Heap /\ g.brk = h.brk
         /\ \A a \in Addr : get(g, a) = IF p <= a /\ a < p + bytes THEN v ELSE get(h, a)
<1>1. PICK t \in Nat, b \in Nat :
        p = 4 * t /\ bytes = 4 * b /\ p \div 4 = t /\ (p + bytes) \div 4 = t + b
  <2>1. p = 4 * (p \div 4) /\ bytes = 4 * (bytes \div 4) /\ p \div 4 \in Nat /\ bytes \div 4 \in Nat
    BY DEF Addr
  <2>2. (p + bytes) \div 4 = p \div 4 + bytes \div 4
    BY <2>1
  <2> QED
    BY <2>1, <2>2
<1>2. g = [h EXCEPT !.mem = [w \in Word |-> IF w \in t..((t + b) - 1) THEN v ELSE h.mem[w]]]
  BY <1>1 DEF memset, WSIZE
<1>3. g \in Heap /\ g.brk = h.brk
        /\ g.mem = [w \in Word |-> IF w \in t..((t + b) - 1) THEN v ELSE h.mem[w]]
  BY <1>2 DEF Heap
<1>4. ASSUME NEW a \in Addr
      PROVE  get(g, a) = IF p <= a /\ a < p + bytes THEN v ELSE get(h, a)
  <2>1. PICK w \in Word : a = 4 * w /\ a \div 4 = w
    BY WordOf DEF WSIZE
  <2>2. w \in Nat
    BY HeapAssumption DEF Word, WSIZE
  <2>3. (p <= a /\ a < p + bytes) <=> w \in t..((t + b) - 1)
    BY <1>1, <2>1, <2>2
  <2> QED
    BY <1>3, <2>1, <2>3 DEF get, WSIZE
<1> QED
  BY <1>3, <1>4

(* What is written to a payload disturbs no tag and no other payload.      *)
LEMMA PayloadWrites ==
  ASSUME NEW h, NEW L, Tags(h, L), NEW q \in Tiles(L), NEW g \in Heap, g.brk = h.brk,
         WritesOnly(h, g, Payload(L, q))
  PROVE  Tags(g, L) /\ Untouched(h, g, L, Tiles(L) \ {q})
<1>1. Layout(L) /\ h \in Heap /\ h.brk = L.brk
  BY DEF Tags
<1>2. /\ WSIZE \in Addr /\ 2 * WSIZE \in Addr /\ L.brk - WSIZE \in Addr
      /\ \A p \in Tiles(L) : p - WSIZE \in Addr /\ p + L.size[p] - DSIZE \in Addr
  BY <1>1, TagAddrs
<1>3. /\ q \in Nat /\ q >= 16 /\ L.size[q] \in Nat /\ q + L.size[q] <= L.brk /\ L.brk \in Nat
      /\ q \in Ends(L)
  BY <1>1, LayoutFacts DEF First, WSIZE
<1>4. \A a \in Payload(L, q) : a \in Nat /\ q <= a /\ a + 8 < q + L.size[q]
  BY DEF Payload, Addr, DSIZE
<1>5. \A p \in Tiles(L) \ {q} :
        p \in Nat /\ L.size[p] \in Nat /\ (p + L.size[p] <= q \/ q + L.size[q] <= p)
        /\ p >= 16 /\ L.size[p] >= 16
  <2> SUFFICES ASSUME NEW p \in Tiles(L), p # q
               PROVE  p \in Nat /\ L.size[p] \in Nat /\ (p + L.size[p] <= q \/ q + L.size[q] <= p)
                      /\ p >= 16 /\ L.size[p] >= 16
    OBVIOUS
  <2>1. p \in Nat /\ L.size[p] \in Nat /\ p \in Ends(L) /\ p >= 16 /\ L.size[p] >= 16
    BY <1>1, LayoutFacts DEF First, WSIZE
  <2>2. (p < q => p + L.size[p] <= q) /\ (q < p => q + L.size[q] <= p)
    BY <2>1, <1>1, <1>3, LayoutFacts
  <2> QED
    BY <2>1, <2>2, <1>3
<1>6. WSIZE \notin Payload(L, q) /\ 2 * WSIZE \notin Payload(L, q) /\ L.brk - WSIZE \notin Payload(L, q)
  BY <1>3, <1>4 DEF WSIZE
<1>7. ASSUME NEW p \in Tiles(L)
      PROVE  p - WSIZE \notin Payload(L, q) /\ p + L.size[p] - DSIZE \notin Payload(L, q)
  <2>1. CASE p = q
    BY <2>1, <1>3, <1>4 DEF WSIZE, DSIZE
  <2>2. CASE p # q
    BY <2>2, <1>3, <1>4, <1>5 DEF WSIZE, DSIZE
  <2> QED
    BY <2>1, <2>2
<1>8. Tags(g, L)
  BY <1>2, <1>6, <1>7 DEF Tags, WritesOnly
<1>9. ASSUME NEW p \in Tiles(L) \ {q}, NEW a \in Payload(L, p)
      PROVE  get(g, a) = get(h, a)
  <2>1. a \in Addr /\ a \in Nat /\ p <= a /\ a + 8 < p + L.size[p]
    BY DEF Payload, Addr, DSIZE
  <2>2. a \notin Payload(L, q)
    BY <2>1, <1>3, <1>4, <1>5
  <2> QED
    BY <2>1, <2>2 DEF WritesOnly
<1> QED
  BY <1>8, <1>9 DEF Untouched

(* The copy moves to the new payload what fits of the old one.             *)
Copied(h, g, L, p, q, size) ==
  \A a \in Payload(L, p) : a < p + size => get(g, q + (a - p)) = get(h, a)

(* memcpy in mm_realloc copies what fits, inside the new block.            *)
LEMMA CarryCopies ==
  ASSUME NEW h, NEW h1, NEW L, NEW M, Tags(h1, M), Layout(L), NEW p \in L.used, NEW q \in M.used,
         p \in M.used, M.size[p] = L.size[p], Untouched(h, h1, L, L.used),
         NEW size \in Nat, size % 4 = 0, size + 8 <= M.size[q],
         NEW g, g = blk!memcpy(h1, q, p, Smaller(size, M.size[p]))
  PROVE  /\ Tags(g, M) /\ Untouched(h1, g, M, M.used \ {q})
         /\ Copied(h, g, L, p, q, size)
<1>1. Layout(M) /\ h1 \in Heap /\ p \in Tiles(M) /\ q \in Tiles(M) /\ M.used \subseteq Tiles(M)
      /\ p \in Tiles(L)
  BY LayoutFacts DEF Tags
<1>2. /\ p \in Nat /\ q \in Nat /\ p % 8 = 0 /\ q % 8 = 0 /\ M.size[p] \in Nat /\ M.size[q] \in Nat
      /\ M.size[p] % 8 = 0 /\ M.size[q] % 8 = 0 /\ M.size[p] >= 16 /\ M.size[q] >= 16
      /\ p + M.size[p] <= M.brk /\ q + M.size[q] <= M.brk /\ M.brk <= MAX_HEAP /\ M.brk \in Nat
  BY <1>1, LayoutFacts
<1>3. PICK bytes : bytes = Smaller(size, M.size[p])
  OBVIOUS
<1>4. bytes \in Nat /\ bytes % 4 = 0 /\ bytes <= size /\ bytes <= M.size[p]
      /\ (bytes = size \/ bytes = M.size[p])
  BY <1>2, <1>3 DEF Smaller
<1>5. p \in Addr /\ q \in Addr
  BY <1>2, HeapAssumption DEF Addr
<1>6. q + bytes <= MAX_HEAP /\ p + bytes <= MAX_HEAP
  BY <1>2, <1>4, HeapAssumption
<1>7. /\ g \in Heap /\ g.brk = h1.brk
      /\ \A a \in Addr : get(g, a) = IF q <= a /\ a < q + bytes THEN get(h1, a - q + p)
                                     ELSE get(h1, a)
  BY <1>1, <1>3, <1>4, <1>5, <1>6, CopyGet
<1>8. WritesOnly(h1, g, Payload(M, q))
  <2> SUFFICES ASSUME NEW a \in Addr, a \notin Payload(M, q) PROVE ~(q <= a /\ a < q + bytes)
    BY <1>7 DEF WritesOnly
  <2>1. a \in Nat
    BY DEF Addr
  <2>2. ~(q <= a /\ a + 8 < q + M.size[q])
    BY DEF Payload, DSIZE
  <2> QED
    BY <2>1, <2>2, <1>2, <1>4
<1>9. Tags(g, M) /\ Untouched(h1, g, M, Tiles(M) \ {q})
  BY <1>1, <1>7, <1>8, PayloadWrites
<1>10. Untouched(h1, g, M, M.used \ {q})
  BY <1>1, <1>9 DEF Untouched
<1>11. Copied(h, g, L, p, q, size)
  <2> SUFFICES ASSUME NEW a \in Payload(L, p), a < p + size
               PROVE  get(g, q + (a - p)) = get(h, a)
    BY DEF Copied
  <2>1. a \in Addr /\ a \in Nat /\ a % 4 = 0 /\ p <= a /\ a + 8 < p + M.size[p]
    BY DEF Payload, Addr, DSIZE
  <2>2. get(h1, a) = get(h, a)
    BY DEF Untouched
  <2>3. PICK b \in Nat : b = q + (a - p)
    BY <1>2, <2>1
  <2>4. q <= b /\ b < q + bytes /\ b - q + p = a
    BY <1>2, <1>4, <2>1, <2>3
  <2>5. b \in Addr
    <3>1. b % 4 = 0
      BY <1>2, <2>1, <2>3
    <3> QED
      BY <3>1, <2>4, <1>2, <1>6, <1>4, HeapAssumption DEF Addr
  <2>6. get(g, b) = get(h1, b - q + p)
    BY <1>7, <2>4, <2>5
  <2> QED
    BY <2>2, <2>3, <2>4, <2>6
<1> QED
  BY <1>9, <1>10, <1>11

(* What mm_realloc returns, and leaves, for the block at p.                *)
Moved(h, L, p, size, n, q, r) ==
  /\ Room(L, n) => /\ r.ptr = q /\ Tags(r.heap, FreeLayout(AllocLayout(L, n), p))
                   /\ Untouched(h, r.heap, L, L.used \ {p}) /\ Copied(h, r.heap, L, p, q, size)
  /\ ~Room(L, n) => r = Result(h, NULL)

(* mm_realloc serves every request there is room for: a new block with the *)
(* old contents, the old block freed.                                      *)
LEMMA ReallocMoves ==
  ASSUME NEW h, NEW L, Tags(h, L), Apart(L), NEW p \in L.used,
         NEW size \in Nat, size > 0, size % 4 = 0,
         NEW n, n = Need(size), NEW q, q = HomeAt(L, n), NEW r, r = blk!mm_realloc(h, p, size)
  PROVE  Moved(h, L, p, size, n, q, r)
<1>1. n \in Nat /\ n >= 16 /\ n % 8 = 0 /\ size + 8 <= n
  BY NeedFacts
<1>2. PICK new : new = blk!mm_malloc(h, size)
  OBVIOUS
<1>3. Layout(L) /\ p \in Tiles(L) /\ p # NULL
  <2>1. Layout(L)
    BY DEF Tags
  <2>2. p \in Tiles(L)
    BY <2>1, LayoutFacts
  <2> QED
    BY <2>1, <2>2, LayoutFacts DEF First, WSIZE, NULL
<1>4. /\ Room(L, n) => /\ new.ptr = q /\ Tags(new.heap, AllocLayout(L, n))
                       /\ Untouched(h, new.heap, L, L.used)
      /\ ~Room(L, n) => new = Result(h, NULL)
  BY <1>2, MallocAllocates
<1>5. r = blk!resize(h, p, size, new)
  BY <1>2 DEF blk!mm_realloc
<1>6. CASE Room(L, n)
  <2>1. PICK M : M = AllocLayout(L, n)
    OBVIOUS
  <2>2. /\ Layout(M) /\ Apart(M) /\ M.used = L.used \cup {q} /\ q \notin L.used /\ M.size[q] >= n
        /\ \A x \in L.used : M.size[x] = L.size[x]
    BY <1>1, <1>3, <1>6, <2>1, AllocFacts
  <2>3. p \in M.used /\ q \in M.used /\ p # q /\ M.size[p] = L.size[p] /\ L.used = M.used \ {q}
    BY <2>2
  <2>4. p \in Tiles(M) /\ q \in Tiles(M) /\ q # NULL /\ M.size[q] \in Nat
    <3>1. p \in Tiles(M) /\ q \in Tiles(M)
      BY <2>2, <2>3, LayoutFacts
    <3> QED
      BY <3>1, <2>2, LayoutFacts DEF First, WSIZE, NULL
  <2>5. new.ptr = q /\ Tags(new.heap, M) /\ Untouched(h, new.heap, L, L.used)
    BY <1>4, <1>6, <2>1
  <2>6. PICK c : c = blk!memcpy(new.heap, q, p, Smaller(size, M.size[p]))
    OBVIOUS
  <2>7. c = blk!carry(new, p, size)
    <3>1. size_of(new.heap, p) = M.size[p]
      BY <2>4, <2>5, ReadTile
    <3> QED
      BY <3>1, <2>5, <2>6, SameOps DEF blk!carry, blk!Smaller, Smaller
  <2>8. size + 8 <= M.size[q]
    BY <1>1, <2>2, <2>4
  <2>9. /\ Tags(c, M) /\ Untouched(new.heap, c, M, M.used \ {q}) /\ Copied(h, c, L, p, q, size)
    BY <1>3, <2>3, <2>5, <2>6, <2>8, CarryCopies
  <2>10. PICK g : g = blk!mm_free(c, p)
    OBVIOUS
  <2>11. Tags(g, FreeLayout(M, p)) /\ Untouched(c, g, M, M.used \ {p})
    BY <2>2, <2>3, <2>9, <2>10, FreeFrees
  <2>12. r = Result(g, q)
    BY <1>3, <1>5, <2>4, <2>5, <2>7, <2>10, SameOps DEF blk!resize, blk!NULL, NULL
  <2>13. Untouched(h, g, L, L.used \ {p})
    <3> SUFFICES ASSUME NEW x \in L.used \ {p}, NEW a \in Payload(L, x)
                 PROVE  get(g, a) = get(h, a)
      BY DEF Untouched
    <3>1. a \in Payload(M, x) /\ x \in M.used \ {q} /\ x \in M.used \ {p}
      BY <2>2 DEF Payload
    <3> QED
      BY <3>1, <2>5, <2>9, <2>11 DEF Untouched
  <2>14. Copied(h, g, L, p, q, size)
    <3> SUFFICES ASSUME NEW a \in Payload(L, p), a < p + size
                 PROVE  get(g, q + (a - p)) = get(h, a)
      BY DEF Copied
    <3>1. get(c, q + (a - p)) = get(h, a)
      BY <2>9 DEF Copied
    <3>2. q + (a - p) \in Payload(M, q)
      <4>1. a \in Nat /\ a % 4 = 0 /\ p <= a /\ a + 8 < p + L.size[p]
        BY DEF Payload, Addr, DSIZE
      <4>2. /\ p \in Nat /\ q \in Nat /\ p % 8 = 0 /\ q % 8 = 0 /\ q + M.size[q] <= MAX_HEAP
            /\ L.size[p] \in Nat
        <5>1. p \in Ends(M) /\ q \in Ends(M) /\ q + M.size[q] \in Ends(M)
          BY <2>2, <2>4, LayoutFacts
        <5> QED
          BY <5>1, <2>2, <2>3, <2>4, LayoutFacts
      <4>3. PICK b \in Nat : b = q + (a - p)
        BY <4>1, <4>2
      <4>4. q <= b /\ b + 8 < q + M.size[q] /\ b % 4 = 0
        BY <4>1, <4>2, <4>3, <2>4, <2>8
      <4>5. b \in Addr
        BY <4>2, <4>4, <2>4, HeapAssumption DEF Addr
      <4> QED
        BY <4>3, <4>4, <4>5 DEF Payload, DSIZE
    <3>3. q \in M.used \ {p}
      BY <2>3
    <3> QED
      BY <3>1, <3>2, <3>3, <2>11 DEF Untouched
  <2> QED
    BY <1>6, <2>1, <2>11, <2>12, <2>13, <2>14 DEF Result, Moved
<1>7. CASE ~Room(L, n)
  <2>1. new = Result(h, NULL) /\ new.ptr = NULL
    BY <1>4, <1>7 DEF Result
  <2> QED
    BY <2>1, <1>3, <1>5, <1>7, SameOps DEF blk!resize, blk!NULL, NULL, Moved
<1> QED
  BY <1>6, <1>7
=============================================================================
