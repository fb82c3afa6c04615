---------------------------- MODULE MallocDriver ----------------------------
(***************************************************************************)
(* malloclab-handout/mdriver.c as the client of an allocator: each trace   *)
(* is read, then replayed three times from an empty heap, checking the     *)
(* payloads (eval_mm_valid), their total (eval_mm_util), and for the time  *)
(* it takes (eval_mm_speed).  lib is the package the driver is linked      *)
(* with: mm.c, mm_right.c, mm_list.c or mm_blk.c.                          *)
(***************************************************************************)
EXTENDS BoundaryTags, Sequences

CONSTANTS Libs,         \* packages checked
          Restartable,  \* those for which the heap is initialised again
          NumIds,       \* ids of a trace
          Sizes,        \* bytes requested, multiples of a word
          MaxOps,       \* bound on the requests of all traces together
          MaxFiles      \* bound on the traces

ASSUME DriverAssumption ==
  /\ \A size \in Sizes : size \in Nat /\ size > 0 /\ size % WSIZE = 0
  /\ NumIds \in Nat /\ MaxOps \in Nat /\ MaxFiles \in Nat

VARIABLES lib, heap,
          pc,           \* the function of mdriver.c that runs
          files,        \* traces opened
          budget,       \* requests that may still be read
          trace, i,     \* the trace's ops; the next one to replay
          ranges,       \* eval_mm_valid's list of payloads
          blocks, block_sizes,
          errors, msg,  \* malloc_error's count and last message
          total_size, max_total_size

vars == <<lib, heap, pc, files, budget, trace, i, ranges, blocks, block_sizes, errors, msg,
          total_size, max_total_size>>

Sets  == INSTANCE FiniteSetsExt
mm    == INSTANCE SegregatedHeap
right == INSTANCE BestFitHeap
list  == INSTANCE ListHeap
blk   == INSTANCE BlockHeap

Ids == 0..(NumIds - 1)

mm_init(h) ==
  CASE lib = "mm"    -> mm!mm_init(h)
    [] lib = "right" -> right!mm_init(h)
    [] lib = "list"  -> list!mm_init(h)
    [] lib = "blk"   -> blk!mm_init(h)

mm_malloc(size) ==
  CASE lib = "mm"    -> mm!mm_malloc(heap, size)
    [] lib = "right" -> right!mm_malloc(heap, size)
    [] lib = "list"  -> list!mm_malloc(heap, size)
    [] lib = "blk"   -> blk!mm_malloc(heap, size)

mm_free(p) ==
  CASE lib = "mm"    -> mm!mm_free(heap, p)
    [] lib = "right" -> right!mm_free(heap, p)
    [] lib = "list"  -> list!mm_free(heap, p)
    [] lib = "blk"   -> blk!mm_free(heap, p)

mm_realloc(p, size) ==
  CASE lib = "mm"    -> mm!mm_realloc(heap, p, size)
    [] lib = "right" -> right!mm_realloc(heap, p, size)
    [] lib = "list"  -> list!mm_realloc(heap, p, size)
    [] lib = "blk"   -> blk!mm_realloc(heap, p, size)

Replaying == pc \in {"eval_mm_valid", "eval_mm_util", "eval_mm_speed"}

(* The ids a trace has allocated and not freed after its first n requests. *)
LiveAfter(ops, n) ==
  {id \in Ids : \E k \in 1..n : /\ ops[k].index = id /\ ops[k].type # "FREE"
                               /\ \A j \in (k + 1)..n : ops[j].index = id => ops[j].type # "FREE"}
Live == IF Replaying THEN LiveAfter(trace, i - 1) ELSE {}

(* What the trace last asked for id.                                       *)
Requested(id) ==
  LET asked == {k \in 1..(i - 1) : trace[k].index = id}
  IN  trace[CHOOSE k \in asked : \A j \in asked : j <= k].size

Uninitialised == [id \in Ids |-> 0]

Init ==
  /\ lib \in Libs
  /\ heap = mem_init
  /\ pc = "main" /\ files = 0 /\ budget = MaxOps /\ trace = <<>> /\ i = 1
  /\ ranges = {} /\ errors = 0 /\ msg = "none"
  /\ blocks = Uninitialised /\ block_sizes = Uninitialised
  /\ total_size = 0 /\ max_total_size = 0

(***************************************************************************)
(* read_trace: requests that make sense one after the other.               *)
(***************************************************************************)
OpenTrace ==
  /\ pc = "main" /\ files < MaxFiles
  /\ files = 0 \/ lib \in Restartable
  /\ pc' = "read_trace" /\ files' = files + 1 /\ trace' = <<>>
  /\ blocks' = Uninitialised /\ block_sizes' = Uninitialised
  /\ UNCHANGED <<lib, heap, budget, i, ranges, errors, msg, total_size, max_total_size>>

ReadRequest ==
  /\ pc = "read_trace" /\ budget > 0
  /\ LET known == LiveAfter(trace, Len(trace))
         used  == {trace[k].index : k \in DOMAIN trace}
     IN  \E id \in Ids, type \in {"ALLOC", "REALLOC", "FREE"}, size \in Sizes \cup {0} :
           /\ (type = "ALLOC") <=> (id \notin known)
           /\ (type = "FREE") <=> (size = 0)
           /\ type = "ALLOC" => \A j \in 0..(id - 1) : j \in used
           /\ trace' = Append(trace, [type |-> type, index |-> id, size |-> size])
  /\ budget' = budget - 1
  /\ UNCHANGED <<lib, heap, pc, files, i, ranges, blocks, block_sizes, errors, msg,
                 total_size, max_total_size>>

malloc_error(text) == errors' = errors + 1 /\ msg' = text

(* mem_reset_brk and mm_init, with which each replay begins; without a     *)
(* heap the driver goes to failed.                                         *)
Begin(eval, failed) ==
  \E init \in {mm_init(mem_reset_brk(heap))} :
    /\ heap' = init.heap
    /\ i' = 1
    /\ pc' = IF init.ptr = NULL THEN failed ELSE eval

clear_ranges == ranges' = {}

BeginValid ==
  /\ pc = "read_trace" /\ trace # <<>>
  /\ Begin("eval_mm_valid", "main")
  /\ clear_ranges
  /\ IF pc' = "main" THEN malloc_error("failed") ELSE UNCHANGED <<errors, msg>>
  /\ UNCHANGED <<lib, files, budget, trace, blocks, block_sizes, total_size, max_total_size>>

(***************************************************************************)
(* eval_mm_valid                                                           *)
(***************************************************************************)
op == trace[i]
Pending(eval, type) == pc = eval /\ i <= Len(trace) /\ op.type = type

(* memset(p, index & 0xFF, size), a value no tag or link has.              *)
Fill(id) == 8 * MAX_HEAP + id

Range(lo, size) == [lo |-> lo, hi |-> lo + size - 1]

IsAligned(lo)     == lo % 8 = 0
InHeap(r, h)      == r.lo < h.brk /\ r.hi < h.brk
Overlaps(r, p)    == r.lo \in p.lo..p.hi \/ r.hi \in p.lo..p.hi
add_range(r, h, others) == IsAligned(r.lo) /\ InHeap(r, h) /\ \A p \in others : ~Overlaps(r, p)

remove_range(lo) == {r \in ranges : r.lo # lo}

(* Faulty variant: after the error the trace goes on.                      *)
InvalidGoesOn(text) == malloc_error(text) /\ i' = i + 1 /\ UNCHANGED <<pc, blocks, block_sizes>>

(* The trace is given up.                                                  *)
Invalid(text) == malloc_error(text) /\ pc' = "main" /\ UNCHANGED <<i, blocks, block_sizes>>

(* The new payload is filled and remembered.                               *)
Accept(h, p) ==
  /\ heap' = memset(h, p, Fill(op.index), op.size)
  /\ blocks' = [blocks EXCEPT ![op.index] = p]
  /\ block_sizes' = [block_sizes EXCEPT ![op.index] = op.size]
  /\ i' = i + 1
  /\ UNCHANGED <<pc, errors, msg>>

ValidAlloc ==
  /\ Pending("eval_mm_valid", "ALLOC")
  /\ \E new \in {mm_malloc(op.size)} :
       LET r  == Range(new.ptr, op.size)
           ok == new.ptr # NULL /\ add_range(r, new.heap, ranges)
       IN  /\ ranges' = IF ok THEN ranges \cup {r} ELSE ranges
           /\ IF ok THEN Accept(new.heap, new.ptr)
              ELSE /\ heap' = new.heap
                   /\ Invalid(IF new.ptr = NULL THEN "failed" ELSE "misplaced")
  /\ UNCHANGED <<lib, files, budget, trace, total_size, max_total_size>>

Preserved(h, p) ==
  \A k \in 0..(Smaller(op.size, block_sizes[op.index]) \div WSIZE - 1) :
    get(h, p + k * WSIZE) = Fill(op.index)

(* The driver ends when the package dereferences NULL.                     *)
ValidRealloc ==
  /\ Pending("eval_mm_valid", "REALLOC")
  /\ \E new \in {mm_realloc(blocks[op.index], op.size)} :
       LET r    == Range(new.ptr, op.size)
           rest == remove_range(blocks[op.index])
           ok   == add_range(r, new.heap, rest)
       IN  CASE new.ptr = mm!Crash ->
                  /\ pc' = "crashed"
                  /\ UNCHANGED <<heap, i, ranges, blocks, block_sizes, errors, msg>>
             [] new.ptr = NULL -> Invalid("failed") /\ heap' = new.heap /\ UNCHANGED ranges
             [] OTHER ->
                  /\ ranges' = IF ok THEN rest \cup {r} ELSE rest
                  /\ IF ok /\ Preserved(new.heap, new.ptr)
                     THEN Accept(new.heap, new.ptr)
                     ELSE /\ heap' = new.heap
                          /\ Invalid(IF ok THEN "not preserved" ELSE "misplaced")
  /\ UNCHANGED <<lib, files, budget, trace, total_size, max_total_size>>

ValidFree ==
  /\ Pending("eval_mm_valid", "FREE")
  /\ ranges' = remove_range(blocks[op.index])
  /\ heap' = mm_free(blocks[op.index])
  /\ i' = i + 1
  /\ UNCHANGED <<lib, pc, files, budget, trace, blocks, block_sizes, errors, msg,
                 total_size, max_total_size>>

(***************************************************************************)
(* eval_mm_util and eval_mm_speed; app_error ends the driver.              *)
(***************************************************************************)
BeginUtil ==
  /\ pc = "eval_mm_valid" /\ i > Len(trace) /\ lib \in Restartable
  /\ Begin("eval_mm_util", "app_error")
  /\ total_size' = 0 /\ max_total_size' = 0
  /\ UNCHANGED <<lib, files, budget, trace, ranges, blocks, block_sizes, errors, msg>>

(* Faulty variant: the old size of a reallocated payload is not taken off. *)
AccountGross(size) == /\ total_size' = total_size + size
                      /\ max_total_size' = Larger(max_total_size, total_size')

Account(size) ==
  /\ total_size' = total_size + size
                   - (IF op.type = "ALLOC" THEN 0 ELSE block_sizes[op.index])
  /\ max_total_size' = Larger(max_total_size, total_size')

(* Faulty variant: a reallocation is served as an allocation.              *)
PlacedAnew == mm_malloc(op.size)

(* mm_malloc or mm_realloc, as the request says.                           *)
Placed == IF op.type = "ALLOC" THEN mm_malloc(op.size)
          ELSE mm_realloc(blocks[op.index], op.size)

UtilPlace ==
  /\ Pending("eval_mm_util", "ALLOC") \/ Pending("eval_mm_util", "REALLOC")
  /\ \E new \in {Placed} :
       IF new.ptr \in {NULL, mm!Crash}
       THEN /\ pc' = "app_error"
            /\ UNCHANGED <<heap, i, blocks, block_sizes, total_size, max_total_size>>
       ELSE /\ heap' = new.heap
            /\ blocks' = [blocks EXCEPT ![op.index] = new.ptr]
            /\ block_sizes' = [block_sizes EXCEPT ![op.index] = op.size]
            /\ Account(op.size)
            /\ i' = i + 1
            /\ UNCHANGED pc
  /\ UNCHANGED <<lib, files, budget, trace, ranges, errors, msg>>

UtilFree ==
  /\ Pending("eval_mm_util", "FREE")
  /\ heap' = mm_free(blocks[op.index])
  /\ total_size' = total_size - block_sizes[op.index]
  /\ i' = i + 1
  /\ UNCHANGED <<lib, pc, files, budget, trace, ranges, blocks, block_sizes, errors, msg,
                 max_total_size>>

(* fsecs runs it again and again.                                          *)
BeginSpeed ==
  /\ pc \in {"eval_mm_util", "eval_mm_speed"} /\ i > Len(trace)
  /\ Begin("eval_mm_speed", "app_error")
  /\ UNCHANGED <<lib, files, budget, trace, ranges, blocks, block_sizes, errors, msg,
                 total_size, max_total_size>>

SpeedPlace ==
  /\ Pending("eval_mm_speed", "ALLOC") \/ Pending("eval_mm_speed", "REALLOC")
  /\ \E new \in {Placed} :
       IF new.ptr \in {NULL, mm!Crash}
       THEN pc' = "app_error" /\ UNCHANGED <<heap, i, blocks>>
       ELSE /\ heap' = new.heap
            /\ blocks' = [blocks EXCEPT ![op.index] = new.ptr]
            /\ i' = i + 1
            /\ UNCHANGED pc
  /\ UNCHANGED <<lib, files, budget, trace, ranges, block_sizes, errors, msg,
                 total_size, max_total_size>>

SpeedFree ==
  /\ Pending("eval_mm_speed", "FREE")
  /\ heap' = mm_free(blocks[op.index])
  /\ i' = i + 1
  /\ UNCHANGED <<lib, pc, files, budget, trace, ranges, blocks, block_sizes, errors, msg,
                 total_size, max_total_size>>

(* free_trace, and on to the next file.                                    *)
NextTrace ==
  /\ pc = "eval_mm_speed" /\ i > Len(trace)
  /\ pc' = "main"
  /\ UNCHANGED <<lib, heap, files, budget, trace, i, ranges, blocks, block_sizes, errors, msg,
                 total_size, max_total_size>>

Next ==
  \/ OpenTrace \/ ReadRequest \/ BeginValid
  \/ ValidAlloc \/ ValidRealloc \/ ValidFree
  \/ BeginUtil \/ UtilPlace \/ UtilFree
  \/ BeginSpeed \/ SpeedPlace \/ SpeedFree \/ NextTrace

Spec == Init /\ [][Next]_vars

-----------------------------------------------------------------------------
(***************************************************************************)
(* Properties.                                                             *)
(***************************************************************************)

(* The variables have the values the code can give them.                   *)
TypeOK ==
  /\ lib \in Libs
  /\ heap.brk \in 0..MAX_HEAP /\ heap.brk % DSIZE = 0
  /\ heap.free_listp \in 0..MAX_HEAP
  /\ pc \in {"main", "read_trace", "eval_mm_valid", "eval_mm_util", "eval_mm_speed",
             "app_error", "crashed"}
  /\ files \in 0..MaxFiles /\ budget \in 0..MaxOps /\ Len(trace) <= MaxOps
  /\ i \in 1..(MaxOps + 1)
  /\ blocks \in [Ids -> 0..MAX_HEAP] /\ block_sizes \in [Ids -> Sizes \cup {0}]
  /\ errors \in 0..files
  /\ total_size \in Nat /\ max_total_size \in Nat

(* All blocks behind the prologue, up to the epilogue at the break.        *)
prologue_blk == IF lib \in {"mm", "right"} THEN (CLASSNUM + 2) * WSIZE ELSE 2 * WSIZE
HeapWalk  == Elements(blk!BlockWalk(heap, prologue_blk))
Blocks    == HeapWalk \ {prologue_blk, heap.brk}
FreeBlocks == {p \in Blocks : is_free(heap, p)}

(* Between two requests the tags describe the heap: the headers lead from  *)
(* the prologue to the epilogue at the break, every footer repeats its     *)
(* header, no block is too small to be freed, no two neighbours are free   *)
(* (coalesce leaves none), and the allocated blocks are the live payloads, *)
(* each with room for what was asked.                                      *)
TagsAgree ==
  Replaying =>
    /\ heap.brk \in HeapWalk /\ get(heap, get_hdrp(heap.brk)) = pack(0, 1)
    /\ \A p \in Blocks :
         /\ size_of(heap, p) % DSIZE = 0 /\ size_of(heap, p) >= 2 * DSIZE
         /\ get(heap, get_ftrp(heap, p)) = get(heap, get_hdrp(p))
         /\ is_free(heap, p) => next_blkp(heap, p) \notin FreeBlocks
    /\ Blocks \ FreeBlocks = {blocks[id] : id \in Live}
    /\ \A id \in Live : size_of(heap, blocks[id]) >= Requested(id) + DSIZE

Lists ==
  CASE lib = "mm"    -> [c \in mm!Class |-> mm!FreeList(heap, c)]
    [] lib = "right" -> [c \in right!Class |-> right!FreeList(heap, c)]
    [] lib = "list"  -> [c \in {0} |-> list!FreeList(heap)]
    [] lib = "blk"   -> <<>>

ListOf(size) ==
  CASE lib = "mm"    -> mm!get_list_idx(size)
    [] lib = "right" -> right!get_list_index(size)
    [] lib = "list"  -> 0

(* Every free block is in the list of its size, and in no other; the lists *)
(* end, hold nothing else, and can be walked back.  A block that changes   *)
(* its size while it is listed, or is forgotten when it is merged, breaks  *)
(* this without breaking a single request at once.                         *)
FreeListsExact ==
  Replaying =>
    \A c \in DOMAIN Lists :
      LET walk == Lists[c]
      IN  /\ Elements(walk) = {p \in FreeBlocks : ListOf(size_of(heap, p)) = c}
          /\ walk[MAX_HEAP \div (2 * DSIZE) + 2] = NULL
          /\ \A n \in DOMAIN walk \ {0} :
               walk[n] # NULL => prev_lst(heap, walk[n]) = walk[n - 1]
          /\ walk[0] # NULL => prev_lst(heap, walk[0]) = NULL

(* The driver finds no fault in the packages: payloads are aligned, in the *)
(* heap, apart from one another and preserved by mm_realloc; a trace is    *)
(* only given up when memory has run out; and one that eval_mm_valid       *)
(* accepts runs to its end in eval_mm_util and eval_mm_speed, whatever     *)
(* stale words mem_reset_brk has left in the heap.                         *)
DriverSatisfied == msg \in {"none", "failed"} /\ pc # "app_error"

(* eval_mm_util's running total is the size of the live payloads, through  *)
(* every reallocation, and its high water mark never exceeds the heap,     *)
(* which does not shrink: utilisation is a ratio of at most 1.             *)
UtilisationSound ==
  pc = "eval_mm_util" =>
    /\ total_size = Sets!MapThenSumSet(Requested, Live)
    /\ total_size <= max_total_size /\ max_total_size <= heap.brk

(* Between any two requests of any replay the live payloads are disjoint   *)
(* and keep their content, of which mm_realloc carries over what fits: the *)
(* packages implement AbstractHeap.  The driver itself looks at a payload  *)
(* only when it is reallocated.                                            *)
Payloads ==
  [id \in Live |->
     [lo   |-> blocks[id],
      data |-> [k \in 1..(Requested(id) \div WSIZE) |-> get(heap, blocks[id] + (k - 1) * WSIZE)]]]

Abstract == INSTANCE AbstractHeap WITH live <- Payloads, Size <- MAX_HEAP
HeapSpec == Abstract!Spec
=============================================================================
