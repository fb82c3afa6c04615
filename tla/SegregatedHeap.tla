--------------------------- MODULE SegregatedHeap ---------------------------
(***************************************************************************)
(* malloclab-handout/mm.c: free blocks in lists by size class, whose heads *)
(* are the first words of the heap; a request takes the first block that   *)
(* fits, from its own class upwards.                                       *)
(***************************************************************************)
EXTENDS BoundaryTags

Class == 0..(CLASSNUM - 1)

(* The list head of a class is a word of the heap.                         *)
head(h, c)        == get(h, c * WSIZE)
set_head(h, c, p) == set(h, c * WSIZE, p)

get_list_idx(size) ==
  LET big == {c \in Class : size <= 2^(c + 4)}
  IN  IF big = {} THEN CLASSNUM - 1 ELSE CHOOSE c \in big : \A d \in big : c <= d

insert_free_blk(h, bp) ==
  LET c == get_list_idx(size_of(h, bp)) IN set_head(push_front(h, bp, head(h, c)), c, bp)

remove_free_blk(h, bp) ==
  LET h1 == unlink(h, bp)
  IN  IF prev_lst(h, bp) # NULL THEN h1
      ELSE set_head(h1, get_list_idx(size_of(h, bp)), next_lst(h, bp))

(* A neighbour that is free leaves its list; the merged block enters one.  *)
leaves(h, bp, alloc) == IF alloc = 1 THEN h ELSE remove_free_blk(h, bp)
enters(merged) == Result(insert_free_blk(merged.heap, merged.ptr), merged.ptr)

(* Faulty variant: the block before bp is taken for allocated.             *)
coalesceForward(h, bp) ==
  LET next == next_blkp(h, bp)
  IN  enters(merge(leaves(h, next, unpack_alloc(h, get_hdrp(next))), bp, 1))

coalesce(h, bp) ==
  LET prev == prev_blkp(h, bp)
      next == next_blkp(h, bp)
      prev_alloc == unpack_alloc(h, get_hdrp(prev))
  IN  enters(merge(leaves(leaves(h, next, unpack_alloc(h, get_hdrp(next))), prev, prev_alloc),
                   bp, prev_alloc))

extend_heap(h, size) ==
  IF HasRoom(h, size) THEN coalesce(fresh_block(h, size), h.brk) ELSE Result(h, NULL)

FreeList(h, c) == Walk(h, head(h, c))

find_fit(h, size) ==
  LET fits(c) == {bp \in Elements(FreeList(h, c)) : size_of(h, bp) >= size}
      fit(c)  == FirstFit(FreeList(h, c), fits(c))
      classes == {c \in Class : c >= get_list_idx(size) /\ fit(c) # NULL}
  IN  IF classes = {} THEN NULL ELSE fit(CHOOSE c \in classes : \A d \in classes : c <= d)

(* The block leaves its list before its size changes with it.              *)
place(h, bp, req) ==
  LET total == size_of(h, bp)
      h1    == remove_free_blk(h, bp)
  IN  IF total - req < 16 THEN mark(h1, bp, total, 1)
      ELSE insert_free_blk(mark(mark(h1, bp, req, 1), bp + req, total - req, 0), bp + req)

(* Heads, prologue and the first chunk; NULL stands for -1.                *)
mm_init(h) ==
  LET heads == [h EXCEPT !.mem = [w \in Word |-> IF w < CLASSNUM THEN NULL ELSE h.mem[w]]]
  IN  IF HasRoom(h, (CLASSNUM + 4) * WSIZE)
      THEN extend_heap(prologue(mem_sbrk(heads, (CLASSNUM + 4) * WSIZE), CLASSNUM * WSIZE),
                       CHUNKSIZE)
      ELSE Result(h, NULL)

placed(got, size) ==
  IF got.ptr = NULL THEN got ELSE Result(place(got.heap, got.ptr, size), got.ptr)

mm_malloc(h, size) ==
  LET blk_size == DSIZE + ALIGN(size)
  IN  IF size = 0 THEN Result(h, NULL)
      ELSE placed(serve(h, find_fit(h, blk_size), extend_heap(h, Larger(blk_size, CHUNKSIZE))), blk_size)

mm_free(h, bp) ==
  IF bp = NULL THEN h ELSE coalesce(mark(h, bp, size_of(h, bp), 0), bp).heap

(* The pointer of the new block is used unseen: with NULL, memcpy crashes. *)
Crash == MAX_HEAP + 1

resize(h, ptr, size, new) ==
  CASE ptr = NULL -> new
    [] ptr # NULL /\ size = 0 -> Result(mm_free(h, ptr), NULL)
    [] ptr # NULL /\ size # 0 /\ new.ptr = NULL -> Result(h, Crash)
    [] OTHER -> Result(mm_free(carry(new, ptr, size), ptr), new.ptr)

mm_realloc(h, ptr, size) == resize(h, ptr, size, mm_malloc(h, size))
=============================================================================
