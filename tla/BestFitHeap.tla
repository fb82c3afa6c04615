---------------------------- MODULE BestFitHeap -----------------------------
(***************************************************************************)
(* malloclab-handout/mm_right.c: lists by size class as in mm.c, the class *)
(* found by doubling, and the best fit of a class taken.                   *)
(***************************************************************************)
EXTENDS BoundaryTags

Class == 0..(CLASSNUM - 1)

get_head(h, c)    == get(h, c * WSIZE)
set_head(h, c, p) == set(h, c * WSIZE, p)

get_list_index(size) ==
  LET index == CHOOSE k \in 2..size : 2^k >= size /\ \A j \in 2..(k - 1) : 2^j < size
  IN  IF index > CLASSNUM THEN CLASSNUM - 1 ELSE index - 2

insert_free_blk(h, bp) ==
  LET c == get_list_index(size_of(h, bp)) IN set_head(push_front(h, bp, get_head(h, c)), c, bp)

remove_free_blk(h, bp) ==
  LET h1 == unlink(h, bp)
  IN  IF prev_lst(h, bp) # NULL THEN h1
      ELSE set_head(h1, get_list_index(size_of(h, bp)), next_lst(h, bp))

(* A neighbour that is free leaves its list; the merged block enters one.  *)
leaves(h, bp, alloc) == IF alloc = 1 THEN h ELSE remove_free_blk(h, bp)
enters(merged) == Result(insert_free_blk(merged.heap, merged.ptr), merged.ptr)

coalesce(h, bp) ==
  LET prev == prev_blkp(h, bp)
      next == next_blkp(h, bp)
      prev_alloc == unpack_alloc(h, get_ftrp(h, prev))
  IN  enters(merge(leaves(leaves(h, next, unpack_alloc(h, get_hdrp(next))), prev, prev_alloc),
                   bp, prev_alloc))

extend_heap(h, size) ==
  IF HasRoom(h, size) THEN coalesce(fresh_block(h, size), h.brk) ELSE Result(h, NULL)

FreeList(h, c) == Walk(h, get_head(h, c))

(* The first of the smallest blocks that are large enough.                 *)
best_of(h, c, asize) ==
  LET enough  == {bp \in Elements(FreeList(h, c)) : size_of(h, bp) >= asize}
      best    == {bp \in enough : \A q \in enough : size_of(h, bp) <= size_of(h, q)}
  IN  FirstFit(FreeList(h, c), best)

find_fit(h, asize) ==
  LET classes == {c \in Class : c >= get_list_index(asize) /\ best_of(h, c, asize) # NULL}
  IN  IF classes = {} THEN NULL
      ELSE best_of(h, CHOOSE c \in classes : \A d \in classes : c <= d, asize)

place(h, bp, req) ==
  LET rem == size_of(h, bp) - req
      h1  == remove_free_blk(h, bp)
  IN  IF rem >= 2 * DSIZE
      THEN insert_free_blk(mark(mark(h1, bp, req, 1), bp + req, rem, 0), bp + req)
      ELSE mark(h1, bp, size_of(h, bp), 1)

mm_init(h) ==
  LET heads == [h EXCEPT !.mem = [w \in Word |-> IF w < CLASSNUM THEN NULL ELSE h.mem[w]]]
  IN  IF HasRoom(h, (4 + CLASSNUM) * WSIZE)
      THEN extend_heap(prologue(mem_sbrk(heads, (4 + CLASSNUM) * WSIZE), CLASSNUM * WSIZE),
                       CHUNKSIZE)
      ELSE Result(h, NULL)

placed(got, size) ==
  IF got.ptr = NULL THEN got ELSE Result(place(got.heap, got.ptr, size), got.ptr)

mm_malloc(h, size) ==
  LET asize == IF size <= DSIZE THEN 2 * DSIZE ELSE DSIZE + ALIGN(size)
  IN  IF size = 0 THEN Result(h, NULL)
      ELSE placed(serve(h, find_fit(h, asize), extend_heap(h, Larger(asize, CHUNKSIZE))), asize)

mm_free(h, bp) ==
  IF bp = NULL THEN h ELSE coalesce(mark(h, bp, size_of(h, bp), 0), bp).heap

resize(h, ptr, size, new) ==
  CASE ptr = NULL -> new
    [] ptr # NULL /\ size = 0 -> Result(mm_free(h, ptr), NULL)
    [] ptr # NULL /\ size # 0 /\ new.ptr = NULL -> Result(h, NULL)
    [] OTHER -> Result(mm_free(carry(new, ptr, size), ptr), new.ptr)

mm_realloc(h, ptr, size) == resize(h, ptr, size, mm_malloc(h, size))
=============================================================================
