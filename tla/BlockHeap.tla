----------------------------- MODULE BlockHeap ------------------------------
(***************************************************************************)
(* malloclab-handout/mm_blk.c: no list; the first free block that fits is  *)
(* found by walking all blocks from the prologue on.                       *)
(***************************************************************************)
EXTENDS BoundaryTags

heap_listp == 2 * WSIZE

(* There is no list to keep.                                               *)
coalesce(h, bp) == merge(h, bp, unpack_alloc(h, get_ftrp(h, prev_blkp(h, bp))))

extend_heap(h, size) ==
  IF HasRoom(h, size) THEN coalesce(fresh_block(h, size), h.brk) ELSE Result(h, NULL)

mm_init(h) ==
  IF HasRoom(h, 4 * WSIZE) THEN extend_heap(prologue(mem_sbrk(h, 4 * WSIZE), 0), CHUNKSIZE)
  ELSE Result(h, NULL)

(* The epilogue's size 0 ends the walk, and fits no request.               *)
after(h, bp) == IF size_of(h, bp) = 0 THEN NULL ELSE next_blkp(h, bp)

BlockWalk(h, p) ==
  LET node[n \in Steps] ==
        IF n = 0 THEN p
        ELSE LET at == node[n - 1] IN IF at = NULL THEN NULL ELSE after(h, at)
  IN  node

first_fit(h, req_size) ==
  LET walk == BlockWalk(h, heap_listp)
  IN  FirstFit(walk, {bp \in Elements(walk) : size_of(h, bp) >= req_size /\ is_free(h, bp)})

place(h, bp, req_size) ==
  LET cur == size_of(h, bp)
      rem == cur - req_size
  IN  IF rem < 2 * DSIZE THEN mark(h, bp, cur, 1)
      ELSE mark(mark(h, bp, req_size, 1), bp + req_size, rem, 0)

placed(got, size) ==
  IF got.ptr = NULL THEN got ELSE Result(place(got.heap, got.ptr, size), got.ptr)

mm_malloc(h, size) ==
  LET blk_size == ALIGN(size + DSIZE)
  IN  IF size = 0 THEN Result(h, NULL)
      ELSE placed(serve(h, first_fit(h, blk_size), extend_heap(h, Larger(blk_size, CHUNKSIZE))), blk_size)

mm_free(h, bp) ==
  IF bp = NULL THEN h ELSE coalesce(mark(h, bp, size_of(h, bp), 0), bp).heap

(* Faulty variant: the old block is freed before its content is copied.    *)
mm_reallocFreesFirst(h, ptr, size) ==
  LET new == mm_malloc(mm_free(h, ptr), size)
  IN  IF new.ptr = NULL THEN Result(h, NULL)
      ELSE Result(memcpy(new.heap, new.ptr, ptr, Smaller(size, size_of(new.heap, ptr))),
                  new.ptr)

resize(h, ptr, size, new) ==
  CASE ptr = NULL -> new
    [] ptr # NULL /\ size = 0 -> Result(mm_free(h, ptr), NULL)
    [] ptr # NULL /\ size # 0 /\ new.ptr = NULL -> Result(h, NULL)
    [] OTHER -> Result(mm_free(carry(new, ptr, size), ptr), new.ptr)

mm_realloc(h, ptr, size) == resize(h, ptr, size, mm_malloc(h, size))
=============================================================================
