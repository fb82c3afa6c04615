------------------------------ MODULE ListHeap ------------------------------
(***************************************************************************)
(* malloclab-handout/mm_list.c: one list of free blocks, first fit.  Its   *)
(* head is a static variable, which mm_init does not reset.                *)
(***************************************************************************)
EXTENDS BoundaryTags

set_free_listp(h, p) == [h EXCEPT !.free_listp = p]

(* Faulty variant: the old first node does not learn its predecessor.      *)
insert_free_blkOneWay(h, bp) ==
  set_free_listp(set(set(h, bp, NULL), bp + WSIZE, h.free_listp), bp)

insert_free_blk(h, bp) == set_free_listp(push_front(h, bp, h.free_listp), bp)

remove_free_blk(h, bp) ==
  IF prev_lst(h, bp) # NULL THEN unlink(h, bp)
  ELSE set_free_listp(unlink(h, bp), next_lst(h, bp))

(* A neighbour that is free leaves its list; the merged block enters one.  *)
leaves(h, bp, alloc) == IF alloc = 1 THEN h ELSE remove_free_blk(h, bp)
enters(merged) == Result(insert_free_blk(merged.heap, merged.ptr), merged.ptr)

coalesce(h, bp) ==
  LET prev == prev_blkp(h, bp)
      next == next_blkp(h, bp)
      prev_alloc == unpack_alloc(h, get_ftrp(h, prev))
  IN  enters(merge(leaves(leaves(h, next, unpack_alloc(h, get_hdrp(next))), prev, prev_alloc),
                   bp, prev_alloc))

no_links(h, bp) == set(set(h, bp, NULL), bp + WSIZE, NULL)

extend_heap(h, size) ==
  IF HasRoom(h, size) THEN coalesce(no_links(fresh_block(h, size), h.brk), h.brk)
  ELSE Result(h, NULL)

mm_init(h) ==
  LET ext == extend_heap(prologue(mem_sbrk(h, 4 * WSIZE), 0), CHUNKSIZE)
  IN  IF ~HasRoom(h, 4 * WSIZE) THEN Result(h, NULL)
      ELSE IF ext.ptr = NULL THEN ext
      ELSE Result(no_links(ext.heap, ext.ptr), ext.ptr)

FreeList(h) == Walk(h, h.free_listp)

first_fit(h, req_size) ==
  FirstFit(FreeList(h), {bp \in Elements(FreeList(h)) : size_of(h, bp) >= req_size})

place(h, bp, req_size) ==
  LET cur == size_of(h, bp)
      rem == cur - req_size
  IN  IF rem < 2 * DSIZE THEN remove_free_blk(mark(h, bp, cur, 1), bp)
      ELSE insert_free_blk(
             mark(remove_free_blk(mark(h, bp, req_size, 1), bp), bp + req_size, rem, 0),
             bp + req_size)

placed(got, size) ==
  IF got.ptr = NULL THEN got ELSE Result(place(got.heap, got.ptr, size), got.ptr)

mm_malloc(h, size) ==
  LET blk_size == ALIGN(size + DSIZE)
  IN  IF size = 0 THEN Result(h, NULL)
      ELSE placed(serve(h, first_fit(h, blk_size), extend_heap(h, Larger(blk_size, CHUNKSIZE))), blk_size)

mm_free(h, bp) ==
  IF bp = NULL THEN h ELSE coalesce(mark(h, bp, size_of(h, bp), 0), bp).heap

resize(h, ptr, size, new) ==
  CASE ptr = NULL -> new
    [] ptr # NULL /\ size = 0 -> Result(mm_free(h, ptr), NULL)
    [] ptr # NULL /\ size # 0 /\ new.ptr = NULL -> Result(h, NULL)
    [] OTHER -> Result(mm_free(carry(new, ptr, size), ptr), new.ptr)

mm_realloc(h, ptr, size) == resize(h, ptr, size, mm_malloc(h, size))
=============================================================================
