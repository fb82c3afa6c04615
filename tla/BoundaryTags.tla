---------------------------- MODULE BoundaryTags ----------------------------
(***************************************************************************)
(* The heap the allocators of malloclab-handout work on: the simulated     *)
(* memory of memlib.c and the blocks with a header and a footer word that  *)
(* mm.c, mm_right.c, mm_list.c and mm_blk.c share.                         *)
(*                                                                         *)
(* A heap is a record of its words, its break and mm_list.c's static list  *)
(* head.  Addresses are byte offsets from the start of the heap, which is  *)
(* no block's address, so 0 is NULL as it is in the code's words.  A C     *)
(* routine that writes the heap is an operator that returns the new one.   *)
(***************************************************************************)
EXTENDS Naturals

CONSTANTS MAX_HEAP,    \* bytes of memory mem_sbrk has to give
          CHUNKSIZE,   \* least bytes by which a heap is extended
          CLASSNUM     \* free lists of the segregated allocators

ASSUME HeapAssumption ==
  /\ MAX_HEAP \in Nat /\ MAX_HEAP % 8 = 0
  /\ CHUNKSIZE \in Nat /\ CHUNKSIZE % 8 = 0 /\ CHUNKSIZE >= 16
  /\ CLASSNUM \in Nat /\ CLASSNUM % 2 = 0 /\ CLASSNUM >= 2

NULL  == 0
WSIZE == 4
DSIZE == 8
ALIGN(size) == ((size + 7) \div 8) * 8
Larger(x, y)  == IF x > y THEN x ELSE y
Smaller(x, y) == IF x < y THEN x ELSE y

Word == 0..(MAX_HEAP \div WSIZE - 1)

(* mem_init; what malloc gives is never read before it is written.         *)
mem_init == [mem |-> [w \in Word |-> 0], brk |-> 0, free_listp |-> NULL]

(* Faulty variant: nothing is reset.                                       *)
mem_reset_brkForgotten(h) == h

(* The words keep what they held.                                          *)
mem_reset_brk(h) == [h EXCEPT !.brk = 0]

HasRoom(h, incr)  == h.brk + incr <= MAX_HEAP
mem_sbrk(h, incr) == [h EXCEPT !.brk = @ + incr]

get(h, p)    == h.mem[p \div WSIZE]
set(h, p, v) == [h EXCEPT !.mem[p \div WSIZE] = v]

(* Sizes are multiples of 8, so the low bit is free for the allocated flag.*)
pack(size, alloc)  == size + alloc
unpack_size(h, p)  == (get(h, p) \div 8) * 8
unpack_alloc(h, p) == get(h, p) % 2

get_hdrp(p)     == p - WSIZE
get_ftrp(h, p)  == p + unpack_size(h, get_hdrp(p)) - DSIZE
prev_blkp(h, p) == p - unpack_size(h, p - DSIZE)
next_blkp(h, p) == p + unpack_size(h, get_hdrp(p))
prev_lst(h, p)  == get(h, p)
next_lst(h, p)  == get(h, p + WSIZE)

size_of(h, p) == unpack_size(h, get_hdrp(p))
is_free(h, p) == unpack_alloc(h, get_hdrp(p)) = 0

(* Header and footer of the block at p.                                    *)
mark(h, p, size, alloc) ==
  set(set(h, get_hdrp(p), pack(size, alloc)), p + size - DSIZE, pack(size, alloc))

(* Alignment word, prologue block and epilogue header from address a on.   *)
prologue(h, a) ==
  set(set(set(set(h, a, 0), a + WSIZE, pack(DSIZE, 1)), a + 2 * WSIZE, pack(DSIZE, 1)),
      a + 3 * WSIZE, pack(0, 1))

(* A free block of size bytes at the break; its header is the old epilogue.*)
fresh_block(h, size) ==
  LET bp == h.brk
      g  == mark(mem_sbrk(h, size), bp, size, 0)
  IN  set(g, get_hdrp(next_blkp(g, bp)), pack(0, 1))

(* What a call leaves and returns.                                         *)
Result(h, p) == [heap |-> h, ptr |-> p]

(* The free block at bp takes in its free neighbours.                      *)
merge(h, bp, prev_alloc) ==
  LET prev == prev_blkp(h, bp)
      next == next_blkp(h, bp)
      start == IF prev_alloc = 1 THEN bp ELSE prev
      size  == size_of(h, bp) + (IF is_free(h, next) THEN size_of(h, next) ELSE 0)
                              + (IF prev_alloc = 1 THEN 0 ELSE size_of(h, prev))
  IN  IF start = bp /\ ~is_free(h, next) THEN Result(h, bp)
      ELSE Result(mark(h, start, size, 0), start)

(* memcpy of whole words between two blocks.                               *)
memcpy(h, to, from, bytes) ==
  [h EXCEPT !.mem = [w \in Word |->
     IF w \in (to \div WSIZE)..((to + bytes) \div WSIZE - 1)
     THEN h.mem[w - to \div WSIZE + from \div WSIZE] ELSE h.mem[w]]]

(* memset of whole words.                                                  *)
memset(h, p, v, bytes) ==
  [h EXCEPT !.mem = [w \in Word |->
     IF w \in (p \div WSIZE)..((p + bytes) \div WSIZE - 1) THEN v ELSE h.mem[w]]]

(* mm_malloc's choice: the block found, or one from an extended heap.      *)
serve(h, bp, ext) == IF bp # NULL THEN Result(h, bp) ELSE ext

(* mm_realloc's copy into the block that mm_malloc has returned.           *)
carry(new, ptr, size) == memcpy(new.heap, new.ptr, ptr, Smaller(size, size_of(new.heap, ptr)))

(***************************************************************************)
(* Doubly linked lists of free blocks, linked through their payloads.      *)
(***************************************************************************)
push_front(h, bp, root) ==
  LET h1 == set(set(h, bp, NULL), bp + WSIZE, root)
  IN  IF root = NULL THEN h1 ELSE set(h1, root, bp)

unlink(h, bp) ==
  LET prev == prev_lst(h, bp)
      next == next_lst(h, bp)
      h1   == IF next = NULL THEN h ELSE set(h, next, prev)
  IN  IF prev = NULL THEN h1 ELSE set(h1, prev + WSIZE, next)

(* The n-th element of a list from p, NULL behind its end.  A block has at *)
(* least two double words, the prologue and the epilogue have less.        *)
Steps == 0..(MAX_HEAP \div (2 * DSIZE) + 2)

Walk(h, p) ==
  LET node[n \in Steps] ==
        IF n = 0 THEN p
        ELSE LET at == node[n - 1] IN IF at = NULL THEN NULL ELSE next_lst(h, at)
  IN  node

Elements(walk) == {walk[n] : n \in Steps} \ {NULL}

(* The first element of a walk that is one of fits, NULL if none is.       *)
FirstFit(walk, fits) ==
  LET found == {n \in Steps : walk[n] # NULL /\ walk[n] \in fits}
  IN  IF found = {} THEN NULL ELSE walk[CHOOSE n \in found : \A m \in found : n <= m]
=============================================================================
