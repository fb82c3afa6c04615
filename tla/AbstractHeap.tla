---------------------------- MODULE AbstractHeap ----------------------------
(***************************************************************************)
(* What an allocator promises its client: live payloads are aligned, lie   *)
(* in the heap, are pairwise disjoint and keep what the client wrote to    *)
(* them; a reallocated payload keeps as much of its content as fits.       *)
(***************************************************************************)
EXTENDS Naturals, Sequences

CONSTANT Size        \* bytes of memory

VARIABLE live        \* payload id -> its address and its words

End(r) == r.lo + 4 * Len(r.data)

Fits(r, others) ==
  /\ r.lo % 8 = 0 /\ r.lo > 0 /\ End(r) <= Size
  /\ \A id \in DOMAIN others : End(r) <= others[id].lo \/ End(others[id]) <= r.lo

Without(id) == [j \in DOMAIN live \ {id} |-> live[j]]

(* live' is known but for the payload of id.                               *)
Gets(id) ==
  /\ DOMAIN live' = DOMAIN live \cup {id}
  /\ \A j \in DOMAIN live \ {id} : live'[j] = live[j]
  /\ Fits(live'[id], Without(id))

Init == live = <<>>

Malloc == \E id \in DOMAIN live' \ DOMAIN live : Gets(id)

Realloc ==
  \E id \in DOMAIN live :
    /\ Gets(id)
    /\ \A k \in DOMAIN live[id].data \cap DOMAIN live'[id].data :
         live'[id].data[k] = live[id].data[k]

Free == \E id \in DOMAIN live : live' = Without(id)

(* The break is reset, the package initialised anew.                       *)
Reset == live' = <<>>

Next == Malloc \/ Realloc \/ Free \/ Reset

Spec == Init /\ [][Next]_live
=============================================================================
