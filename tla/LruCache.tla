------------------------------ MODULE LruCache ------------------------------
(***************************************************************************)
(* What the object cache of the proxy promises: a list of objects, the one *)
(* used last in front, from which only the object at the end is evicted.   *)
(* The same object may be in it more than once.                            *)
(***************************************************************************)
EXTENDS Naturals, Sequences

CONSTANTS Url, MaxCache

VARIABLE recency

Init == recency = <<>>

(* A hit moves the object to the front.                                    *)
Touch(i) ==
  recency' = <<recency[i]>> \o SubSeq(recency, 1, i - 1)
                            \o SubSeq(recency, i + 1, Len(recency))

Evict == recency # <<>> /\ recency' = SubSeq(recency, 1, Len(recency) - 1)

Insert(u) == Len(recency) < MaxCache /\ recency' = <<u>> \o recency

Next == Evict \/ (\E i \in 1..Len(recency) : Touch(i)) \/ \E u \in Url : Insert(u)

Spec == Init /\ [][Next]_recency
=============================================================================
