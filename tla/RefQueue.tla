------------------------------ MODULE RefQueue ------------------------------
(***************************************************************************)
(* cbootcamp/extras/ref-queue.c: a queue as a doubly linked list between   *)
(* two boundary records, used by one thread as main.c does, in any order.  *)
(***************************************************************************)
EXTENDS Integers, SequencesExt

CONSTANTS Nodes,        \* addresses malloc may return
          Names,        \* ids
          Lens          \* lengths of data

(* NULL is no address, and a node that is not allocated has no length.     *)
ASSUME QueueAssumption ==
  /\ IsFiniteSet(Nodes) /\ Nodes \subseteq Nat \ {0}
  /\ Lens \subseteq Nat \ {0}

VARIABLES node,         \* address -> node; len 0: not allocated
          head, tail,   \* their queue_pointers
          content       \* what has been queued and not yet taken, oldest first

queueVars == <<node, head, tail, content>>

NULL == 0
Freed == [id |-> "", len |-> 0, next |-> NULL, prev |-> NULL]

init_queue ==
  /\ node = [a \in Nodes |-> Freed]
  /\ head = NULL /\ tail = NULL
  /\ content = <<>>

(* enqueue, and add_node when there is a node already.                     *)
enqueue ==
  \E a \in Nodes, id \in Names, size \in Lens :
    /\ node[a] = Freed /\ \A b \in Nodes : b < a => node[b] # Freed
    /\ tail' = a
    /\ IF head = NULL
       THEN /\ head' = a
            /\ node' = [node EXCEPT ![a] = [id |-> id, len |-> size, next |-> NULL, prev |-> NULL]]
       ELSE /\ node' = [node EXCEPT ![tail].next = a,
                                    ![a] = [id |-> id, len |-> size, next |-> NULL, prev |-> tail]]
            /\ UNCHANGED head
    /\ content' = Append(content, <<id, size>>)

(* dequeue into a buffer of the given size, and free_node; it reads the    *)
(* first node without asking whether there is one, so the caller has to.   *)
(* Faulty variant: the tail goes on pointing to the last node.             *)
dequeueKeepsTail(size) ==
  /\ head # NULL /\ size >= node[head].len
  /\ IF node[head].next # NULL
     THEN /\ head' = node[head].next
          /\ node' = [node EXCEPT ![node[head].next].prev = NULL, ![head] = Freed]
     ELSE head' = NULL /\ node' = [node EXCEPT ![head] = Freed]
  /\ UNCHANGED tail
  /\ content' = Tail(content)

dequeue(size) ==
  /\ head # NULL /\ size >= node[head].len
  /\ IF node[head].next # NULL
     THEN /\ head' = node[head].next
          /\ node' = [node EXCEPT ![node[head].next].prev = NULL, ![head] = Freed]
          /\ UNCHANGED tail
     ELSE head' = NULL /\ tail' = NULL /\ node' = [node EXCEPT ![head] = Freed]
  /\ content' = Tail(content)

QueueNext == enqueue \/ \E size \in Lens : dequeue(size)

(* The nodes in the order of their next pointers.                          *)
Chain ==
  LET after[n \in 0..Cardinality(Nodes)] ==
        IF n = 0 THEN IF head = NULL THEN <<>> ELSE <<head>>
        ELSE IF after[n - 1] = <<>> \/ node[Last(after[n - 1])].next = NULL THEN after[n - 1]
             ELSE Append(after[n - 1], node[Last(after[n - 1])].next)
  IN  after[Cardinality(Nodes)]

find_object(id) ==
  LET chain == Chain
      found == {i \in DOMAIN chain : node[chain[i]].id = id}
  IN  IF found = {} THEN NULL ELSE chain[CHOOSE i \in found : \A j \in found : i <= j]

(* The list holds what was queued and not yet taken, in that order; it can *)
(* be walked back from the tail too; all that is allocated is in it; and a *)
(* name is found exactly when it is queued, at its oldest entry.           *)
QueueRight ==
  LET chain == Chain
  IN  /\ [i \in DOMAIN chain |-> <<node[chain[i]].id, node[chain[i]].len>>] = content
      /\ {a \in Nodes : node[a] # Freed} = ToSet(chain)
      /\ tail = IF chain = <<>> THEN NULL ELSE Last(chain)
      /\ \A i \in DOMAIN chain : node[chain[i]].prev = IF i = 1 THEN NULL ELSE chain[i - 1]
      /\ \A id \in Names :
           IF \E i \in DOMAIN content : content[i][1] = id
           THEN find_object(id) = chain[CHOOSE i \in DOMAIN content :
                  content[i][1] = id /\ \A j \in 1..(i - 1) : content[j][1] # id]
           ELSE find_object(id) = NULL
=============================================================================
