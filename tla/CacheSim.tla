------------------------------ MODULE CacheSim ------------------------------
(***************************************************************************)
(* cachelab-handout/csim.c: the cache simulator, run on a trace, and beside*)
(* it the cache that it should simulate: each set keeps its tags in the    *)
(* order of their last use and gives up the one used longest ago.          *)
(***************************************************************************)
EXTENDS Integers, SequencesExt

(* set, E, block: the geometry.  A line's valid is the time of its last    *)
(* use, 0 for a line never used.                                           *)
init_cache(set, E, block) ==
  [set |-> set, E |-> E, block |-> block, cnt |-> 1, hits |-> 0, misses |-> 0, evictions |-> 0,
   caches |-> [i \in 0..(2^set - 1) |-> [l \in 1..E |-> [valid |-> 0, tag |-> 0]]]]

Tag(c, addr)      == addr \div 2^(c.set + c.block)
SetIndex(c, addr) == (addr \div 2^c.block) % 2^c.set

(* The line of a miss: the first that is not valid, else the oldest.       *)
Victim(lines) ==
  CHOOSE l \in DOMAIN lines :
    /\ \A k \in DOMAIN lines : lines[l].valid <= lines[k].valid
    /\ \A k \in DOMAIN lines : lines[k].valid = lines[l].valid => l <= k

(* Faulty variant: a hit does not renew its line.                          *)
find_cacheStale(c, addr) ==
  LET lines == c.caches[SetIndex(c, addr)]
      found == {l \in DOMAIN lines : lines[l].valid > 0 /\ lines[l].tag = Tag(c, addr)}
      victim == Victim(lines)
  IN  IF found # {}
      THEN [c EXCEPT !.hits = @ + 1]
      ELSE [c EXCEPT !.misses = @ + 1, !.cnt = @ + 1,
                     !.evictions = @ + (IF lines[victim].valid > 0 THEN 1 ELSE 0),
                     !.caches[SetIndex(c, addr)][victim] = [valid |-> c.cnt, tag |-> Tag(c, addr)]]

find_cache(c, addr) ==
  LET lines == c.caches[SetIndex(c, addr)]
      found == {l \in DOMAIN lines : lines[l].valid > 0 /\ lines[l].tag = Tag(c, addr)}
      victim == Victim(lines)
  IN  IF found # {}
      THEN [c EXCEPT !.hits = @ + 1, !.cnt = @ + 1,
                     !.caches[SetIndex(c, addr)][CHOOSE l \in found : TRUE].valid = c.cnt]
      ELSE [c EXCEPT !.misses = @ + 1, !.cnt = @ + 1,
                     !.evictions = @ + (IF lines[victim].valid > 0 THEN 1 ELSE 0),
                     !.caches[SetIndex(c, addr)][victim] = [valid |-> c.cnt, tag |-> Tag(c, addr)]]

(* A line of the trace.                                                    *)
simulate(c, op, addr) ==
  CASE op = "I"          -> c
    [] op \in {"L", "S"} -> find_cache(c, addr)
    [] op = "M"          -> LET d == find_cache(c, addr) IN [d EXCEPT !.hits = @ + 1]

(***************************************************************************)
(* The textbook's cache: block numbers, per set, the latest first.         *)
(***************************************************************************)
NoBlocks(set) == [hits |-> 0, misses |-> 0, evictions |-> 0,
                  used |-> [i \in 0..(2^set - 1) |-> <<>>]]

(* The block comes first; the one that leaves its place is the block       *)
(* itself or, when it is not in a full set, the last.                      *)
Touch(t, c, addr) ==
  LET i == SetIndex(c, addr)
      used == t.used[i]
      at   == {p \in DOMAIN used : used[p] = Tag(c, addr)}
      hit  == at # {}
      out  == IF hit THEN CHOOSE p \in at : TRUE ELSE c.E
  IN  [hits      |-> t.hits + (IF hit THEN 1 ELSE 0),
       misses    |-> t.misses + (IF hit THEN 0 ELSE 1),
       evictions |-> t.evictions + (IF ~hit /\ Len(used) = c.E THEN 1 ELSE 0),
       used      |-> [t.used EXCEPT ![i] = <<Tag(c, addr)>> \o
                        (IF out \in DOMAIN used THEN RemoveAt(used, out) ELSE used)]]

(* An instruction fetch is no access, a modification is two.               *)
Textbook(t, c, op, addr) ==
  CASE op = "I"          -> t
    [] op \in {"L", "S"} -> Touch(t, c, addr)
    [] op = "M"          -> LET u == Touch(t, c, addr) IN Touch(u, c, addr)

(***************************************************************************)
(* A run of csim on any trace.                                             *)
(***************************************************************************)
CONSTANTS SetBits, BlockBits,   \* -s and -b
          LinesPerSet,          \* what -E may be
          Addresses, MaxTrace

(* parse_cmd wants each of them positive; so are the powers that the       *)
(* shifts stand for.                                                       *)
ASSUME GeometryAssumption ==
  /\ \A n \in {SetBits, BlockBits, SetBits + BlockBits} : n \in Nat \ {0} /\ 2^n \in Nat \ {0}
  /\ LinesPerSet # {} /\ LinesPerSet \subseteq Nat \ {0}
  /\ Addresses \subseteq Nat

VARIABLE csim       \* the simulator, the textbook's cache, lines read

CsimStart(E) ==
  csim = [sim |-> init_cache(SetBits, E, BlockBits), ideal |-> NoBlocks(SetBits), read |-> 0]

read_from_file ==
  /\ csim.read < MaxTrace
  /\ \E op \in {"I", "L", "S", "M"}, addr \in Addresses :
       csim' = [sim   |-> simulate(csim.sim, op, addr),
                ideal |-> Textbook(csim.ideal, csim.sim, op, addr),
                read  |-> csim.read + 1]

(* The summary of hits, misses and evictions is that of the textbook's     *)
(* cache after any trace: the times kept in the lines and the order in     *)
(* which lines are filled evict the least recently used block.             *)
SimulatorExact ==
  /\ csim.sim.hits = csim.ideal.hits
  /\ csim.sim.misses = csim.ideal.misses
  /\ csim.sim.evictions = csim.ideal.evictions
=============================================================================
