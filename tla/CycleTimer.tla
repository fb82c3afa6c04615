----------------------------- MODULE CycleTimer -----------------------------
(***************************************************************************)
(* malloclab-handout/fsecs.c and the timers below it.  With USE_FCYC a     *)
(* function is measured in cycles (clock.c) until the K smallest           *)
(* measurements agree (fcyc.c), each with a buffer read through before it  *)
(* to clear the cache; with USE_ITIMER or USE_GETTOD it is run n times by  *)
(* the clock (ftimer.c).                                                   *)
(***************************************************************************)
EXTENDS Integers, SequencesExt, Totals

CONSTANTS Cycles,       \* that a run may take
          Ticks,        \* timer interrupts meanwhile
          Gaps,         \* what callibrate may see: cycles between two readings, and ticks
          WordSize,     \* values of a word of the counter, 2^32
          Starts,       \* readings of the counter when a run starts
          Ks, maxsamples, NEVENT, RECORDTHRESH,
          CacheSizes,   \* for the buffer, positive
          Usecs,        \* microseconds to the second
          MAX_ETIME,    \* seconds the interval timer is set to
          Durations, Runs   \* microseconds that a run may take; n

(* A run is shorter than the counter takes to come round, and interrupts   *)
(* are counted.                                                            *)
ASSUME TimerAssumption ==
  /\ WordSize \in Nat \ {0} /\ Usecs \in Nat \ {0} /\ RECORDTHRESH \in Nat
  /\ MAX_ETIME \in Nat \ {0}
  /\ Cycles \subseteq 0..(WordSize * WordSize - 1)
  /\ Ticks \subseteq Nat /\ Starts \subseteq Nat /\ Durations \subseteq Nat
  /\ Ks \subseteq Nat \ {0} /\ CacheSizes \subseteq Nat \ {0} /\ Runs \in Nat
  /\ \A gap \in Gaps : gap.cycles \in Nat /\ gap.ticks \in Nat \ {0}

VARIABLE fcyc       \* kbest, compensate, clear_cache, cyc_per_tick, cache_bytes,
                    \* cache_buf (0: NULL), values, all samples

timerVars == <<fcyc>>

init_fsecs(scheme) ==
  fcyc = [scheme |-> scheme, pc |-> "idle", kbest |-> 3, compensate |-> TRUE,
          clear_cache |-> TRUE, cyc_per_tick |-> 0, cache_bytes |-> 4, cache_buf |-> 0,
          values |-> <<>>, samples |-> <<>>, result |-> 0]

Idle(scheme) == fcyc.pc = "idle" /\ fcyc.scheme = scheme
Set(timer) == Idle("FCYC") /\ fcyc' = [timer EXCEPT !.samples = <<>>, !.result = 0]

set_fcyc_k           == \E k \in Ks : Set([fcyc EXCEPT !.kbest = k])
set_fcyc_compensate  == Set([fcyc EXCEPT !.compensate = ~@])
set_fcyc_clear_cache == Set([fcyc EXCEPT !.clear_cache = ~@])

(* A buffer of another size is given back.                                 *)
set_fcyc_cache_size ==
  \E bytes \in CacheSizes \ {fcyc.cache_bytes} :
    Set([fcyc EXCEPT !.cache_bytes = bytes, !.cache_buf = 0])

(***************************************************************************)
(* clock.c, on a Pentium: the counter is read as two words.                *)
(***************************************************************************)
access_counter(now) == [hi |-> (now \div WordSize) % WordSize, lo |-> now % WordSize]

(* The cycles since start_counter.                                         *)
get_counter(start, now) ==
  LET cyc  == access_counter(start)
      ncyc == access_counter(now)
      lo   == (ncyc.lo - cyc.lo) % WordSize
      borrow == IF lo > ncyc.lo THEN 1 ELSE 0
  IN  ((ncyc.hi - cyc.hi - borrow) % WordSize) * WordSize + lo

(* The least ratio that could be an interrupt, 0 when none could.          *)
callibrate(events) ==
  LET ratios == {events[e].cycles \div events[e].ticks : e \in DOMAIN events}
      interrupts == {cpt \in ratios : cpt > RECORDTHRESH}
  IN  IF interrupts = {} THEN 0 ELSE Min(interrupts)

(* What start_comp_counter leaves in cyc_per_tick.                         *)
start_comp_counter ==
  IF fcyc.cyc_per_tick # 0 THEN {fcyc.cyc_per_tick}
  ELSE {callibrate(events) : events \in [1..NEVENT -> Gaps]}

get_comp_counter(start, now, ticks, cyc_per_tick) ==
  get_counter(start, now) - ticks * cyc_per_tick

(***************************************************************************)
(* fcyc.c                                                                  *)
(***************************************************************************)
(* init_sampler.                                                           *)
Start ==
  /\ Idle("FCYC")
  /\ fcyc' = [fcyc EXCEPT !.pc = "sample", !.values = [i \in 1..fcyc.kbest |-> 0],
                          !.samples = <<>>]

(* add_sample: the new value replaces the greatest when it is smaller, and *)
(* is sorted in.  Faulty variant: it always does.                          *)
Insert(values, count, val) ==
  LET greater == {i \in 1..count : values[i] > val}
      pos == IF greater = {} THEN count + 1 ELSE Min(greater)
  IN  [i \in DOMAIN values |-> CASE i = pos                 -> val
                                 [] i \in pos + 1 .. count + 1 -> values[i - 1]
                                 [] OTHER                   -> values[i]]
add_sampleAlways(values, count, kbest, val) ==
  IF count < kbest THEN Insert(values, count, val) ELSE Insert(values, kbest - 1, val)

add_sample(values, count, kbest, val) ==
  IF count < kbest THEN Insert(values, count, val)
  ELSE IF val < values[kbest] THEN Insert(values, kbest - 1, val) ELSE values

(* The K smallest are within one per cent of each other.                   *)
has_converged(values, count, kbest) ==
  count >= kbest /\ 101 * values[1] >= 100 * values[kbest]

(* clear: what there is to read when cache_bytes are read.                 *)
clear(timer) ==
  IF timer.clear_cache /\ timer.cache_buf = 0 THEN timer.cache_bytes ELSE timer.cache_buf

(* A turn of fcyc's loop, in either of its forms.  samples keeps what the  *)
(* run took, less the interrupts that are compensated for.                 *)
Sample ==
  /\ fcyc.pc = "sample"
  /\ \E cyc_per_tick \in (IF fcyc.compensate THEN start_comp_counter ELSE {fcyc.cyc_per_tick}),
        cycles \in Cycles, ticks \in Ticks, start \in Starts :
       LET cyc == IF fcyc.compensate
                  THEN get_comp_counter(start, start + cycles, ticks, cyc_per_tick)
                  ELSE get_counter(start, start + cycles)
           samples == Append(fcyc.samples,
                        cycles - (IF fcyc.compensate THEN ticks * cyc_per_tick ELSE 0))
           values  == add_sample(fcyc.values, Len(fcyc.samples), fcyc.kbest, cyc)
           over    == has_converged(values, Len(samples), fcyc.kbest) \/ Len(samples) >= maxsamples
       IN  fcyc' = [fcyc EXCEPT
             !.pc = IF over THEN "idle" ELSE "sample",
             !.cyc_per_tick = cyc_per_tick,
             !.cache_buf = clear(fcyc),
             !.samples = samples, !.values = IF over THEN <<>> ELSE values,
             !.result = IF over THEN values[1] ELSE @]

(***************************************************************************)
(* ftimer.c, before it divides by n.                                       *)
(***************************************************************************)
Timeval(usec) == [tv_sec |-> usec \div Usecs, tv_usec |-> usec % Usecs]

ftimer_gettod(now, spent) ==
  LET stv == Timeval(now)
      etv == Timeval(now + spent)
  IN  Usecs * (etv.tv_sec - stv.tv_sec) + (etv.tv_usec - stv.tv_usec)

(* get_etime: init_etime has set the timer, which counts down.             *)
get_etime(elapsed) ==
  LET r_curr == Timeval(MAX_ETIME * Usecs - elapsed)
  IN  (MAX_ETIME - r_curr.tv_sec) * Usecs + (0 - r_curr.tv_usec)
ftimer_itimer(begun, spent) == get_etime(begun + spent) - get_etime(begun)

(* fsecs with one of these: n runs, of which the first begins at any time  *)
(* after the call (now).  When the interval timer runs out its signal,     *)
(* which nobody catches, is the end of the process.                        *)
fsecs(scheme) ==
  /\ Idle(scheme)
  /\ \E runs \in [1..Runs -> Durations], now \in 0..(Usecs - 1) :
       LET spent == Total(runs)
           over  == scheme = "ITIMER" /\ now + spent >= MAX_ETIME * Usecs
       IN  fcyc' = IF over THEN [fcyc EXCEPT !.pc = "killed"]
                   ELSE [fcyc EXCEPT !.samples = runs,
                           !.result = IF scheme = "GETTOD" THEN ftimer_gettod(now, spent)
                                      ELSE ftimer_itimer(now, spent)]

TimerNext ==
  \/ set_fcyc_k \/ set_fcyc_compensate \/ set_fcyc_clear_cache \/ set_fcyc_cache_size
  \/ Start \/ Sample
  \/ fsecs("ITIMER") \/ fsecs("GETTOD")

(* v is the i-th smallest of the samples.                                  *)
Ranks(samples, i, v) ==
  /\ Cardinality({j \in DOMAIN samples : samples[j] < v}) < i
  /\ i <= Cardinality({j \in DOMAIN samples : samples[j] <= v})

(* While it measures, the values kept are the K smallest of what the runs  *)
(* took, in order, wherever the two words of the counter stood: the loop   *)
(* ends as soon as those agree and the result is the least.  The clocks    *)
(* give the time of all n runs, whichever fields carry.  And no read of    *)
(* clear goes beyond the buffer it is made in.                             *)
KBestKept ==
  LET count == Len(fcyc.samples)
      k == IF count < fcyc.kbest THEN count ELSE fcyc.kbest
  IN  /\ fcyc.pc = "sample" => \A i \in 1..k : Ranks(fcyc.samples, i, fcyc.values[i])
      /\ fcyc.pc = "idle" /\ count > 0 =>
           IF fcyc.scheme = "FCYC" THEN Ranks(fcyc.samples, 1, fcyc.result)
           ELSE fcyc.result = Total(fcyc.samples)
      /\ fcyc.cache_buf # 0 => fcyc.cache_bytes <= fcyc.cache_buf
=============================================================================
