---------------------------- MODULE MdriverMain ----------------------------
(***************************************************************************)
(* malloclab-handout/mdriver.c's main: the options, the team, libc's malloc*)
(* and the package over the trace files, and the performance index.  What  *)
(* a trace does to a package is MallocDriver's; here it is valid or not,   *)
(* and its utilisation and its seconds are what eval_mm_util and fsecs     *)
(* return.                                                                 *)
(***************************************************************************)
EXTENDS Integers, SequencesExt, Totals

CONSTANTS MaxArgs,      \* bound on the options given
          DEFAULT_TRACEFILES,   \* how many
          NumOps, Utils, Secs,  \* of a trace: requests, percent, seconds
          AVG_LIBC_THRUPUT

CONSTANT Teams          \* mm.c's team: which of its fields are filled in

(* Every trace has requests, and a share of the heap is used at most.      *)
ASSUME MdriverAssumption ==
  /\ DEFAULT_TRACEFILES \in Nat \ {0} /\ AVG_LIBC_THRUPUT \in Nat \ {0}
  /\ NumOps \subseteq Nat \ {0} /\ Utils \subseteq 0..100 /\ Secs \subseteq Nat

VARIABLE md

TRACEDIR == "./traces"
UTIL_WEIGHT == 60       \* per cent

NoIndex == [sums |-> <<>>, perfindex |-> 0, numcorrect |-> 0]

MdriverStart(team) ==
  md = [pc |-> "getopt", args |-> <<>>, team |-> team, tracedir |-> TRACEDIR, tracefiles |-> 0,
        team_check |-> TRUE, run_libc |-> FALSE, autograder |-> FALSE,
        libc_stats |-> <<>>, mm_stats |-> <<>>, errors |-> 0, table |-> <<>>, printed |-> NoIndex]

(* An option; -v only prints.  Faulty variant: -t is not ignored after -f. *)
OptionAny(opt) ==
  CASE opt = "f" -> [md EXCEPT !.tracefiles = 1, !.tracedir = "./"]
    [] opt = "t" -> [md EXCEPT !.tracedir = "dir/"]
    [] OTHER     -> md

Option(opt) ==
  CASE opt = "g" -> [md EXCEPT !.autograder = TRUE]
    [] opt = "f" -> [md EXCEPT !.tracefiles = 1, !.tracedir = "./"]
    [] opt = "t" -> IF md.tracefiles = 1 THEN md ELSE [md EXCEPT !.tracedir = "dir/"]
    [] opt = "a" -> [md EXCEPT !.team_check = FALSE]
    [] opt = "l" -> [md EXCEPT !.run_libc = TRUE]
    [] opt = "h" -> [md EXCEPT !.pc = "exit"]

Getopt ==
  /\ md.pc = "getopt" /\ Len(md.args) < MaxArgs
  /\ \E opt \in {"g", "f", "t", "a", "l", "h"} :
       md' = [Option(opt) EXCEPT !.args = Append(@, opt)]

(* The team's name, all of its first member, all or nothing of the second. *)
TeamOK(team) == team.teamname /\ team.name1 /\ team.id1 /\ (team.name2 <=> team.id2)

CheckTeam ==
  /\ md.pc = "getopt"
  /\ md' = [md EXCEPT !.pc = IF md.team_check /\ ~TeamOK(md.team) THEN "exit"
                             ELSE IF md.run_libc THEN "libc" ELSE "mm",
                      !.tracefiles = IF @ = 0 THEN DEFAULT_TRACEFILES ELSE @]

(* read_trace joins the two names as they are: there is a trace to open    *)
(* only where the directory's ends with a slash.                           *)
Unread(stats) == Len(stats) < md.tracefiles
read_trace(stats) == Unread(stats) /\ md.tracedir \in {"./", "dir/"}

(* It finds no file or a bogus one.                                        *)
BadTrace ==
  /\ (md.pc = "libc" /\ Unread(md.libc_stats)) \/ (md.pc = "mm" /\ Unread(md.mm_stats))
  /\ md' = [md EXCEPT !.pc = "exit"]

(* The next trace with libc's malloc, first for its return values; where it*)
(* fails the driver ends, after malloc_error.                              *)
eval_libc_valid ==
  /\ md.pc = "libc" /\ read_trace(md.libc_stats)
  /\ \/ \E ops \in NumOps :
          md' = [md EXCEPT !.pc = "libc_speed", !.libc_stats =
                   Append(@, [ops |-> ops, valid |-> TRUE, secs |-> 0, util |-> 0])]
     \/ md' = [md EXCEPT !.pc = "exit", !.errors = @ + 1]

eval_libc_speed ==
  /\ md.pc = "libc_speed"
  /\ \/ \E secs \in Secs :
          md' = [md EXCEPT !.pc = "libc", !.libc_stats[Len(md.libc_stats)].secs = secs]
     \/ md' = [md EXCEPT !.pc = "exit"]

LibcDone ==
  /\ md.pc = "libc" /\ Len(md.libc_stats) = md.tracefiles
  /\ md' = [md EXCEPT !.pc = "mm"]

(* The next trace for the package: eval_mm_valid has counted an error when *)
(* it is not valid, and the zeros of calloc stay in its statistics.        *)
MmTrace ==
  /\ md.pc = "mm" /\ read_trace(md.mm_stats)
  /\ \E ops \in NumOps :
       \/ \E util \in Utils, secs \in Secs :
            md' = [md EXCEPT !.mm_stats =
                     Append(@, [ops |-> ops, valid |-> TRUE, secs |-> secs, util |-> util])]
       \/ md' = [md EXCEPT !.errors = @ + 1, !.mm_stats =
                   Append(@, [ops |-> ops, valid |-> FALSE, secs |-> 0, util |-> 0])]

(* Three totals, over the traces that count: seconds, requests,            *)
(* utilisation.                                                            *)
Sums(stats, counted) ==
  LET secs == [i \in DOMAIN stats |-> IF i \in counted THEN stats[i].secs ELSE 0]
      ops  == [i \in DOMAIN stats |-> IF i \in counted THEN stats[i].ops ELSE 0]
      util == [i \in DOMAIN stats |-> IF i \in counted THEN stats[i].util ELSE 0]
  IN  <<Total(secs), Total(ops), Total(util)>>

Valid(stats) == {i \in DOMAIN stats : stats[i].valid}

(* The last row of printresults' table: the valid traces, when all are.    *)
printresults(stats) == IF md.errors = 0 THEN Sums(stats, Valid(stats)) ELSE <<>>

(* What "%.0f" may print of num / den: the nearest number, and either one  *)
(* of a tie, where the double may lie on either side.                      *)
Nearest(num, den) ==
  {q \in {num \div den, num \div den + 1} :
     2 * num <= (2 * q + 1) * den /\ (2 * q - 1) * den <= 2 * num}

(* Utilisation and throughput, the latter up to that of libc.  Faulty      *)
(* variant: however much it is.                                            *)
PerfIndexUncapped(secs, ops, util) ==
  LET full == 100 * md.tracefiles
      libc == AVG_LIBC_THRUPUT * secs
  IN  IF libc = 0 THEN Nearest(UTIL_WEIGHT * util + (100 - UTIL_WEIGHT) * full, full)
      ELSE Nearest(UTIL_WEIGHT * util * libc + (100 - UTIL_WEIGHT) * ops * full, full * libc)

PerfIndex(secs, ops, util) ==
  LET full == 100 * md.tracefiles
      libc == AVG_LIBC_THRUPUT * secs
  IN  IF ops > libc THEN Nearest(UTIL_WEIGHT * util + (100 - UTIL_WEIGHT) * full, full)
      ELSE Nearest(UTIL_WEIGHT * util * libc + (100 - UTIL_WEIGHT) * ops * full, full * libc)

Report ==
  /\ md.pc = "mm" /\ Len(md.mm_stats) = md.tracefiles
  /\ LET sums == Sums(md.mm_stats, DOMAIN md.mm_stats)
     IN  \E perfindex \in IF md.errors = 0 THEN PerfIndex(sums[1], sums[2], sums[3]) ELSE {0} :
           md' = [md EXCEPT !.pc = "exit", !.table = printresults(md.mm_stats),
                    !.printed = [sums |-> sums, perfindex |-> perfindex,
                                 numcorrect |-> Cardinality(Valid(md.mm_stats))]]

MdriverNext ==
  \/ Getopt \/ CheckTeam \/ BadTrace
  \/ eval_libc_valid \/ eval_libc_speed \/ LibcDone
  \/ MmTrace \/ Report

(* The files read are those the options name in whatever order they come,  *)
(* and none is read without one of these: the directory of config.h lacks  *)
(* its slash.  An index is given exactly when every trace is valid, from   *)
(* the totals of the table, and throughput beyond that of libc's malloc    *)
(* does not make up for space: an index is at most 40, and 60 times the    *)
(* average utilisation, and a half for its rounding.                       *)
IndexRight ==
  LET given == "f" \in ToSet(md.args)
      named == {"f", "t"} \cap ToSet(md.args) # {}
      valid == Valid(md.mm_stats)
      reported == md.printed # NoIndex
  IN  /\ md.pc \in {"libc", "mm"} => md.tracefiles = IF given THEN 1 ELSE DEFAULT_TRACEFILES
      /\ md.tracedir = IF given THEN "./" ELSE IF "t" \in ToSet(md.args) THEN "dir/" ELSE TRACEDIR
      /\ Len(md.libc_stats) + Len(md.mm_stats) > 0 => named
      /\ reported =>
           /\ named
           /\ md.printed.numcorrect = md.tracefiles - md.errors
           /\ (md.errors = 0) <=> (valid = DOMAIN md.mm_stats)
           /\ md.errors = 0 => md.table = md.printed.sums
           /\ md.printed.perfindex \in 0..100
           /\ md.errors > 0 => md.printed.perfindex = 0 /\ md.table = <<>>
           /\ (2 * md.printed.perfindex - 81) * (100 * md.tracefiles) <= 120 * md.printed.sums[3]
=============================================================================
