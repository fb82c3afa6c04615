-------------------------- MODULE TinyShellProofs --------------------------
(***************************************************************************)
(* Safety of the shell, for any number of slots and process ids.           *)
(*                                                                         *)
(* The inductive invariant says why the list can be trusted: between fork  *)
(* and addjob SIGCHLD is blocked, so the handler is not running and the    *)
(* new child can neither be waited for nor be listed yet; a child that is  *)
(* gone is still listed only while the handler holds its report; and the   *)
(* foreground entries are those of the job the main program waits for.     *)
(*                                                                         *)
(* The second part follows the reports of waitpid: where each change of a  *)
(* child is on its way to the list, that every child is on the list if it  *)
(* has room for all, and that the list is right about who is stopped once  *)
(* the reports are consumed, if do_bgfg does not write states meanwhile.   *)
(***************************************************************************)
EXTENDS TinyShell, WellFoundedInduction, FiniteSetTheorems, TLAPS

(***************************************************************************)
(* What the helpers of the job list return and preserve, for a list of any *)
(* length.                                                                 *)
(***************************************************************************)
(* No pid other than 0 stands in two slots.                                *)
SinglePids(js) ==
  \A i, j \in Slot : js[i].pid = js[j].pid /\ js[i].pid # 0 => i = j

(* A search that has a slot to find returns one of those slots.            *)
LEMMA FirstInSet ==
  ASSUME NEW S, S \subseteq Slot, S # {}
  PROVE  First(S) \in S
<1>1. S \subseteq Nat
  BY DEF Slot
<1>2. PICK i \in S : \A j \in S : ~(<<j, i>> \in OpToRel(<, Nat))
  BY <1>1, WFMin, NatLessThanWellFounded
<1>3. \A j \in S : i \in Nat /\ j \in Nat /\ ~(j < i)
  BY <1>1, <1>2 DEF OpToRel
<1>4. \A j \in S : i <= j
  BY <1>3
<1> QED
  BY <1>4 DEF First

(* The numbers js[1].jid .. js[k].jid have a largest one; the least k      *)
(* without one would be a contradiction.                                   *)
LEMMA MaxjidNat ==
  ASSUME NEW js \in JobTable
  PROVE  maxjid(js) \in Nat
<1> DEFINE Top(k) == \E m \in 1..k : \A i \in 1..k : js[i].jid <= js[m].jid
           Bad == {k \in Nat : k >= 1 /\ k <= MAXJOBS /\ ~Top(k)}
<1>1. \A i \in Slot : js[i].jid \in Nat
  BY DEF JobTable, Job
<1>2. SUFFICES ASSUME Bad # {} PROVE FALSE
  <2>1. Bad = {}
    BY <1>2
  <2>2. Top(MAXJOBS)
    BY <2>1, MaxJobsAssumption
  <2>3. PICK m \in Slot : \A i \in Slot : js[i].jid <= js[m].jid
    BY <2>2 DEF Slot
  <2>4. \E v \in {js[i].jid : i \in Slot} : \A i \in Slot : js[i].jid <= v
    BY <2>3
  <2>5. maxjid(js) \in {js[i].jid : i \in Slot}
    BY <2>4 DEF maxjid
  <2> QED
    BY <2>5, <1>1
<1>3. PICK k \in Bad : \A j \in Bad : ~(<<j, k>> \in OpToRel(<, Nat))
  BY <1>2, WFMin, NatLessThanWellFounded
<1>4. k \in Nat /\ k >= 1 /\ k <= MAXJOBS /\ ~Top(k) /\ \A j \in Bad : ~(j < k)
  BY <1>3 DEF OpToRel
<1>5. CASE k = 1
  <2>1. 1 \in Slot /\ js[1].jid \in Nat
    BY <1>1, MaxJobsAssumption DEF Slot
  <2>2. Top(1)
    BY <2>1
  <2> QED
    BY <1>4, <1>5, <2>2
<1>6. CASE k # 1
  <2>1. k - 1 \in Nat /\ k - 1 >= 1 /\ k - 1 <= MAXJOBS /\ k - 1 < k
    BY <1>4, <1>6, MaxJobsAssumption
  <2>2. k - 1 \notin Bad
    BY <2>1, <1>4
  <2>3. Top(k - 1)
    BY <2>1, <2>2
  <2>4. PICK m \in 1..(k - 1) : \A i \in 1..(k - 1) : js[i].jid <= js[m].jid
    BY <2>3
  <2>5. \A i \in 1..k : i \in Slot /\ js[i].jid \in Nat
    BY <1>1, <1>4, MaxJobsAssumption DEF Slot
  <2>6. \A i \in 1..k : i \in 1..(k - 1) \/ i = k
    BY <1>4
  <2>7. m \in 1..k /\ k \in 1..k
    BY <1>4, <2>1
  <2>8. CASE js[k].jid <= js[m].jid
    <3>1. \A i \in 1..k : js[i].jid <= js[m].jid
      BY <2>4, <2>6, <2>8
    <3> QED
      BY <3>1, <2>7, <1>4
  <2>9. CASE ~(js[k].jid <= js[m].jid)
    <3>1. \A i \in 1..k : js[i].jid <= js[k].jid
      BY <2>4, <2>5, <2>6, <2>7, <2>9
    <3> QED
      BY <3>1, <2>7, <1>4
  <2> QED
    BY <2>8, <2>9
<1> QED
  BY <1>5, <1>6

(* addjob returns a job list and an identifier.                            *)
LEMMA AddjobType ==
  ASSUME NEW js \in JobTable, NEW n \in Nat, NEW p \in Nat, NEW st \in JobState
  PROVE  addjob(js, n, p, st) \in JobTable /\ addjobNext(js, n) \in Nat
<1>1. addjob(js, n, p, st) \in JobTable
  BY DEF addjob, JobTable, Job
<1>2. addjobNext(js, n) \in Nat
  BY DEF addjobNext
<1> QED
  BY <1>1, <1>2

(* It fills one free slot, or nothing when there is none.                  *)
LEMMA AddjobEffect ==
  ASSUME NEW js \in JobTable, NEW n \in Nat, NEW p \in Nat \ {0}, NEW st \in JobState
  PROVE  \/ addjob(js, n, p, st) = js
         \/ \E k \in Slot :
              /\ js[k].pid = 0
              /\ addjob(js, n, p, st) =
                   [js EXCEPT ![k] = [pid |-> p, jid |-> n, state |-> st]]
<1>1. CASE FreeSlots(js) = {}
  BY <1>1 DEF addjob
<1>2. CASE FreeSlots(js) # {}
  <2>1. First(FreeSlots(js)) \in FreeSlots(js)
    BY <1>2, FirstInSet DEF FreeSlots
  <2> QED
    BY <1>2, <2>1 DEF addjob, FreeSlots
<1> QED
  BY <1>1, <1>2

(* deletejob returns a job list and an identifier.                         *)
LEMMA DeletejobType ==
  ASSUME NEW js \in JobTable, NEW n \in Nat, NEW p \in Nat
  PROVE  deletejob(js, p) \in JobTable /\ deletejobNext(js, n, p) \in Nat
<1>1. clearjob \in Job
  BY DEF clearjob, Job, JobState
<1>2. deletejob(js, p) \in JobTable
  BY <1>1 DEF deletejob, JobTable
<1>3. maxjid(deletejob(js, p)) \in Nat
  BY <1>2, MaxjidNat
<1>4. deletejobNext(js, n, p) \in Nat
  BY <1>3 DEF deletejobNext
<1> QED
  BY <1>2, <1>4

(* When the pid stands in one slot at most, deletejob clears every slot    *)
(* that names it and leaves the others as they are.                        *)
LEMMA DeletejobEffect ==
  ASSUME NEW js \in JobTable, SinglePids(js), NEW p \in Nat \ {0}
  PROVE  \A i \in Slot : deletejob(js, p)[i] = IF js[i].pid = p THEN clearjob ELSE js[i]
<1>1. CASE SlotsOfPid(js, p) = {}
  BY <1>1 DEF deletejob, SlotsOfPid
<1>2. CASE SlotsOfPid(js, p) # {}
  <2> DEFINE k == First(SlotsOfPid(js, p))
  <2>1. k \in SlotsOfPid(js, p)
    BY <1>2, FirstInSet DEF SlotsOfPid
  <2>2. \A i \in Slot : js[i].pid = p <=> i = k
    BY <2>1 DEF SlotsOfPid, SinglePids
  <2>3. deletejob(js, p) = [js EXCEPT ![k] = clearjob]
    BY <1>2 DEF deletejob
  <2> QED
    BY <2>2, <2>3 DEF JobTable
<1> QED
  BY <1>1, <1>2

(* getjobpid returns NULL (0) or a slot that holds the pid.                *)
LEMMA GetjobpidSlot ==
  ASSUME NEW js \in JobTable, NEW p \in Nat
  PROVE  getjobpid(js, p) = 0
         \/ (getjobpid(js, p) \in Slot /\ js[getjobpid(js, p)].pid = p)
<1>1. CASE SlotsOfPid(js, p) = {}
  BY <1>1 DEF getjobpid
<1>2. CASE SlotsOfPid(js, p) # {}
  <2>1. First(SlotsOfPid(js, p)) \in SlotsOfPid(js, p)
    BY <1>2, FirstInSet DEF SlotsOfPid
  <2> QED
    BY <2>1 DEF getjobpid, SlotsOfPid
<1> QED
  BY <1>1, <1>2

(* fgpid names an entry that is in the foreground, if there is one.        *)
LEMMA FgpidSlot ==
  ASSUME NEW js \in JobTable, FgSlots(js) # {}
  PROVE  \E i \in FgSlots(js) : fgpid(js) = js[i].pid
<1>1. First(FgSlots(js)) \in FgSlots(js)
  BY FirstInSet DEF FgSlots
<1> QED
  BY <1>1 DEF fgpid

(* A listed pid is found, and in the only slot that holds it.              *)
LEMMA ListedFound ==
  ASSUME NEW js \in JobTable, SinglePids(js), NEW p \in Nat \ {0}, p \in Listed(js)
  PROVE  /\ getjobpid(js, p) \in Slot
         /\ \A i \in Slot : js[i].pid = p <=> i = getjobpid(js, p)
<1>1. SlotsOfPid(js, p) # {}
  BY DEF Listed, SlotsOfPid
<1>2. First(SlotsOfPid(js, p)) \in SlotsOfPid(js, p)
  BY <1>1, FirstInSet DEF SlotsOfPid
<1>3. getjobpid(js, p) = First(SlotsOfPid(js, p))
  BY <1>1 DEF getjobpid
<1> QED
  BY <1>2, <1>3 DEF SlotsOfPid, SinglePids

-----------------------------------------------------------------------------
(***************************************************************************)
(* The shell.                                                              *)
(***************************************************************************)

(* SIGCHLD is blocked, and no handler runs, from before fork to addjob.    *)
ForkGuarded == pc \in {"fork", "addjob"} => hpc = "idle" /\ "CHLD" \in mask

(* The child to be listed exists and is not listed.                        *)
NewChild ==
  pc = "addjob" => cur \in Pid /\ proc[cur].life # "free" /\ cur \notin Listed(jobs)

(* do_bgfg works on some slot.                                             *)
JobPointer == pc \in {"cont", "setstate", "readpid"} => slot \in Slot

(* What a zombie reports is its end.                                       *)
ZombieReports == \A p \in Pid : proc[p].life = "zombie" => proc[p].report \in Terminal

(* Foreground entries exist only inside do_bgfg's last step and waitfg.    *)
ForegroundInv ==
  /\ Alive /\ pc \notin Waiting \cup {"readpid"} => FgSlots(jobs) = {}
  /\ pc = "readpid" => FgSlots(jobs) \subseteq {slot}
  /\ pc \in Waiting => \A i, j \in FgSlots(jobs) : i = j /\ jobs[i].pid = cur

IInv ==
  /\ TypeOK /\ NoPhantomJob /\ SinglePids(jobs)
  /\ ForkGuarded /\ NewChild /\ JobPointer /\ ZombieReports /\ ForegroundInv

-----------------------------------------------------------------------------
LEMMA PidOrZero == \A n \in Pid \cup {0} : n \in Nat
<1>1. Pid \subseteq Nat /\ 0 \in Nat
  BY PidAssumption
<1> QED
  BY <1>1

(* Posting a signal neither creates, ends nor reaps a process.             *)
LEMMA PostedProc ==
  ASSUME NEW r \in Proc, NEW s \in {"INT", "TSTP", "CONT", "QUIT"}
  PROVE  /\ Posted(r, s) \in Proc
         /\ Posted(r, s).life = "free" <=> r.life = "free"
         /\ Posted(r, s).life = "zombie" =>
              r.life = "zombie" /\ Posted(r, s).report = r.report
<1>1. CASE s = "CONT" /\ r.life = "stopped"
  <2>1. Posted(r, s) =
          [r EXCEPT !.life = "running", !.report = "continued", !.pend = @ \ {"TSTP"}]
    BY <1>1 DEF Posted
  <2> QED
    BY <1>1, <2>1 DEF Proc, Life, Status, Terminal
<1>2. CASE s = "CONT" /\ r.life # "stopped"
  <2>1. Posted(r, s) = [r EXCEPT !.pend = @ \ {"TSTP"}]
    BY <1>2 DEF Posted
  <2> QED
    BY <2>1 DEF Proc
<1>3. CASE s # "CONT"
  <2>1. Posted(r, s) = [r EXCEPT !.pend = @ \cup {s}]
    BY <1>3 DEF Posted
  <2> QED
    BY <1>3, <2>1 DEF Proc, Signal
<1> QED
  BY <1>1, <1>2, <1>3

(* Nor does posting one to a process group.                                *)
LEMMA KillGroupProc ==
  ASSUME proc \in [Pid -> Proc], ZombieReports,
         NEW p, NEW s \in {"INT", "TSTP", "CONT"}, KillGroup(p, s)
  PROVE  /\ proc' \in [Pid -> Proc]
         /\ \A q \in Pid : proc'[q].life = "free" <=> proc[q].life = "free"
         /\ ZombieReports'
         /\ ToShell(p, s) \subseteq Signal
<1>1. \A q \in Pid : proc'[q] = proc[q] \/ proc'[q] = Posted(proc[q], s)
  BY DEF KillGroup
<1>2. \A q \in Pid : /\ Posted(proc[q], s) \in Proc
                     /\ Posted(proc[q], s).life = "free" <=> proc[q].life = "free"
                     /\ Posted(proc[q], s).life = "zombie" =>
                          proc[q].life = "zombie" /\ Posted(proc[q], s).report = proc[q].report
  BY PostedProc
<1>3. proc' \in [Pid -> Proc]
  BY <1>1, <1>2 DEF KillGroup
<1>4. ToShell(p, s) \subseteq Signal
  BY DEF ToShell, Signal
<1> QED
  BY <1>1, <1>2, <1>3, <1>4 DEF ZombieReports

(* A step that leaves the list and the main program alone, and ends no     *)
(* process's existence, keeps the invariant if the types are right.        *)
LEMMA ProcessStep ==
  ASSUME IInv, UNCHANGED <<list, main, hand>>,
         proc' \in [Pid -> Proc], pend' \in SUBSET Signal, ZombieReports',
         \A q \in Pid : proc'[q].life = "free" <=> proc[q].life = "free"
  PROVE  IInv'
<1> USE DEF list, main, hand
<1>1. TypeOK'
  BY DEF IInv, TypeOK
<1>2. NoPhantomJob'
  BY DEF IInv, NoPhantomJob, EndInHand, Listed
<1>3. SinglePids(jobs)'
  BY DEF IInv, SinglePids
<1>4. ForkGuarded' /\ JobPointer'
  BY DEF IInv, ForkGuarded, JobPointer
<1>5. NewChild'
  BY DEF IInv, NewChild, Listed
<1>6. ForegroundInv'
  BY DEF IInv, ForegroundInv, FgSlots, Alive, Waiting
<1> QED
  BY <1>1, <1>2, <1>3, <1>4, <1>5, <1>6 DEF IInv

(* A step that leaves list, handler and children alone keeps what the      *)
(* invariant says of these.                                                *)
LEMMA ListUnchanged ==
  ASSUME IInv, UNCHANGED <<list, hand, proc>>
  PROVE  NoPhantomJob' /\ SinglePids(jobs)' /\ ZombieReports'
BY DEF IInv, list, hand, NoPhantomJob, EndInHand, Listed, SinglePids, ZombieReports

-----------------------------------------------------------------------------
(* eval                                                                    *)
LEMMA RunCommandInv ==
  ASSUME IInv, NEW c, RunCommand(c)
  PROVE  IInv'
<1> USE DEF RunCommand, At, list, hand
<1>1. NoPhantomJob' /\ SinglePids(jobs)' /\ ZombieReports'
  BY ListUnchanged
<1>2. TypeOK'
  BY DEF IInv, TypeOK, Signal
<1>3. ForkGuarded' /\ NewChild' /\ JobPointer'
  BY DEF ForkGuarded, NewChild, JobPointer
<1>4. ForegroundInv'
  BY DEF IInv, ForegroundInv, FgSlots, Alive, Waiting
<1> QED
  BY <1>1, <1>2, <1>3, <1>4 DEF IInv

LEMMA ForkInv ==
  ASSUME IInv, NEW p \in Pid, Fork(p)
  PROVE  IInv'
<1> USE DEF Fork, At, list, hand
<1>1. p \notin Listed(jobs)
  BY DEF IInv, NoPhantomJob, EndInHand
<1>2. [NoProc EXCEPT !.life = "forked", !.mask = mask] \in Proc
  BY DEF IInv, TypeOK, NoProc, Proc, Life, Status, Terminal
<1>3. /\ proc'[p].life = "forked"
      /\ \A q \in Pid \ {p} : proc'[q] = proc[q]
  BY DEF IInv, TypeOK, NoProc
<1>4. TypeOK'
  BY <1>2 DEF IInv, TypeOK
<1>5. NoPhantomJob'
  BY <1>1, <1>3 DEF IInv, NoPhantomJob, EndInHand, Listed
<1>6. SinglePids(jobs)' /\ ZombieReports'
  BY <1>3 DEF IInv, SinglePids, ZombieReports
<1>7. ForkGuarded' /\ JobPointer'
  BY DEF IInv, ForkGuarded, JobPointer
<1>8. NewChild'
  BY <1>1, <1>3 DEF NewChild, Listed
<1>9. ForegroundInv'
  BY DEF IInv, ForegroundInv, FgSlots, Alive, Waiting
<1> QED
  BY <1>4, <1>5, <1>6, <1>7, <1>8, <1>9 DEF IInv

LEMMA ForkFailsInv ==
  ASSUME IInv, ForkFails
  PROVE  IInv'
<1> USE DEF ForkFails, At, list, hand
<1>1. NoPhantomJob' /\ SinglePids(jobs)' /\ ZombieReports'
  BY ListUnchanged
<1>2. TypeOK'
  BY DEF IInv, TypeOK
<1>3. ForkGuarded' /\ NewChild' /\ JobPointer' /\ ForegroundInv'
  BY DEF ForkGuarded, NewChild, JobPointer, ForegroundInv, Alive, Waiting
<1> QED
  BY <1>1, <1>2, <1>3 DEF IInv

(* addjob fills one free slot with the new child, or none.                 *)
LEMMA AddJobInv ==
  ASSUME IInv, AddJob
  PROVE  IInv'
<1> DEFINE st == IF fg THEN "FG" ELSE "BG"
<1>1. /\ cur \in Pid /\ cur \in Nat \ {0} /\ proc[cur].life # "free" /\ cur \notin Listed(jobs)
      /\ jobs \in JobTable /\ nextjid \in Nat /\ st \in JobState
  BY PidAssumption DEF IInv, AddJob, At, NewChild, TypeOK, JobState
<1>2. jobs' = addjob(jobs, nextjid, cur, st) /\ nextjid' = addjobNext(jobs, nextjid)
  BY DEF AddJob
<1>3. jobs' \in JobTable /\ nextjid' \in Nat
  BY <1>1, <1>2, AddjobType
<1>4. \/ jobs' = jobs
      \/ \E k \in Slot : /\ jobs[k].pid = 0
                         /\ jobs' = [jobs EXCEPT ![k] = [pid |-> cur, jid |-> nextjid, state |-> st]]
  <2> HIDE DEF st
  <2> QED
    BY <1>1, <1>2, AddjobEffect
<1>5. \/ jobs' = jobs
      \/ \E k \in Slot : /\ jobs[k].pid = 0 /\ jobs'[k].pid = cur /\ jobs'[k].state = st
                         /\ \A i \in Slot \ {k} : jobs'[i] = jobs[i]
  BY <1>1, <1>4 DEF JobTable
<1>6. /\ IF fg THEN pc' = "waitfg" /\ cur' = cur /\ slot' = slot /\ fg' = fg
               ELSE pc' = "prompt" /\ cur' = 0 /\ slot' = 0 /\ fg' = FALSE
      /\ mask' = prev /\ UNCHANGED <<prev, pend, hpc, got, proc>>
  BY DEF AddJob, GoTo, BackToPrompt, hand
<1>7. TypeOK'
  BY <1>3, <1>6 DEF IInv, TypeOK
<1>8. NoPhantomJob'
  BY <1>1, <1>5, <1>6 DEF IInv, NoPhantomJob, EndInHand, Listed
<1>9. SinglePids(jobs)'
  BY <1>1, <1>5 DEF IInv, SinglePids, Listed
<1>10. ForkGuarded' /\ NewChild' /\ JobPointer' /\ ZombieReports'
  BY <1>6 DEF IInv, ForkGuarded, NewChild, JobPointer, ZombieReports
<1>11. FgSlots(jobs) = {}
  BY DEF IInv, AddJob, At, ForegroundInv, Alive, Waiting
<1>12. ForegroundInv'
  <2>1. CASE fg
    BY <2>1, <1>5, <1>6, <1>11 DEF ForegroundInv, FgSlots, Alive, Waiting
  <2>2. CASE ~fg
    BY <2>2, <1>5, <1>6, <1>11 DEF ForegroundInv, FgSlots, Alive, Waiting
  <2> QED
    BY <2>1, <2>2
<1> QED
  BY <1>7, <1>8, <1>9, <1>10, <1>12 DEF IInv

-----------------------------------------------------------------------------
(* waitfg                                                                  *)
LEMMA WaitfgTestInv ==
  ASSUME IInv, WaitfgTest
  PROVE  IInv'
<1>1. /\ pc = "waitfg" /\ UNCHANGED <<jobs, nextjid, mask, prev, pend, hpc, got, proc>>
      /\ IF fgpid(jobs) = cur
         THEN pc' = "suspend" /\ cur' = cur /\ slot' = slot /\ fg' = fg
         ELSE pc' = "prompt" /\ cur' = 0 /\ slot' = 0 /\ fg' = FALSE
  BY DEF WaitfgTest, At, GoTo, BackToPrompt, list, hand
<1>2. NoPhantomJob' /\ SinglePids(jobs)' /\ ZombieReports'
  BY <1>1, ListUnchanged DEF list, hand
<1>3. TypeOK'
  BY <1>1 DEF IInv, TypeOK
<1>4. ForkGuarded' /\ NewChild' /\ JobPointer'
  BY <1>1 DEF ForkGuarded, NewChild, JobPointer
<1>5. jobs \in JobTable
  BY DEF IInv, TypeOK
<1>6. \A i, j \in FgSlots(jobs) : i = j /\ jobs[i].pid = cur
  BY <1>1 DEF IInv, ForegroundInv, Waiting
<1>7. fgpid(jobs) # cur => FgSlots(jobs) = {}
  BY <1>5, <1>6, FgpidSlot
<1>8. ForegroundInv'
  BY <1>1, <1>6, <1>7 DEF ForegroundInv, FgSlots, Alive, Waiting
<1> QED
  BY <1>2, <1>3, <1>4, <1>8 DEF IInv

LEMMA SigsuspendInv ==
  ASSUME IInv, Sigsuspend \/ SigsuspendReturn
  PROVE  IInv'
<1>1. /\ pc \in Waiting /\ pc' \in {"suspended", "waitfg"}
      /\ UNCHANGED <<jobs, nextjid, fg, cur, slot, pend, hpc, got, proc>>
      /\ mask' \in {{}, prev} /\ prev' \in {mask, prev}
  BY DEF Sigsuspend, SigsuspendReturn, At, Waiting, list, hand
<1>2. NoPhantomJob' /\ SinglePids(jobs)' /\ ZombieReports'
  BY <1>1, ListUnchanged DEF list, hand
<1>3. TypeOK'
  BY <1>1 DEF IInv, TypeOK
<1>4. ForkGuarded' /\ NewChild' /\ JobPointer'
  BY <1>1 DEF ForkGuarded, NewChild, JobPointer
<1>5. ForegroundInv'
  BY <1>1 DEF IInv, ForegroundInv, FgSlots, Alive, Waiting
<1> QED
  BY <1>2, <1>3, <1>4, <1>5 DEF IInv

-----------------------------------------------------------------------------
(* do_bgfg and the end of the shell                                        *)
LEMMA LookupJobInv ==
  ASSUME IInv, NEW c, NEW i \in Slot, LookupJob(c, i)
  PROVE  IInv'
<1> USE DEF LookupJob, At, list, hand
<1>1. NoPhantomJob' /\ SinglePids(jobs)' /\ ZombieReports'
  BY ListUnchanged
<1>2. TypeOK'
  BY DEF IInv, TypeOK
<1>3. ForkGuarded' /\ NewChild' /\ JobPointer'
  BY DEF ForkGuarded, NewChild, JobPointer
<1>4. ForegroundInv'
  BY DEF IInv, ForegroundInv, FgSlots, Alive, Waiting
<1> QED
  BY <1>1, <1>2, <1>3, <1>4 DEF IInv

LEMMA BadArgumentInv ==
  ASSUME IInv, BadArgument
  PROVE  IInv'
<1> USE DEF BadArgument, At, list, hand
<1>1. NoPhantomJob' /\ SinglePids(jobs)' /\ ZombieReports'
  BY ListUnchanged
<1>2. TypeOK'
  BY DEF IInv, TypeOK
<1>3. ForkGuarded' /\ NewChild' /\ JobPointer'
  BY DEF ForkGuarded, NewChild, JobPointer
<1>4. ForegroundInv'
  BY DEF IInv, ForegroundInv, FgSlots, Alive, Waiting
<1> QED
  BY <1>1, <1>2, <1>3, <1>4 DEF IInv

LEMMA BgFgContInv ==
  ASSUME IInv, BgFgCont
  PROVE  IInv'
<1> DEFINE p == jobs[slot].pid
<1>1. /\ pc = "cont" /\ pc' = "setstate" /\ hpc = "idle"
      /\ KillGroup(p, "CONT") /\ pend' = pend \cup ToShell(p, "CONT")
      /\ UNCHANGED <<jobs, nextjid, fg, cur, slot, mask, prev, hpc, got>>
  BY DEF BgFgCont, At, list, hand
<1>2. proc \in [Pid -> Proc] /\ ZombieReports
  BY DEF IInv, TypeOK
<1>3. /\ proc' \in [Pid -> Proc] /\ ZombieReports' /\ ToShell(p, "CONT") \subseteq Signal
      /\ \A q \in Pid : proc'[q].life = "free" <=> proc[q].life = "free"
  <2> HIDE DEF p
  <2> QED
    BY <1>1, <1>2, KillGroupProc
<1>4. TypeOK'
  BY <1>1, <1>3 DEF IInv, TypeOK
<1>5. NoPhantomJob' /\ SinglePids(jobs)'
  BY <1>1, <1>3 DEF IInv, NoPhantomJob, EndInHand, Listed, SinglePids
<1>6. ForkGuarded' /\ NewChild' /\ JobPointer'
  BY <1>1 DEF IInv, ForkGuarded, NewChild, JobPointer
<1>7. ForegroundInv'
  BY <1>1 DEF IInv, ForegroundInv, FgSlots, Alive, Waiting
<1> QED
  BY <1>3, <1>4, <1>5, <1>6, <1>7 DEF IInv

(* Only the state of one entry changes, and none was in the foreground.    *)
LEMMA BgFgSetStateInv ==
  ASSUME IInv, BgFgSetState
  PROVE  IInv'
<1> DEFINE st == IF fg THEN "FG" ELSE "BG"
<1>1. /\ pc = "setstate" /\ slot \in Slot /\ jobs \in JobTable /\ st \in JobState
      /\ FgSlots(jobs) = {}
  BY DEF IInv, BgFgSetState, At, JobPointer, TypeOK, JobState, ForegroundInv, Alive, Waiting
<1>2. /\ jobs' = [jobs EXCEPT ![slot].state = st]
      /\ UNCHANGED <<nextjid, mask, prev, pend, hpc, got, proc>>
      /\ IF fg THEN pc' = "readpid" /\ cur' = cur /\ slot' = slot /\ fg' = fg
               ELSE pc' = "prompt" /\ cur' = 0 /\ slot' = 0 /\ fg' = FALSE
  BY DEF BgFgSetState, GoTo, BackToPrompt, hand
<1>3. jobs' \in JobTable
  BY <1>1, <1>2 DEF JobTable, Job
<1>4. /\ \A i \in Slot : jobs'[i].pid = jobs[i].pid
      /\ \A i \in Slot \ {slot} : jobs'[i].state = jobs[i].state
      /\ jobs'[slot].state = st
  BY <1>1, <1>2 DEF JobTable, Job
<1>5. TypeOK'
  BY <1>2, <1>3 DEF IInv, TypeOK
<1>6. NoPhantomJob' /\ SinglePids(jobs)'
  BY <1>2, <1>4 DEF IInv, NoPhantomJob, EndInHand, Listed, SinglePids
<1>7. ForkGuarded' /\ NewChild' /\ JobPointer' /\ ZombieReports'
  BY <1>1, <1>2 DEF IInv, ForkGuarded, NewChild, JobPointer, ZombieReports
<1>8. ForegroundInv'
  <2>1. CASE fg
    BY <2>1, <1>1, <1>2, <1>4 DEF ForegroundInv, FgSlots, Alive, Waiting
  <2>2. CASE ~fg
    BY <2>2, <1>1, <1>2, <1>4 DEF ForegroundInv, FgSlots, Alive, Waiting
  <2> QED
    BY <2>1, <2>2
<1> QED
  BY <1>5, <1>6, <1>7, <1>8 DEF IInv

LEMMA BgFgCallWaitfgInv ==
  ASSUME IInv, BgFgCallWaitfg
  PROVE  IInv'
<1> USE DEF BgFgCallWaitfg, At, list, hand
<1>1. NoPhantomJob' /\ SinglePids(jobs)' /\ ZombieReports'
  BY ListUnchanged
<1>2. slot \in Slot
  BY DEF IInv, JobPointer
<1>3. cur' \in Pid \cup {0}
  BY <1>2 DEF IInv, NoPhantomJob, Listed
<1>4. TypeOK'
  BY <1>3 DEF IInv, TypeOK
<1>5. ForkGuarded' /\ NewChild' /\ JobPointer'
  BY DEF ForkGuarded, NewChild, JobPointer
<1>6. ForegroundInv'
  BY DEF IInv, ForegroundInv, FgSlots, Alive, Waiting
<1> QED
  BY <1>1, <1>4, <1>5, <1>6 DEF IInv

LEMMA QuitInv ==
  ASSUME IInv, Quit \/ SigquitHandler
  PROVE  IInv'
<1>1. /\ pc' = "exited" /\ pend' \subseteq pend
      /\ UNCHANGED <<jobs, nextjid, fg, cur, slot, mask, prev, hpc, got, proc>>
  BY DEF Quit, SigquitHandler, list, hand
<1>2. NoPhantomJob' /\ SinglePids(jobs)' /\ ZombieReports'
  BY <1>1, ListUnchanged DEF list, hand
<1>3. TypeOK'
  BY <1>1 DEF IInv, TypeOK
<1>4. ForkGuarded' /\ NewChild' /\ JobPointer' /\ ForegroundInv'
  BY <1>1 DEF ForkGuarded, NewChild, JobPointer, ForegroundInv, Alive, Waiting
<1> QED
  BY <1>2, <1>3, <1>4 DEF IInv

-----------------------------------------------------------------------------
(* The handlers                                                            *)
LEMMA ChldEnterInv ==
  ASSUME IInv, ChldEnter
  PROVE  IInv'
<1>1. /\ "CHLD" \notin mask /\ hpc' = "reap" /\ pend' \subseteq pend
      /\ pc' = (IF pc = "suspended" THEN "resuming" ELSE pc)
      /\ UNCHANGED <<jobs, nextjid, fg, cur, slot, mask, prev, got, proc>>
      /\ hpc = "idle"
  BY DEF ChldEnter, Deliverable, Wake, list
<1>2. pc \notin {"fork", "addjob"}
  BY <1>1 DEF IInv, ForkGuarded
<1>3. TypeOK'
  BY <1>1 DEF IInv, TypeOK
<1>4. NoPhantomJob' /\ SinglePids(jobs)' /\ ZombieReports'
  BY <1>1 DEF IInv, NoPhantomJob, EndInHand, Listed, SinglePids, ZombieReports
<1>5. ForkGuarded' /\ NewChild' /\ JobPointer'
  BY <1>1, <1>2 DEF IInv, ForkGuarded, NewChild, JobPointer
<1>6. ForegroundInv'
  BY <1>1 DEF IInv, ForegroundInv, FgSlots, Alive, Waiting
<1> QED
  BY <1>3, <1>4, <1>5, <1>6 DEF IInv

(* The child that is waited for may vanish: its report is now in hand.     *)
LEMMA ReapInv ==
  ASSUME IInv, NEW p \in Pid, Reap(p)
  PROVE  IInv'
<1>1. /\ hpc = "reap" /\ hpc' = "apply"
      /\ got' = [pid |-> p, status |-> proc[p].report]
      /\ UNCHANGED <<jobs, nextjid, pc, fg, cur, slot, mask, prev, pend>>
  BY DEF Reap, list, main
<1>2. proc \in [Pid -> Proc] /\ NoProc \in Proc /\ [proc[p] EXCEPT !.report = "none"] \in Proc
  BY DEF IInv, TypeOK, NoProc, Proc, Life, Status, Terminal
<1>3. proc' = [proc EXCEPT ![p] = IF proc[p].life = "zombie" THEN NoProc
                                 ELSE [proc[p] EXCEPT !.report = "none"]]
  BY <1>2 DEF Reap
<1>4. /\ proc' \in [Pid -> Proc]
      /\ \A q \in Pid \ {p} : proc'[q] = proc[q]
      /\ proc[p].life # "zombie" => proc'[p].life = proc[p].life
      /\ proc[p].life = "zombie" => proc'[p].life = "free"
  BY <1>2, <1>3 DEF NoProc, Proc
<1>5. pc \notin {"fork", "addjob"}
  BY <1>1 DEF IInv, ForkGuarded
<1>6. TypeOK'
  <2>1. got' \in [pid : Pid \cup {0}, status : Status]
    BY <1>1, <1>2 DEF Proc
  <2> QED
    BY <2>1, <1>1, <1>4 DEF IInv, TypeOK
<1>7. NoPhantomJob'
  <2>1. CASE proc[p].life = "zombie"
    <3>1. proc[p].report \in Terminal
      BY <2>1 DEF IInv, ZombieReports
    <3> QED
      BY <3>1, <1>1, <1>4 DEF IInv, NoPhantomJob, EndInHand, Listed
  <2>2. CASE proc[p].life # "zombie"
    BY <2>2, <1>1, <1>4 DEF IInv, NoPhantomJob, EndInHand, Listed
  <2> QED
    BY <2>1, <2>2
<1>8. SinglePids(jobs)' /\ ZombieReports'
  BY <1>1, <1>4 DEF IInv, SinglePids, ZombieReports
<1>9. ForkGuarded' /\ NewChild' /\ JobPointer'
  BY <1>1, <1>5 DEF IInv, ForkGuarded, NewChild, JobPointer
<1>10. ForegroundInv'
  BY <1>1 DEF IInv, ForegroundInv, FgSlots, Alive, Waiting
<1> QED
  BY <1>6, <1>7, <1>8, <1>9, <1>10 DEF IInv

LEMMA ReapNoneInv ==
  ASSUME IInv, ReapNone
  PROVE  IInv'
<1>1. /\ hpc = "reap" /\ hpc' = "idle"
      /\ UNCHANGED <<jobs, nextjid, pc, fg, cur, slot, mask, prev, pend, got, proc>>
  BY DEF ReapNone, list, main
<1>2. TypeOK' /\ NoPhantomJob' /\ SinglePids(jobs)' /\ ZombieReports'
  BY <1>1 DEF IInv, TypeOK, NoPhantomJob, EndInHand, Listed, SinglePids, ZombieReports
<1>3. ForkGuarded' /\ NewChild' /\ JobPointer'
  BY <1>1 DEF IInv, ForkGuarded, NewChild, JobPointer, Listed
<1>4. ForegroundInv'
  BY <1>1 DEF IInv, ForegroundInv, FgSlots, Alive, Waiting
<1> QED
  BY <1>2, <1>3, <1>4 DEF IInv

(* The entry of the child that is gone is cleared: it is the only one.     *)
LEMMA ApplyEndedInv ==
  ASSUME IInv, ApplyEnded
  PROVE  IInv'
<1>1. /\ hpc = "apply" /\ hpc' = "reap" /\ got.status \in Terminal /\ got' = NoWait
      /\ jobs' = deletejob(jobs, got.pid) /\ nextjid' = deletejobNext(jobs, nextjid, got.pid)
      /\ UNCHANGED <<pc, fg, cur, slot, mask, prev, pend, proc>>
  BY DEF ApplyEnded, main
<1>2. jobs \in JobTable /\ nextjid \in Nat /\ got.pid \in Nat /\ SinglePids(jobs)
  <2>1. got \in [pid : Pid \cup {0}, status : Status]
    BY DEF IInv, TypeOK
  <2>2. got.pid \in Nat
    BY <2>1, PidOrZero
  <2> QED
    BY <2>2 DEF IInv, TypeOK
<1>3. jobs' \in JobTable /\ nextjid' \in Nat
  BY <1>1, <1>2, DeletejobType
<1>4. pc \notin {"fork", "addjob"}
  BY <1>1 DEF IInv, ForkGuarded
<1>5. \A i \in Slot : jobs'[i] = clearjob \/ (jobs'[i] = jobs[i] /\ jobs[i].pid # got.pid)
                      \/ (jobs'[i] = jobs[i] /\ jobs[i].pid = 0)
  <2>1. CASE got.pid # 0
    <3>1. \A i \in Slot : jobs'[i] = IF jobs[i].pid = got.pid THEN clearjob ELSE jobs[i]
      BY <1>1, <1>2, <2>1, DeletejobEffect
    <3> QED
      BY <3>1
  <2>2. CASE got.pid = 0
    BY <2>2, <1>1, <1>2, FirstInSet DEF deletejob, SlotsOfPid, JobTable
  <2> QED
    BY <2>1, <2>2
<1>6. TypeOK'
  BY <1>1, <1>3 DEF IInv, TypeOK, NoWait, Status
<1>7. NoPhantomJob'
  BY <1>1, <1>5 DEF IInv, NoPhantomJob, EndInHand, Listed, clearjob
<1>8. SinglePids(jobs)' /\ ZombieReports'
  BY <1>1, <1>5 DEF IInv, SinglePids, ZombieReports, clearjob
<1>9. ForkGuarded' /\ NewChild' /\ JobPointer'
  BY <1>1, <1>4 DEF IInv, ForkGuarded, NewChild, JobPointer
<1>10. \A i \in FgSlots(jobs)' : i \in FgSlots(jobs) /\ jobs'[i] = jobs[i]
  BY <1>5 DEF FgSlots, clearjob
<1>11. ForegroundInv'
  BY <1>1, <1>10 DEF IInv, ForegroundInv, Alive, Waiting
<1> QED
  BY <1>6, <1>7, <1>8, <1>9, <1>11 DEF IInv

(* A stop or continue report changes the state of one entry, and never     *)
(* puts it into the foreground.                                            *)
LEMMA ApplyStateInv ==
  ASSUME IInv, ApplyStopped \/ ApplyContinued
  PROVE  IInv'
<1> DEFINE k == getjobpid(jobs, got.pid)
<1>1. /\ hpc = "apply" /\ hpc' = "reap" /\ got.status \in {"stopped", "continued"} /\ got' = NoWait
      /\ UNCHANGED <<nextjid, pc, fg, cur, slot, mask, prev, pend, proc>>
      /\ k # 0
  BY DEF ApplyStopped, ApplyContinued, main
<1>2. jobs \in JobTable /\ got.pid \in Nat
  <2>1. got \in [pid : Pid \cup {0}, status : Status]
    BY DEF IInv, TypeOK
  <2>2. got.pid \in Nat
    BY <2>1, PidOrZero
  <2> QED
    BY <2>2 DEF IInv, TypeOK
<1>3. k \in Slot
  BY <1>1, <1>2, GetjobpidSlot
<1>4. \E st \in {"ST", "BG", jobs[k].state} : jobs' = [jobs EXCEPT ![k].state = st]
  BY <1>2, <1>3 DEF ApplyStopped, ApplyContinued, JobTable
<1>5. /\ jobs' \in JobTable
      /\ \A i \in Slot : /\ jobs'[i].pid = jobs[i].pid
                         /\ jobs'[i].state = "FG" => jobs[i].state = "FG"
  <2> HIDE DEF k
  <2> QED
    BY <1>2, <1>3, <1>4 DEF JobTable, Job, JobState
<1>6. pc \notin {"fork", "addjob"}
  BY <1>1 DEF IInv, ForkGuarded
<1>7. TypeOK'
  BY <1>1, <1>5 DEF IInv, TypeOK, NoWait, Status
<1>8. NoPhantomJob'
  BY <1>1, <1>5 DEF IInv, NoPhantomJob, EndInHand, Listed, Terminal
<1>9. SinglePids(jobs)' /\ ZombieReports'
  BY <1>1, <1>5 DEF IInv, SinglePids, ZombieReports
<1>10. ForkGuarded' /\ NewChild' /\ JobPointer'
  BY <1>1, <1>6 DEF IInv, ForkGuarded, NewChild, JobPointer
<1>11. ForegroundInv'
  BY <1>1, <1>5 DEF IInv, ForegroundInv, FgSlots, Alive, Waiting
<1> QED
  BY <1>7, <1>8, <1>9, <1>10, <1>11 DEF IInv

LEMMA ApplyUnlistedInv ==
  ASSUME IInv, ApplyUnlisted
  PROVE  IInv'
<1>1. /\ pc' = "crashed"
      /\ UNCHANGED <<jobs, nextjid, fg, cur, slot, mask, prev, pend, hpc, got, proc>>
  BY DEF ApplyUnlisted, list, hand
<1>2. NoPhantomJob' /\ SinglePids(jobs)' /\ ZombieReports'
  BY <1>1, ListUnchanged DEF list, hand
<1>3. TypeOK'
  BY <1>1 DEF IInv, TypeOK
<1>4. ForkGuarded' /\ NewChild' /\ JobPointer' /\ ForegroundInv'
  BY <1>1 DEF ForkGuarded, NewChild, JobPointer, ForegroundInv, Alive, Waiting
<1> QED
  BY <1>2, <1>3, <1>4 DEF IInv

LEMMA ForwardInv ==
  ASSUME IInv, NEW s \in {"INT", "TSTP"}, Forward(s)
  PROVE  IInv'
<1>1. /\ pc' = (IF pc = "suspended" THEN "resuming" ELSE pc)
      /\ UNCHANGED <<jobs, nextjid, fg, cur, slot, mask, prev, hpc, got>>
  BY DEF Forward, Wake, list, hand
<1>2. proc \in [Pid -> Proc] /\ ZombieReports /\ pend \subseteq Signal
  BY DEF IInv, TypeOK
<1>3. /\ proc' \in [Pid -> Proc] /\ ZombieReports' /\ pend' \subseteq Signal
      /\ \A q \in Pid : proc'[q].life = "free" <=> proc[q].life = "free"
  <2>1. CASE FgSlots(jobs) = {}
    BY <2>1, <1>2 DEF Forward, ZombieReports
  <2>2. CASE FgSlots(jobs) # {}
    <3> DEFINE p == jobs[First(FgSlots(jobs))].pid
    <3>1. KillGroup(p, s) /\ pend' = (pend \ {s}) \cup ToShell(p, s)
      BY <2>2 DEF Forward
    <3> HIDE DEF p
    <3> QED
      BY <3>1, <1>2, KillGroupProc
  <2> QED
    BY <2>1, <2>2
<1>4. TypeOK'
  BY <1>1, <1>3 DEF IInv, TypeOK
<1>5. NoPhantomJob' /\ SinglePids(jobs)'
  BY <1>1, <1>3 DEF IInv, NoPhantomJob, EndInHand, Listed, SinglePids
<1>6. ForkGuarded' /\ JobPointer'
  BY <1>1 DEF IInv, ForkGuarded, JobPointer
<1>7. NewChild'
  BY <1>1, <1>3 DEF IInv, NewChild, Listed
<1>8. ForegroundInv'
  BY <1>1 DEF IInv, ForegroundInv, FgSlots, Alive, Waiting
<1> QED
  BY <1>3, <1>4, <1>5, <1>6, <1>7, <1>8 DEF IInv

-----------------------------------------------------------------------------
(* The children and the outside world                                      *)
LEMMA ChildStepInv ==
  ASSUME IInv, NEW p \in Pid, ChildStep(p) \/ WorldStep(p)
  PROVE  IInv'
<1> USE DEF ChildStep, WorldStep
<1>1. proc \in [Pid -> Proc] /\ pend \subseteq Signal /\ ZombieReports
  BY DEF IInv, TypeOK
<1>2. UNCHANGED <<list, main, hand>>
  BY DEF ChildStart, ChildExec, ChildExecFails, ProcKilled, ProcStops, ChildSwallows, ProcExits,
         OutsideSignal
<1>3. pend' \subseteq Signal
  BY <1>1 DEF ChildStart, ChildExec, ChildExecFails, ProcKilled, ProcStops, ChildSwallows,
              ProcExits, OutsideSignal, Ends, Signal
<1> DEFINE Change == \E r \in Proc : /\ proc' = [proc EXCEPT ![p] = r]
                                     /\ r.life = "free" <=> proc[p].life = "free"
                                     /\ r.life = "zombie" => r.report \in Terminal
<1>4. Change
  <2>1. CASE ChildExecFails(p) \/ ProcKilled(p) \/ ProcExits(p)
    <3>1. PICK t \in Terminal : proc' = [proc EXCEPT ![p] = [NoProc EXCEPT !.life = "zombie", !.report = t]]
      BY <2>1 DEF ChildExecFails, ProcKilled, ProcExits, Ends, Terminal
    <3>2. [NoProc EXCEPT !.life = "zombie", !.report = t] \in Proc
      BY DEF NoProc, Proc, Life, Status
    <3>3. proc[p].life # "free"
      BY <2>1 DEF ChildExecFails, ProcKilled, ProcExits
    <3> QED
      BY <3>1, <3>2, <3>3 DEF NoProc
  <2>2. CASE ChildStart(p)
    <3> DEFINE r == [proc[p] EXCEPT !.life = "grouped", !.mask = @ \ {"CHLD"}]
    <3>1. proc' = [proc EXCEPT ![p] = r] /\ proc[p].life = "forked"
      BY <1>1, <2>2 DEF ChildStart
    <3>2. r \in Proc /\ r.life = "grouped"
      BY <1>1 DEF Proc, Life
    <3> QED
      BY <3>1, <3>2
  <2>3. CASE ChildExec(p)
    <3> DEFINE r == [proc[p] EXCEPT !.life = "running"]
    <3>1. proc' = [proc EXCEPT ![p] = r] /\ proc[p].life = "grouped"
      BY <1>1, <2>3 DEF ChildExec
    <3>2. r \in Proc /\ r.life = "running"
      BY <1>1 DEF Proc, Life
    <3> QED
      BY <3>1, <3>2
  <2>4. CASE ProcStops(p)
    <3> DEFINE r == [proc[p] EXCEPT !.life = "stopped", !.report = "stopped", !.pend = @ \ {"TSTP"}]
    <3>1. proc' = [proc EXCEPT ![p] = r] /\ proc[p].life = "running"
      BY <1>1, <2>4 DEF ProcStops
    <3>2. r \in Proc /\ r.life = "stopped"
      BY <1>1 DEF Proc, Life, Status
    <3> QED
      BY <3>1, <3>2
  <2>5. ASSUME NEW s \in {"INT", "TSTP"}, ChildSwallows(p, s) PROVE Change
    <3> DEFINE r == [proc[p] EXCEPT !.pend = @ \ {s}]
    <3>1. proc' = [proc EXCEPT ![p] = r] /\ proc[p].life = "grouped"
      BY <1>1, <2>5 DEF ChildSwallows
    <3>2. r \in Proc /\ r.life = "grouped"
      BY <1>1, <3>1 DEF Proc, Life
    <3> QED
      BY <3>1, <3>2
  <2>6. ASSUME NEW s \in Outside, OutsideSignal(p, s) PROVE Change
    <3> DEFINE r == Posted(proc[p], s)
    <3>1. proc' = [proc EXCEPT ![p] = r] /\ proc[p].life \in {"running", "stopped"}
      BY <1>1, <2>6 DEF OutsideSignal
    <3>2. /\ r \in Proc
          /\ r.life = "free" <=> proc[p].life = "free"
          /\ r.life = "zombie" => proc[p].life = "zombie" /\ r.report = proc[p].report
      BY <1>1, PostedProc, OutsideAssumption
    <3> QED
      BY <3>1, <3>2
  <2>7. CASE \E s \in {"INT", "TSTP"} : ChildSwallows(p, s)
    BY <2>5, <2>7
  <2>8. CASE \E s \in Outside : OutsideSignal(p, s)
    BY <2>6, <2>8
  <2> HIDE DEF Change
  <2> QED
    BY <2>1, <2>2, <2>3, <2>4, <2>7, <2>8
<1>5. /\ proc' \in [Pid -> Proc] /\ ZombieReports'
      /\ \A q \in Pid : proc'[q].life = "free" <=> proc[q].life = "free"
  BY <1>1, <1>4 DEF ZombieReports
<1> QED
  BY <1>2, <1>3, <1>5, ProcessStep

LEMMA PressKeyInv ==
  ASSUME IInv, NEW s \in Keys, PressKey(s)
  PROVE  IInv'
<1>1. /\ pend' \in SUBSET Signal /\ UNCHANGED <<list, main, hand, proc>>
      /\ proc \in [Pid -> Proc] /\ ZombieReports
  BY KeysAssumption DEF IInv, TypeOK, PressKey, Signal
<1> QED
  BY <1>1, ProcessStep DEF ZombieReports

-----------------------------------------------------------------------------
LEMMA InitInv == Init => IInv
<1> SUFFICES ASSUME Init PROVE IInv
  OBVIOUS
<1> USE DEF Init
<1>1. \A i \in Slot : jobs[i] = clearjob
  BY DEF initjobs
<1>2. TypeOK
  <2>1. jobs \in JobTable
    BY DEF initjobs, clearjob, JobTable, Job, JobState
  <2>2. proc \in [Pid -> Proc]
    BY DEF NoProc, Proc, Life, Status
  <2> QED
    BY <2>1, <2>2 DEF TypeOK, NoWait, Status
<1>3. Listed(jobs) = {}
  BY <1>1 DEF Listed, clearjob
<1>4. NoPhantomJob /\ SinglePids(jobs)
  BY <1>1, <1>3 DEF NoPhantomJob, SinglePids, clearjob
<1>5. ForkGuarded /\ NewChild /\ JobPointer
  BY DEF ForkGuarded, NewChild, JobPointer
<1>6. ZombieReports
  BY DEF ZombieReports, NoProc
<1>7. ForegroundInv
  BY <1>1 DEF ForegroundInv, FgSlots, Waiting, clearjob
<1> QED
  BY <1>2, <1>4, <1>5, <1>6, <1>7 DEF IInv

(* Every step keeps the invariant, one case for each action of Next.       *)
LEMMA NextInv ==
  ASSUME IInv, [Next]_vars
  PROVE  IInv'
<1>1. CASE MainStep
  BY <1>1, ForkInv, ForkFailsInv, AddJobInv, WaitfgTestInv, SigsuspendInv, BgFgContInv,
     BgFgSetStateInv, BgFgCallWaitfgInv DEF MainStep
<1>2. CASE UserStep
  BY <1>2, QuitInv, BadArgumentInv, RunCommandInv, LookupJobInv, PressKeyInv DEF UserStep
<1>3. CASE ChldEnter
  BY <1>3, ChldEnterInv
<1>4. CASE HandlerStep
  BY <1>4, ReapInv, ReapNoneInv, ApplyEndedInv, ApplyStateInv, ApplyUnlistedInv DEF HandlerStep
<1>5. CASE ForwardStep
  BY <1>5, QuitInv, ForwardInv DEF ForwardStep
<1>6. CASE \E p \in Pid : ChildStep(p) \/ WorldStep(p)
  BY <1>6, ChildStepInv
<1>7. CASE UNCHANGED vars
  <2>1. UNCHANGED <<list, main, hand>> /\ pend' = pend /\ proc' = proc
    BY <1>7 DEF vars
  <2>2. proc \in [Pid -> Proc] /\ pend \in SUBSET Signal /\ ZombieReports
    BY DEF IInv, TypeOK
  <2> QED
    BY <2>1, <2>2, ProcessStep DEF ZombieReports
<1> QED
  BY <1>1, <1>2, <1>3, <1>4, <1>5, <1>6, <1>7 DEF Next

THEOREM Invariance == Spec => []IInv
BY InitInv, NextInv, PTL DEF Spec

(* Every variable keeps its type: the pids the main program and the        *)
(* handlers work with are 0 or pids of children, whatever was reused.      *)
THEOREM TypeCorrect == Spec => []TypeOK
<1>1. IInv => TypeOK
  BY DEF IInv
<1> QED
  BY <1>1, Invariance, PTL

(* The job list names only children that exist or whose end the handler    *)
(* has in hand (eval's blocking of SIGCHLD around fork and addjob).        *)
THEOREM PhantomFree == Spec => []NoPhantomJob
<1>1. IInv => NoPhantomJob
  BY DEF IInv
<1> QED
  BY <1>1, Invariance, PTL

(* No child stands twice on the job list (addjob and deletejob under       *)
(* reused pids).                                                           *)
THEOREM EntriesDistinct == Spec => []OneEntryPerPid
<1>1. IInv => OneEntryPerPid
  BY DEF IInv, SinglePids, OneEntryPerPid
<1> QED
  BY <1>1, Invariance, PTL

(* At most one job is in the foreground, and while one is, the shell waits *)
(* for it (tsh.c:37).                                                      *)
THEOREM ForegroundExclusive == Spec => []ForegroundHeld
<1>1. IInv => ForegroundHeld
  BY DEF IInv, ForegroundInv, ForegroundHeld, Waiting
<1> QED
  BY <1>1, Invariance, PTL

(* No step takes a foreground job straight to the background (tsh.c:31-36).*)
THEOREM NoDemotion == Spec => ForegroundNotDemoted
<1> DEFINE Kept == \A i \in Slot : ~(jobs[i].state = "FG" /\ jobs'[i].state = "BG")
<1>1. ASSUME IInv, [Next]_vars PROVE [Kept]_vars
  <2>1. jobs \in JobTable
    BY <1>1 DEF IInv, TypeOK
  <2>2. CASE AddJob \/ BgFgSetState
    <3>1. FgSlots(jobs) = {}
      BY <2>2, <1>1 DEF AddJob, BgFgSetState, At, IInv, ForegroundInv, Alive, Waiting
    <3> QED
      BY <3>1 DEF FgSlots
  <2>3. CASE ApplyEnded
    <3>1. \A i \in Slot : jobs'[i] = jobs[i] \/ jobs'[i] = clearjob
      BY <2>1, <2>3 DEF ApplyEnded, deletejob, JobTable
    <3> QED
      BY <3>1 DEF clearjob
  <2>4. CASE ApplyStopped
    BY <2>1, <2>4 DEF ApplyStopped, JobTable, Job
  <2>5. CASE ApplyContinued
    <3> DEFINE k == getjobpid(jobs, got.pid)
    <3>1. jobs' = [jobs EXCEPT ![k].state = IF jobs[k].state = "ST" THEN "BG" ELSE jobs[k].state]
      BY <2>1, <2>5 DEF ApplyContinued
    <3> HIDE DEF k
    <3> QED
      BY <2>1, <3>1 DEF JobTable, Job
  <2>6. CASE UNCHANGED jobs
    BY <2>6
  <2>7. \/ AddJob \/ BgFgSetState \/ ApplyEnded \/ ApplyStopped \/ ApplyContinued
        \/ UNCHANGED jobs
    BY <1>1 DEF Next, MainStep, UserStep, HandlerStep, ForwardStep, ChildStep, WorldStep, vars,
       list, RunCommand, Fork, ForkFails, WaitfgTest, Sigsuspend, SigsuspendReturn, LookupJob,
       BadArgument, BgFgCont, BgFgCallWaitfg, Quit, ChldEnter, Reap, ReapNone, ApplyUnlisted,
       Forward, SigquitHandler, ChildStart, ChildExec, ChildExecFails, ChildSwallows, ProcKilled,
       ProcStops, ProcExits, OutsideSignal, PressKey
  <2> QED
    BY <2>2, <2>3, <2>4, <2>5, <2>6, <2>7
<1> QED
  BY <1>1, Invariance, PTL DEF Spec, ForegroundNotDemoted
-----------------------------------------------------------------------------
(***************************************************************************)
(* What the shell knows of its children.  A change of a child's state is a *)
(* report not yet consumed, the report the handler has in hand, or already *)
(* on the list; the three invariants below say which, and when the handler *)
(* is sure to look.                                                        *)
(***************************************************************************)
(* An unconsumed report is the child's present state.                      *)
ReportOK(r) ==
  /\ r.report = "stopped" => r.life = "stopped"
  /\ r.report = "continued" => r.life = "running"
  /\ (r.report \in Terminal) <=> (r.life = "zombie")

ReportInv == \A p \in Pid : ReportOK(proc[p])

(* While one is left, SIGCHLD is pending or its handler has not returned.  *)
ToldInv == \A p \in Pid : proc[p].report # "none" => "CHLD" \in pend \/ hpc # "idle"

(* The report in hand is the newest unless another one waits behind it.    *)
HandInv ==
  hpc = "apply" =>
    /\ got.pid \in Pid /\ got.status # "none"
    /\ got.status \in Terminal => proc[got.pid].life = "free"
    /\ proc[got.pid].report = "none" =>
         /\ got.status = "stopped" => proc[got.pid].life = "stopped"
         /\ got.status = "continued" => proc[got.pid].life # "stopped"

(* A child that stops before addjob has not been waited for.               *)
NewbornInv == pc = "addjob" /\ proc[cur].life = "stopped" => proc[cur].report # "none"

WatchInv == ReportInv /\ ToldInv /\ HandInv /\ NewbornInv

(* With room on the list, every child is on it once addjob has run.        *)
ListedInv ==
  /\ \A p \in Pid :
       proc[p].life # "free" => p \in Listed(jobs) \/ (pc \in {"addjob", "exited"} /\ cur = p)
  /\ hpc = "apply" /\ got.status \in {"stopped", "continued"} => got.pid \in Listed(jobs)
  /\ pc # "crashed"

(* Without fg and bg, an entry is ST exactly while the process is stopped, *)
(* once its reports are consumed.                                          *)
Shown(i) ==
  jobs[i].pid \in Pid /\ proc[jobs[i].pid].report = "none"
  /\ ~(hpc = "apply" /\ got.pid = jobs[i].pid)
    => ((jobs[i].state = "ST") <=> (proc[jobs[i].pid].life = "stopped"))

ShownInv ==
  /\ pc \notin {"cont", "setstate", "readpid"}
  /\ \A i \in Slot : Shown(i)

(* What children do by themselves: they neither come nor are waited for,   *)
(* and one that stops or resumes has a report, announced by SIGCHLD.       *)
Evolved(r, n, told) ==
  /\ (n.life = "free") <=> (r.life = "free")
  /\ ReportOK(n)
  /\ n.report = "none" => r.report = "none" /\ ((n.life = "stopped") <=> (r.life = "stopped"))
  /\ n.report # "none" => r.report # "none" \/ told

ChildrenEvolve ==
  /\ \A q \in Pid : Evolved(proc[q], proc'[q], "CHLD" \in pend')
  /\ "CHLD" \in pend => "CHLD" \in pend'

-----------------------------------------------------------------------------
(* A posted signal leaves a child as it is for the shell, or resumes it.   *)
LEMMA PostedEvolves ==
  ASSUME NEW r \in Proc, ReportOK(r), NEW s \in {"INT", "TSTP", "CONT", "QUIT"}, NEW told,
         s = "CONT" /\ r.life = "stopped" => told
  PROVE  Evolved(r, Posted(r, s), told)
<1>1. CASE s = "CONT" /\ r.life = "stopped"
  <2>1. Posted(r, s) =
          [r EXCEPT !.life = "running", !.report = "continued", !.pend = @ \ {"TSTP"}]
    BY <1>1 DEF Posted
  <2>2. Posted(r, s).life = "running" /\ Posted(r, s).report = "continued" /\ told
    BY <1>1, <2>1 DEF Proc
  <2> QED
    BY <1>1, <2>2 DEF Evolved, ReportOK, Terminal
<1>2. CASE ~(s = "CONT" /\ r.life = "stopped")
  <2>1. Posted(r, s).life = r.life /\ Posted(r, s).report = r.report
    <3>1. CASE s = "CONT"
      <4>1. Posted(r, s) = [r EXCEPT !.pend = @ \ {"TSTP"}]
        BY <1>2, <3>1 DEF Posted
      <4> QED
        BY <4>1 DEF Proc
    <3>2. CASE s # "CONT"
      <4>1. Posted(r, s) = [r EXCEPT !.pend = @ \cup {s}]
        BY <3>2 DEF Posted
      <4> QED
        BY <4>1 DEF Proc
    <3> QED
      BY <3>1, <3>2
  <2> QED
    BY <2>1 DEF Evolved, ReportOK
<1> QED
  BY <1>1, <1>2

(* So does a signal to a process group, with what it posts to the shell.   *)
LEMMA KillGroupEvolves ==
  ASSUME proc \in [Pid -> Proc], ReportInv, NEW p, NEW s \in {"INT", "TSTP", "CONT"},
         KillGroup(p, s), ToShell(p, s) \subseteq pend', "CHLD" \in pend => "CHLD" \in pend'
  PROVE  ChildrenEvolve
<1>1. ASSUME NEW q \in Pid PROVE Evolved(proc[q], proc'[q], "CHLD" \in pend')
  <2>1. proc[q] \in Proc /\ ReportOK(proc[q])
    BY DEF ReportInv
  <2>2. CASE proc'[q] = proc[q]
    BY <2>1, <2>2 DEF Evolved
  <2>3. CASE proc'[q] # proc[q]
    <3>1. /\ proc'[q] = Posted(proc[q], s)
          /\ (q = p /\ HasGroup(q)) \/ (p = 0 /\ proc[q].life = "forked")
      BY <2>3 DEF KillGroup
    <3>2. s = "CONT" /\ proc[q].life = "stopped" => "CHLD" \in pend'
      <4> SUFFICES ASSUME s = "CONT", proc[q].life = "stopped" PROVE "CHLD" \in pend'
        OBVIOUS
      <4>1. q = p
        BY <3>1
      <4>2. ToShell(p, s) = {"CHLD"}
        BY <4>1, PidAssumption DEF ToShell
      <4> QED
        BY <4>2
    <3> QED
      BY <2>1, <3>1, <3>2, PostedEvolves
  <2> QED
    BY <2>2, <2>3
<1> QED
  BY <1>1 DEF ChildrenEvolve

(* A step that leaves the children and a pending SIGCHLD alone.            *)
LEMMA SameChildren ==
  ASSUME WatchInv, UNCHANGED proc, "CHLD" \in pend => "CHLD" \in pend'
  PROVE  ChildrenEvolve
BY DEF WatchInv, ReportInv, ChildrenEvolve, Evolved

(* The steps of the children and of the world outside.                     *)
LEMMA ChildStepEvolves ==
  ASSUME IInv, WatchInv, NEW p \in Pid, ChildStep(p) \/ WorldStep(p)
  PROVE  ChildrenEvolve
<1> USE DEF ChildStep, WorldStep
<1>1. proc \in [Pid -> Proc] /\ \A q \in Pid : ReportOK(proc[q])
  BY DEF IInv, TypeOK, WatchInv, ReportInv
<1>2. "CHLD" \in pend => "CHLD" \in pend'
  BY DEF ChildStart, ChildExec, ChildExecFails, ProcKilled, ProcStops, ChildSwallows,
         ProcExits, OutsideSignal, Ends
<1> DEFINE Change == \E n \in Proc : proc' = [proc EXCEPT ![p] = n]
                                     /\ Evolved(proc[p], n, "CHLD" \in pend')
<1>3. proc[p] \in Proc /\ ReportOK(proc[p])
  BY <1>1
<1>4. Change
  <2>1. CASE ChildExecFails(p) \/ ProcKilled(p) \/ ProcExits(p)
    <3>1. PICK t \in Terminal :
            /\ proc' = [proc EXCEPT ![p] = [NoProc EXCEPT !.life = "zombie", !.report = t]]
            /\ "CHLD" \in pend'
      BY <2>1 DEF ChildExecFails, ProcKilled, ProcExits, Ends, Terminal
    <3> DEFINE n == [NoProc EXCEPT !.life = "zombie", !.report = t]
    <3>2. n \in Proc /\ n.life = "zombie" /\ n.report = t
      BY DEF NoProc, Proc, Life, Status
    <3>3. proc[p].life # "free"
      BY <2>1 DEF ChildExecFails, ProcKilled, ProcExits
    <3>4. Evolved(proc[p], n, "CHLD" \in pend')
      <4> HIDE DEF n
      <4> QED
        BY <3>1, <3>2, <3>3 DEF Evolved, ReportOK, Terminal
    <3> QED
      BY <3>1, <3>2, <3>4
  <2>2. CASE ChildStart(p)
    <3> DEFINE n == [proc[p] EXCEPT !.life = "grouped", !.mask = @ \ {"CHLD"}]
    <3>1. proc' = [proc EXCEPT ![p] = n] /\ proc[p].life = "forked"
      BY <1>1, <2>2 DEF ChildStart
    <3>2. n \in Proc /\ n.life = "grouped" /\ n.report = proc[p].report
      BY <1>3 DEF Proc, Life
    <3>3. Evolved(proc[p], n, "CHLD" \in pend')
      <4> HIDE DEF n
      <4> QED
        BY <1>3, <3>1, <3>2 DEF Evolved, ReportOK
    <3> QED
      BY <3>1, <3>2, <3>3
  <2>3. CASE ChildExec(p)
    <3> DEFINE n == [proc[p] EXCEPT !.life = "running"]
    <3>1. proc' = [proc EXCEPT ![p] = n] /\ proc[p].life = "grouped"
      BY <1>1, <2>3 DEF ChildExec
    <3>2. n \in Proc /\ n.life = "running" /\ n.report = proc[p].report
      BY <1>3 DEF Proc, Life
    <3>3. Evolved(proc[p], n, "CHLD" \in pend')
      <4> HIDE DEF n
      <4> QED
        BY <1>3, <3>1, <3>2 DEF Evolved, ReportOK
    <3> QED
      BY <3>1, <3>2, <3>3
  <2>4. CASE ProcStops(p)
    <3> DEFINE n == [proc[p] EXCEPT !.life = "stopped", !.report = "stopped",
                                    !.pend = @ \ {"TSTP"}]
    <3>1. proc' = [proc EXCEPT ![p] = n] /\ proc[p].life = "running" /\ "CHLD" \in pend'
      BY <1>1, <2>4 DEF ProcStops
    <3>2. n \in Proc /\ n.life = "stopped" /\ n.report = "stopped"
      BY <1>3 DEF Proc, Life, Status
    <3>3. Evolved(proc[p], n, "CHLD" \in pend')
      <4> HIDE DEF n
      <4> QED
        BY <1>3, <3>1, <3>2 DEF Evolved, ReportOK, Terminal
    <3> QED
      BY <3>1, <3>2, <3>3
  <2>5. ASSUME NEW s \in {"INT", "TSTP"}, ChildSwallows(p, s) PROVE Change
    <3> DEFINE n == [proc[p] EXCEPT !.pend = @ \ {s}]
    <3>1. proc' = [proc EXCEPT ![p] = n]
      BY <1>1, <2>5 DEF ChildSwallows
    <3>2. n \in Proc /\ n.life = proc[p].life /\ n.report = proc[p].report
      BY <1>3 DEF Proc
    <3>3. Evolved(proc[p], n, "CHLD" \in pend')
      <4> HIDE DEF n
      <4> QED
        BY <1>3, <3>2 DEF Evolved, ReportOK
    <3> QED
      BY <3>1, <3>2, <3>3
  <2>6. ASSUME NEW s \in Outside, OutsideSignal(p, s) PROVE Change
    <3> DEFINE n == Posted(proc[p], s)
    <3>1. proc' = [proc EXCEPT ![p] = n]
      BY <1>1, <2>6 DEF OutsideSignal
    <3>2. s = "CONT" /\ proc[p].life = "stopped" => "CHLD" \in pend'
      BY <2>6 DEF OutsideSignal
    <3>3. s \in {"INT", "TSTP", "CONT", "QUIT"}
      BY OutsideAssumption
    <3>4. n \in Proc
      BY <1>3, <3>3, PostedProc
    <3>5. Evolved(proc[p], n, "CHLD" \in pend')
      BY <1>3, <3>2, <3>3, PostedEvolves
    <3> QED
      BY <3>1, <3>4, <3>5
  <2>7. CASE \E s \in {"INT", "TSTP"} : ChildSwallows(p, s)
    BY <2>5, <2>7
  <2>8. CASE \E s \in Outside : OutsideSignal(p, s)
    BY <2>6, <2>8
  <2> HIDE DEF Change
  <2> QED
    BY <2>1, <2>2, <2>3, <2>4, <2>7, <2>8
<1>5. ASSUME NEW q \in Pid PROVE Evolved(proc[q], proc'[q], "CHLD" \in pend')
  <2>1. CASE q = p
    BY <1>1, <1>4, <2>1
  <2>2. CASE q # p
    <3>1. proc'[q] = proc[q]
      BY <1>1, <1>4, <2>2
    <3> QED
      BY <1>1, <3>1 DEF Evolved
  <2> QED
    BY <2>1, <2>2
<1> QED
  BY <1>2, <1>5 DEF ChildrenEvolve
-----------------------------------------------------------------------------
(* The steps that leave the list and the handler's hand alone, and in      *)
(* which children at most evolve.                                          *)
QuietStep ==
  \/ \E c \in Commands : RunCommand(c) \/ \E i \in Slot : LookupJob(c, i)
  \/ ForkFails \/ WaitfgTest \/ Sigsuspend \/ SigsuspendReturn \/ BadArgument
  \/ BgFgCont \/ BgFgCallWaitfg \/ Quit \/ SigquitHandler \/ ApplyUnlisted
  \/ \E s \in {"INT", "TSTP"} : Forward(s)
  \/ \E s \in Keys : PressKey(s)
  \/ \E p \in Pid : ChildStep(p) \/ WorldStep(p)
  \/ UNCHANGED vars

LoudStep ==
  \/ \E p \in Pid : Fork(p) \/ Reap(p)
  \/ AddJob \/ BgFgSetState \/ ChldEnter \/ ReapNone
  \/ ApplyEnded \/ ApplyStopped \/ ApplyContinued

Quiet ==
  /\ ChildrenEvolve /\ UNCHANGED <<jobs, hpc, got>>
  /\ pc' = "addjob" => pc = "addjob" /\ cur' = cur
  /\ pc \in {"addjob", "exited"} => pc' \in {"addjob", "exited"} /\ cur' = cur
  /\ pc' = "crashed" => pc = "crashed" \/ ApplyUnlisted
  /\ pc' \in {"cont", "setstate", "readpid"} =>
       pc \in {"cont", "setstate", "readpid"} \/ Commands \cap {"fg", "bg"} # {}

LEMMA StepKinds == [Next]_vars => QuietStep \/ LoudStep
BY DEF Next, MainStep, UserStep, HandlerStep, ForwardStep, QuietStep, LoudStep

(* A signal handler that returns changes only where waitfg continues.      *)
LEMMA ForwardEvolves ==
  ASSUME IInv, WatchInv, NEW s \in {"INT", "TSTP"}, Forward(s)
  PROVE  ChildrenEvolve
<1>1. CASE FgSlots(jobs) = {}
  BY <1>1, SameChildren DEF Forward
<1>2. CASE FgSlots(jobs) # {}
  <2> DEFINE p == jobs[First(FgSlots(jobs))].pid
  <2>1. KillGroup(p, s) /\ pend' = (pend \ {s}) \cup ToShell(p, s)
    BY <1>2 DEF Forward
  <2>2. proc \in [Pid -> Proc] /\ ReportInv
    BY DEF IInv, TypeOK, WatchInv
  <2> HIDE DEF p
  <2> QED
    BY <2>1, <2>2, KillGroupEvolves
<1> QED
  BY <1>1, <1>2

LEMMA QuietSteps ==
  ASSUME IInv, WatchInv, QuietStep
  PROVE  Quiet
<1> USE DEF list, main, hand
<1>1. ASSUME NEW c, RunCommand(c) PROVE Quiet
  BY <1>1, SameChildren DEF RunCommand, At, Quiet
<1>2. ASSUME NEW c \in Commands, NEW i, LookupJob(c, i) PROVE Quiet
  <2>1. Commands \cap {"fg", "bg"} # {}
    BY <1>2 DEF LookupJob
  <2> QED
    BY <1>2, <2>1, SameChildren DEF LookupJob, At, Quiet
<1>3. CASE ForkFails \/ Quit \/ BadArgument
  BY <1>3, SameChildren DEF ForkFails, Quit, BadArgument, At, Quiet
<1>4. CASE WaitfgTest
  BY <1>4, SameChildren DEF WaitfgTest, At, GoTo, BackToPrompt, Quiet
<1>5. CASE Sigsuspend \/ SigsuspendReturn
  BY <1>5, SameChildren DEF Sigsuspend, SigsuspendReturn, At, Quiet
<1>6. CASE BgFgCont
  <2> DEFINE p == jobs[slot].pid
  <2>1. KillGroup(p, "CONT") /\ pend' = pend \cup ToShell(p, "CONT")
    BY <1>6 DEF BgFgCont
  <2>2. proc \in [Pid -> Proc] /\ ReportInv
    BY DEF IInv, TypeOK, WatchInv
  <2>3. ChildrenEvolve
    <3> HIDE DEF p
    <3> QED
      BY <2>1, <2>2, KillGroupEvolves
  <2> QED
    BY <1>6, <2>3 DEF BgFgCont, At, Quiet
<1>7. CASE BgFgCallWaitfg
  BY <1>7, SameChildren DEF BgFgCallWaitfg, At, Quiet
<1>8. CASE SigquitHandler
  BY <1>8, SameChildren DEF SigquitHandler, Quiet
<1>9. CASE ApplyUnlisted
  <2>1. pc \notin {"addjob", "exited"}
    BY <1>9 DEF ApplyUnlisted, IInv, ForkGuarded, Alive
  <2> QED
    BY <1>9, <2>1, SameChildren DEF ApplyUnlisted, Quiet
<1>10. ASSUME NEW s \in {"INT", "TSTP"}, Forward(s) PROVE Quiet
  <2>1. ChildrenEvolve
    BY <1>10, ForwardEvolves
  <2> QED
    BY <1>10, <2>1 DEF Forward, Wake, Quiet
<1>11. ASSUME NEW s \in Keys, PressKey(s) PROVE Quiet
  BY <1>11, SameChildren DEF PressKey, Quiet
<1>12. ASSUME NEW p \in Pid, ChildStep(p) \/ WorldStep(p) PROVE Quiet
  <2>1. ChildrenEvolve
    BY <1>12, ChildStepEvolves
  <2>2. UNCHANGED <<list, main, hand>>
    BY <1>12 DEF ChildStep, WorldStep, ChildStart, ChildExec, ChildExecFails, ProcKilled,
       ProcStops, ChildSwallows, ProcExits, OutsideSignal
  <2> QED
    BY <2>1, <2>2 DEF Quiet
<1>13. CASE UNCHANGED vars
  BY <1>13, SameChildren DEF vars, Quiet
<1> QED
  BY <1>1, <1>2, <1>3, <1>4, <1>5, <1>6, <1>7, <1>8, <1>9, <1>10, <1>11, <1>12, <1>13
     DEF QuietStep

LEMMA QuietWatch ==
  ASSUME IInv, WatchInv, Quiet
  PROVE  WatchInv'
<1> USE DEF Quiet, ChildrenEvolve, Evolved
<1>1. ReportInv'
  BY DEF ReportInv
<1>2. ToldInv'
  BY DEF WatchInv, ToldInv
<1>3. HandInv'
  BY DEF WatchInv, HandInv
<1>4. NewbornInv'
  <2> SUFFICES ASSUME pc' = "addjob", proc'[cur'].life = "stopped"
               PROVE  proc'[cur'].report # "none"
    BY DEF NewbornInv
  <2>1. pc = "addjob" /\ cur' = cur /\ cur \in Pid
    BY DEF IInv, NewChild
  <2> QED
    BY <2>1 DEF WatchInv, NewbornInv
<1> QED
  BY <1>1, <1>2, <1>3, <1>4 DEF WatchInv

(* Quiet steps keep the promises of the list: a report is never unlisted.  *)
LEMMA QuietListed ==
  ASSUME IInv, WatchInv, ListedInv, Quiet
  PROVE  ListedInv'
<1>1. ~ApplyUnlisted
  <2> SUFFICES ASSUME ApplyUnlisted PROVE FALSE
    OBVIOUS
  <2>1. got.pid \in Listed(jobs) /\ getjobpid(jobs, got.pid) = 0 /\ got.pid \in Pid
    BY DEF ApplyUnlisted, ListedInv, WatchInv, HandInv
  <2>2. got.pid \in Nat \ {0} /\ jobs \in JobTable /\ SinglePids(jobs)
    BY <2>1, PidAssumption DEF IInv, TypeOK
  <2>3. 0 \in Slot
    BY <2>1, <2>2, ListedFound
  <2> QED
    BY <2>3 DEF Slot
<1>2. pc' # "crashed"
  BY <1>1 DEF Quiet, ListedInv
<1>3. \A p \in Pid : proc'[p].life # "free" =>
         p \in Listed(jobs') \/ (pc' \in {"addjob", "exited"} /\ cur' = p)
  BY DEF Quiet, ChildrenEvolve, Evolved, ListedInv
<1>4. hpc' = "apply" /\ got'.status \in {"stopped", "continued"} => got'.pid \in Listed(jobs')
  BY DEF Quiet, ListedInv
<1> QED
  BY <1>2, <1>3, <1>4 DEF ListedInv

LEMMA QuietShown ==
  ASSUME IInv, ShownInv, Quiet, Commands \cap {"fg", "bg"} = {}
  PROVE  ShownInv'
<1>1. pc' \notin {"cont", "setstate", "readpid"}
  BY DEF Quiet, ShownInv
<1>2. ASSUME NEW i \in Slot PROVE Shown(i)'
  <2>1. Shown(i)
    BY DEF ShownInv
  <2> QED
    BY <2>1 DEF Shown, Quiet, ChildrenEvolve, Evolved
<1> QED
  BY <1>1, <1>2 DEF ShownInv

-----------------------------------------------------------------------------
(* The steps that change the list, the hand or the set of children.        *)
LEMMA ForkWatch ==
  ASSUME IInv, WatchInv, NEW p \in Pid, Fork(p)
  PROVE  /\ WatchInv'
         /\ ListedInv => ListedInv'
         /\ ShownInv => ShownInv'
<1>1. /\ pc = "fork" /\ hpc = "idle" /\ pc' = "addjob" /\ cur' = p
      /\ UNCHANGED <<jobs, pend, hpc, got>>
      /\ proc[p].life = "free"
  BY DEF Fork, At, list, hand
<1>2. /\ proc'[p].life = "forked" /\ proc'[p].report = "none"
      /\ \A q \in Pid \ {p} : proc'[q] = proc[q]
  BY DEF IInv, TypeOK, Fork, NoProc
<1>3. p \notin Listed(jobs)
  BY <1>1 DEF IInv, NoPhantomJob, EndInHand
<1>4. ReportInv'
  BY <1>2 DEF WatchInv, ReportInv, ReportOK, Terminal
<1>5. ToldInv' /\ HandInv' /\ NewbornInv'
  BY <1>1, <1>2 DEF WatchInv, ToldInv, HandInv, NewbornInv
<1>6. ListedInv => ListedInv'
  BY <1>1, <1>2 DEF ListedInv, Listed
<1>7. ShownInv => ShownInv'
  <2>1. \A i \in Slot : jobs[i].pid # p
    <3>1. p # 0
      BY PidAssumption
    <3> QED
      BY <1>3, <3>1 DEF Listed
  <2> QED
    BY <2>1, <1>1, <1>2 DEF ShownInv, Shown
<1> QED
  BY <1>4, <1>5, <1>6, <1>7 DEF WatchInv

(* A list with as many slots as there are pids has room for a new one.     *)
LEMMA RoomOnList ==
  ASSUME IInv, pc = "addjob", IsFiniteSet(Pid), Cardinality(Pid) <= MAXJOBS
  PROVE  FreeSlots(jobs) # {}
<1> SUFFICES ASSUME FreeSlots(jobs) = {} PROVE FALSE
  OBVIOUS
<1>1. cur \in Pid /\ cur \notin Listed(jobs)
  BY DEF IInv, NewChild
<1>2. \A i \in Slot : jobs[i].pid # 0 /\ jobs[i].pid \in Listed(jobs)
  BY DEF FreeSlots, Listed
<1>3. \A i \in Slot : jobs[i].pid \in Pid \ {cur}
  BY <1>1, <1>2 DEF IInv, NoPhantomJob
<1> DEFINE f == [i \in Slot |-> jobs[i].pid]
<1>4. f \in Injection(Slot, Pid \ {cur})
  <2>1. f \in [Slot -> Pid \ {cur}]
    BY <1>3
  <2>2. \A i, j \in Slot : f[i] = f[j] => i = j
    BY <1>2 DEF IInv, SinglePids
  <2> QED
    BY <2>1, <2>2 DEF Injection, IsInjective
<1>5. IsFiniteSet(Pid \ {cur}) /\ Cardinality(Pid \ {cur}) = Cardinality(Pid) - 1
  BY <1>1, FS_RemoveElement
<1>6. Cardinality(Slot) <= Cardinality(Pid \ {cur})
  <2> HIDE DEF f
  <2> QED
    BY <1>4, <1>5, FS_Injection
<1>7. Cardinality(Slot) = MAXJOBS
  BY FS_Interval, MaxJobsAssumption DEF Slot
<1>8. Cardinality(Pid) \in Nat
  BY FS_CardinalityType
<1> QED
  BY <1>5, <1>6, <1>7, <1>8, MaxJobsAssumption

LEMMA AddJobWatch ==
  ASSUME IInv, WatchInv, AddJob
  PROVE  /\ WatchInv'
         /\ IsFiniteSet(Pid) /\ Cardinality(Pid) <= MAXJOBS /\ ListedInv => ListedInv'
         /\ ShownInv => ShownInv'
<1> DEFINE st == IF fg THEN "FG" ELSE "BG"
<1>1. /\ cur \in Pid /\ cur \in Nat \ {0} /\ cur \notin Listed(jobs)
      /\ jobs \in JobTable /\ nextjid \in Nat /\ st \in JobState
  BY PidAssumption DEF IInv, AddJob, At, NewChild, TypeOK, JobState
<1>2. /\ pc = "addjob" /\ hpc = "idle" /\ pc' \in {"waitfg", "prompt"}
      /\ UNCHANGED <<pend, hpc, got, proc>>
      /\ jobs' = addjob(jobs, nextjid, cur, st)
  BY DEF AddJob, At, GoTo, BackToPrompt, hand
<1>3. WatchInv'
  BY <1>2 DEF WatchInv, ReportInv, ToldInv, HandInv, NewbornInv
<1>4. \/ jobs' = jobs /\ FreeSlots(jobs) = {}
      \/ \E k \in Slot : /\ jobs[k].pid = 0 /\ jobs'[k].pid = cur /\ jobs'[k].state = st
                         /\ \A i \in Slot \ {k} : jobs'[i] = jobs[i]
  <2>1. CASE FreeSlots(jobs) = {}
    BY <1>2, <2>1 DEF addjob
  <2>2. CASE FreeSlots(jobs) # {}
    <3>1. First(FreeSlots(jobs)) \in FreeSlots(jobs)
      BY <2>2, FirstInSet DEF FreeSlots
    <3>2. jobs' = [jobs EXCEPT ![First(FreeSlots(jobs))] = [pid |-> cur, jid |-> nextjid, state |-> st]]
      BY <1>2, <2>2 DEF addjob
    <3> HIDE DEF st
    <3> QED
      BY <1>1, <3>1, <3>2 DEF FreeSlots, JobTable
  <2> QED
    BY <2>1, <2>2
<1>5. ASSUME IsFiniteSet(Pid), Cardinality(Pid) <= MAXJOBS, ListedInv PROVE ListedInv'
  <2>1. FreeSlots(jobs) # {}
    BY <1>2, <1>5, RoomOnList
  <2>2. PICK k \in Slot : /\ jobs[k].pid = 0 /\ jobs'[k].pid = cur
                          /\ \A i \in Slot \ {k} : jobs'[i] = jobs[i]
    BY <1>4, <2>1
  <2>3. Listed(jobs) \cup {cur} \subseteq Listed(jobs')
    BY <1>1, <2>2 DEF Listed
  <2>4. pc' # "crashed" /\ hpc' # "apply" /\ UNCHANGED proc
    BY <1>2
  <2> QED
    BY <1>2, <1>5, <2>3, <2>4 DEF ListedInv
<1>6. ASSUME ShownInv PROVE ShownInv'
  <2>1. proc[cur].report = "none" => proc[cur].life # "stopped"
    BY <1>2 DEF WatchInv, NewbornInv
  <2>2. st # "ST"
    OBVIOUS
  <2> HIDE DEF st
  <2> QED
    BY <1>2, <1>4, <1>6, <2>1, <2>2 DEF ShownInv, Shown
<1> QED
  BY <1>3, <1>5, <1>6

(* do_bgfg rewrites a state; without fg and bg it does not run.            *)
LEMMA BgFgSetStateWatch ==
  ASSUME IInv, WatchInv, BgFgSetState
  PROVE  WatchInv' /\ (ListedInv => ListedInv') /\ ~ShownInv
<1>1. /\ pc = "setstate" /\ hpc = "idle" /\ pc' \in {"readpid", "prompt"}
      /\ UNCHANGED <<pend, hpc, got, proc>>
      /\ jobs' = [jobs EXCEPT ![slot].state = IF fg THEN "FG" ELSE "BG"]
  BY DEF BgFgSetState, At, GoTo, BackToPrompt, hand
<1>2. WatchInv'
  BY <1>1 DEF WatchInv, ReportInv, ToldInv, HandInv, NewbornInv
<1>3. Listed(jobs') = Listed(jobs)
  <2>1. jobs \in JobTable /\ slot \in Slot
    BY <1>1 DEF IInv, TypeOK, JobPointer
  <2>2. \A i \in Slot : jobs'[i].pid = jobs[i].pid
    BY <1>1, <2>1 DEF JobTable, Job
  <2> QED
    BY <2>2 DEF Listed
<1>4. ListedInv => ListedInv'
  BY <1>1, <1>3 DEF ListedInv
<1> QED
  BY <1>1, <1>2, <1>4 DEF ShownInv

LEMMA ChldEnterWatch ==
  ASSUME IInv, WatchInv, ChldEnter
  PROVE  WatchInv' /\ (ListedInv => ListedInv') /\ (ShownInv => ShownInv')
<1>1. /\ "CHLD" \notin mask /\ hpc = "idle" /\ hpc' = "reap"
      /\ pc' = (IF pc = "suspended" THEN "resuming" ELSE pc)
      /\ UNCHANGED <<jobs, cur, got, proc>>
  BY DEF ChldEnter, Deliverable, Wake, list
<1>2. WatchInv'
  BY <1>1 DEF WatchInv, ReportInv, ToldInv, HandInv, NewbornInv
<1>3. ListedInv => ListedInv'
  BY <1>1 DEF ListedInv
<1>4. ShownInv => ShownInv'
  BY <1>1 DEF ShownInv, Shown
<1> QED
  BY <1>2, <1>3, <1>4

(* A report moves from the child to the hand.  Only a listed child has one *)
(* there: addjob is over, and the shell has not exited.                    *)
LEMMA ReapWatch ==
  ASSUME IInv, WatchInv, NEW p \in Pid, Reap(p)
  PROVE  WatchInv' /\ (ListedInv => ListedInv') /\ (ShownInv => ShownInv')
<1>1. /\ hpc = "reap" /\ hpc' = "apply" /\ pc # "exited" /\ proc[p].report # "none"
      /\ got' = [pid |-> p, status |-> proc[p].report]
      /\ UNCHANGED <<jobs, pc, cur, pend>>
  BY DEF Reap, Alive, list, main
<1>2. got'.pid = p /\ got'.status = proc[p].report
  BY <1>1
<1>3. proc \in [Pid -> Proc] /\ proc[p] \in Proc /\ ReportOK(proc[p])
  BY DEF IInv, TypeOK, WatchInv, ReportInv
<1>4. proc' = [proc EXCEPT ![p] = IF proc[p].life = "zombie" THEN NoProc
                                 ELSE [proc[p] EXCEPT !.report = "none"]]
  BY <1>3 DEF Reap
<1>5. /\ \A q \in Pid \ {p} : proc'[q] = proc[q]
      /\ proc'[p].report = "none"
      /\ proc[p].life # "zombie" => proc'[p].life = proc[p].life
      /\ proc[p].life = "zombie" => proc'[p].life = "free"
  BY <1>3, <1>4 DEF NoProc, Proc
<1>6. pc \notin {"fork", "addjob"}
  BY <1>1 DEF IInv, ForkGuarded
<1>7. ReportInv'
  <2>1. ReportOK(proc'[p])
    BY <1>5, <1>3 DEF ReportOK, Terminal
  <2> QED
    BY <2>1, <1>5 DEF WatchInv, ReportInv
<1>8. ToldInv' /\ NewbornInv'
  BY <1>1, <1>6 DEF ToldInv, NewbornInv
<1>9. HandInv'
  BY <1>1, <1>2, <1>3, <1>5 DEF HandInv, ReportOK
<1>10. ASSUME ListedInv PROVE ListedInv'
  <2>1. proc[p].life # "free" => p \in Listed(jobs)
    BY <1>1, <1>6, <1>10 DEF ListedInv
  <2>2. proc[p].report \in {"stopped", "continued"} => p \in Listed(jobs)
    BY <2>1, <1>3 DEF ReportOK
  <2> QED
    BY <1>1, <1>2, <1>5, <1>10, <2>2 DEF ListedInv
<1>11. ShownInv => ShownInv'
  BY <1>1, <1>2, <1>5 DEF ShownInv, Shown
<1> QED
  BY <1>7, <1>8, <1>9, <1>10, <1>11 DEF WatchInv

LEMMA ReapNoneWatch ==
  ASSUME IInv, WatchInv, ReapNone
  PROVE  WatchInv' /\ (ListedInv => ListedInv') /\ (ShownInv => ShownInv')
<1>1. /\ hpc = "reap" /\ hpc' = "idle" /\ \A p \in Pid : proc[p].report = "none"
      /\ UNCHANGED <<jobs, pc, cur, pend, got, proc>>
  BY DEF ReapNone, list, main
<1>2. WatchInv'
  BY <1>1 DEF WatchInv, ReportInv, ToldInv, HandInv, NewbornInv
<1>3. ListedInv => ListedInv'
  BY <1>1 DEF ListedInv
<1>4. ShownInv => ShownInv'
  BY <1>1 DEF ShownInv, Shown
<1> QED
  BY <1>2, <1>3, <1>4

(* After a report has been applied the hand is empty.                      *)
LEMMA AppliedWatch ==
  ASSUME IInv, WatchInv, ApplyEnded \/ ApplyStopped \/ ApplyContinued
  PROVE  /\ WatchInv' /\ hpc = "apply" /\ hpc' = "reap"
         /\ UNCHANGED <<pc, cur, proc>> /\ pc \notin {"exited", "fork", "addjob"}
         /\ got.pid \in Pid /\ got.pid \in Nat \ {0}
         /\ jobs \in JobTable /\ SinglePids(jobs)
<1>1. /\ hpc = "apply" /\ hpc' = "reap" /\ pc # "exited" /\ UNCHANGED <<pc, cur, pend, proc>>
  BY DEF ApplyEnded, ApplyStopped, ApplyContinued, Alive, main
<1>2. WatchInv'
  BY <1>1 DEF WatchInv, ReportInv, ToldInv, HandInv, NewbornInv
<1>3. pc \notin {"fork", "addjob"}
  BY <1>1 DEF IInv, ForkGuarded
<1>4. got.pid \in Pid
  BY <1>1 DEF WatchInv, HandInv
<1> QED
  BY <1>1, <1>2, <1>3, <1>4, PidAssumption DEF IInv, TypeOK

(* The entry that goes is the one of the child that is gone.               *)
LEMMA ApplyEndedWatch ==
  ASSUME IInv, WatchInv, ApplyEnded
  PROVE  (ListedInv => ListedInv') /\ (ShownInv => ShownInv')
<1>1. /\ hpc = "apply" /\ hpc' = "reap" /\ UNCHANGED <<pc, cur, proc>>
      /\ got.pid \in Pid /\ got.pid \in Nat \ {0} /\ jobs \in JobTable /\ SinglePids(jobs)
  BY AppliedWatch
<1>2. jobs' = deletejob(jobs, got.pid) /\ got.status \in Terminal
  BY DEF ApplyEnded
<1>3. \A i \in Slot : jobs'[i] = IF jobs[i].pid = got.pid THEN clearjob ELSE jobs[i]
  BY <1>1, <1>2, DeletejobEffect
<1>4. proc[got.pid].life = "free"
  BY <1>1, <1>2 DEF WatchInv, HandInv
<1>5. \A p \in Listed(jobs) : p # got.pid => p \in Listed(jobs')
  BY <1>3 DEF Listed
<1>6. ListedInv => ListedInv'
  BY <1>1, <1>4, <1>5 DEF ListedInv
<1>7. ASSUME ShownInv, NEW i \in Slot PROVE Shown(i)'
  <2>1. CASE jobs[i].pid = got.pid
    <3>1. jobs'[i].pid = 0
      BY <1>3, <2>1 DEF clearjob
    <3> QED
      BY <3>1, PidAssumption DEF Shown
  <2>2. CASE jobs[i].pid # got.pid
    <3>1. jobs'[i] = jobs[i]
      BY <1>3, <2>2
    <3> QED
      BY <3>1, <2>2, <1>1, <1>7 DEF ShownInv, Shown
  <2> QED
    BY <2>1, <2>2
<1> QED
  BY <1>1, <1>6, <1>7 DEF ShownInv

(* A stop or a continuation is written where the child stands.             *)
LEMMA ApplyStateWatch ==
  ASSUME IInv, WatchInv, ApplyStopped \/ ApplyContinued
  PROVE  (ListedInv => ListedInv') /\ (ShownInv => ShownInv')
<1> DEFINE k == getjobpid(jobs, got.pid)
<1>1. /\ hpc = "apply" /\ hpc' = "reap" /\ UNCHANGED <<pc, cur, proc>>
      /\ got.pid \in Pid /\ got.pid \in Nat \ {0} /\ jobs \in JobTable /\ SinglePids(jobs)
  BY AppliedWatch
<1>2. k # 0
  BY DEF ApplyStopped, ApplyContinued
<1>3. k \in Slot /\ jobs[k].pid = got.pid
  BY <1>1, <1>2, GetjobpidSlot
<1>4. \A i \in Slot : jobs[i].pid = got.pid <=> i = k
  <2> HIDE DEF k
  <2> QED
    BY <1>1, <1>3 DEF SinglePids
<1>5. PICK st \in {"ST", "BG", jobs[k].state} :
        /\ jobs' = [jobs EXCEPT ![k].state = st]
        /\ got.status = "stopped" => st = "ST"
        /\ got.status = "continued" => st # "ST"
        /\ got.status \in {"stopped", "continued"}
  <2>1. CASE ApplyStopped
    BY <2>1 DEF ApplyStopped
  <2>2. CASE ApplyContinued
    <3>1. /\ jobs' = [jobs EXCEPT ![k].state = IF jobs[k].state = "ST" THEN "BG" ELSE jobs[k].state]
          /\ got.status = "continued"
      BY <1>1, <1>3, <2>2 DEF ApplyContinued, JobTable
    <3> HIDE DEF k
    <3> QED
      BY <3>1
  <2> QED
    BY <2>1, <2>2
<1>6. /\ \A i \in Slot : jobs'[i].pid = jobs[i].pid
      /\ \A i \in Slot \ {k} : jobs'[i].state = jobs[i].state
      /\ jobs'[k].state = st
  <2>1. \A i \in Slot : jobs[i] \in [pid : Nat, jid : Nat, state : JobState]
    BY <1>1 DEF JobTable, Job
  <2>2. \A i \in Slot : jobs'[i] = IF i = k THEN [jobs[k] EXCEPT !.state = st] ELSE jobs[i]
    <3> HIDE DEF k
    <3> QED
      BY <1>1, <1>3, <1>5 DEF JobTable
  <2> HIDE DEF k
  <2> QED
    BY <1>3, <2>1, <2>2
<1>7. ListedInv => ListedInv'
  BY <1>1, <1>6 DEF ListedInv, Listed
<1>8. ASSUME ShownInv, NEW i \in Slot PROVE Shown(i)'
  <2>1. CASE i = k
    <3>1. proc[got.pid].report = "none" =>
            ((st = "ST") <=> (proc[got.pid].life = "stopped"))
      <4>1. /\ proc[got.pid].report = "none" /\ got.status = "stopped" =>
                 proc[got.pid].life = "stopped"
            /\ proc[got.pid].report = "none" /\ got.status = "continued" =>
                 proc[got.pid].life # "stopped"
        BY <1>1 DEF WatchInv, HandInv
      <4>2. \/ got.status = "stopped" /\ st = "ST"
            \/ got.status = "continued" /\ st # "ST"
        BY <1>5
      <4> QED
        BY <4>1, <4>2
    <3>2. jobs'[i].pid = got.pid /\ jobs'[i].state = st
      BY <1>3, <1>6, <2>1
    <3> QED
      BY <3>1, <3>2, <1>1 DEF Shown
  <2>2. CASE i # k
    <3>1. jobs[i].pid # got.pid /\ jobs'[i].pid = jobs[i].pid /\ jobs'[i].state = jobs[i].state
      BY <1>4, <1>6, <2>2
    <3> QED
      BY <3>1, <1>1, <1>8 DEF ShownInv, Shown
  <2> QED
    BY <2>1, <2>2
<1> QED
  BY <1>1, <1>7, <1>8 DEF ShownInv

-----------------------------------------------------------------------------
LEMMA InitWatch == Init => WatchInv /\ ListedInv /\ ShownInv
<1> SUFFICES ASSUME Init PROVE WatchInv /\ ListedInv /\ ShownInv
  OBVIOUS
<1>1. /\ hpc = "idle" /\ pc = "prompt" /\ \A p \in Pid : proc[p] = NoProc
      /\ \A i \in Slot : jobs[i] = clearjob
  BY DEF Init, initjobs
<1>2. WatchInv
  BY <1>1 DEF WatchInv, ReportInv, ReportOK, ToldInv, HandInv, NewbornInv, NoProc, Terminal
<1>3. ListedInv
  BY <1>1 DEF ListedInv, NoProc
<1>4. ShownInv
  BY <1>1, PidAssumption DEF ShownInv, Shown, clearjob
<1> QED
  BY <1>2, <1>3, <1>4

LEMMA NextWatch ==
  ASSUME IInv, WatchInv, [Next]_vars
  PROVE  /\ WatchInv'
         /\ IsFiniteSet(Pid) /\ Cardinality(Pid) <= MAXJOBS /\ ListedInv => ListedInv'
         /\ Commands \cap {"fg", "bg"} = {} /\ ShownInv => ShownInv'
<1>1. CASE QuietStep
  <2>1. Quiet
    BY <1>1, QuietSteps
  <2> QED
    BY <2>1, QuietWatch, QuietListed, QuietShown
<1>2. ASSUME NEW p \in Pid, Fork(p) \/ Reap(p)
      PROVE  WatchInv' /\ (ListedInv => ListedInv') /\ (ShownInv => ShownInv')
  BY <1>2, ForkWatch, ReapWatch
<1>3. CASE AddJob
  BY <1>3, AddJobWatch
<1>4. CASE BgFgSetState
  BY <1>4, BgFgSetStateWatch
<1>5. CASE ChldEnter \/ ReapNone
  BY <1>5, ChldEnterWatch, ReapNoneWatch
<1>6. CASE ApplyEnded
  BY <1>6, AppliedWatch, ApplyEndedWatch
<1>7. CASE ApplyStopped \/ ApplyContinued
  BY <1>7, AppliedWatch, ApplyStateWatch
<1> QED
  BY <1>1, <1>2, <1>3, <1>4, <1>5, <1>6, <1>7, StepKinds DEF LoudStep

(* While a report is unconsumed SIGCHLD is pending or its handler runs, so *)
(* no stop, continuation or end of a child is lost (tsh.c:394-396).        *)
THEOREM ReportsWatched == Spec => []WatchInv
<1>1. Init => WatchInv
  BY InitWatch
<1>2. IInv /\ WatchInv /\ [Next]_vars => WatchInv'
  BY NextWatch
<1> QED
  BY <1>1, <1>2, Invariance, PTL DEF Spec

(* With no more children than slots, every child is listed from addjob     *)
(* until it has been waited for, and sigchld_handler never follows the     *)
(* NULL pointer of a failed getjobpid.                                     *)
THEOREM AllListed ==
  ASSUME IsFiniteSet(Pid), Cardinality(Pid) <= MAXJOBS
  PROVE  Spec => []ChildrenListed
<1>1. Init => ListedInv
  BY InitWatch
<1>2. IInv /\ WatchInv /\ ListedInv /\ [Next]_vars => ListedInv'
  BY NextWatch
<1>3. ListedInv => ChildrenListed
  BY DEF ListedInv, ChildrenListed
<1> QED
  BY <1>1, <1>2, <1>3, Invariance, ReportsWatched, PTL DEF Spec

(* Where fg and bg are not used, the list says ST of exactly the stopped   *)
(* jobs whenever no report is outstanding (tsh.c:24-26).                   *)
THEOREM StatesSettle ==
  ASSUME Commands \cap {"fg", "bg"} = {}
  PROVE  Spec => []SettledStates
<1>1. Init => ShownInv
  BY InitWatch
<1>2. IInv /\ WatchInv /\ ShownInv /\ [Next]_vars => ShownInv'
  BY NextWatch
<1>3. WatchInv /\ ShownInv => SettledStates
  BY DEF WatchInv, ToldInv, ShownInv, Shown, SettledStates
<1> QED
  BY <1>1, <1>2, <1>3, Invariance, ReportsWatched, PTL DEF Spec
=============================================================================
