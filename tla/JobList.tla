------------------------------ MODULE JobList ------------------------------
(***************************************************************************)
(* The job list of tsh (shlab-handout/tsh.c, "Helper routines that         *)
(* manipulate the job list").  jobs[] is a function from slots to records, *)
(* nextjid the identifier the next job gets; the C routines that change    *)
(* them are operators that return the new value of each.  A search that    *)
(* runs from slot 0 upwards returns the lowest slot that matches.          *)
(***************************************************************************)
EXTENDS Naturals

CONSTANT MAXJOBS            \* slots of the job list (16 in tsh.c)

ASSUME MaxJobsAssumption == MAXJOBS \in Nat \ {0}

JobState == {"UNDEF", "FG", "BG", "ST"}
Slot     == 1..MAXJOBS
Job      == [pid : Nat, jid : Nat, state : JobState]
JobTable == [Slot -> Job]

(* Faulty variant: clearjob leaves a state no job may have.                *)
clearjobWrongState == [pid |-> 0, jid |-> 0, state |-> "NONE"]

clearjob == [pid |-> 0, jid |-> 0, state |-> "UNDEF"]
initjobs == [i \in Slot |-> clearjob]

(* The slot at which an upward scan stops. *)
First(S) == CHOOSE i \in S : \A j \in S : i <= j

FreeSlots(jobs)      == {i \in Slot : jobs[i].pid = 0}
SlotsOfPid(jobs, p)  == {i \in Slot : jobs[i].pid = p}
SlotsOfJid(jobs, n)  == {i \in Slot : jobs[i].jid = n}
FgSlots(jobs)        == {i \in Slot : jobs[i].state = "FG"}

(* The process ids on the list. *)
Listed(jobs) == {jobs[i].pid : i \in Slot} \ {0}

maxjid(jobs) ==
  CHOOSE m \in {jobs[i].jid : i \in Slot} : \A i \in Slot : jobs[i].jid <= m

(* addjob: what becomes of jobs[] and of nextjid.  A full list is left as  *)
(* it is.                                                                  *)
addjob(jobs, next, p, st) ==
  IF FreeSlots(jobs) = {} THEN jobs
  ELSE [jobs EXCEPT ![First(FreeSlots(jobs))] =
          [pid |-> p, jid |-> next, state |-> st]]

addjobNext(jobs, next) ==
  IF FreeSlots(jobs) = {} THEN next
  ELSE IF next + 1 > MAXJOBS THEN 1 ELSE next + 1

(* deletejob: the entry is cleared and nextjid restarts above the largest  *)
(* identifier still listed.  An unknown pid changes nothing.               *)
deletejob(jobs, p) ==
  IF SlotsOfPid(jobs, p) = {} THEN jobs
  ELSE [jobs EXCEPT ![First(SlotsOfPid(jobs, p))] = clearjob]

deletejobNext(jobs, next, p) ==
  IF SlotsOfPid(jobs, p) = {} THEN next
  ELSE maxjid(deletejob(jobs, p)) + 1

(* fgpid: the pid of the first foreground entry, 0 when there is none.     *)
fgpid(jobs) ==
  IF FgSlots(jobs) = {} THEN 0 ELSE jobs[First(FgSlots(jobs))].pid

(* getjobpid: 0 plays the part of the NULL pointer.                        *)
getjobpid(jobs, p) ==
  IF p < 1 \/ SlotsOfPid(jobs, p) = {} THEN 0 ELSE First(SlotsOfPid(jobs, p))

getjobjid(jobs, n) ==
  IF n < 1 \/ SlotsOfJid(jobs, n) = {} THEN 0 ELSE First(SlotsOfJid(jobs, n))
=============================================================================
