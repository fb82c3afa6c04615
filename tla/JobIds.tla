------------------------------- MODULE JobIds -------------------------------
(***************************************************************************)
(* The life of job identifiers: jobs come and go in any order, and nextjid *)
(* follows them through addjob and deletejob.  Nothing else of the shell   *)
(* takes part, so this module is the sequential churn of the job list.     *)
(***************************************************************************)
EXTENDS JobList

CONSTANTS Pid,       \* process ids that may be in use at once
          MaxJid     \* bound: churn stops growing identifiers above it

VARIABLES jobs, nextjid
vars == <<jobs, nextjid>>

Init ==
  /\ jobs = initjobs
  /\ nextjid = 1

(* eval's addjob, for a child whose pid is not on the list.                *)
Add(p, st) ==
  /\ p \notin Listed(jobs)
  /\ nextjid <= MaxJid
  /\ jobs' = addjob(jobs, nextjid, p, st)
  /\ nextjid' = addjobNext(jobs, nextjid)

(* The handler's deletejob, for a job that has ended.                      *)
Delete(p) ==
  /\ p \in Listed(jobs)
  /\ jobs' = deletejob(jobs, p)
  /\ nextjid' = deletejobNext(jobs, nextjid, p)

Next == \E p \in Pid : Add(p, "BG") \/ Delete(p)

Spec == Init /\ [][Next]_vars
-----------------------------------------------------------------------------
(* tsh.c:44 calls nextjid the "next job ID to allocate" and tsh.c:49 a     *)
(* jid the "job ID": no two listed jobs share one, whatever the order in   *)
(* which jobs come and go and nextjid wraps to 1.                          *)
UniqueJids ==
  \A i, j \in Slot : jobs[i].jid = jobs[j].jid /\ jobs[i].jid # 0 => i = j
=============================================================================
