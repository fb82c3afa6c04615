----------------------------- MODULE TinyShell -----------------------------
(***************************************************************************)
(* The job-control shell of shlab-handout/tsh.c: its main loop (eval,      *)
(* do_bgfg, waitfg), its signal handlers, and the kernel and the child     *)
(* processes as far as the shell can observe them.                         *)
(*                                                                         *)
(* Signals are the source of concurrency.  One the kernel has posted to    *)
(* the shell (pend) may be delivered between any two steps of the main     *)
(* program unless it is blocked (mask).  A stretch of code between         *)
(* sigprocmask(SIG_BLOCK, &mask_all) and its restore is one action: no     *)
(* handler can run in it, and nothing else reads the job list.             *)
(***************************************************************************)
EXTENDS JobList

CONSTANTS
  Pid,        \* process ids fork may return; a reaped one may return again
  JidBound,   \* bound: no command is started once nextjid exceeds it
  Commands,   \* what the user types: "run", "runbg", "fg", "bg", "badarg", "quit"
  Keys,       \* keyboard (and driver) signals to the shell: "INT", "TSTP", "QUIT"
  Outside,    \* signals a job gets from elsewhere (itself, another terminal)
  Faults      \* "fork", "exec": calls that may fail

ASSUME PidAssumption     == Pid \subseteq Nat \ {0}
ASSUME KeysAssumption    == Keys \subseteq {"INT", "TSTP", "QUIT"}
ASSUME OutsideAssumption == Outside \subseteq {"INT", "TSTP", "CONT"}

Signal == {"CHLD", "INT", "TSTP", "QUIT"}

(* What waitpid can say of a child, and what it then is.                   *)
Terminal == {"exited", "signaled"}
Status   == {"none", "stopped", "continued"} \cup Terminal
Life     == {"free", "forked", "grouped", "running", "stopped", "zombie"}
Proc     == [life : Life, report : Status, mask : SUBSET Signal, pend : SUBSET Signal]

VARIABLES
  jobs, nextjid,   \* the job list
  pc,              \* control point of the main program
  fg,              \* the command being run wants the foreground
  cur,             \* local: pid returned by fork / argument of waitfg
  slot,            \* local job of do_bgfg: the entry it points to
  mask, prev,      \* signal mask of the shell; the mask_prev to be restored
  pend,            \* signals posted to the shell and not delivered
  hpc, got,        \* sigchld_handler: control point; pid and status of waitpid
  proc             \* the shell's children

list == <<jobs, nextjid>>
main == <<pc, fg, cur, slot, mask, prev>>
hand == <<hpc, got>>
vars == <<list, main, pend, hand, proc>>

NoProc == [life |-> "free", report |-> "none", mask |-> {}, pend |-> {}]
NoWait == [pid |-> 0, status |-> "none"]

Init ==
  /\ jobs = initjobs /\ nextjid = 1
  /\ pc = "prompt" /\ fg = FALSE /\ cur = 0 /\ slot = 0
  /\ mask = {} /\ prev = {} /\ pend = {}
  /\ hpc = "idle" /\ got = NoWait
  /\ proc = [p \in Pid |-> NoProc]

(***************************************************************************)
(* Kernel: posting a signal to a process group.  A stop signal and SIGCONT *)
(* cancel each other while pending, SIGCONT resumes a stopped process, and *)
(* every change of a child's state posts SIGCHLD to the shell.             *)
(***************************************************************************)
HasGroup(p) == proc[p].life \in {"grouped", "running", "stopped"}

Posted(r, s) ==
  CASE s = "CONT" /\ r.life = "stopped" ->
         [r EXCEPT !.life = "running", !.report = "continued", !.pend = @ \ {"TSTP"}]
    [] s = "CONT" /\ r.life # "stopped" -> [r EXCEPT !.pend = @ \ {"TSTP"}]
    [] OTHER -> [r EXCEPT !.pend = @ \cup {s}]

(* kill(-p, s).  For p = 0 the target is the caller's own group, that is   *)
(* the shell and children that have not called setpgid; a group that does  *)
(* not exist (ESRCH) is no error for the shell.                            *)
KillGroup(p, s) ==
  proc' = [q \in Pid |->
    IF (q = p /\ HasGroup(q)) \/ (p = 0 /\ proc[q].life = "forked")
    THEN Posted(proc[q], s) ELSE proc[q]]

(* The signals this posts to the shell itself.                             *)
ToShell(p, s) ==
  CASE p = 0 /\ s # "CONT" -> {s}
    [] p \in Pid /\ s = "CONT" /\ proc[p].life = "stopped" -> {"CHLD"}
    [] OTHER -> {}

(* A child ends; what it reports replaces an older report.                 *)
Ends(p, report) ==
  /\ proc' = [proc EXCEPT ![p] = [NoProc EXCEPT !.life = "zombie", !.report = report]]
  /\ pend' = pend \cup {"CHLD"}

(* The main program takes a step only while no handler runs on its stack.  *)
At(label) == pc = label /\ hpc = "idle"

(* eval returns to the read loop, where its locals are gone.               *)
BackToPrompt == pc' = "prompt" /\ fg' = FALSE /\ cur' = 0 /\ slot' = 0

GoTo(label) == pc' = label /\ UNCHANGED <<fg, cur, slot>>

(***************************************************************************)
(* The main program: eval                                                  *)
(***************************************************************************)
(* Bounds: a new job needs an identifier and a pid of the model.           *)
RoomForJob == nextjid <= JidBound /\ \E p \in Pid : proc[p].life = "free"

(* Faulty variant: SIGCHLD is not blocked around fork and addjob.          *)
RunCommandUnblocked(c) ==
  /\ At("prompt") /\ c \in Commands \cap {"run", "runbg"} /\ RoomForJob
  /\ pc' = "fork" /\ fg' = (c = "run") /\ prev' = mask
  /\ UNCHANGED <<list, cur, slot, mask, pend, hand, proc>>

(* A command that is not builtin: SIGCHLD is blocked before fork.          *)
RunCommand(c) ==
  /\ At("prompt") /\ c \in Commands \cap {"run", "runbg"} /\ RoomForJob
  /\ pc' = "fork" /\ fg' = (c = "run")
  /\ prev' = mask /\ mask' = mask \cup {"CHLD"}
  /\ UNCHANGED <<list, cur, slot, pend, hand, proc>>

(* The child inherits the mask; it has no pending signals.                 *)
Fork(p) ==
  /\ At("fork") /\ proc[p].life = "free"
  /\ proc' = [proc EXCEPT ![p] = [NoProc EXCEPT !.life = "forked", !.mask = mask]]
  /\ cur' = p /\ pc' = "addjob"
  /\ UNCHANGED <<list, fg, slot, mask, prev, pend, hand>>

ForkFails ==
  /\ At("fork") /\ "fork" \in Faults
  /\ pc' = "exited"
  /\ UNCHANGED <<list, fg, cur, slot, mask, prev, pend, hand, proc>>

(* addjob under mask_all, then the mask from before the fork.  The result  *)
(* of addjob is not looked at.                                             *)
AddJob ==
  /\ At("addjob")
  /\ jobs' = addjob(jobs, nextjid, cur, IF fg THEN "FG" ELSE "BG")
  /\ nextjid' = addjobNext(jobs, nextjid)
  /\ mask' = prev
  /\ IF fg THEN GoTo("waitfg") ELSE BackToPrompt
  /\ UNCHANGED <<prev, pend, hand, proc>>

(***************************************************************************)
(* The main program: waitfg                                                *)
(***************************************************************************)
WaitfgTest ==
  /\ At("waitfg")
  /\ IF fgpid(jobs) = cur THEN GoTo("suspend") ELSE BackToPrompt
  /\ UNCHANGED <<list, mask, prev, pend, hand, proc>>

(* sigsuspend(&mask) empties the mask and sleeps in one step.              *)
Sigsuspend ==
  /\ At("suspend")
  /\ pc' = "suspended" /\ prev' = mask /\ mask' = {}
  /\ UNCHANGED <<list, fg, cur, slot, pend, hand, proc>>

(* Faulty variant: "if" for the "while" of waitfg.                         *)
SigsuspendReturnOnce ==
  /\ At("resuming")
  /\ BackToPrompt /\ mask' = prev
  /\ UNCHANGED <<list, prev, pend, hand, proc>>

(* It returns after a handler has, with the old mask.                      *)
SigsuspendReturn ==
  /\ At("resuming")
  /\ pc' = "waitfg" /\ mask' = prev
  /\ UNCHANGED <<list, fg, cur, slot, prev, pend, hand, proc>>

(***************************************************************************)
(* The main program: do_bgfg                                               *)
(***************************************************************************)
(* The argument is a pid or a %jid; an unknown one only prints a message.  *)
LookupJob(c, i) ==
  /\ At("prompt") /\ c \in Commands \cap {"fg", "bg"}
  /\ \/ \E p \in Pid : i = getjobpid(jobs, p)
     \/ \E n \in 1..JidBound : i = getjobjid(jobs, n)
  /\ i # 0
  /\ slot' = i /\ fg' = (c = "fg") /\ prev' = mask
  /\ pc' = "cont"
  /\ UNCHANGED <<list, cur, mask, pend, hand, proc>>

(* An argument that is no number returns with every signal blocked.        *)
BadArgument ==
  /\ At("prompt") /\ "badarg" \in Commands
  /\ prev' = mask /\ mask' = Signal
  /\ UNCHANGED <<list, pc, fg, cur, slot, pend, hand, proc>>

(* kill(-(job->pid), SIGCONT), with nothing blocked.                       *)
BgFgCont ==
  /\ At("cont")
  /\ KillGroup(jobs[slot].pid, "CONT")
  /\ pend' = pend \cup ToShell(jobs[slot].pid, "CONT")
  /\ pc' = "setstate"
  /\ UNCHANGED <<list, fg, cur, slot, mask, prev, hand>>

BgFgSetState ==
  /\ At("setstate")
  /\ jobs' = [jobs EXCEPT ![slot].state = IF fg THEN "FG" ELSE "BG"]
  /\ IF fg THEN GoTo("readpid") ELSE BackToPrompt
  /\ UNCHANGED <<nextjid, mask, prev, pend, hand, proc>>

(* waitfg(job->pid): the pid is read outside any critical section.         *)
BgFgCallWaitfg ==
  /\ At("readpid")
  /\ cur' = jobs[slot].pid /\ pc' = "waitfg"
  /\ UNCHANGED <<list, fg, slot, mask, prev, pend, hand, proc>>

(* do_quit, or end of file at the prompt.                                  *)
Quit ==
  /\ At("prompt") /\ "quit" \in Commands
  /\ pc' = "exited"
  /\ UNCHANGED <<list, fg, cur, slot, mask, prev, pend, hand, proc>>

(***************************************************************************)
(* Signal handlers                                                         *)
(***************************************************************************)
Alive == pc \notin {"exited", "crashed"}

Deliverable(s) == Alive /\ s \in pend \ mask

(* Any handler that returns ends a sigsuspend.                             *)
Wake == pc' = IF pc = "suspended" THEN "resuming" ELSE pc

(* sigchld_handler; SIGCHLD itself is blocked until it returns.            *)
ChldEnter ==
  /\ Deliverable("CHLD") /\ hpc = "idle"
  /\ hpc' = "reap" /\ pend' = pend \ {"CHLD"} /\ Wake
  /\ UNCHANGED <<list, fg, cur, slot, mask, prev, got, proc>>

(* waitpid(-1, WNOHANG | WUNTRACED | WCONTINUED) returns some child that   *)
(* has something to report; one that has ended is gone with that.          *)
Reap(p) ==
  /\ Alive /\ hpc = "reap" /\ proc[p].report # "none"
  /\ got' = [pid |-> p, status |-> proc[p].report]
  /\ proc' = [proc EXCEPT ![p] = IF proc[p].life = "zombie" THEN NoProc
                                 ELSE [@ EXCEPT !.report = "none"]]
  /\ hpc' = "apply"
  /\ UNCHANGED <<list, main, pend>>

ReapNone ==
  /\ Alive /\ hpc = "reap" /\ \A p \in Pid : proc[p].report = "none"
  /\ hpc' = "idle"
  /\ UNCHANGED <<list, main, pend, got, proc>>

(* Faulty variant: one wait for each SIGCHLD, "if" for "while".            *)
ApplyEndedOnce ==
  /\ Alive /\ hpc = "apply" /\ got.status \in Terminal
  /\ jobs' = deletejob(jobs, got.pid)
  /\ nextjid' = deletejobNext(jobs, nextjid, got.pid)
  /\ hpc' = "idle" /\ got' = NoWait
  /\ UNCHANGED <<main, pend, proc>>

(* One branch of the loop body, under mask_all.                            *)
ApplyEnded ==
  /\ Alive /\ hpc = "apply" /\ got.status \in Terminal
  /\ jobs' = deletejob(jobs, got.pid)
  /\ nextjid' = deletejobNext(jobs, nextjid, got.pid)
  /\ hpc' = "reap" /\ got' = NoWait
  /\ UNCHANGED <<main, pend, proc>>

(* Faulty variant: a stopped job is taken off the list.                    *)
ApplyStoppedDeletes ==
  /\ Alive /\ hpc = "apply" /\ got.status = "stopped"
  /\ jobs' = deletejob(jobs, got.pid)
  /\ nextjid' = deletejobNext(jobs, nextjid, got.pid)
  /\ hpc' = "reap" /\ got' = NoWait
  /\ UNCHANGED <<main, pend, proc>>

ApplyStopped ==
  /\ Alive /\ hpc = "apply" /\ got.status = "stopped"
  /\ getjobpid(jobs, got.pid) # 0
  /\ jobs' = [jobs EXCEPT ![getjobpid(jobs, got.pid)].state = "ST"]
  /\ hpc' = "reap" /\ got' = NoWait
  /\ UNCHANGED <<nextjid, main, pend, proc>>

(* Faulty variants: the test for ST is missing, or the report is ignored.  *)
ApplyContinuedAlways ==
  /\ Alive /\ hpc = "apply" /\ got.status = "continued"
  /\ getjobpid(jobs, got.pid) # 0
  /\ jobs' = [jobs EXCEPT ![getjobpid(jobs, got.pid)].state = "BG"]
  /\ hpc' = "reap" /\ got' = NoWait
  /\ UNCHANGED <<nextjid, main, pend, proc>>

ApplyContinuedIgnored ==
  /\ Alive /\ hpc = "apply" /\ got.status = "continued"
  /\ hpc' = "reap" /\ got' = NoWait
  /\ UNCHANGED <<list, main, pend, proc>>

ApplyContinued ==
  /\ Alive /\ hpc = "apply" /\ got.status = "continued"
  /\ getjobpid(jobs, got.pid) # 0
  /\ jobs' = [jobs EXCEPT ![getjobpid(jobs, got.pid)].state = IF @ = "ST" THEN "BG" ELSE @]
  /\ hpc' = "reap" /\ got' = NoWait
  /\ UNCHANGED <<nextjid, main, pend, proc>>

(* A stop or continue report of a pid that is not listed dereferences the  *)
(* NULL pointer getjobpid has returned.                                    *)
ApplyUnlisted ==
  /\ Alive /\ hpc = "apply" /\ got.status \in {"stopped", "continued"}
  /\ getjobpid(jobs, got.pid) = 0
  /\ pc' = "crashed"
  /\ UNCHANGED <<list, fg, cur, slot, mask, prev, pend, hand, proc>>

(* sigint_handler and sigtstp_handler: forward to the first foreground job *)
(* of the list.  They may interrupt sigchld_handler between two waits.     *)
Forward(s) ==
  /\ s \in {"INT", "TSTP"} /\ Deliverable(s)
  /\ IF FgSlots(jobs) # {}
     THEN LET p == jobs[First(FgSlots(jobs))].pid
          IN KillGroup(p, s) /\ pend' = (pend \ {s}) \cup ToShell(p, s)
     ELSE pend' = pend \ {s} /\ UNCHANGED proc
  /\ Wake
  /\ UNCHANGED <<list, fg, cur, slot, mask, prev, hand>>

SigquitHandler ==
  /\ Deliverable("QUIT")
  /\ pc' = "exited" /\ pend' = pend \ {"QUIT"}
  /\ UNCHANGED <<list, fg, cur, slot, mask, prev, hand, proc>>

(***************************************************************************)
(* The child side of eval, the programs it runs, and the user's keyboard   *)
(***************************************************************************)
(* Unblock SIGCHLD and setpgid(0, 0).                                      *)
ChildStart(p) ==
  /\ proc[p].life = "forked"
  /\ proc' = [proc EXCEPT ![p].life = "grouped", ![p].mask = @ \ {"CHLD"}]
  /\ UNCHANGED <<list, main, pend, hand>>

(* execve keeps the mask and what is pending.                              *)
ChildExec(p) ==
  /\ proc[p].life = "grouped"
  /\ proc' = [proc EXCEPT ![p].life = "running"]
  /\ UNCHANGED <<list, main, pend, hand>>

ChildExecFails(p) ==
  /\ proc[p].life = "grouped" /\ "exec" \in Faults
  /\ Ends(p, "exited")
  /\ UNCHANGED <<list, main, hand>>

(* Before exec the child still has the shell's handlers, and its copy of   *)
(* the job list no foreground entry: the signal is consumed to no effect.  *)
ChildSwallows(p, s) ==
  /\ proc[p].life = "grouped" /\ s \in proc[p].pend \ proc[p].mask
  /\ proc' = [proc EXCEPT ![p].pend = @ \ {s}]
  /\ UNCHANGED <<list, main, pend, hand>>

(* After exec the default actions are back.                                *)
ProcKilled(p) ==
  /\ proc[p].life = "running" /\ "INT" \in proc[p].pend \ proc[p].mask
  /\ Ends(p, "signaled")
  /\ UNCHANGED <<list, main, hand>>

ProcStops(p) ==
  /\ proc[p].life = "running" /\ "TSTP" \in proc[p].pend \ proc[p].mask
  /\ proc' = [proc EXCEPT ![p].life = "stopped", ![p].report = "stopped",
                          ![p].pend = @ \ {"TSTP"}]
  /\ pend' = pend \cup {"CHLD"}
  /\ UNCHANGED <<list, main, hand>>

ProcExits(p) ==
  /\ proc[p].life = "running"
  /\ Ends(p, "exited")
  /\ UNCHANGED <<list, main, hand>>

OutsideSignal(p, s) ==
  /\ s \in Outside /\ proc[p].life \in {"running", "stopped"}
  /\ s \notin proc[p].pend
  /\ proc' = [proc EXCEPT ![p] = Posted(@, s)]
  /\ pend' = IF s = "CONT" /\ proc[p].life = "stopped" THEN pend \cup {"CHLD"} ELSE pend
  /\ UNCHANGED <<list, main, hand>>

PressKey(s) ==
  /\ Alive /\ s \in Keys \ pend
  /\ pend' = pend \cup {s}
  /\ UNCHANGED <<list, main, hand, proc>>
-----------------------------------------------------------------------------
(* What the shell does on its own, without the user.                       *)
MainStep ==
  \/ ForkFails \/ AddJob \/ WaitfgTest \/ Sigsuspend \/ SigsuspendReturn
  \/ BgFgCont \/ BgFgSetState \/ BgFgCallWaitfg
  \/ \E p \in Pid : Fork(p)

UserStep ==
  \/ Quit \/ BadArgument
  \/ \E c \in Commands : RunCommand(c) \/ \E i \in Slot : LookupJob(c, i)
  \/ \E s \in Keys : PressKey(s)

HandlerStep ==
  \/ ReapNone \/ ApplyEnded \/ ApplyStopped \/ ApplyContinued \/ ApplyUnlisted
  \/ \E p \in Pid : Reap(p)

ForwardStep == SigquitHandler \/ \E s \in {"INT", "TSTP"} : Forward(s)

ChildStep(p) ==
  \/ ChildStart(p) \/ ChildExec(p) \/ ChildExecFails(p) \/ ProcKilled(p) \/ ProcStops(p)
  \/ \E s \in {"INT", "TSTP"} : ChildSwallows(p, s)

WorldStep(p) == ProcExits(p) \/ \E s \in Outside : OutsideSignal(p, s)

Next ==
  \/ MainStep \/ UserStep \/ ChldEnter \/ HandlerStep \/ ForwardStep
  \/ \E p \in Pid : ChildStep(p) \/ WorldStep(p)

Spec == Init /\ [][Next]_vars

(* The shell and its children run when they can.  A pending signal is      *)
(* delivered when the shell next returns from the kernel with it unblocked *)
(* (sigprocmask does not return before), hence the strong fairness.  The   *)
(* user and the programs that run owe nothing: a job may run for ever.     *)
Fairness ==
  /\ WF_vars(MainStep) /\ WF_vars(HandlerStep)
  /\ SF_vars(ChldEnter) /\ SF_vars(ForwardStep)
  /\ \A p \in Pid : WF_vars(ChildStep(p))

FairSpec == Spec /\ Fairness
-----------------------------------------------------------------------------
TypeOK ==
  /\ jobs \in JobTable /\ nextjid \in Nat
  /\ pc \in {"prompt", "fork", "addjob", "waitfg", "suspend", "suspended", "resuming",
             "cont", "setstate", "readpid", "exited", "crashed"}
  /\ fg \in BOOLEAN /\ cur \in Pid \cup {0} /\ slot \in Slot \cup {0}
  /\ mask \in SUBSET Signal /\ prev \in SUBSET Signal /\ pend \in SUBSET Signal
  /\ hpc \in {"idle", "reap", "apply"}
  /\ got \in [pid : Pid \cup {0}, status : Status]
  /\ proc \in [Pid -> Proc]

Waiting == {"waitfg", "suspend", "suspended", "resuming"}

(* The handler has waited for p, which is gone, and not yet cleared it.    *)
EndInHand(p) == hpc = "apply" /\ got.pid = p /\ got.status \in Terminal

(* The list never names a process that does not exist: an entry is a child *)
(* not waited for, or one whose end the handler is about to apply.  This   *)
(* is what blocking SIGCHLD from before fork until after addjob is for     *)
(* (eval, "Block SIGCHLD firstly avoid race").                             *)
NoPhantomJob ==
  \A p \in Listed(jobs) :
    p \in Pid /\ (proc[p].life # "free" \/ EndInHand(p))

(* No process has two entries, although pids are reused after a wait.      *)
OneEntryPerPid ==
  \A i, j \in Slot : jobs[i].pid = jobs[j].pid /\ jobs[i].pid # 0 => i = j

(* While the list has room for every child, no child escapes job control:  *)
(* each is listed from addjob until it has been waited for, so a stop or   *)
(* continue report always finds its entry and the handler never follows a  *)
(* NULL job pointer.                                                       *)
ChildrenListed ==
  /\ \A p \in Pid : proc[p].life # "free" =>
       p \in Listed(jobs) \/ (pc \in {"addjob", "exited"} /\ cur = p)
  /\ pc # "crashed"

(* tsh.c:37: "At most 1 job can be in the FG state"; and while one is, the *)
(* shell is inside waitfg for that very job and shows no prompt.           *)
ForegroundHeld ==
  Alive => /\ \A i, j \in FgSlots(jobs) : i = j
           /\ \A i \in FgSlots(jobs) :
                 pc = "readpid" \/ (pc \in Waiting /\ cur = jobs[i].pid)

(* With every report consumed, the list says of each job what is true of   *)
(* the process: ST exactly for the stopped ones (tsh.c:24-26).             *)
SettledStates ==
  Alive /\ hpc = "idle" /\ pc \notin {"cont", "setstate"} /\ "CHLD" \notin pend =>
    \A i \in Slot : jobs[i].pid \in Pid =>
      ((jobs[i].state = "ST") <=> (proc[jobs[i].pid].life = "stopped"))

(* tsh.c:31-36: a foreground job leaves the foreground by stopping or by   *)
(* ending, never straight into the background.                             *)
ForegroundNotDemoted ==
  [][\A i \in Slot : ~(jobs[i].state = "FG" /\ jobs'[i].state = "BG")]_vars

(* tsh.c:31-36 again: every state of a job is left for another one of the  *)
(* same job; a cleared entry only gets a state together with a process.    *)
NoRevivedEntry ==
  [][\A i \in Slot : jobs[i].state = "UNDEF" /\ jobs'[i].state # "UNDEF"
                       => jobs'[i].pid # 0]_vars

(* tsh.c:394-396: the handler reaps all available zombies, though several  *)
(* children may have ended for the one SIGCHLD that is delivered.  waitpid *)
(* promises no order, so another child that keeps stopping and continuing  *)
(* may hold the handler in its loop: its reports are the exception.        *)
ZombiesReaped ==
  \A p \in Pid :
    proc[p].life = "zombie" ~>
      \/ proc[p].life = "free" \/ ~Alive
      \/ \E q \in Pid \ {p} : proc[q].report \in {"stopped", "continued"}

(* tsh.c:372: waitfg blocks until the process is no longer the foreground  *)
(* process: once it has ended, the shell returns to its prompt.            *)
WaitfgReturns ==
  \A p \in Pid : (pc \in Waiting /\ cur = p /\ proc[p].life = "zombie") ~> pc \notin Waiting
=============================================================================
