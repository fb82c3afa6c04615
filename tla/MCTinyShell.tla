---------------------------- MODULE MCTinyShell ----------------------------
(***************************************************************************)
(* Instances of TinyShell for TLC.  Two pids are the fewest with which one *)
(* job can be in the foreground while another one changes state, and with  *)
(* which a pid is reused while another job is listed.                      *)
(***************************************************************************)
EXTENDS TinyShell

OnePid  == {1}
TwoPids == {1, 2}

None          == {}
RunForeground == {"run"}
RunJobs       == {"run", "runbg", "quit"}
ResumeJobs    == {"runbg", "fg"}
JobControl    == {"run", "runbg", "fg", "bg", "badarg"}

Keyboard      == {"INT", "TSTP"}
KeysAndDriver == {"INT", "QUIT"}
SelfStop      == {"TSTP"}
StopAndResume == {"TSTP", "CONT"}
CallsFail     == {"fork", "exec"}
=============================================================================
