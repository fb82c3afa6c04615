------------------------------ MODULE Handouts ------------------------------
(***************************************************************************)
(* The sequential programs of the course, each run on its own: the bit     *)
(* puzzles and their tester, the cache simulator, the graded transposes,   *)
(* the robust I/O package and the helpers that open sockets, the reference *)
(* queue, and the malloc driver's main and the timers it measures with.    *)
(***************************************************************************)
EXTENDS BitPuzzles, Transposes, RioBuffer, OpenSockets, RefQueue, CycleTimer, MdriverMain

VARIABLE part       \* the program that runs

vars == <<bt, csim, grading, rioVars, sock, queueVars, timerVars, md, part>>

(* The program that runs starts from any of its inputs, the others idle.   *)
Inputs(program, all, one) == IF part = program THEN all ELSE {one}

Init ==
  /\ part \in {"btest", "csim", "driver", "rio", "open", "queue", "fcyc", "mdriver"}
  /\ TransInit /\ init_queue
  /\ IF part = "btest" THEN BtestStarts ELSE BtestStart("", {})
  /\ \E E \in Inputs("csim", LinesPerSet, CHOOSE E \in LinesPerSet : TRUE) : CsimStart(E)
  /\ \E buffered \in Inputs("rio", BOOLEAN, TRUE) : RioStart(buffered)
  /\ \E call \in Inputs("open", {"open_clientfd", "open_listenfd"}, "open_listenfd") : OpenStart(call)
  /\ \E scheme \in Inputs("fcyc", {"FCYC", "ITIMER", "GETTOD"}, "GETTOD") : init_fsecs(scheme)
  /\ \E team \in Inputs("mdriver", Teams, [teamname |-> FALSE]) : MdriverStart(team)

Next ==
  /\ UNCHANGED part
  /\ \/ part = "btest"    /\ BtestNext      /\ UNCHANGED <<csim, grading, rioVars, sock, queueVars, timerVars, md>>
     \/ part = "csim"     /\ read_from_file /\ UNCHANGED <<bt, grading, rioVars, sock, queueVars, timerVars, md>>
     \/ part = "driver"   /\ TransNext      /\ UNCHANGED <<bt, csim, rioVars, sock, queueVars, timerVars, md>>
     \/ part = "rio"      /\ RioNext        /\ UNCHANGED <<bt, csim, grading, sock, queueVars, timerVars, md>>
     \/ part = "open"     /\ OpenNext       /\ UNCHANGED <<bt, csim, grading, rioVars, queueVars, timerVars, md>>
     \/ part = "queue"    /\ QueueNext      /\ UNCHANGED <<bt, csim, grading, rioVars, sock, timerVars, md>>
     \/ part = "fcyc"     /\ TimerNext      /\ UNCHANGED <<bt, csim, grading, rioVars, sock, queueVars, md>>
     \/ part = "mdriver"  /\ MdriverNext    /\ UNCHANGED <<bt, csim, grading, rioVars, sock, queueVars, timerVars>>

Spec == Init /\ [][Next]_vars

-----------------------------------------------------------------------------
(* csapp.c: its reads and writes, and its sockets.                         *)
CsappKept == RioDelivers /\ SocketsKept

(* What the malloc driver prints: the times it measures and what it makes  *)
(* of them.                                                                *)
IndexFromTimes == KBestKept /\ IndexRight
=============================================================================
