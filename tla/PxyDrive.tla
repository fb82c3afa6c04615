------------------------------ MODULE PxyDrive ------------------------------
(***************************************************************************)
(* pxydrive-tutorial/pxy/pxydrive.py and console.py: the main thread, which*)
(* runs the commands of a script one after the other and shuts everything  *)
(* down at the end.                                                        *)
(***************************************************************************)
EXTENDS PxyAgents

CONSTANTS Cases,        \* a script (a sequence of commands) and a proxy each
          errorLimit

(* What scripts are made of: console.py has parsed the arguments.          *)
Issued == UNION {{c.script[k] : k \in DOMAIN c.script} : c \in Cases}

IsCommand(c) ==
  /\ c.cmd \in {"request", "respond", "check"} => c.id \in Ids
  /\ c.cmd = "request" => c.fetch \in BOOLEAN
  /\ c.cmd = "wait" => c.ids \subseteq Ids
  /\ c.cmd = "disrupt" => c.what \in {"none", "request", "response"}
  /\ c.cmd = "proxy" => c.path \in BOOLEAN

ASSUME CasesAssumption ==
  /\ \A c \in Cases : c.script \in Seq(Issued) /\ c.proxy.starts \subseteq BOOLEAN
  /\ \A c \in Issued : IsCommand(c)

ASSUME ErrorLimitAssumption == errorLimit \in Nat \ {0}

VARIABLES main,         \* position, the events a wait lists or finish has left
          script,       \* commands left, errors
          activeEvents, \* what "wait *" waits for
          seen          \* request -> what the script has found out about it

vars == <<agentVars, main, script, activeEvents, seen>>

(* waited: a wait has found it completed; promised: the next wait that does*)
(* means that the client has finished; forgotten: "wait *" does not wait   *)
(* for it, though none has found it completed; found, checked: a wait      *)
(* that promises it has finished, and a check after it that said ok.       *)
NotSeen == [waited |-> FALSE, promised |-> FALSE, forgotten |-> FALSE, found |-> FALSE,
            checked |-> FALSE]

Init ==
  /\ AgentsInit
  /\ main = [pc |-> "run", ids |-> {}, left |-> <<>>]
  /\ \E c \in Cases : script = [todo |-> c.script, errors |-> 0] /\ habits = c.proxy
  /\ activeEvents = {}
  /\ seen = [r \in Ids |-> NotSeen]

Known(r) == em.request[r].tag # "none"

(* interpretLine: a command that returns False is an error, and so many    *)
(* errors end the run.                                                     *)
Commanded(ok) ==
  /\ script' = [todo |-> Tail(script.todo), errors |-> script.errors + IF ok THEN 0 ELSE 1]
  /\ main' = [main EXCEPT !.pc = IF script'.errors >= errorLimit THEN "finish" ELSE "run",
                          !.ids = {}]

Next1(name) == main.pc = "run" /\ script.todo # <<>> /\ Head(script.todo).cmd = name
Arg == Head(script.todo)

doRequestOrFetch ==
  /\ Next1("request")
  /\ LET accepted   == proxy # "none" /\ ~Known(Arg.id)
         disrupting == disruption = "request"
     IN  /\ Commanded(accepted /\ (proxy = "up" \/ disrupting))
         /\ IF ~accepted THEN UNCHANGED <<agentVars, activeEvents, seen>>
            ELSE /\ request(addRequestEvent(em, Arg.id, Arg.fetch), Arg.id, Arg.uri)
                 /\ activeEvents' = activeEvents \cup (IF disrupting THEN {} ELSE {Arg.id})
                 /\ seen' = [seen EXCEPT ![Arg.id].promised = Arg.fetch,
                                         ![Arg.id].forgotten = disrupting]
                 /\ UNCHANGED <<reply, handler, server, proxy, habits>>

(* The response event is released, if there is one.                        *)
doRespond ==
  /\ Next1("respond")
  /\ LET h == em.response[Arg.id]
     IN  /\ Commanded(h # NoHandler)
         /\ IF h = NoHandler THEN UNCHANGED <<agentVars, activeEvents, seen>>
            ELSE /\ handler' = [handler EXCEPT ![h].released = TRUE]
                 /\ activeEvents' = activeEvents \cup {Arg.id}
                 /\ seen' = [seen EXCEPT ![Arg.id].promised = @ \/ seen[Arg.id].waited,
                                         ![Arg.id].forgotten = FALSE]
                 /\ UNCHANGED <<em, client, reply, server, disruption, proxy, habits>>

(* wait * or wait with names: the first part of waitActive.  An unknown    *)
(* name is an error, and nothing is waited for; but the names that are     *)
(* known have left activeEvents by then.                                   *)
doWait ==
  /\ Next1("wait")
  /\ LET ids == IF Arg.ids = {} THEN activeEvents ELSE Arg.ids
     IN  /\ activeEvents' = activeEvents \ ids
         /\ IF \E r \in Arg.ids : ~Known(r)
            THEN /\ Commanded(FALSE)
                 /\ seen' = [r \in Ids |-> IF r \in ids \cap activeEvents
                                          THEN [seen[r] EXCEPT !.forgotten = TRUE] ELSE seen[r]]
                 /\ UNCHANGED em
            ELSE /\ em' = waitActive(em, ids)
                 /\ main' = [main EXCEPT !.pc = "wait", !.ids = ids]
                 /\ UNCHANGED <<script, seen>>
  /\ UNCHANGED <<client, reply, handler, server, disruption, proxy, habits>>

(* The second part, when the event has been set or the time is over.  What *)
(* is still pending then is forgotten.                                     *)
waitReturns ==
  /\ main.pc = "wait"
  /\ em' = waitOver(em)
  /\ Commanded(em.waiting = {})
  /\ seen' = [r \in Ids |->
       LET over == r \in main.ids \ em.waiting
           all  == Arg.ids = {} /\ em.waiting = {} /\ ~seen[r].forgotten
       IN  [seen[r] EXCEPT !.waited = @ \/ over, !.forgotten = @ \/ r \in em.waiting,
                           !.found = @ \/ (seen[r].promised /\ (over \/ all))]]
  /\ UNCHANGED <<client, reply, handler, server, disruption, proxy, habits, activeEvents>>

doCheck ==
  /\ Next1("check")
  /\ LET ok == em.request[Arg.id].tag = "ok"
     IN  /\ Commanded(ok)
         /\ seen' = [seen EXCEPT ![Arg.id].checked = @ \/ (seen[Arg.id].found /\ ok)]
  /\ UNCHANGED <<agentVars, activeEvents>>

doDisrupt ==
  /\ Next1("disrupt")
  /\ Commanded(Arg.what # "none")
  /\ CASE Arg.what = "none"  -> UNCHANGED <<server, disruption>>
       [] Arg.what # "none" /\ Arg.who = "client" ->
            disruption' = Arg.what /\ UNCHANGED server
       [] OTHER -> server' = [server EXCEPT !.disruption = Arg.what] /\ UNCHANGED disruption
  /\ UNCHANGED <<em, client, reply, handler, proxy, habits, activeEvents, seen>>

(* The proxy is terminated; given a path, it is started again.             *)
doProxy ==
  /\ Next1("proxy")
  /\ Killed
  /\ proxy' = "none"
  /\ IF Arg.path THEN main' = [main EXCEPT !.pc = "start"] /\ UNCHANGED script
     ELSE Commanded(TRUE)
  /\ UNCHANGED <<em, client, server, disruption, habits, activeEvents, seen>>

(* A second later it runs, or it has failed.                               *)
ProxyStarts ==
  /\ main.pc = "start"
  /\ \E ok \in habits.starts :
       Commanded(ok) /\ proxy' = IF ok THEN "up" ELSE "none"
  /\ UNCHANGED <<em, client, reply, handler, server, disruption, habits, activeEvents, seen>>

doQuit ==
  /\ main.pc = "run" /\ script.todo = <<>>
  /\ main' = [main EXCEPT !.pc = "finish"]
  /\ UNCHANGED <<agentVars, script, activeEvents, seen>>

(***************************************************************************)
(* finish.                                                                 *)
(***************************************************************************)
Terminate ==
  /\ main.pc = "finish"
  /\ main' = [main EXCEPT !.pc = "stop"]
  /\ proxy' = IF proxy = "up" THEN "down" ELSE proxy
  /\ Killed
  /\ UNCHANGED <<em, client, server, disruption, habits, script, activeEvents, seen>>

Stop ==
  /\ main.pc = "stop"
  /\ main' = [main EXCEPT !.pc = "servers"]
  /\ em' = stop(em)
  /\ UNCHANGED <<client, reply, handler, server, disruption, proxy, habits, script, activeEvents, seen>>

StopServers ==
  /\ main.pc = "servers" /\ server.running
  /\ server' = [server EXCEPT !.running = FALSE]
  /\ UNCHANGED <<em, client, reply, handler, disruption, proxy, habits, main, script, activeEvents, seen>>

(* waitForExit, then the copy of the list of events.                       *)
WaitForExit ==
  /\ main.pc = "servers" /\ ~server.running /\ server.pc = "done"
  /\ main' = [main EXCEPT !.pc = "shutdown", !.left = em.list]
  /\ UNCHANGED <<agentVars, script, activeEvents, seen>>

(* Faulty variant: a deferred response is not released.                    *)
ShutdownKeepsDeferred ==
  /\ main.pc = "shutdown" /\ main.left # <<>>
  /\ main' = [main EXCEPT !.pc = "join"]
  /\ LET e == Head(main.left)
     IN  IF e[1] = "request"
         THEN client' = [client EXCEPT ![e[2]].shutdown = TRUE]
         ELSE UNCHANGED client
  /\ UNCHANGED <<em, reply, handler, server, disruption, proxy, habits, script, activeEvents, seen>>

(* Event.shutdown but for the join.                                        *)
ShutdownEvent ==
  /\ main.pc = "shutdown" /\ main.left # <<>>
  /\ main' = [main EXCEPT !.pc = "join"]
  /\ LET e == Head(main.left)
     IN  IF e[1] = "request"
         THEN client' = [client EXCEPT ![e[2]].shutdown = TRUE] /\ UNCHANGED handler
         ELSE handler' = [handler EXCEPT ![e[2]].released = TRUE] /\ UNCHANGED client
  /\ UNCHANGED <<em, reply, server, disruption, proxy, habits, script, activeEvents, seen>>

ClientOver(r) == client[r].pc \in {"none", "panic", "done"}
HandlerOver(h) == handler[h].pc \in {"none", "sent", "closed", "panic"}

(* thread.join; a handler that has not come to its wait is not joined.     *)
Join ==
  /\ main.pc = "join"
  /\ LET e == Head(main.left)
     IN  IF e[1] = "request" THEN ClientOver(e[2])
         ELSE HandlerOver(e[2]) \/ handler[e[2]].pc = "action"
  /\ main' = [main EXCEPT !.pc = "shutdown", !.left = Tail(@)]
  /\ UNCHANGED <<agentVars, script, activeEvents, seen>>

NothingLeft ==
  /\ main.pc = "shutdown" /\ main.left = <<>>
  /\ main' = [main EXCEPT !.pc = "done"]
  /\ UNCHANGED <<agentVars, script, activeEvents, seen>>

Commands == doRequestOrFetch \/ doRespond \/ doWait \/ doCheck \/ doDisrupt \/ doProxy
              \/ ProxyStarts \/ doQuit

Finish == Terminate \/ Stop \/ StopServers \/ WaitForExit \/ ShutdownEvent \/ Join \/ NothingLeft

Ours == UNCHANGED <<main, script, activeEvents, seen>>

Next ==
  \/ Commands \/ waitReturns \/ Finish
  \/ Ours /\ \/ ProxyStep \/ ServerStops
             \/ \E r \in Ids : ClientStep(r)
             \/ \E h \in Handlers : ServerAccept(h) \/ HandlerStep(h)

Spec == Init /\ [][Next]_vars

(* Every thread of the driver runs; nothing is asked of the proxy.         *)
FairSpec ==
  /\ Spec
  /\ WF_vars(Commands) /\ WF_vars(waitReturns) /\ WF_vars(Finish) /\ WF_vars(Ours /\ ServerStops)
  /\ \A r \in Ids : WF_vars(Ours /\ ClientStep(r))
  /\ \A h \in Handlers : WF_vars(Ours /\ (ServerAccept(h) \/ HandlerStep(h)))

(***************************************************************************)
(* Properties.                                                             *)
(***************************************************************************)
(* The variables have their types, events are awaited by a wait command    *)
(* only, and none is awaited and completed at the same time.               *)
TypeOK ==
  /\ em.waiting \subseteq Ids /\ em.completed \subseteq Ids /\ activeEvents \subseteq Ids
  /\ em.waiting \cap em.completed = {}
  /\ main.pc # "wait" => em.waiting = {}
  /\ em.waiting \subseteq main.ids
  /\ em.response \in [Ids -> Handlers \cup {NoHandler}]
  /\ \A r \in Ids : em.response[r] # NoHandler => handler[em.response[r]].id = r
  /\ server.disruption \in {"none", "request", "response"}
  /\ proxy \in {"up", "down", "none"} /\ script.errors \in 0..errorLimit

(* A wait that does not report a request as pending means that the client  *)
(* has its whole answer: always for a fetch, and for a request whose       *)
(* response was released after a wait had found it received.  A "wait *"   *)
(* that reports nothing means it of all of these, but for those that have  *)
(* been dropped: by a wait that failed or timed out, or when a disruption  *)
(* kept them from being recorded.                                          *)
WaitMeansDone == \A r \in Ids : seen[r].found => client[r].pc = "done"

(* After such a wait, a check that says ok means that the bytes the client *)
(* received are those of the source file.                                  *)
CheckSound ==
  \A r \in Ids : seen[r].checked => reply[r].status = "ok" /\ reply[r].body = "same"

(* The driver comes to its end, whatever the proxy has done: the main      *)
(* thread's finish, and with it every thread of a request and of a         *)
(* connection.                                                             *)
DriverFinishes ==
  main.pc = "finish" ~> /\ main.pc = "done"
                        /\ \A r \in Ids : ClientOver(r)
                        /\ \A h \in Handlers : HandlerOver(h)
=============================================================================
