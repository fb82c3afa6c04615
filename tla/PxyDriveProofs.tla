--------------------------- MODULE PxyDriveProofs ---------------------------
(***************************************************************************)
(* What a script of the test driver may conclude from wait and check, for  *)
(* any scripts, any number of requests and connections, and any proxy.     *)
(*                                                                         *)
(* wait is told of a request by addCompleted, which two threads call: the  *)
(* client's when it has finished, and the server's when it defers the      *)
(* response.  The inductive invariant counts: where one completion has     *)
(* been seen (found, or still in the set) one of the two threads has been  *)
(* there, and where two have been seen, both.                              *)
(*                                                                         *)
(* The counting needs the deferring thread to have looked at the request   *)
(* it completes.  A Response header without Request-ID would let it look   *)
(* at one request and complete another, found by its uri; HeadersTogether  *)
(* excludes proxies that strip the one header and not the other.           *)
(***************************************************************************)
EXTENDS PxyDrive, WellFoundedInduction, TLAPS

Verdict == {"ok", "bad_request", "not_implemented", "bad_version", "not_found"}
Tag     == {"none", "requesting", "error", "reading"} \cup Verdict
Uri     == {c.uri : c \in {k \in Issued : k.cmd = "request"}} \cup {""}
Body    == (UNION {c.proxy.bodies : c \in Cases}) \cup {"none"}
Message == (UNION {c.proxy.messages : c \in Cases}) \cup {NoMessage, EmptyMessage}

RequestEvent == [tag : Tag, fetch : BOOLEAN, uri : Uri, hasMatch : BOOLEAN]
Entry == ({"request"} \X Ids) \cup ({"response"} \X Handlers)
Manager == [running : BOOLEAN, list : Seq(Entry), request : [Ids -> RequestEvent],
            response : [Ids -> Handlers \cup {NoHandler}],
            waiting : SUBSET Ids, completed : SUBSET Ids, set : BOOLEAN]

ClientPC == {"none", "finishRequest", "status", "header", "body", "finished", "panic", "done"}
Client   == [pc : ClientPC, shutdown : BOOLEAN]
Reply    == [status : {"none"} \cup Verdict, body : Body, level : 0..2, closed : BOOLEAN]

HandlerPC == {"none", "queued", "getRequest", "action", "wait", "sent", "disrupt", "closed", "panic"}
Handler   == [pc : HandlerPC, from : Ids \cup {"none"}, msg : Message, id : Ids \cup {"none"},
              tag : {"none"} \cup Verdict, released : BOOLEAN]

Disruption == {"none", "request", "response"}
Server == [running : BOOLEAN, pc : {"accept", "done"}, disruption : Disruption]
ProxyState == {"up", "down", "none"}
Main   == [pc : {"run", "wait", "start", "finish", "stop", "servers", "shutdown", "join", "done"},
           ids : SUBSET Ids, left : Seq(Entry)]
Seen   == [waited : BOOLEAN, promised : BOOLEAN, forgotten : BOOLEAN, found : BOOLEAN,
           checked : BOOLEAN]

AgentTypes ==
  /\ em \in Manager /\ client \in [Ids -> Client] /\ reply \in [Ids -> Reply]
  /\ handler \in [Handlers -> Handler] /\ server \in Server
  /\ disruption \in Disruption /\ proxy \in ProxyState /\ habits \in {c.proxy : c \in Cases}

MainTypes ==
  /\ main \in Main /\ script \in [todo : Seq(Issued), errors : 0..errorLimit]
  /\ activeEvents \in SUBSET Ids /\ seen \in [Ids -> Seen]

(* The run goes on only below the limit of errors; a wait and a start are  *)
(* commands of the script, a join is one of an event.                      *)
MainInv ==
  /\ main.pc \in {"run", "wait", "start"} => script.errors < errorLimit
  /\ main.pc \in {"wait", "start"} => script.todo # <<>>
  /\ main.pc = "join" => main.left # <<>>

(* Events are awaited by a wait command only.                              *)
WaitInv ==
  /\ em.waiting \cap em.completed = {}
  /\ main.pc # "wait" => em.waiting = {}
  /\ em.waiting \subseteq main.ids

(* A request that was never issued has left no trace.                      *)
FreshInv ==
  \A r \in Ids : em.request[r].tag = "none" =>
    client[r].pc = "none" /\ em.response[r] = NoHandler /\ \A h \in Handlers : handler[h].from # r

(* A connection: whose it is, what it was given to read, and its verdict.  *)
HandlerInv(h) ==
  /\ handler[h].pc # "none" => handler[h].from \in Ids
  /\ handler[h].pc \in {"wait", "sent"} => handler[h].tag \in Verdict
  /\ handler[h].id # "none" =>
       /\ handler[h].pc \in {"action", "wait", "sent", "disrupt", "closed"}
       /\ handler[h].msg.kind # "none"
       /\ em.response[handler[h].id] = h

(* Between a request's event and its response there is one connection.     *)
MatchInv ==
  /\ \A h \in Handlers : HandlerInv(h)
  /\ \A r \in Ids : em.response[r] # NoHandler => handler[em.response[r]].id = r

(* What has arrived has a status; what the client's thread says of it.     *)
ReplyInv == \A r \in Ids : reply[r].level >= 1 => reply[r].status \in Verdict

ClientInv ==
  \A r \in Ids :
    /\ client[r].pc \in {"finishRequest", "status"} => em.request[r].tag = "requesting"
    /\ client[r].pc = "body" => em.request[r].tag = "reading"

IInv ==
  /\ AgentTypes /\ MainTypes /\ MainInv /\ WaitInv /\ FreshInv /\ MatchInv
  /\ ReplyInv /\ ClientInv

-----------------------------------------------------------------------------
(* A proxy that passes on Response also passes on Request-ID.              *)
HeadersTogether ==
  \A c \in Cases : \A m \in c.proxy.messages : m.kind # "none" /\ m.response => m.id

(* A response named by its header belongs to the request it came with.     *)
OwnResponse ==
  \A h \in Handlers :
    /\ handler[h].msg.kind # "none" /\ handler[h].msg.response => handler[h].msg.id
    /\ handler[h].id # "none" /\ handler[h].msg.response => handler[h].id = handler[h].from

(* The two threads that complete a request.                                *)
Deferred(r) ==
  /\ em.response[r] # NoHandler /\ handler[em.response[r]].pc # "action"
  /\ ~em.request[r].fetch
Over(r) == client[r].pc = "done"

(* The completions seen: in the set, by the wait that runs, by another.    *)
Taken(r) == main.pc = "wait" /\ r \in main.ids \ em.waiting
Counted(r) ==
  /\ r \in em.completed \/ Taken(r) \/ seen[r].waited => Deferred(r) \/ Over(r)
  /\ r \in em.completed /\ Taken(r) => Deferred(r) /\ Over(r)
  /\ r \in em.completed /\ seen[r].waited => Deferred(r) /\ Over(r)
  /\ Taken(r) /\ seen[r].waited => Deferred(r) /\ Over(r)

Promise(r) ==
  /\ seen[r].promised => em.request[r].fetch \/ seen[r].waited
  /\ seen[r].found => Over(r)

DoneInv == OwnResponse /\ \A r \in Ids : Counted(r) /\ Promise(r)

(* What was promised and has been neither found nor forgotten is awaited or*)
(* will be by the next "wait *", and a "wait *" leaves nothing out.        *)
Pending(r) == seen[r].promised /\ ~seen[r].forgotten /\ ~seen[r].found
TrackInv ==
  /\ \A r \in Ids : Pending(r) => r \in activeEvents \/ (main.pc = "wait" /\ r \in main.ids)
  /\ main.pc = "wait" /\ Arg.ids = {} => activeEvents = {}

(* A request that ends with ok has been compared.                          *)
Compared(r) ==
  client[r].pc \in {"finished", "done"} /\ em.request[r].tag = "ok" =>
    reply[r].status = "ok" /\ reply[r].body = "same"
CheckInv ==
  \A r \in Ids :
    /\ Compared(r)
    /\ seen[r].checked => Over(r) /\ reply[r].status = "ok" /\ reply[r].body = "same"
-----------------------------------------------------------------------------
(* What the event manager's methods change.                                *)
LEMMA ChangeTag ==
  ASSUME NEW e \in Manager, NEW r \in Ids, NEW t \in Tag, NEW n, n = changeTag(e, r, t)
  PROVE  /\ n \in Manager
         /\ n.running = e.running /\ n.list = e.list /\ n.response = e.response
         /\ n.waiting = e.waiting /\ n.completed = e.completed
         /\ \A q \in Ids : /\ n.request[q].fetch = e.request[q].fetch
                           /\ n.request[q].tag = IF q = r THEN t ELSE e.request[q].tag
<1> DEFINE v == [e.request EXCEPT ![r].tag = t]
<1>1. e.request \in [Ids -> RequestEvent]
  BY DEF Manager
<1>2. /\ v \in [Ids -> RequestEvent]
      /\ \A q \in Ids : /\ v[q].fetch = e.request[q].fetch
                        /\ v[q].tag = IF q = r THEN t ELSE e.request[q].tag
  BY <1>1 DEF RequestEvent
<1>3. n = [e EXCEPT !.request = v]
  BY DEF changeTag, Manager
<1> HIDE DEF v
<1> QED
  BY <1>2, <1>3 DEF Manager

LEMMA AddURI ==
  ASSUME NEW e \in Manager, NEW r \in Ids, NEW u \in Uri, NEW n, n = addURI(e, r, u)
  PROVE  /\ n \in Manager
         /\ n.running = e.running /\ n.list = e.list /\ n.response = e.response
         /\ n.waiting = e.waiting /\ n.completed = e.completed
         /\ \A q \in Ids : /\ n.request[q].fetch = e.request[q].fetch
                           /\ n.request[q].tag = e.request[q].tag
<1> DEFINE v == [e.request EXCEPT ![r].uri = u]
<1>1. e.request \in [Ids -> RequestEvent]
  BY DEF Manager
<1>2. /\ v \in [Ids -> RequestEvent]
      /\ \A q \in Ids : /\ v[q].fetch = e.request[q].fetch
                        /\ v[q].tag = e.request[q].tag
  BY <1>1 DEF RequestEvent
<1>3. n = [e EXCEPT !.request = v]
  BY DEF addURI, Manager
<1> HIDE DEF v
<1> QED
  BY <1>2, <1>3 DEF Manager

LEMMA AddRequestEvent ==
  ASSUME NEW e \in Manager, NEW r \in Ids, NEW f \in BOOLEAN, NEW n,
         n = addRequestEvent(e, r, f)
  PROVE  /\ n \in Manager /\ n.response = e.response
         /\ n.waiting = e.waiting /\ n.completed = e.completed
         /\ n.request[r].fetch = f /\ n.request[r].tag = "requesting"
         /\ \A q \in Ids \ {r} : n.request[q] = e.request[q]
<1> DEFINE ev == [NoEvent EXCEPT !.tag = "requesting", !.fetch = f]
           v == [e.request EXCEPT ![r] = ev]
           l == Append(e.list, <<"request", r>>)
<1>1. e.request \in [Ids -> RequestEvent] /\ e.list \in Seq(Entry)
  BY DEF Manager
<1>2. ev \in RequestEvent /\ ev.fetch = f /\ ev.tag = "requesting"
  BY DEF NoEvent, RequestEvent, Tag, Uri
<1>3. /\ v \in [Ids -> RequestEvent]
      /\ v[r] = ev /\ \A q \in Ids \ {r} : v[q] = e.request[q]
  BY <1>1, <1>2
<1>4. l \in Seq(Entry)
  BY <1>1 DEF Entry
<1>5. n = [e EXCEPT !.list = l, !.request = v]
  BY DEF addRequestEvent, Manager
<1> HIDE DEF v, l, ev
<1> QED
  BY <1>2, <1>3, <1>4, <1>5 DEF Manager

Matched(e, r, h, m) == [addResponseEvent(e, r, h) EXCEPT !.request[r].hasMatch = m]

LEMMA AddResponseEvent ==
  ASSUME NEW e \in Manager, NEW r \in Ids, NEW h \in Handlers, NEW m \in BOOLEAN, NEW n,
         n = Matched(e, r, h, m)
  PROVE  /\ n \in Manager /\ n.waiting = e.waiting /\ n.completed = e.completed
         /\ n.response = [e.response EXCEPT ![r] = h]
         /\ \A q \in Ids : /\ n.request[q].fetch = e.request[q].fetch
                           /\ n.request[q].tag = e.request[q].tag
<1> DEFINE v == [e.request EXCEPT ![r].hasMatch = m]
           p == [e.response EXCEPT ![r] = h]
           l == Append(e.list, <<"response", h>>)
<1>1. /\ e.request \in [Ids -> RequestEvent] /\ e.list \in Seq(Entry)
      /\ e.response \in [Ids -> Handlers \cup {NoHandler}]
  BY DEF Manager
<1>2. /\ v \in [Ids -> RequestEvent]
      /\ \A q \in Ids : /\ v[q].fetch = e.request[q].fetch
                        /\ v[q].tag = e.request[q].tag
  BY <1>1 DEF RequestEvent
<1>3. l \in Seq(Entry) /\ p \in [Ids -> Handlers \cup {NoHandler}]
  BY <1>1 DEF Entry
<1>4. n = [e EXCEPT !.list = l, !.response = p, !.request = v]
  BY DEF Matched, addResponseEvent, Manager
<1> HIDE DEF v, l, p
<1>5. n \in Manager /\ n.response = p /\ n.request = v
      /\ n.waiting = e.waiting /\ n.completed = e.completed
  BY <1>2, <1>3, <1>4 DEF Manager
<1> QED
  BY <1>2, <1>5 DEF p

LEMMA AddOwnResponse ==
  ASSUME NEW e \in Manager, NEW h \in Handlers, NEW n, n = addOwnResponse(e, h)
  PROVE  /\ n \in Manager /\ n.waiting = e.waiting /\ n.completed = e.completed
         /\ n.response = e.response /\ n.request = e.request
<1> DEFINE l == Append(e.list, <<"response", h>>)
<1>1. l \in Seq(Entry)
  BY DEF Entry, Manager
<1>2. n = [e EXCEPT !.list = l]
  BY DEF addOwnResponse, Manager
<1> HIDE DEF l
<1> QED
  BY <1>1, <1>2 DEF Manager

(* A completion is counted off by the wait that waits for it, or kept.     *)
LEMMA AddCompleted ==
  ASSUME NEW e \in Manager, NEW r \in Ids, NEW n, n = addCompleted(e, r),
         e.waiting \cap e.completed = {}
  PROVE  /\ n \in Manager /\ n.request = e.request /\ n.response = e.response
         /\ r \in e.waiting => n.waiting = e.waiting \ {r} /\ n.completed = e.completed
         /\ r \notin e.waiting => n.waiting = e.waiting /\ n.completed = e.completed \cup {r}
<1>1. CASE r \in e.waiting
  <2> DEFINE w == e.waiting \ {r}
             b == (e.set \/ e.waiting = {r})
  <2>1. n = [e EXCEPT !.waiting = w, !.set = b]
    BY <1>1 DEF addCompleted, Manager
  <2>2. w \in SUBSET Ids /\ b \in BOOLEAN
    BY DEF Manager
  <2> HIDE DEF w, b
  <2>3. n \in Manager /\ n.request = e.request /\ n.response = e.response
        /\ n.waiting = w /\ n.completed = e.completed
    BY <2>1, <2>2 DEF Manager
  <2> QED
    BY <1>1, <2>3 DEF w
<1>2. CASE r \notin e.waiting
  <2> DEFINE k == e.completed \cup {r}
  <2>1. n = [e EXCEPT !.completed = k]
    BY <1>2 DEF addCompleted, Manager
  <2>2. k \in SUBSET Ids
    BY DEF Manager
  <2> HIDE DEF k
  <2>3. n \in Manager /\ n.request = e.request /\ n.response = e.response
        /\ n.waiting = e.waiting /\ n.completed = k
    BY <2>1, <2>2 DEF Manager
  <2> QED
    BY <1>2, <2>3 DEF k
<1> QED
  BY <1>1, <1>2

(* makeMatchEvent's request is one that waits for an answer.               *)
LEMMA OldestMatch ==
  ASSUME NEW e \in Manager, NEW u, Unmatched(e, u) # {}
  PROVE  /\ Oldest(e, Unmatched(e, u))[2] \in Ids
         /\ e.request[Oldest(e, Unmatched(e, u))[2]].tag = "requesting"
<1> DEFINE S == Unmatched(e, u)
<1>1. S \subseteq Nat
  <2>1. e.list \in Seq(Entry)
    BY DEF Manager
  <2>2. DOMAIN e.list \subseteq Nat
    BY <2>1
  <2> QED
    BY <2>2 DEF Unmatched
<1>2. PICK i \in S : \A j \in S : ~(<<j, i>> \in OpToRel(<, Nat))
  BY <1>1, WFMin, NatLessThanWellFounded
<1>3. \A j \in S : i \in Nat /\ j \in Nat /\ ~(j < i)
  BY <1>1, <1>2 DEF OpToRel
<1>4. \A j \in S : i <= j
  BY <1>3
<1> DEFINE k == CHOOSE m \in S : \A j \in S : m <= j
<1>5. k \in S
  BY <1>2, <1>4
<1>6. Oldest(e, S) = e.list[k]
  BY DEF Oldest
<1> HIDE DEF k
<1>7. /\ k \in DOMAIN e.list /\ e.list[k][1] = "request"
      /\ e.request[e.list[k][2]].tag = "requesting"
  BY <1>5 DEF Unmatched
<1>8. e.list[k] \in Entry
  BY <1>7 DEF Manager
<1>9. e.list[k][2] \in Ids
  BY <1>7, <1>8 DEF Entry
<1> QED
  BY <1>6, <1>7, <1>9

-----------------------------------------------------------------------------
(* Steps in which the agents do nothing that matters to the main thread.   *)
Moves(old, new) ==
  /\ new.from = old.from /\ new.id = old.id /\ new.tag = old.tag
  /\ (new.pc = "none") <=> (old.pc = "none")
  /\ new.pc \in {"wait", "sent"} => old.pc \in {"wait", "sent"}
  /\ new.msg = old.msg \/ (new.msg = EmptyMessage /\ old.id = "none")
  /\ old.id # "none" =>
       /\ (new.pc = "action") <=> (old.pc = "action")
       /\ new.pc \in {"action", "wait", "sent", "disrupt", "closed"}

AgentsQuiet ==
  /\ AgentTypes'
  /\ em'.response = em.response
  /\ \A r \in Ids : /\ em'.request[r].tag = em.request[r].tag
                    /\ em'.request[r].fetch = em.request[r].fetch
                    /\ client'[r].pc = client[r].pc
  /\ \A h \in Handlers : Moves(handler[h], handler'[h])
  /\ \A r \in Ids : /\ reply'[r].level = reply[r].level
                    /\ reply'[r].status = reply[r].status
                    /\ reply'[r].body = reply[r].body

LEMMA QuietAgents ==
  ASSUME IInv, AgentsQuiet
  PROVE  FreshInv' /\ MatchInv' /\ ReplyInv' /\ ClientInv'
<1> USE DEF AgentsQuiet
<1>1. FreshInv'
  BY DEF IInv, FreshInv, Moves
<1>2. ASSUME NEW h \in Handlers PROVE HandlerInv(h)'
  <2>1. HandlerInv(h) /\ Moves(handler[h], handler'[h])
    BY DEF IInv, MatchInv
  <2> QED
    BY <2>1 DEF HandlerInv, Moves
<1>3. \A r \in Ids : em'.response[r] # NoHandler => handler'[em'.response[r]].id = r
  <2>1. \A r \in Ids : em.response[r] # NoHandler => em.response[r] \in Handlers
    BY DEF IInv, AgentTypes, Manager
  <2> QED
    BY <2>1 DEF IInv, MatchInv, Moves
<1>4. ReplyInv' /\ ClientInv'
  BY DEF IInv, ReplyInv, ClientInv
<1> QED
  BY <1>1, <1>2, <1>3, <1>4 DEF MatchInv

LEMMA QuietDone ==
  ASSUME IInv, AgentsQuiet, OwnResponse
  PROVE  /\ OwnResponse'
         /\ \A r \in Ids : (Deferred(r)' <=> Deferred(r)) /\ (Over(r)' <=> Over(r))
<1> USE DEF AgentsQuiet
<1>1. OwnResponse'
  BY DEF OwnResponse, Moves, EmptyMessage
<1>2. ASSUME NEW r \in Ids PROVE Deferred(r)' <=> Deferred(r)
  <2>1. CASE em.response[r] = NoHandler
    BY <2>1 DEF Deferred
  <2>2. CASE em.response[r] # NoHandler
    <3>1. em.response[r] \in Handlers
      BY <2>2 DEF IInv, AgentTypes, Manager
    <3>2. handler[em.response[r]].id = r /\ r # "none"
      BY <2>2, IdsAssumption DEF IInv, MatchInv
    <3> QED
      BY <3>1, <3>2 DEF Deferred, Moves
  <2> QED
    BY <2>1, <2>2
<1>3. \A r \in Ids : Over(r)' <=> Over(r)
  BY DEF Over
<1> QED
  BY <1>1, <1>2, <1>3

LEMMA QuietChecks ==
  ASSUME AgentsQuiet, CheckInv, \A r \in Ids : seen'[r].checked = seen[r].checked
  PROVE  CheckInv'
BY DEF AgentsQuiet, CheckInv, Compared, Over

(* One connection moves on.                                                *)
LEMMA HandlerGoesType ==
  ASSUME IInv, NEW h \in Handlers, NEW pc \in HandlerPC, HandlerGoes(h, pc)
  PROVE  /\ handler' \in [Handlers -> Handler]
         /\ \A g \in Handlers \ {h} : handler'[g] = handler[g]
         /\ handler'[h] = [handler[h] EXCEPT !.pc = pc]
         /\ handler'[h].pc = pc
         /\ handler'[h].from = handler[h].from /\ handler'[h].id = handler[h].id
         /\ handler'[h].tag = handler[h].tag /\ handler'[h].msg = handler[h].msg
<1>1. handler \in [Handlers -> Handler]
  BY DEF IInv, AgentTypes
<1>2. handler' = [handler EXCEPT ![h] = [handler[h] EXCEPT !.pc = pc]]
  BY <1>1 DEF HandlerGoes
<1>3. [handler[h] EXCEPT !.pc = pc] \in Handler
  BY <1>1 DEF Handler
<1> QED
  BY <1>1, <1>2, <1>3 DEF Handler

LEMMA QuietHandler ==
  ASSUME IInv, NEW h \in Handlers, ServerAccept(h) \/ HandlerDisrupts(h) \/ HandlerReleased(h)
  PROVE  AgentsQuiet /\ UNCHANGED em
<1>1. PICK pc \in {"disrupt", "getRequest", "closed", "sent"} :
        /\ HandlerGoes(h, pc)
        /\ handler[h].pc \in {"queued", "disrupt", "wait"}
        /\ pc = "sent" => handler[h].pc = "wait"
        /\ pc = "getRequest" => handler[h].pc = "queued"
  BY DEF ServerAccept, HandlerDisrupts, HandlerReleased, Serving
<1>2. UNCHANGED <<em, client, reply, disruption, proxy, habits>> /\ server' \in Server
  BY DEF ServerAccept, HandlerDisrupts, HandlerReleased, IInv, AgentTypes, Server, Disruption
<1>3. pc \in HandlerPC
  BY DEF HandlerPC
<1>4. /\ handler' \in [Handlers -> Handler]
      /\ \A g \in Handlers \ {h} : handler'[g] = handler[g]
      /\ handler'[h].pc = pc
      /\ handler'[h].from = handler[h].from /\ handler'[h].id = handler[h].id
      /\ handler'[h].tag = handler[h].tag /\ handler'[h].msg = handler[h].msg
  BY <1>1, <1>3, HandlerGoesType
<1>5. \A g \in Handlers : HandlerInv(g)
  BY DEF IInv, MatchInv
<1>6. ASSUME NEW g \in Handlers PROVE Moves(handler[g], handler'[g])
  <2>1. CASE g = h
    BY <2>1, <1>1, <1>4, <1>5 DEF Moves, HandlerInv
  <2>2. CASE g # h
    BY <2>2, <1>4, <1>5 DEF Moves, HandlerInv
  <2> QED
    BY <2>1, <2>2
<1> QED
  BY <1>2, <1>4, <1>6 DEF AgentsQuiet, IInv, AgentTypes

LEMMA QuietServerStops ==
  ASSUME IInv, ServerStops
  PROVE  AgentsQuiet /\ UNCHANGED em
<1>1. handler \in [Handlers -> Handler] /\ \A h \in Handlers : HandlerInv(h)
  BY DEF IInv, AgentTypes, MatchInv
<1>2. UNCHANGED <<em, client, reply, disruption, proxy, habits>> /\ server' \in Server
  BY DEF ServerStops, IInv, AgentTypes, Server
<1>3. ASSUME NEW h \in Handlers
      PROVE  handler'[h] \in Handler /\ Moves(handler[h], handler'[h])
  <2>1. handler[h] \in Handler /\ HandlerInv(h)
    BY <1>1
  <2>2. CASE handler[h].pc = "queued"
    <3>1. handler'[h] = [handler[h] EXCEPT !.pc = "closed"]
      BY <2>2 DEF ServerStops, Serving
    <3>2. /\ handler'[h] \in Handler /\ handler'[h].pc = "closed"
          /\ handler'[h].from = handler[h].from /\ handler'[h].id = handler[h].id
          /\ handler'[h].tag = handler[h].tag /\ handler'[h].msg = handler[h].msg
      BY <2>1, <3>1 DEF Handler, HandlerPC
    <3> QED
      BY <2>1, <2>2, <3>2 DEF Moves, HandlerInv
  <2>3. CASE handler[h].pc # "queued"
    <3>1. handler'[h] = handler[h]
      BY <2>3 DEF ServerStops, Serving
    <3> QED
      BY <2>1, <3>1 DEF Moves, HandlerInv
  <2> QED
    BY <2>2, <2>3
<1>4. handler' \in [Handlers -> Handler]
  BY <1>3 DEF ServerStops
<1> QED
  BY <1>2, <1>3, <1>4 DEF AgentsQuiet, IInv, AgentTypes

(* The proxy's process ends.                                               *)
LEMMA QuietKilled ==
  ASSUME IInv, Killed, UNCHANGED <<em, client, server, disruption, habits>>, proxy' \in ProxyState
  PROVE  AgentsQuiet
<1>1. /\ handler \in [Handlers -> Handler] /\ \A h \in Handlers : HandlerInv(h)
      /\ reply \in [Ids -> Reply]
  BY DEF IInv, AgentTypes, MatchInv
<1>2. ASSUME NEW h \in Handlers
      PROVE  handler'[h] \in Handler /\ Moves(handler[h], handler'[h])
  <2>1. handler[h] \in Handler /\ HandlerInv(h)
    BY <1>1
  <2>2. CASE handler[h].pc \in {"queued", "getRequest"} /\ handler[h].msg.kind = "none"
    <3>1. handler'[h] = [handler[h] EXCEPT !.msg = EmptyMessage]
      BY <2>2 DEF Killed
    <3>2. /\ handler'[h] \in Handler /\ handler'[h].pc = handler[h].pc
          /\ handler'[h].from = handler[h].from /\ handler'[h].id = handler[h].id
          /\ handler'[h].tag = handler[h].tag /\ handler'[h].msg = EmptyMessage
      <4>1. EmptyMessage \in Message
        BY DEF Message
      <4> HIDE DEF EmptyMessage
      <4> QED
        BY <2>1, <3>1, <4>1 DEF Handler
    <3> QED
      BY <2>1, <2>2, <3>2 DEF Moves, HandlerInv
  <2>3. CASE ~(handler[h].pc \in {"queued", "getRequest"} /\ handler[h].msg.kind = "none")
    <3>1. handler'[h] = handler[h]
      BY <2>3 DEF Killed
    <3> QED
      BY <2>1, <3>1 DEF Moves, HandlerInv
  <2> QED
    BY <2>2, <2>3
<1>3. ASSUME NEW r \in Ids
      PROVE  /\ reply'[r] \in Reply /\ reply'[r].level = reply[r].level
             /\ reply'[r].status = reply[r].status /\ reply'[r].body = reply[r].body
  <2>1. reply[r] \in Reply
    BY <1>1
  <2>2. reply'[r] = reply[r] \/ reply'[r] = [reply[r] EXCEPT !.closed = TRUE]
    BY DEF Killed
  <2> QED
    BY <2>1, <2>2 DEF Reply
<1>4. handler' \in [Handlers -> Handler] /\ reply' \in [Ids -> Reply]
  BY <1>2, <1>3 DEF Killed
<1> QED
  BY <1>2, <1>3, <1>4 DEF AgentsQuiet, IInv, AgentTypes

LEMMA QuietHangup ==
  ASSUME IInv, NEW r \in Ids, Hangup(r)
  PROVE  AgentsQuiet /\ UNCHANGED em
<1>1. /\ \A h \in Handlers : HandlerInv(h)
      /\ reply \in [Ids -> Reply]
      /\ UNCHANGED <<em, client, handler, server, disruption, proxy, habits>>
      /\ reply' = [reply EXCEPT ![r] = [reply[r] EXCEPT !.closed = TRUE]]
  BY DEF IInv, AgentTypes, MatchInv, Hangup
<1>2. [reply[r] EXCEPT !.closed = TRUE] \in Reply
  BY <1>1 DEF Reply
<1>3. \A q \in Ids : /\ reply'[q].level = reply[q].level
                     /\ reply'[q].status = reply[q].status /\ reply'[q].body = reply[q].body
  BY <1>1 DEF Reply
<1>4. \A h \in Handlers : Moves(handler[h], handler'[h])
  BY <1>1 DEF Moves, HandlerInv
<1>5. reply' \in [Ids -> Reply]
  BY <1>1, <1>2
<1> QED
  BY <1>1, <1>3, <1>4, <1>5 DEF AgentsQuiet, IInv, AgentTypes

(* One deferred response is released.                                      *)
LEMMA QuietRelease ==
  ASSUME IInv, NEW h, handler' = [handler EXCEPT ![h].released = TRUE],
         UNCHANGED <<em, client, reply, server, disruption, proxy, habits>>
  PROVE  AgentsQuiet
<1>1. handler \in [Handlers -> Handler] /\ \A g \in Handlers : HandlerInv(g)
  BY DEF IInv, AgentTypes, MatchInv
<1>2. ASSUME NEW g \in Handlers
      PROVE  handler'[g] \in Handler /\ Moves(handler[g], handler'[g])
  <2>1. handler[g] \in Handler /\ HandlerInv(g)
    BY <1>1
  <2>2. handler'[g] = handler[g] \/ handler'[g] = [handler[g] EXCEPT !.released = TRUE]
    BY <1>1
  <2>3. /\ handler'[g] \in Handler /\ handler'[g].pc = handler[g].pc
        /\ handler'[g].from = handler[g].from /\ handler'[g].id = handler[g].id
        /\ handler'[g].tag = handler[g].tag /\ handler'[g].msg = handler[g].msg
    <3>1. CASE handler'[g] = handler[g]
      BY <2>1, <3>1
    <3>2. CASE handler'[g] = [handler[g] EXCEPT !.released = TRUE]
      <4> DEFINE n == [handler[g] EXCEPT !.released = TRUE]
      <4>1. n \in Handler
        BY <2>1 DEF Handler
      <4>2. /\ n.pc = handler[g].pc /\ n.from = handler[g].from /\ n.id = handler[g].id
            /\ n.tag = handler[g].tag /\ n.msg = handler[g].msg
        BY <2>1 DEF Handler
      <4> QED
        BY <3>2, <4>1, <4>2
    <3> QED
      BY <2>2, <3>1, <3>2
  <2> QED
    BY <2>1, <2>3 DEF Moves, HandlerInv
<1>3. handler' \in [Handlers -> Handler]
  BY <1>1, <1>2
<1> QED
  BY <1>2, <1>3 DEF AgentsQuiet, IInv, AgentTypes

(* A client's thread learns that the driver shuts down.                    *)
LEMMA QuietShutdown ==
  ASSUME IInv, NEW r, client' = [client EXCEPT ![r].shutdown = TRUE],
         UNCHANGED <<em, handler, reply, server, disruption, proxy, habits>>
  PROVE  AgentsQuiet
<1>1. client \in [Ids -> Client] /\ \A g \in Handlers : HandlerInv(g)
  BY DEF IInv, AgentTypes, MatchInv
<1>2. ASSUME NEW q \in Ids
      PROVE  client'[q] \in Client /\ client'[q].pc = client[q].pc
  <2>1. client[q] \in Client
    BY <1>1
  <2>2. client'[q] = client[q] \/ client'[q] = [client[q] EXCEPT !.shutdown = TRUE]
    BY <1>1
  <2> QED
    BY <2>1, <2>2 DEF Client
<1>3. client' \in [Ids -> Client]
  BY <1>1, <1>2
<1>4. \A h \in Handlers : Moves(handler[h], handler'[h])
  BY <1>1 DEF Moves, HandlerInv
<1> QED
  BY <1>2, <1>3, <1>4 DEF AgentsQuiet, IInv, AgentTypes

(* Only the manager's bookkeeping of waits, the server or the disruptions  *)
(* change.                                                                 *)
LEMMA QuietOthers ==
  ASSUME IInv, UNCHANGED <<client, reply, handler, habits>>,
         em' \in Manager, em'.request = em.request, em'.response = em.response,
         server' \in Server, disruption' \in Disruption, proxy' \in ProxyState
  PROVE  AgentsQuiet
<1>1. \A h \in Handlers : HandlerInv(h)
  BY DEF IInv, MatchInv
<1>2. \A h \in Handlers : Moves(handler[h], handler'[h])
  BY <1>1 DEF Moves, HandlerInv
<1> QED
  BY <1>2 DEF AgentsQuiet, IInv, AgentTypes

-----------------------------------------------------------------------------
(* The main thread.  A command that has been interpreted.                  *)
LEMMA CommandedMain ==
  ASSUME IInv, main.pc \in {"run", "wait", "start"}, script.todo # <<>>, NEW ok \in BOOLEAN, Commanded(ok)
  PROVE  /\ main' \in Main /\ script' \in [todo : Seq(Issued), errors : 0..errorLimit]
         /\ main'.pc \in {"run", "finish"} /\ main'.ids = {}
         /\ MainInv'
<1>1. /\ main \in Main /\ script.todo \in Seq(Issued) /\ script.errors \in 0..errorLimit
      /\ script.errors < errorLimit
  BY DEF IInv, MainTypes, MainInv
<1>2. Tail(script.todo) \in Seq(Issued)
  BY <1>1
<1> DEFINE n == script.errors + IF ok THEN 0 ELSE 1
<1>3. n \in 0..errorLimit
  BY <1>1, ErrorLimitAssumption
<1>4. script' = [todo |-> Tail(script.todo), errors |-> n]
  BY DEF Commanded
<1>5. script' \in [todo : Seq(Issued), errors : 0..errorLimit] /\ script'.errors = n
  BY <1>2, <1>3, <1>4
<1>6. main' = [main EXCEPT !.pc = IF n >= errorLimit THEN "finish" ELSE "run", !.ids = {}]
  BY <1>5 DEF Commanded
<1> HIDE DEF n
<1>7. main' \in Main /\ main'.ids = {} /\ main'.pc = IF n >= errorLimit THEN "finish" ELSE "run"
  BY <1>1, <1>6 DEF Main
<1> QED
  BY <1>3, <1>5, <1>7, ErrorLimitAssumption DEF MainInv

(* A step of the main thread that is no wait, and issues no request.       *)
LEMMA MainKeeps ==
  ASSUME IInv, AgentsQuiet, MainTypes', MainInv', main.pc # "wait", main'.pc # "wait",
         em'.waiting = em.waiting, em'.completed = em.completed,
         \A r \in Ids : /\ seen'[r].waited <=> seen[r].waited
                        /\ seen'[r].found <=> seen[r].found
                        /\ seen'[r].promised => seen[r].promised \/ seen[r].waited
  PROVE  IInv' /\ (DoneInv => DoneInv')
<1>1. AgentTypes' /\ FreshInv' /\ MatchInv' /\ ReplyInv' /\ ClientInv'
  BY QuietAgents DEF AgentsQuiet
<1>2. WaitInv'
  BY DEF IInv, WaitInv
<1>3. ASSUME DoneInv PROVE DoneInv'
  <2>1. /\ OwnResponse'
        /\ \A r \in Ids : (Deferred(r)' <=> Deferred(r)) /\ (Over(r)' <=> Over(r))
    BY <1>3, QuietDone DEF DoneInv
  <2>2. \A r \in Ids : em'.request[r].fetch = em.request[r].fetch
    BY DEF AgentsQuiet
  <2>3. ASSUME NEW r \in Ids PROVE Counted(r)' /\ Promise(r)'
    <3>1. Counted(r) /\ Promise(r)
      BY <1>3 DEF DoneInv
    <3>2. ~Taken(r)' /\ ~Taken(r)
      BY DEF Taken
    <3>3. Counted(r)'
      BY <2>1, <3>1, <3>2 DEF Counted
    <3>4. Promise(r)'
      BY <2>1, <2>2, <3>1 DEF Promise
    <3> QED
      BY <3>3, <3>4
  <2> QED
    BY <2>1, <2>3 DEF DoneInv
<1> QED
  BY <1>1, <1>2, <1>3 DEF IInv

(* It may drop a request only by forgetting it.                            *)
LEMMA TrackKeeps ==
  ASSUME TrackInv, main.pc # "wait", main'.pc # "wait",
         \A r \in Ids : Pending(r)' =>
           r \in activeEvents' \/ (Pending(r) /\ (r \in activeEvents => r \in activeEvents'))
  PROVE  TrackInv'
BY DEF TrackInv

LEMMA FinishKeeps ==
  ASSUME IInv, Finish \/ doQuit
  PROVE  IInv' /\ (DoneInv => DoneInv') /\ (CheckInv => CheckInv') /\ (TrackInv => TrackInv')
<1> USE DEF Finish
<1>1. /\ main \in Main /\ em \in Manager /\ script \in [todo : Seq(Issued), errors : 0..errorLimit]
      /\ server \in Server /\ disruption \in Disruption /\ proxy \in ProxyState
      /\ activeEvents \in SUBSET Ids /\ seen \in [Ids -> Seen]
  BY DEF IInv, MainTypes, AgentTypes
<1>2. UNCHANGED <<script, activeEvents, seen>>
  BY DEF doQuit, Terminate, Stop, StopServers, WaitForExit, ShutdownEvent, Join, NothingLeft
<1>3. main.pc # "wait"
  BY DEF doQuit, Terminate, Stop, StopServers, WaitForExit, ShutdownEvent, Join, NothingLeft
<1>4. /\ main' \in Main /\ main'.pc \notin {"run", "wait", "start"}
      /\ main'.pc = "join" => main'.left # <<>>
  <2>1. CASE WaitForExit
    <3>1. main' = [main EXCEPT !.pc = "shutdown", !.left = em.list] /\ em.list \in Seq(Entry)
      BY <1>1, <2>1 DEF WaitForExit, Manager
    <3> QED
      BY <1>1, <3>1 DEF Main
  <2>2. CASE Join
    <3>1. main' = [main EXCEPT !.pc = "shutdown", !.left = Tail(main.left)] /\ main.left # <<>>
      BY <1>1, <2>2 DEF Join, IInv, MainInv, Main
    <3>2. Tail(main.left) \in Seq(Entry)
      BY <1>1, <3>1 DEF Main
    <3> QED
      BY <1>1, <3>1, <3>2 DEF Main
  <2>3. CASE ShutdownEvent
    BY <1>1, <2>3 DEF ShutdownEvent, Main
  <2>4. CASE doQuit \/ Terminate \/ Stop \/ NothingLeft
    BY <1>1, <2>4 DEF doQuit, Terminate, Stop, NothingLeft, Main
  <2>5. CASE StopServers
    BY <1>1, <2>5 DEF StopServers
  <2> QED
    BY <2>1, <2>2, <2>3, <2>4, <2>5
<1>5. MainTypes' /\ MainInv'
  BY <1>1, <1>2, <1>4 DEF MainTypes, MainInv
<1>6. /\ em' \in Manager /\ em'.request = em.request /\ em'.response = em.response
      /\ em'.waiting = em.waiting /\ em'.completed = em.completed
  <2>1. CASE Stop
    BY <1>1, <2>1 DEF Stop, stop, Manager
  <2>2. CASE UNCHANGED em
    BY <1>1, <2>2
  <2> QED
    BY <2>1, <2>2 DEF doQuit, Terminate, StopServers, WaitForExit, ShutdownEvent, Join,
       NothingLeft, agentVars
<1>7. AgentsQuiet
  <2>1. CASE Terminate
    <3>1. proxy' \in ProxyState
      BY <1>1, <2>1 DEF Terminate, ProxyState
    <3> QED
      BY <2>1, <3>1, QuietKilled DEF Terminate
  <2>2. CASE ShutdownEvent
    <3>1. UNCHANGED <<em, reply, server, disruption, proxy, habits>>
      BY <2>2 DEF ShutdownEvent
    <3>2. \/ client' = [client EXCEPT ![Head(main.left)[2]].shutdown = TRUE] /\ UNCHANGED handler
          \/ handler' = [handler EXCEPT ![Head(main.left)[2]].released = TRUE] /\ UNCHANGED client
      BY <2>2 DEF ShutdownEvent
    <3> QED
      BY <3>1, <3>2, QuietShutdown, QuietRelease
  <2>3. CASE doQuit \/ Stop \/ StopServers \/ WaitForExit \/ Join \/ NothingLeft
    <3>1. UNCHANGED <<client, reply, handler, disruption, proxy, habits>> /\ server' \in Server
      BY <1>1, <2>3 DEF doQuit, Stop, StopServers, WaitForExit, Join, NothingLeft, agentVars, Server
    <3> QED
      BY <1>1, <1>6, <3>1, QuietOthers
  <2> QED
    BY <2>1, <2>2, <2>3
<1>8. IInv' /\ (DoneInv => DoneInv')
  BY <1>2, <1>3, <1>4, <1>5, <1>6, <1>7, MainKeeps
<1>9. TrackInv => TrackInv'
  BY <1>2, <1>3, <1>4, TrackKeeps DEF Pending
<1> QED
  BY <1>2, <1>7, <1>8, <1>9, QuietChecks

LEMMA ArgIssued ==
  ASSUME IInv, NEW name, Next1(name)
  PROVE  /\ main.pc = "run" /\ script.todo # <<>>
         /\ Arg \in Issued /\ Arg.cmd = name /\ IsCommand(Arg)
<1>1. main.pc = "run" /\ script.todo # <<>> /\ Arg.cmd = name
  BY DEF Next1, Arg
<1>2. script.todo \in Seq(Issued)
  BY DEF IInv, MainTypes
<1>3. Arg \in Issued
  BY <1>1, <1>2 DEF Arg
<1> QED
  BY <1>1, <1>3, CasesAssumption

(* What becomes of the marks of a request whose response is released.      *)
LEMMA SeenRespond ==
  ASSUME seen \in [Ids -> Seen], NEW r \in Ids,
         seen' = [seen EXCEPT ![r].promised = @ \/ seen[r].waited, ![r].forgotten = FALSE]
  PROVE  /\ seen' \in [Ids -> Seen]
         /\ \A q \in Ids : /\ seen'[q].waited = seen[q].waited
                           /\ seen'[q].found = seen[q].found
                           /\ seen'[q].checked = seen[q].checked
                           /\ seen'[q].promised => seen[q].promised \/ seen[q].waited
         /\ \A q \in Ids \ {r} : seen'[q] = seen[q]
<1> DEFINE b == seen[r].promised \/ seen[r].waited
           s == [seen[r] EXCEPT !.promised = b, !.forgotten = FALSE]
<1>1. b \in BOOLEAN /\ seen[r] \in Seen
  BY DEF Seen
<1>2. seen' = [seen EXCEPT ![r] = s]
  BY DEF b
<1> HIDE DEF b
<1>3. /\ s \in Seen /\ s.waited = seen[r].waited /\ s.found = seen[r].found
      /\ s.checked = seen[r].checked /\ (s.promised <=> b)
  BY <1>1 DEF Seen
<1> HIDE DEF s
<1>4. /\ seen' \in [Ids -> Seen] /\ seen'[r] = s
      /\ \A q \in Ids \ {r} : seen'[q] = seen[q]
  BY <1>2, <1>3
<1> QED
  BY <1>3, <1>4 DEF b

LEMMA RespondKeeps ==
  ASSUME IInv, doRespond
  PROVE  IInv' /\ (DoneInv => DoneInv') /\ (CheckInv => CheckInv') /\ (TrackInv => TrackInv')
<1> DEFINE r == Arg.id
<1>1. Next1("respond") /\ r \in Ids /\ main.pc = "run" /\ script.todo # <<>>
  BY ArgIssued DEF doRespond, IsCommand
<1>2. PICK ok \in BOOLEAN : Commanded(ok)
  BY DEF doRespond
<1>3. /\ main' \in Main /\ script' \in [todo : Seq(Issued), errors : 0..errorLimit]
      /\ main'.pc # "wait" /\ MainInv'
  BY <1>1, <1>2, CommandedMain
<1>4. seen \in [Ids -> Seen] /\ activeEvents \in SUBSET Ids
  BY DEF IInv, MainTypes
<1>5. /\ AgentsQuiet /\ UNCHANGED em
      /\ activeEvents' \in SUBSET Ids
      /\ \/ UNCHANGED seen
         \/ seen' = [seen EXCEPT ![r].promised = @ \/ seen[r].waited, ![r].forgotten = FALSE]
  <2>1. CASE em.response[r] = NoHandler
    <3>1. UNCHANGED <<agentVars, activeEvents, seen>>
      BY <2>1 DEF doRespond
    <3>2. AgentsQuiet
      BY <3>1, QuietOthers DEF agentVars, IInv, AgentTypes
    <3> QED
      BY <1>4, <3>1, <3>2 DEF agentVars
  <2>2. CASE em.response[r] # NoHandler
    <3>1. /\ handler' = [handler EXCEPT ![em.response[r]].released = TRUE]
          /\ activeEvents' = activeEvents \cup {r}
          /\ seen' = [seen EXCEPT ![r].promised = @ \/ seen[r].waited, ![r].forgotten = FALSE]
          /\ UNCHANGED <<em, client, reply, server, disruption, proxy, habits>>
      BY <2>2 DEF doRespond
    <3> QED
      BY <1>1, <1>4, <3>1, QuietRelease
  <2> QED
    BY <2>1, <2>2
<1>6. /\ seen' \in [Ids -> Seen]
      /\ \A q \in Ids : /\ seen'[q].waited = seen[q].waited
                        /\ seen'[q].found = seen[q].found
                        /\ seen'[q].checked = seen[q].checked
                        /\ seen'[q].promised => seen[q].promised \/ seen[q].waited
  <2>1. CASE UNCHANGED seen
    BY <1>4, <2>1
  <2>2. CASE seen' = [seen EXCEPT ![r].promised = @ \/ seen[r].waited, ![r].forgotten = FALSE]
    BY <1>1, <1>4, <2>2, SeenRespond
  <2> QED
    BY <1>5, <2>1, <2>2
<1>7. MainTypes'
  BY <1>3, <1>5, <1>6 DEF MainTypes
<1>8. IInv' /\ (DoneInv => DoneInv')
  BY <1>1, <1>3, <1>5, <1>6, <1>7, MainKeeps
<1>9. TrackInv => TrackInv'
  <2>1. \/ UNCHANGED <<activeEvents, seen>>
        \/ /\ activeEvents' = activeEvents \cup {r}
           /\ \A q \in Ids \ {r} : seen'[q] = seen[q]
    <3>1. CASE em.response[r] = NoHandler
      BY <3>1 DEF doRespond
    <3>2. CASE em.response[r] # NoHandler
      <4>1. seen' = [seen EXCEPT ![r].promised = @ \/ seen[r].waited, ![r].forgotten = FALSE]
        BY <3>2 DEF doRespond
      <4>2. activeEvents' = activeEvents \cup {r}
        BY <3>2 DEF doRespond
      <4> QED
        BY <1>1, <1>4, <4>1, <4>2, SeenRespond
    <3> QED
      BY <3>1, <3>2
  <2>2. \A q \in Ids : Pending(q)' =>
          q \in activeEvents' \/ (Pending(q) /\ (q \in activeEvents => q \in activeEvents'))
    BY <2>1 DEF Pending
  <2> QED
    BY <1>1, <1>3, <2>2, TrackKeeps
<1> QED
  BY <1>5, <1>6, <1>8, <1>9, QuietChecks

LEMMA DisruptProxyKeep ==
  ASSUME IInv, doDisrupt \/ doProxy \/ ProxyStarts
  PROVE  IInv' /\ (DoneInv => DoneInv') /\ (CheckInv => CheckInv') /\ (TrackInv => TrackInv')
<1>1. /\ main.pc \in {"run", "start"} /\ script.todo # <<>>
      /\ UNCHANGED <<em, client, habits, activeEvents, seen>>
  <2>1. CASE doDisrupt
    BY <2>1, ArgIssued DEF doDisrupt
  <2>2. CASE doProxy
    BY <2>2, ArgIssued DEF doProxy
  <2>3. CASE ProxyStarts
    BY <2>3 DEF ProxyStarts, IInv, MainInv
  <2> QED
    BY <2>1, <2>2, <2>3
<1>2. /\ main' \in Main /\ script' \in [todo : Seq(Issued), errors : 0..errorLimit]
      /\ main'.pc # "wait" /\ MainInv'
  <2>1. CASE \E ok \in BOOLEAN : Commanded(ok)
    BY <1>1, <2>1, CommandedMain
  <2>2. CASE main.pc = "run" /\ main' = [main EXCEPT !.pc = "start"] /\ UNCHANGED script
    <3>1. main \in Main /\ script \in [todo : Seq(Issued), errors : 0..errorLimit] /\ MainInv
      BY DEF IInv, MainTypes
    <3>2. main' \in Main /\ main'.pc = "start"
      BY <2>2, <3>1 DEF Main
    <3> QED
      BY <1>1, <2>2, <3>1, <3>2 DEF MainInv
  <2>3. CASE ProxyStarts
    <3>1. habits.starts \subseteq BOOLEAN
      BY CasesAssumption DEF IInv, AgentTypes
    <3> QED
      BY <2>1, <2>3, <3>1 DEF ProxyStarts
  <2>4. CASE doProxy
    BY <2>1, <2>2, <2>4, ArgIssued DEF doProxy
  <2>5. CASE doDisrupt
    BY <2>1, <2>5 DEF doDisrupt
  <2> QED
    BY <2>3, <2>4, <2>5
<1>3. MainTypes'
  BY <1>1, <1>2 DEF MainTypes, IInv
<1>4. AgentsQuiet
  <2>1. CASE doProxy
    <3>1. proxy' \in ProxyState
      BY <2>1 DEF doProxy, ProxyState
    <3> QED
      BY <2>1, <3>1, QuietKilled DEF doProxy
  <2>2. CASE doDisrupt
    <3>1. Arg.what \in Disruption
      BY <2>2, ArgIssued DEF doDisrupt, IsCommand, Disruption
    <3>2. server' \in Server /\ disruption' \in Disruption
      BY <2>2, <3>1 DEF doDisrupt, IInv, AgentTypes, Server
    <3>3. UNCHANGED <<client, reply, handler, habits, proxy, em>>
      BY <2>2 DEF doDisrupt
    <3> QED
      BY <3>2, <3>3, QuietOthers DEF IInv, AgentTypes
  <2>3. CASE ProxyStarts
    <3>1. proxy' \in ProxyState /\ UNCHANGED <<em, client, reply, handler, server, disruption, habits>>
      BY <2>3 DEF ProxyStarts, ProxyState
    <3> QED
      BY <3>1, QuietOthers DEF IInv, AgentTypes
  <2> QED
    BY <2>1, <2>2, <2>3
<1>5. IInv' /\ (DoneInv => DoneInv')
  BY <1>1, <1>2, <1>3, <1>4, MainKeeps
<1>6. TrackInv => TrackInv'
  BY <1>1, <1>2, TrackKeeps DEF Pending
<1> QED
  BY <1>1, <1>4, <1>5, <1>6, QuietChecks

(* A check that says ok after a wait has found the request finished.       *)
LEMMA CheckKeeps ==
  ASSUME IInv, doCheck
  PROVE  /\ IInv' /\ (DoneInv => DoneInv') /\ (DoneInv /\ CheckInv => CheckInv')
         /\ TrackInv => TrackInv'
<1> DEFINE r == Arg.id
           ok == (em.request[r].tag = "ok")
<1>1. r \in Ids /\ main.pc = "run" /\ script.todo # <<>>
  BY ArgIssued DEF doCheck, IsCommand
<1>2. Commanded(ok) /\ ok \in BOOLEAN
  BY DEF doCheck
<1>3. /\ main' \in Main /\ script' \in [todo : Seq(Issued), errors : 0..errorLimit]
      /\ main'.pc # "wait" /\ MainInv'
  BY <1>1, <1>2, CommandedMain
<1>4. seen \in [Ids -> Seen] /\ activeEvents \in SUBSET Ids
  BY DEF IInv, MainTypes
<1>5. UNCHANGED <<agentVars, activeEvents>> /\ AgentsQuiet
  <2>1. UNCHANGED <<agentVars, activeEvents>>
    BY DEF doCheck
  <2> QED
    BY <2>1, QuietOthers DEF agentVars, IInv, AgentTypes
<1>6. /\ seen' \in [Ids -> Seen]
      /\ \A q \in Ids : /\ seen'[q].waited = seen[q].waited
                        /\ seen'[q].found = seen[q].found
                        /\ seen'[q].promised = seen[q].promised
                        /\ seen'[q].forgotten = seen[q].forgotten
                        /\ seen'[q].checked =>
                             seen[q].checked \/ (seen[q].found /\ em.request[q].tag = "ok")
  <2> DEFINE b == (seen[r].checked \/ (seen[r].found /\ ok))
             s == [seen[r] EXCEPT !.checked = b]
  <2>1. b \in BOOLEAN /\ seen[r] \in Seen
    BY <1>1, <1>4 DEF Seen
  <2>2. seen' = [seen EXCEPT ![r] = s]
    BY <1>1, <1>4 DEF doCheck
  <2>3. b => seen[r].checked \/ (seen[r].found /\ em.request[r].tag = "ok")
    OBVIOUS
  <2> HIDE DEF b
  <2>4. /\ s \in Seen /\ s.waited = seen[r].waited /\ s.found = seen[r].found
        /\ s.promised = seen[r].promised /\ s.forgotten = seen[r].forgotten
        /\ (s.checked <=> b)
    BY <2>1 DEF Seen
  <2> HIDE DEF s
  <2> QED
    BY <1>1, <1>4, <2>2, <2>3, <2>4
<1>7. MainTypes'
  BY <1>3, <1>4, <1>5, <1>6 DEF MainTypes
<1>8. em' = em
  BY <1>5 DEF agentVars
<1>9. IInv' /\ (DoneInv => DoneInv')
  BY <1>1, <1>3, <1>5, <1>6, <1>7, <1>8, MainKeeps
<1>10. ASSUME DoneInv, CheckInv PROVE CheckInv'
  <2>1. UNCHANGED <<em, client, reply>>
    BY <1>5 DEF agentVars
  <2>2. ASSUME NEW q \in Ids
        PROVE  /\ Compared(q)'
               /\ seen'[q].checked => Over(q)' /\ reply'[q].status = "ok" /\ reply'[q].body = "same"
    <3>1. /\ Compared(q) /\ Promise(q)
          /\ seen[q].checked => Over(q) /\ reply[q].status = "ok" /\ reply[q].body = "same"
      BY <1>10 DEF DoneInv, CheckInv
    <3>2. seen'[q].checked => seen[q].checked \/ (seen[q].found /\ em.request[q].tag = "ok")
      BY <1>6
    <3> QED
      BY <2>1, <3>1, <3>2 DEF Compared, Promise, Over
  <2> QED
    BY <2>2 DEF CheckInv
<1>11. TrackInv => TrackInv'
  BY <1>1, <1>3, <1>5, <1>6, TrackKeeps DEF Pending
<1> QED
  BY <1>9, <1>10, <1>11

(* The completed events a wait lists are taken out of the set.             *)
LEMMA WaitKeeps ==
  ASSUME IInv, doWait
  PROVE  IInv' /\ (DoneInv => DoneInv') /\ (CheckInv => CheckInv') /\ (TrackInv => TrackInv')
<1> DEFINE ids == IF Arg.ids = {} THEN activeEvents ELSE Arg.ids
<1>1. main.pc = "run" /\ script.todo # <<>> /\ Arg.ids \subseteq Ids
  BY ArgIssued DEF doWait, IsCommand
<1>2. /\ UNCHANGED <<client, reply, handler, server, disruption, proxy, habits>>
      /\ activeEvents' = activeEvents \ ids /\ ids \in SUBSET Ids
      /\ Arg.ids = {} => ids = activeEvents
  BY <1>1 DEF doWait, IInv, MainTypes
<1>3. CASE /\ Commanded(FALSE) /\ UNCHANGED em
           /\ seen' = [r \in Ids |-> IF r \in ids \cap activeEvents
                                    THEN [seen[r] EXCEPT !.forgotten = TRUE] ELSE seen[r]]
  <2>1. /\ main' \in Main /\ script' \in [todo : Seq(Issued), errors : 0..errorLimit]
        /\ main'.pc # "wait" /\ MainInv'
    BY <1>1, <1>3, CommandedMain
  <2>2. seen \in [Ids -> Seen] /\ activeEvents \in SUBSET Ids
    BY DEF IInv, MainTypes
  <2> HIDE DEF ids
  <2>3. ASSUME NEW r \in Ids
        PROVE  /\ seen'[r] \in Seen
               /\ seen'[r].waited = seen[r].waited /\ seen'[r].found = seen[r].found
               /\ seen'[r].promised = seen[r].promised /\ seen'[r].checked = seen[r].checked
               /\ r \in ids \cap activeEvents => seen'[r].forgotten
               /\ r \notin ids \cap activeEvents => seen'[r] = seen[r]
    <3>1. CASE r \in ids \cap activeEvents
      <4>1. seen'[r] = [seen[r] EXCEPT !.forgotten = TRUE] /\ seen[r] \in Seen
        BY <1>3, <2>2, <3>1
      <4> QED
        BY <3>1, <4>1 DEF Seen
    <3>2. CASE r \notin ids \cap activeEvents
      BY <1>3, <2>2, <3>2
    <3> QED
      BY <3>1, <3>2
  <2>4. seen' \in [Ids -> Seen]
    BY <1>3, <2>3
  <2>5. MainTypes'
    BY <1>2, <2>1, <2>2, <2>4 DEF MainTypes
  <2>6. AgentsQuiet
    BY <1>2, <1>3, QuietOthers DEF IInv, AgentTypes
  <2>7. IInv' /\ (DoneInv => DoneInv')
    BY <1>1, <1>3, <2>1, <2>3, <2>5, <2>6, MainKeeps
  <2>8. \A r \in Ids : Pending(r)' =>
          r \in activeEvents' \/ (Pending(r) /\ (r \in activeEvents => r \in activeEvents'))
    BY <1>2, <2>3 DEF Pending
  <2>9. TrackInv => TrackInv'
    BY <1>1, <2>1, <2>8, TrackKeeps
  <2> QED
    BY <2>3, <2>6, <2>7, <2>9, QuietChecks
<1>4. CASE /\ em' = waitActive(em, ids)
           /\ main' = [main EXCEPT !.pc = "wait", !.ids = ids] /\ UNCHANGED <<script, seen>>
  <2> HIDE DEF ids
  <2>1. /\ main \in Main /\ em \in Manager /\ activeEvents \in SUBSET Ids
        /\ script.errors < errorLimit
    BY <1>1 DEF IInv, MainTypes, AgentTypes, MainInv
  <2>2. main' \in Main /\ main'.pc = "wait" /\ main'.ids = ids
    BY <1>2, <1>4, <2>1 DEF Main
  <2>3. /\ em' \in Manager /\ em'.request = em.request /\ em'.response = em.response
        /\ em'.waiting = ids \ em.completed /\ em'.completed = em.completed \ ids
    <3> DEFINE w == ids \ em.completed
               k == em.completed \ ids
               b == (ids \subseteq em.completed)
    <3>1. w \in SUBSET Ids /\ k \in SUBSET Ids /\ b \in BOOLEAN
      BY <1>2, <2>1 DEF Manager
    <3>2. em' = [em EXCEPT !.waiting = w, !.completed = k, !.set = b]
      BY <1>4, <2>1 DEF waitActive, Manager
    <3> HIDE DEF w, k, b
    <3>3. /\ em' \in Manager /\ em'.request = em.request /\ em'.response = em.response
          /\ em'.waiting = w /\ em'.completed = k
      BY <2>1, <3>1, <3>2 DEF Manager
    <3> QED
      BY <3>3 DEF w, k
  <2>4. MainTypes'
    BY <1>2, <1>4, <2>1, <2>2 DEF MainTypes, IInv
  <2>5. MainInv' /\ WaitInv'
    BY <1>1, <1>4, <2>1, <2>2, <2>3 DEF MainInv, WaitInv
  <2>6. AgentsQuiet
    BY <1>2, <2>3, QuietOthers DEF IInv, AgentTypes
  <2>7. IInv'
    BY <2>4, <2>5, <2>6, QuietAgents DEF IInv, AgentsQuiet
  <2>8. ASSUME DoneInv PROVE DoneInv'
    <3>1. /\ OwnResponse'
          /\ \A r \in Ids : (Deferred(r)' <=> Deferred(r)) /\ (Over(r)' <=> Over(r))
      BY <2>6, <2>8, QuietDone DEF DoneInv
    <3>2. ASSUME NEW r \in Ids PROVE Counted(r)' /\ Promise(r)'
      <4>1. Counted(r) /\ Promise(r)
        BY <2>8 DEF DoneInv
      <4>2. Taken(r)' => r \in em.completed /\ r \in ids
        BY <2>2, <2>3 DEF Taken
      <4>3. r \in em'.completed => r \in em.completed /\ r \notin ids
        BY <2>3
      <4>4. Counted(r)'
        BY <1>4, <3>1, <4>1, <4>2, <4>3 DEF Counted
      <4>5. Promise(r)'
        BY <1>4, <2>3, <3>1, <4>1 DEF Promise
      <4> QED
        BY <4>4, <4>5
    <3> QED
      BY <3>1, <3>2 DEF DoneInv
  <2>9. ASSUME TrackInv PROVE TrackInv'
    <3>1. Arg' = Arg /\ \A r \in Ids : Pending(r)' <=> Pending(r)
      BY <1>4 DEF Arg, Pending
    <3>2. \A r \in Ids : Pending(r) => r \in activeEvents' \/ r \in ids
      BY <1>1, <1>2, <2>9 DEF TrackInv
    <3> QED
      BY <1>2, <2>2, <3>1, <3>2 DEF TrackInv
  <2> QED
    BY <1>4, <2>6, <2>7, <2>8, <2>9, QuietChecks
<1>5. CASE \E r \in Arg.ids : ~Known(r)
  BY <1>3, <1>5 DEF doWait
<1>6. CASE ~\E r \in Arg.ids : ~Known(r)
  BY <1>4, <1>6 DEF doWait
<1> QED
  BY <1>5, <1>6

(* What the wait has taken, the script has found completed; and "wait *"   *)
(* has taken all that is pending.                                          *)
LEMMA ReturnKeeps ==
  ASSUME IInv, waitReturns
  PROVE  /\ IInv' /\ (TrackInv /\ DoneInv => DoneInv') /\ (CheckInv => CheckInv')
         /\ TrackInv => TrackInv'
<1> DEFINE All(r) == Arg.ids = {} /\ em.waiting = {} /\ ~seen[r].forgotten
<1>1. /\ main.pc = "wait" /\ script.todo # <<>>
      /\ UNCHANGED <<client, reply, handler, server, disruption, proxy, habits, activeEvents>>
  BY DEF waitReturns, IInv, MainInv
<1>2. PICK ok \in BOOLEAN : Commanded(ok)
  BY DEF waitReturns
<1>3. /\ main' \in Main /\ script' \in [todo : Seq(Issued), errors : 0..errorLimit]
      /\ main'.pc # "wait" /\ MainInv'
  BY <1>1, <1>2, CommandedMain
<1>4. /\ em' \in Manager /\ em'.request = em.request /\ em'.response = em.response
      /\ em'.waiting = {} /\ em'.completed = em.completed
  <2>1. em' = [em EXCEPT !.waiting = {}] /\ em \in Manager
    BY DEF waitReturns, waitOver, IInv, AgentTypes
  <2> QED
    BY <2>1 DEF Manager
<1>5. AgentsQuiet
  BY <1>1, <1>4, QuietOthers DEF IInv, AgentTypes
<1>6. seen \in [Ids -> Seen] /\ activeEvents \in SUBSET Ids
  BY DEF IInv, MainTypes
<1>7. ASSUME NEW r \in Ids
      PROVE  /\ seen'[r] \in Seen /\ seen'[r].checked = seen[r].checked
             /\ seen'[r].promised = seen[r].promised
             /\ seen'[r].waited <=> seen[r].waited \/ Taken(r)
             /\ seen'[r].forgotten <=> seen[r].forgotten \/ r \in em.waiting
             /\ seen'[r].found <=> seen[r].found \/ (seen[r].promised /\ (Taken(r) \/ All(r)))
  <2> DEFINE w == seen[r].waited \/ Taken(r)
             g == seen[r].forgotten \/ r \in em.waiting
             f == seen[r].found \/ (seen[r].promised /\ (Taken(r) \/ All(r)))
             s == [seen[r] EXCEPT !.waited = w, !.forgotten = g, !.found = f]
  <2>1. seen[r] \in Seen /\ (Taken(r) <=> r \in main.ids \ em.waiting)
    BY <1>1, <1>6 DEF Taken
  <2>2. w \in BOOLEAN /\ g \in BOOLEAN /\ f \in BOOLEAN
    BY <2>1 DEF Seen
  <2>3. seen'[r] = s
    BY <2>1 DEF waitReturns
  <2> HIDE DEF w, g, f
  <2>4. /\ s \in Seen /\ s.checked = seen[r].checked /\ s.promised = seen[r].promised
        /\ s.waited = w /\ s.forgotten = g /\ s.found = f
    BY <2>1, <2>2 DEF Seen
  <2> HIDE DEF s
  <2> QED
    BY <2>3, <2>4 DEF w, g, f
<1>8. seen' \in [Ids -> Seen]
  BY <1>7 DEF waitReturns
<1>9. MainTypes'
  BY <1>1, <1>3, <1>6, <1>8 DEF MainTypes
<1>10. WaitInv'
  BY <1>4 DEF WaitInv
<1>11. IInv'
  BY <1>3, <1>5, <1>9, <1>10, QuietAgents DEF IInv, AgentsQuiet
<1>12. ASSUME TrackInv, NEW r \in Ids, Pending(r), All(r)
      PROVE  Taken(r)
  <2>1. r \in activeEvents \/ r \in main.ids
    BY <1>12 DEF TrackInv
  <2>2. activeEvents = {} /\ em.waiting = {}
    BY <1>1, <1>12 DEF TrackInv
  <2> QED
    BY <1>1, <2>1, <2>2 DEF Taken
<1>13. ASSUME TrackInv, DoneInv PROVE DoneInv'
  <2>1. /\ OwnResponse'
        /\ \A r \in Ids : (Deferred(r)' <=> Deferred(r)) /\ (Over(r)' <=> Over(r))
    BY <1>5, <1>13, QuietDone DEF DoneInv
  <2>2. ASSUME NEW r \in Ids PROVE Counted(r)' /\ Promise(r)'
    <3>1. Counted(r) /\ Promise(r)
      BY <1>13 DEF DoneInv
    <3>2. ~Taken(r)'
      BY <1>3 DEF Taken
    <3>3. Counted(r)'
      BY <1>4, <1>7, <2>1, <3>1, <3>2 DEF Counted
    <3>4. seen'[r].found => seen[r].found \/ (seen[r].promised /\ Taken(r))
      BY <1>7, <1>12, <1>13 DEF Pending
    <3>5. seen'[r].found => Over(r)
      BY <3>1, <3>4 DEF Counted, Promise, Deferred
    <3>6. Promise(r)'
      BY <1>4, <1>7, <2>1, <3>1, <3>5 DEF Promise
    <3> QED
      BY <3>3, <3>6
  <2> QED
    BY <2>1, <2>2 DEF DoneInv
<1>14. ASSUME TrackInv PROVE TrackInv'
  <2>1. ASSUME NEW r \in Ids, Pending(r)' PROVE r \in activeEvents'
    <3>1. Pending(r) /\ ~Taken(r) /\ r \notin em.waiting
      BY <1>7, <2>1 DEF Pending
    <3>2. r \in activeEvents \/ r \in main.ids
      BY <1>14, <3>1 DEF TrackInv
    <3> QED
      BY <1>1, <3>1, <3>2 DEF Taken
  <2> QED
    BY <1>3, <2>1 DEF TrackInv
<1>15. \A r \in Ids : seen'[r].checked = seen[r].checked
  BY <1>7
<1> QED
  BY <1>5, <1>11, <1>13, <1>14, <1>15, QuietChecks

(* request, for an id that has left no trace yet.                          *)
LEMMA RequestGoes ==
  ASSUME IInv, NEW r \in Ids, NEW f \in BOOLEAN, NEW u \in Uri, ~Known(r),
         request(addRequestEvent(em, r, f), r, u)
  PROVE  /\ em' \in Manager /\ em'.response = em.response
         /\ em'.waiting = em.waiting /\ em'.completed = em.completed
         /\ em'.request[r].fetch = f
         /\ \A q \in Ids \ {r} : /\ em'.request[q].fetch = em.request[q].fetch
                                 /\ em'.request[q].tag = em.request[q].tag
         /\ em'.request[r].tag \in {"requesting", "error"}
         /\ client' \in [Ids -> Client] /\ \A q \in Ids \ {r} : client'[q] = client[q]
         /\ client'[r].pc \in {"none", "finishRequest"}
         /\ client'[r].pc = "finishRequest" => em'.request[r].tag = "requesting"
         /\ disruption' \in Disruption
<1> DEFINE e == addRequestEvent(em, r, f)
           a == addURI(e, r, u)
<1>1. em \in Manager /\ client \in [Ids -> Client] /\ disruption \in Disruption
  BY DEF IInv, AgentTypes
<1>2. client[r].pc = "none"
  BY DEF IInv, FreshInv, Known
<1>3. /\ e \in Manager /\ e.response = em.response
      /\ e.waiting = em.waiting /\ e.completed = em.completed
      /\ e.request[r].fetch = f /\ e.request[r].tag = "requesting"
      /\ \A q \in Ids \ {r} : e.request[q] = em.request[q]
  BY <1>1, AddRequestEvent
<1>4. request(e, r, u)
  OBVIOUS
<1> HIDE DEF e
<1>5. /\ a \in Manager /\ a.response = em.response
      /\ a.waiting = em.waiting /\ a.completed = em.completed
      /\ a.request[r].fetch = f /\ a.request[r].tag = "requesting"
      /\ \A q \in Ids \ {r} : /\ a.request[q].fetch = em.request[q].fetch
                              /\ a.request[q].tag = em.request[q].tag
  BY <1>3, AddURI
<1>6. \/ em' = changeTag(a, r, "error") /\ UNCHANGED <<client, disruption>>
      \/ em' = a /\ disruption' = "none" /\ UNCHANGED client
      \/ em' = a /\ client' = [client EXCEPT ![r].pc = "finishRequest"] /\ UNCHANGED disruption
  BY <1>4 DEF request
<1> HIDE DEF a
<1>7. CASE em' = changeTag(a, r, "error") /\ UNCHANGED <<client, disruption>>
  <2>1. "error" \in Tag
    BY DEF Tag
  <2>2. /\ em' \in Manager /\ em'.response = a.response
        /\ em'.waiting = a.waiting /\ em'.completed = a.completed
        /\ \A q \in Ids : /\ em'.request[q].fetch = a.request[q].fetch
                          /\ em'.request[q].tag = IF q = r THEN "error" ELSE a.request[q].tag
    BY <1>5, <1>7, <2>1, ChangeTag
  <2> QED
    BY <1>1, <1>2, <1>5, <1>7, <2>2
<1>8. CASE em' = a /\ disruption' = "none" /\ UNCHANGED client
  BY <1>1, <1>2, <1>5, <1>8 DEF Disruption
<1>9. CASE em' = a /\ client' = [client EXCEPT ![r].pc = "finishRequest"] /\ UNCHANGED disruption
  <2>1. /\ client' \in [Ids -> Client] /\ client'[r].pc = "finishRequest"
        /\ \A q \in Ids \ {r} : client'[q] = client[q]
    <3> DEFINE c == [client[r] EXCEPT !.pc = "finishRequest"]
    <3>1. c \in Client /\ c.pc = "finishRequest"
      BY <1>1 DEF Client, ClientPC
    <3>2. client' = [client EXCEPT ![r] = c]
      BY <1>1, <1>9
    <3> HIDE DEF c
    <3> QED
      BY <1>1, <3>1, <3>2
  <2> QED
    BY <1>1, <1>5, <1>9, <2>1
<1> QED
  BY <1>6, <1>7, <1>8, <1>9

LEMMA RequestKeeps ==
  ASSUME IInv, doRequestOrFetch
  PROVE  IInv' /\ (DoneInv => DoneInv') /\ (CheckInv => CheckInv') /\ (TrackInv => TrackInv')
<1>1. /\ main.pc = "run" /\ script.todo # <<>> /\ Arg.id \in Ids /\ Arg.fetch \in BOOLEAN
      /\ Arg.uri \in Uri
  BY ArgIssued DEF doRequestOrFetch, IsCommand, Uri
<1>2. PICK r \in Ids :
        /\ main.pc = "run" /\ script.todo # <<>> /\ r = Arg.id /\ Arg.fetch \in BOOLEAN
        /\ Arg.uri \in Uri
  BY <1>1
<1>3. PICK ok \in BOOLEAN : Commanded(ok)
  BY DEF doRequestOrFetch
<1>4. /\ main' \in Main /\ script' \in [todo : Seq(Issued), errors : 0..errorLimit]
      /\ main'.pc # "wait" /\ MainInv'
  BY <1>2, <1>3, CommandedMain
<1>5. CASE ~(proxy # "none" /\ ~Known(r))
  <2>1. UNCHANGED <<agentVars, activeEvents, seen>>
    BY <1>2, <1>5 DEF doRequestOrFetch
  <2>2. AgentsQuiet
    BY <2>1, QuietOthers DEF agentVars, IInv, AgentTypes
  <2>3. MainTypes'
    BY <1>4, <2>1 DEF MainTypes, IInv
  <2>4. em' = em
    BY <2>1 DEF agentVars
  <2>5. IInv' /\ (DoneInv => DoneInv')
    BY <1>2, <1>4, <2>1, <2>2, <2>3, <2>4, MainKeeps
  <2>6. TrackInv => TrackInv'
    BY <1>2, <1>4, <2>1, TrackKeeps DEF Pending
  <2> QED
    BY <2>1, <2>2, <2>5, <2>6, QuietChecks
<1>6. CASE proxy # "none" /\ ~Known(r)
  <2>1. /\ request(addRequestEvent(em, r, Arg.fetch), r, Arg.uri)
        /\ activeEvents' = activeEvents \cup (IF disruption = "request" THEN {} ELSE {r})
        /\ seen' = [seen EXCEPT ![r].promised = Arg.fetch,
                                ![r].forgotten = (disruption = "request")]
        /\ UNCHANGED <<reply, handler, server, proxy, habits>>
    BY <1>2, <1>6 DEF doRequestOrFetch
  <2>2. /\ em' \in Manager /\ em'.response = em.response
        /\ em'.waiting = em.waiting /\ em'.completed = em.completed
        /\ em'.request[r].fetch = Arg.fetch
        /\ \A q \in Ids \ {r} : /\ em'.request[q].fetch = em.request[q].fetch
                                /\ em'.request[q].tag = em.request[q].tag
        /\ em'.request[r].tag \in {"requesting", "error"}
        /\ client' \in [Ids -> Client] /\ \A q \in Ids \ {r} : client'[q] = client[q]
        /\ client'[r].pc \in {"none", "finishRequest"}
        /\ client'[r].pc = "finishRequest" => em'.request[r].tag = "requesting"
        /\ disruption' \in Disruption
    BY <1>2, <1>6, <2>1, RequestGoes
  <2>3. client[r].pc = "none" /\ em.response[r] = NoHandler
    BY <1>2, <1>6 DEF IInv, FreshInv, Known
  <2>4. seen \in [Ids -> Seen] /\ activeEvents \in SUBSET Ids
    BY DEF IInv, MainTypes
  <2>5. /\ seen' \in [Ids -> Seen] /\ \A q \in Ids \ {r} : seen'[q] = seen[q]
        /\ seen'[r].promised = Arg.fetch /\ seen'[r].waited = seen[r].waited
        /\ seen'[r].found = seen[r].found /\ seen'[r].checked = seen[r].checked
        /\ seen'[r].forgotten <=> disruption = "request"
    <3> DEFINE g == disruption = "request"
               s == [seen[r] EXCEPT !.promised = Arg.fetch, !.forgotten = g]
    <3> HIDE DEF g
    <3>1. s \in Seen
      BY <1>2, <2>4 DEF Seen, g
    <3>2. /\ s.promised = Arg.fetch /\ s.waited = seen[r].waited
          /\ s.found = seen[r].found /\ s.checked = seen[r].checked /\ s.forgotten = g
      BY <1>2, <2>4 DEF Seen
    <3>3. seen' = [seen EXCEPT ![r] = s]
      BY <1>2, <2>1, <2>4 DEF g
    <3> HIDE DEF s
    <3> QED
      BY <1>2, <2>4, <3>1, <3>2, <3>3 DEF g
  <2>6. MainTypes' /\ AgentTypes'
    BY <1>2, <1>4, <2>1, <2>2, <2>4, <2>5 DEF MainTypes, AgentTypes, IInv
  <2>7. WaitInv'
    BY <1>2, <1>4, <2>2 DEF WaitInv, IInv
  <2>8. FreshInv'
    BY <2>1, <2>2 DEF FreshInv, IInv
  <2>9. MatchInv' /\ ReplyInv'
    BY <2>1, <2>2 DEF MatchInv, HandlerInv, ReplyInv, IInv
  <2>10. ClientInv'
    BY <2>2 DEF ClientInv, IInv
  <2>11. IInv'
    BY <1>4, <2>6, <2>7, <2>8, <2>9, <2>10 DEF IInv
  <2>12. ASSUME DoneInv PROVE DoneInv'
    <3>1. OwnResponse'
      BY <2>1, <2>12 DEF DoneInv, OwnResponse
    <3>2. ~Deferred(r) /\ ~Over(r) /\ ~Over(r)' /\ ~Deferred(r)'
      BY <1>2, <2>2, <2>3 DEF Deferred, Over
    <3>3. ASSUME NEW q \in Ids PROVE Counted(q)' /\ Promise(q)'
      <4>1. Counted(q) /\ Promise(q) /\ ~Taken(q) /\ ~Taken(q)'
        BY <1>2, <1>4, <2>12 DEF DoneInv, Taken
      <4>2. CASE q = r
        BY <2>2, <2>5, <3>2, <4>1, <4>2 DEF Counted, Promise
      <4>3. CASE q # r
        <5>1. (Deferred(q)' <=> Deferred(q)) /\ (Over(q)' <=> Over(q))
          BY <2>1, <2>2, <4>3 DEF Deferred, Over
        <5> QED
          BY <2>2, <2>5, <4>1, <4>3, <5>1 DEF Counted, Promise
      <4> QED
        BY <4>2, <4>3
    <3> QED
      BY <3>1, <3>3 DEF DoneInv
  <2>13. ASSUME CheckInv PROVE CheckInv'
    BY <2>1, <2>2, <2>3, <2>5, <2>13 DEF CheckInv, Compared, Over
  <2>14. \A q \in Ids : Pending(q)' =>
           q \in activeEvents' \/ (Pending(q) /\ (q \in activeEvents => q \in activeEvents'))
    BY <2>1, <2>5 DEF Pending
  <2>15. TrackInv => TrackInv'
    BY <1>2, <1>4, <2>14, TrackKeeps
  <2> QED
    BY <2>11, <2>12, <2>13, <2>15
<1> QED
  BY <1>5, <1>6

-----------------------------------------------------------------------------
(* The agents.  Steps in which nothing happens to a request's two threads. *)
LEMMA QuietKeeps ==
  ASSUME IInv, Ours, AgentsQuiet, em'.waiting = em.waiting, em'.completed = em.completed
  PROVE  IInv' /\ (DoneInv => DoneInv') /\ (CheckInv => CheckInv')
<1> USE DEF Ours
<1>1. IInv'
  <2>1. FreshInv' /\ MatchInv' /\ ReplyInv' /\ ClientInv'
    BY QuietAgents
  <2>2. MainTypes' /\ MainInv' /\ WaitInv'
    BY DEF IInv, MainTypes, MainInv, WaitInv
  <2> QED
    BY <2>1, <2>2 DEF IInv, AgentsQuiet
<1>2. ASSUME DoneInv PROVE DoneInv'
  <2>1. /\ OwnResponse'
        /\ \A r \in Ids : (Deferred(r)' <=> Deferred(r)) /\ (Over(r)' <=> Over(r))
    BY <1>2, QuietDone DEF DoneInv
  <2>2. \A r \in Ids : (Taken(r)' <=> Taken(r)) /\ (em'.request[r].fetch <=> em.request[r].fetch)
    BY DEF Taken, AgentsQuiet
  <2>3. ASSUME NEW r \in Ids PROVE Counted(r)' /\ Promise(r)'
    <3>1. Counted(r) /\ Promise(r)
      BY <1>2 DEF DoneInv
    <3> QED
      BY <2>1, <2>2, <3>1 DEF Counted, Promise
  <2> QED
    BY <2>1, <2>3 DEF DoneInv
<1> QED
  BY <1>1, <1>2, QuietChecks

LEMMA QuietSteps ==
  ASSUME IInv, Ours,
         \/ ServerStops \/ Crash
         \/ \E h \in Handlers : ServerAccept(h) \/ HandlerDisrupts(h) \/ HandlerReleased(h)
         \/ \E r \in Ids : Hangup(r)
  PROVE  IInv' /\ (DoneInv => DoneInv') /\ (CheckInv => CheckInv')
<1>1. AgentsQuiet /\ UNCHANGED em
  <2>1. CASE ServerStops
    BY <2>1, QuietServerStops
  <2>2. CASE Crash
    BY <2>2, QuietKilled DEF Crash, ProxyState
  <2>3. CASE \E h \in Handlers : ServerAccept(h) \/ HandlerDisrupts(h) \/ HandlerReleased(h)
    BY <2>3, QuietHandler
  <2>4. CASE \E r \in Ids : Hangup(r)
    BY <2>4, QuietHangup
  <2> QED
    BY <2>1, <2>2, <2>3, <2>4
<1> QED
  BY <1>1, QuietKeeps

LEMMA OursKeeps ==
  ASSUME IInv, Ours, em'.waiting = em.waiting
  PROVE  MainTypes' /\ MainInv' /\ ((em'.completed = em.completed) => WaitInv')
BY DEF Ours, IInv, MainTypes, MainInv, WaitInv

(* The two threads as they were, and the main thread too.                  *)
LEMMA DoneKeeps ==
  ASSUME DoneInv, Ours, OwnResponse', em'.waiting = em.waiting, em'.completed = em.completed,
         \A r \in Ids : /\ em'.request[r].fetch = em.request[r].fetch
                        /\ Deferred(r)' <=> Deferred(r)
                        /\ Over(r)' <=> Over(r)
  PROVE  DoneInv'
<1>1. ASSUME NEW r \in Ids PROVE Counted(r)' /\ Promise(r)'
  <2>1. Counted(r) /\ Promise(r) /\ (Taken(r)' <=> Taken(r)) /\ UNCHANGED seen
    BY DEF DoneInv, Taken, Ours
  <2> QED
    BY <2>1 DEF Counted, Promise
<1> QED
  BY <1>1 DEF DoneInv

LEMMA ForwardKeeps ==
  ASSUME IInv, Ours, NEW r \in Ids, NEW h \in Handlers, Forward(r, h)
  PROVE  /\ IInv' /\ (HeadersTogether /\ DoneInv => DoneInv')
         /\ CheckInv => CheckInv'
<1>1. PICK m \in habits.messages :
        handler' = [handler EXCEPT ![h] =
                      [NewHandler EXCEPT !.pc = "queued", !.from = r, !.msg = m]]
  BY DEF Forward
<1> DEFINE n == [NewHandler EXCEPT !.pc = "queued", !.from = r, !.msg = m]
<1>2. /\ UNCHANGED <<em, client, reply, server, disruption, proxy, habits>>
      /\ handler[h].pc = "none" /\ client[r].pc # "none"
  BY DEF Forward, Serving, Open, NoSocket
<1>3. m \in Message /\ (HeadersTogether => (m.kind # "none" /\ m.response => m.id))
  <2>1. PICK c \in Cases : habits = c.proxy
    BY DEF IInv, AgentTypes
  <2> QED
    BY <2>1, <1>1 DEF Message, HeadersTogether
<1>4. n \in Handler
  BY <1>3 DEF NewHandler, Handler, HandlerPC
<1>5. n.pc = "queued" /\ n.from = r /\ n.msg = m /\ n.id = "none"
  BY DEF NewHandler
<1>6. handler' = [handler EXCEPT ![h] = n] /\ handler \in [Handlers -> Handler]
  BY <1>1 DEF IInv, AgentTypes
<1> HIDE DEF n
<1>7. /\ handler' \in [Handlers -> Handler] /\ handler'[h] = n
      /\ \A g \in Handlers \ {h} : handler'[g] = handler[g]
  BY <1>4, <1>6
<1>8. handler[h].id = "none"
  BY <1>2 DEF IInv, MatchInv, HandlerInv
<1>9. \A q \in Ids : em.response[q] # NoHandler => em.response[q] \in Handlers \ {h}
  BY <1>8, IdsAssumption DEF IInv, MatchInv, AgentTypes, Manager
<1>10. IInv'
  <2>1. AgentTypes'
    BY <1>2, <1>7 DEF IInv, AgentTypes
  <2>2. MainTypes' /\ MainInv' /\ WaitInv'
    BY <1>2, OursKeeps
  <2>3. FreshInv'
    BY <1>2, <1>5, <1>7 DEF IInv, FreshInv
  <2>4. MatchInv'
    <3>1. ASSUME NEW g \in Handlers PROVE HandlerInv(g)'
      BY <1>2, <1>5, <1>7 DEF IInv, MatchInv, HandlerInv
    <3>2. \A q \in Ids : em'.response[q] # NoHandler => handler'[em'.response[q]].id = q
      BY <1>2, <1>7, <1>9 DEF IInv, MatchInv
    <3> QED
      BY <3>1, <3>2 DEF MatchInv
  <2>5. ReplyInv' /\ ClientInv'
    BY <1>2 DEF IInv, ReplyInv, ClientInv
  <2> QED
    BY <2>1, <2>2, <2>3, <2>4, <2>5 DEF IInv
<1>11. ASSUME HeadersTogether, DoneInv PROVE DoneInv'
  <2>1. OwnResponse'
    BY <1>3, <1>5, <1>7, <1>11 DEF DoneInv, OwnResponse
  <2>2. \A q \in Ids : (Deferred(q)' <=> Deferred(q)) /\ (Over(q)' <=> Over(q))
    BY <1>2, <1>7, <1>9 DEF Deferred, Over
  <2> QED
    BY <1>2, <1>11, <2>1, <2>2, DoneKeeps
<1>12. ASSUME CheckInv PROVE CheckInv'
  BY <1>2, <1>12 DEF CheckInv, Compared, Over, Ours
<1> QED
  BY <1>10, <1>11, <1>12

(* The proxy answers a client that still listens.                          *)
LEMMA AnswerKeeps ==
  ASSUME IInv, Ours, NEW r \in Ids, Answer(r) \/ AnswerBody(r)
  PROVE  IInv' /\ (DoneInv => DoneInv') /\ (CheckInv => CheckInv')
<1>1. /\ UNCHANGED <<em, client, handler, server, disruption, proxy, habits>>
      /\ client[r].pc \notin {"finished", "done"}
  BY DEF Answer, AnswerBody, Open, NoSocket
<1>2. reply \in [Ids -> Reply]
  BY DEF IInv, AgentTypes
<1>3. PICK n \in Reply : reply' = [reply EXCEPT ![r] = n] /\ n.status \in Verdict
  <2>1. CASE Answer(r)
    <3>1. PICK h \in Handlers, body \in habits.bodies :
            /\ Serving(h, "sent")
            /\ reply' = [reply EXCEPT ![r] = [status |-> handler[h].tag, body |-> body,
                                              level |-> 1, closed |-> FALSE]]
      BY <2>1 DEF Answer
    <3>2. handler[h].tag \in Verdict
      BY <3>1 DEF IInv, MatchInv, HandlerInv, Serving
    <3>3. body \in Body
      BY <3>1 DEF IInv, AgentTypes, Body
    <3> DEFINE n == [status |-> handler[h].tag, body |-> body, level |-> 1, closed |-> FALSE]
    <3>4. n \in Reply /\ n.status \in Verdict
      BY <3>2, <3>3 DEF Reply
    <3>5. reply' = [reply EXCEPT ![r] = n]
      BY <3>1
    <3> HIDE DEF n
    <3> QED
      BY <3>4, <3>5
  <2>2. CASE AnswerBody(r)
    <3> DEFINE n == [reply[r] EXCEPT !.level = 2]
    <3>1. reply[r] \in Reply /\ reply[r].status \in Verdict
      BY <1>2, <2>2 DEF AnswerBody, IInv, ReplyInv
    <3>2. n \in Reply /\ n.status \in Verdict
      BY <3>1 DEF Reply
    <3>3. reply' = [reply EXCEPT ![r] = n]
      BY <1>2, <2>2 DEF AnswerBody
    <3> HIDE DEF n
    <3> QED
      BY <3>2, <3>3
  <2> QED
    BY <2>1, <2>2
<1>4. /\ reply' \in [Ids -> Reply] /\ reply'[r].status \in Verdict
      /\ \A q \in Ids \ {r} : reply'[q] = reply[q]
  BY <1>2, <1>3
<1>5. IInv'
  <2>1. AgentTypes' /\ MainTypes' /\ MainInv' /\ WaitInv'
    BY <1>1, <1>4, OursKeeps DEF IInv, AgentTypes
  <2>2. FreshInv' /\ ClientInv'
    BY <1>1 DEF IInv, FreshInv, ClientInv
  <2>3. MatchInv'
    BY <1>1 DEF IInv, MatchInv, HandlerInv
  <2>4. ReplyInv'
    BY <1>4 DEF IInv, ReplyInv
  <2> QED
    BY <2>1, <2>2, <2>3, <2>4 DEF IInv
<1>6. ASSUME DoneInv PROVE DoneInv'
  <2>1. OwnResponse' /\ \A q \in Ids : (Deferred(q)' <=> Deferred(q)) /\ (Over(q)' <=> Over(q))
    BY <1>1, <1>6 DEF DoneInv, OwnResponse, Deferred, Over
  <2> QED
    BY <1>1, <1>6, <2>1, DoneKeeps
<1>7. ASSUME CheckInv PROVE CheckInv'
  BY <1>1, <1>4, <1>7 DEF CheckInv, Compared, Over, Ours
<1> QED
  BY <1>5, <1>6, <1>7

(* The client's thread goes to p and leaves its event with the tag t.      *)
LEMMA ClientGoesKeeps ==
  ASSUME IInv, Ours, NEW r \in Ids, client[r].pc \notin {"none", "finished", "panic", "done"},
         NEW p \in {"status", "header", "body", "finished", "panic"}, ClientGoes(r, p),
         NEW t \in Tag \ {"none"},
         em' = changeTag(em, r, t) \/ (em' = em /\ em.request[r].tag = t),
         p = "status" => t = "requesting", p = "body" => t = "reading",
         UNCHANGED <<reply, handler, server, proxy, habits>>, disruption' \in Disruption
  PROVE  /\ IInv' /\ (DoneInv => DoneInv')
         /\ (p = "finished" /\ t = "ok" => reply[r].status = "ok" /\ reply[r].body = "same")
              => (CheckInv => CheckInv')
<1>1. em \in Manager /\ client \in [Ids -> Client]
  BY DEF IInv, AgentTypes
<1>2. /\ em' \in Manager /\ em'.response = em.response
      /\ em'.waiting = em.waiting /\ em'.completed = em.completed
      /\ \A q \in Ids : /\ em'.request[q].fetch = em.request[q].fetch
                        /\ em'.request[q].tag = IF q = r THEN t ELSE em.request[q].tag
  <2>1. CASE em' = changeTag(em, r, t)
    BY <1>1, <2>1, ChangeTag
  <2>2. CASE em' = em /\ em.request[r].tag = t
    BY <1>1, <2>2
  <2> QED
    BY <2>1, <2>2
<1>3. /\ client' \in [Ids -> Client] /\ client'[r].pc = p
      /\ \A q \in Ids \ {r} : client'[q] = client[q]
  <2> DEFINE c == [client[r] EXCEPT !.pc = p]
  <2>1. c \in Client /\ c.pc = p
    BY <1>1 DEF Client, ClientPC
  <2>2. client' = [client EXCEPT ![r] = c]
    BY <1>1 DEF ClientGoes
  <2> HIDE DEF c
  <2> QED
    BY <1>1, <2>1, <2>2
<1>4. IInv'
  <2>1. AgentTypes' /\ MainTypes' /\ MainInv' /\ WaitInv'
    BY <1>2, <1>3, OursKeeps DEF IInv, AgentTypes
  <2>2. FreshInv'
    BY <1>2, <1>3 DEF IInv, FreshInv
  <2>3. MatchInv'
    BY <1>2 DEF IInv, MatchInv, HandlerInv
  <2>4. ReplyInv' /\ ClientInv'
    BY <1>2, <1>3 DEF IInv, ReplyInv, ClientInv
  <2> QED
    BY <2>1, <2>2, <2>3, <2>4 DEF IInv
<1>5. ASSUME DoneInv PROVE DoneInv'
  <2>1. OwnResponse' /\ \A q \in Ids : (Deferred(q)' <=> Deferred(q)) /\ (Over(q)' <=> Over(q))
    BY <1>2, <1>3, <1>5 DEF DoneInv, OwnResponse, Deferred, Over
  <2> QED
    BY <1>2, <1>5, <2>1, DoneKeeps
<1>6. ASSUME CheckInv,
             p = "finished" /\ t = "ok" => reply[r].status = "ok" /\ reply[r].body = "same"
      PROVE  CheckInv'
  BY <1>2, <1>3, <1>6 DEF CheckInv, Compared, Over, Ours
<1> QED
  BY <1>4, <1>5, <1>6

LEMMA ClientKeeps ==
  ASSUME IInv, Ours, NEW r \in Ids,
         ClientDisrupts(r) \/ ReadStatus(r) \/ ReadHeader(r) \/ ReadBody(r)
  PROVE  IInv' /\ (DoneInv => DoneInv') /\ (SameHost /\ CheckInv => CheckInv')
<1>1. /\ disruption \in Disruption
      /\ client[r].pc \in {"finishRequest", "status"} => em.request[r].tag = "requesting"
      /\ client[r].pc = "body" => em.request[r].tag = "reading"
      /\ reply[r].level >= 1 => reply[r].status \in Verdict
      /\ {"requesting", "error", "reading"} \cup Verdict \subseteq Tag \ {"none"}
  BY DEF IInv, AgentTypes, ClientInv, ReplyInv, Tag, Verdict
<1>2. ASSUME Fails(r), client[r].pc \notin {"none", "finished", "panic", "done"},
             UNCHANGED <<reply, handler, server, disruption, proxy, habits>>
      PROVE  IInv' /\ (DoneInv => DoneInv') /\ (CheckInv => CheckInv')
  BY <1>1, <1>2, ClientGoesKeeps DEF Fails
<1>3. CASE ClientDisrupts(r)
  <2>1. /\ client[r].pc = "finishRequest" /\ disruption' \in Disruption
        /\ UNCHANGED <<em, reply, handler, server, proxy, habits>>
        /\ ClientGoes(r, "finished") \/ ClientGoes(r, "status")
    BY <1>1, <1>3 DEF ClientDisrupts, At, Disruption
  <2> QED
    BY <1>1, <2>1, ClientGoesKeeps
<1>4. CASE ReadStatus(r)
  <2>1. /\ client[r].pc = "status"
        /\ UNCHANGED <<reply, handler, server, disruption, proxy, habits>>
        /\ \/ /\ reply[r].level >= 1 /\ ClientGoes(r, "header")
              /\ em' = changeTag(em, r, reply[r].status)
           \/ Fails(r)
    BY <1>4 DEF ReadStatus, At
  <2> QED
    BY <1>1, <1>2, <2>1, ClientGoesKeeps
<1>5. CASE ReadHeader(r)
  <2>1. /\ client[r].pc = "header"
        /\ UNCHANGED <<reply, handler, server, disruption, proxy, habits>>
        /\ \/ ClientGoes(r, "body") /\ em' = changeTag(em, r, "reading")
           \/ Fails(r)
    BY <1>5 DEF ReadHeader, At
  <2> QED
    BY <1>1, <1>2, <2>1, ClientGoesKeeps
<1>6. CASE ReadBody(r)
  <2>1. /\ client[r].pc = "body"
        /\ UNCHANGED <<reply, handler, server, disruption, proxy, habits>>
    BY <1>6 DEF ReadBody, At
  <2>2. CASE Fails(r)
    BY <1>2, <2>1, <2>2
  <2>3. CASE (ClientGoes(r, "finished") \/ ClientGoes(r, "panic")) /\ UNCHANGED em
    BY <1>1, <2>1, <2>3, ClientGoesKeeps
  <2>4. CASE /\ reply[r].level = 2 /\ ~Mismatch(r)
             /\ ClientGoes(r, "finished") /\ em' = changeTag(em, r, reply[r].status)
    <3>1. SameHost /\ reply[r].status = "ok" => reply[r].body = "same"
      BY <2>4 DEF Mismatch
    <3>2. reply[r].status \in Tag \ {"none"}
      BY <1>1, <2>4
    <3> QED
      BY <1>1, <2>1, <2>4, <3>1, <3>2, ClientGoesKeeps
  <2> QED
    BY <1>6, <2>2, <2>3, <2>4 DEF ReadBody
<1> QED
  BY <1>3, <1>4, <1>5, <1>6

(* A thread that completes a request is the first there or the second.     *)
LEMMA CompletesKeeps ==
  ASSUME IInv, DoneInv, Ours, OwnResponse', NEW r \in Ids, em' = addCompleted(em, r),
         \A q \in Ids \ {r} : (Deferred(q)' <=> Deferred(q)) /\ (Over(q)' <=> Over(q)),
         \/ Over(r)' /\ ~Over(r) /\ (Deferred(r)' <=> Deferred(r))
         \/ Deferred(r)' /\ ~Deferred(r) /\ (Over(r)' <=> Over(r))
  PROVE  DoneInv'
<1>1. /\ em \in Manager /\ em.waiting \cap em.completed = {}
      /\ main.pc # "wait" => em.waiting = {}
      /\ em.waiting \subseteq main.ids
  BY DEF IInv, AgentTypes, WaitInv
<1>2. /\ em' \in Manager /\ em'.request = em.request /\ em'.response = em.response
      /\ r \in em.waiting => em'.waiting = em.waiting \ {r} /\ em'.completed = em.completed
      /\ r \notin em.waiting =>
           em'.waiting = em.waiting /\ em'.completed = em.completed \cup {r}
  BY <1>1, AddCompleted
<1>3. UNCHANGED <<main, seen>>
  BY DEF Ours
<1>4. ASSUME NEW q \in Ids \ {r} PROVE Counted(q)' /\ Promise(q)'
  <2>1. Counted(q) /\ Promise(q)
    BY DEF DoneInv
  <2>2. (Taken(q)' <=> Taken(q)) /\ (q \in em'.completed <=> q \in em.completed)
    BY <1>2, <1>3 DEF Taken
  <2> QED
    BY <1>2, <1>3, <2>1, <2>2 DEF Counted, Promise
<1>5. Counted(r)' /\ Promise(r)'
  <2>1. Counted(r) /\ Promise(r)
    BY DEF DoneInv
  <2>2. (Deferred(r) => Deferred(r)') /\ (Over(r) => Over(r)')
    OBVIOUS
  <2>3. (Deferred(r) \/ Over(r) => Deferred(r)' /\ Over(r)') /\ (Deferred(r)' \/ Over(r)')
    OBVIOUS
  <2>4. Promise(r)'
    BY <1>2, <1>3, <2>1, <2>2 DEF Promise
  <2>5. CASE r \in em.waiting
    <3>1. r \notin em.completed /\ r \notin em'.completed /\ ~Taken(r)
      BY <1>1, <1>2, <2>5 DEF Taken
    <3> QED
      BY <1>3, <2>1, <2>3, <2>4, <3>1 DEF Counted
  <2>6. CASE r \notin em.waiting
    <3>1. Taken(r)' <=> Taken(r)
      BY <1>2, <1>3, <2>6 DEF Taken
    <3> QED
      BY <1>3, <2>1, <2>3, <2>4, <3>1 DEF Counted
  <2> QED
    BY <2>5, <2>6
<1> QED
  BY <1>4, <1>5 DEF DoneInv

LEMMA FinishedKeeps ==
  ASSUME IInv, Ours, NEW r \in Ids, Finished(r)
  PROVE  IInv' /\ (DoneInv => DoneInv') /\ (CheckInv => CheckInv')
<1>1. /\ client[r].pc = "finished" /\ ClientGoes(r, "done") /\ em' = addCompleted(em, r)
      /\ UNCHANGED <<reply, handler, server, disruption, proxy, habits>>
  BY DEF Finished, At
<1>2. /\ em \in Manager /\ client \in [Ids -> Client] /\ em.waiting \cap em.completed = {}
  BY DEF IInv, AgentTypes, WaitInv
<1>3. /\ em' \in Manager /\ em'.request = em.request /\ em'.response = em.response
      /\ r \in em.waiting => em'.waiting = em.waiting \ {r} /\ em'.completed = em.completed
      /\ r \notin em.waiting =>
           em'.waiting = em.waiting /\ em'.completed = em.completed \cup {r}
  BY <1>1, <1>2, AddCompleted
<1>4. /\ client' \in [Ids -> Client] /\ client'[r].pc = "done"
      /\ \A q \in Ids \ {r} : client'[q] = client[q]
  <2> DEFINE c == [client[r] EXCEPT !.pc = "done"]
  <2>1. c \in Client /\ c.pc = "done"
    BY <1>2 DEF Client, ClientPC
  <2>2. client' = [client EXCEPT ![r] = c]
    BY <1>1, <1>2 DEF ClientGoes
  <2> HIDE DEF c
  <2> QED
    BY <1>2, <2>1, <2>2
<1>5. IInv'
  <2>1. AgentTypes' /\ MainTypes' /\ MainInv'
    BY <1>1, <1>3, <1>4 DEF IInv, AgentTypes, MainTypes, MainInv, Ours
  <2>2. WaitInv'
    BY <1>3 DEF IInv, WaitInv, Ours
  <2>3. FreshInv'
    BY <1>1, <1>3, <1>4 DEF IInv, FreshInv
  <2>4. MatchInv'
    BY <1>1, <1>3 DEF IInv, MatchInv, HandlerInv
  <2>5. ReplyInv' /\ ClientInv'
    BY <1>1, <1>3, <1>4 DEF IInv, ReplyInv, ClientInv
  <2> QED
    BY <2>1, <2>2, <2>3, <2>4, <2>5 DEF IInv
<1>6. ASSUME DoneInv PROVE DoneInv'
  <2>1. OwnResponse' /\ \A q \in Ids : Deferred(q)' <=> Deferred(q)
    BY <1>1, <1>3, <1>6 DEF DoneInv, OwnResponse, Deferred
  <2>2. ~Over(r) /\ Over(r)' /\ \A q \in Ids \ {r} : Over(q)' <=> Over(q)
    BY <1>1, <1>4 DEF Over
  <2> QED
    BY <1>1, <1>6, <2>1, <2>2, CompletesKeeps
<1>7. ASSUME CheckInv PROVE CheckInv'
  BY <1>1, <1>3, <1>4, <1>7 DEF CheckInv, Compared, Over, Ours
<1> QED
  BY <1>5, <1>6, <1>7

(* The verdict of the server, and a response that is deferred or not.      *)
LEMMA ActionKeeps ==
  ASSUME IInv, Ours, NEW h \in Handlers, Action(h)
  PROVE  IInv' /\ (DoneInv => DoneInv') /\ (CheckInv => CheckInv')
<1> DEFINE fetches(r) == em.request[r].fetch
<1>1. PICK now \in BOOLEAN :
        /\ now <=> IF handler[h].msg.response THEN fetches(handler[h].from)
                   ELSE handler[h].id # "none" /\ fetches(handler[h].id)
        /\ handler' = [handler EXCEPT
             ![h].pc = "wait", ![h].released = @ \/ now,
             ![h].tag = RequestTag(handler[h].msg, em.request[handler[h].from].uri)]
        /\ em' = IF now \/ handler[h].id = "none" THEN em ELSE addCompleted(em, handler[h].id)
  <2>1. CASE handler[h].msg.response
    <3>1. handler[h].from \in Ids
      BY DEF Action, Serving, IInv, MatchInv, HandlerInv
    <3>2. fetches(handler[h].from) \in BOOLEAN
      BY <3>1 DEF IInv, AgentTypes, Manager, RequestEvent
    <3> QED
      BY <2>1, <3>2 DEF Action
  <2>2. CASE ~handler[h].msg.response
    BY <2>2 DEF Action
  <2> QED
    BY <2>1, <2>2
<1>2. /\ handler[h].pc = "action" /\ handler[h].from \in Ids
      /\ UNCHANGED <<client, reply, server, disruption, proxy, habits>>
  BY DEF Action, Serving, IInv, MatchInv, HandlerInv
<1>3. handler \in [Handlers -> Handler] /\ em \in Manager
  BY DEF IInv, AgentTypes
<1>4. PICK n \in Handler :
        /\ handler' = [handler EXCEPT ![h] = n]
        /\ n.pc = "wait" /\ n.tag \in Verdict /\ n.from = handler[h].from
        /\ n.id = handler[h].id /\ n.msg = handler[h].msg
  <2> DEFINE v == RequestTag(handler[h].msg, em.request[handler[h].from].uri)
             b == (handler[h].released \/ now)
             n == [handler[h] EXCEPT !.pc = "wait", !.released = b, !.tag = v]
  <2>1. v \in Verdict
    BY DEF RequestTag, Verdict
  <2>2. b \in BOOLEAN
    OBVIOUS
  <2>3. handler' = [handler EXCEPT ![h] = n]
    BY <1>1, <1>3
  <2> HIDE DEF v, b
  <2>4. n \in Handler
    BY <1>3, <2>1, <2>2 DEF Handler, HandlerPC
  <2>5. /\ n.pc = "wait" /\ n.tag = v /\ n.from = handler[h].from
        /\ n.id = handler[h].id /\ n.msg = handler[h].msg
    BY <1>3 DEF Handler
  <2> HIDE DEF n
  <2> QED
    BY <2>1, <2>3, <2>4, <2>5
<1>5. /\ handler' \in [Handlers -> Handler] /\ handler'[h] = n
      /\ \A g \in Handlers \ {h} : handler'[g] = handler[g]
  BY <1>3, <1>4
<1>6. handler[h].id # "none" => handler[h].id \in Ids /\ em.response[handler[h].id] = h
  BY <1>3 DEF Handler, IInv, MatchInv, HandlerInv
<1>7. /\ em' \in Manager /\ em'.request = em.request /\ em'.response = em.response
      /\ em'.waiting \subseteq em.waiting /\ em'.waiting \cap em'.completed = {}
  <2>1. CASE em' = em
    BY <1>3, <2>1 DEF IInv, WaitInv
  <2>2. CASE em' = addCompleted(em, handler[h].id) /\ handler[h].id # "none"
    <3> DEFINE r == handler[h].id
    <3>1. em.waiting \cap em.completed = {} /\ r \in Ids
      BY <1>6, <2>2 DEF IInv, WaitInv
    <3> HIDE DEF r
    <3>2. em' = addCompleted(em, r)
      BY <2>2 DEF r
    <3>3. /\ em' \in Manager /\ em'.request = em.request /\ em'.response = em.response
          /\ r \in em.waiting => em'.waiting = em.waiting \ {r} /\ em'.completed = em.completed
          /\ r \notin em.waiting =>
               em'.waiting = em.waiting /\ em'.completed = em.completed \cup {r}
      BY <1>3, <3>1, <3>2, AddCompleted
    <3> QED
      BY <3>1, <3>3
  <2> QED
    BY <1>1, <2>1, <2>2
<1>8. IInv'
  <2>1. AgentTypes' /\ MainTypes' /\ MainInv'
    BY <1>2, <1>5, <1>7 DEF IInv, AgentTypes, MainTypes, MainInv, Ours
  <2>2. WaitInv'
    BY <1>7 DEF IInv, WaitInv, Ours
  <2>3. FreshInv'
    BY <1>2, <1>4, <1>5, <1>7 DEF IInv, FreshInv
  <2>4. ASSUME NEW g \in Handlers PROVE HandlerInv(g)'
    BY <1>2, <1>4, <1>5, <1>7 DEF IInv, MatchInv, HandlerInv
  <2>5. \A q \in Ids : em'.response[q] # NoHandler => handler'[em'.response[q]].id = q
    <3>1. \A q \in Ids : em.response[q] # NoHandler =>
            em.response[q] \in Handlers /\ handler[em.response[q]].id = q
      BY <1>3 DEF Manager, IInv, MatchInv
    <3> QED
      BY <1>4, <1>5, <1>7, <3>1
  <2>6. ReplyInv' /\ ClientInv'
    BY <1>2, <1>7 DEF IInv, ReplyInv, ClientInv
  <2> QED
    BY <2>1, <2>2, <2>3, <2>4, <2>5, <2>6 DEF IInv, MatchInv
<1>9. ASSUME DoneInv PROVE DoneInv'
  <2>1. OwnResponse'
    BY <1>4, <1>5, <1>9 DEF DoneInv, OwnResponse
  <2>2. \A q \in Ids : Over(q)' <=> Over(q)
    BY <1>2 DEF Over
  <2>3. \A q \in Ids : em.response[q] # NoHandler =>
          em.response[q] \in Handlers /\ handler[em.response[q]].id = q
    BY <1>3 DEF Manager, IInv, MatchInv
  <2>4. \A q \in Ids \ {handler[h].id} : Deferred(q)' <=> Deferred(q)
    BY <1>5, <1>7, <2>3 DEF Deferred
  <2>5. CASE handler[h].id = "none"
    <3>1. \A q \in Ids : Deferred(q)' <=> Deferred(q)
      BY <2>4, <2>5, IdsAssumption
    <3>2. em' = em
      BY <1>1, <2>5
    <3> QED
      BY <1>9, <2>1, <2>2, <3>1, <3>2, DoneKeeps
  <2>6. CASE handler[h].id # "none"
    <3>1. PICK r \in Ids : r = handler[h].id /\ em.response[r] = h
      BY <1>6, <2>6
    <3>2. ~Deferred(r)
      BY <1>2, <3>1 DEF Deferred
    <3>3. now <=> em.request[r].fetch
      <4>1. handler[h].msg.response => handler[h].from = r
        BY <1>9, <2>6, <3>1 DEF DoneInv, OwnResponse
      <4> QED
        BY <1>1, <2>6, <3>1, <4>1
    <3>4. CASE now
      <4>1. ~Deferred(r)' /\ em' = em
        BY <1>1, <1>7, <3>3, <3>4 DEF Deferred
      <4>2. \A q \in Ids : Deferred(q)' <=> Deferred(q)
        BY <2>4, <3>1, <3>2, <4>1
      <4> QED
        BY <1>9, <2>1, <2>2, <4>1, <4>2, DoneKeeps
    <3>5. CASE ~now
      <4>1. Deferred(r)'
        BY <1>4, <1>5, <1>7, <3>1, <3>3, <3>5, IdsAssumption DEF Deferred
      <4>2. em' = addCompleted(em, r)
        BY <1>1, <2>6, <3>1, <3>5
      <4> QED
        BY <1>9, <2>1, <2>2, <2>4, <3>1, <3>2, <4>1, <4>2, CompletesKeeps
    <3> QED
      BY <3>4, <3>5
  <2> QED
    BY <2>5, <2>6
<1>10. ASSUME CheckInv PROVE CheckInv'
  BY <1>2, <1>7, <1>10 DEF CheckInv, Compared, Over, Ours
<1> QED
  BY <1>8, <1>9, <1>10

(* A response that names its request, or is matched with one.              *)
LEMMA MatchedKeeps ==
  ASSUME IInv, Ours, NEW h \in Handlers, NEW r \in Ids, NEW m \in BOOLEAN,
         handler[h].pc = "getRequest", handler[h].msg.kind # "none",
         em.response[r] = NoHandler, em.request[r].tag # "none",
         em' = Matched(em, r, h, m),
         handler' = [handler EXCEPT ![h].pc = "action", ![h].id = r],
         UNCHANGED <<client, reply, server, disruption, proxy, habits>>
  PROVE  /\ IInv' /\ (CheckInv => CheckInv')
         /\ (handler[h].msg.response => r = handler[h].from) => (DoneInv => DoneInv')
<1>1. handler \in [Handlers -> Handler] /\ em \in Manager
  BY DEF IInv, AgentTypes
<1>2. /\ em' \in Manager /\ em'.waiting = em.waiting /\ em'.completed = em.completed
      /\ em'.response = [em.response EXCEPT ![r] = h]
      /\ \A q \in Ids : /\ em'.request[q].fetch = em.request[q].fetch
                        /\ em'.request[q].tag = em.request[q].tag
  BY <1>1, AddResponseEvent
<1>3. PICK n \in Handler :
        /\ handler' = [handler EXCEPT ![h] = n]
        /\ n.pc = "action" /\ n.from = handler[h].from /\ n.id = r /\ n.msg = handler[h].msg
  <2> DEFINE n == [handler[h] EXCEPT !.pc = "action", !.id = r]
  <2>1. n \in Handler
    BY <1>1 DEF Handler, HandlerPC
  <2>2. n.pc = "action" /\ n.from = handler[h].from /\ n.id = r /\ n.msg = handler[h].msg
    BY <1>1 DEF Handler
  <2>3. handler' = [handler EXCEPT ![h] = n]
    BY <1>1
  <2> HIDE DEF n
  <2> QED
    BY <2>1, <2>2, <2>3
<1>4. /\ handler' \in [Handlers -> Handler] /\ handler'[h] = n
      /\ \A g \in Handlers \ {h} : handler'[g] = handler[g]
  BY <1>1, <1>3
<1>5. /\ em'.response[r] = h /\ \A q \in Ids \ {r} : em'.response[q] = em.response[q]
  BY <1>1, <1>2 DEF Manager
<1>6. handler[h].id = "none" /\ h # NoHandler /\ r # "none"
  BY IdsAssumption DEF IInv, MatchInv, HandlerInv
<1>7. \A q \in Ids : em.response[q] # NoHandler =>
        em.response[q] \in Handlers \ {h} /\ handler[em.response[q]].id = q
  BY <1>1, <1>6, IdsAssumption DEF Manager, IInv, MatchInv
<1>8. IInv'
  <2>1. AgentTypes' /\ MainTypes' /\ MainInv' /\ WaitInv'
    BY <1>2, <1>4, OursKeeps DEF IInv, AgentTypes
  <2>2. FreshInv'
    BY <1>2, <1>3, <1>4, <1>5 DEF IInv, FreshInv
  <2>3. ASSUME NEW g \in Handlers PROVE HandlerInv(g)'
    <3>1. CASE g = h
      BY <1>1, <1>3, <1>4, <1>5, <3>1 DEF IInv, MatchInv, HandlerInv
    <3>2. CASE g # h
      <4>1. HandlerInv(g) /\ handler'[g] = handler[g] /\ g # NoHandler
        BY <1>4, <3>2, IdsAssumption DEF IInv, MatchInv
      <4>2. handler[g].id # r
        BY <1>6, <4>1 DEF HandlerInv
      <4>3. handler[g].id # "none" => handler[g].id \in Ids
        BY <1>1 DEF Handler
      <4> QED
        BY <1>5, <4>1, <4>2, <4>3 DEF HandlerInv
    <3> QED
      BY <3>1, <3>2
  <2>4. \A q \in Ids : em'.response[q] # NoHandler => handler'[em'.response[q]].id = q
    BY <1>3, <1>4, <1>5, <1>7
  <2>5. ReplyInv' /\ ClientInv'
    BY <1>2 DEF IInv, ReplyInv, ClientInv
  <2> QED
    BY <2>1, <2>2, <2>3, <2>4, <2>5 DEF IInv, MatchInv
<1>9. ASSUME DoneInv, handler[h].msg.response => r = handler[h].from PROVE DoneInv'
  <2>1. OwnResponse'
    BY <1>3, <1>4, <1>9 DEF DoneInv, OwnResponse
  <2>2. \A q \in Ids : Over(q)' <=> Over(q)
    BY DEF Over
  <2>3. ~Deferred(r) /\ ~Deferred(r)'
    BY <1>3, <1>4, <1>5 DEF Deferred
  <2>4. \A q \in Ids \ {r} : Deferred(q)' <=> Deferred(q)
    BY <1>2, <1>4, <1>5, <1>7 DEF Deferred
  <2>5. \A q \in Ids : Deferred(q)' <=> Deferred(q)
    BY <2>3, <2>4
  <2> QED
    BY <1>2, <1>9, <2>1, <2>2, <2>5, DoneKeeps
<1>10. ASSUME CheckInv PROVE CheckInv'
  BY <1>2, <1>10 DEF CheckInv, Compared, Over, Ours
<1> QED
  BY <1>8, <1>9, <1>10

(* A response that nobody will ask for: no event, one of its own, or a     *)
(* request that has had one.                                               *)
LEMMA UnmatchedKeeps ==
  ASSUME IInv, Ours, NEW h \in Handlers, handler[h].pc = "getRequest",
         \/ em' = em /\ HandlerGoes(h, "closed")
         \/ em' = addOwnResponse(em, h) /\ HandlerGoes(h, "action")
         \/ /\ \E r \in Ids : em' = [em EXCEPT !.request[r].hasMatch = TRUE]
            /\ HandlerGoes(h, "panic"),
         handler[h].msg.kind # "none",
         UNCHANGED <<client, reply, server, disruption, proxy, habits>>
  PROVE  IInv' /\ (DoneInv => DoneInv') /\ (CheckInv => CheckInv')
<1>1. em \in Manager
  BY DEF IInv, AgentTypes
<1>2. PICK pc \in {"closed", "action", "panic"} : HandlerGoes(h, pc)
  OBVIOUS
<1>3. /\ handler' \in [Handlers -> Handler]
      /\ \A g \in Handlers \ {h} : handler'[g] = handler[g]
      /\ handler'[h].pc = pc
      /\ handler'[h].from = handler[h].from /\ handler'[h].id = handler[h].id
      /\ handler'[h].tag = handler[h].tag /\ handler'[h].msg = handler[h].msg
  BY <1>2, HandlerGoesType DEF HandlerPC
<1>4. /\ em' \in Manager /\ em'.response = em.response
      /\ em'.waiting = em.waiting /\ em'.completed = em.completed
      /\ \A q \in Ids : /\ em'.request[q].fetch = em.request[q].fetch
                        /\ em'.request[q].tag = em.request[q].tag
  <2>1. CASE em' = em
    BY <1>1, <2>1
  <2>2. CASE em' = addOwnResponse(em, h)
    BY <1>1, <2>2, AddOwnResponse
  <2>3. CASE \E r \in Ids : em' = [em EXCEPT !.request[r].hasMatch = TRUE]
    <3>1. PICK r \in Ids : em' = [em EXCEPT !.request[r].hasMatch = TRUE]
      BY <2>3
    <3> DEFINE v == [em.request EXCEPT ![r].hasMatch = TRUE]
    <3>2. em.request \in [Ids -> RequestEvent]
      BY <1>1 DEF Manager
    <3>3. \A q \in Ids : /\ v[q].fetch = em.request[q].fetch
                         /\ v[q].tag = em.request[q].tag
      BY <3>2 DEF RequestEvent
    <3>4. v \in [Ids -> RequestEvent]
      <4>1. [em.request[r] EXCEPT !.hasMatch = TRUE] \in RequestEvent
        BY <3>2 DEF RequestEvent
      <4> QED
        BY <3>2, <4>1
    <3>5. em' = [em EXCEPT !.request = v]
      BY <1>1, <3>1 DEF Manager
    <3> HIDE DEF v
    <3> QED
      BY <1>1, <3>3, <3>4, <3>5 DEF Manager
  <2> QED
    BY <2>1, <2>2, <2>3
<1>5. \A g \in Handlers : HandlerInv(g)
  BY DEF IInv, MatchInv
<1>6. ASSUME NEW g \in Handlers PROVE Moves(handler[g], handler'[g])
  <2>1. CASE g = h
    BY <1>2, <1>3, <1>5, <2>1 DEF Moves, HandlerInv
  <2>2. CASE g # h
    BY <1>3, <1>5, <2>2 DEF Moves, HandlerInv
  <2> QED
    BY <2>1, <2>2
<1>7. AgentsQuiet
  BY <1>3, <1>4, <1>6 DEF AgentsQuiet, IInv, AgentTypes
<1> QED
  BY <1>4, <1>7, QuietKeeps

LEMMA GetRequestKeeps ==
  ASSUME IInv, Ours, NEW h \in Handlers, GetRequest(h)
  PROVE  IInv' /\ (DoneInv => DoneInv') /\ (CheckInv => CheckInv')
<1> DEFINE msg == handler[h].msg
           byUri == IF msg.kind = "empty" \/ msg.line = "url" THEN {}
                    ELSE Unmatched(em, em.request[handler[h].from].uri)
           named == msg.id /\ em.response[handler[h].from] = NoHandler
           match == IF msg.id THEN handler[h].from ELSE Oldest(em, byUri)[2]
<1>1. /\ handler[h].pc = "getRequest" /\ msg.kind # "none"
      /\ UNCHANGED <<client, reply, server, disruption, proxy, habits>>
  BY DEF GetRequest, Serving
<1>2. handler[h].from \in Ids /\ em \in Manager
  BY <1>1 DEF IInv, MatchInv, HandlerInv, AgentTypes
<1>3. \/ ~em.running /\ HandlerGoes(h, "closed") /\ UNCHANGED em
      \/ /\ named \/ (~msg.id /\ byUri # {})
         /\ IF em.response[match] = NoHandler
            THEN /\ em' = [addResponseEvent(em, match, h) EXCEPT !.request[match].hasMatch = @ \/ ~named]
                 /\ handler' = [handler EXCEPT ![h].pc = "action", ![h].id = match]
            ELSE /\ em' = [em EXCEPT !.request[match].hasMatch = TRUE]
                 /\ HandlerGoes(h, "panic")
      \/ em' = addOwnResponse(em, h) /\ HandlerGoes(h, "action")
  BY DEF GetRequest, AddEvent
<1>4. CASE \/ ~em.running /\ HandlerGoes(h, "closed") /\ UNCHANGED em
           \/ em' = addOwnResponse(em, h) /\ HandlerGoes(h, "action")
  BY <1>1, <1>4, UnmatchedKeeps
<1>5. CASE named \/ (~msg.id /\ byUri # {})
  <2>1. /\ match \in Ids /\ em.request[match].tag # "none"
        /\ msg.id => match = handler[h].from
    <3>1. CASE msg.id
      BY <1>2, <3>1 DEF IInv, FreshInv
    <3>2. CASE ~msg.id
      <4>1. byUri # {} /\ match = Oldest(em, byUri)[2]
        BY <1>5, <3>2
      <4>2. byUri = Unmatched(em, em.request[handler[h].from].uri)
        BY <4>1
      <4> QED
        BY <1>2, <3>2, <4>1, <4>2, OldestMatch
    <3> QED
      BY <3>1, <3>2
  <2>2. PICK r \in Ids : r = match
    BY <2>1
  <2>3. PICK b \in BOOLEAN : b <=> ~named
    OBVIOUS
  <2> HIDE DEF match, named, byUri
  <2>4. CASE /\ em.response[r] = NoHandler
             /\ em' = [addResponseEvent(em, r, h) EXCEPT !.request[r].hasMatch = @ \/ ~named]
             /\ handler' = [handler EXCEPT ![h].pc = "action", ![h].id = r]
    <3> DEFINE m == (addResponseEvent(em, r, h).request[r].hasMatch \/ ~named)
    <3>1. m \in BOOLEAN
      OBVIOUS
    <3>2. em' = Matched(em, r, h, m)
      BY <2>4 DEF Matched
    <3> HIDE DEF m
    <3>3. ASSUME DoneInv PROVE handler[h].msg.response => r = handler[h].from
      BY <1>1, <2>1, <2>2, <3>3 DEF DoneInv, OwnResponse
    <3> QED
      BY <1>1, <2>1, <2>2, <2>4, <3>1, <3>2, <3>3, MatchedKeeps
  <2>5. CASE em' = [em EXCEPT !.request[r].hasMatch = TRUE] /\ HandlerGoes(h, "panic")
    BY <1>1, <2>5, UnmatchedKeeps
  <2> QED
    BY <1>3, <1>4, <2>2, <2>4, <2>5
<1> QED
  BY <1>3, <1>4, <1>5

-----------------------------------------------------------------------------
LEMMA InitHolds ==
  ASSUME Init
  PROVE  IInv /\ DoneInv /\ TrackInv /\ CheckInv
<1> USE DEF Init, AgentsInit, EventManagerInit
<1>1. AgentTypes
  <2>1. NoEvent \in RequestEvent
    BY DEF NoEvent, RequestEvent, Tag, Uri
  <2>2. em \in Manager
    BY <2>1 DEF Manager
  <2>3. NoClient \in Client /\ NoReply \in Reply
    BY DEF NoClient, Client, ClientPC, NoReply, Reply, Body
  <2>4. NewHandler \in Handler
    BY DEF NewHandler, Handler, HandlerPC, Message
  <2>5. server \in Server /\ disruption \in Disruption /\ proxy \in ProxyState
    BY DEF Server, Disruption, ProxyState
  <2>6. client \in [Ids -> Client] /\ reply \in [Ids -> Reply] /\ handler \in [Handlers -> Handler]
    BY <2>3, <2>4
  <2>7. habits \in {c.proxy : c \in Cases}
    OBVIOUS
  <2> QED
    BY <2>2, <2>5, <2>6, <2>7 DEF AgentTypes
<1>2. MainTypes /\ MainInv
  <2>1. main \in Main /\ main.pc = "run"
    BY DEF Main
  <2>2. PICK c \in Cases : script = [todo |-> c.script, errors |-> 0]
    OBVIOUS
  <2>3. script \in [todo : Seq(Issued), errors : 0..errorLimit] /\ script.errors = 0
    BY <2>2, CasesAssumption, ErrorLimitAssumption
  <2>4. seen \in [Ids -> Seen]
    BY DEF NotSeen, Seen
  <2> QED
    BY <2>1, <2>3, <2>4, ErrorLimitAssumption DEF MainTypes, MainInv
<1>3. WaitInv
  BY DEF WaitInv
<1>4. /\ \A r \in Ids : em.response[r] = NoHandler /\ em.request[r].tag = "none"
      /\ \A r \in Ids : client[r].pc = "none" /\ reply[r].level = 0
      /\ \A h \in Handlers : /\ handler[h].pc = "none" /\ handler[h].from = "none"
                             /\ handler[h].id = "none" /\ handler[h].msg = NoMessage
      /\ \A r \in Ids : ~seen[r].waited /\ ~seen[r].promised /\ ~seen[r].found /\ ~seen[r].checked
      /\ em.completed = {} /\ main.pc = "run"
  BY DEF NoEvent, NoClient, NoReply, NewHandler, NotSeen
<1>5. FreshInv
  BY <1>4, IdsAssumption DEF FreshInv
<1>6. MatchInv
  BY <1>4 DEF MatchInv, HandlerInv
<1>7. ReplyInv /\ ClientInv
  BY <1>4 DEF ReplyInv, ClientInv
<1>8. DoneInv
  <2>1. OwnResponse
    BY <1>4 DEF OwnResponse, NoMessage
  <2>2. \A r \in Ids : Counted(r) /\ Promise(r)
    BY <1>4 DEF Counted, Promise, Taken
  <2> QED
    BY <2>1, <2>2 DEF DoneInv
<1>9. TrackInv
  BY <1>4 DEF TrackInv, Pending
<1>10. CheckInv
  BY <1>4 DEF CheckInv, Compared
<1> QED
  BY <1>1, <1>2, <1>3, <1>5, <1>6, <1>7, <1>8, <1>9, <1>10 DEF IInv

LEMMA OursTrack ==
  ASSUME Ours, TrackInv
  PROVE  TrackInv'
BY DEF Ours, TrackInv, Pending, Arg

LEMMA NextKeeps ==
  ASSUME IInv, Next
  PROVE  /\ IInv' /\ (TrackInv => TrackInv')
         /\ HeadersTogether /\ TrackInv /\ DoneInv => DoneInv'
         /\ SameHost /\ DoneInv /\ CheckInv => CheckInv'
<1>1. CASE Commands
  BY <1>1, RequestKeeps, RespondKeeps, WaitKeeps, CheckKeeps, DisruptProxyKeep, FinishKeeps
  DEF Commands
<1>2. CASE waitReturns
  BY <1>2, ReturnKeeps
<1>3. CASE Finish
  BY <1>3, FinishKeeps
<1>4. CASE Ours /\ ProxyStep
  BY <1>4, ForwardKeeps, AnswerKeeps, QuietSteps, OursTrack DEF ProxyStep
<1>5. CASE Ours /\ ServerStops
  BY <1>5, QuietSteps, OursTrack
<1>6. CASE Ours /\ \E r \in Ids : ClientStep(r)
  BY <1>6, ClientKeeps, FinishedKeeps, OursTrack DEF ClientStep
<1>7. CASE Ours /\ \E h \in Handlers : ServerAccept(h) \/ HandlerStep(h)
  BY <1>7, QuietSteps, GetRequestKeeps, ActionKeeps, OursTrack DEF HandlerStep
<1> QED
  BY <1>1, <1>2, <1>3, <1>4, <1>5, <1>6, <1>7 DEF Next

LEMMA StutterKeeps ==
  ASSUME IInv, UNCHANGED vars
  PROVE  IInv' /\ (DoneInv => DoneInv') /\ (CheckInv => CheckInv') /\ (TrackInv => TrackInv')
<1>1. UNCHANGED <<em, client, reply, handler, server, disruption, proxy, habits>> /\ Ours
  BY DEF vars, agentVars, Ours
<1>2. AgentsQuiet
  BY <1>1, QuietOthers DEF IInv, AgentTypes
<1> QED
  BY <1>1, <1>2, QuietKeeps, OursTrack

(* The inductive invariant, whatever the scripts say and the proxy does.   *)
THEOREM Invariance == Spec => []IInv
<1>1. Init => IInv
  BY InitHolds
<1>2. IInv /\ [Next]_vars => IInv'
  BY NextKeeps, StutterKeeps
<1> QED
  BY <1>1, <1>2, PTL DEF Spec

(* Types, and the manager's bookkeeping: events are awaited by a wait only,*)
(* none is awaited and completed, and a response leads back to its request.*)
THEOREM TypeCorrect == Spec => []TypeOK
<1>1. IInv => TypeOK
  <2> SUFFICES ASSUME IInv PROVE TypeOK
    OBVIOUS
  <2>1. em \in Manager /\ activeEvents \subseteq Ids /\ server \in Server /\ proxy \in ProxyState
    BY DEF IInv, AgentTypes, MainTypes
  <2>2. script.errors \in 0..errorLimit
    BY DEF IInv, MainTypes
  <2> QED
    BY <2>1, <2>2 DEF IInv, WaitInv, MatchInv, TypeOK, Manager, Server, Disruption, ProxyState
<1> QED
  BY <1>1, Invariance, PTL

(* A wait that does not report a request as pending means that the client  *)
(* has finished it: always for a fetch, and for a request whose response   *)
(* was released after an earlier wait had found it received; and a         *)
(* "wait *" that reports nothing means it of all of these but the ones     *)
(* that an earlier wait, which failed or timed out, or a disruption has    *)
(* left out of what it waits for.                                          *)
THEOREM WaitHonest ==
  ASSUME HeadersTogether
  PROVE  Spec => []WaitMeansDone
<1>1. Init => TrackInv /\ DoneInv
  BY InitHolds
<1>2. IInv /\ TrackInv /\ DoneInv /\ [Next]_vars => TrackInv' /\ DoneInv'
  BY NextKeeps, StutterKeeps
<1>3. DoneInv => WaitMeansDone
  BY DEF DoneInv, Promise, WaitMeansDone, Over
<1> QED
  BY <1>1, <1>2, <1>3, Invariance, PTL DEF Spec

(* After such a wait, a check that says ok means that the bytes are those  *)
(* of the file.                                                            *)
THEOREM CheckHonest ==
  ASSUME HeadersTogether, SameHost = TRUE
  PROVE  Spec => []CheckSound
<1>1. Init => TrackInv /\ DoneInv /\ CheckInv
  BY InitHolds
<1>2. IInv /\ TrackInv /\ DoneInv /\ CheckInv /\ [Next]_vars
        => TrackInv' /\ DoneInv' /\ CheckInv'
  BY NextKeeps, StutterKeeps
<1>3. CheckInv => CheckSound
  BY DEF CheckInv, CheckSound
<1> QED
  BY <1>1, <1>2, <1>3, Invariance, PTL DEF Spec
=============================================================================
