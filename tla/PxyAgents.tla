----------------------------- MODULE PxyAgents ------------------------------
(***************************************************************************)
(* pxydrive-tutorial/pxy/agents.py: the request generator with a thread for*)
(* each request, and the server with a thread for each connection; between *)
(* them the proxy under test, which is any program that sits there.        *)
(***************************************************************************)
EXTENDS EventManager

CONSTANTS Files,        \* the uris of which the server has the file
          strict,       \* 0..4
          SameHost      \* is the proxy named by the servers' host name?

VARIABLES em,           \* the event manager
          client,       \* request -> its thread and its socket
          reply,        \* request -> what the proxy has written to the client
          handler,      \* connection -> its thread
          server,       \* running, its accept loop, disruption
          disruption,   \* of the request generator
          proxy,        \* its process
          habits        \* what the proxy may do

agentVars == <<em, client, reply, handler, server, disruption, proxy, habits>>

(* habits: the messages it may make of a request ("none": it connects and  *)
(* stalls), the bodies it may answer with ("same", "corrupt", "noheader"), *)
(* how often it may forward a request, whether it may hang up on a client  *)
(* or crash, and whether starting it again may succeed.                    *)
(* proxy: "up"; "down", it has ended and is still the one requests go to;  *)
(* "none" while there is none to send requests to.                         *)

(* level: 1 the status line and the header, 2 the body have arrived.       *)
NoReply == [status |-> "none", body |-> "none", level |-> 0, closed |-> FALSE]
NoMessage == [kind |-> "none"]
NewHandler == [pc |-> "none", from |-> "none", msg |-> NoMessage, id |-> "none", tag |-> "none",
               released |-> FALSE]
NoClient == [pc |-> "none", shutdown |-> FALSE]

AgentsInit ==
  /\ em = EventManagerInit
  /\ client = [r \in Ids |-> NoClient]
  /\ reply = [r \in Ids |-> NoReply]
  /\ handler = [h \in Handlers |-> NewHandler]
  /\ server = [running |-> TRUE, pc |-> "accept", disruption |-> "none"]
  /\ disruption = "none"
  /\ proxy = "up"

(***************************************************************************)
(* RequestGenerator.                                                       *)
(***************************************************************************)
(* startRequest, then the thread that finishes it; e is the event manager  *)
(* after addRequestEvent.  It is called while the proxy is not "none".     *)
request(e, r, uri) ==
  CASE proxy = "down" ->
         /\ em' = changeTag(addURI(e, r, uri), r, "error")
         /\ UNCHANGED <<client, disruption>>
    [] proxy = "up" /\ disruption = "request" ->
         /\ em' = addURI(e, r, uri)
         /\ disruption' = "none"
         /\ UNCHANGED client
    [] OTHER ->
         /\ em' = addURI(e, r, uri)
         /\ client' = [client EXCEPT ![r].pc = "finishRequest"]
         /\ UNCHANGED disruption

At(r, pc) == client[r].pc = pc
ClientGoes(r, pc) == client' = [client EXCEPT ![r].pc = pc]
Gone(r) == reply[r].closed \/ client[r].shutdown

(* The request ends with an error, or with the tag it has.                 *)
Fails(r) == ClientGoes(r, "finished") /\ em' = changeTag(em, r, "error")

ClientDisrupts(r) ==
  /\ At(r, "finishRequest")
  /\ IF disruption = "response"
     THEN ClientGoes(r, "finished") /\ disruption' = "none"
     ELSE ClientGoes(r, "status") /\ UNCHANGED disruption
  /\ UNCHANGED <<em, reply, handler, server, proxy, habits>>

(* The status line; none comes once the proxy has closed, nor after        *)
(* shutdown.                                                               *)
ReadStatus(r) ==
  /\ At(r, "status")
  /\ IF reply[r].level >= 1
     THEN ClientGoes(r, "header") /\ em' = changeTag(em, r, reply[r].status)
     ELSE Gone(r) /\ Fails(r)
  /\ UNCHANGED <<reply, handler, server, disruption, proxy, habits>>

(* Faulty variant: the request counts as completed once it has a header.   *)
ReadHeaderCompletes(r) ==
  /\ At(r, "header")
  /\ IF reply[r].body = "noheader" THEN Fails(r)
     ELSE ClientGoes(r, "body") /\ em' = addCompleted(changeTag(em, r, "reading"), r)
  /\ UNCHANGED <<reply, handler, server, disruption, proxy, habits>>

(* The header; without a content length in it the request has failed.      *)
ReadHeader(r) ==
  /\ At(r, "header")
  /\ IF reply[r].body = "noheader" THEN Fails(r)
     ELSE ClientGoes(r, "body") /\ em' = changeTag(em, r, "reading")
  /\ UNCHANGED <<reply, handler, server, disruption, proxy, habits>>

(* Is the file that came not the source file?  The comparison is left out  *)
(* when the server is not on the host the proxy was named by.              *)
Mismatch(r) == SameHost /\ reply[r].status = "ok" /\ reply[r].body # "same"

(* Faulty variant: the file is not compared.                               *)
ReadBodyUnchecked(r) ==
  /\ At(r, "body")
  /\ \/ reply[r].level = 2 /\ proxy = "none" /\ ClientGoes(r, "panic") /\ UNCHANGED em
     \/ /\ reply[r].level = 2 /\ proxy # "none"
        /\ ClientGoes(r, "finished") /\ em' = changeTag(em, r, reply[r].status)
     \/ reply[r].level = 1 /\ reply[r].closed /\ Fails(r)
  /\ UNCHANGED <<reply, handler, server, disruption, proxy, habits>>

(* The body and its check, under tags of their own, "reading" for all here.*)
(* The check asks for the proxy's host name, and while there is no proxy   *)
(* that is the end of this thread.  After shutdown the thread ends without *)
(* touching the tag.                                                       *)
ReadBody(r) ==
  /\ At(r, "body")
  /\ \/ reply[r].level = 2 /\ proxy = "none" /\ ClientGoes(r, "panic") /\ UNCHANGED em
     \/ /\ reply[r].level = 2 /\ proxy # "none"
        /\ IF Mismatch(r) THEN Fails(r)
           ELSE ClientGoes(r, "finished") /\ em' = changeTag(em, r, reply[r].status)
     \/ reply[r].level = 1 /\ reply[r].closed /\ Fails(r)
     \/ /\ reply[r].level = 1 /\ ~reply[r].closed /\ client[r].shutdown
        /\ ClientGoes(r, "finished") /\ UNCHANGED em
  /\ UNCHANGED <<reply, handler, server, disruption, proxy, habits>>

Finished(r) ==
  /\ At(r, "finished")
  /\ ClientGoes(r, "done") /\ em' = addCompleted(em, r)
  /\ UNCHANGED <<reply, handler, server, disruption, proxy, habits>>

ClientStep(r) == ClientDisrupts(r) \/ ReadStatus(r) \/ ReadHeader(r) \/ ReadBody(r)
                   \/ Finished(r)

(***************************************************************************)
(* Server.                                                                 *)
(***************************************************************************)
Serving(h, pc) == handler[h].pc = pc
HandlerGoes(h, pc) == handler' = [handler EXCEPT ![h].pc = pc]

(* accept, and the first test of the connection's thread.                  *)
ServerAccept(h) ==
  /\ server.pc = "accept" /\ server.running
  /\ Serving(h, "queued")
  /\ HandlerGoes(h, IF server.disruption = "request" THEN "disrupt" ELSE "getRequest")
  /\ UNCHANGED <<em, client, reply, server, disruption, proxy, habits>>

(* accept times out and the loop sees that the server has been stopped.    *)
ServerStops ==
  /\ server.pc = "accept" /\ ~server.running
  /\ server' = [server EXCEPT !.pc = "done"]
  /\ handler' = [h \in Handlers |-> IF Serving(h, "queued") THEN [handler[h] EXCEPT !.pc = "closed"]
                                    ELSE handler[h]]
  /\ UNCHANGED <<em, client, reply, disruption, proxy, habits>>

(* The socket is closed, then the disruption is over.                      *)
HandlerDisrupts(h) ==
  /\ Serving(h, "disrupt")
  /\ HandlerGoes(h, "closed")
  /\ server' = [server EXCEPT !.disruption = "none"]
  /\ UNCHANGED <<em, client, reply, disruption, proxy, habits>>

(* What is read when the proxy goes before it has sent anything: no request*)
(* line, no headers, and the uri "/".                                      *)
EmptyMessage == [kind |-> "empty", id |-> FALSE, response |-> FALSE, required |-> FALSE,
                 host |-> FALSE, term |-> FALSE, line |-> "malformed"]

(* The response event: by Request-ID, by the uri, or under a name of its   *)
(* own, which no request has; none once the manager has been stopped.  A   *)
(* match whose id already has a response releases the mutex twice: that is *)
(* the end of this thread.  (Should another thread take the mutex between  *)
(* the two, the second would release that one's: not modelled.)            *)
AddEvent(h, msg) ==
  LET byUri == IF msg.kind = "empty" \/ msg.line = "url" THEN {}
               ELSE Unmatched(em, em.request[handler[h].from].uri)
      named == msg.id /\ em.response[handler[h].from] = NoHandler
      r     == IF msg.id THEN handler[h].from ELSE Oldest(em, byUri)[2]
  IN  CASE ~em.running ->
             HandlerGoes(h, "closed") /\ UNCHANGED em
        [] em.running /\ (named \/ (~msg.id /\ byUri # {})) ->
             IF em.response[r] = NoHandler
             THEN /\ em' = [addResponseEvent(em, r, h) EXCEPT !.request[r].hasMatch = @ \/ ~named]
                  /\ handler' = [handler EXCEPT ![h].pc = "action", ![h].id = r]
             ELSE /\ em' = [em EXCEPT !.request[r].hasMatch = TRUE]
                  /\ HandlerGoes(h, "panic")
        [] OTHER ->
             em' = addOwnResponse(em, h) /\ HandlerGoes(h, "action")

GetRequest(h) ==
  /\ Serving(h, "getRequest")
  /\ handler[h].msg.kind # "none"
  /\ AddEvent(h, handler[h].msg)
  /\ UNCHANGED <<client, reply, server, disruption, proxy, habits>>

(* The status getRequest gives the response.                               *)
RequestTag(msg, uri) ==
  CASE strict >= 1 /\ ~msg.term                              -> "bad_request"
    [] msg.line \in {"malformed", "url"}                     -> "bad_request"
    [] msg.line = "post"                                     -> "not_implemented"
    [] msg.line = "version" \/ (msg.line = "1.1" /\ strict >= 2) -> "bad_version"
    [] uri \notin Files                                      -> "not_found"
    [] \/ strict >= 2 /\ ~msg.host
       \/ strict >= 3 /\ ~(msg.id /\ msg.response)
       \/ strict >= 4 /\ ~msg.required                       -> "bad_request"
    [] OTHER                                                 -> "ok"

(* Response header, or else what the request event says: the response is   *)
(* immediate, or deferred and then the request need not be waited for.     *)
Action(h) ==
  /\ Serving(h, "action")
  /\ LET id     == handler[h].id
         isFetch == em.request[handler[h].from].fetch
         now    == IF handler[h].msg.response THEN isFetch
                   ELSE id # "none" /\ em.request[id].fetch
     IN  /\ handler' = [handler EXCEPT
              ![h].pc = "wait", ![h].released = @ \/ now,
              ![h].tag = RequestTag(handler[h].msg, em.request[handler[h].from].uri)]
         /\ em' = IF now \/ id = "none" THEN em ELSE addCompleted(em, id)
  /\ UNCHANGED <<client, reply, server, disruption, proxy, habits>>

(* event.wait has returned.                                                *)
HandlerReleased(h) ==
  /\ Serving(h, "wait") /\ handler[h].released
  /\ HandlerGoes(h, CASE ~server.running                  -> "closed"
                      [] server.running /\ server.disruption = "response" -> "disrupt"
                      [] OTHER                            -> "sent")
  /\ UNCHANGED <<em, client, reply, server, disruption, proxy, habits>>

HandlerStep(h) == HandlerDisrupts(h) \/ GetRequest(h) \/ Action(h)
                    \/ HandlerReleased(h)

(***************************************************************************)
(* The proxy under test.                                                   *)
(***************************************************************************)
NoSocket == {"none", "finished", "panic", "done"}
Open(r) == proxy = "up" /\ client[r].pc \notin NoSocket /\ ~reply[r].closed

(* It connects to the server, and forwards the request or nothing.         *)
Forward(r, h) ==
  /\ Open(r) /\ server.pc = "accept"
  /\ Cardinality({g \in Handlers : handler[g].from = r}) < habits.forwards
  /\ Serving(h, "none") /\ \A g \in 1..(h - 1) : ~Serving(g, "none")
  /\ \E m \in habits.messages :
       handler' = [handler EXCEPT ![h] = [NewHandler EXCEPT !.pc = "queued", !.from = r, !.msg = m]]
  /\ UNCHANGED <<em, client, reply, server, disruption, proxy, habits>>

(* It begins to answer with what the server has sent for this uri, to this *)
(* request or to an earlier one.                                           *)
Answer(r) ==
  /\ Open(r) /\ reply[r].level = 0
  /\ \E h \in Handlers, body \in habits.bodies :
       /\ Serving(h, "sent") /\ em.request[handler[h].from].uri = em.request[r].uri
       /\ reply' = [reply EXCEPT ![r] = [status |-> handler[h].tag, body |-> body,
                                         level |-> 1, closed |-> FALSE]]
  /\ UNCHANGED <<em, client, handler, server, disruption, proxy, habits>>

AnswerBody(r) ==
  /\ Open(r) /\ reply[r].level = 1
  /\ reply' = [reply EXCEPT ![r].level = 2]
  /\ UNCHANGED <<em, client, handler, server, disruption, proxy, habits>>

(* It closes the client's connection.                                      *)
Hangup(r) ==
  /\ Open(r) /\ habits.hangsUp
  /\ reply' = [reply EXCEPT ![r].closed = TRUE]
  /\ UNCHANGED <<em, client, handler, server, disruption, proxy, habits>>

(* The process ends: all its connections are closed.                       *)
Killed ==
  /\ reply' = [r \in Ids |-> IF client[r].pc \in NoSocket THEN reply[r]
                             ELSE [reply[r] EXCEPT !.closed = TRUE]]
  /\ handler' = [h \in Handlers |->
       IF handler[h].pc \in {"queued", "getRequest"} /\ handler[h].msg.kind = "none"
       THEN [handler[h] EXCEPT !.msg = EmptyMessage] ELSE handler[h]]

Crash ==
  /\ proxy = "up" /\ habits.crashes
  /\ proxy' = "down"
  /\ Killed
  /\ UNCHANGED <<em, client, server, disruption, habits>>

ProxyStep == (\E r \in Ids, h \in Handlers : Forward(r, h))
               \/ (\E r \in Ids : Answer(r) \/ AnswerBody(r) \/ Hangup(r)) \/ Crash
=============================================================================
