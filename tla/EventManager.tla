---------------------------- MODULE EventManager ----------------------------
(***************************************************************************)
(* pxydrive-tutorial/pxy/events.py: what the driver's threads share.       *)
(* Every method of EventManager takes the mutex for all it does (waitActive*)
(* twice), so each is a function from the shared state to the next.        *)
(***************************************************************************)
EXTENDS Naturals, Sequences, FiniteSets

CONSTANTS Ids,          \* of requests, as scripts name them
          Handlers,     \* 1..n: connections to the server, each with its thread
          NoHandler

ASSUME IdsAssumption == "none" \notin Ids /\ NoHandler \notin Handlers

(* A request event.  tag is "none" before it is added.                     *)
NoEvent == [tag |-> "none", fetch |-> FALSE, uri |-> "", hasMatch |-> FALSE]

(* list: all events in order; response: responseDict for the ids of        *)
(* requests (any other response has an id of its own); set: the event      *)
(* waitActive sleeps on.                                                   *)
EventManagerInit ==
  [running |-> TRUE, list |-> <<>>, request |-> [r \in Ids |-> NoEvent],
   response |-> [r \in Ids |-> NoHandler],
   waiting |-> {}, completed |-> {}, set |-> FALSE]

(* addRequestEvent, for an id that is not in requestDict.                  *)
addRequestEvent(em, r, fetch) ==
  [em EXCEPT !.list = Append(@, <<"request", r>>),
             !.request[r] = [NoEvent EXCEPT !.tag = "requesting", !.fetch = fetch]]

addURI(em, r, uri) == [em EXCEPT !.request[r].uri = uri]

changeTag(em, r, tag) == [em EXCEPT !.request[r].tag = tag]

(* addResponseEvent, under the id of a request or under one of its own.    *)
addResponseEvent(em, r, h) ==
  [em EXCEPT !.list = Append(@, <<"response", h>>), !.response[r] = h]
addOwnResponse(em, h) == [em EXCEPT !.list = Append(@, <<"response", h>>)]

addCompleted(em, r) ==
  IF r \in em.waiting
  THEN [em EXCEPT !.waiting = @ \ {r}, !.set = @ \/ em.waiting = {r}]
  ELSE [em EXCEPT !.completed = @ \cup {r}]

(* The two critical sections of waitActive.                                *)
waitActive(em, ids) ==
  [em EXCEPT !.waiting = ids \ em.completed, !.completed = @ \ ids,
             !.set = ids \subseteq em.completed]

(* Faulty variant: what is still pending goes on being awaited.            *)
waitOverForgotten(em) == em

waitOver(em) == [em EXCEPT !.waiting = {}]

(* makeMatchEvent: the oldest request for this uri that has had no answer  *)
(* and no match.                                                           *)
Unmatched(em, uri) ==
  {k \in DOMAIN em.list :
     LET e == em.list[k]
     IN  /\ e[1] = "request"
         /\ em.request[e[2]].uri = uri
         /\ em.request[e[2]].tag = "requesting"
         /\ ~em.request[e[2]].hasMatch}
Oldest(em, positions) == em.list[CHOOSE k \in positions : \A j \in positions : k <= j]

stop(em) == [em EXCEPT !.running = FALSE]
=============================================================================
