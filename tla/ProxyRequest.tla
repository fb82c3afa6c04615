---------------------------- MODULE ProxyRequest ----------------------------
(***************************************************************************)
(* proxylab-handout/proxy.c as a whole: main's start and accept loop, the  *)
(* worker threads and do_request, over the connection queue as ConnFifo    *)
(* describes it and an object cache that is a list, latest use first, as   *)
(* in LruCache (ConnQueue and ProxyCache implement these), with clients on *)
(* one side and Tiny on the other.  Each worker is a peer of Tiny.         *)
(***************************************************************************)
EXTENDS TinyServer, FiniteSets

CONSTANTS Conns,            \* connections of clients
          Cap,              \* of the queue
          Uris,             \* [host, port, path], the last two "" when left out
          Requests,         \* first lines: "eof", "bad", "POST", "GET"
          Headers,          \* header lines of a GET request, as sequences
          Addresses,        \* host -> "up", "down" or "silent" per address; <<>>: unknown
          MaxCache,
          MAX_OBJECT_SIZE,  \* in lines
          Leftovers,        \* what an uninitialised other_hdr may hold, as lines
          Resets,           \* may clients reset their connection?
          NoConn

ASSUME NoConnAssumption   == NoConn \notin Conns
ASSUME CapAssumption      == Cap \in Nat \ {0}
ASSUME SizeAssumption     == MaxCache \in Nat \ {0} /\ MAX_OBJECT_SIZE \in Nat \ {0}
ASSUME RequestsAssumption == Requests \subseteq {"eof", "bad", "POST", "GET"}

VARIABLES main,             \* main's position and the connection in its hands
          client,           \* connection -> the client's request and what it received
          fifo, serving,    \* the queue and the connection each worker has taken
          worker,           \* worker -> its position in do_request
          cache,            \* entries by use, latest first; Unready before cache_init
          exited            \* the process has ended

proxyVars == <<main, client, fifo, serving, worker, cache, exited>>
vars == <<proxyVars, tinyVars>>

Workers == Peers
Queue == INSTANCE ConnFifo WITH Conn <- Conns, Popper <- Workers

NoUri == [host |-> "", port |-> "", path |-> ""]
NewClient == [state |-> "none", line |-> "eof", uri |-> NoUri, headers |-> <<>>,
              reset |-> FALSE, got |-> <<>>]
Idle == [pc |-> "pop", ptr |-> 0, headers |-> <<>>, read |-> <<>>, n |-> 0]
Unready == <<[uri |-> NoUri, content |-> <<>>]>>

Init ==
  /\ main = [pc |-> "listen", conn |-> NoConn]
  /\ client = [c \in Conns |-> NewClient]
  /\ Queue!Init
  /\ worker = [w \in Workers |-> [Idle EXCEPT !.pc = "none"]]
  /\ cache = Unready
  /\ exited = FALSE
  /\ TinyInit

Running == ~exited

(* unix_error in any wrapper ends all threads; the kernel closes           *)
(* everything the process had open.                                        *)
Exit ==
  /\ exited' = TRUE
  /\ main' = [pc |-> "none", conn |-> NoConn]
  /\ worker' = [w \in Workers |-> [Idle EXCEPT !.pc = "none"]]
  /\ fifo' = <<>> /\ serving' = [w \in Workers |-> NoConn]
  /\ cache' = Unready
  /\ client' = [c \in Conns |-> IF client[c].state \in {"none", "closed"} THEN client[c]
                                ELSE [client[c] EXCEPT !.state = "closed"]]
  /\ link' = [w \in Workers |-> [link[w] EXCEPT !.open = FALSE]]
  /\ UNCHANGED <<tiny, backlog>>

(***************************************************************************)
(* Clients.                                                                *)
(***************************************************************************)
(* A client connects and writes its request, or closes.                    *)
Connect(c) ==
  /\ client[c].state = "none" /\ main.pc \notin {"listen", "none"}
  /\ \E line \in Requests, u \in Uris, hdrs \in Headers :
       client' = [client EXCEPT ![c] =
         IF line = "GET"
         THEN [NewClient EXCEPT !.state = "pending", !.line = "GET", !.uri = u, !.headers = hdrs]
         ELSE [NewClient EXCEPT !.state = "pending", !.line = line]]
  /\ UNCHANGED <<main, fifo, serving, worker, cache, exited, tinyVars>>

(* It resets the connection instead of waiting for the answer.             *)
Reset(c) ==
  /\ Resets /\ client[c].state \in {"pending", "open"} /\ ~client[c].reset
  /\ client' = [client EXCEPT ![c].reset = TRUE]
  /\ UNCHANGED <<main, fifo, serving, worker, cache, exited, tinyVars>>

(***************************************************************************)
(* main.                                                                   *)
(***************************************************************************)
(* A socket is bound and listens; with none main exits.                    *)
Listen ==
  /\ main.pc = "listen"
  /\ main' = [main EXCEPT !.pc = "threads"]
  /\ UNCHANGED <<client, fifo, serving, worker, cache, exited, tinyVars>>

(* queue_init, and Pthread_create for each worker.                         *)
CreateThread ==
  /\ main.pc = "threads"
  /\ \E w \in Workers :
       /\ worker[w].pc = "none"
       /\ worker' = [worker EXCEPT ![w].pc = "pop"]
       /\ main' = IF \A v \in Workers \ {w} : worker[v].pc # "none"
                  THEN [main EXCEPT !.pc = "cache_init"] ELSE main
  /\ UNCHANGED <<client, fifo, serving, cache, exited, tinyVars>>

(* Faulty variant: connections are accepted before the cache exists.       *)
CacheInitForgotten ==
  /\ main.pc = "cache_init"
  /\ main' = [main EXCEPT !.pc = "accept"]
  /\ UNCHANGED <<client, fifo, serving, worker, cache, exited, tinyVars>>

CacheInit ==
  /\ main.pc = "cache_init"
  /\ cache' = <<>>
  /\ main' = [main EXCEPT !.pc = "accept"]
  /\ UNCHANGED <<client, fifo, serving, worker, exited, tinyVars>>

(* Accept, then getnameinfo; when that fails nobody has the descriptor any *)
(* more, and it is never closed.                                           *)
Accept(c) ==
  /\ main.pc = "accept" /\ client[c].state = "pending"
  /\ \/ /\ client' = [client EXCEPT ![c].state = "open"]
        /\ main' = [pc |-> "push", conn |-> c]
     \/ /\ client' = [client EXCEPT ![c].state = "dropped"]
        /\ UNCHANGED main
  /\ UNCHANGED <<fifo, serving, worker, cache, exited, tinyVars>>

QueuePush ==
  /\ main.pc = "push"
  /\ Queue!Push(main.conn)
  /\ main' = [pc |-> "accept", conn |-> NoConn]
  /\ UNCHANGED <<client, worker, cache, exited, tinyVars>>

(***************************************************************************)
(* client_func and do_request.                                             *)
(***************************************************************************)
At(w, pc) == Running /\ worker[w].pc = pc
Goto(w, pc) == worker' = [worker EXCEPT ![w].pc = pc]
Conn(w) == client[serving[w]]

(* Rio_writen to the client.                                               *)
Sent(w, lines) == client' = [client EXCEPT ![serving[w]].got = @ \o lines]

QueuePop(w) ==
  /\ At(w, "pop")
  /\ Queue!Pop(w)
  /\ Goto(w, "request")
  /\ UNCHANGED <<main, client, cache, exited, tinyVars>>

(* The request line, and the early returns.                                *)
ReadRequestLine(w) ==
  /\ At(w, "request")
  /\ IF Conn(w).reset THEN Exit
     ELSE /\ CASE Conn(w).line \in {"eof", "bad"} -> Goto(w, "close") /\ UNCHANGED client
              [] Conn(w).line = "POST" -> Goto(w, "close") /\ Sent(w, <<"501">>)
              [] Conn(w).line = "GET"  -> Goto(w, "cache_src") /\ UNCHANGED client
          /\ UNCHANGED <<main, fifo, serving, cache, exited, tinyVars>>

Entries(u) == {i \in DOMAIN cache : cache[i].uri = u}

(* cache_src finds an entry, makes it the latest and writes it.            *)
CacheHitThen(w, pc) ==
  /\ At(w, "cache_src")
  /\ \E i \in Entries(Conn(w).uri) :
       IF Conn(w).reset THEN Exit
       ELSE /\ Sent(w, cache[i].content)
            /\ cache' = <<cache[i]>> \o SubSeq(cache, 1, i - 1) \o SubSeq(cache, i + 1, Len(cache))
            /\ Goto(w, pc)
            /\ UNCHANGED <<main, fifo, serving, exited, tinyVars>>

(* Faulty variant: a hit is forwarded to the server as well.               *)
CacheHitGoesOn(w) == CacheHitThen(w, "headers")

CacheHit(w) == CacheHitThen(w, "close")

CacheMiss(w) ==
  /\ At(w, "cache_src")
  /\ Entries(Conn(w).uri) = {}
  /\ Goto(w, "headers")
  /\ UNCHANGED <<main, client, fifo, serving, cache, exited, tinyVars>>

parse_uri(u) == [host |-> u.host,
                 port |-> IF u.port = "" THEN "80" ELSE u.port,
                 path |-> IF u.path = "" THEN "/home.html" ELSE u.path]
Site(w) == parse_uri(Conn(w).uri)

(* Every uri has a host, whose addresses are known, and asks for a path of *)
(* which the server knows what it is.                                      *)
ASSUME UrisAssumption ==
  \A u \in Uris : /\ u # NoUri
                  /\ parse_uri(u).path \in DOMAIN Files
                  /\ Addresses[u.host] \in Seq({"up", "down", "silent"})

(* The client's lines up to the blank one.  Every line that does not begin *)
(* with "HOST" replaces the host line, so the last of them is sent as it;  *)
(* the others are appended to other_hdr, which is never set.               *)
build_headers(host, hdrs, other_hdr) ==
  LET kept == {k \in DOMAIN hdrs : hdrs[k] # "HOST"}
      last == CHOOSE k \in kept : \A j \in kept : j <= k
  IN  <<IF kept = {} THEN host ELSE hdrs[last], "Connection", "Proxy-Connection", "User-Agent">>
        \o other_hdr \o SelectSeq(hdrs, LAMBDA h : h = "HOST") \o <<"blank">>

BuildHeaders(w) ==
  /\ At(w, "headers")
  /\ IF Conn(w).reset THEN Exit
     ELSE \E other \in Leftovers :
            /\ worker' = [worker EXCEPT
                 ![w].headers = build_headers(Site(w).host, Conn(w).headers, other),
                 ![w].pc = "getaddrinfo"]
            /\ UNCHANGED <<main, client, fifo, serving, cache, exited, tinyVars>>

list(w) == Addresses[Site(w).host]

GetAddrInfo(w) ==
  /\ At(w, "getaddrinfo")
  /\ worker' = [worker EXCEPT ![w].ptr = 1,
                              ![w].pc = IF list(w) = <<>> THEN "close" ELSE "connect"]
  /\ UNCHANGED <<main, client, fifo, serving, cache, exited, tinyVars>>

(* After a failure the loop goes on with list_ptr->ai_next, which is the   *)
(* second address or NULL.                                                 *)
ConnectServer(w) ==
  /\ At(w, "connect")
  /\ CASE list(w)[worker[w].ptr] = "up" /\ Alive ->
            /\ link' = [link EXCEPT ![w] = NewLink]
            /\ backlog' = Append(backlog, w)
            /\ Goto(w, "send")
       [] list(w)[worker[w].ptr] = "silent" ->
            /\ link' = [link EXCEPT ![w] = NewLink]
            /\ Goto(w, "send")
            /\ UNCHANGED backlog
       [] OTHER ->
            /\ IF Len(list(w)) = 1 THEN Goto(w, "close")
               ELSE worker' = [worker EXCEPT ![w].ptr = 2]
            /\ UNCHANGED <<link, backlog>>
  /\ UNCHANGED <<main, client, fifo, serving, cache, exited, tiny>>

(* Rio_writen of the headers, and the wrapper's exit when the server's end *)
(* has been reset.                                                         *)
SendHeaders(w) ==
  /\ At(w, "send")
  /\ IF link[w].rst THEN Exit
     ELSE /\ link' = [link EXCEPT ![w].request = [path |-> Site(w).path,
                                                  headers |-> worker[w].headers]]
          /\ worker' = [worker EXCEPT ![w].pc = "relay", ![w].headers = <<>>]
          /\ UNCHANGED <<main, client, fifo, serving, cache, exited, tiny, backlog>>

(* A line from the server to the client; n counts all, and those that fit  *)
(* the buffer are kept.                                                    *)
RelayWith(w, read) ==
  /\ At(w, "relay") /\ link[w].lines # <<>>
  /\ IF Conn(w).reset THEN Exit
     ELSE /\ link' = [link EXCEPT ![w].lines = Tail(@)]
          /\ worker' = [worker EXCEPT ![w].read = read, ![w].n = @ + 1]
          /\ Sent(w, <<Head(link[w].lines)>>)
          /\ UNCHANGED <<main, fifo, serving, cache, exited, tiny, backlog>>

(* Faulty variant: every line is copied to the buffer.                     *)
RelayUnchecked(w) == RelayWith(w, Append(worker[w].read, Head(link[w].lines)))

Relay(w) == RelayWith(w, IF worker[w].n + 1 < MAX_OBJECT_SIZE
                         THEN Append(worker[w].read, Head(link[w].lines)) ELSE worker[w].read)

RelayEnds(w) ==
  /\ At(w, "relay") /\ link[w].lines = <<>>
  /\ \/ /\ link[w].eof
        /\ Goto(w, IF worker[w].n < MAX_OBJECT_SIZE THEN "cache_add" ELSE "server_close")
        /\ UNCHANGED <<main, client, fifo, serving, cache, exited, tinyVars>>
     \/ link[w].rst /\ Exit

(* cache_add takes the place of the entry used longest ago.                *)
CacheAdd(w) ==
  /\ At(w, "cache_add")
  /\ cache' = LET entry == [uri |-> Conn(w).uri, content |-> worker[w].read]
                  rest  == IF Len(cache) < MaxCache THEN cache
                           ELSE SubSeq(cache, 1, MaxCache - 1)
              IN  <<entry>> \o rest
  /\ Goto(w, "server_close")
  /\ UNCHANGED <<main, client, fifo, serving, exited, tinyVars>>

ServerClose(w) ==
  /\ At(w, "server_close")
  /\ link' = [link EXCEPT ![w] = NoLink]
  /\ Goto(w, "close")
  /\ UNCHANGED <<main, client, fifo, serving, cache, exited, tiny, backlog>>

(* Faulty variant: the loop of client_func takes the next connection       *)
(* without closing the last.                                               *)
ClientCloseForgotten(w) ==
  /\ At(w, "close")
  /\ Queue!Close(w)
  /\ worker' = [worker EXCEPT ![w] = Idle]
  /\ UNCHANGED <<main, client, cache, exited, tinyVars>>

(* do_request has returned: close(connect_fd).                             *)
ClientClose(w) ==
  /\ At(w, "close")
  /\ client' = [client EXCEPT ![serving[w]].state = "closed"]
  /\ Queue!Close(w)
  /\ worker' = [worker EXCEPT ![w] = Idle]
  /\ UNCHANGED <<main, cache, exited, tinyVars>>

WorkerStep(w) ==
  \/ QueuePop(w) \/ ReadRequestLine(w) \/ CacheHit(w) \/ CacheMiss(w) \/ BuildHeaders(w)
  \/ GetAddrInfo(w) \/ ConnectServer(w) \/ SendHeaders(w) \/ Relay(w) \/ RelayEnds(w)
  \/ CacheAdd(w) \/ ServerClose(w) \/ ClientClose(w)

MainStep == Listen \/ CreateThread \/ CacheInit \/ (\E c \in Conns : Accept(c)) \/ QueuePush

Next ==
  \/ \E c \in Conns : Connect(c) \/ Reset(c)
  \/ MainStep
  \/ \E w \in Workers : WorkerStep(w)
  \/ TinyNext /\ UNCHANGED proxyVars

Spec == Init /\ [][Next]_vars

(* The kernel runs every thread that can go on, and both processes.        *)
FairSpec ==
  /\ Spec
  /\ WF_vars(MainStep) /\ WF_vars(TinyNext /\ UNCHANGED proxyVars)
  /\ \A w \in Workers : WF_vars(WorkerStep(w))

(***************************************************************************)
(* Properties.                                                             *)
(***************************************************************************)
(* The variables have their types, and no more lines are kept for the      *)
(* cache than the buffer of do_request holds.                              *)
TypeOK ==
  /\ main.pc \in {"listen", "threads", "cache_init", "accept", "push", "none"}
  /\ main.conn \in Conns \cup {NoConn}
  /\ \A c \in Conns : /\ client[c].state \in {"none", "pending", "open", "dropped", "closed"}
                       /\ client[c].line \in Requests \cup {"eof"}
                       /\ client[c].uri \in Uris \cup {NoUri}
  /\ Len(fifo) <= Cap /\ serving \in [Workers -> Conns \cup {NoConn}]
  /\ \A w \in Workers : /\ worker[w].ptr \in 0..2
                         /\ Len(worker[w].read) < MAX_OBJECT_SIZE
  /\ cache = Unready \/ (Len(cache) <= MaxCache /\ \A i \in DOMAIN cache : cache[i].uri \in Uris)
  /\ exited \in BOOLEAN

(* Between accept and close a connection is in exactly one pair of hands:  *)
(* main's, the queue's or one worker's, and nobody holds one that is not   *)
(* open; the connections main drops when getnameinfo fails excepted.       *)
Descriptors ==
  \A c \in Conns :
    Cardinality({x \in {main} : x.conn = c}) + Cardinality({i \in DOMAIN fifo : fifo[i] = c})
      + Cardinality({w \in Workers : serving[w] = c}) = IF client[c].state = "open" THEN 1 ELSE 0

Prefixes(s) == {SubSeq(s, 1, i) : i \in 0..Len(s)}

(* What the server sends, and what is left of it when it has died.         *)
Answers(uri) == IF Alive THEN {Response(parse_uri(uri).path)}
                ELSE Prefixes(Response(parse_uri(uri).path))

(* No worker looks into the cache before cache_init, which main calls      *)
(* after it has created the workers; and an entry is the whole answer to   *)
(* its own uri, below the size limit, unless the server died over it.      *)
CacheSound ==
  IF cache = Unready
  THEN \A w \in Workers : worker[w].pc \in {"none", "pop", "request"}
  ELSE \A i \in DOMAIN cache : /\ cache[i].content \in Answers(cache[i].uri)
                               /\ Len(cache[i].content) < MAX_OBJECT_SIZE

Reachable(u) == \E i \in 1..2 \cap DOMAIN Addresses[u.host] : Addresses[u.host][i] = "up"

(* What a request deserves: nothing, the error page, or the answer to its  *)
(* uri, if that can be had.                                                *)
Deserved(c) ==
  CASE client[c].line \in {"eof", "bad"} -> {<<>>}
    [] client[c].line = "POST"           -> {<<"501">>}
    [] client[c].line = "GET" /\ Reachable(client[c].uri)
         -> Answers(client[c].uri) \cup (IF Alive THEN {} ELSE {<<>>})
    [] OTHER                             -> {<<>>}

(* A client that waited for the end got what its own request deserves,     *)
(* once, whether it came from the server or from the cache and whoever     *)
(* else was served.                                                        *)
Answered ==
  \A c \in Conns :
    client[c].state = "closed" /\ ~client[c].reset /\ ~exited => client[c].got \in Deserved(c)

Silent(c) == /\ client[c].line = "GET"
             /\ \E i \in DOMAIN Addresses[client[c].uri.host] :
                  Addresses[client[c].uri.host][i] = "silent"

(* Every request comes to its end: a connection that has been accepted is  *)
(* closed, though a client be served by a server that never answers, as    *)
(* long as fewer clients are than there are workers.                       *)
RequestsEnd ==
  \A c \in Conns :
    (client[c].state = "open" /\ ~Silent(c)) ~>
      \/ client[c].state = "closed"
      \/ Cardinality({d \in Conns : Silent(d)}) >= Cardinality(Workers)
=============================================================================
