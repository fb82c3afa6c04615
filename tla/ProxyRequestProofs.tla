------------------------- MODULE ProxyRequestProofs -------------------------
(***************************************************************************)
(* For every number of clients, workers and entries, every site and every  *)
(* order in which clients, threads and Tiny proceed: a connection has one  *)
(* owner from accept to close, and what a client has received is what its  *)
(* own request deserves.  The invariant follows an answer from Tiny over   *)
(* the connection to the worker, the client, the buffer and the cache.     *)
(***************************************************************************)
EXTENDS ProxyRequest, SequenceTheorems, FiniteSetTheorems, TLAPS

(* The lines that Tiny and the proxy write.                                *)
Texts   == {path \in DOMAIN Files : Files[path] \in {"static", "cgi"}}
Line    == {"404", "403", "501", HEADER} \cup UNION {Range(Pages[path]) : path \in Texts}
Lines   == Seq(Line)
HostLines == {build_headers(u.host, hdrs, other) :
                u \in Uris, hdrs \in Headers \cup {<<>>}, other \in Leftovers}
Built   == {<<>>} \cup HostLines
Paths   == DOMAIN Files
MainPcs == {"listen", "threads", "cache_init", "accept", "push", "none"}
Labels  == {"none", "pop", "request", "cache_src", "headers", "getaddrinfo", "connect", "send",
            "relay", "cache_add", "server_close", "close"}
TinyPcs == {"accept", "doit", "write", "serve_dynamic", "wait", "close", "dead"}

Client == [state : {"none", "pending", "open", "dropped", "closed"}, line : Requests \cup {"eof"},
           uri : Uris \cup {NoUri}, headers : Headers \cup {<<>>}, reset : BOOLEAN, got : Lines]
Worker == [pc : Labels, ptr : 0..2, headers : Built, read : Lines, n : Nat]
Entry  == [uri : Uris \cup {NoUri}, content : Lines]
Link   == [open : BOOLEAN, eof : BOOLEAN, rst : BOOLEAN,
           request : {NoRequest} \cup [path : Paths, headers : Built], lines : Lines]

(* Every variable's type, the proxy's and Tiny's.                          *)
ProxyTypes ==
  /\ main \in [pc : MainPcs, conn : Conns \cup {NoConn}]
  /\ client \in [Conns -> Client]
  /\ fifo \in Seq(Conns) /\ Len(fifo) <= Cap
  /\ serving \in [Workers -> Conns \cup {NoConn}]
  /\ worker \in [Workers -> Worker]
  /\ cache \in Seq(Entry)
  /\ exited \in BOOLEAN

TinyTypes ==
  /\ tiny \in [pc : TinyPcs, peer : Peers \cup {NoPeer}, left : Lines]
  /\ backlog \in Seq(Peers)
  /\ link \in [Peers -> Link]

Types == ProxyTypes /\ TinyTypes

(* Where main and the workers are says what they hold and what exists.     *)
Positions ==
  /\ main.conn = NoConn <=> main.pc # "push"
  /\ \A w \in Workers : serving[w] = NoConn <=> worker[w].pc \in {"none", "pop"}
  /\ main.pc \in {"listen", "threads", "cache_init", "none"} =>
       cache = Unready /\ fifo = <<>> /\ \A w \in Workers : worker[w].pc \in {"none", "pop"}
  /\ exited <=> main.pc = "none"
  /\ exited => /\ \A w \in Workers : worker[w] = [Idle EXCEPT !.pc = "none"]
               /\ \A c \in Conns : client[c].state \in {"none", "closed"}
  /\ tiny.peer = NoPeer <=> tiny.pc \in {"accept", "dead"}
  /\ tiny.pc = "serve_dynamic" => tiny.left # <<>>

(* One owner: main, a place of the queue, or a worker.                     *)
Queued(c) == \E i \in DOMAIN fifo : fifo[i] = c

OwnerInv ==
  /\ \A c \in Conns :
       client[c].state = "open" <=>
         main.conn = c \/ Queued(c) \/ \E w \in Workers : serving[w] = c
  /\ \A i, j \in DOMAIN fifo : fifo[i] = fifo[j] => i = j
  /\ \A v, w \in Workers : serving[v] = serving[w] /\ serving[v] # NoConn => v = w
  /\ ~Queued(main.conn) /\ \A w \in Workers : ~Queued(serving[w])
  /\ \A w \in Workers : serving[w] = main.conn => serving[w] = NoConn

(* Tiny has each peer in one place, and no backlog once it is dead.        *)
Backlogged(p) == \E i \in DOMAIN backlog : backlog[i] = p

BacklogInv ==
  /\ \A i, j \in DOMAIN backlog : backlog[i] = backlog[j] => i = j
  /\ ~Backlogged(tiny.peer)
  /\ ~Alive => backlog = <<>>

(* Nothing has been written to a client before its worker relays.          *)
Early == {"request", "cache_src", "headers", "getaddrinfo", "connect", "send"}

FreshInv ==
  \A c \in Conns :
    client[c].state \in {"none", "pending"} \/ main.conn = c \/ Queued(c) => client[c].got = <<>>

(* The connection of w is with Tiny, in its backlog or being served.       *)
AtTiny(w) == Backlogged(w) \/ tiny.peer = w

(* A worker and its connection to the server.                              *)
LinkInv(w) ==
  /\ AtTiny(w) => /\ worker[w].pc \in {"send", "relay"} /\ Reachable(Conn(w).uri)
                  /\ link[w].open /\ ~link[w].eof /\ ~link[w].rst
  /\ worker[w].pc = "connect" => worker[w].ptr \in 1..2 \cap DOMAIN list(w)
  /\ worker[w].pc = "send" => /\ link[w].lines = <<>> /\ link[w].request = NoRequest
                              /\ ~link[w].eof
                              /\ tiny.peer = w => tiny.pc = "doit"
  /\ worker[w].pc = "relay" => /\ link[w].request.path = Site(w).path
                               /\ link[w].eof => Reachable(Conn(w).uri)

(* The answer on its way: what the client has, what lies in the connection *)
(* and what Tiny is still to write make up the response.                   *)
Arrived(w) == Conn(w).got \o link[w].lines

RelayInv(w) ==
  worker[w].pc = "relay" =>
    /\ Backlogged(w) \/ (tiny.peer = w /\ tiny.pc \in {"doit", "serve_dynamic"}) =>
         Conn(w).got = <<>> /\ link[w].lines = <<>>
    /\ tiny.peer = w /\ tiny.pc # "doit" => Arrived(w) \o tiny.left = Response(Site(w).path)
    /\ tiny.peer = w /\ tiny.pc = "serve_dynamic" => Files[Site(w).path] = "cgi"
    /\ tiny.peer = w /\ tiny.pc = "close" => tiny.left = <<>>
    /\ link[w].eof => Arrived(w) \in Answers(Conn(w).uri)

(* What the worker keeps for the cache.                                    *)
BufferInv(w) ==
  /\ worker[w].pc \notin {"relay", "cache_add", "server_close", "close"} =>
       worker[w].read = <<>> /\ worker[w].n = 0
  /\ Len(worker[w].read) < MAX_OBJECT_SIZE
  /\ worker[w].pc \in {"relay", "cache_add"} =>
       /\ worker[w].n = Len(Conn(w).got)
       /\ worker[w].n < MAX_OBJECT_SIZE => worker[w].read = Conn(w).got
  /\ worker[w].pc = "cache_add" => worker[w].n < MAX_OBJECT_SIZE

(* The request a worker has, and what its client has received.             *)
RequestInv(w) ==
  /\ worker[w].pc \notin {"none", "pop", "request", "close"} =>
       Conn(w).line = "GET" /\ Conn(w).uri \in Uris
  /\ worker[w].pc \in Early => Conn(w).got = <<>>
  /\ worker[w].pc \in {"cache_add", "server_close"} =>
       Reachable(Conn(w).uri) /\ Conn(w).got \in Answers(Conn(w).uri)
  /\ worker[w].pc = "close" => Conn(w).got \in Deserved(serving[w])

WorkerInv(w) == LinkInv(w) /\ RelayInv(w) /\ BufferInv(w) /\ RequestInv(w)

(* The entries are whole answers, and so is what a client has when it is   *)
(* done; a client that asks for a page names one.                          *)
Sound == {e \in Entry : /\ e.uri \in Uris /\ Reachable(e.uri)
                        /\ e.content \in Answers(e.uri)
                        /\ Len(e.content) < MAX_OBJECT_SIZE}

EntryInv == main.pc \in {"accept", "push"} => cache \in Seq(Sound)

ClientInv ==
  \A c \in Conns :
    /\ client[c].line = "GET" => client[c].uri \in Uris
    /\ client[c].state = "closed" => client[c].got \in Deserved(c)

IInv ==
  /\ Types /\ Positions /\ OwnerInv /\ BacklogInv
  /\ Len(cache) <= MaxCache
  /\ ~exited => FreshInv /\ EntryInv /\ ClientInv /\ \A w \in Workers : WorkerInv(w)
-----------------------------------------------------------------------------
(* Sequences: a line that moves from the head of one to the end of the     *)
(* one before it, and what is left of one that is cut.                     *)
LEMMA LineMoves ==
  ASSUME NEW a \in Lines, NEW b \in Lines, b # <<>>
  PROVE  /\ (a \o <<Head(b)>>) \o Tail(b) = a \o b
         /\ Append(a, Head(b)) \o Tail(b) = a \o b
         /\ Head(b) \in Line /\ Tail(b) \in Lines
<1>1. Head(b) \in Line /\ Tail(b) \in Lines /\ b \in Lines /\ a \in Lines
  BY HeadTailProperties DEF Lines
<1>2. <<Head(b)>> \in Lines /\ <<Head(b)>> \o Tail(b) = b
  BY <1>1, HeadTailProperties DEF Lines
<1>3. (a \o <<Head(b)>>) \o Tail(b) = a \o b
  BY <1>1, <1>2, ConcatAssociative
<1>4. Append(a, Head(b)) = a \o <<Head(b)>>
  BY <1>1, AppendIsConcat
<1> QED
  BY <1>1, <1>3, <1>4 DEF Lines

LEMMA FrontIsPrefix ==
  ASSUME NEW a \in Lines, NEW b \in Lines
  PROVE  a \in Prefixes(a \o b) /\ <<>> \in Prefixes(a)
<1>1. Len(a) \in 0..Len(a \o b) /\ SubSeq(a \o b, 1, Len(a)) = a
  BY SubSeqOfConcat1, ConcatProperties, LenProperties DEF Lines
<1>2. 0 \in 0..Len(a) /\ SubSeq(a, 1, 0) = <<>>
  BY SubSeqEmpty, LenProperties DEF Lines
<1> QED
  BY <1>1, <1>2 DEF Prefixes

(* An element that moves to the front, and one that comes in front.        *)
LEMMA ToFront ==
  ASSUME NEW S, NEW s \in Seq(S), NEW i \in DOMAIN s
  PROVE  LET t == <<s[i]>> \o SubSeq(s, 1, i - 1) \o SubSeq(s, i + 1, Len(s))
         IN  t \in Seq(S) /\ Len(t) = Len(s)
<1> DEFINE front == SubSeq(s, 1, i - 1)
           back == SubSeq(s, i + 1, Len(s))
<1>1. i \in 1..Len(s) /\ Len(s) \in Nat /\ <<s[i]>> \in Seq(S) /\ Len(<<s[i]>>) = 1
  BY LenProperties, ElementOfSeq
<1>2. front \in Seq(S) /\ Len(front) = i - 1
  BY <1>1, SubSeqProperties
<1>3. back \in Seq(S) /\ Len(back) = Len(s) - i
  BY <1>1, SubSeqProperties
<1> HIDE DEF front, back
<1>4. <<s[i]>> \o front \in Seq(S) /\ Len(<<s[i]>> \o front) = i
  BY <1>1, <1>2, ConcatProperties
<1>5. <<s[i]>> \o front \o back \in Seq(S) /\ Len(<<s[i]>> \o front \o back) = Len(s)
  BY <1>1, <1>3, <1>4, ConcatProperties
<1> QED
  BY <1>5 DEF front, back

(* A queue of different elements whose head leaves it.                     *)
LEMMA HeadLeaves ==
  ASSUME NEW S, NEW s \in Seq(S), s # <<>>, \A i, j \in DOMAIN s : s[i] = s[j] => i = j
  PROVE  /\ Head(s) \in S /\ Tail(s) \in Seq(S) /\ Len(Tail(s)) <= Len(s)
         /\ \A i, j \in DOMAIN Tail(s) : Tail(s)[i] = Tail(s)[j] => i = j
         /\ \A x : (\E i \in DOMAIN s : s[i] = x) <=>
                   x = Head(s) \/ \E i \in DOMAIN Tail(s) : Tail(s)[i] = x
         /\ \A i \in DOMAIN Tail(s) : Tail(s)[i] # Head(s)
<1>1. /\ Len(s) \in Nat \ {0} /\ DOMAIN s = 1..Len(s) /\ Head(s) = s[1] /\ Head(s) \in S
      /\ Tail(s) \in Seq(S) /\ Len(Tail(s)) = Len(s) - 1
      /\ \A i \in 1..Len(Tail(s)) : Tail(s)[i] = s[i + 1]
  BY HeadTailProperties, LenProperties, EmptySeq
<1>2. DOMAIN Tail(s) = 1..(Len(s) - 1)
  BY <1>1, LenProperties
<1>3. \A i \in DOMAIN s : i = 1 \/ (i - 1 \in DOMAIN Tail(s) /\ Tail(s)[i - 1] = s[i])
  BY <1>1, <1>2
<1>4. \A i \in DOMAIN Tail(s) : i + 1 \in DOMAIN s /\ i + 1 # 1 /\ Tail(s)[i] = s[i + 1]
  BY <1>1, <1>2
<1>5. 1 \in DOMAIN s /\ Len(Tail(s)) <= Len(s)
  BY <1>1
<1>6. \A i, j \in DOMAIN Tail(s) : Tail(s)[i] = Tail(s)[j] => i = j
  BY <1>2, <1>4
<1>7. ASSUME NEW x
      PROVE  (\E i \in DOMAIN s : s[i] = x) <=>
               x = Head(s) \/ \E i \in DOMAIN Tail(s) : Tail(s)[i] = x
  <2>1. ASSUME NEW i \in DOMAIN s, s[i] = x
        PROVE  x = Head(s) \/ \E j \in DOMAIN Tail(s) : Tail(s)[j] = x
    BY <1>1, <1>3, <2>1
  <2>2. ASSUME NEW i \in DOMAIN Tail(s), Tail(s)[i] = x
        PROVE  \E j \in DOMAIN s : s[j] = x
    BY <1>4, <2>2
  <2>3. s[1] = Head(s)
    BY <1>1
  <2> QED
    BY <1>5, <2>1, <2>2, <2>3
<1> QED
  BY <1>1, <1>4, <1>5, <1>6, <1>7

LEMMA NothingYet == <<>> \in Lines /\ <<>> \in Built
<1>1. <<>> \in Built
  BY DEF Built
<1> QED
  BY <1>1 DEF Lines

(* What a site knows of a uri, and that an answer is never empty.          *)
LEMMA UriKnown ==
  ASSUME NEW u \in Uris
  PROVE  /\ parse_uri(u).path \in Paths
         /\ parse_uri(u).host = u.host
         /\ u # NoUri
BY UrisAssumption DEF parse_uri, Paths

LEMMA ResponseType ==
  ASSUME NEW path \in Paths
  PROVE  /\ Response(path) \in Lines
         /\ Response(path) # <<>>
         /\ Files[path] = "cgi" => \E page \in Lines : Response(path) = <<HEADER>> \o page
<1>1. CASE Files[path] \in {"missing", "forbidden"}
  <2>1. Response(path) = <<"404">> \/ Response(path) = <<"403">>
    BY <1>1, Zenon DEF Response
  <2>2. <<"404">> \in Lines /\ <<"403">> \in Lines
    BY DEF Lines, Line
  <2>3. Response(path) # <<>>
    BY <2>1
  <2> QED
    BY <1>1, <2>1, <2>2, <2>3, Zenon
<1>2. CASE Files[path] \notin {"missing", "forbidden"}
  <2>1. Pages[path] \in Seq(STRING)
    BY <1>2, FilesAssumption DEF Paths
  <2>2. Response(path) = <<HEADER>> \o Pages[path]
    BY <1>2, Zenon DEF Response
  <2>3. Range(Pages[path]) \subseteq Line
    BY <1>2, FilesAssumption DEF Line, Texts, Paths
  <2>4. Pages[path] \in Lines
    BY <2>1, <2>3, SeqOfRange, SeqMonotonic DEF Lines
  <2>5. <<HEADER>> \in Lines
    BY DEF Lines, Line
  <2>6. <<HEADER>> \o Pages[path] \in Lines /\ <<HEADER>> \o Pages[path] # <<>>
    BY <2>4, <2>5, ConcatProperties, ConcatEqualIffEmpty DEF Lines
  <2> QED
    BY <2>2, <2>4, <2>6
<1> QED
  BY <1>1, <1>2, FilesAssumption DEF Paths

(* Answers only grow: while Tiny lives there is one, and when it has died  *)
(* what it had written is one.                                             *)
LEMMA AnswersKept ==
  ASSUME NEW u, Alive' = Alive
  PROVE  Answers(u)' = Answers(u)
BY DEF Answers

LEMMA AnswersGrow ==
  ASSUME NEW u \in Uris, Alive, ~Alive'
  PROVE  Answers(u) \subseteq Answers(u)'
<1>1. Response(parse_uri(u).path) \in Lines
  BY UriKnown, ResponseType
<1>2. Response(parse_uri(u).path) \in Prefixes(Response(parse_uri(u).path))
  <2>1. <<>> \in Lines /\ Response(parse_uri(u).path) \o <<>> = Response(parse_uri(u).path)
    BY <1>1, ConcatEmptySeq DEF Lines
  <2> QED
    BY <1>1, <2>1, FrontIsPrefix
<1> QED
  BY <1>2 DEF Answers

LEMMA DeservedIs ==
  ASSUME NEW c
  PROVE  /\ client[c].line \in {"eof", "bad"} => <<>> \in Deserved(c)
         /\ client[c].line = "POST" => <<"501">> \in Deserved(c)
         /\ client[c].line = "GET" /\ Reachable(client[c].uri) =>
              Answers(client[c].uri) \subseteq Deserved(c)
         /\ client[c].line = "GET" /\ ~(Reachable(client[c].uri) /\ Alive) => <<>> \in Deserved(c)
<1>1. client[c].line \in {"eof", "bad"} => Deserved(c) = {<<>>}
  BY Zenon DEF Deserved
<1>2. client[c].line = "POST" => Deserved(c) = {<<"501">>}
  BY Zenon DEF Deserved
<1>3. client[c].line = "GET" /\ Reachable(client[c].uri) =>
        Deserved(c) = Answers(client[c].uri) \cup (IF Alive THEN {} ELSE {<<>>})
  BY Zenon DEF Deserved
<1>4. client[c].line = "GET" /\ ~Reachable(client[c].uri) => Deserved(c) = {<<>>}
  BY Zenon DEF Deserved
<1> QED
  BY <1>1, <1>2, <1>3, <1>4

LEMMA DeservedKept ==
  ASSUME NEW c, client'[c].line = client[c].line, client'[c].uri = client[c].uri, Alive' = Alive
  PROVE  Deserved(c)' = Deserved(c)
BY AnswersKept DEF Deserved, Alive

LEMMA DeservedGrows ==
  ASSUME NEW c \in Conns, client' = client, client[c].line = "GET" => client[c].uri \in Uris,
         Alive, ~Alive'
  PROVE  Deserved(c) \subseteq Deserved(c)'
BY AnswersGrow DEF Deserved
-----------------------------------------------------------------------------
(* A worker that stands still, whose client, connection and place at Tiny  *)
(* stay, keeps its invariant.                                              *)
LEMMA WorkerFrame ==
  ASSUME NEW v \in Workers, Types, Positions, WorkerInv(v),
         worker'[v] = worker[v], serving'[v] = serving[v], link'[v] = link[v],
         serving[v] \in Conns => /\ client'[serving[v]].line = client[serving[v]].line
                                 /\ client'[serving[v]].uri = client[serving[v]].uri
                                 /\ client'[serving[v]].got = client[serving[v]].got,
         Backlogged(v)' <=> Backlogged(v),
         tiny' = tiny \/ (tiny.peer # v /\ tiny'.peer # v /\ Alive' = Alive)
  PROVE  WorkerInv(v)'
<1>1. worker[v].pc \notin {"none", "pop"} => serving[v] \in Conns
  BY DEF Types, ProxyTypes, Positions
<1>2. Alive' = Alive
  BY DEF Alive
<1>3. LinkInv(v)'
  BY <1>1 DEF WorkerInv, LinkInv, AtTiny, Conn, Site, list
<1>4. RelayInv(v)'
  <2>1. Answers(Conn(v).uri)' = Answers(Conn(v)'.uri)
    BY <1>2 DEF Answers
  <2> QED
    BY <1>1, <2>1 DEF WorkerInv, RelayInv, Conn, Site, Arrived
<1>5. BufferInv(v)'
  BY <1>1 DEF WorkerInv, BufferInv, Conn
<1>6. RequestInv(v)'
  <2>1. worker[v].pc \notin {"none", "pop"} => Deserved(serving[v])' = Deserved(serving[v])
    BY <1>1, <1>2, DeservedKept
  <2>2. Answers(Conn(v).uri)' = Answers(Conn(v)'.uri)
    BY <1>2 DEF Answers
  <2> QED
    BY <1>1, <2>1, <2>2 DEF WorkerInv, RequestInv, Conn, Early
<1> QED
  BY <1>3, <1>4, <1>5, <1>6 DEF WorkerInv

(* What a step within a request does to the rest: w goes on, its client    *)
(* may receive something, and its connection to the server may change.     *)
InRequest == Labels \ {"none", "pop"}

Within(w) ==
  /\ worker[w].pc \in InRequest
  /\ UNCHANGED <<main, fifo, serving, exited, tiny>>
  /\ worker' \in [Workers -> Worker] /\ worker'[w].pc \in InRequest
  /\ client' \in [Conns -> Client]
  /\ \A c \in Conns : /\ client'[c].state = client[c].state
                      /\ client'[c].line = client[c].line
                      /\ client'[c].uri = client[c].uri
                      /\ c # serving[w] => client'[c].got = client[c].got
  /\ \A v \in Workers \ {w} : /\ worker'[v] = worker[v] /\ link'[v] = link[v]
                              /\ Backlogged(v)' <=> Backlogged(v)

LEMMA WithinKeeps ==
  ASSUME IInv, ~exited, NEW w \in Workers, Within(w)
  PROVE  /\ Positions' /\ OwnerInv' /\ FreshInv' /\ ClientInv'
         /\ \A v \in Workers \ {w} : WorkerInv(v)'
         /\ main.pc \in {"accept", "push"} /\ serving[w] \in Conns
<1> USE DEF IInv, Within, InRequest
<1>1. serving[w] \in Conns /\ client[serving[w]].state = "open" /\ main.conn # serving[w]
      /\ ~Queued(serving[w])
  BY DEF Types, ProxyTypes, Positions, OwnerInv, Queued
<1>2. main.pc \in {"accept", "push"}
  BY DEF Types, ProxyTypes, Positions, MainPcs
<1>3. OwnerInv'
  BY DEF OwnerInv, Queued
<1>4. FreshInv'
  BY <1>1 DEF FreshInv, Queued
<1>5. ClientInv'
  <2> SUFFICES ASSUME NEW c \in Conns, ClientInv
               PROVE  /\ (client[c].line = "GET" => client[c].uri \in Uris)'
                      /\ (client[c].state = "closed" => client[c].got \in Deserved(c))'
    BY DEF ClientInv
  <2>1. Deserved(c)' = Deserved(c)
    BY DeservedKept DEF Alive
  <2> QED
    BY <1>1, <2>1 DEF ClientInv
<1>6. ASSUME NEW v \in Workers \ {w} PROVE WorkerInv(v)'
  <2>1. serving[v] \in Conns => serving[v] # serving[w]
    BY <1>1, NoConnAssumption DEF OwnerInv
  <2>2. WorkerInv(v)
    OBVIOUS
  <2> QED
    BY <2>1, <2>2, WorkerFrame
<1>7. Positions'
  BY <1>2 DEF Positions
<1> QED
  BY <1>1, <1>2, <1>3, <1>4, <1>5, <1>6, <1>7

LEMMA WithinInv ==
  ASSUME IInv, ~exited, NEW w \in Workers, Within(w), WorkerInv(w)', TinyTypes', BacklogInv',
         cache' = cache \/ (cache' \in Seq(Entry) /\ Len(cache') <= MaxCache /\ EntryInv')
  PROVE  IInv'
<1>1. Types'
  BY DEF IInv, Types, ProxyTypes, Within
<1>2. Len(cache') <= MaxCache /\ EntryInv'
  <2>1. CASE cache' = cache
    BY <2>1 DEF IInv, EntryInv, Within, Sound, Answers, Alive
  <2> QED
    BY <2>1
<1> QED
  BY <1>1, <1>2, WithinKeeps DEF IInv

(* The steps that touch neither the cache nor a connection to the server.  *)
LEMMA QuietInv ==
  ASSUME IInv, ~exited, NEW w \in Workers, Within(w), WorkerInv(w)', UNCHANGED <<cache, tinyVars>>
  PROVE  IInv'
<1>1. TinyTypes' /\ BacklogInv'
  BY DEF IInv, Types, TinyTypes, BacklogInv, Backlogged, Alive, tinyVars
<1> QED
  BY <1>1, WithinInv

LEMMA ExitInv ==
  ASSUME IInv, ~exited, Exit
  PROVE  IInv'
<1>1. Types'
  <2>1. main' \in [pc : MainPcs, conn : Conns \cup {NoConn}] /\ fifo' \in Seq(Conns)
        /\ Len(fifo') <= Cap /\ serving' \in [Workers -> Conns \cup {NoConn}]
        /\ exited' \in BOOLEAN
    BY CapAssumption DEF Exit, MainPcs
  <2>2. client' \in [Conns -> Client]
    BY ZenonT(60) DEF IInv, Types, ProxyTypes, Exit, Client
  <2>3. worker' \in [Workers -> Worker]
    BY NothingYet DEF Exit, Worker, Idle, Labels
  <2>4. cache' \in Seq(Entry)
    <3>1. [uri |-> NoUri, content |-> <<>>] \in Entry
      BY NothingYet DEF Entry
    <3> QED
      BY <3>1 DEF Exit, Unready
  <2>5. TinyTypes'
    BY DEF IInv, Types, TinyTypes, Exit, Link, Workers
  <2> QED
    BY <2>1, <2>2, <2>3, <2>4, <2>5 DEF Types, ProxyTypes
<1>2. Positions'
  BY DEF IInv, Positions, Exit, Idle, Types, ProxyTypes, Client
<1>3. OwnerInv'
  BY NoConnAssumption DEF IInv, OwnerInv, Queued, Exit, Types, ProxyTypes, Client
<1>4. BacklogInv'
  BY DEF IInv, BacklogInv, Backlogged, Alive, Exit
<1>5. Len(cache') <= MaxCache
  BY SizeAssumption DEF Exit, Unready
<1>6. exited'
  BY DEF Exit
<1> QED
  BY <1>1, <1>2, <1>3, <1>4, <1>5, <1>6 DEF IInv
-----------------------------------------------------------------------------
(* The worker: a request, from its first line to its end.                  *)
LEMMA InHand ==
  ASSUME IInv, NEW w \in Workers, ~exited, worker[w].pc \notin {"none", "pop"}
  PROVE  /\ worker \in [Workers -> Worker] /\ worker[w] \in Worker /\ worker[w].pc \in InRequest
         /\ client \in [Conns -> Client] /\ serving[w] \in Conns
         /\ client[serving[w]] \in Client /\ link[w] \in Link /\ cache \in Seq(Entry)
         /\ main.pc \in {"accept", "push"}
         /\ Conn(w).line \in {"eof", "bad", "POST", "GET"}
         /\ WorkerInv(w) /\ LinkInv(w) /\ RelayInv(w) /\ BufferInv(w) /\ RequestInv(w)
BY RequestsAssumption
   DEF IInv, Types, ProxyTypes, TinyTypes, Positions, WorkerInv, InRequest, Worker, Workers,
       MainPcs, Client, Conn

(* Where it goes, and what it writes to the client.                        *)
Received(w, lines) ==
  /\ client' \in [Conns -> Client]
  /\ \A c \in Conns : c # serving[w] => client'[c] = client[c]
  /\ client'[serving[w]].got = Conn(w).got \o lines
  /\ client'[serving[w]].state = Conn(w).state /\ client'[serving[w]].line = Conn(w).line
  /\ client'[serving[w]].uri = Conn(w).uri

LEMMA SentWhat ==
  ASSUME client \in [Conns -> Client], NEW w \in Workers, serving[w] \in Conns,
         NEW lines \in Lines, Sent(w, lines)
  PROVE  Received(w, lines)
<1>1. Conn(w).got \o lines \in Lines
  BY ConcatProperties DEF Client, Conn, Lines
<1> QED
  BY <1>1, ZenonT(60) DEF Sent, Received, Conn, Client

LEMMA GoesTo ==
  ASSUME worker \in [Workers -> Worker], NEW w \in Workers, NEW l \in InRequest, Goto(w, l)
  PROVE  /\ worker' \in [Workers -> Worker] /\ worker'[w].pc = l
         /\ worker'[w].ptr = worker[w].ptr /\ worker'[w].headers = worker[w].headers
         /\ worker'[w].read = worker[w].read /\ worker'[w].n = worker[w].n
         /\ \A v \in Workers \ {w} : worker'[v] = worker[v]
BY DEF Goto, Worker, InRequest

LEMMA WithinStep ==
  ASSUME IInv, NEW w \in Workers, worker[w].pc \in InRequest,
         UNCHANGED <<main, fifo, serving, exited, tiny>>,
         worker' \in [Workers -> Worker], worker'[w].pc \in InRequest,
         \A v \in Workers \ {w} : worker'[v] = worker[v],
         client' = client \/ \E lines \in Lines : Received(w, lines),
         \A v \in Workers \ {w} : link'[v] = link[v] /\ (Backlogged(v)' <=> Backlogged(v))
  PROVE  Within(w)
BY DEF Within, Received, IInv, Types, ProxyTypes, Conn

(* A worker outside its exchange with the server has nothing there.        *)
LEMMA Elsewhere ==
  ASSUME NEW w \in Workers, LinkInv(w), worker'[w].pc \notin {"connect", "send", "relay"},
         ~AtTiny(w)'
  PROVE  LinkInv(w)' /\ RelayInv(w)'
BY DEF LinkInv, RelayInv

LEMMA ReadRequestLineInv ==
  ASSUME IInv, NEW w \in Workers, ReadRequestLine(w)
  PROVE  IInv'
<1>1. ~exited /\ worker[w].pc = "request"
  BY DEF ReadRequestLine, At, Running
<1> USE InHand
<1>2. CASE Conn(w).reset
  BY <1>1, <1>2, ExitInv DEF ReadRequestLine
<1>3. CASE ~Conn(w).reset
  <2>1. UNCHANGED <<main, fifo, serving, cache, exited, tinyVars>>
    BY <1>3 DEF ReadRequestLine
  <2>2. Conn(w).line \in {"eof", "bad"} => Goto(w, "close") /\ UNCHANGED client
    BY <1>3, Zenon DEF ReadRequestLine
  <2>3. Conn(w).line = "POST" => Goto(w, "close") /\ Sent(w, <<"501">>)
    BY <1>3, Zenon DEF ReadRequestLine
  <2>4. Conn(w).line = "GET" => Goto(w, "cache_src") /\ UNCHANGED client
    BY <1>3, Zenon DEF ReadRequestLine
  <2>5. Conn(w).got = <<>> /\ worker[w].read = <<>> /\ worker[w].n = 0 /\ ~AtTiny(w)
        /\ Len(worker[w].read) < MAX_OBJECT_SIZE
    BY <1>1 DEF RequestInv, BufferInv, LinkInv, Early
  <2> DEFINE l == IF Conn(w).line = "GET" THEN "cache_src" ELSE "close"
  <2>6. Goto(w, l)
    BY <1>1, <2>2, <2>3, <2>4
  <2>7. /\ worker' \in [Workers -> Worker] /\ worker'[w].pc = l
        /\ worker'[w].read = <<>> /\ worker'[w].n = 0
        /\ \A v \in Workers \ {w} : worker'[v] = worker[v]
    <3>1. l \in InRequest
      BY DEF InRequest, Labels
    <3> HIDE DEF l
    <3> QED
      BY <1>1, <2>5, <2>6, <3>1, GoesTo
  <2>8. <<"501">> \in Lines /\ <<>> \o <<"501">> = <<"501">>
    BY DEF Lines, Line
  <2>9. client' = client \/ Received(w, <<"501">>)
    BY <1>1, <2>2, <2>3, <2>4, <2>8, SentWhat
  <2>10. Within(w)
    BY <1>1, <2>1, <2>7, <2>8, <2>9, WithinStep DEF InRequest, Labels, tinyVars, Backlogged
  <2>11. LinkInv(w)' /\ RelayInv(w)'
    BY <1>1, <2>1, <2>5, <2>7, Elsewhere DEF AtTiny, Backlogged, tinyVars
  <2>12. BufferInv(w)'
    BY <2>5, <2>7 DEF BufferInv
  <2>13. RequestInv(w)'
    <3>1. Conn(w)'.line = Conn(w).line /\ Conn(w)'.uri = Conn(w).uri
      BY <2>1, <2>9 DEF Conn, Received
    <3>2. Deserved(serving[w])' = Deserved(serving[w])
      BY <2>1, <3>1, DeservedKept DEF Conn, Alive, tinyVars
    <3>3. CASE l = "cache_src"
      <4>1. client' = client /\ Conn(w).uri \in Uris
        BY <1>1, <2>4, <3>3 DEF IInv, ClientInv, Conn
      <4> QED
        BY <2>1, <2>5, <2>7, <3>3, <4>1 DEF RequestInv, Conn
    <3>4. CASE l = "close"
      <4>1. Conn(w)'.got \in Deserved(serving[w])
        <5>1. CASE Conn(w).line \in {"eof", "bad"}
          <6>1. Conn(w)'.got = <<>> /\ <<>> \in Deserved(serving[w])
            BY <2>1, <2>2, <2>5, <5>1, DeservedIs DEF Conn
          <6> QED
            BY <6>1
        <5>2. CASE Conn(w).line = "POST"
          <6>1. Received(w, <<"501">>) /\ <<"501">> \in Deserved(serving[w])
            BY <1>1, <2>3, <2>8, <5>2, SentWhat, DeservedIs DEF Conn
          <6> QED
            BY <2>1, <2>5, <2>8, <6>1 DEF Conn, Received
        <5> QED
          BY <1>1, <3>4, <5>1, <5>2 DEF Client, Conn, IInv, Types, ProxyTypes
      <4> QED
        BY <2>1, <2>7, <3>2, <3>4, <4>1 DEF RequestInv, Conn, Early
    <3> QED
      BY <3>3, <3>4
  <2> QED
    BY <1>1, <2>1, <2>10, <2>11, <2>12, <2>13, QuietInv DEF WorkerInv
<1> QED
  BY <1>1, <1>2, <1>3

LEMMA CacheHitInv ==
  ASSUME IInv, NEW w \in Workers, CacheHit(w)
  PROVE  IInv'
<1>1. ~exited /\ worker[w].pc = "cache_src"
  BY DEF CacheHit, CacheHitThen, At, Running
<1> USE InHand
<1>2. PICK i \in Entries(Conn(w).uri) :
        IF Conn(w).reset THEN Exit
        ELSE /\ Sent(w, cache[i].content)
             /\ cache' = <<cache[i]>> \o SubSeq(cache, 1, i - 1) \o SubSeq(cache, i + 1, Len(cache))
             /\ Goto(w, "close")
             /\ UNCHANGED <<main, fifo, serving, exited, tinyVars>>
  BY DEF CacheHit, CacheHitThen
<1>3. CASE Conn(w).reset
  BY <1>1, <1>2, <1>3, ExitInv
<1>4. CASE ~Conn(w).reset
  <2>1. UNCHANGED <<main, fifo, serving, exited, tinyVars>> /\ Goto(w, "close")
    BY <1>2, <1>4
  <2>2. Conn(w).got = <<>> /\ worker[w].read = <<>> /\ ~AtTiny(w) /\ Conn(w).line = "GET"
        /\ Len(worker[w].read) < MAX_OBJECT_SIZE
    BY <1>1 DEF RequestInv, BufferInv, LinkInv, Early
  <2>3. /\ worker' \in [Workers -> Worker] /\ worker'[w].pc = "close"
        /\ worker'[w].read = worker[w].read
        /\ \A v \in Workers \ {w} : worker'[v] = worker[v]
    BY <1>1, <2>1, GoesTo DEF InRequest, Labels
  <2>4. i \in DOMAIN cache /\ cache[i].uri = Conn(w).uri /\ cache \in Seq(Sound)
    BY <1>1 DEF Entries, IInv, EntryInv
  <2>5. cache[i] \in Sound
    BY <2>4, ElementOfSeq, LenProperties
  <2>6. cache' \in Seq(Sound) /\ cache' \in Seq(Entry) /\ Len(cache') = Len(cache)
    <3>1. cache \in Seq(Entry) /\ cache \in Seq(Sound) /\ i \in DOMAIN cache
      BY <1>1, <2>4
    <3>2. cache' = <<cache[i]>> \o SubSeq(cache, 1, i - 1) \o SubSeq(cache, i + 1, Len(cache))
      BY <1>2, <1>4
    <3> QED
      BY <3>1, <3>2, ToFront, ZenonT(60)
  <2>7. Received(w, cache[i].content) /\ cache[i].content \in Lines
        /\ Conn(w).got \o cache[i].content = cache[i].content
    BY <1>1, <1>2, <1>4, <2>2, <2>5, SentWhat, ConcatEmptySeq DEF Sound, Entry, Lines
  <2>8. Within(w)
    BY <1>1, <2>1, <2>3, <2>7, WithinStep DEF InRequest, Labels, tinyVars, Backlogged
  <2>9. LinkInv(w)' /\ RelayInv(w)'
    BY <1>1, <2>1, <2>2, <2>3, Elsewhere DEF AtTiny, Backlogged, tinyVars
  <2>10. BufferInv(w)'
    BY <2>2, <2>3 DEF BufferInv
  <2>11. RequestInv(w)'
    <3>1. Deserved(serving[w])' = Deserved(serving[w])
      BY <1>1, <2>1, <2>7, DeservedKept DEF Conn, Received, Alive, tinyVars
    <3>2. cache[i].content \in Deserved(serving[w])
      BY <2>2, <2>4, <2>5, DeservedIs DEF Conn, Sound
    <3> QED
      BY <2>1, <2>3, <2>7, <3>1, <3>2 DEF RequestInv, Conn, Received, Early
  <2>12. TinyTypes' /\ BacklogInv'
    BY <2>1 DEF IInv, Types, TinyTypes, BacklogInv, Backlogged, Alive, tinyVars
  <2>13. EntryInv'
    BY <2>1, <2>6 DEF EntryInv, Sound, Answers, Alive, tinyVars
  <2> QED
    BY <1>1, <2>6, <2>8, <2>9, <2>10, <2>11, <2>12, <2>13, WithinInv DEF WorkerInv, IInv
<1> QED
  BY <1>3, <1>4

LEMMA CacheMissInv ==
  ASSUME IInv, NEW w \in Workers, CacheMiss(w)
  PROVE  IInv'
<1>1. ~exited /\ worker[w].pc = "cache_src" /\ Goto(w, "headers")
      /\ UNCHANGED <<main, client, fifo, serving, cache, exited, tinyVars>>
  BY DEF CacheMiss, At, Running
<1> USE InHand
<1>2. /\ worker' \in [Workers -> Worker] /\ worker'[w].pc = "headers"
      /\ worker'[w].read = worker[w].read /\ worker'[w].n = worker[w].n
      /\ \A v \in Workers \ {w} : worker'[v] = worker[v]
  BY <1>1, GoesTo DEF InRequest, Labels
<1>3. Within(w)
  BY <1>1, <1>2, WithinStep DEF InRequest, Labels, tinyVars, Backlogged
<1>4. ~AtTiny(w) /\ ~AtTiny(w)'
  BY <1>1 DEF LinkInv, AtTiny, Backlogged, tinyVars
<1>5. LinkInv(w)' /\ RelayInv(w)'
  BY <1>1, <1>2, <1>4, Elsewhere
<1>6. BufferInv(w)' /\ RequestInv(w)'
  BY <1>1, <1>2 DEF BufferInv, RequestInv, Conn, Early
<1> QED
  BY <1>1, <1>3, <1>5, <1>6, QuietInv DEF WorkerInv

LEMMA BuildHeadersInv ==
  ASSUME IInv, NEW w \in Workers, BuildHeaders(w)
  PROVE  IInv'
<1>1. ~exited /\ worker[w].pc = "headers"
  BY DEF BuildHeaders, At, Running
<1> USE InHand
<1>2. CASE Conn(w).reset
  BY <1>1, <1>2, ExitInv DEF BuildHeaders
<1>3. CASE ~Conn(w).reset
  <2>1. PICK other \in Leftovers :
          /\ worker' = [worker EXCEPT
               ![w].headers = build_headers(Site(w).host, Conn(w).headers, other),
               ![w].pc = "getaddrinfo"]
          /\ UNCHANGED <<main, client, fifo, serving, cache, exited, tinyVars>>
    BY <1>3 DEF BuildHeaders
  <2> DEFINE lines == build_headers(Site(w).host, Conn(w).headers, other)
  <2>2. lines \in Built
    <3>1. Conn(w).uri \in Uris /\ Site(w).host = Conn(w).uri.host
          /\ Conn(w).headers \in Headers \cup {<<>>}
      BY <1>1, UriKnown DEF RequestInv, Site, Conn, Client
    <3>2. \A u \in Uris, hdrs \in Headers \cup {<<>>} :
            build_headers(u.host, hdrs, other) \in HostLines
      BY DEF HostLines
    <3> QED
      BY <3>1, <3>2 DEF Built
  <2> HIDE DEF lines
  <2>3. /\ worker' \in [Workers -> Worker] /\ worker'[w].pc = "getaddrinfo"
        /\ worker'[w].read = worker[w].read /\ worker'[w].n = worker[w].n
        /\ \A v \in Workers \ {w} : worker'[v] = worker[v]
    <3>1. worker' = [worker EXCEPT ![w].headers = lines, ![w].pc = "getaddrinfo"]
      BY <2>1 DEF lines
    <3> QED
      BY <1>1, <2>2, <3>1 DEF Worker, Labels
  <2>4. Within(w)
    BY <1>1, <2>1, <2>3, WithinStep DEF InRequest, Labels, tinyVars, Backlogged
  <2>5. ~AtTiny(w) /\ ~AtTiny(w)'
    BY <1>1, <2>1 DEF LinkInv, AtTiny, Backlogged, tinyVars
  <2>6. LinkInv(w)' /\ RelayInv(w)'
    BY <1>1, <2>3, <2>5, Elsewhere
  <2>7. BufferInv(w)' /\ RequestInv(w)'
    BY <1>1, <2>1, <2>3 DEF BufferInv, RequestInv, Conn, Early
  <2> QED
    BY <1>1, <2>1, <2>4, <2>6, <2>7, QuietInv DEF WorkerInv
<1> QED
  BY <1>2, <1>3

LEMMA GetAddrInfoInv ==
  ASSUME IInv, NEW w \in Workers, GetAddrInfo(w)
  PROVE  IInv'
<1>1. ~exited /\ worker[w].pc = "getaddrinfo"
      /\ UNCHANGED <<main, client, fifo, serving, cache, exited, tinyVars>>
      /\ worker' = [worker EXCEPT ![w].ptr = 1,
                                  ![w].pc = IF list(w) = <<>> THEN "close" ELSE "connect"]
  BY DEF GetAddrInfo, At, Running
<1> USE InHand
<1> DEFINE l == IF list(w) = <<>> THEN "close" ELSE "connect"
<1>2. l \in InRequest
  BY DEF InRequest, Labels
<1>3. /\ worker' \in [Workers -> Worker] /\ worker'[w].pc = l /\ worker'[w].ptr = 1
      /\ worker'[w].read = worker[w].read /\ worker'[w].n = worker[w].n
      /\ \A v \in Workers \ {w} : worker'[v] = worker[v]
  <2>1. worker' = [worker EXCEPT ![w].ptr = 1, ![w].pc = l]
    BY <1>1
  <2> HIDE DEF l
  <2> QED
    BY <1>1, <1>2, <2>1 DEF Worker, InRequest
<1>4. Within(w)
  BY <1>1, <1>2, <1>3, WithinStep DEF InRequest, Labels, tinyVars, Backlogged
<1>5. ~AtTiny(w) /\ ~AtTiny(w)'
  BY <1>1 DEF LinkInv, AtTiny, Backlogged, tinyVars
<1>6. Conn(w).uri \in Uris /\ Conn(w).line = "GET" /\ Conn(w).got = <<>>
      /\ list(w) \in Seq({"up", "down", "silent"}) /\ list(w) = Addresses[Conn(w).uri.host]
  BY <1>1, UriKnown, UrisAssumption DEF RequestInv, Early, list, Site, Conn
<1>7. LinkInv(w)' /\ RelayInv(w)'
  <2>1. CASE list(w) = <<>>
    BY <1>1, <1>3, <1>5, <2>1, Elsewhere
  <2>2. CASE list(w) # <<>>
    <3>1. 1 \in 1..2 \cap DOMAIN list(w)
      BY <1>6, <2>2, EmptySeq, LenProperties
    <3>2. list(w)' = list(w)
      BY <1>1 DEF list, Site, Conn
    <3> QED
      BY <1>3, <1>5, <2>2, <3>1, <3>2 DEF LinkInv, RelayInv
  <2> QED
    BY <2>1, <2>2
<1>8. BufferInv(w)'
  BY <1>1, <1>3 DEF BufferInv
<1>9. RequestInv(w)'
  <2>1. CASE list(w) = <<>>
    <3>1. ~Reachable(Conn(w).uri)
      BY <1>6, <2>1 DEF Reachable
    <3>2. <<>> \in Deserved(serving[w]) /\ Deserved(serving[w])' = Deserved(serving[w])
      BY <1>1, <1>6, <3>1, DeservedIs, DeservedKept DEF Conn, Alive, tinyVars
    <3> QED
      BY <1>1, <1>3, <1>6, <2>1, <3>2 DEF RequestInv, Conn, Early
  <2>2. CASE list(w) # <<>>
    BY <1>1, <1>3, <2>2 DEF RequestInv, Conn, Early
  <2> QED
    BY <2>1, <2>2
<1> QED
  BY <1>1, <1>4, <1>7, <1>8, <1>9, QuietInv DEF WorkerInv

(* The next address: it takes the connection into its backlog, or lets it  *)
(* hang, or refuses it.                                                    *)
LEMMA ConnectServerInv ==
  ASSUME IInv, NEW w \in Workers, ConnectServer(w)
  PROVE  IInv'
<1>1. ~exited /\ worker[w].pc = "connect"
      /\ UNCHANGED <<main, client, fifo, serving, cache, exited, tiny>>
  BY DEF ConnectServer, At, Running
<1> USE InHand
<1> DEFINE address == list(w)[worker[w].ptr]
<1>2. Conn(w).uri \in Uris /\ Conn(w).line = "GET" /\ Conn(w).got = <<>>
      /\ list(w) \in Seq({"up", "down", "silent"}) /\ list(w) = Addresses[Conn(w).uri.host]
      /\ worker[w].ptr \in 1..2 \cap DOMAIN list(w) /\ ~AtTiny(w)
      /\ worker[w].read = <<>> /\ worker[w].n = 0
  BY <1>1, UriKnown, UrisAssumption DEF RequestInv, BufferInv, LinkInv, Early, list, Site, Conn
<1>3. Alive' = Alive
  BY <1>1 DEF Alive
<1>4. CASE Goto(w, "send") /\ link' = [link EXCEPT ![w] = NewLink]
           /\ (backlog' = backlog \/ (backlog' = Append(backlog, w) /\ Reachable(Conn(w).uri) /\ Alive))
  <2>1. /\ worker' \in [Workers -> Worker] /\ worker'[w].pc = "send"
        /\ worker'[w].read = worker[w].read /\ worker'[w].n = worker[w].n
        /\ \A v \in Workers \ {w} : worker'[v] = worker[v]
    BY <1>1, <1>4, GoesTo DEF InRequest, Labels
  <2>2. TinyTypes' /\ BacklogInv' /\ \A v \in Workers \ {w} : Backlogged(v)' <=> Backlogged(v)
    <3>1. link' \in [Peers -> Link]
      BY <1>4, NothingYet DEF IInv, Types, TinyTypes, NewLink, NoLink, Link
    <3>2. CASE backlog' = backlog
      BY <1>1, <1>3, <3>1, <3>2
         DEF IInv, Types, TinyTypes, BacklogInv, Backlogged, Alive
    <3>3. CASE backlog' = Append(backlog, w) /\ Alive
      <4>1. /\ backlog' \in Seq(Peers) /\ Len(backlog') = Len(backlog) + 1
            /\ backlog \in Seq(Peers) /\ backlog'[Len(backlog) + 1] = w
            /\ \A i \in 1..Len(backlog) : backlog'[i] = backlog[i]
        BY <3>3, AppendProperties DEF IInv, Types, TinyTypes, Workers
      <4>2. DOMAIN backlog = 1..Len(backlog) /\ DOMAIN backlog' = 1..(Len(backlog) + 1)
            /\ Len(backlog) \in Nat
        BY <4>1, LenProperties
      <4>3. \A v \in Peers \cup {NoPeer} : Backlogged(v)' <=> Backlogged(v) \/ v = w
        BY <4>1, <4>2 DEF Backlogged
      <4>4. tiny.peer \in Peers \cup {NoPeer} /\ tiny.peer # w
        BY <1>2 DEF IInv, Types, TinyTypes, AtTiny
      <4>5. BacklogInv'
        <5>1. \A i, j \in DOMAIN backlog' : backlog'[i] = backlog'[j] => i = j
          BY <1>2, <4>1, <4>2 DEF IInv, BacklogInv, AtTiny, Backlogged
        <5>2. ~Backlogged(tiny.peer)'
          BY <1>1, <4>3, <4>4 DEF IInv, BacklogInv
        <5> QED
          BY <1>3, <3>3, <5>1, <5>2 DEF BacklogInv
      <4> QED
        BY <1>1, <3>1, <4>1, <4>3, <4>5 DEF IInv, Types, TinyTypes, Workers
    <3> QED
      BY <1>4, <3>2, <3>3
  <2>3. Within(w)
    BY <1>1, <1>4, <2>1, <2>2, WithinStep DEF InRequest, Labels
  <2>4. LinkInv(w)'
    <3>1. tiny'.peer # w
      BY <1>1, <1>2 DEF AtTiny
    <3>2. AtTiny(w)' => Reachable(Conn(w).uri)'
      <4>1. CASE backlog' = backlog
        BY <1>1, <1>2, <4>1 DEF AtTiny, Backlogged
      <4>2. CASE Reachable(Conn(w).uri)
        BY <1>1, <4>2 DEF Conn
      <4> QED
        BY <1>4, <4>1, <4>2
    <3>3. link'[w] = NewLink
      BY <1>4 DEF IInv, Types, TinyTypes, Workers
    <3> QED
      BY <2>1, <3>1, <3>2, <3>3 DEF LinkInv, NewLink, NoLink
  <2>5. RelayInv(w)' /\ BufferInv(w)' /\ RequestInv(w)'
    BY <1>1, <1>2, <2>1 DEF RelayInv, BufferInv, RequestInv, Conn, Early
  <2> QED
    BY <1>1, <2>2, <2>3, <2>4, <2>5, WithinInv DEF WorkerInv
<1>5. CASE UNCHANGED <<link, backlog>> /\ ~(address = "up" /\ Alive)
           /\ IF Len(list(w)) = 1 THEN Goto(w, "close")
              ELSE worker' = [worker EXCEPT ![w].ptr = 2]
  <2>1. UNCHANGED tinyVars
    BY <1>1, <1>5 DEF tinyVars
  <2>2. DOMAIN list(w) = 1..Len(list(w)) /\ Len(list(w)) \in Nat
    BY <1>2, LenProperties
  <2>3. ~AtTiny(w)'
    BY <1>2, <2>1 DEF AtTiny, Backlogged, tinyVars
  <2>4. CASE Len(list(w)) = 1
    <3>1. /\ worker' \in [Workers -> Worker] /\ worker'[w].pc = "close"
          /\ worker'[w].read = worker[w].read /\ worker'[w].n = worker[w].n
          /\ \A v \in Workers \ {w} : worker'[v] = worker[v]
      BY <1>1, <1>5, <2>4, GoesTo DEF InRequest, Labels
    <3>2. Within(w)
      BY <1>1, <2>1, <3>1, WithinStep DEF InRequest, Labels, tinyVars, Backlogged
    <3>3. ~(Reachable(Conn(w).uri) /\ Alive)
      <4>1. 1..2 \cap DOMAIN list(w) = {1}
        BY <2>2, <2>4
      <4> QED
        BY <1>2, <1>5, <4>1 DEF Reachable
    <3>4. <<>> \in Deserved(serving[w]) /\ Deserved(serving[w])' = Deserved(serving[w])
      BY <1>1, <1>2, <1>3, <3>3, DeservedIs, DeservedKept DEF Conn
    <3>5. BufferInv(w)' /\ RequestInv(w)'
      BY <1>1, <1>2, <3>1, <3>4 DEF BufferInv, RequestInv, Conn, Early
    <3> QED
      BY <1>1, <2>1, <2>3, <3>1, <3>2, <3>5, Elsewhere, QuietInv DEF WorkerInv
  <2>5. CASE Len(list(w)) # 1
    <3>1. /\ worker' \in [Workers -> Worker] /\ worker'[w].pc = "connect" /\ worker'[w].ptr = 2
          /\ worker'[w].read = worker[w].read /\ worker'[w].n = worker[w].n
          /\ \A v \in Workers \ {w} : worker'[v] = worker[v]
      <4>1. worker' = [worker EXCEPT ![w].ptr = 2] /\ worker \in [Workers -> Worker]
        BY <1>1, <1>5, <2>5
      <4> QED
        BY <1>1, <4>1 DEF Worker
    <3>2. Within(w)
      BY <1>1, <2>1, <3>1, WithinStep DEF InRequest, Labels, tinyVars, Backlogged
    <3>3. 2 \in 1..2 \cap DOMAIN list(w) /\ list(w)' = list(w)
      <4>1. 2 \in DOMAIN list(w)
        <5>1. 1..Len(list(w)) # {}
          BY <1>2, <2>2
        <5>2. Len(list(w)) >= 2
          BY <2>2, <2>5, <5>1
        <5> QED
          BY <2>2, <5>2
      <4>2. list(w)' = list(w)
        BY <1>1 DEF list, Site, Conn
      <4> QED
        BY <4>1, <4>2
    <3>4. LinkInv(w)' /\ RelayInv(w)'
      BY <2>3, <3>1, <3>3 DEF LinkInv, RelayInv
    <3>5. BufferInv(w)' /\ RequestInv(w)'
      BY <1>1, <1>2, <3>1 DEF BufferInv, RequestInv, Conn, Early
    <3> QED
      BY <1>1, <2>1, <3>2, <3>4, <3>5, QuietInv DEF WorkerInv
  <2> QED
    BY <2>4, <2>5
<1> QED
  <2>1. CASE address = "up" /\ Alive
    BY <1>2, <1>4, <2>1, Zenon DEF ConnectServer, Reachable
  <2>2. CASE address = "silent"
    BY <1>4, <2>2, Zenon DEF ConnectServer
  <2>3. CASE ~(address = "up" /\ Alive) /\ address # "silent"
    BY <1>5, <2>3, Zenon DEF ConnectServer
  <2> QED
    BY <2>1, <2>2, <2>3

LEMMA LinkStep ==
  ASSUME IInv, UNCHANGED <<tiny, backlog>>, link' \in [Peers -> Link]
  PROVE  TinyTypes' /\ BacklogInv' /\ \A v \in Workers : AtTiny(v)' <=> AtTiny(v)
BY DEF IInv, Types, TinyTypes, BacklogInv, Backlogged, Alive, AtTiny

LEMMA SendHeadersInv ==
  ASSUME IInv, NEW w \in Workers, SendHeaders(w)
  PROVE  IInv'
<1>1. ~exited /\ worker[w].pc = "send"
  BY DEF SendHeaders, At, Running
<1> USE InHand
<1>2. CASE link[w].rst
  BY <1>1, <1>2, ExitInv DEF SendHeaders
<1>3. CASE ~link[w].rst
  <2> DEFINE request == [path |-> Site(w).path, headers |-> worker[w].headers]
  <2>1. /\ link' = [link EXCEPT ![w].request = request]
        /\ worker' = [worker EXCEPT ![w].pc = "relay", ![w].headers = <<>>]
        /\ UNCHANGED <<main, client, fifo, serving, cache, exited, tiny, backlog>>
    BY <1>3 DEF SendHeaders
  <2>2. Conn(w).uri \in Uris /\ Conn(w).got = <<>> /\ worker[w].read = <<>> /\ worker[w].n = 0
        /\ link[w].lines = <<>> /\ ~link[w].eof /\ (tiny.peer = w => tiny.pc = "doit")
        /\ 0 < MAX_OBJECT_SIZE
    BY <1>1, SizeAssumption DEF RequestInv, BufferInv, LinkInv, Early
  <2>3. request \in [path : Paths, headers : Built] /\ request.path = Site(w).path
    BY <1>1, <2>2, UriKnown DEF Site, Worker
  <2> HIDE DEF request
  <2>4. /\ link' \in [Peers -> Link] /\ link'[w].request = request
        /\ link'[w].lines = <<>> /\ link'[w].eof = link[w].eof /\ link'[w].open = link[w].open
        /\ link'[w].rst = link[w].rst /\ \A v \in Workers \ {w} : link'[v] = link[v]
    BY <2>1, <2>2, <2>3 DEF IInv, Types, TinyTypes, Link, Workers
  <2>5. /\ worker' \in [Workers -> Worker] /\ worker'[w].pc = "relay"
        /\ worker'[w].read = <<>> /\ worker'[w].n = 0
        /\ \A v \in Workers \ {w} : worker'[v] = worker[v]
    <3>1. worker \in [Workers -> Worker]
      BY <1>1
    <3> QED
      BY <2>1, <2>2, <3>1, NothingYet, ZenonT(60) DEF Worker, Labels
  <2>6. Within(w)
    BY <1>1, <2>1, <2>4, <2>5, WithinStep DEF InRequest, Labels, Backlogged
  <2>7. TinyTypes' /\ BacklogInv' /\ (AtTiny(w)' <=> AtTiny(w))
    BY <2>1, <2>4, LinkStep
  <2>8. Conn(w)' = Conn(w) /\ Site(w)' = Site(w)
    BY <2>1 DEF Conn, Site
  <2>9. LinkInv(w)'
    BY <1>1, <2>2, <2>3, <2>4, <2>5, <2>7, <2>8 DEF LinkInv
  <2>10. RelayInv(w)'
    BY <2>1, <2>2, <2>4, <2>8 DEF RelayInv
  <2>11. BufferInv(w)' /\ RequestInv(w)'
    BY <1>1, <2>2, <2>5, <2>8, EmptySeq DEF BufferInv, RequestInv, Early
  <2> QED
    BY <1>1, <2>1, <2>6, <2>7, <2>9, <2>10, <2>11, WithinInv DEF WorkerInv
<1> QED
  BY <1>2, <1>3

LEMMA RelayKeepsInv ==
  ASSUME IInv, NEW w \in Workers, Relay(w)
  PROVE  IInv'
<1>1. ~exited /\ worker[w].pc = "relay" /\ link[w].lines # <<>>
  BY DEF Relay, RelayWith, At, Running
<1> USE InHand
<1>2. CASE Conn(w).reset
  BY <1>1, <1>2, ExitInv DEF Relay, RelayWith
<1>3. CASE ~Conn(w).reset
  <2> DEFINE line == Head(link[w].lines)
             read == IF worker[w].n + 1 < MAX_OBJECT_SIZE
                     THEN Append(worker[w].read, line) ELSE worker[w].read
  <2>1. /\ link' = [link EXCEPT ![w].lines = Tail(@)]
        /\ worker' = [worker EXCEPT ![w].read = read, ![w].n = @ + 1]
        /\ Sent(w, <<line>>)
        /\ UNCHANGED <<main, fifo, serving, cache, exited, tiny, backlog>>
    BY <1>3 DEF Relay, RelayWith
  <2>2. /\ worker[w].n \in Nat /\ worker[w].read \in Lines /\ Conn(w).got \in Lines
        /\ link[w].lines \in Lines /\ MAX_OBJECT_SIZE \in Nat
    BY <1>1, SizeAssumption DEF Worker, Conn, Client, Link
  <2>3. line \in Line /\ Tail(link[w].lines) \in Lines /\ <<line>> \in Lines
        /\ (Conn(w).got \o <<line>>) \o Tail(link[w].lines) = Conn(w).got \o link[w].lines
        /\ Append(Conn(w).got, line) = Conn(w).got \o <<line>>
        /\ Len(Conn(w).got \o <<line>>) = Len(Conn(w).got) + 1
        /\ Append(worker[w].read, line) \in Lines
        /\ Len(Append(worker[w].read, line)) = Len(worker[w].read) + 1
    <3>1. line \in Line /\ Tail(link[w].lines) \in Lines
          /\ (Conn(w).got \o <<line>>) \o Tail(link[w].lines) = Conn(w).got \o link[w].lines
      BY <1>1, <2>2, LineMoves
    <3> HIDE DEF line
    <3>2. <<line>> \in Lines /\ Len(<<line>>) = 1
      BY <3>1 DEF Lines
    <3>3. Append(Conn(w).got, line) = Conn(w).got \o <<line>>
          /\ Len(Conn(w).got \o <<line>>) = Len(Conn(w).got) + 1
      BY <2>2, <3>1, <3>2, AppendIsConcat, ConcatProperties DEF Lines
    <3>4. /\ Append(worker[w].read, line) \in Lines
          /\ Len(Append(worker[w].read, line)) = Len(worker[w].read) + 1
      BY <2>2, <3>1, AppendProperties DEF Lines
    <3> QED
      BY <3>1, <3>2, <3>3, <3>4
  <2>4. worker[w].n = Len(Conn(w).got) /\ Len(worker[w].read) < MAX_OBJECT_SIZE
        /\ (worker[w].n < MAX_OBJECT_SIZE => worker[w].read = Conn(w).got)
    BY <1>1 DEF BufferInv
  <2>5. read \in Lines /\ Len(read) < MAX_OBJECT_SIZE
        /\ (worker[w].n + 1 < MAX_OBJECT_SIZE => read = Conn(w).got \o <<line>>)
    <3>1. CASE worker[w].n + 1 < MAX_OBJECT_SIZE
      <4>1. worker[w].read = Conn(w).got /\ Len(worker[w].read) = worker[w].n
            /\ read = Append(worker[w].read, line)
        BY <2>2, <2>4, <3>1
      <4> QED
        BY <2>2, <2>3, <3>1, <4>1
    <3>2. CASE ~(worker[w].n + 1 < MAX_OBJECT_SIZE)
      BY <2>2, <2>4, <3>2
    <3> QED
      BY <3>1, <3>2
  <2> HIDE DEF line, read
  <2>6. /\ link' \in [Peers -> Link] /\ link'[w].lines = Tail(link[w].lines)
        /\ link'[w].request = link[w].request /\ link'[w].eof = link[w].eof
        /\ link'[w].open = link[w].open /\ link'[w].rst = link[w].rst
        /\ \A v \in Workers \ {w} : link'[v] = link[v]
    BY <2>1, <2>2, <2>3 DEF IInv, Types, TinyTypes, Link, Workers
  <2>7. /\ worker' \in [Workers -> Worker] /\ worker'[w].pc = "relay"
        /\ worker'[w].read = read /\ worker'[w].n = worker[w].n + 1
        /\ \A v \in Workers \ {w} : worker'[v] = worker[v]
    BY <1>1, <2>1, <2>2, <2>5 DEF Worker
  <2>8. Received(w, <<line>>)
    BY <1>1, <2>1, <2>3, SentWhat
  <2>9. Conn(w)'.got = Conn(w).got \o <<line>> /\ Conn(w)'.line = Conn(w).line
        /\ Conn(w)'.uri = Conn(w).uri /\ Site(w)' = Site(w) /\ Arrived(w)' = Arrived(w)
    BY <2>1, <2>3, <2>6, <2>8 DEF Conn, Received, Site, Arrived
  <2>10. Within(w)
    BY <1>1, <2>1, <2>3, <2>6, <2>7, <2>8, WithinStep DEF InRequest, Labels, Backlogged
  <2>11. TinyTypes' /\ BacklogInv' /\ (AtTiny(w)' <=> AtTiny(w))
    BY <2>1, <2>6, LinkStep
  <2>12. LinkInv(w)'
    BY <1>1, <2>6, <2>7, <2>9, <2>11 DEF LinkInv
  <2>13. RelayInv(w)'
    <3>1. Answers(Conn(w).uri)' = Answers(Conn(w).uri)
      BY <2>1, <2>9 DEF Answers, Alive
    <3> QED
      BY <1>1, <2>1, <2>6, <2>7, <2>9, <3>1 DEF RelayInv, Backlogged
  <2>14. BufferInv(w)'
    BY <2>2, <2>3, <2>4, <2>5, <2>7, <2>9 DEF BufferInv
  <2>15. RequestInv(w)'
    BY <1>1, <2>7, <2>9 DEF RequestInv, Early
  <2> QED
    BY <1>1, <2>1, <2>10, <2>11, <2>12, <2>13, <2>14, <2>15, WithinInv DEF WorkerInv
<1> QED
  BY <1>2, <1>3

LEMMA RelayEndsInv ==
  ASSUME IInv, NEW w \in Workers, RelayEnds(w)
  PROVE  IInv'
<1>1. ~exited /\ worker[w].pc = "relay" /\ link[w].lines = <<>>
  BY DEF RelayEnds, At, Running
<1> USE InHand
<1>2. CASE Exit
  BY <1>1, <1>2, ExitInv
<1>3. CASE ~Exit
  <2> DEFINE l == IF worker[w].n < MAX_OBJECT_SIZE THEN "cache_add" ELSE "server_close"
  <2>1. link[w].eof /\ Goto(w, l)
        /\ UNCHANGED <<main, client, fifo, serving, cache, exited, tinyVars>>
    BY <1>3 DEF RelayEnds
  <2>2. l \in InRequest /\ l \in {"cache_add", "server_close"}
        /\ (l = "cache_add" => worker[w].n < MAX_OBJECT_SIZE)
    BY DEF InRequest, Labels
  <2> HIDE DEF l
  <2>3. /\ worker' \in [Workers -> Worker] /\ worker'[w].pc = l
        /\ worker'[w].read = worker[w].read /\ worker'[w].n = worker[w].n
        /\ \A v \in Workers \ {w} : worker'[v] = worker[v]
    BY <1>1, <2>1, <2>2, GoesTo
  <2>4. Within(w)
    BY <1>1, <2>1, <2>2, <2>3, WithinStep DEF InRequest, Labels, tinyVars, Backlogged
  <2>5. ~AtTiny(w) /\ ~AtTiny(w)' /\ Reachable(Conn(w).uri)
    BY <1>1, <2>1 DEF LinkInv, AtTiny, Backlogged, tinyVars
  <2>6. LinkInv(w)' /\ RelayInv(w)'
    BY <1>1, <2>2, <2>3, <2>5, Elsewhere
  <2>7. Conn(w).got \in Answers(Conn(w).uri)
    <3>1. Arrived(w) = Conn(w).got
      BY <1>1, ConcatEmptySeq DEF Arrived, Conn, Client, Lines
    <3> QED
      BY <1>1, <2>1, <3>1 DEF RelayInv
  <2>8. Conn(w)' = Conn(w) /\ Answers(Conn(w).uri)' = Answers(Conn(w).uri)
    BY <2>1 DEF Conn, Answers, Alive, tinyVars
  <2>9. BufferInv(w)' /\ RequestInv(w)'
    BY <1>1, <2>2, <2>3, <2>5, <2>7, <2>8 DEF BufferInv, RequestInv, Early
  <2> QED
    BY <1>1, <2>1, <2>4, <2>6, <2>9, QuietInv DEF WorkerInv
<1> QED
  BY <1>2, <1>3

LEMMA CacheAddInv ==
  ASSUME IInv, NEW w \in Workers, CacheAdd(w)
  PROVE  IInv'
<1> DEFINE entry == [uri |-> Conn(w).uri, content |-> worker[w].read]
           rest  == IF Len(cache) < MaxCache THEN cache ELSE SubSeq(cache, 1, MaxCache - 1)
<1>1. ~exited /\ worker[w].pc = "cache_add" /\ cache' = <<entry>> \o rest
      /\ Goto(w, "server_close") /\ UNCHANGED <<main, client, fifo, serving, exited, tinyVars>>
  BY DEF CacheAdd, At, Running
<1> USE InHand
<1>2. /\ worker' \in [Workers -> Worker] /\ worker'[w].pc = "server_close"
      /\ worker'[w].read = worker[w].read /\ worker'[w].n = worker[w].n
      /\ \A v \in Workers \ {w} : worker'[v] = worker[v]
  BY <1>1, GoesTo DEF InRequest, Labels
<1>3. Within(w)
  BY <1>1, <1>2, WithinStep DEF InRequest, Labels, tinyVars, Backlogged
<1>4. ~AtTiny(w) /\ ~AtTiny(w)'
  BY <1>1 DEF LinkInv, AtTiny, Backlogged, tinyVars
<1>5. LinkInv(w)' /\ RelayInv(w)'
  BY <1>1, <1>2, <1>4, Elsewhere
<1>6. Conn(w)' = Conn(w) /\ Answers(Conn(w).uri)' = Answers(Conn(w).uri)
  BY <1>1 DEF Conn, Answers, Alive, tinyVars
<1>7. BufferInv(w)' /\ RequestInv(w)'
  BY <1>1, <1>2, <1>6 DEF BufferInv, RequestInv, Early
<1>8. entry \in Sound
  BY <1>1 DEF BufferInv, RequestInv, Sound, Entry, Worker
<1>9. cache' \in Seq(Sound) /\ Len(cache') <= MaxCache
  <2>1. cache \in Seq(Sound) /\ Len(cache) <= MaxCache /\ MaxCache \in Nat \ {0}
    BY <1>1, SizeAssumption DEF IInv, EntryInv
  <2>2. rest \in Seq(Sound) /\ Len(rest) <= MaxCache - 1 /\ Len(rest) \in Nat
    BY <2>1, SubSeqProperties, LenProperties
  <2> HIDE DEF rest, entry
  <2>3. <<entry>> \in Seq(Sound) /\ Len(<<entry>>) = 1
    BY <1>8
  <2> QED
    BY <1>1, <2>1, <2>2, <2>3, ConcatProperties
<1>10. cache' \in Seq(Entry)
  BY <1>9, SeqMonotonic DEF Sound
<1>11. EntryInv' /\ TinyTypes' /\ BacklogInv'
  BY <1>1, <1>9 DEF EntryInv, Sound, Answers, Alive, tinyVars, IInv, Types, TinyTypes, BacklogInv,
                    Backlogged
<1> QED
  BY <1>1, <1>3, <1>5, <1>7, <1>9, <1>10, <1>11, WithinInv DEF WorkerInv

LEMMA ServerCloseInv ==
  ASSUME IInv, NEW w \in Workers, ServerClose(w)
  PROVE  IInv'
<1>1. ~exited /\ worker[w].pc = "server_close" /\ link' = [link EXCEPT ![w] = NoLink]
      /\ Goto(w, "close") /\ UNCHANGED <<main, client, fifo, serving, cache, exited, tiny, backlog>>
  BY DEF ServerClose, At, Running
<1> USE InHand
<1>2. /\ worker' \in [Workers -> Worker] /\ worker'[w].pc = "close"
      /\ worker'[w].read = worker[w].read /\ worker'[w].n = worker[w].n
      /\ \A v \in Workers \ {w} : worker'[v] = worker[v]
  BY <1>1, GoesTo DEF InRequest, Labels
<1>3. link' \in [Peers -> Link] /\ \A v \in Workers \ {w} : link'[v] = link[v]
  BY <1>1, NothingYet DEF IInv, Types, TinyTypes, NoLink, Link, Workers
<1>4. Within(w)
  BY <1>1, <1>2, <1>3, WithinStep DEF InRequest, Labels, Backlogged
<1>5. ~AtTiny(w) /\ ~AtTiny(w)'
  BY <1>1 DEF LinkInv, AtTiny, Backlogged
<1>6. LinkInv(w)' /\ RelayInv(w)'
  BY <1>1, <1>2, <1>5, Elsewhere
<1>7. Conn(w)' = Conn(w) /\ Deserved(serving[w])' = Deserved(serving[w])
  BY <1>1, DeservedKept DEF Conn, Alive
<1>8. Conn(w).got \in Deserved(serving[w])
  BY <1>1, DeservedIs DEF RequestInv, Conn
<1>9. BufferInv(w)' /\ RequestInv(w)'
  BY <1>1, <1>2, <1>7, <1>8 DEF BufferInv, RequestInv, Early
<1>10. TinyTypes' /\ BacklogInv'
  BY <1>1, <1>3, LinkStep
<1> QED
  BY <1>1, <1>4, <1>6, <1>9, <1>10, WithinInv DEF WorkerInv

(* The worker takes a connection, and lets it go.                          *)
LEMMA QueuePopInv ==
  ASSUME IInv, NEW w \in Workers, QueuePop(w)
  PROVE  IInv'
<1>1. /\ ~exited /\ worker[w].pc = "pop" /\ Goto(w, "request") /\ fifo # <<>>
      /\ serving' = [serving EXCEPT ![w] = Head(fifo)] /\ fifo' = Tail(fifo)
      /\ UNCHANGED <<main, client, cache, exited, tinyVars>>
  BY DEF QueuePop, Queue!Pop, At, Running
<1>2. /\ fifo \in Seq(Conns) /\ Len(fifo) <= Cap /\ serving \in [Workers -> Conns \cup {NoConn}]
      /\ worker \in [Workers -> Worker] /\ client \in [Conns -> Client]
      /\ \A i, j \in DOMAIN fifo : fifo[i] = fifo[j] => i = j
      /\ WorkerInv(w) /\ serving[w] = NoConn
  BY <1>1 DEF IInv, Types, ProxyTypes, OwnerInv, Positions
<1> PICK c : c = Head(fifo)
  OBVIOUS
<1>3. /\ c \in Conns /\ c # NoConn /\ fifo' \in Seq(Conns) /\ Len(fifo') <= Cap
      /\ \A i, j \in DOMAIN fifo' : fifo'[i] = fifo'[j] => i = j
      /\ \A x : Queued(x) <=> x = c \/ Queued(x)'
      /\ ~Queued(c)'
  <2>1. Len(fifo) \in Nat /\ Len(Tail(fifo)) \in Nat /\ Cap \in Nat
    BY <1>1, <1>2, CapAssumption, HeadLeaves, LenProperties
  <2>2. c \in Conns /\ Tail(fifo) \in Seq(Conns) /\ Len(Tail(fifo)) <= Len(fifo)
    BY <1>1, <1>2, HeadLeaves
  <2>3. \A i, j \in DOMAIN fifo' : fifo'[i] = fifo'[j] => i = j
    BY <1>1, <1>2, HeadLeaves
  <2>4. \A x : (\E i \in DOMAIN fifo : fifo[i] = x) <=>
               x = c \/ \E i \in DOMAIN Tail(fifo) : Tail(fifo)[i] = x
    BY <1>1, <1>2, HeadLeaves
  <2>5. \A i \in DOMAIN Tail(fifo) : Tail(fifo)[i] # c
    BY <1>1, <1>2, HeadLeaves
  <2>6. (\A x : Queued(x) <=> x = c \/ Queued(x)') /\ ~Queued(c)'
    BY <1>1, <2>4, <2>5 DEF Queued
  <2> QED
    BY <1>1, <1>2, <2>1, <2>2, <2>3, <2>6, NoConnAssumption
<1>4. /\ worker' \in [Workers -> Worker] /\ worker'[w].pc = "request"
      /\ worker'[w].read = worker[w].read /\ worker'[w].n = worker[w].n
      /\ \A v \in Workers \ {w} : worker'[v] = worker[v]
  BY <1>1, <1>2, GoesTo DEF InRequest, Labels
<1>5. /\ serving' \in [Workers -> Conns \cup {NoConn}] /\ serving'[w] = c
      /\ \A v \in Workers \ {w} : serving'[v] = serving[v]
  BY <1>1, <1>2, <1>3
<1>6. Queued(c) /\ main.conn # c /\ client[c].state = "open" /\ client[c].got = <<>>
      /\ main.pc \notin {"listen", "threads", "cache_init", "none"}
      /\ \A v \in Workers : serving[v] # c
  BY <1>1, <1>3 DEF IInv, OwnerInv, FreshInv, Positions
<1>7. Types'
  BY <1>1, <1>3, <1>4, <1>5 DEF IInv, Types, ProxyTypes, TinyTypes, tinyVars
<1>8. Positions'
  BY <1>1, <1>3, <1>4, <1>5, <1>6 DEF IInv, Positions, tinyVars
<1>9. OwnerInv'
  <2>1. ASSUME NEW d \in Conns
        PROVE  client'[d].state = "open" <=>
                 main'.conn = d \/ Queued(d)' \/ \E v \in Workers : serving'[v] = d
    <3>1. (\E v \in Workers : serving'[v] = d) <=> d = c \/ \E v \in Workers : serving[v] = d
      BY <1>2, <1>5, NoConnAssumption
    <3> QED
      BY <1>1, <1>3, <3>1 DEF IInv, OwnerInv
  <2>2. \A v \in Workers : ~Queued(serving[v])' /\ ~Queued(main.conn)'
    BY <1>1, <1>3, <1>5 DEF IInv, OwnerInv, Queued
  <2>3. \A v, u \in Workers : serving'[v] = serving'[u] /\ serving'[v] # NoConn => v = u
    BY <1>5, <1>6 DEF IInv, OwnerInv
  <2>4. \A v \in Workers : serving'[v] = main'.conn => serving'[v] = NoConn
    BY <1>1, <1>5, <1>6 DEF IInv, OwnerInv
  <2> QED
    BY <1>3, <2>1, <2>2, <2>3, <2>4 DEF OwnerInv
<1>10. BacklogInv' /\ Len(cache') <= MaxCache /\ EntryInv' /\ ClientInv'
  BY <1>1 DEF IInv, BacklogInv, Backlogged, Alive, EntryInv, Sound, Answers, ClientInv, Deserved,
              tinyVars
<1>11. FreshInv'
  BY <1>1, <1>3 DEF IInv, FreshInv
<1>12. ASSUME NEW v \in Workers \ {w} PROVE WorkerInv(v)'
  BY <1>1, <1>4, <1>5, WorkerFrame DEF IInv, Backlogged, tinyVars
<1>13. WorkerInv(w)'
  <2>1. ~AtTiny(w) /\ worker[w].read = <<>> /\ worker[w].n = 0 /\ Len(worker[w].read) < MAX_OBJECT_SIZE
    BY <1>1, <1>2 DEF WorkerInv, LinkInv, BufferInv
  <2>2. ~AtTiny(w)'
    BY <1>1, <2>1 DEF AtTiny, Backlogged, tinyVars
  <2>3. LinkInv(w)' /\ RelayInv(w)' /\ BufferInv(w)'
    BY <1>4, <2>1, <2>2 DEF LinkInv, RelayInv, BufferInv
  <2>4. RequestInv(w)'
    BY <1>1, <1>4, <1>5, <1>6 DEF RequestInv, Conn
  <2> QED
    BY <2>3, <2>4 DEF WorkerInv
<1> QED
  BY <1>7, <1>8, <1>9, <1>10, <1>11, <1>12, <1>13 DEF IInv

LEMMA ClientCloseInv ==
  ASSUME IInv, NEW w \in Workers, ClientClose(w)
  PROVE  IInv'
<1>1. /\ ~exited /\ worker[w].pc = "close" /\ worker' = [worker EXCEPT ![w] = Idle]
      /\ client' = [client EXCEPT ![serving[w]].state = "closed"]
      /\ serving' = [serving EXCEPT ![w] = NoConn] /\ fifo' = fifo
      /\ UNCHANGED <<main, cache, exited, tinyVars>>
  BY DEF ClientClose, Queue!Close, At, Running
<1>2. /\ worker \in [Workers -> Worker] /\ client \in [Conns -> Client] /\ serving[w] \in Conns
      /\ serving \in [Workers -> Conns \cup {NoConn}] /\ WorkerInv(w) /\ serving[w] # NoConn
      /\ main.pc \in {"accept", "push"}
  BY <1>1, InHand, NoConnAssumption DEF IInv, Types, ProxyTypes
<1> DEFINE c == serving[w]
<1>3. /\ worker' \in [Workers -> Worker] /\ worker'[w] = Idle
      /\ \A v \in Workers \ {w} : worker'[v] = worker[v]
  BY <1>1, <1>2, NothingYet DEF Worker, Idle, Labels
<1>4. /\ client' \in [Conns -> Client] /\ client'[c].state = "closed"
      /\ \A d \in Conns : /\ d # c => client'[d] = client[d]
                          /\ client'[d].line = client[d].line /\ client'[d].uri = client[d].uri
                          /\ client'[d].got = client[d].got
  BY <1>1, <1>2 DEF Client
<1>5. /\ serving' \in [Workers -> Conns \cup {NoConn}] /\ serving'[w] = NoConn
      /\ \A v \in Workers \ {w} : serving'[v] = serving[v]
  BY <1>1, <1>2
<1>6. client[c].state = "open" /\ main.conn # c /\ ~Queued(c)
      /\ \A v \in Workers \ {w} : serving[v] # c
  BY <1>2 DEF IInv, OwnerInv
<1> HIDE DEF c
<1>7. Types'
  BY <1>1, <1>3, <1>4, <1>5 DEF IInv, Types, ProxyTypes, TinyTypes, tinyVars
<1>8. Positions'
  BY <1>1, <1>2, <1>3, <1>5 DEF IInv, Positions, Idle, tinyVars
<1>9. OwnerInv'
  <2>1. c \in Conns /\ NoConn \notin Conns /\ c = serving[w]
    BY <1>2, NoConnAssumption DEF c
  <2>2. \A x : Queued(x)' <=> Queued(x)
    BY <1>1 DEF Queued
  <2>3. ASSUME NEW d \in Conns
        PROVE  client'[d].state = "open" <=>
                 main'.conn = d \/ Queued(d)' \/ \E v \in Workers : serving'[v] = d
    <3>1. (\E v \in Workers : serving[v] = d) <=> d = c \/ \E v \in Workers : serving'[v] = d
      BY <1>2, <1>5, <2>1
    <3>2. (\E v \in Workers : serving'[v] = d) => d # c
      BY <1>5, <1>6, <2>1
    <3> QED
      BY <1>1, <1>4, <1>6, <2>2, <3>1, <3>2 DEF IInv, OwnerInv
  <2>4. \A v \in Workers : ~Queued(serving[v])' /\ ~Queued(main.conn)'
    <3>1. ~Queued(NoConn)
      BY <2>1, ElementOfSeq, LenProperties DEF Queued, IInv, Types, ProxyTypes
    <3>2. \A v \in Workers : ~Queued(serving'[v])
      BY <1>5, <3>1 DEF IInv, OwnerInv
    <3> QED
      BY <1>1, <3>2 DEF Queued, IInv, OwnerInv
  <2>5. \A v, u \in Workers : serving'[v] = serving'[u] /\ serving'[v] # NoConn => v = u
    BY <1>5 DEF IInv, OwnerInv
  <2>6. \A v \in Workers : serving'[v] = main'.conn => serving'[v] = NoConn
    BY <1>1, <1>5 DEF IInv, OwnerInv
  <2> QED
    BY <1>1, <2>3, <2>4, <2>5, <2>6 DEF IInv, OwnerInv
<1>10. BacklogInv' /\ Len(cache') <= MaxCache /\ EntryInv'
  BY <1>1 DEF IInv, BacklogInv, Backlogged, Alive, EntryInv, Sound, Answers, tinyVars
<1>11. FreshInv'
  BY <1>1, <1>4, <1>6 DEF IInv, FreshInv, Queued
<1>12. ClientInv'
  <2>1. ASSUME NEW d \in Conns
        PROVE  Deserved(d)' = Deserved(d)
    BY <1>1, <1>4, DeservedKept DEF Alive, tinyVars
  <2>2. client[c].got \in Deserved(c)
    BY <1>1, <1>2 DEF WorkerInv, RequestInv, Conn, c
  <2> QED
    BY <1>1, <1>4, <2>1, <2>2, ZenonT(60) DEF IInv, ClientInv
<1>13. ASSUME NEW v \in Workers \ {w} PROVE WorkerInv(v)'
  BY <1>1, <1>3, <1>4, <1>5, WorkerFrame DEF IInv, Backlogged, tinyVars
<1>14. WorkerInv(w)'
  <2>1. ~AtTiny(w)'
    BY <1>1, <1>2 DEF WorkerInv, LinkInv, AtTiny, Backlogged, tinyVars
  <2> QED
    BY <1>3, <2>1, SizeAssumption
       DEF WorkerInv, LinkInv, RelayInv, BufferInv, RequestInv, Idle, Early
<1> QED
  BY <1>7, <1>8, <1>9, <1>10, <1>11, <1>12, <1>13, <1>14 DEF IInv
-----------------------------------------------------------------------------
(* Clients and main.  Workers, the cache and Tiny stay as they are.        *)
LEMMA Undisturbed ==
  ASSUME IInv, ~exited, UNCHANGED <<serving, worker, cache, exited, tinyVars>>,
         \A v \in Workers : serving[v] \in Conns =>
           /\ client'[serving[v]].line = client[serving[v]].line
           /\ client'[serving[v]].uri = client[serving[v]].uri
           /\ client'[serving[v]].got = client[serving[v]].got
  PROVE  /\ TinyTypes' /\ BacklogInv' /\ Len(cache') <= MaxCache /\ Sound' = Sound
         /\ \A v \in Workers : WorkerInv(v)'
<1>1. TinyTypes' /\ BacklogInv' /\ Len(cache') <= MaxCache
  BY DEF IInv, Types, TinyTypes, BacklogInv, Backlogged, Alive, tinyVars
<1>2. Sound' = Sound
  BY DEF Sound, Answers, Alive, tinyVars
<1>3. ASSUME NEW v \in Workers PROVE WorkerInv(v)'
  BY WorkerFrame DEF IInv, Backlogged, tinyVars
<1> QED
  BY <1>1, <1>2, <1>3

LEMMA ConnectInv ==
  ASSUME IInv, NEW c \in Conns, Connect(c)
  PROVE  IInv'
<1>1. /\ client[c].state = "none" /\ main.pc \notin {"listen", "none"} /\ ~exited
      /\ UNCHANGED <<main, fifo, serving, worker, cache, exited, tinyVars>>
  BY DEF Connect, IInv, Positions
<1>2. client \in [Conns -> Client]
  BY DEF IInv, Types, ProxyTypes
<1>3. /\ client' \in [Conns -> Client] /\ client'[c].state = "pending" /\ client'[c].got = <<>>
      /\ (client'[c].line = "GET" => client'[c].uri \in Uris)
      /\ \A d \in Conns \ {c} : client'[d] = client[d]
  <2>1. PICK line \in Requests, u \in Uris, hdrs \in Headers :
          client' = [client EXCEPT ![c] =
            IF line = "GET"
            THEN [NewClient EXCEPT !.state = "pending", !.line = "GET", !.uri = u, !.headers = hdrs]
            ELSE [NewClient EXCEPT !.state = "pending", !.line = line]]
    BY DEF Connect
  <2>2. CASE line = "GET"
    BY <1>2, <2>1, <2>2, NothingYet DEF Client, NewClient
  <2>3. CASE line # "GET"
    BY <1>2, <2>1, <2>3, NothingYet DEF Client, NewClient
  <2> QED
    BY <2>2, <2>3
<1>4. main.conn # c /\ ~Queued(c) /\ \A v \in Workers : serving[v] # c
  BY <1>1 DEF IInv, OwnerInv
<1>5. /\ TinyTypes' /\ BacklogInv' /\ Len(cache') <= MaxCache /\ Sound' = Sound
      /\ \A v \in Workers : WorkerInv(v)'
  BY <1>1, <1>3, <1>4, Undisturbed
<1>6. Types' /\ Positions' /\ EntryInv'
  BY <1>1, <1>3, <1>5 DEF IInv, Types, ProxyTypes, Positions, EntryInv, tinyVars
<1>7. OwnerInv'
  BY <1>1, <1>3, <1>4 DEF IInv, OwnerInv, Queued
<1>8. FreshInv'
  BY <1>1, <1>3 DEF IInv, FreshInv, Queued
<1>9. ClientInv'
  <2>1. \A d \in Conns \ {c} : Deserved(d)' = Deserved(d)
    BY <1>1, <1>3, DeservedKept DEF Alive, tinyVars
  <2> QED
    BY <1>1, <1>3, <2>1 DEF IInv, ClientInv
<1> QED
  BY <1>5, <1>6, <1>7, <1>8, <1>9 DEF IInv

(* Steps that change nothing of a client but its state or its reset.       *)
LEMMA ClientKept ==
  ASSUME IInv, ~exited, client' \in [Conns -> Client], UNCHANGED tiny,
         \A c \in Conns : /\ client'[c].line = client[c].line /\ client'[c].uri = client[c].uri
                          /\ client'[c].got = client[c].got
                          /\ client'[c].state = "closed" => client[c].state = "closed"
  PROVE  ClientInv'
<1>1. \A c \in Conns : Deserved(c)' = Deserved(c)
  BY DeservedKept DEF Alive
<1> QED
  BY <1>1 DEF IInv, ClientInv

LEMMA ResetInv ==
  ASSUME IInv, NEW c \in Conns, Reset(c)
  PROVE  IInv'
<1>1. /\ client[c].state \in {"pending", "open"} /\ client' = [client EXCEPT ![c].reset = TRUE]
      /\ UNCHANGED <<main, fifo, serving, worker, cache, exited, tinyVars>>
  BY DEF Reset
<1>2. client \in [Conns -> Client] /\ ~exited
  BY <1>1 DEF IInv, Types, ProxyTypes, Positions
<1>3. /\ client' \in [Conns -> Client]
      /\ \A d \in Conns : /\ client'[d].line = client[d].line /\ client'[d].uri = client[d].uri
                          /\ client'[d].got = client[d].got /\ client'[d].state = client[d].state
  BY <1>1, <1>2 DEF Client
<1>4. /\ TinyTypes' /\ BacklogInv' /\ Len(cache') <= MaxCache /\ Sound' = Sound
      /\ \A v \in Workers : WorkerInv(v)'
  BY <1>1, <1>2, <1>3, Undisturbed
<1>5. Types' /\ Positions' /\ EntryInv'
  BY <1>1, <1>2, <1>3, <1>4 DEF IInv, Types, ProxyTypes, Positions, EntryInv, tinyVars
<1>6. OwnerInv' /\ FreshInv'
  BY <1>1, <1>2, <1>3 DEF IInv, OwnerInv, FreshInv, Queued
<1>7. ClientInv'
  BY <1>1, <1>2, <1>3, ClientKept DEF tinyVars
<1> QED
  BY <1>4, <1>5, <1>6, <1>7 DEF IInv

(* main before it accepts: nobody has a connection.                        *)
LEMMA StartInv ==
  ASSUME IInv, Listen \/ CreateThread \/ CacheInit
  PROVE  IInv'
<1>1. /\ main.pc \in {"listen", "threads", "cache_init"} /\ ~exited
      /\ UNCHANGED <<client, fifo, serving, exited, tinyVars>>
  BY DEF Listen, CreateThread, CacheInit, IInv, Positions
<1>2. /\ cache = Unready /\ fifo = <<>> /\ main.conn = NoConn
      /\ \A v \in Workers : worker[v].pc \in {"none", "pop"} /\ serving[v] = NoConn
  BY <1>1 DEF IInv, Positions
<1>3. /\ main' \in [pc : MainPcs, conn : Conns \cup {NoConn}] /\ main'.conn = NoConn
      /\ \/ main'.pc \in {"threads", "cache_init"} /\ cache' = cache
         \/ main'.pc = "accept" /\ cache' = <<>>
  <2>1. main \in [pc : MainPcs, conn : Conns \cup {NoConn}]
    BY DEF IInv, Types, ProxyTypes
  <2>2. CASE Listen
    BY <1>2, <2>1, <2>2 DEF Listen, MainPcs
  <2>3. CASE CreateThread
    BY <1>1, <1>2, <2>1, <2>3 DEF CreateThread, MainPcs
  <2>4. CASE CacheInit
    BY <1>2, <2>1, <2>4 DEF CacheInit, MainPcs
  <2> QED
    BY <2>2, <2>3, <2>4
<1>4. /\ worker' \in [Workers -> Worker]
      /\ \A v \in Workers : \/ worker'[v] = worker[v]
                            \/ worker[v].pc = "none" /\ worker'[v] = [worker[v] EXCEPT !.pc = "pop"]
  <2>1. worker \in [Workers -> Worker]
    BY DEF IInv, Types, ProxyTypes
  <2>2. CASE UNCHANGED worker
    BY <2>1, <2>2
  <2>3. CASE \E w \in Workers : worker[w].pc = "none" /\ worker' = [worker EXCEPT ![w].pc = "pop"]
    BY <2>1, <2>3 DEF Worker, Labels
  <2> QED
    BY <2>2, <2>3 DEF Listen, CreateThread, CacheInit
<1>5. Types'
  <2>1. cache' \in Seq(Entry)
    BY <1>3, EmptySeq DEF IInv, Types, ProxyTypes
  <2> QED
    BY <1>1, <1>2, <1>3, <1>4, <2>1 DEF IInv, Types, ProxyTypes, TinyTypes, tinyVars
<1>6. Positions'
  BY <1>1, <1>2, <1>3, <1>4 DEF IInv, Positions, Types, ProxyTypes, Worker, tinyVars
<1>7. OwnerInv' /\ FreshInv' /\ BacklogInv'
  BY <1>1, <1>2, <1>3 DEF IInv, OwnerInv, FreshInv, BacklogInv, Queued, Backlogged, Alive, tinyVars
<1>8. Len(cache') <= MaxCache /\ EntryInv'
  <2>1. CASE main'.pc \in {"threads", "cache_init"} /\ cache' = cache
    BY <2>1 DEF IInv, EntryInv
  <2>2. CASE cache' = <<>>
    <3>1. <<>> \in Seq(Sound)' /\ Len(<<>>) = 0
      OBVIOUS
    <3> QED
      BY <2>2, <3>1, SizeAssumption DEF EntryInv
  <2> QED
    BY <1>3, <2>1, <2>2
<1>9. ClientInv'
  BY <1>1, ClientKept DEF IInv, Types, ProxyTypes, tinyVars
<1>10. ASSUME NEW v \in Workers PROVE WorkerInv(v)'
  <2>1. CASE worker'[v] = worker[v]
    BY <1>1, <2>1, WorkerFrame DEF IInv, Backlogged, tinyVars
  <2>2. CASE worker[v].pc = "none" /\ worker'[v] = [worker[v] EXCEPT !.pc = "pop"]
    <3>1. worker'[v].pc = "pop" /\ worker'[v].read = worker[v].read /\ worker'[v].n = worker[v].n
      BY <2>2 DEF IInv, Types, ProxyTypes, Worker
    <3>2. ~AtTiny(v)' /\ BufferInv(v)
      BY <1>1, <2>2 DEF IInv, WorkerInv, LinkInv, AtTiny, Backlogged, tinyVars
    <3> QED
      BY <2>2, <3>1, <3>2
         DEF WorkerInv, LinkInv, RelayInv, BufferInv, RequestInv, Early
  <2> QED
    BY <1>4, <2>1, <2>2
<1> QED
  BY <1>5, <1>6, <1>7, <1>8, <1>9, <1>10 DEF IInv

LEMMA AcceptInv ==
  ASSUME IInv, NEW c \in Conns, Accept(c)
  PROVE  IInv'
<1>1. /\ main.pc = "accept" /\ client[c].state = "pending"
      /\ UNCHANGED <<fifo, serving, worker, cache, exited, tinyVars>>
  BY DEF Accept
<1>2. /\ client \in [Conns -> Client] /\ ~exited /\ main.conn = NoConn
  BY <1>1 DEF IInv, Types, ProxyTypes, Positions
<1>3. /\ client' \in [Conns -> Client]
      /\ client'[c].got = client[c].got /\ client'[c].line = client[c].line
      /\ client'[c].uri = client[c].uri
      /\ \A d \in Conns \ {c} : client'[d] = client[d]
      /\ \/ client'[c].state = "open" /\ main' = [pc |-> "push", conn |-> c]
         \/ client'[c].state = "dropped" /\ main' = main
  <2>1. CASE /\ client' = [client EXCEPT ![c].state = "open"]
             /\ main' = [pc |-> "push", conn |-> c]
    BY <1>2, <2>1 DEF Client
  <2>2. CASE client' = [client EXCEPT ![c].state = "dropped"] /\ UNCHANGED main
    BY <1>2, <2>2 DEF Client
  <2> QED
    BY <2>1, <2>2 DEF Accept
<1>4. ~Queued(c) /\ \A v \in Workers : serving[v] # c
  BY <1>1 DEF IInv, OwnerInv
<1>5. /\ TinyTypes' /\ BacklogInv' /\ Len(cache') <= MaxCache /\ Sound' = Sound
      /\ \A v \in Workers : WorkerInv(v)'
  BY <1>1, <1>2, <1>3, <1>4, Undisturbed
<1>6. Types' /\ EntryInv' /\ Positions'
  BY <1>1, <1>2, <1>3, <1>5, NoConnAssumption
     DEF IInv, Types, ProxyTypes, Positions, EntryInv, MainPcs, tinyVars
<1>7. OwnerInv'
  <2>1. ~Queued(main'.conn)
    <3>1. ~Queued(NoConn)
      BY NoConnAssumption, ElementOfSeq, LenProperties DEF Queued, IInv, Types, ProxyTypes
    <3> QED
      BY <1>2, <1>3, <1>4, <3>1
  <2> QED
    BY <1>1, <1>2, <1>3, <1>4, <2>1, NoConnAssumption DEF IInv, OwnerInv, Queued
<1>8. FreshInv'
  BY <1>1, <1>2, <1>3 DEF IInv, FreshInv, Queued
<1>9. ClientInv'
  BY <1>1, <1>2, <1>3, ClientKept DEF tinyVars
<1> QED
  BY <1>5, <1>6, <1>7, <1>8, <1>9 DEF IInv

LEMMA QueuePushInv ==
  ASSUME IInv, QueuePush
  PROVE  IInv'
<1>1. /\ main.pc = "push" /\ main' = [pc |-> "accept", conn |-> NoConn]
      /\ Len(fifo) < Cap /\ fifo' = Append(fifo, main.conn)
      /\ UNCHANGED <<client, serving, worker, cache, exited, tinyVars>>
  BY DEF QueuePush, Queue!Push
<1> PICK c : c = main.conn
  OBVIOUS
<1>2. /\ c \in Conns /\ c # NoConn /\ fifo \in Seq(Conns) /\ ~exited /\ ~Queued(c)
      /\ client \in [Conns -> Client] /\ NoConn \notin Conns
  BY <1>1, NoConnAssumption DEF IInv, Types, ProxyTypes, Positions, OwnerInv
<1>3. /\ fifo' \in Seq(Conns) /\ Len(fifo') = Len(fifo) + 1
      /\ fifo'[Len(fifo) + 1] = c /\ \A i \in 1..Len(fifo) : fifo'[i] = fifo[i]
      /\ DOMAIN fifo = 1..Len(fifo) /\ DOMAIN fifo' = 1..(Len(fifo) + 1) /\ Len(fifo) \in Nat
  BY <1>1, <1>2, AppendProperties, LenProperties
<1>4. \A x : Queued(x)' <=> Queued(x) \/ x = c
  BY <1>3 DEF Queued
<1>5. /\ TinyTypes' /\ BacklogInv' /\ Len(cache') <= MaxCache /\ Sound' = Sound
      /\ \A v \in Workers : WorkerInv(v)'
  BY <1>1, <1>2, Undisturbed
<1>6. Types' /\ EntryInv' /\ Positions'
  <2>1. Len(fifo') <= Cap
    BY <1>1, <1>3, CapAssumption
  <2> QED
    BY <1>1, <1>2, <1>3, <1>5, <2>1
       DEF IInv, Types, ProxyTypes, Positions, EntryInv, MainPcs, tinyVars
<1>7. OwnerInv'
  <2>1. \A i, j \in DOMAIN fifo' : fifo'[i] = fifo'[j] => i = j
    BY <1>2, <1>3 DEF IInv, OwnerInv, Queued
  <2>2. ~Queued(NoConn)
    BY <1>2, ElementOfSeq, LenProperties DEF Queued
  <2>3. ~Queued(main.conn)'
    <3>1. main'.conn = NoConn /\ ~Queued(NoConn)'
      BY <1>1, <1>2, <1>4, <2>2
    <3> QED
      BY <3>1 DEF Queued
  <2>4. \A v \in Workers : ~Queued(serving[v])'
    BY <1>1, <1>2, <1>4 DEF IInv, OwnerInv
  <2>5. \A d \in Conns : client'[d].state = "open" <=>
          main'.conn = d \/ Queued(d)' \/ \E v \in Workers : serving'[v] = d
    BY <1>1, <1>2, <1>4 DEF IInv, OwnerInv
  <2>6. \A v \in Workers : serving'[v] = main'.conn => serving'[v] = NoConn
    BY <1>1
  <2> QED
    BY <1>1, <2>1, <2>3, <2>4, <2>5, <2>6 DEF IInv, OwnerInv
<1>8. FreshInv'
  BY <1>1, <1>2, <1>4 DEF IInv, FreshInv
<1>9. ClientInv'
  BY <1>1, <1>2, ClientKept DEF tinyVars
<1> QED
  BY <1>5, <1>6, <1>7, <1>8, <1>9 DEF IInv
-----------------------------------------------------------------------------
(* Tiny.  It goes on after the proxy has ended; only types matter then.    *)
ServingPcs == TinyPcs \ {"accept", "dead"}

LEMMA TinyServes ==
  ASSUME IInv, tiny.pc \in ServingPcs
  PROVE  /\ tiny.peer \in Workers /\ tiny.left \in Lines /\ Served \in Link /\ Alive
         /\ link \in [Peers -> Link] /\ ~Backlogged(tiny.peer)
         /\ ~exited => /\ WorkerInv(tiny.peer) /\ LinkInv(tiny.peer) /\ RelayInv(tiny.peer)
                       /\ worker[tiny.peer].pc \in {"send", "relay"}
                       /\ Served.open /\ ~Served.eof /\ ~Served.rst
                       /\ Reachable(Conn(tiny.peer).uri)
                       /\ Conn(tiny.peer).uri \in Uris
<1>1. tiny.peer \in Workers /\ tiny.left \in Lines /\ Served \in Link /\ Alive
      /\ link \in [Peers -> Link] /\ ~Backlogged(tiny.peer)
  BY DEF IInv, Types, TinyTypes, Positions, ServingPcs, TinyPcs, Served, Alive, Workers, BacklogInv
<1>2. ASSUME ~exited
      PROVE  /\ WorkerInv(tiny.peer) /\ LinkInv(tiny.peer) /\ RelayInv(tiny.peer)
             /\ RequestInv(tiny.peer) /\ AtTiny(tiny.peer)
  BY <1>1, <1>2 DEF IInv, WorkerInv, AtTiny
<1> QED
  BY <1>1, <1>2 DEF LinkInv, RequestInv, Served

(* A line goes from Tiny into the connection.                              *)
LEMMA WrittenLine ==
  ASSUME IInv, tiny.pc \in ServingPcs, tiny.left # <<>>, Written
  PROVE  /\ link' \in [Peers -> Link] /\ backlog' = backlog
         /\ \A v \in Peers \ {tiny.peer} : link'[v] = link[v]
         /\ LET p == tiny.peer
            IN  /\ Served.open => link'[p].lines = Append(link[p].lines, Head(tiny.left))
                /\ link'[p].open = link[p].open /\ link'[p].eof = link[p].eof
                /\ link'[p].rst = link[p].rst /\ link'[p].request = link[p].request
<1>1. /\ tiny.peer \in Peers /\ link \in [Peers -> Link] /\ Served = link[tiny.peer]
      /\ Served \in Link /\ tiny.left \in Lines
  BY TinyServes DEF Workers, Served
<1>2. Append(Served.lines, Head(tiny.left)) \in Lines
  BY <1>1, LineMoves, AppendProperties DEF Lines, Link
<1> QED
  BY <1>1, <1>2 DEF Written, Link

LEMMA EndsWhat ==
  ASSUME IInv, tiny.pc \in ServingPcs, NEW lines \in Lines, Ends(lines)
  PROVE  /\ link' \in [Peers -> Link] /\ backlog' = <<>> /\ tiny'.pc = "dead"
         /\ tiny'.peer = NoPeer /\ tiny'.left = <<>>
         /\ \A v \in Peers : /\ link'[v].request = link[v].request
                             /\ v # tiny.peer => /\ link'[v].lines = link[v].lines
                                                 /\ link'[v].eof = link[v].eof
         /\ link'[tiny.peer].lines = Served.lines \o lines
<1>1. /\ tiny.peer \in Peers /\ link \in [Peers -> Link] /\ Served = link[tiny.peer]
      /\ Served \in Link
  BY TinyServes DEF Workers, Served
<1>2. Served.lines \o lines \in Lines
  BY <1>1, ConcatProperties DEF Lines, Link
<1>3. \A v \in Peers : (\E i \in DOMAIN backlog : backlog[i] = v) \in BOOLEAN
  OBVIOUS
<1>4. link' \in [Peers -> Link]
  BY <1>1, <1>2, <1>3 DEF Ends, Link
<1>5. link'[tiny.peer] = [link[tiny.peer] EXCEPT !.eof = TRUE, !.lines = @ \o lines]
  BY <1>1 DEF Ends
<1>6. \A v \in Peers : v # tiny.peer =>
        link'[v] = [link[v] EXCEPT !.rst = \E i \in DOMAIN backlog : backlog[i] = v]
  BY DEF Ends
<1>7. \A v \in Peers : v # tiny.peer => /\ link'[v].request = link[v].request
                                        /\ link'[v].lines = link[v].lines
                                        /\ link'[v].eof = link[v].eof
  BY <1>1, <1>6, ZenonT(60) DEF Link
<1>8. link'[tiny.peer].request = link[tiny.peer].request
      /\ link'[tiny.peer].lines = Served.lines \o lines
  BY <1>1, <1>5 DEF Link
<1>9. backlog' = <<>> /\ tiny' = [pc |-> "dead", peer |-> NoPeer, left |-> <<>>]
  BY DEF Ends
<1> QED
  BY <1>1, <1>4, <1>7, <1>8, <1>9

(* Types and what follows from Tiny's position alone.                      *)
LEMMA TinyTypesInv ==
  ASSUME IInv, TinyNext
  PROVE  TinyTypes' /\ BacklogInv'
         /\ (tiny'.peer = NoPeer <=> tiny'.pc \in {"accept", "dead"})
         /\ (tiny'.pc = "serve_dynamic" => tiny'.left # <<>>)
<1> USE DEF ServingPcs, TinyPcs
<1>1. /\ tiny \in [pc : TinyPcs, peer : Peers \cup {NoPeer}, left : Lines] /\ backlog \in Seq(Peers)
      /\ link \in [Peers -> Link] /\ NoPeer \notin Peers
      /\ BacklogInv /\ (tiny.pc = "serve_dynamic" => tiny.left # <<>>)
  BY NoPeerAssumption DEF IInv, Types, TinyTypes, Positions
<1>2. CASE TinyAccept
  <2>1. /\ Head(backlog) \in Peers /\ Tail(backlog) \in Seq(Peers)
        /\ \A i, j \in DOMAIN Tail(backlog) : Tail(backlog)[i] = Tail(backlog)[j] => i = j
        /\ \A i \in DOMAIN Tail(backlog) : Tail(backlog)[i] # Head(backlog)
    BY <1>1, <1>2, HeadLeaves DEF TinyAccept, BacklogInv
  <2> QED
    BY <1>1, <1>2, <2>1, NothingYet DEF TinyAccept, TinyTypes, BacklogInv, Backlogged, Alive
<1>3. CASE TinyRead
  <2>1. CASE tiny' = [tiny EXCEPT !.pc = "close"]
    BY <1>1, <1>3, <2>1, TinyServes DEF TinyRead, TinyTypes, BacklogInv, Backlogged, Alive, Workers
  <2>2. CASE /\ Served.request # NoRequest
             /\ tiny' = [tiny EXCEPT !.left = Response(Served.request.path),
                                     !.pc = IF Files[Served.request.path] = "cgi"
                                            THEN "serve_dynamic" ELSE "write"]
    <3>1. Served.request.path \in Paths /\ tiny.peer \in Peers
      BY <1>3, <2>2, TinyServes DEF TinyRead, Link, Workers
    <3>2. /\ Response(Served.request.path) \in Lines /\ Response(Served.request.path) # <<>>
      BY <3>1, ResponseType
    <3>3. tiny' \in [pc : TinyPcs, peer : Peers \cup {NoPeer}, left : Lines]
          /\ tiny'.peer = tiny.peer /\ tiny'.pc \in {"serve_dynamic", "write"} /\ tiny'.left # <<>>
      BY <1>1, <2>2, <3>2
    <3> QED
      BY <1>1, <1>3, <3>1, <3>3 DEF TinyRead, TinyTypes, BacklogInv, Backlogged, Alive
  <2> QED
    BY <1>3, <2>1, <2>2 DEF TinyRead
<1>4. ASSUME tiny.pc \in ServingPcs, tiny.left # <<>>, Written,
             tiny' \in [pc : TinyPcs, peer : Peers \cup {NoPeer}, left : Lines],
             tiny'.peer = tiny.peer, tiny'.pc \in {"write", "wait"}
      PROVE  TinyTypes' /\ BacklogInv' /\ tiny'.peer # NoPeer
  <2>1. link' \in [Peers -> Link] /\ backlog' = backlog /\ tiny.peer \in Peers
    BY <1>4, WrittenLine, TinyServes DEF Workers
  <2> QED
    BY <1>1, <1>4, <2>1 DEF TinyTypes, BacklogInv, Backlogged, Alive
<1>5. ASSUME tiny.pc \in ServingPcs, NEW lines \in Lines, Ends(lines)
      PROVE  TinyTypes' /\ BacklogInv' /\ tiny'.peer = NoPeer /\ tiny'.pc = "dead"
  <2>1. link' \in [Peers -> Link] /\ backlog' = <<>>
        /\ tiny' = [pc |-> "dead", peer |-> NoPeer, left |-> <<>>]
    BY <1>5, EndsWhat DEF Ends
  <2> QED
    BY <2>1, NothingYet DEF TinyTypes, BacklogInv, Backlogged, Alive
<1>6. <<HEADER>> \in Lines /\ <<>> \in Lines
  BY NothingYet DEF Lines, Line
<1>7. tiny.left # <<>> => Tail(tiny.left) \in Lines
  BY <1>1, HeadTailProperties DEF Lines
<1>8. CASE TinyWrite
  <2>1. CASE SigPipe
    BY <1>5, <1>6, <1>8, <2>1 DEF TinyWrite, SigPipe
  <2>2. CASE Written /\ tiny' = [tiny EXCEPT !.left = Tail(@)]
    BY <1>1, <1>4, <1>7, <1>8, <2>2 DEF TinyWrite
  <2> QED
    BY <1>8, <2>1, <2>2 DEF TinyWrite
<1>9. CASE TinyFork
  <2>1. CASE SigPipe \/ Ends(<<HEADER>>)
    BY <1>5, <1>6, <1>9, <2>1 DEF TinyFork, SigPipe
  <2>2. CASE Written /\ tiny' = [tiny EXCEPT !.pc = "wait", !.left = Tail(@)]
    BY <1>1, <1>4, <1>7, <1>9, <2>2 DEF TinyFork
  <2> QED
    BY <1>9, <2>1, <2>2 DEF TinyFork
<1>10. CASE CgiWrites
  BY <1>1, <1>4, <1>6, <1>7, <1>10 DEF CgiWrites
<1>11. CASE TinyWritten \/ TinyWait
  BY <1>1, <1>11, TinyServes
     DEF TinyWritten, TinyWait, TinyTypes, BacklogInv, Backlogged, Alive, Workers
<1>12. CASE TinyClose
  <2>1. /\ link' \in [Peers -> Link] /\ backlog' = backlog
        /\ tiny' = [pc |-> "accept", peer |-> NoPeer, left |-> <<>>] /\ Alive
    BY <1>1, <1>12 DEF TinyClose, Link, Alive
  <2>2. ~Backlogged(NoPeer)
    BY <1>1, ElementOfSeq, LenProperties DEF Backlogged
  <2> QED
    BY <1>1, <2>1, <2>2, NothingYet DEF TinyTypes, BacklogInv, Backlogged, Alive
<1> QED
  BY <1>2, <1>3, <1>8, <1>9, <1>10, <1>11, <1>12 DEF TinyNext

(* While it lives, the other workers notice nothing.                       *)
LEMMA TinyOthers ==
  ASSUME IInv, ~exited, UNCHANGED proxyVars, Alive, Alive', NEW v \in Workers,
         v # tiny.peer, v # tiny'.peer, link'[v] = link[v], Backlogged(v)' <=> Backlogged(v)
  PROVE  WorkerInv(v)'
BY WorkerFrame DEF IInv, proxyVars

(* The peer that Tiny serves, while the answer is on its way.              *)
LEMMA TinyPeer ==
  ASSUME IInv, ~exited, UNCHANGED <<proxyVars, backlog>>, tiny.pc \in ServingPcs,
         NEW p \in Workers, p = tiny.peer, worker[p].pc = "relay",
         tiny'.peer = p, tiny'.pc \in ServingPcs \ {"doit"},
         /\ link'[p].open = link[p].open /\ link'[p].eof = link[p].eof
         /\ link'[p].rst = link[p].rst /\ link'[p].request = link[p].request,
         Arrived(p)' \o tiny'.left = Response(Site(p).path),
         tiny'.pc = "serve_dynamic" => /\ Files[Site(p).path] = "cgi"
                                       /\ Conn(p).got = <<>> /\ link'[p].lines = <<>>,
         tiny'.pc = "close" => tiny'.left = <<>>
  PROVE  WorkerInv(p)'
<1>1. Conn(p)' = Conn(p) /\ Site(p)' = Site(p) /\ list(p)' = list(p) /\ worker' = worker
      /\ serving' = serving /\ client' = client
  BY DEF Conn, Site, list, proxyVars
<1>2. /\ LinkInv(p) /\ BufferInv(p) /\ RequestInv(p) /\ Reachable(Conn(p).uri)
      /\ link[p].open /\ ~link[p].eof /\ ~link[p].rst /\ ~Backlogged(p)
  BY TinyServes DEF WorkerInv, Served
<1>3. ~Backlogged(p)'
  BY <1>2 DEF Backlogged
<1>4. LinkInv(p)'
  BY <1>1, <1>2 DEF LinkInv
<1>5. RelayInv(p)'
  BY <1>1, <1>2, <1>3 DEF RelayInv, ServingPcs
<1>6. BufferInv(p)'
  BY <1>1, <1>2 DEF BufferInv
<1>7. RequestInv(p)'
  BY <1>1, <1>2 DEF RequestInv, Early
<1> QED
  BY <1>4, <1>5, <1>6, <1>7 DEF WorkerInv

LEMMA TinyAcceptWorkers ==
  ASSUME IInv, ~exited, UNCHANGED proxyVars, TinyAccept, NEW v \in Workers
  PROVE  WorkerInv(v)'
<1>1. /\ tiny' = [pc |-> "doit", peer |-> Head(backlog), left |-> <<>>]
      /\ backlog' = Tail(backlog) /\ link' = link /\ tiny.pc = "accept" /\ backlog # <<>>
  BY DEF TinyAccept
<1>2. /\ Alive /\ Alive' /\ tiny.peer = NoPeer /\ NoPeer \notin Peers
  BY <1>1, NoPeerAssumption DEF Alive, IInv, Positions
<1> PICK p : p = Head(backlog)
  OBVIOUS
<1>3. (\A x : Backlogged(x) <=> x = p \/ Backlogged(x)') /\ ~Backlogged(p)'
  <2>1. backlog \in Seq(Peers) /\ \A i, j \in DOMAIN backlog : backlog[i] = backlog[j] => i = j
    BY DEF IInv, Types, TinyTypes, BacklogInv
  <2>2. \A x : (\E i \in DOMAIN backlog : backlog[i] = x) <=>
               x = p \/ \E i \in DOMAIN Tail(backlog) : Tail(backlog)[i] = x
    BY <1>1, <2>1, HeadLeaves
  <2>3. \A i \in DOMAIN Tail(backlog) : Tail(backlog)[i] # p
    BY <1>1, <2>1, HeadLeaves
  <2> QED
    BY <1>1, <2>2, <2>3 DEF Backlogged
<1>4. CASE v # p
  BY <1>1, <1>2, <1>3, <1>4, TinyOthers DEF Workers
<1>5. CASE v = p
  <2>1. Conn(v)' = Conn(v) /\ Site(v)' = Site(v) /\ list(v)' = list(v) /\ worker' = worker
        /\ serving' = serving /\ client' = client
    BY DEF Conn, Site, list, proxyVars
  <2>2. WorkerInv(v) /\ Backlogged(v) /\ AtTiny(v) /\ AtTiny(v)'
    BY <1>1, <1>3, <1>5 DEF IInv, AtTiny
  <2>3. LinkInv(v)'
    BY <1>1, <2>1, <2>2 DEF WorkerInv, LinkInv
  <2>4. RelayInv(v)'
    BY <1>1, <1>2, <1>3, <1>5, <2>1, <2>2 DEF WorkerInv, LinkInv, RelayInv
  <2>5. BufferInv(v)'
    BY <2>1, <2>2 DEF WorkerInv, BufferInv
  <2>6. RequestInv(v)'
    BY <2>1, <2>2 DEF WorkerInv, LinkInv, RequestInv, Early
  <2> QED
    BY <2>3, <2>4, <2>5, <2>6 DEF WorkerInv
<1> QED
  BY <1>4, <1>5

(* TinyRead decides what to write; the writing steps move it on.           *)
LEMMA TinyServesWorkers ==
  ASSUME IInv, ~exited, UNCHANGED proxyVars, NEW v \in Workers,
         \/ TinyRead \/ TinyWritten \/ TinyWait \/ CgiWrites
         \/ TinyWrite /\ ~SigPipe
         \/ TinyFork /\ ~SigPipe /\ ~Ends(<<HEADER>>)
  PROVE  WorkerInv(v)'
<1> USE DEF ServingPcs, TinyPcs
<1> PICK p : p = tiny.peer
  OBVIOUS
<1>1. tiny.pc \in ServingPcs
  BY DEF TinyRead, TinyWritten, TinyWait, CgiWrites, TinyWrite, TinyFork
<1>2. /\ p \in Workers /\ tiny \in [pc : TinyPcs, peer : Peers \cup {NoPeer}, left : Lines]
      /\ tiny.left \in Lines /\ link[p] \in Link /\ Served = link[p] /\ Alive
      /\ LinkInv(p) /\ RelayInv(p) /\ worker[p].pc \in {"send", "relay"} /\ Served.open
      /\ Conn(p).got \in Lines /\ Conn(p).uri \in Uris /\ Site(p).path \in Paths
  <2>1. /\ p \in Workers /\ tiny \in [pc : TinyPcs, peer : Peers \cup {NoPeer}, left : Lines]
        /\ tiny.left \in Lines /\ link[p] \in Link /\ Served = link[p] /\ Alive
        /\ LinkInv(p) /\ RelayInv(p) /\ worker[p].pc \in {"send", "relay"} /\ Served.open
        /\ Conn(p).uri \in Uris
    BY <1>1, TinyServes DEF IInv, Types, TinyTypes, Served
  <2>2. Conn(p).got \in Lines
    BY <2>1, InHand DEF Conn, Client
  <2>3. Site(p).path \in Paths
    BY <2>1, UriKnown DEF Site
  <2> QED
    BY <2>1, <2>2, <2>3
<1>3. Arrived(p) \in Lines
  BY <1>2, ConcatProperties DEF Arrived, Link, Lines
<1>4. ASSUME worker[p].pc = "relay", backlog' = backlog,
             tiny'.peer = p, tiny'.pc \in ServingPcs \ {"doit"},
             \A u \in Peers \ {p} : link'[u] = link[u],
             /\ link'[p].open = link[p].open /\ link'[p].eof = link[p].eof
             /\ link'[p].rst = link[p].rst /\ link'[p].request = link[p].request,
             Arrived(p)' \o tiny'.left = Response(Site(p).path),
             tiny'.pc = "serve_dynamic" => /\ Files[Site(p).path] = "cgi"
                                           /\ Conn(p).got = <<>> /\ link'[p].lines = <<>>,
             tiny'.pc = "close" => tiny'.left = <<>>
      PROVE  WorkerInv(v)'
  <2>1. CASE v = p
    BY <1>1, <1>2, <1>4, <2>1, TinyPeer
  <2>2. CASE v # p
    BY <1>2, <1>4, <2>2, TinyOthers DEF Alive, Workers, Backlogged
  <2> QED
    BY <2>1, <2>2
<1>5. tiny.pc # "doit" => worker[p].pc = "relay" /\ Arrived(p) \o tiny.left = Response(Site(p).path)
  BY <1>2 DEF LinkInv, RelayInv
<1>6. CASE TinyRead
  <2>1. /\ Served.request # NoRequest /\ UNCHANGED <<backlog, link>> /\ tiny.pc = "doit"
        /\ tiny' = [tiny EXCEPT !.left = Response(Served.request.path),
                                !.pc = IF Files[Served.request.path] = "cgi"
                                       THEN "serve_dynamic" ELSE "write"]
    BY <1>2, <1>6 DEF TinyRead
  <2>2. /\ worker[p].pc = "relay" /\ Served.request.path = Site(p).path
        /\ Conn(p).got = <<>> /\ link[p].lines = <<>>
    BY <1>2, <2>1 DEF LinkInv, RelayInv
  <2>3. /\ tiny'.peer = p /\ tiny'.left = Response(Site(p).path)
        /\ tiny'.pc \in {"serve_dynamic", "write"}
        /\ tiny'.pc = "serve_dynamic" => Files[Site(p).path] = "cgi"
    BY <1>2, <2>1, <2>2
  <2>4. Arrived(p)' = <<>>
    BY <2>1, <2>2 DEF Arrived, Conn, proxyVars
  <2>5. Response(Site(p).path) \in Lines
    BY <1>2, ResponseType
  <2>6. Arrived(p)' \o tiny'.left = Response(Site(p).path)
    BY <2>3, <2>4, <2>5, ConcatEmptySeq DEF Lines
  <2> QED
    BY <1>4, <2>1, <2>2, <2>3, <2>6
<1>7. CASE TinyWritten \/ TinyWait
  <2>1. /\ UNCHANGED <<backlog, link>> /\ tiny' = [tiny EXCEPT !.pc = "close"] /\ tiny.left = <<>>
        /\ tiny.pc # "doit"
    BY <1>7 DEF TinyWritten, TinyWait
  <2>2. Arrived(p)' = Arrived(p)
    BY <2>1 DEF Arrived, Conn, proxyVars
  <2> QED
    BY <1>2, <1>4, <1>5, <2>1, <2>2
<1>8. CASE CgiWrites \/ (TinyWrite /\ ~SigPipe) \/ (TinyFork /\ ~SigPipe /\ ~Ends(<<HEADER>>))
  <2>1. /\ Written /\ tiny.left # <<>> /\ tiny.pc # "doit"
        /\ tiny'.peer = p /\ tiny'.left = Tail(tiny.left) /\ tiny'.pc \in {"write", "wait"}
    <3>1. tiny.left # <<>>
      BY <1>8 DEF CgiWrites, TinyWrite, TinyFork, IInv, Positions
    <3> QED
      BY <1>2, <1>8, <3>1 DEF CgiWrites, TinyWrite, TinyFork
  <2>2. /\ link' \in [Peers -> Link] /\ backlog' = backlog
        /\ \A u \in Peers \ {p} : link'[u] = link[u]
        /\ link'[p].lines = Append(link[p].lines, Head(tiny.left))
        /\ link'[p].open = link[p].open /\ link'[p].eof = link[p].eof
        /\ link'[p].rst = link[p].rst /\ link'[p].request = link[p].request
    BY <1>1, <1>2, <2>1, WrittenLine
  <2>3. Arrived(p)' \o tiny'.left = Arrived(p) \o tiny.left
    <3> DEFINE line == Head(tiny.left)
    <3>1. Arrived(p)' = Conn(p).got \o Append(link[p].lines, line)
      BY <2>2 DEF Arrived, Conn, proxyVars
    <3>2. line \in Line /\ link[p].lines \in Lines /\ Tail(tiny.left) \in Lines
      BY <1>2, <2>1, LineMoves DEF Link
    <3> HIDE DEF line
    <3>3. Conn(p).got \o Append(link[p].lines, line) = Append(Arrived(p), line)
      <4>1. <<line>> \in Lines
        BY <3>2 DEF Lines
      <4>2. Append(link[p].lines, line) = link[p].lines \o <<line>>
            /\ Append(Arrived(p), line) = Arrived(p) \o <<line>>
        BY <1>3, <3>2, AppendIsConcat DEF Lines
      <4>3. (Conn(p).got \o link[p].lines) \o <<line>> = Conn(p).got \o (link[p].lines \o <<line>>)
        <5>1. \A a, b, d \in Lines : (a \o b) \o d = a \o (b \o d)
          BY ConcatAssociative DEF Lines
        <5> QED
          BY <1>2, <3>2, <4>1, <5>1, ZenonT(60)
      <4> QED
        BY <4>2, <4>3 DEF Arrived
    <3>4. Append(Arrived(p), line) \o Tail(tiny.left) = Arrived(p) \o tiny.left
      BY <1>2, <1>3, <2>1, LineMoves DEF line
    <3> QED
      BY <2>1, <3>1, <3>3, <3>4
  <2> QED
    BY <1>4, <1>5, <2>1, <2>2, <2>3
<1> QED
  BY <1>6, <1>7, <1>8

(* The whole answer has been written when Tiny closes the connection.      *)
LEMMA TinyCloseWorkers ==
  ASSUME IInv, ~exited, UNCHANGED proxyVars, TinyClose, NEW v \in Workers
  PROVE  WorkerInv(v)'
<1>1. /\ tiny.pc = "close" /\ tiny.pc \in ServingPcs /\ backlog' = backlog
      /\ link' = [link EXCEPT ![tiny.peer].eof = TRUE]
      /\ tiny' = [pc |-> "accept", peer |-> NoPeer, left |-> <<>>]
  BY DEF TinyClose, ServingPcs, TinyPcs
<1> PICK p : p = tiny.peer
  OBVIOUS
<1>2. /\ p \in Workers /\ link \in [Peers -> Link] /\ link[p] \in Link /\ Alive /\ Alive'
      /\ NoPeer \notin Peers /\ ~Backlogged(p)' /\ tiny'.peer = NoPeer
  BY <1>1, TinyServes, NoPeerAssumption DEF Served, Alive, Backlogged
<1>3. /\ link'[p].lines = link[p].lines /\ link'[p].request = link[p].request
      /\ \A u \in Peers \ {p} : link'[u] = link[u]
  BY <1>1, <1>2 DEF Link, Workers
<1>4. CASE v # p
  BY <1>1, <1>2, <1>3, <1>4, TinyOthers DEF Workers, Backlogged
<1>5. CASE v = p
  <2>1. Conn(v)' = Conn(v) /\ Site(v)' = Site(v) /\ list(v)' = list(v) /\ worker' = worker
        /\ serving' = serving /\ client' = client
    BY DEF Conn, Site, list, proxyVars
  <2>2. /\ LinkInv(v) /\ RelayInv(v) /\ BufferInv(v) /\ RequestInv(v)
        /\ worker[v].pc = "relay" /\ Reachable(Conn(v).uri) /\ Conn(v).uri \in Uris
    BY <1>1, <1>5, TinyServes DEF WorkerInv, LinkInv
  <2>3. ~AtTiny(v)'
    BY <1>2, <1>5 DEF AtTiny, Workers
  <2>4. LinkInv(v)'
    BY <1>3, <1>5, <2>1, <2>2, <2>3 DEF LinkInv
  <2>5. Arrived(v)' = Response(Site(v).path)
    <3>1. Arrived(v) \o <<>> = Response(Site(v).path) /\ Conn(v).got \in Lines
      BY <1>1, <1>5, <2>2, InHand DEF RelayInv, Conn, Client
    <3>2. Arrived(v) \in Lines
      BY <1>2, <1>5, <3>1, ConcatProperties DEF Arrived, Link, Lines
    <3> QED
      BY <1>3, <1>5, <2>1, <3>1, <3>2, ConcatEmptySeq DEF Arrived, Lines
  <2>6. RelayInv(v)'
    <3>1. Arrived(v)' \in Answers(Conn(v).uri)'
      BY <1>2, <2>1, <2>5 DEF Answers, Site
    <3> QED
      BY <1>2, <1>5, <2>3, <3>1 DEF RelayInv, AtTiny, Workers
  <2>7. BufferInv(v)' /\ RequestInv(v)'
    BY <2>1, <2>2 DEF BufferInv, RequestInv, Early
  <2> QED
    BY <2>4, <2>6, <2>7 DEF WorkerInv
<1> QED
  BY <1>4, <1>5

(* Tiny dies over the answer of a program: what the peer gets then is a    *)
(* prefix of it; peers of the backlog are reset.                           *)
LEMMA TinyDeathWorkers ==
  ASSUME IInv, ~exited, UNCHANGED proxyVars, tiny.pc = "serve_dynamic", Ends(<<HEADER>>),
         NEW v \in Workers
  PROVE  WorkerInv(v)'
<1>1. tiny.pc \in ServingPcs /\ <<HEADER>> \in Lines
  BY DEF ServingPcs, TinyPcs, Lines, Line
<1>2. /\ backlog' = <<>> /\ tiny'.pc = "dead" /\ tiny'.peer = NoPeer /\ Alive /\ ~Alive'
      /\ link'[v].request = link[v].request
      /\ v # tiny.peer => link'[v].lines = link[v].lines /\ link'[v].eof = link[v].eof
      /\ link'[tiny.peer].lines = link[tiny.peer].lines \o <<HEADER>>
  BY <1>1, EndsWhat DEF Alive, Workers, Served
<1>3. Conn(v)' = Conn(v) /\ Site(v)' = Site(v) /\ list(v)' = list(v) /\ worker' = worker
      /\ serving' = serving /\ client' = client
  BY DEF Conn, Site, list, proxyVars
<1>4. WorkerInv(v) /\ LinkInv(v) /\ RelayInv(v) /\ BufferInv(v) /\ RequestInv(v)
  BY DEF IInv, WorkerInv
<1>5. ~AtTiny(v)'
  BY <1>2, NoPeerAssumption DEF AtTiny, Backlogged, Workers
<1>6. v = tiny.peer => /\ worker[v].pc = "relay" /\ Reachable(Conn(v).uri)
                       /\ Conn(v).got = <<>> /\ link[v].lines = <<>>
                       /\ Files[Site(v).path] = "cgi"
  BY <1>1, <1>4, TinyServes DEF LinkInv, RelayInv
<1>7. LinkInv(v)'
  <2>1. CASE v = tiny.peer
    BY <1>2, <1>3, <1>4, <1>5, <1>6, <2>1 DEF LinkInv
  <2>2. CASE v # tiny.peer
    <3>1. link'[v].lines = link[v].lines /\ link'[v].eof = link[v].eof /\ tiny'.peer # v
      BY <1>2, <2>2, NoPeerAssumption DEF Workers
    <3> QED
      BY <1>2, <1>3, <1>4, <1>5, <3>1 DEF LinkInv
  <2> QED
    BY <2>1, <2>2
<1>8. worker[v].pc \notin {"none", "pop", "request", "close"} =>
        Answers(Conn(v).uri) \subseteq Answers(Conn(v).uri)'
  <2>1. \A u \in Uris : Answers(u) \subseteq Answers(u)'
    BY <1>2, AnswersGrow
  <2> QED
    BY <1>3, <1>4, <2>1 DEF RequestInv, Answers
<1>9. RelayInv(v)'
  <2>1. CASE v = tiny.peer
    <3>1. Arrived(v)' = <<HEADER>>
      BY <1>1, <1>2, <1>3, <1>6, <2>1, ConcatEmptySeq DEF Arrived, Lines
    <3>2. Site(v).path \in Paths /\ Site(v) = parse_uri(Conn(v).uri)
      BY <1>4, <1>6, <2>1, UriKnown DEF RequestInv, Site
    <3>3. PICK page \in Lines : Response(Site(v).path) = <<HEADER>> \o page
      BY <1>6, <2>1, <3>2, ResponseType
    <3>4. <<HEADER>> \in Prefixes(Response(Site(v).path))
      BY <1>1, <3>3, FrontIsPrefix
    <3>5. Arrived(v)' \in Answers(Conn(v).uri)'
      BY <1>2, <1>3, <3>1, <3>2, <3>4 DEF Answers
    <3> QED
      BY <1>5, <3>5 DEF RelayInv, AtTiny
  <2>2. CASE v # tiny.peer
    <3>1. Arrived(v)' = Arrived(v)
      BY <1>2, <1>3, <2>2 DEF Arrived
    <3>2. worker[v].pc = "relay" /\ link'[v].eof => Arrived(v)' \in Answers(Conn(v).uri)'
      BY <1>2, <1>4, <1>8, <2>2, <3>1 DEF RelayInv
    <3> QED
      BY <1>3, <1>5, <3>2 DEF RelayInv, AtTiny
  <2> QED
    BY <2>1, <2>2
<1>10. BufferInv(v)'
  BY <1>3, <1>4 DEF BufferInv
<1>11. RequestInv(v)'
  <2>1. worker[v].pc = "close" => Deserved(serving[v]) \subseteq Deserved(serving[v])'
    <3>1. worker[v].pc = "close" => serving[v] \in Conns
      BY InHand
    <3>2. \A c \in Conns : client[c].line = "GET" => client[c].uri \in Uris
      BY DEF IInv, ClientInv
    <3> QED
      BY <1>2, <1>3, <3>1, <3>2, DeservedGrows
  <2> QED
    BY <1>3, <1>4, <1>8, <2>1 DEF RequestInv, Early
<1> QED
  BY <1>7, <1>9, <1>10, <1>11 DEF WorkerInv

LEMMA TinyInv ==
  ASSUME IInv, TinyNext, UNCHANGED proxyVars
  PROVE  IInv'
<1>1. Types' /\ Positions' /\ BacklogInv'
  BY TinyTypesInv DEF IInv, Types, ProxyTypes, Positions, proxyVars
<1>2. OwnerInv' /\ Len(cache') <= MaxCache /\ (exited' <=> exited)
  BY DEF IInv, OwnerInv, Queued, proxyVars
<1>3. ASSUME ~exited
      PROVE  FreshInv' /\ EntryInv' /\ ClientInv' /\ \A v \in Workers : WorkerInv(v)'
  <2>1. FreshInv'
    BY <1>3 DEF IInv, FreshInv, Queued, proxyVars
  <2>2. /\ Alive => \A c \in Conns : Deserved(c) \subseteq Deserved(c)'
        /\ Alive => Sound \subseteq Sound'
        /\ \A c \in Conns : client[c].line = "GET" => client[c].uri \in Uris
    <3>1. \A c \in Conns : client[c].line = "GET" => client[c].uri \in Uris
      BY <1>3 DEF IInv, ClientInv
    <3>2. CASE Alive /\ ~Alive'
      <4>1. \A u \in Uris : Answers(u) \subseteq Answers(u)'
        BY <3>2, AnswersGrow
      <4>2. Sound \subseteq Sound'
        BY <4>1 DEF Sound
      <4> QED
        BY <3>1, <3>2, <4>2, DeservedGrows DEF proxyVars
    <3>3. CASE Alive' = Alive
      BY <3>1, <3>3, DeservedKept DEF Sound, Answers, proxyVars
    <3> QED
      BY <3>1, <3>2, <3>3 DEF Alive
  <2>3. Alive
    BY DEF TinyNext, TinyAccept, TinyRead, TinyWrite, TinyWritten, TinyFork, CgiWrites, TinyWait,
           TinyClose, Alive
  <2>4. EntryInv'
    <3>1. main.pc \in {"accept", "push"} => cache \in Seq(Sound)
      BY <1>3 DEF IInv, EntryInv
    <3> QED
      BY <2>2, <2>3, <3>1, SeqMonotonic DEF EntryInv, proxyVars
  <2>5. ClientInv'
    BY <1>3, <2>2, <2>3 DEF IInv, ClientInv, proxyVars
  <2>6. ASSUME NEW v \in Workers PROVE WorkerInv(v)'
    <3>1. tiny.pc \in ServingPcs => ~SigPipe
      BY <1>3, TinyServes DEF SigPipe
    <3>2. TinyWrite \/ TinyFork => ~SigPipe
      BY <3>1 DEF TinyWrite, TinyFork, ServingPcs, TinyPcs
    <3>3. CASE TinyAccept
      BY <1>3, <3>3, TinyAcceptWorkers
    <3>4. CASE TinyClose
      BY <1>3, <3>4, TinyCloseWorkers
    <3>5. CASE TinyFork /\ Ends(<<HEADER>>)
      BY <1>3, <3>5, TinyDeathWorkers DEF TinyFork
    <3> QED
      BY <1>3, <3>2, <3>3, <3>4, <3>5, TinyServesWorkers DEF TinyNext
  <2> QED
    BY <2>1, <2>4, <2>5, <2>6
<1> QED
  BY <1>1, <1>2, <1>3 DEF IInv
-----------------------------------------------------------------------------
LEMMA InitInv == Init => IInv
<1> SUFFICES ASSUME Init PROVE IInv
  OBVIOUS
<1>1. Types
  <2>1. NewClient \in Client /\ [Idle EXCEPT !.pc = "none"] \in Worker /\ NoLink \in Link
        /\ [uri |-> NoUri, content |-> <<>>] \in Entry
    BY NothingYet DEF NewClient, Client, Idle, Worker, Labels, NoLink, Link, Entry
  <2>2. ProxyTypes
    <3>1. /\ main \in [pc : MainPcs, conn : Conns \cup {NoConn}] /\ exited \in BOOLEAN
          /\ fifo \in Seq(Conns) /\ Len(fifo) <= Cap
          /\ serving \in [Workers -> Conns \cup {NoConn}]
      <4>1. fifo = <<>> /\ serving = [t \in Workers |-> NoConn]
        BY DEF Init, Queue!Init
      <4>2. Len(fifo) <= Cap /\ fifo \in Seq(Conns)
        BY <4>1, CapAssumption
      <4>3. main \in [pc : MainPcs, conn : Conns \cup {NoConn}] /\ exited \in BOOLEAN
        BY DEF Init, MainPcs
      <4> QED
        BY <4>1, <4>2, <4>3
    <3>2. client \in [Conns -> Client] /\ worker \in [Workers -> Worker]
      BY <2>1 DEF Init
    <3>3. cache \in Seq(Entry)
      BY <2>1 DEF Init, Unready
    <3> QED
      BY <3>1, <3>2, <3>3 DEF ProxyTypes
  <2>3. TinyTypes
    BY <2>1, NothingYet DEF Init, TinyInit, TinyTypes, TinyPcs
  <2> QED
    BY <2>2, <2>3 DEF Types
<1>2. Positions /\ OwnerInv
  BY NoConnAssumption
     DEF Init, Queue!Init, Idle, NewClient, TinyInit, Positions, OwnerInv, Queued
<1>3. BacklogInv /\ \A w \in Workers : ~AtTiny(w)
  BY NoPeerAssumption DEF Init, TinyInit, BacklogInv, Backlogged, Alive, AtTiny, Workers
<1>4. Len(cache) <= MaxCache /\ FreshInv /\ EntryInv /\ ClientInv
  BY SizeAssumption DEF Init, Unready, FreshInv, EntryInv, ClientInv, NewClient
<1>5. \A w \in Workers : WorkerInv(w)
  BY <1>3, SizeAssumption
     DEF Init, Idle, WorkerInv, LinkInv, RelayInv, BufferInv, RequestInv, Early
<1> QED
  BY <1>1, <1>2, <1>3, <1>4, <1>5 DEF IInv

LEMMA NextInv == IInv /\ [Next]_vars => IInv'
<1> SUFFICES ASSUME IInv, [Next]_vars PROVE IInv'
  OBVIOUS
<1>1. CASE \E c \in Conns : Connect(c) \/ Reset(c)
  BY <1>1, ConnectInv, ResetInv
<1>2. CASE MainStep
  BY <1>2, StartInv, AcceptInv, QueuePushInv DEF MainStep
<1>3. CASE \E w \in Workers : WorkerStep(w)
  <2>1. PICK w \in Workers : WorkerStep(w)
    BY <1>3
  <2> QED
    BY <2>1, QueuePopInv, ReadRequestLineInv, CacheHitInv, CacheMissInv, BuildHeadersInv,
       GetAddrInfoInv, ConnectServerInv, SendHeadersInv, RelayKeepsInv, RelayEndsInv, CacheAddInv,
       ServerCloseInv, ClientCloseInv DEF WorkerStep
<1>4. CASE TinyNext /\ UNCHANGED proxyVars
  BY <1>4, TinyInv
<1>5. CASE UNCHANGED vars
  <2>1. Types' /\ Positions' /\ OwnerInv' /\ BacklogInv' /\ Len(cache') <= MaxCache
    BY <1>5 DEF IInv, Types, ProxyTypes, TinyTypes, Positions, OwnerInv, BacklogInv, Queued,
                Backlogged, Alive, vars, proxyVars, tinyVars
  <2>2. ~exited => FreshInv' /\ EntryInv' /\ ClientInv'
    BY <1>5 DEF IInv, FreshInv, EntryInv, Sound, Answers, ClientInv, Deserved, Alive, Queued,
                vars, proxyVars, tinyVars
  <2>3. ~exited => \A w \in Workers : WorkerInv(w)'
    BY <1>5, WorkerFrame DEF IInv, Backlogged, vars, proxyVars, tinyVars
  <2> QED
    BY <1>5, <2>1, <2>2, <2>3 DEF IInv, vars, proxyVars
<1> QED
  BY <1>1, <1>2, <1>3, <1>4, <1>5 DEF Next

THEOREM Invariance == Spec => []IInv
BY InitInv, NextInv, PTL DEF Spec

(* After cache_init, and until the end, the cache holds sound entries.     *)
LEMMA CacheReady ==
  ASSUME IInv, cache # Unready
  PROVE  ~exited /\ main.pc \in {"accept", "push"} /\ cache \in Seq(Sound)
<1>1. ~exited /\ main.pc \in {"accept", "push"}
  BY DEF IInv, Types, ProxyTypes, Positions, MainPcs
<1> QED
  BY <1>1 DEF IInv, EntryInv

LEMMA SoundNotUnready ==
  ASSUME cache \in Seq(Sound)
  PROVE  cache # Unready
<1>1. Unready[1].uri = NoUri /\ 1 \in 1..Len(Unready)
  BY DEF Unready
<1>2. ASSUME cache = Unready PROVE FALSE
  <2>1. cache[1] \in Sound
    BY <1>1, <1>2, ElementOfSeq
  <2>2. NoUri \in Uris
    BY <1>1, <1>2, <2>1 DEF Sound
  <2> QED
    BY <2>2, UriKnown
<1> QED
  BY <1>2

(* The variables have their types, and the buffer of do_request is never   *)
(* overrun, however long the answer.                                       *)
THEOREM TypeCorrect == Spec => []TypeOK
<1>1. IInv => TypeOK
  <2> SUFFICES ASSUME IInv PROVE TypeOK
    OBVIOUS
  <2>1. /\ main.pc \in {"listen", "threads", "cache_init", "accept", "push", "none"}
        /\ main.conn \in Conns \cup {NoConn}
        /\ Len(fifo) <= Cap /\ serving \in [Workers -> Conns \cup {NoConn}] /\ exited \in BOOLEAN
    BY DEF IInv, Types, ProxyTypes, MainPcs
  <2>2. \A c \in Conns : /\ client[c].state \in {"none", "pending", "open", "dropped", "closed"}
                         /\ client[c].line \in Requests \cup {"eof"}
                         /\ client[c].uri \in Uris \cup {NoUri}
    BY DEF IInv, Types, ProxyTypes, Client
  <2>3. \A w \in Workers : worker[w].ptr \in 0..2 /\ Len(worker[w].read) < MAX_OBJECT_SIZE
    <3>1. \A w \in Workers : worker[w].ptr \in 0..2
      BY DEF IInv, Types, ProxyTypes, Worker
    <3>2. CASE exited
      BY <3>1, <3>2, SizeAssumption DEF IInv, Positions, Idle
    <3>3. CASE ~exited
      BY <3>1, <3>3 DEF IInv, WorkerInv, BufferInv
    <3> QED
      BY <3>2, <3>3
  <2>4. cache = Unready \/ (Len(cache) <= MaxCache /\ \A i \in DOMAIN cache : cache[i].uri \in Uris)
    <3>1. CASE cache # Unready
      <4>1. cache \in Seq(Sound) /\ Len(cache) <= MaxCache
        BY <3>1, CacheReady DEF IInv
      <4> QED
        BY <4>1, ElementOfSeq, LenProperties DEF Sound
    <3> QED
      BY <3>1
  <2> QED
    BY <2>1, <2>2, <2>3, <2>4 DEF TypeOK
<1> QED
  BY <1>1, Invariance, PTL

(* No worker looks into the cache before cache_init, and every entry is    *)
(* the whole answer to its own uri, or what a server that died had sent.   *)
THEOREM CacheSoundness == Spec => []CacheSound
<1>1. IInv => CacheSound
  <2> SUFFICES ASSUME IInv PROVE CacheSound
    OBVIOUS
  <2>1. CASE cache # Unready
    <3>1. \A i \in DOMAIN cache : cache[i] \in Sound
      BY <2>1, CacheReady, ElementOfSeq, LenProperties
    <3> QED
      BY <2>1, <3>1 DEF CacheSound, Sound
  <2>2. CASE cache = Unready
    <3>1. main.pc \notin {"accept", "push"}
      <4>1. ~exited /\ main.pc \in {"accept", "push"} => cache \in Seq(Sound)
        BY DEF IInv, EntryInv
      <4> QED
        BY <2>2, <4>1, SoundNotUnready DEF IInv, Positions
    <3>2. \A w \in Workers : worker[w].pc \in {"none", "pop"}
      BY <3>1 DEF IInv, Types, ProxyTypes, Positions, MainPcs
    <3> QED
      BY <2>2, <3>2 DEF CacheSound
  <2> QED
    BY <2>1, <2>2
<1> QED
  BY <1>1, Invariance, PTL

(* A client that waited for the end got what its own request deserves.     *)
THEOREM EveryoneAnswered == Spec => []Answered
<1>1. IInv => Answered
  BY DEF IInv, ClientInv, Answered
<1> QED
  BY <1>1, Invariance, PTL

(* A connection that is open is in exactly one pair of hands, and one that *)
(* is not is in none: no descriptor is closed twice, served twice, or      *)
(* lost, but those whose getnameinfo failed.                               *)
THEOREM OneOwner == Spec => []Descriptors
<1>1. \A x : Cardinality({x}) = 1
  BY FS_Singleton
<1>2. Cardinality({}) = 0
  BY FS_EmptySet
<1>3. IInv => Descriptors
  <2> SUFFICES ASSUME IInv, NEW c \in Conns
               PROVE  Cardinality({x \in {main} : x.conn = c})
                        + Cardinality({i \in DOMAIN fifo : fifo[i] = c})
                        + Cardinality({w \in Workers : serving[w] = c})
                      = IF client[c].state = "open" THEN 1 ELSE 0
    BY DEF Descriptors
  <2> DEFINE M == {x \in {main} : x.conn = c}
             Q == {i \in DOMAIN fifo : fifo[i] = c}
             W == {w \in Workers : serving[w] = c}
  <2>1. c # NoConn
    BY NoConnAssumption
  <2>2. IF main.conn = c THEN M = {main} ELSE M = {}
    OBVIOUS
  <2>3. CASE client[c].state # "open"
    <3>1. M = {} /\ Q = {} /\ W = {}
      BY <2>3 DEF IInv, OwnerInv, Queued
    <3>2. Cardinality(M) = 0 /\ Cardinality(Q) = 0 /\ Cardinality(W) = 0
      BY <1>2, <3>1
    <3> HIDE DEF M, Q, W
    <3> QED
      BY <2>3, <3>2 DEF M, Q, W
  <2>4. CASE client[c].state = "open" /\ main.conn = c
    <3>1. Q = {} /\ W = {} /\ M = {main}
      BY <2>1, <2>4 DEF IInv, OwnerInv, Queued
    <3> QED
      BY <1>1, <1>2, <2>4, <3>1
  <2>5. CASE client[c].state = "open" /\ Queued(c)
    <3>1. M = {} /\ W = {}
      BY <2>1, <2>5 DEF IInv, OwnerInv
    <3>2. PICK i \in DOMAIN fifo : fifo[i] = c
      BY <2>5 DEF Queued
    <3>3. Q = {i}
      BY <3>2 DEF IInv, OwnerInv
    <3> QED
      BY <1>1, <1>2, <2>5, <3>1, <3>3
  <2>6. CASE client[c].state = "open" /\ \E w \in Workers : serving[w] = c
    <3>1. PICK w \in Workers : serving[w] = c
      BY <2>6
    <3>2. M = {} /\ Q = {}
      BY <2>1, <3>1 DEF IInv, OwnerInv, Queued
    <3>3. W = {w}
      BY <2>1, <3>1 DEF IInv, OwnerInv
    <3>4. Cardinality(M) = 0 /\ Cardinality(Q) = 0 /\ Cardinality(W) = 1
      BY <1>1, <1>2, <3>2, <3>3
    <3> HIDE DEF M, Q, W
    <3> QED
      BY <2>6, <3>4 DEF M, Q, W
  <2> QED
    BY <2>3, <2>4, <2>5, <2>6 DEF IInv, OwnerInv
<1> QED
  BY <1>3, Invariance, PTL
=============================================================================
