----------------------------- MODULE TinyServer -----------------------------
(***************************************************************************)
(* proxylab-handout/tiny/tiny.c with its wrappers of tiny/csapp.c: an      *)
(* iterative server.  Connections come from a set of peers, one at a time  *)
(* each; a connection is a record of what has been written to it, in lines.*)
(* A wrapper that fails ends the server (unix_error), and so does SIGPIPE, *)
(* which tiny leaves at its default.                                       *)
(***************************************************************************)
EXTENDS Naturals, Sequences

CONSTANTS Peers,        \* who connects
          Files,        \* path -> "static", "cgi", "missing" or "forbidden"
          Pages,        \* path -> the lines of the file or of the program's output
          ForkFails,    \* may fork fail?
          NoPeer

ASSUME NoPeerAssumption == NoPeer \notin Peers
ASSUME FilesAssumption ==
  \A path \in DOMAIN Files :
    /\ Files[path] \in {"static", "cgi", "missing", "forbidden"}
    /\ Files[path] \in {"static", "cgi"} => Pages[path] \in Seq(STRING)

VARIABLES tiny,         \* the server: pc, the peer served, lines still to write
          backlog,      \* peers connected and not accepted, oldest first
          link          \* peer -> its connection

tinyVars == <<tiny, backlog, link>>

(* open: the peer has not closed; eof: tiny has; rst: the kernel of a       *)
(* server that ended refuses the rest.  request is the peer's request line, *)
(* headers and blank line, which it writes at once.                         *)
NoRequest == [path |-> "none", headers |-> <<>>]
NoLink == [open |-> FALSE, eof |-> FALSE, rst |-> FALSE, request |-> NoRequest, lines |-> <<>>]
NewLink == [NoLink EXCEPT !.open = TRUE]

TinyInit ==
  /\ tiny = [pc |-> "accept", peer |-> NoPeer, left |-> <<>>]
  /\ backlog = <<>>
  /\ link = [p \in Peers |-> NoLink]

Alive == tiny.pc # "dead"

(* The process ends, after it has written lines to its peer: that          *)
(* connection is closed, those it has not accepted are reset.              *)
Ends(lines) ==
  /\ tiny' = [pc |-> "dead", peer |-> NoPeer, left |-> <<>>]
  /\ backlog' = <<>>
  /\ link' = [p \in Peers |->
       IF p = tiny.peer THEN [link[p] EXCEPT !.eof = TRUE, !.lines = @ \o lines]
       ELSE [link[p] EXCEPT !.rst = \E i \in DOMAIN backlog : backlog[i] = p]]

(* main: Accept, then doit.                                                *)
TinyAccept ==
  /\ tiny.pc = "accept" /\ backlog # <<>>
  /\ tiny' = [pc |-> "doit", peer |-> Head(backlog), left |-> <<>>]
  /\ backlog' = Tail(backlog)
  /\ UNCHANGED link

Served == link[tiny.peer]

(* What doit decides to write: an error page is one line here.             *)
HEADER == "HTTP/1.0 200 OK"
Response(path) ==
  CASE Files[path] = "missing"   -> <<"404">>
    [] Files[path] = "forbidden" -> <<"403">>
    [] OTHER                     -> <<HEADER>> \o Pages[path]

(* doit up to the response.  The peer has closed without a request: doit   *)
(* returns.  read_requesthdrs looks for the blank line whatever            *)
(* Rio_readlineb returns.                                                  *)
TinyRead ==
  /\ tiny.pc = "doit"
  /\ \/ /\ Served.request = NoRequest /\ ~Served.open
        /\ tiny' = [tiny EXCEPT !.pc = "close"]
     \/ /\ Served.request # NoRequest
        /\ \E k \in DOMAIN Served.request.headers : Served.request.headers[k] = "blank"
        /\ tiny' = [tiny EXCEPT !.left = Response(Served.request.path),
                                !.pc = IF Files[Served.request.path] = "cgi"
                                       THEN "serve_dynamic" ELSE "write"]
  /\ UNCHANGED <<backlog, link>>

(* Rio_writen of the next line.                                            *)
Written ==
  /\ link' = [link EXCEPT ![tiny.peer].lines = IF Served.open THEN Append(@, Head(tiny.left)) ELSE @]
  /\ UNCHANGED backlog

(* Once the peer has closed, a line may still be taken and lost, or the    *)
(* write raises SIGPIPE.                                                   *)
SigPipe == ~Served.open /\ Ends(<<>>)

(* serve_static or clienterror, line by line.                              *)
TinyWrite ==
  /\ tiny.pc = "write" /\ tiny.left # <<>>
  /\ \/ Written /\ tiny' = [tiny EXCEPT !.left = Tail(@)]
     \/ SigPipe

TinyWritten ==
  /\ tiny.pc = "write" /\ tiny.left = <<>>
  /\ tiny' = [tiny EXCEPT !.pc = "close"]
  /\ UNCHANGED <<backlog, link>>

(* serve_dynamic: the first lines, then Fork, whose wrapper ends the       *)
(* server when it fails.                                                   *)
TinyFork ==
  /\ tiny.pc = "serve_dynamic"
  /\ \/ Written /\ tiny' = [tiny EXCEPT !.pc = "wait", !.left = Tail(@)]
     \/ ForkFails /\ Ends(<<HEADER>>)
     \/ SigPipe

(* The child: Dup2, Execve, and the program's output, as far as the peer   *)
(* takes it.                                                               *)
CgiWrites ==
  /\ tiny.pc = "wait" /\ tiny.left # <<>>
  /\ Written
  /\ tiny' = [tiny EXCEPT !.left = IF Served.open THEN Tail(@) ELSE <<>>]

(* Wait(NULL) returns when the child has ended.                            *)
TinyWait ==
  /\ tiny.pc = "wait" /\ tiny.left = <<>>
  /\ tiny' = [tiny EXCEPT !.pc = "close"]
  /\ UNCHANGED <<backlog, link>>

(* Faulty variant: main goes on to the next connection without Close.      *)
TinyCloseForgotten ==
  /\ tiny.pc = "close"
  /\ tiny' = [pc |-> "accept", peer |-> NoPeer, left |-> <<>>]
  /\ UNCHANGED <<backlog, link>>

TinyClose ==
  /\ tiny.pc = "close"
  /\ link' = [link EXCEPT ![tiny.peer].eof = TRUE]
  /\ tiny' = [pc |-> "accept", peer |-> NoPeer, left |-> <<>>]
  /\ UNCHANGED backlog

TinyNext ==
  \/ TinyAccept \/ TinyRead \/ TinyWrite \/ TinyWritten
  \/ TinyFork \/ CgiWrites \/ TinyWait \/ TinyClose
=============================================================================
