---------------------------- MODULE OpenSockets ----------------------------
(***************************************************************************)
(* proxylab-handout/tiny/csapp.c: open_clientfd and open_listenfd walk the *)
(* addresses of a host until one can be connected or bound to; their       *)
(* wrappers end the process when none can.  Each call to the system may    *)
(* fail.  A descriptor is the number of the address it was made for.       *)
(***************************************************************************)
EXTENDS Integers, FiniteSets

CONSTANT MaxAddresses   \* in getaddrinfo's list

ASSUME AddressesAssumption == MaxAddresses \in Nat

VARIABLE sock           \* the call; listp: not freed yet; p: place in the list; open descriptors

OpenStart(call) ==
  sock = [call |-> call, pc |-> "getaddrinfo", listp |-> 0, p |-> 1, fds |-> {}, refused |-> {},
          listening |-> FALSE, stuck |-> FALSE, rc |-> 0]

At(pc) == sock.pc = pc
LastP == sock.p > sock.listp
Return(rc) == [sock EXCEPT !.pc = "return", !.rc = rc]

(* NULL or a list of addresses.                                            *)
Getaddrinfo ==
  /\ At("getaddrinfo")
  /\ \/ sock' = Return(-2)
     \/ \E len \in 1..MaxAddresses : sock' = [sock EXCEPT !.pc = "walk", !.listp = len]

(* socket fails: continue.                                                 *)
SocketFails ==
  /\ At("walk") /\ ~LastP
  /\ sock' = [sock EXCEPT !.p = @ + 1, !.refused = @ \cup {sock.p}]

SocketMade ==
  /\ At("walk") /\ ~LastP
  /\ sock' = [sock EXCEPT !.pc = "try", !.fds = @ \cup {sock.p}]

(* connect or bind succeeds: break.                                        *)
Found == At("try") /\ sock' = [sock EXCEPT !.pc = "clean up"]

(* It fails, and the descriptor is closed, unless close fails too.         *)
(* Faulty variant: it is not closed.                                       *)
RefusedOpen ==
  At("try") /\ sock' = [sock EXCEPT !.pc = "walk", !.p = @ + 1, !.refused = @ \cup {sock.p}]

Refused ==
  /\ At("try")
  /\ \/ sock' = [sock EXCEPT !.pc = "walk", !.p = @ + 1, !.refused = @ \cup {sock.p},
                             !.fds = @ \ {sock.p}]
     \/ sock' = [Return(-1) EXCEPT !.stuck = TRUE]

(* freeaddrinfo, with no address that worked, or a socket.                 *)
NotFound ==
  /\ At("walk") /\ LastP
  /\ sock' = [Return(-1) EXCEPT !.listp = 0]

Connected ==
  /\ At("clean up") /\ sock.call = "open_clientfd"
  /\ sock' = [Return(sock.p) EXCEPT !.listp = 0]

(* listen, and close when it fails.                                        *)
Listen ==
  /\ At("clean up") /\ sock.call = "open_listenfd"
  /\ \/ sock' = [Return(sock.p) EXCEPT !.listp = 0, !.listening = TRUE]
     \/ sock' = [Return(-1) EXCEPT !.listp = 0, !.fds = @ \ {sock.p}]

(* Open_clientfd, Open_listenfd.                                           *)
Open ==
  /\ At("return")
  /\ sock' = [sock EXCEPT !.pc = IF sock.rc < 0 THEN "unix_error" ELSE "open"]

OpenNext ==
  \/ Getaddrinfo \/ SocketFails \/ SocketMade \/ Found \/ Refused
  \/ NotFound \/ Connected \/ Listen \/ Open

(* The caller gets the socket of the first address that works, and nothing *)
(* else is left open; a call that fails leaves neither a socket nor the    *)
(* list behind, except where close itself has failed.                      *)
SocketsKept ==
  /\ At("open") =>
       /\ sock.fds = {sock.rc} /\ sock.refused = 1..(sock.rc - 1)
       /\ sock.listening <=> (sock.call = "open_listenfd")
  /\ At("return") /\ ~sock.stuck =>
       /\ sock.listp = 0
       /\ sock.rc < 0 => sock.fds = {}
=============================================================================
