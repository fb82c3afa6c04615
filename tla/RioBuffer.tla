----------------------------- MODULE RioBuffer ------------------------------
(***************************************************************************)
(* proxylab-handout/csapp.c: the robust I/O package, between two processes *)
(* that share a pipe or a socket.  One writes a text with Rio_writen; the  *)
(* other reads it with Rio_readn, or with Rio_readlineb and Rio_readnb in  *)
(* any order.  Each system call may move less than it was asked for, may be*)
(* interrupted, and may fail, which ends the process that made it.         *)
(***************************************************************************)
EXTENDS Integers, SequencesExt

CONSTANTS Text,         \* length of what is written; a byte is its place in it
          Newlines,     \* the bytes that are newlines
          RIO_BUFSIZE,  \* size of the reader's buffer
          PipeSize,     \* of what the kernel holds
          Amounts       \* what a call may ask for: 2 or more

ASSUME RioAssumption ==
  /\ Text \in Nat /\ RIO_BUFSIZE \in Nat /\ PipeSize \in Nat
  /\ \A n \in Amounts : n \in Nat /\ n > 0

VARIABLES writer,       \* nleft, as the bytes left; its process
          pipe,         \* the bytes in the kernel
          rp,           \* the reader's rio_t: rio_cnt and the unread bytes
          reader        \* its call with usrbuf, the bytes it was given, last result

rioVars == <<writer, pipe, rp, reader>>

Bytes == [i \in 1..Text |-> i]
Atmost(n, m) == IF n < m THEN n ELSE m

(* rio_readinitb.                                                          *)
rio_readinitb == [cnt |-> 0, buf |-> <<>>]

NoCall == [pc |-> "none", n |-> 0, usrbuf |-> <<>>]
RioStart(buffered) ==
  /\ writer = [pc |-> "write", left |-> Bytes]
  /\ pipe = <<>>
  /\ rp = rio_readinitb
  /\ reader = [buffered |-> buffered, call |-> NoCall, given |-> <<>>,
               last |-> NoCall, eof |-> FALSE]

(***************************************************************************)
(* rio_writen.                                                             *)
(***************************************************************************)
rio_writen ==
  /\ writer.pc = "write" /\ writer.left # <<>> /\ reader.call.pc # "exit"
  /\ \E k \in 1..Atmost(Len(writer.left), PipeSize - Len(pipe)) :
       /\ pipe' = pipe \o SubSeq(writer.left, 1, k)
       /\ writer' = [writer EXCEPT !.left = SubSeq(@, k + 1, Len(@))]
  /\ UNCHANGED <<rp, reader>>

(* write returns -1.  With EINTR the loop goes round and nothing has       *)
(* changed; with any other error, which a reader that is gone always gives,*)
(* Rio_writen exits.                                                       *)
Rio_writenFails ==
  /\ writer.pc = "write" /\ writer.left # <<>>
  /\ writer' = [writer EXCEPT !.pc = "exit"]
  /\ UNCHANGED <<pipe, rp, reader>>

WriterCloses ==
  /\ writer.pc = "write" /\ writer.left = <<>>
  /\ writer' = [writer EXCEPT !.pc = "exit"]
  /\ UNCHANGED <<pipe, rp, reader>>

(***************************************************************************)
(* The reader's calls.                                                     *)
(***************************************************************************)
Call(pc) ==
  /\ reader.call.pc = "none" /\ ~reader.eof
  /\ \E n \in Amounts : reader' = [reader EXCEPT !.call = [pc |-> pc, n |-> n, usrbuf |-> <<>>]]
  /\ UNCHANGED <<writer, pipe, rp>>
Calls == IF reader.buffered THEN Call("readlineb") \/ Call("readnb") ELSE Call("readn")

In(pc) == reader.call.pc = pc
Returned(eof) ==
  reader' = [reader EXCEPT !.call = NoCall, !.last = reader.call, !.eof = eof,
                           !.given = @ \o reader.call.usrbuf]

(* The call has what it asked for: the n bytes, or a line, for which one of*)
(* the n is kept for the terminator.                                       *)
Satisfied(call) ==
  \/ call.pc \in {"readnb", "readn"} /\ Len(call.usrbuf) = call.n
  \/ /\ call.pc = "readlineb"
     /\ \/ Len(call.usrbuf) = call.n - 1
        \/ call.usrbuf # <<>> /\ Last(call.usrbuf) \in Newlines
Returns ==
  /\ reader.call.pc \in {"readlineb", "readnb", "readn"} /\ Satisfied(reader.call)
  /\ Returned(FALSE)
  /\ UNCHANGED <<writer, pipe, rp>>

Reading(pcs) == reader.call.pc \in pcs /\ ~Satisfied(reader.call)
Buffered == {"readlineb", "readnb"}

(* rio_read, when the buffer is empty: read refills it.                    *)
Refill ==
  /\ Reading(Buffered) /\ rp.cnt <= 0
  /\ \E k \in 1..Atmost(RIO_BUFSIZE, Len(pipe)) :
       /\ rp' = [cnt |-> k, buf |-> SubSeq(pipe, 1, k)]
       /\ pipe' = SubSeq(pipe, k + 1, Len(pipe))
  /\ UNCHANGED <<writer, reader>>

(* Faulty variant: an interrupted read is taken for the end of the file.   *)
RefillInterruptedEof ==
  /\ Reading(Buffered) /\ rp.cnt <= 0
  /\ rp' = [rp EXCEPT !.cnt = -1]
  /\ Returned(FALSE)
  /\ UNCHANGED <<writer, pipe>>

RefillInterrupted ==
  /\ Reading(Buffered) /\ rp.cnt <= 0
  /\ rp' = [rp EXCEPT !.cnt = -1]
  /\ UNCHANGED <<writer, pipe, reader>>

(* The end of the file: what has been read so far is the result, which is  *)
(* 0 when that is nothing.                                                 *)
RefillEof ==
  /\ Reading(Buffered) /\ rp.cnt <= 0 /\ writer.pc = "exit" /\ pipe = <<>>
  /\ rp' = [rp EXCEPT !.cnt = 0]
  /\ Returned(TRUE)
  /\ UNCHANGED <<writer, pipe>>

(* rio_read, when it is not: rio_readlineb asks for one byte, rio_readnb   *)
(* for all it still needs.                                                 *)
Copy ==
  /\ Reading(Buffered) /\ rp.cnt > 0
  /\ LET wanted == IF In("readlineb") THEN 1 ELSE reader.call.n - Len(reader.call.usrbuf)
         cnt    == Atmost(wanted, rp.cnt)
     IN  /\ reader' = [reader EXCEPT !.call.usrbuf = @ \o SubSeq(rp.buf, 1, cnt)]
         /\ rp' = [cnt |-> rp.cnt - cnt, buf |-> SubSeq(rp.buf, cnt + 1, Len(rp.buf))]
  /\ UNCHANGED <<writer, pipe>>

(* rio_readn reads into usrbuf.                                            *)
rio_readn ==
  /\ Reading({"readn"})
  /\ \/ /\ \E k \in 1..Atmost(reader.call.n - Len(reader.call.usrbuf), Len(pipe)) :
             /\ reader' = [reader EXCEPT !.call.usrbuf = @ \o SubSeq(pipe, 1, k)]
             /\ pipe' = SubSeq(pipe, k + 1, Len(pipe))
     \/ /\ writer.pc = "exit" /\ pipe = <<>>
        /\ Returned(TRUE)
        /\ UNCHANGED pipe
  /\ UNCHANGED <<writer, rp>>

(* A read fails: rio_read, rio_readnb, rio_readlineb and rio_readn return  *)
(* -1, and their wrappers exit.                                            *)
ReadFails ==
  /\ Reading(Buffered \cup {"readn"}) /\ rp.cnt <= 0
  /\ reader' = [reader EXCEPT !.call.pc = "exit"]
  /\ UNCHANGED <<writer, pipe, rp>>

RioNext ==
  \/ rio_writen \/ Rio_writenFails \/ WriterCloses
  \/ Calls \/ Returns \/ Refill \/ RefillInterrupted \/ RefillEof \/ Copy \/ rio_readn \/ ReadFails

(* What the reader has been given, with what lies in its buffer, in the    *)
(* kernel and with the writer, is the text: nothing is lost, doubled or    *)
(* out of order however the system calls cut it up; and a result is shorter*)
(* than asked for only at the end of the file.                             *)
RioDelivers ==
  /\ reader.given \o reader.call.usrbuf \o rp.buf \o pipe \o writer.left = Bytes
  /\ Len(rp.buf) = IF rp.cnt > 0 THEN rp.cnt ELSE 0
  /\ reader.last.pc # "none" => reader.eof \/ Satisfied(reader.last)
=============================================================================
