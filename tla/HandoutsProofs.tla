--------------------------- MODULE HandoutsProofs ---------------------------
(***************************************************************************)
(* The sequential programs.  The robust I/O package delivers any text over *)
(* any pipe, whatever the system calls do, and the helpers that open       *)
(* sockets leave nothing open behind them.  The cache simulator counts     *)
(* what a cache by use counts.  The reference queue keeps its order.  The  *)
(* timers measure what the runs took, and main's index follows from it.    *)
(***************************************************************************)
EXTENDS Handouts, SequenceTheorems, FiniteSetTheorems, WellFoundedInduction, TLAPS

(***************************************************************************)
(* The robust I/O package.                                                 *)
(***************************************************************************)
RioCalls == [pc : {"none", "readlineb", "readnb", "readn", "exit"}, n : Nat, usrbuf : Seq(Nat)]

RioTypes ==
  /\ writer \in [pc : {"write", "exit"}, left : Seq(Nat)]
  /\ pipe \in Seq(Nat)
  /\ rp \in [cnt : Int, buf : Seq(Nat)]
  /\ reader \in [buffered : BOOLEAN, call : RioCalls, given : Seq(Nat), last : RioCalls,
                 eof : BOOLEAN]

(* A call in progress has not been given more than it asked for; only the  *)
(* buffered ones use the buffer; and the bytes are all there, in order.    *)
RioInv ==
  /\ RioTypes
  /\ reader.call.pc = "none" => reader.call.usrbuf = <<>>
  /\ reader.call.pc \in {"readn", "readnb"} => Len(reader.call.usrbuf) <= reader.call.n
  /\ reader.call.pc \in Buffered => reader.buffered
  /\ reader.call.pc = "readn" => rp.buf = <<>>
  /\ ~reader.buffered => rp.buf = <<>>
  /\ RioDelivers

(* The sequence operators by name, so that the provers take them as given. *)
Join(a, b)  == a \o b
First(s, k) == SubSeq(s, 1, k)
Back(s, k)  == SubSeq(s, k + 1, Len(s))

(* Joining sequences of bytes, and cutting one in two.                     *)
LEMMA Joins ==
  /\ \A a, b \in Seq(Nat) : Join(a, b) \in Seq(Nat)
  /\ \A a, b \in Seq(Nat) : Len(Join(a, b)) = Len(a) + Len(b)
  /\ \A a, b, c \in Seq(Nat) : Join(Join(a, b), c) = Join(a, Join(b, c))
  /\ \A a \in Seq(Nat) : Join(a, <<>>) = a /\ Join(<<>>, a) = a
<1>1. ASSUME NEW a \in Seq(Nat), NEW b \in Seq(Nat)
      PROVE  a \o b \in Seq(Nat) /\ Len(a \o b) = Len(a) + Len(b)
  BY ConcatProperties
<1>2. ASSUME NEW a \in Seq(Nat), NEW b \in Seq(Nat), NEW c \in Seq(Nat)
      PROVE  (a \o b) \o c = a \o (b \o c)
  BY ConcatAssociative, SMT
<1>3. ASSUME NEW a \in Seq(Nat) PROVE a \o <<>> = a /\ <<>> \o a = a
  BY ConcatEmptySeq
<1> QED
  BY <1>1, <1>2, <1>3, Zenon DEF Join

(* A cut gives two sequences that join to the whole.                       *)
LEMMA Cuts ==
  ASSUME NEW s \in Seq(Nat), NEW k \in 0..Len(s)
  PROVE  /\ First(s, k) \in Seq(Nat) /\ Len(First(s, k)) = k
         /\ Back(s, k) \in Seq(Nat) /\ Len(Back(s, k)) = Len(s) - k
         /\ Join(First(s, k), Back(s, k)) = s
<1>1. Len(s) \in Nat /\ \A i \in 1..Len(s) : s[i] \in Nat
  BY ElementOfSeq, LenProperties
<1>2. First(s, k) \in Seq(Nat) /\ Len(First(s, k)) = k
  BY <1>1, SubSeqProperties DEF First
<1>3. Back(s, k) \in Seq(Nat) /\ Len(Back(s, k)) = Len(s) - k
  BY <1>1, SubSeqProperties DEF Back
<1>4. \A i \in 1..k : First(s, k)[i] = s[i]
  BY <1>1, SubSeqProperties DEF First
<1>5. \A i \in 1..(Len(s) - k) : Back(s, k)[i] = s[k + i]
  BY <1>1, SubSeqProperties DEF Back
<1>6. /\ First(s, k) \o Back(s, k) \in Seq(Nat)
      /\ Len(First(s, k) \o Back(s, k)) = Len(s)
      /\ \A i \in 1..Len(s) : (First(s, k) \o Back(s, k))[i] = s[i]
  <2> DEFINE x == First(s, k)
             y == Back(s, k)
  <2>1. x \in Seq(Nat) /\ y \in Seq(Nat)
    BY <1>2, <1>3
  <2> HIDE DEF x, y
  <2>2. /\ x \o y \in Seq(Nat)
        /\ Len(x \o y) = Len(x) + Len(y)
        /\ \A i \in 1..(Len(x) + Len(y)) : (x \o y)[i] = IF i <= Len(x) THEN x[i] ELSE y[i - Len(x)]
    BY <2>1, ConcatProperties
  <2>3. Len(x) = k /\ Len(y) = Len(s) - k
    BY <1>2, <1>3 DEF x, y
  <2>4. (\A i \in 1..k : x[i] = s[i]) /\ \A i \in 1..(Len(s) - k) : y[i] = s[k + i]
    BY <1>4, <1>5 DEF x, y
  <2>5. ASSUME NEW i \in 1..Len(s) PROVE (x \o y)[i] = s[i]
    <3>1. (x \o y)[i] = IF i <= k THEN x[i] ELSE y[i - k]
      BY <1>1, <2>2, <2>3
    <3>2. CASE i <= k
      BY <1>1, <2>4, <3>1, <3>2
    <3>3. CASE i > k
      <4>1. i - k \in 1..(Len(s) - k) /\ k + (i - k) = i /\ ~(i <= k)
        BY <1>1, <3>3
      <4>2. y[i - k] = s[k + (i - k)]
        BY <2>4, <4>1
      <4> QED
        BY <3>1, <4>1, <4>2
    <3>4. i <= k \/ i > k
      BY <1>1
    <3> QED
      BY <3>2, <3>3, <3>4, Zenon
  <2> QED
    BY <1>1, <2>2, <2>3, <2>5 DEF x, y
<1>7. First(s, k) \o Back(s, k) = s
  BY <1>6, SeqEqual
<1> QED
  BY <1>2, <1>3, <1>7 DEF Join

(* What is given so far, with the first bytes of something.                *)
LEMMA Grown ==
  ASSUME NEW u \in Seq(Nat), NEW s \in Seq(Nat), NEW k \in 0..Len(s)
  PROVE  /\ Join(u, First(s, k)) \in Seq(Nat)
         /\ Len(Join(u, First(s, k))) = Len(u) + k
<1>1. First(s, k) \in Seq(Nat) /\ Len(First(s, k)) = k
  BY Cuts
<1>2. Join(u, First(s, k)) \in Seq(Nat)
  BY <1>1, Joins
<1>3. Len(Join(u, First(s, k))) = Len(u) + Len(First(s, k))
  BY <1>1, Joins
<1> QED
  BY <1>1, <1>2, <1>3, Zenon

(* Where the bytes are, as one sequence.                                   *)
Whole(g, u, b, p, w) == Join(Join(Join(Join(g, u), b), p), w)

(* The moves of the package between these places leave the whole as it is. *)
LEMMA Written ==
  ASSUME NEW g \in Seq(Nat), NEW u \in Seq(Nat), NEW b \in Seq(Nat), NEW p \in Seq(Nat),
         NEW w \in Seq(Nat), NEW k \in 0..Len(w)
  PROVE  Whole(g, u, b, Join(p, First(w, k)), Back(w, k)) = Whole(g, u, b, p, w)
<1>1. First(w, k) \in Seq(Nat) /\ Back(w, k) \in Seq(Nat) /\ Join(First(w, k), Back(w, k)) = w
  BY Cuts
<1>2. Join(g, u) \in Seq(Nat) /\ Join(Join(g, u), b) \in Seq(Nat)
  BY Joins
<1> QED
  BY <1>1, <1>2, Joins DEF Whole

(* A refill moves bytes from the pipe to the buffer.                       *)
LEMMA Refilled ==
  ASSUME NEW g \in Seq(Nat), NEW u \in Seq(Nat), NEW p \in Seq(Nat), NEW w \in Seq(Nat),
         NEW k \in 0..Len(p)
  PROVE  Whole(g, u, First(p, k), Back(p, k), w) = Whole(g, u, <<>>, p, w)
<1>1. First(p, k) \in Seq(Nat) /\ Back(p, k) \in Seq(Nat) /\ Join(First(p, k), Back(p, k)) = p
  BY Cuts
<1>2. Join(g, u) \in Seq(Nat)
  BY Joins
<1>3. Join(Join(Join(g, u), First(p, k)), Back(p, k)) = Join(Join(g, u), p)
  BY <1>1, <1>2, Joins
<1>4. Join(Join(g, u), <<>>) = Join(g, u)
  BY <1>2, Joins
<1> QED
  BY <1>3, <1>4, Zenon DEF Whole

(* A copy moves bytes from the buffer to the caller.                       *)
LEMMA Copied ==
  ASSUME NEW g \in Seq(Nat), NEW u \in Seq(Nat), NEW b \in Seq(Nat), NEW p \in Seq(Nat),
         NEW w \in Seq(Nat), NEW k \in 0..Len(b)
  PROVE  Whole(g, Join(u, First(b, k)), Back(b, k), p, w) = Whole(g, u, b, p, w)
<1>1. First(b, k) \in Seq(Nat) /\ Back(b, k) \in Seq(Nat) /\ Join(First(b, k), Back(b, k)) = b
  BY Cuts
<1>2. Join(g, Join(u, First(b, k))) = Join(Join(g, u), First(b, k)) /\ Join(g, u) \in Seq(Nat)
  BY <1>1, Joins
<1>3. Join(Join(Join(g, u), First(b, k)), Back(b, k)) = Join(Join(g, u), b)
  BY <1>1, <1>2, Joins
<1> QED
  BY <1>2, <1>3, Zenon DEF Whole

(* An unbuffered read moves bytes from the pipe to the caller.             *)
LEMMA ReadUnbuffered ==
  ASSUME NEW g \in Seq(Nat), NEW u \in Seq(Nat), NEW p \in Seq(Nat), NEW w \in Seq(Nat),
         NEW k \in 0..Len(p)
  PROVE  Whole(g, Join(u, First(p, k)), <<>>, Back(p, k), w) = Whole(g, u, <<>>, p, w)
<1>1. First(p, k) \in Seq(Nat) /\ Back(p, k) \in Seq(Nat) /\ Join(First(p, k), Back(p, k)) = p
  BY Cuts
<1>2. Join(g, Join(u, First(p, k))) = Join(Join(g, u), First(p, k)) /\ Join(g, u) \in Seq(Nat)
  BY <1>1, Joins
<1>3. Join(Join(Join(g, u), First(p, k)), Back(p, k)) = Join(Join(g, u), p)
  BY <1>1, <1>2, Joins
<1>4. /\ Join(Join(g, u), <<>>) = Join(g, u)
      /\ Join(Join(Join(g, u), First(p, k)), <<>>) = Join(Join(g, u), First(p, k))
  BY <1>1, <1>2, Joins
<1> QED
  BY <1>2, <1>3, <1>4, Zenon DEF Whole

(* A return adds what the call has read to what is given.                  *)
LEMMA HandedOver ==
  ASSUME NEW g \in Seq(Nat), NEW u \in Seq(Nat), NEW b \in Seq(Nat), NEW p \in Seq(Nat),
         NEW w \in Seq(Nat)
  PROVE  Whole(Join(g, u), <<>>, b, p, w) = Whole(g, u, b, p, w)
<1>1. Join(g, u) \in Seq(Nat)
  BY Joins
<1> QED
  BY <1>1, Joins DEF Whole

(* The invariant in terms of Whole.                                        *)
LEMMA Delivered ==
  ASSUME RioTypes
  PROVE  RioDelivers <=>
           /\ Whole(reader.given, reader.call.usrbuf, rp.buf, pipe, writer.left) = Bytes
           /\ Len(rp.buf) = IF rp.cnt > 0 THEN rp.cnt ELSE 0
           /\ reader.last.pc # "none" => reader.eof \/ Satisfied(reader.last)
BY Zenon DEF RioDelivers, Whole, Join

(* And in terms of the next state.                                         *)
LEMMA DeliveredNext ==
  ASSUME RioTypes'
  PROVE  RioDelivers' <=>
           /\ Whole(reader'.given, reader'.call.usrbuf, rp'.buf, pipe', writer'.left) = Bytes
           /\ Len(rp'.buf) = IF rp'.cnt > 0 THEN rp'.cnt ELSE 0
           /\ reader'.last.pc # "none" => reader'.eof \/ Satisfied(reader'.last)
BY Zenon DEF RioDelivers, Whole, Join, Bytes, Satisfied

(* Nothing is read yet, and all the bytes are left to write.               *)
LEMMA RioInit == (\E buffered \in BOOLEAN : RioStart(buffered)) => RioInv
<1> SUFFICES ASSUME NEW buffered \in BOOLEAN, RioStart(buffered) PROVE RioInv
  OBVIOUS
<1>1. Bytes \in Seq(Nat) /\ <<>> \in Seq(Nat)
  BY RioAssumption, EmptySeq, IsASeq DEF Bytes
<1>2. /\ writer = [pc |-> "write", left |-> Bytes] /\ pipe = <<>>
      /\ rp = [cnt |-> 0, buf |-> <<>>]
      /\ reader = [buffered |-> buffered, call |-> [pc |-> "none", n |-> 0, usrbuf |-> <<>>],
                   given |-> <<>>, last |-> [pc |-> "none", n |-> 0, usrbuf |-> <<>>], eof |-> FALSE]
  BY DEF RioStart, rio_readinitb, NoCall
<1>3. RioTypes
  BY <1>1, <1>2 DEF RioTypes, RioCalls
<1>4. Whole(<<>>, <<>>, <<>>, <<>>, Bytes) = Bytes
  <2>1. Join(<<>>, <<>>) = <<>>
    BY <1>1, Joins
  <2>2. Join(<<>>, Bytes) = Bytes
    BY <1>1, Joins
  <2> QED
    BY <2>1, <2>2, Zenon DEF Whole
<1>5. Len(rp.buf) = 0 /\ rp.cnt = 0
  BY <1>2, EmptySeq
<1>6. RioDelivers
  BY <1>2, <1>3, <1>4, <1>5, Delivered
<1> QED
  BY <1>2, <1>3, <1>6 DEF RioInv, Buffered

(* A write moves bytes into the pipe.                                      *)
LEMMA WriteInv == ASSUME RioInv, rio_writen PROVE RioInv'
<1>1. PICK k \in 1..Atmost(Len(writer.left), PipeSize - Len(pipe)) :
        /\ pipe' = pipe \o SubSeq(writer.left, 1, k)
        /\ writer' = [writer EXCEPT !.left = SubSeq(@, k + 1, Len(@))]
  BY DEF rio_writen
<1>2. RioTypes /\ RioDelivers /\ UNCHANGED <<rp, reader>>
  BY DEF RioInv, rio_writen
<1>3. /\ writer.left \in Seq(Nat) /\ pipe \in Seq(Nat) /\ rp.buf \in Seq(Nat)
      /\ reader.given \in Seq(Nat) /\ reader.call.usrbuf \in Seq(Nat)
      /\ Len(writer.left) \in Nat /\ Len(pipe) \in Nat
  BY <1>2, LenProperties DEF RioTypes, RioCalls
<1>4. k \in 0..Len(writer.left) /\ k \in Nat /\ k <= Len(writer.left)
  BY <1>1, <1>3, RioAssumption DEF Atmost
<1>5. First(writer.left, k) \in Seq(Nat) /\ Back(writer.left, k) \in Seq(Nat)
  BY <1>3, <1>4, Cuts
<1>6. /\ pipe' = Join(pipe, First(writer.left, k)) /\ writer'.left = Back(writer.left, k)
      /\ writer'.pc = writer.pc /\ writer' = [pc |-> writer.pc, left |-> Back(writer.left, k)]
  BY <1>1, <1>2 DEF Join, First, Back, RioTypes
<1>7. pipe' \in Seq(Nat)
  BY <1>3, <1>5, <1>6, Joins
<1>8. RioTypes'
  BY <1>2, <1>5, <1>6, <1>7 DEF RioTypes
<1>9. Whole(reader.given, reader.call.usrbuf, rp.buf, pipe', writer'.left)
      = Whole(reader.given, reader.call.usrbuf, rp.buf, pipe, writer.left)
  <2>1. Whole(reader.given, reader.call.usrbuf, rp.buf, Join(pipe, First(writer.left, k)),
              Back(writer.left, k))
        = Whole(reader.given, reader.call.usrbuf, rp.buf, pipe, writer.left)
    <3>1. k \in 0..Len(writer.left) /\ writer.left \in Seq(Nat)
      BY <1>3, <1>4
    <3>2. /\ reader.given \in Seq(Nat) /\ reader.call.usrbuf \in Seq(Nat)
          /\ rp.buf \in Seq(Nat) /\ pipe \in Seq(Nat)
      BY <1>3
    <3> QED
      BY <3>1, <3>2, Written
  <2> QED
    BY <1>6, <2>1, Zenon
<1>10. RioDelivers'
  BY <1>2, <1>8, <1>9, Delivered, DeliveredNext DEF Satisfied
<1> QED
  BY <1>2, <1>8, <1>10 DEF RioInv

(* The writer fails or closes.                                             *)
LEMMA WriterEndsInv == ASSUME RioInv, Rio_writenFails \/ WriterCloses PROVE RioInv'
<1>1. writer' = [writer EXCEPT !.pc = "exit"] /\ UNCHANGED <<pipe, rp, reader>>
  BY DEF Rio_writenFails, WriterCloses
<1>2. RioTypes' /\ writer'.left = writer.left
  BY <1>1 DEF RioInv, RioTypes
<1> QED
  BY <1>1, <1>2 DEF RioInv, RioDelivers, Satisfied

(* A call starts with nothing read.                                        *)
LEMMA CallInv ==
  ASSUME RioInv, NEW c \in {"readlineb", "readnb", "readn"}, Call(c),
         c \in Buffered <=> reader.buffered
  PROVE  RioInv'
<1>1. PICK n \in Amounts : reader' = [reader EXCEPT !.call = [pc |-> c, n |-> n, usrbuf |-> <<>>]]
  BY DEF Call
<1>2. n \in Nat /\ <<>> \in Seq(Nat) /\ Len(<<>>) = 0
  BY RioAssumption, EmptySeq
<1>3. /\ reader.call.pc = "none" /\ UNCHANGED <<writer, pipe, rp>>
      /\ reader.call.usrbuf = <<>>
      /\ reader'.call = [pc |-> c, n |-> n, usrbuf |-> <<>>]
      /\ reader'.given = reader.given /\ reader'.last = reader.last /\ reader'.eof = reader.eof
      /\ reader'.buffered = reader.buffered
      /\ RioTypes'
  BY <1>1, <1>2 DEF Call, RioInv, RioTypes, RioCalls
<1>4. RioDelivers'
  <2>1. RioDelivers /\ RioTypes
    BY DEF RioInv
  <2>2. (reader.last.pc # "none" => reader.eof \/ Satisfied(reader.last))'
        <=> (reader.last.pc # "none" => reader.eof \/ Satisfied(reader.last))
    BY <1>3 DEF Satisfied
  <2> QED
    BY <1>3, <2>1, <2>2, Delivered, DeliveredNext
<1> QED
  BY <1>2, <1>3, <1>4 DEF RioInv, Buffered

(* A call that returns what it has.                                        *)
LEMMA ReturnInv ==
  ASSUME RioInv, NEW eof \in BOOLEAN, Returned(eof), eof \/ Satisfied(reader.call),
         UNCHANGED <<writer, pipe>>,
         rp' \in [cnt : Int, buf : Seq(Nat)], rp'.buf = rp.buf,
         Len(rp.buf) = IF rp'.cnt > 0 THEN rp'.cnt ELSE 0
  PROVE  RioInv'
<1>1. /\ RioTypes /\ RioDelivers
      /\ reader' = [reader EXCEPT !.call = NoCall, !.last = reader.call, !.eof = eof,
                                  !.given = reader.given \o reader.call.usrbuf]
  BY DEF RioInv, Returned
<1>2. /\ writer.left \in Seq(Nat) /\ pipe \in Seq(Nat) /\ rp.buf \in Seq(Nat)
      /\ reader.given \in Seq(Nat) /\ reader.call.usrbuf \in Seq(Nat)
      /\ <<>> \in Seq(Nat)
  BY <1>1, EmptySeq DEF RioTypes, RioCalls
<1>3. Join(reader.given, reader.call.usrbuf) \in Seq(Nat)
  BY <1>2, Joins
<1>4. /\ reader'.call = [pc |-> "none", n |-> 0, usrbuf |-> <<>>]
      /\ reader'.last = reader.call /\ reader'.eof = eof
      /\ reader'.given = Join(reader.given, reader.call.usrbuf)
      /\ reader'.buffered = reader.buffered
      /\ RioTypes'
  BY <1>1, <1>2, <1>3 DEF RioTypes, RioCalls, NoCall, Join
<1>5. Whole(reader'.given, reader'.call.usrbuf, rp'.buf, pipe', writer'.left)
      = Whole(reader.given, reader.call.usrbuf, rp.buf, pipe, writer.left)
  <2>1. Whole(Join(reader.given, reader.call.usrbuf), <<>>, rp.buf, pipe, writer.left)
        = Whole(reader.given, reader.call.usrbuf, rp.buf, pipe, writer.left)
    BY <1>2, HandedOver
  <2> QED
    BY <1>4, <2>1
<1>6. reader'.eof \/ Satisfied(reader'.last)
  BY <1>4
<1>7. RioDelivers'
  BY <1>1, <1>4, <1>5, <1>6, Delivered, DeliveredNext
<1> QED
  BY <1>4, <1>7 DEF RioInv, Buffered

(* A call returns what it has read.                                        *)
LEMMA ReturnsInv == ASSUME RioInv, Returns PROVE RioInv'
<1>1. Returned(FALSE) /\ Satisfied(reader.call) /\ UNCHANGED <<writer, pipe, rp>>
  BY DEF Returns
<1>2. rp \in [cnt : Int, buf : Seq(Nat)] /\ Len(rp.buf) = IF rp.cnt > 0 THEN rp.cnt ELSE 0
  BY DEF RioInv, RioTypes, RioDelivers
<1> QED
  BY <1>1, <1>2, ReturnInv

(* rio_read refills its buffer from the pipe.                              *)
LEMMA RefillInv == ASSUME RioInv, Refill PROVE RioInv'
<1>1. PICK k \in 1..Atmost(RIO_BUFSIZE, Len(pipe)) :
        /\ rp' = [cnt |-> k, buf |-> SubSeq(pipe, 1, k)]
        /\ pipe' = SubSeq(pipe, k + 1, Len(pipe))
  BY DEF Refill
<1>2. /\ RioTypes /\ RioDelivers /\ UNCHANGED <<writer, reader>>
      /\ reader.call.pc \in Buffered /\ rp.cnt <= 0
  BY DEF RioInv, Refill, Reading
<1>3. /\ writer.left \in Seq(Nat) /\ pipe \in Seq(Nat) /\ rp.buf \in Seq(Nat) /\ rp.cnt \in Int
      /\ reader.given \in Seq(Nat) /\ reader.call.usrbuf \in Seq(Nat)
      /\ Len(pipe) \in Nat
  BY <1>2, LenProperties DEF RioTypes, RioCalls
<1>4. k \in 0..Len(pipe) /\ k \in Nat /\ k > 0
  BY <1>1, <1>3, RioAssumption DEF Atmost
<1>5. rp.buf = <<>>
  BY <1>2, <1>3, EmptySeq DEF RioDelivers
<1>6. First(pipe, k) \in Seq(Nat) /\ Len(First(pipe, k)) = k /\ Back(pipe, k) \in Seq(Nat)
  BY <1>3, <1>4, Cuts
<1>7. rp' = [cnt |-> k, buf |-> First(pipe, k)] /\ pipe' = Back(pipe, k)
  BY <1>1 DEF First, Back
<1>8. RioTypes'
  BY <1>2, <1>4, <1>6, <1>7 DEF RioTypes
<1>9. Whole(reader.given, reader.call.usrbuf, rp'.buf, pipe', writer.left)
      = Whole(reader.given, reader.call.usrbuf, rp.buf, pipe, writer.left)
  <2>1. Whole(reader.given, reader.call.usrbuf, First(pipe, k), Back(pipe, k), writer.left)
        = Whole(reader.given, reader.call.usrbuf, <<>>, pipe, writer.left)
    BY <1>3, <1>4, Refilled
  <2> QED
    BY <1>5, <1>7, <2>1
<1>10. RioDelivers'
  BY <1>2, <1>4, <1>6, <1>7, <1>8, <1>9, Delivered, DeliveredNext DEF Satisfied
<1> QED
  BY <1>2, <1>8, <1>10 DEF RioInv, Buffered

(* A refill that is interrupted or meets the end of the file.              *)
LEMMA RefillNothingInv == ASSUME RioInv, RefillInterrupted \/ RefillEof PROVE RioInv'
<1>1. /\ RioTypes /\ RioDelivers /\ UNCHANGED <<writer, pipe>>
      /\ rp.cnt <= 0
      /\ rp' = [rp EXCEPT !.cnt = -1] \/ rp' = [rp EXCEPT !.cnt = 0]
  BY DEF RioInv, RefillInterrupted, RefillEof
<1>2. /\ rp' \in [cnt : Int, buf : Seq(Nat)] /\ rp'.buf = rp.buf
      /\ Len(rp.buf) = IF rp'.cnt > 0 THEN rp'.cnt ELSE 0
      /\ rp'.cnt <= 0
  BY <1>1 DEF RioTypes, RioDelivers
<1>3. CASE RefillEof
  BY <1>1, <1>2, <1>3, ReturnInv DEF RefillEof
<1>4. CASE RefillInterrupted
  <2>1. UNCHANGED <<writer, pipe, reader>>
    BY <1>4 DEF RefillInterrupted
  <2>2. RioTypes'
    BY <1>1, <1>2, <2>1 DEF RioTypes
  <2>3. RioDelivers'
    BY <1>1, <1>2, <2>1 DEF RioDelivers, Satisfied
  <2> QED
    BY <1>2, <2>1, <2>2, <2>3 DEF RioInv
<1> QED
  BY <1>3, <1>4

(* rio_read copies out of its buffer.                                      *)
LEMMA CopyInv == ASSUME RioInv, Copy PROVE RioInv'
<1> DEFINE call == reader.call
           wanted == IF In("readlineb") THEN 1 ELSE call.n - Len(call.usrbuf)
           cnt == Atmost(wanted, rp.cnt)
<1>1. /\ RioTypes /\ RioDelivers /\ UNCHANGED <<writer, pipe>>
      /\ call.pc \in Buffered /\ rp.cnt > 0 /\ ~Satisfied(call)
      /\ reader' = [reader EXCEPT !.call.usrbuf = @ \o SubSeq(rp.buf, 1, cnt)]
      /\ rp' = [cnt |-> rp.cnt - cnt, buf |-> SubSeq(rp.buf, cnt + 1, Len(rp.buf))]
  BY DEF RioInv, Copy, Reading
<1>2. /\ writer.left \in Seq(Nat) /\ pipe \in Seq(Nat) /\ rp.buf \in Seq(Nat) /\ rp.cnt \in Int
      /\ reader.given \in Seq(Nat) /\ call.usrbuf \in Seq(Nat) /\ call.n \in Nat
      /\ Len(call.usrbuf) \in Nat /\ Len(rp.buf) = rp.cnt
  BY <1>1, LenProperties DEF RioTypes, RioCalls, RioDelivers
<1>3. /\ wanted \in Nat /\ wanted > 0
      /\ call.pc = "readnb" => wanted = call.n - Len(call.usrbuf)
  <2>1. CASE call.pc = "readlineb"
    BY <2>1 DEF In
  <2>2. CASE call.pc = "readnb"
    <3>1. Len(call.usrbuf) <= call.n /\ Len(call.usrbuf) # call.n
      BY <1>1, <2>2 DEF RioInv, Satisfied
    <3> QED
      BY <1>2, <2>2, <3>1 DEF In
  <2> QED
    BY <1>1, <2>1, <2>2 DEF Buffered
<1> HIDE DEF wanted
<1>4. cnt \in 0..Len(rp.buf) /\ cnt \in Nat /\ cnt <= wanted /\ cnt <= rp.cnt
  <2>1. wanted \in Nat /\ rp.cnt \in Nat /\ Len(rp.buf) = rp.cnt
    BY <1>1, <1>2, <1>3
  <2>2. \A x, y \in Nat : Atmost(x, y) \in Nat /\ Atmost(x, y) <= x /\ Atmost(x, y) <= y
    BY DEF Atmost
  <2>3. cnt \in Nat /\ cnt <= wanted /\ cnt <= rp.cnt
    BY <2>1, <2>2
  <2> QED
    BY <2>1, <2>3
<1> HIDE DEF cnt
<1>5. /\ First(rp.buf, cnt) \in Seq(Nat) /\ Len(First(rp.buf, cnt)) = cnt
      /\ Back(rp.buf, cnt) \in Seq(Nat) /\ Len(Back(rp.buf, cnt)) = Len(rp.buf) - cnt
  BY <1>2, <1>4, Cuts
<1>6. /\ Join(call.usrbuf, First(rp.buf, cnt)) \in Seq(Nat)
      /\ Len(Join(call.usrbuf, First(rp.buf, cnt))) = Len(call.usrbuf) + cnt
  BY <1>2, <1>4, Grown
<1>7. /\ reader' = [reader EXCEPT !.call.usrbuf = Join(call.usrbuf, First(rp.buf, cnt))]
      /\ rp' = [cnt |-> rp.cnt - cnt, buf |-> Back(rp.buf, cnt)]
  BY <1>1 DEF Join, First, Back
<1> DEFINE grown == Join(call.usrbuf, First(rp.buf, cnt))
           Readers == [buffered : BOOLEAN, call : RioCalls, given : Seq(Nat), last : RioCalls,
                       eof : BOOLEAN]
<1>8. /\ RioTypes'
      /\ reader'.call.usrbuf = Join(call.usrbuf, First(rp.buf, cnt))
      /\ reader'.given = reader.given /\ reader'.last = reader.last /\ reader'.eof = reader.eof
      /\ reader'.buffered = reader.buffered
      /\ reader'.call.pc = call.pc /\ reader'.call.n = call.n
      /\ rp'.buf = Back(rp.buf, cnt) /\ rp'.cnt = rp.cnt - cnt
  <2>1. /\ reader' \in Readers /\ reader'.call.usrbuf = grown
        /\ reader'.given = reader.given /\ reader'.last = reader.last /\ reader'.eof = reader.eof
        /\ reader'.buffered = reader.buffered
        /\ reader'.call.pc = call.pc /\ reader'.call.n = call.n
    <3>1. reader \in Readers /\ grown \in Seq(Nat)
      BY <1>1, <1>6 DEF RioTypes
    <3> HIDE DEF grown
    <3> DEFINE longer == [reader.call EXCEPT !.usrbuf = grown]
    <3>2. reader.call \in RioCalls
      BY <3>1
    <3>3. /\ longer \in RioCalls /\ longer.usrbuf = grown
          /\ longer.pc = reader.call.pc /\ longer.n = reader.call.n
      BY <3>1, <3>2 DEF RioCalls
    <3> HIDE DEF longer
    <3>4. reader' = [reader EXCEPT !.call = longer]
      BY <1>7, Zenon DEF longer, grown
    <3>5. /\ reader' \in Readers /\ reader'.call = longer /\ reader'.given = reader.given
          /\ reader'.last = reader.last /\ reader'.eof = reader.eof
          /\ reader'.buffered = reader.buffered
      BY <3>1, <3>3, <3>4
    <3> QED
      BY <3>3, <3>5
  <2>2. rp' \in [cnt : Int, buf : Seq(Nat)] /\ rp'.buf = Back(rp.buf, cnt) /\ rp'.cnt = rp.cnt - cnt
    BY <1>2, <1>4, <1>5, <1>7
  <2>3. writer' = writer /\ pipe' = pipe
    BY <1>1
  <2> QED
    BY <1>1, <2>1, <2>2, <2>3 DEF RioTypes
<1>9. Whole(reader'.given, reader'.call.usrbuf, rp'.buf, pipe', writer'.left)
      = Whole(reader.given, call.usrbuf, rp.buf, pipe, writer.left)
  <2>1. Whole(reader.given, Join(call.usrbuf, First(rp.buf, cnt)), Back(rp.buf, cnt), pipe, writer.left)
        = Whole(reader.given, call.usrbuf, rp.buf, pipe, writer.left)
    BY <1>2, <1>4, Copied
  <2> QED
    BY <1>1, <1>8, <2>1
<1>10. Len(rp'.buf) = IF rp'.cnt > 0 THEN rp'.cnt ELSE 0
  BY <1>2, <1>4, <1>5, <1>8
<1>11. RioDelivers'
  <2>1. (reader.last.pc # "none" => reader.eof \/ Satisfied(reader.last))'
    BY <1>1, <1>8 DEF RioDelivers, Satisfied
  <2> QED
    BY <1>1, <1>8, <1>9, <1>10, <2>1, Delivered, DeliveredNext
<1>12. reader'.call.pc \in {"readn", "readnb"} => Len(reader'.call.usrbuf) <= reader'.call.n
  <2> SUFFICES ASSUME reader'.call.pc \in {"readn", "readnb"}
               PROVE  Len(reader'.call.usrbuf) <= reader'.call.n
    OBVIOUS
  <2>1. call.pc = "readnb"
    BY <1>1, <1>8 DEF Buffered
  <2>2. wanted = call.n - Len(call.usrbuf)
    BY <1>3, <2>1
  <2>3. Len(call.usrbuf) + cnt <= call.n
    BY <1>2, <1>4, <2>2
  <2>4. Len(reader'.call.usrbuf) = Len(call.usrbuf) + cnt /\ reader'.call.n = call.n
    BY <1>6, <1>8
  <2> QED
    BY <2>3, <2>4
<1> QED
  BY <1>1, <1>8, <1>11, <1>12 DEF RioInv, Buffered

(* rio_readn reads from the pipe into the caller's buffer.                 *)
LEMMA ReadnInv == ASSUME RioInv, rio_readn PROVE RioInv'
<1> DEFINE call == reader.call
<1>1. /\ RioTypes /\ RioDelivers /\ UNCHANGED <<writer, rp>>
      /\ call.pc = "readn" /\ ~Satisfied(call) /\ rp.buf = <<>>
  BY DEF RioInv, rio_readn, Reading
<1>2. /\ writer.left \in Seq(Nat) /\ pipe \in Seq(Nat) /\ rp.buf \in Seq(Nat) /\ rp.cnt \in Int
      /\ reader.given \in Seq(Nat) /\ call.usrbuf \in Seq(Nat) /\ call.n \in Nat
      /\ Len(call.usrbuf) \in Nat /\ Len(pipe) \in Nat
      /\ rp \in [cnt : Int, buf : Seq(Nat)]
  BY <1>1, LenProperties DEF RioTypes, RioCalls
<1>3. ASSUME NEW k \in 1..Atmost(call.n - Len(call.usrbuf), Len(pipe)),
             reader' = [reader EXCEPT !.call.usrbuf = @ \o SubSeq(pipe, 1, k)],
             pipe' = SubSeq(pipe, k + 1, Len(pipe))
      PROVE  RioInv'
  <2>1. k \in 0..Len(pipe) /\ k \in Nat /\ k <= call.n - Len(call.usrbuf)
    BY <1>2 DEF Atmost
  <2>2. First(pipe, k) \in Seq(Nat) /\ Len(First(pipe, k)) = k /\ Back(pipe, k) \in Seq(Nat)
    BY <1>2, <2>1, Cuts
  <2>3. /\ Join(call.usrbuf, First(pipe, k)) \in Seq(Nat)
        /\ Len(Join(call.usrbuf, First(pipe, k))) = Len(call.usrbuf) + k
    BY <1>2, <2>1, Grown
  <2>4. /\ reader' = [reader EXCEPT !.call.usrbuf = Join(call.usrbuf, First(pipe, k))]
        /\ pipe' = Back(pipe, k)
    BY <1>3 DEF Join, First, Back
  <2>5. /\ RioTypes'
        /\ reader'.call.usrbuf = Join(call.usrbuf, First(pipe, k))
        /\ reader'.given = reader.given /\ reader'.last = reader.last /\ reader'.eof = reader.eof
        /\ reader'.buffered = reader.buffered
        /\ reader'.call.pc = call.pc /\ reader'.call.n = call.n
    BY <1>1, <1>2, <2>2, <2>3, <2>4 DEF RioTypes, RioCalls
  <2>6. Whole(reader'.given, reader'.call.usrbuf, rp'.buf, pipe', writer'.left)
        = Whole(reader.given, call.usrbuf, rp.buf, pipe, writer.left)
    <3>1. Whole(reader.given, Join(call.usrbuf, First(pipe, k)), <<>>, Back(pipe, k), writer.left)
          = Whole(reader.given, call.usrbuf, <<>>, pipe, writer.left)
      BY <1>2, <2>1, ReadUnbuffered
    <3> QED
      BY <1>1, <2>4, <2>5, <3>1
  <2>7. RioDelivers'
    <3>1. (reader.last.pc # "none" => reader.eof \/ Satisfied(reader.last))'
      BY <1>1, <2>5 DEF RioDelivers, Satisfied
    <3>2. Len(rp'.buf) = IF rp'.cnt > 0 THEN rp'.cnt ELSE 0
      BY <1>1 DEF RioDelivers
    <3> QED
      BY <1>1, <2>5, <2>6, <3>1, <3>2, Delivered, DeliveredNext
  <2>8. Len(reader'.call.usrbuf) <= reader'.call.n
    <3>1. Len(reader'.call.usrbuf) = Len(call.usrbuf) + k /\ reader'.call.n = call.n
      BY <2>3, <2>5
    <3> QED
      BY <1>2, <2>1, <3>1
  <2> QED
    BY <1>1, <2>5, <2>7, <2>8 DEF RioInv, Buffered
<1>4. CASE Returned(TRUE) /\ UNCHANGED pipe
  <2>1. Len(rp.buf) = IF rp.cnt > 0 THEN rp.cnt ELSE 0
    BY <1>1 DEF RioDelivers
  <2> QED
    BY <1>1, <1>2, <1>4, <2>1, ReturnInv
<1> QED
  BY <1>3, <1>4 DEF rio_readn

(* A wrapper whose read fails ends the program.                            *)
LEMMA ReadFailsInv == ASSUME RioInv, ReadFails PROVE RioInv'
<1>1. /\ reader' = [reader EXCEPT !.call.pc = "exit"] /\ UNCHANGED <<writer, pipe, rp>>
      /\ RioTypes /\ RioDelivers
  BY DEF RioInv, ReadFails
<1>2. /\ RioTypes'
      /\ reader'.call.usrbuf = reader.call.usrbuf /\ reader'.call.pc = "exit"
      /\ reader'.given = reader.given /\ reader'.last = reader.last /\ reader'.eof = reader.eof
      /\ reader'.buffered = reader.buffered
  BY <1>1 DEF RioTypes, RioCalls
<1>3. RioDelivers'
  BY <1>1, <1>2 DEF RioDelivers, Satisfied
<1> QED
  BY <1>1, <1>2, <1>3 DEF RioInv, Buffered

(* Every step of the package.                                              *)
LEMMA RioNextInv == ASSUME RioInv, RioNext PROVE RioInv'
<1>1. CASE Calls
  <2>1. (\E c \in {"readlineb", "readnb"} : reader.buffered /\ Call(c))
        \/ (~reader.buffered /\ Call("readn"))
    BY <1>1 DEF Calls
  <2> QED
    BY <2>1, CallInv DEF Buffered
<1> QED
  BY <1>1, WriteInv, WriterEndsInv, ReturnsInv, RefillInv, RefillNothingInv, CopyInv, ReadnInv,
     ReadFailsInv DEF RioNext

(* The package stands still while another program runs.                    *)
LEMMA RioIdle == ASSUME RioInv, UNCHANGED rioVars PROVE RioInv'
<1>1. UNCHANGED <<writer, pipe, rp, reader>>
  BY DEF rioVars
<1>2. RioTypes' /\ RioDelivers'
  BY <1>1 DEF RioInv, RioTypes, RioDelivers, Satisfied
<1> QED
  BY <1>1, <1>2 DEF RioInv

(***************************************************************************)
(* The helpers that open sockets.                                          *)
(***************************************************************************)
SockPc == {"getaddrinfo", "walk", "try", "clean up", "return", "open", "unix_error"}

SockTypes ==
  sock \in [call : {"open_clientfd", "open_listenfd"}, pc : SockPc, listp : Nat, p : Nat,
            fds : SUBSET Nat, refused : SUBSET Nat, listening : BOOLEAN, stuck : BOOLEAN, rc : Int]

(* On the walk the addresses before p have been refused, and only p's      *)
(* socket may be open; a call that returns has one socket or, unless close *)
(* has failed, none.                                                       *)
OnWalk ==
  /\ sock.pc = "getaddrinfo" => sock.p = 1 /\ sock.fds = {} /\ sock.listp = 0
  /\ sock.pc \in {"getaddrinfo", "walk", "try", "clean up"} =>
       /\ sock.p > 0 /\ sock.refused = 1..(sock.p - 1)
       /\ ~sock.listening /\ ~sock.stuck
  /\ sock.pc = "walk" => sock.fds = {}
  /\ sock.pc \in {"try", "clean up"} => sock.fds = {sock.p}

OneSocket ==
  /\ sock.fds = {sock.rc} /\ sock.refused = 1..(sock.rc - 1)
  /\ sock.listening <=> (sock.call = "open_listenfd")

AtReturn ==
  /\ sock.pc \in {"return", "open"} /\ sock.rc >= 0 => OneSocket
  /\ sock.pc = "open" => sock.rc >= 0
  /\ sock.pc = "return" /\ ~sock.stuck =>
       /\ sock.listp = 0
       /\ sock.rc < 0 => sock.fds = {}

SockInv == SockTypes /\ OnWalk /\ AtReturn

(* No socket is open before the call.                                      *)
LEMMA SockInit ==
  (\E call \in {"open_clientfd", "open_listenfd"} : OpenStart(call)) => SockInv
BY DEF OpenStart, SockInv, OnWalk, AtReturn, OneSocket, SockTypes, SockPc

(* What a step leaves in the record, field by field.                       *)
SockIs(pc, listp, p, fds, refused, listening, stuck, rc) ==
  /\ sock'.call = sock.call /\ sock'.pc = pc /\ sock'.listp = listp /\ sock'.p = p
  /\ sock'.fds = fds /\ sock'.refused = refused /\ (sock'.listening <=> listening)
  /\ (sock'.stuck <=> stuck) /\ sock'.rc = rc
  /\ SockTypes'

(* A step that stays at an address keeps one socket, or none yet.          *)
LEMMA Walks ==
  ASSUME NEW pc \in {"walk", "try", "clean up"}, NEW listp, NEW p \in Nat, p > 0, NEW fds, NEW rc,
         fds = IF pc = "walk" THEN {} ELSE {p},
         SockIs(pc, listp, p, fds, 1..(p - 1), FALSE, FALSE, rc)
  PROVE  SockInv'
<1>1. OnWalk'
  BY DEF OnWalk, SockIs
<1>2. AtReturn'
  BY DEF AtReturn, SockIs
<1> QED
  BY <1>1, <1>2 DEF SockInv, SockIs

(* A step to the next address leaves none open.                            *)
LEMMA WalksOn ==
  ASSUME NEW p \in Nat, NEW listp, NEW rc,
         SockIs("walk", listp, p + 1, {}, 1..(p + 1 - 1), FALSE, FALSE, rc)
  PROVE  SockInv'
<1>1. OnWalk'
  BY DEF OnWalk, SockIs
<1>2. AtReturn'
  BY DEF AtReturn, SockIs
<1> QED
  BY <1>1, <1>2 DEF SockInv, SockIs

(* A call that fails closes its socket and frees the list, or is stuck.    *)
LEMMA Fails ==
  ASSUME NEW listp, NEW p, NEW fds, NEW refused, NEW listening, NEW stuck \in BOOLEAN,
         NEW rc \in Int, rc < 0,
         ~stuck => fds = {} /\ listp = 0,
         SockIs("return", listp, p, fds, refused, listening, stuck, rc)
  PROVE  SockInv'
<1>1. OnWalk'
  BY DEF OnWalk, SockIs
<1>2. ~(sock'.rc >= 0) /\ sock'.pc = "return" /\ (~sock'.stuck => sock'.fds = {} /\ sock'.listp = 0)
  BY DEF SockIs
<1>3. AtReturn'
  BY <1>2 DEF AtReturn
<1> QED
  BY <1>1, <1>3 DEF SockInv, SockIs

(* A call that succeeds leaves the one socket open that it returns.        *)
LEMMA Opens ==
  ASSUME NEW p \in Nat, NEW listp, NEW fds, NEW refused, NEW listening, NEW pc \in {"return", "open"},
         fds = {p}, refused = 1..(p - 1), listening <=> (sock.call = "open_listenfd"),
         pc = "return" => listp = 0,
         NEW q, NEW stuck,
         SockIs(pc, listp, q, fds, refused, listening, stuck, p)
  PROVE  SockInv'
<1>1. OnWalk'
  BY DEF OnWalk, SockIs
<1>2. /\ sock'.rc = p /\ sock'.fds = {p} /\ sock'.refused = 1..(p - 1) /\ sock'.pc = pc
      /\ sock'.listening <=> (sock'.call = "open_listenfd")
      /\ pc = "return" => sock'.listp = 0
  BY DEF SockIs
<1>3. OneSocket'
  BY <1>2 DEF OneSocket
<1>4. AtReturn'
  BY <1>2, <1>3 DEF AtReturn
<1> QED
  BY <1>1, <1>4 DEF SockInv, SockIs

(* Every step of the two helpers.                                          *)
LEMMA SockNextInv == ASSUME SockInv, OpenNext PROVE SockInv'
<1>1. /\ sock.p \in Nat /\ sock.listp \in Nat /\ sock.rc \in Int
      /\ sock.fds \in SUBSET Nat /\ sock.refused \in SUBSET Nat /\ SockTypes
  BY DEF SockInv, SockTypes
<1>2. /\ sock.p + 1 \in Nat /\ sock.fds \cup {sock.p} \in SUBSET Nat
      /\ sock.fds \ {sock.p} \in SUBSET Nat /\ sock.refused \cup {sock.p} \in SUBSET Nat
      /\ -1 \in Int /\ -2 \in Int /\ 0 \in Nat /\ sock.p \in Int
      /\ -1 < 0 /\ -2 < 0 /\ sock.p + 1 > 0
  BY <1>1
<1>3. sock.p > 0 => 1..(sock.p - 1) \cup {sock.p} = 1..(sock.p + 1 - 1)
  BY <1>1
<1>4. /\ sock.pc \in {"getaddrinfo", "walk", "try", "clean up"} =>
           /\ sock.p > 0 /\ sock.refused = 1..(sock.p - 1)
           /\ sock.listening = FALSE /\ sock.stuck = FALSE
      /\ sock.pc = "getaddrinfo" => sock.fds = {} /\ sock.listp = 0
      /\ sock.pc = "walk" => sock.fds = {}
      /\ sock.pc \in {"try", "clean up"} => sock.fds = {sock.p}
  BY DEF SockInv, OnWalk, SockTypes
<1>5. CASE Getaddrinfo
  <2>1. /\ sock.p > 0 /\ sock.refused = 1..(sock.p - 1) /\ sock.fds = {} /\ sock.listp = 0
        /\ sock.listening = FALSE /\ sock.stuck = FALSE
    BY <1>4, <1>5 DEF Getaddrinfo, At
  <2>2. CASE sock' = Return(-2)
    <3>1. SockIs("return", sock.listp, sock.p, sock.fds, sock.refused, sock.listening, sock.stuck, -2)
      BY <1>1, <1>2, <2>2 DEF SockIs, SockTypes, SockPc, Return
    <3>2. SockIs("return", 0, sock.p, {}, sock.refused, FALSE, FALSE, -2)
      BY <2>1, <3>1
    <3> QED
      BY <1>2, <3>2, Fails
  <2>3. CASE \E len \in 1..MaxAddresses : sock' = [sock EXCEPT !.pc = "walk", !.listp = len]
    <3>1. PICK len \in 1..MaxAddresses : sock' = [sock EXCEPT !.pc = "walk", !.listp = len]
      BY <2>3
    <3>2. len \in Nat
      BY AddressesAssumption
    <3>3. SockIs("walk", len, sock.p, sock.fds, sock.refused, sock.listening, sock.stuck, sock.rc)
      BY <1>1, <3>1, <3>2 DEF SockIs, SockTypes, SockPc
    <3>4. SockIs("walk", len, sock.p, {}, 1..(sock.p - 1), FALSE, FALSE, sock.rc)
      BY <2>1, <3>3
    <3> QED
      BY <1>1, <2>1, <3>4, Walks
  <2> QED
    BY <1>5, <2>2, <2>3 DEF Getaddrinfo
<1>6. CASE SocketFails
  <2>1. /\ sock.p > 0 /\ sock.refused = 1..(sock.p - 1) /\ sock.fds = {}
        /\ sock.listening = FALSE /\ sock.stuck = FALSE
    BY <1>4, <1>6 DEF SocketFails, At
  <2>2. SockIs("walk", sock.listp, sock.p + 1, sock.fds, sock.refused \cup {sock.p}, sock.listening,
               sock.stuck, sock.rc)
    BY <1>1, <1>2, <1>6 DEF SocketFails, At, SockIs, SockTypes, SockPc
  <2>3. SockIs("walk", sock.listp, sock.p + 1, {}, 1..(sock.p + 1 - 1), FALSE, FALSE, sock.rc)
    BY <1>3, <2>1, <2>2
  <2> QED
    BY <1>1, <2>3, WalksOn
<1>7. CASE SocketMade
  <2>1. /\ sock.p > 0 /\ sock.refused = 1..(sock.p - 1) /\ sock.fds \cup {sock.p} = {sock.p}
        /\ sock.listening = FALSE /\ sock.stuck = FALSE
    BY <1>4, <1>7 DEF SocketMade, At
  <2>2. SockIs("try", sock.listp, sock.p, sock.fds \cup {sock.p}, sock.refused, sock.listening,
               sock.stuck, sock.rc)
    BY <1>1, <1>2, <1>7 DEF SocketMade, At, SockIs, SockTypes, SockPc
  <2>3. SockIs("try", sock.listp, sock.p, {sock.p}, 1..(sock.p - 1), FALSE, FALSE, sock.rc)
    BY <2>1, <2>2
  <2> QED
    BY <1>1, <2>1, <2>3, Walks
<1>8. CASE Found \/ Refused
  <2>1. /\ sock.p > 0 /\ sock.refused = 1..(sock.p - 1) /\ sock.fds = {sock.p}
        /\ sock.listening = FALSE /\ sock.stuck = FALSE /\ sock.fds \ {sock.p} = {}
    BY <1>4, <1>8 DEF Found, Refused, At
  <2>2. CASE Found
    <3>1. SockIs("clean up", sock.listp, sock.p, sock.fds, sock.refused, sock.listening, sock.stuck,
                 sock.rc)
      BY <1>1, <1>2, <2>2 DEF Found, At, SockIs, SockTypes, SockPc
    <3>2. SockIs("clean up", sock.listp, sock.p, {sock.p}, 1..(sock.p - 1), FALSE, FALSE, sock.rc)
      BY <2>1, <3>1
    <3> QED
      BY <1>1, <2>1, <3>2, Walks
  <2>3. CASE Refused
    <3>1. SockIs("walk", sock.listp, sock.p + 1, sock.fds \ {sock.p}, sock.refused \cup {sock.p},
                 sock.listening, sock.stuck, sock.rc)
          \/ SockIs("return", sock.listp, sock.p, sock.fds, sock.refused, sock.listening, TRUE, -1)
      <4>1. CASE sock' = [sock EXCEPT !.pc = "walk", !.p = @ + 1, !.refused = @ \cup {sock.p},
                                      !.fds = @ \ {sock.p}]
        BY <1>1, <1>2, <4>1 DEF SockIs, SockTypes, SockPc
      <4>2. CASE sock' = [Return(-1) EXCEPT !.stuck = TRUE]
        BY <1>1, <1>2, <4>2 DEF Return, SockIs, SockTypes, SockPc
      <4> QED
        BY <2>3, <4>1, <4>2 DEF Refused
    <3>2. SockIs("walk", sock.listp, sock.p + 1, {}, 1..(sock.p + 1 - 1), FALSE, FALSE, sock.rc)
          \/ SockIs("return", sock.listp, sock.p, sock.fds, sock.refused, sock.listening, TRUE, -1)
      BY <1>3, <2>1, <3>1
    <3>3. SockIs("walk", sock.listp, sock.p + 1, {}, 1..(sock.p + 1 - 1), FALSE, FALSE, sock.rc)
          => SockInv'
      BY <1>1, WalksOn
    <3>4. SockIs("return", sock.listp, sock.p, sock.fds, sock.refused, sock.listening, TRUE, -1)
          => SockInv'
      BY <1>2, Fails
    <3> QED
      BY <3>2, <3>3, <3>4
  <2> QED
    BY <1>8, <2>2, <2>3
<1>9. CASE NotFound
  <2>1. sock.fds = {} /\ sock.stuck = FALSE
    BY <1>4, <1>9 DEF NotFound, At
  <2>2. SockIs("return", 0, sock.p, sock.fds, sock.refused, sock.listening, sock.stuck, -1)
    BY <1>1, <1>2, <1>9 DEF NotFound, Return, At, SockIs, SockTypes, SockPc
  <2>3. SockIs("return", 0, sock.p, {}, sock.refused, sock.listening, FALSE, -1)
    BY <2>1, <2>2
  <2> QED
    BY <1>2, <2>3, Fails
<1>10. CASE Connected \/ Listen
  <2>1. /\ sock.p > 0 /\ sock.refused = 1..(sock.p - 1) /\ sock.fds = {sock.p}
        /\ sock.listening = FALSE /\ sock.stuck = FALSE /\ sock.fds \ {sock.p} = {}
    BY <1>4, <1>10 DEF Connected, Listen, At
  <2>2. CASE Connected
    <3>1. SockIs("return", 0, sock.p, sock.fds, sock.refused, sock.listening, sock.stuck, sock.p)
      BY <1>1, <1>2, <2>2 DEF Connected, Return, At, SockIs, SockTypes, SockPc
    <3>2. SockIs("return", 0, sock.p, {sock.p}, 1..(sock.p - 1), FALSE, FALSE, sock.p)
      BY <2>1, <3>1
    <3>3. FALSE <=> (sock.call = "open_listenfd")
      BY <2>2 DEF Connected
    <3> QED
      BY <1>1, <3>2, <3>3, Opens
  <2>3. CASE Listen
    <3>1. SockIs("return", 0, sock.p, sock.fds, sock.refused, TRUE, sock.stuck, sock.p)
          \/ SockIs("return", 0, sock.p, sock.fds \ {sock.p}, sock.refused, sock.listening, sock.stuck,
                    -1)
      <4>1. CASE sock' = [Return(sock.p) EXCEPT !.listp = 0, !.listening = TRUE]
        BY <1>1, <1>2, <4>1 DEF Return, SockIs, SockTypes, SockPc
      <4>2. CASE sock' = [Return(-1) EXCEPT !.listp = 0, !.fds = @ \ {sock.p}]
        BY <1>1, <1>2, <4>2 DEF Return, SockIs, SockTypes, SockPc
      <4> QED
        BY <2>3, <4>1, <4>2 DEF Listen
    <3>2. SockIs("return", 0, sock.p, {sock.p}, 1..(sock.p - 1), TRUE, FALSE, sock.p)
          \/ SockIs("return", 0, sock.p, {}, sock.refused, sock.listening, FALSE, -1)
      BY <2>1, <3>1
    <3>3. TRUE <=> (sock.call = "open_listenfd")
      BY <2>3 DEF Listen
    <3>4. SockIs("return", 0, sock.p, {sock.p}, 1..(sock.p - 1), TRUE, FALSE, sock.p) => SockInv'
      BY <1>1, <3>3, Opens
    <3>5. SockIs("return", 0, sock.p, {}, sock.refused, sock.listening, FALSE, -1) => SockInv'
      BY <1>2, Fails
    <3> QED
      BY <3>2, <3>4, <3>5
  <2> QED
    BY <1>10, <2>2, <2>3
<1>11. CASE Open
  <2>1. sock.pc = "return" /\ AtReturn
    BY <1>11 DEF Open, At, SockInv
  <2>2. SockIs(IF sock.rc < 0 THEN "unix_error" ELSE "open", sock.listp, sock.p, sock.fds,
               sock.refused, sock.listening, sock.stuck, sock.rc)
    BY <1>1, <1>2, <1>11 DEF Open, At, SockIs, SockTypes, SockPc
  <2>3. CASE sock.rc < 0
    <3>1. SockIs("unix_error", sock.listp, sock.p, sock.fds, sock.refused, sock.listening,
                 sock.stuck, sock.rc)
      BY <2>2, <2>3
    <3>2. OnWalk' /\ AtReturn'
      BY <3>1 DEF SockIs, OnWalk, AtReturn
    <3> QED
      BY <3>1, <3>2 DEF SockInv, SockIs
  <2>4. CASE sock.rc >= 0
    <3>1. SockIs("open", sock.listp, sock.p, sock.fds, sock.refused, sock.listening,
                 sock.stuck, sock.rc)
      BY <1>1, <2>2, <2>4
    <3>2. /\ sock.fds = {sock.rc} /\ sock.refused = 1..(sock.rc - 1)
          /\ sock.listening <=> (sock.call = "open_listenfd")
      BY <2>1, <2>4 DEF AtReturn, OneSocket
    <3>3. sock.rc \in Nat
      BY <1>1, <2>4
    <3> QED
      BY <3>1, <3>2, <3>3, Opens
  <2> QED
    BY <1>1, <2>3, <2>4
<1> QED
  BY <1>5, <1>6, <1>7, <1>8, <1>9, <1>10, <1>11 DEF OpenNext

(* Every program but one stands still.                                     *)
LEMMA CsappInv == Spec => [](RioInv /\ SockInv)
<1>1. Init => RioInv /\ SockInv
  BY RioInit, SockInit DEF Init, Inputs
<1>2. RioInv /\ SockInv /\ [Next]_vars => (RioInv /\ SockInv)'
  <2> SUFFICES ASSUME RioInv, SockInv, [Next]_vars PROVE RioInv' /\ SockInv'
    OBVIOUS
  <2>1. RioNext \/ UNCHANGED rioVars
    BY DEF Next, vars
  <2>2. OpenNext \/ UNCHANGED sock
    BY DEF Next, vars
  <2>3. RioInv'
    BY <2>1, RioNextInv, RioIdle
  <2>4. UNCHANGED sock => SockInv'
    BY DEF SockInv, SockTypes, OnWalk, AtReturn, OneSocket
  <2> QED
    BY <2>2, <2>3, <2>4, SockNextInv
<1> QED
  BY <1>1, <1>2, PTL DEF Spec

(* The robust I/O package loses, doubles and reorders nothing, and the     *)
(* helpers leave no socket open that they do not return.                   *)
THEOREM CsappCorrect == Spec => []CsappKept
<1>1. RioInv /\ SockInv => CsappKept
  <2> SUFFICES ASSUME RioInv, SockInv PROVE RioDelivers /\ SocketsKept
    BY DEF CsappKept
  <2>1. SocketsKept
    <3>1. CASE At("open")
      BY <3>1 DEF SockInv, AtReturn, OneSocket, SocketsKept, At
    <3>2. CASE ~At("open")
      BY <3>2 DEF SockInv, AtReturn, SocketsKept, At
    <3> QED
      BY <3>1, <3>2
  <2> QED
    BY <2>1 DEF RioInv
<1> QED
  BY <1>1, CsappInv, PTL

(***************************************************************************)
(* The cache simulator.                                                    *)
(***************************************************************************)
Sets == 0..(2^SetBits - 1)
Line == [valid : Nat, tag : Nat]

(* order gives the lines that hold the blocks of used, place by place: the *)
(* times of the lines fall along it, and the others hold nothing.          *)
Holds(lines, used, order, cnt) ==
  /\ order \in [1..Len(used) -> DOMAIN lines]
  /\ \A p \in 1..Len(used) : /\ lines[order[p]].tag = used[p]
                             /\ lines[order[p]].valid \in 1..(cnt - 1)
  /\ \A p, q \in 1..Len(used) : p < q => lines[order[q]].valid < lines[order[p]].valid
  /\ \A p, q \in 1..Len(used) : used[p] = used[q] => p = q
  /\ \A l \in DOMAIN lines : lines[l].valid > 0 => \E p \in 1..Len(used) : order[p] = l

(* The new order of a set: x first, and place k given up if there is one.  *)
Renewed(used, k, x, new) ==
  /\ new \in Seq(Nat)
  /\ Len(new) = IF k <= Len(used) THEN Len(used) ELSE Len(used) + 1
  /\ new[1] = x
  /\ \A p \in 2..Len(new) : new[p] = IF p <= k THEN used[p - 1] ELSE used[p]

(* What putting a block first and taking a place out gives.                *)
LEMMA Renews ==
  ASSUME NEW used \in Seq(Nat), NEW x \in Nat, NEW k \in Nat \ {0}
  PROVE  Renewed(used, k, x, <<x>> \o (IF k \in DOMAIN used THEN RemoveAt(used, k) ELSE used))
<1> DEFINE rest == IF k \in DOMAIN used THEN RemoveAt(used, k) ELSE used
<1> SUFFICES Renewed(used, k, x, <<x>> \o rest)
  OBVIOUS
<1> HIDE DEF rest
<1>1. /\ Len(used) \in Nat /\ DOMAIN used = 1..Len(used)
      /\ \A p \in 1..Len(used) : used[p] \in Nat
  BY ElementOfSeq, LenProperties
<1>2. ASSUME NEW s \in Seq(Nat)
      PROVE  /\ <<x>> \o s \in Seq(Nat) /\ Len(<<x>> \o s) = Len(s) + 1
             /\ (<<x>> \o s)[1] = x
             /\ \A p \in 2..(Len(s) + 1) : (<<x>> \o s)[p] = s[p - 1]
  <2>1. <<x>> \in Seq(Nat) /\ Len(<<x>>) = 1 /\ <<x>>[1] = x
    OBVIOUS
  <2>2. Len(s) \in Nat
    BY LenProperties
  <2> QED
    BY <2>1, <2>2, ConcatProperties
<1>3. CASE k \in DOMAIN used
  <2>1. k \in 1..Len(used)
    BY <1>1, <1>3
  <2> DEFINE a == SubSeq(used, 1, k - 1)
             b == SubSeq(used, k + 1, Len(used))
  <2>2. a \in Seq(Nat) /\ Len(a) = k - 1 /\ \A p \in 1..(k - 1) : a[p] = used[p]
    BY <1>1, <2>1, SubSeqProperties
  <2>3. /\ b \in Seq(Nat) /\ Len(b) = Len(used) - k
        /\ \A p \in 1..(Len(used) - k) : b[p] = used[k + p]
    <3> DEFINE m == k + 1
    <3>1. m \in Int /\ Len(used) \in Int /\ \A i \in m..Len(used) : used[i] \in Nat
      BY <1>1, <2>1
    <3> HIDE DEF m
    <3>2. /\ SubSeq(used, m, Len(used)) \in Seq(Nat)
          /\ Len(SubSeq(used, m, Len(used))) = IF m <= Len(used) THEN Len(used) - m + 1 ELSE 0
          /\ \A p \in 1..(Len(used) - m + 1) : SubSeq(used, m, Len(used))[p] = used[m + p - 1]
      BY <3>1, SubSeqProperties
    <3>3. /\ (IF m <= Len(used) THEN Len(used) - m + 1 ELSE 0) = Len(used) - k
          /\ Len(used) - m + 1 = Len(used) - k
          /\ \A p \in 1..(Len(used) - k) : m + p - 1 = k + p
      <4>1. Len(used) \in Nat /\ k \in Nat /\ k <= Len(used)
        BY <1>1, <2>1
      <4> QED
        BY <4>1 DEF m
    <3>4. b = SubSeq(used, m, Len(used))
      BY DEF b, m
    <3> QED
      BY <3>2, <3>3, <3>4
  <2> HIDE DEF a, b
  <2>4. /\ a \o b \in Seq(Nat) /\ Len(a \o b) = Len(a) + Len(b)
        /\ \A p \in 1..(Len(a) + Len(b)) : (a \o b)[p] = IF p <= Len(a) THEN a[p] ELSE b[p - Len(a)]
    BY <2>2, <2>3, ConcatProperties
  <2> DEFINE r == a \o b
  <2>5. r \in Seq(Nat) /\ Len(r) = Len(used) - 1
    BY <1>1, <2>1, <2>2, <2>3, <2>4
  <2>6. \A p \in 1..(Len(used) - 1) : r[p] = IF p < k THEN used[p] ELSE used[p + 1]
    <3> SUFFICES ASSUME NEW p \in 1..(Len(used) - 1)
                 PROVE  r[p] = IF p < k THEN used[p] ELSE used[p + 1]
      OBVIOUS
    <3>1. p \in 1..(Len(a) + Len(b)) /\ Len(a) = k - 1 /\ p \in Nat /\ k \in Nat
      BY <1>1, <2>1, <2>2, <2>3
    <3>2. CASE p < k
      <4>1. p <= Len(a) /\ p \in 1..(k - 1)
        BY <3>1, <3>2
      <4> QED
        BY <2>2, <2>4, <3>1, <3>2, <4>1
    <3>3. CASE ~(p < k)
      <4>1. p - Len(a) \in 1..(Len(used) - k) /\ k + (p - Len(a)) = p + 1 /\ ~(p <= Len(a))
        BY <1>1, <2>1, <3>1, <3>3
      <4>2. (a \o b)[p] = b[p - Len(a)]
        BY <2>4, <3>1, <4>1
      <4>3. b[p - Len(a)] = used[p + 1]
        BY <2>3, <4>1
      <4> QED
        BY <3>3, <4>2, <4>3
    <3> QED
      BY <3>2, <3>3
  <2> HIDE DEF r
  <2>7. RemoveAt(used, k) = r
    BY DEF RemoveAt, r, a, b
  <2>8. /\ <<x>> \o r \in Seq(Nat) /\ Len(<<x>> \o r) = Len(used) /\ (<<x>> \o r)[1] = x
        /\ \A p \in 2..Len(used) : (<<x>> \o r)[p] = r[p - 1]
    <3>1. Len(r) + 1 = Len(used)
      BY <1>1, <2>5
    <3>2. /\ <<x>> \o r \in Seq(Nat) /\ Len(<<x>> \o r) = Len(r) + 1 /\ (<<x>> \o r)[1] = x
          /\ \A p \in 2..(Len(r) + 1) : (<<x>> \o r)[p] = r[p - 1]
      BY <1>2, <2>5
    <3> QED
      BY <3>1, <3>2
  <2>9. \A p \in 2..Len(used) : (<<x>> \o r)[p] = IF p <= k THEN used[p - 1] ELSE used[p]
    <3>1. \A p \in 2..Len(used) : /\ p - 1 \in 1..(Len(used) - 1) /\ (p - 1) + 1 = p
                                  /\ p - 1 < k <=> p <= k
      BY <1>1, <2>1
    <3> QED
      BY <2>6, <2>8, <3>1
  <2>10. rest = r
    BY <1>3, <2>7 DEF rest
  <2> DEFINE new == <<x>> \o r
  <2>11. /\ new \in Seq(Nat) /\ Len(new) = Len(used) /\ new[1] = x
         /\ \A p \in 2..Len(new) : new[p] = IF p <= k THEN used[p - 1] ELSE used[p]
    BY <2>8, <2>9
  <2> HIDE DEF new
  <2>12. k <= Len(used)
    BY <1>1, <2>1
  <2>13. Renewed(used, k, x, new)
    BY <2>11, <2>12 DEF Renewed
  <2> QED
    BY <2>10, <2>13 DEF new
<1>4. CASE k \notin DOMAIN used
  <2>1. k > Len(used)
    BY <1>1, <1>4
  <2>2. rest = used
    BY <1>4 DEF rest
  <2>3. \A p \in 2..(Len(used) + 1) : p <= k
    BY <1>1, <2>1
  <2> DEFINE new == <<x>> \o used
  <2>4. /\ new \in Seq(Nat) /\ Len(new) = Len(used) + 1 /\ new[1] = x
        /\ \A p \in 2..(Len(used) + 1) : new[p] = used[p - 1]
    BY <1>2
  <2> HIDE DEF new
  <2>5. ~(k <= Len(used))
    BY <1>1, <2>1
  <2>6. Renewed(used, k, x, new)
    BY <2>3, <2>4, <2>5 DEF Renewed
  <2> QED
    BY <2>2, <2>6 DEF new
<1> QED
  BY <1>3, <1>4

(* A line that gives way, whose place is k or that holds nothing, becomes  *)
(* the first of the order.                                                 *)
LEMMA Renewal ==
  ASSUME NEW n \in Nat, NEW lines \in [1..n -> Line], NEW used \in Seq(Nat), NEW order,
         NEW cnt \in Nat \ {0}, Holds(lines, used, order, cnt),
         NEW x \in Nat, NEW k \in Nat \ {0}, NEW v \in 1..n, NEW new,
         Renewed(used, k, x, new),
         k <= Len(used) => v = order[k],
         k > Len(used) => lines[v].valid = 0,
         \A p \in 1..Len(used) : used[p] = x => p = k
  PROVE  \E o : Holds([lines EXCEPT ![v] = [valid |-> cnt, tag |-> x]], new, o, cnt + 1)
<1> DEFINE o == [p \in 1..Len(new) |-> IF p = 1 THEN v ELSE IF p <= k THEN order[p - 1] ELSE order[p]]
           renewed == [lines EXCEPT ![v] = [valid |-> cnt, tag |-> x]]
<1>1. Len(used) \in Nat /\ Len(new) \in Nat /\ DOMAIN lines = 1..n
  BY LenProperties DEF Renewed
<1>2. /\ renewed[v].valid = cnt /\ renewed[v].tag = x
      /\ \A l \in 1..n : l # v => renewed[l] = lines[l]
      /\ DOMAIN renewed = 1..n
  OBVIOUS
<1> HIDE DEF renewed
<1>3. ASSUME NEW p \in 1..Len(used)
      PROVE  /\ order[p] \in 1..n /\ lines[order[p]].tag = used[p]
             /\ lines[order[p]].valid \in Nat /\ lines[order[p]].valid < cnt
             /\ lines[order[p]].valid > 0
  <2>1. order \in [1..Len(used) -> 1..n]
    BY <1>1 DEF Holds
  <2>2. lines[order[p]].tag = used[p] /\ lines[order[p]].valid \in 1..(cnt - 1)
    BY DEF Holds
  <2>3. order[p] \in 1..n
    BY <2>1
  <2>4. \A w \in 1..(cnt - 1) : w \in Nat /\ w < cnt /\ w > 0
    OBVIOUS
  <2> QED
    BY <2>2, <2>3, <2>4
<1>4. \A p \in 1..Len(used) : order[p] = v => p = k
  <2> SUFFICES ASSUME NEW p \in 1..Len(used), order[p] = v, p # k PROVE FALSE
    OBVIOUS
  <2>1. k <= Len(used)
    BY <1>1, <1>3
  <2>2. k \in 1..Len(used) /\ order[k] = order[p]
    BY <1>1, <2>1
  <2>3. p < k \/ k < p
    BY <1>1, <2>2
  <2>4. lines[order[k]].valid < lines[order[p]].valid \/ lines[order[p]].valid < lines[order[k]].valid
    BY <2>2, <2>3 DEF Holds
  <2> QED
    BY <1>3, <2>2, <2>4
(* The place that a block had before.                                      *)
<1> DEFINE was(p) == IF p <= k THEN p - 1 ELSE p
<1>5. \A p \in 2..Len(new) : /\ was(p) \in 1..Len(used) /\ was(p) # k
                             /\ new[p] = used[was(p)] /\ o[p] = order[was(p)]
  <2> SUFFICES ASSUME NEW p \in 2..Len(new)
               PROVE  /\ was(p) \in 1..Len(used) /\ was(p) # k
                      /\ new[p] = used[was(p)] /\ o[p] = order[was(p)]
    OBVIOUS
  <2>1. CASE p <= k
    BY <1>1, <2>1 DEF Renewed
  <2>2. CASE p > k
    BY <1>1, <2>2 DEF Renewed
  <2> QED
    BY <1>1, <2>1, <2>2
<1>6. \A p, q \in 2..Len(new) : /\ p < q => was(p) < was(q)
                                /\ was(p) = was(q) => p = q
  BY <1>1, <1>5
<1>7. o[1] = v /\ new[1] = x /\ 1 \in 1..Len(new)
  BY <1>1 DEF Renewed
<1>8. DOMAIN o = 1..Len(new) /\ o = [p \in DOMAIN o |-> o[p]]
  OBVIOUS
<1>9. \A p \in 1..Len(new) : p # 1 => p \in 2..Len(new)
  BY <1>1
<1> HIDE DEF was, o
<1>10. ASSUME NEW p \in 2..Len(new)
      PROVE  o[p] \in 1..n /\ o[p] # v /\ renewed[o[p]] = lines[order[was(p)]]
  <2>1. was(p) \in 1..Len(used) /\ was(p) # k /\ o[p] = order[was(p)]
    BY <1>5
  <2>2. order[was(p)] \in 1..n /\ order[was(p)] # v
    BY <1>3, <1>4, <2>1
  <2> QED
    BY <1>2, <2>1, <2>2
<1>11. o \in [1..Len(new) -> DOMAIN renewed]
  <2>1. \A p \in 1..Len(new) : o[p] \in 1..n
    BY <1>7, <1>9, <1>10
  <2> QED
    BY <1>2, <1>8, <2>1
<1>12. ASSUME NEW p \in 1..Len(new)
       PROVE  renewed[o[p]].tag = new[p] /\ renewed[o[p]].valid \in 1..cnt
  <2>1. CASE p = 1
    BY <1>2, <1>7, <2>1
  <2>2. CASE p # 1
    <3>1. p \in 2..Len(new)
      BY <1>9, <2>2
    <3>2. was(p) \in 1..Len(used) /\ new[p] = used[was(p)] /\ renewed[o[p]] = lines[order[was(p)]]
      BY <1>5, <1>10, <3>1
    <3>3. /\ lines[order[was(p)]].tag = used[was(p)] /\ lines[order[was(p)]].valid \in Nat
          /\ lines[order[was(p)]].valid < cnt /\ lines[order[was(p)]].valid > 0
      BY <1>3, <3>2
    <3>4. \A w \in Nat : w < cnt /\ w > 0 => w \in 1..cnt
      OBVIOUS
    <3>5. renewed[o[p]].valid \in 1..cnt
      BY <3>2, <3>3, <3>4
    <3>6. renewed[o[p]].tag = new[p]
      BY <3>2, <3>3, Zenon
    <3> QED
      BY <3>5, <3>6
  <2> QED
    BY <2>1, <2>2
<1>13. ASSUME NEW p \in 1..Len(new), NEW q \in 1..Len(new), p < q
       PROVE  renewed[o[q]].valid < renewed[o[p]].valid
  <2>1. q \in 2..Len(new)
    BY <1>1, <1>13
  <2>2. CASE p = 1
    BY <1>2, <1>3, <1>5, <1>7, <1>10, <2>1, <2>2
  <2>3. CASE p # 1
    <3>1. p \in 2..Len(new) /\ was(p) < was(q)
      BY <1>6, <1>9, <1>13, <2>1, <2>3
    <3>2. lines[order[was(q)]].valid < lines[order[was(p)]].valid
      BY <1>5, <2>1, <3>1 DEF Holds
    <3> QED
      BY <1>10, <2>1, <3>1, <3>2
  <2> QED
    BY <2>2, <2>3
<1>14. ASSUME NEW p \in 1..Len(new), NEW q \in 1..Len(new), new[p] = new[q] PROVE p = q
  <2>1. ASSUME NEW i \in 2..Len(new), new[i] = x PROVE FALSE
    BY <1>5, <2>1
  <2>2. CASE p = 1 \/ q = 1
    BY <1>7, <1>9, <1>14, <2>1, <2>2
  <2>3. CASE p # 1 /\ q # 1
    <3>1. p \in 2..Len(new) /\ q \in 2..Len(new)
      BY <1>9, <2>3
    <3>2. /\ was(p) \in 1..Len(used) /\ was(q) \in 1..Len(used)
          /\ used[was(p)] = used[was(q)]
      BY <1>5, <1>14, <3>1
    <3>3. was(p) = was(q)
      BY <3>2 DEF Holds
    <3> QED
      BY <1>6, <3>1, <3>3
  <2> QED
    BY <2>2, <2>3
<1>15. ASSUME NEW l \in 1..n, renewed[l].valid > 0
       PROVE  \E p \in 1..Len(new) : o[p] = l
  <2>1. CASE l = v
    BY <1>7, <2>1
  <2>2. CASE l # v
    <3>1. lines[l].valid > 0
      BY <1>2, <1>15, <2>2
    <3>2. PICK p \in 1..Len(used) : order[p] = l
      BY <1>1, <3>1 DEF Holds
    <3>3. p # k
      <4>1. CASE k <= Len(used)
        BY <2>2, <3>2, <4>1
      <4>2. CASE k > Len(used)
        BY <1>1, <4>2
      <4> QED
        BY <1>1, <4>1, <4>2
    <3>4. \E i \in 2..Len(new) : was(i) = p
      <4>1. CASE p < k
        <5>1. p + 1 \in 2..Len(new) /\ was(p + 1) = p
          BY <1>1, <3>2, <4>1 DEF Renewed, was
        <5> QED
          BY <5>1
      <4>2. CASE p > k
        <5>1. p \in 2..Len(new) /\ was(p) = p
          BY <1>1, <3>2, <4>2 DEF Renewed, was
        <5> QED
          BY <5>1
      <4> QED
        BY <1>1, <3>3, <4>1, <4>2
    <3>5. PICK i \in 2..Len(new) : was(i) = p
      BY <3>4
    <3>6. i \in 1..Len(new) /\ o[i] = l
      BY <1>1, <1>5, <3>2, <3>5
    <3> QED
      BY <3>6
  <2> QED
    BY <2>1, <2>2
<1>16. Holds(renewed, new, o, cnt + 1)
  BY <1>1, <1>2, <1>11, <1>12, <1>13, <1>14, <1>15 DEF Holds
<1> QED
  BY <1>16 DEF renewed

(* Every set of numbers has a least one.                                   *)
LEMMA LeastNat ==
  ASSUME NEW S, S \subseteq Nat, S # {}
  PROVE  \E m \in S : \A x \in S : m <= x
<1>1. PICK m \in S : \A x \in S : ~(<<x, m>> \in OpToRel(<, Nat))
  BY WFMin, NatLessThanWellFounded
<1>2. \A x \in S : m \in Nat /\ x \in Nat /\ ~(x < m)
  BY <1>1 DEF OpToRel
<1> QED
  BY <1>2

(* The line of a miss has the least of the times.                          *)
LEMMA VictimLeast ==
  ASSUME NEW n \in Nat \ {0}, NEW lines \in [1..n -> Line]
  PROVE  /\ Victim(lines) \in 1..n
         /\ \A k \in 1..n : lines[Victim(lines)].valid <= lines[k].valid
<1> DEFINE Stamps == {lines[l].valid : l \in 1..n}
<1>1. \A l \in 1..n : lines[l].valid \in Nat
  BY DEF Line
<1>2. Stamps \subseteq Nat /\ Stamps # {}
  BY <1>1
<1>3. PICK least \in Stamps : \A time \in Stamps : least <= time
  BY <1>2, LeastNat
<1> DEFINE Oldest == {l \in 1..n : lines[l].valid = least}
<1>4. Oldest \subseteq Nat /\ Oldest # {}
  BY <1>3
<1>5. PICK first \in Oldest : \A l \in Oldest : first <= l
  BY <1>4, LeastNat
<1>6. \A k \in 1..n : least <= lines[k].valid
  BY <1>3
<1>7. \E l \in DOMAIN lines :
        /\ \A k \in DOMAIN lines : lines[l].valid <= lines[k].valid
        /\ \A k \in DOMAIN lines : lines[k].valid = lines[l].valid => l <= k
  <2>1. first \in 1..n /\ lines[first].valid = least
    BY <1>5
  <2>2. \A k \in 1..n : lines[k].valid = least => first <= k
    BY <1>5
  <2>3. DOMAIN lines = 1..n
    OBVIOUS
  <2> QED
    BY <1>6, <2>1, <2>2, <2>3
<1>8. DOMAIN lines = 1..n
  OBVIOUS
<1> QED
  BY <1>7, <1>8 DEF Victim

(* A full order holds every line; one that is not full leaves one empty.   *)
LEMMA FullOrNot ==
  ASSUME NEW n \in Nat \ {0}, NEW lines \in [1..n -> Line], NEW used \in Seq(Nat), NEW order,
         NEW cnt \in Nat \ {0}, Holds(lines, used, order, cnt)
  PROVE  /\ Len(used) <= n
         /\ Len(used) = n => \A l \in 1..n : lines[l].valid > 0
         /\ Len(used) < n => \E l \in 1..n : lines[l].valid = 0
<1>1. Len(used) \in Nat /\ DOMAIN lines = 1..n
  BY LenProperties
<1>2. order \in [1..Len(used) -> 1..n]
  BY <1>1 DEF Holds
<1>3. \A p \in 1..Len(used) : lines[order[p]].valid \in Nat /\ lines[order[p]].valid > 0
  BY <1>2 DEF Holds
<1>4. ASSUME NEW p \in 1..Len(used), NEW q \in 1..Len(used), order[p] = order[q] PROVE p = q
  <2>1. p < q => lines[order[q]].valid < lines[order[p]].valid
    BY DEF Holds
  <2>2. q < p => lines[order[p]].valid < lines[order[q]].valid
    BY DEF Holds
  <2>3. ~(p < q) /\ ~(q < p)
    BY <1>3, <1>4, <2>1, <2>2
  <2> QED
    BY <1>1, <2>3
<1>5. order \in Injection(1..Len(used), 1..n)
  BY <1>2, <1>4 DEF Injection, IsInjective
<1>6. /\ IsFiniteSet(1..n) /\ Cardinality(1..n) = n /\ Cardinality(1..Len(used)) = Len(used)
  <2>1. 1 \in Int /\ n \in Int /\ Len(used) \in Int
    BY <1>1
  <2>2. /\ IsFiniteSet(1..n) /\ Cardinality(1..n) = IF 1 > n THEN 0 ELSE n - 1 + 1
        /\ Cardinality(1..Len(used)) = IF 1 > Len(used) THEN 0 ELSE Len(used) - 1 + 1
    BY <2>1, FS_Interval
  <2> QED
    BY <1>1, <2>2
<1>7. /\ Cardinality(1..Len(used)) <= Cardinality(1..n)
      /\ Cardinality(1..Len(used)) = Cardinality(1..n) <=> order \in Surjection(1..Len(used), 1..n)
  BY <1>5, <1>6, FS_Injection
<1>8. Len(used) = n <=> \A l \in 1..n : \E p \in 1..Len(used) : order[p] = l
  BY <1>2, <1>6, <1>7 DEF Surjection
<1>9. \A l \in 1..n : lines[l].valid > 0 => \E p \in 1..Len(used) : order[p] = l
  BY <1>1 DEF Holds
<1>10. \A l \in 1..n : lines[l].valid \in Nat
  BY DEF Line
<1>11. Len(used) = n => \A l \in 1..n : lines[l].valid > 0
  BY <1>3, <1>8
<1>12. Len(used) < n => \E l \in 1..n : lines[l].valid = 0
  <2> SUFFICES ASSUME Len(used) < n PROVE \E l \in 1..n : lines[l].valid = 0
    OBVIOUS
  <2>1. Len(used) # n
    BY <1>1
  <2>2. PICK l \in 1..n : ~\E p \in 1..Len(used) : order[p] = l
    BY <1>8, <2>1
  <2>3. ~(lines[l].valid > 0) /\ lines[l].valid \in Nat
    BY <1>9, <1>10, <2>2
  <2> QED
    BY <2>3
<1> QED
  BY <1>1, <1>6, <1>7, <1>11, <1>12

(* Every address has a set and a tag.                                      *)
LEMMA Places ==
  ASSUME NEW c, c.set = SetBits, c.block = BlockBits, NEW addr \in Addresses
  PROVE  SetIndex(c, addr) \in Sets /\ Tag(c, addr) \in Nat
<1>1. addr \in Nat
  BY GeometryAssumption
<1>2. /\ 2^SetBits \in Nat \ {0} /\ 2^BlockBits \in Nat \ {0}
      /\ 2^(SetBits + BlockBits) \in Nat \ {0}
  BY GeometryAssumption
<1>3. addr \div 2^(SetBits + BlockBits) \in Nat
  BY <1>1, <1>2
<1>4. (addr \div 2^BlockBits) % 2^SetBits \in Sets
  BY <1>1, <1>2 DEF Sets
<1> QED
  BY <1>3, <1>4 DEF SetIndex, Tag

(* The simulator and the textbook's cache after the same trace.            *)
SimTypes(c, t) ==
  /\ c \in [set : {SetBits}, E : LinesPerSet, block : {BlockBits}, cnt : Nat \ {0}, hits : Nat,
            misses : Nat, evictions : Nat, caches : [Sets -> UNION {[1..n -> Line] : n \in LinesPerSet}]]
  /\ t \in [hits : Nat, misses : Nat, evictions : Nat, used : [Sets -> Seq(Nat)]]
  /\ \A i \in Sets : c.caches[i] \in [1..c.E -> Line]
SameCounts(c, t) == c.hits = t.hits /\ c.misses = t.misses /\ c.evictions = t.evictions
SameBlocks(c, t) ==
  \A i \in Sets : \E order \in [1..Len(t.used[i]) -> 1..c.E] :
    Holds(c.caches[i], t.used[i], order, c.cnt)
Same(c, t) == SimTypes(c, t) /\ SameCounts(c, t) /\ SameBlocks(c, t)

SimInv == Same(csim.sim, csim.ideal)

(* The order of a set that is left alone stays.                            *)
LEMMA HoldsLater ==
  ASSUME NEW lines, NEW used, NEW order, NEW cnt \in Nat, Holds(lines, used, order, cnt)
  PROVE  Holds(lines, used, order, cnt + 1)
<1>1. 1..(cnt - 1) \subseteq 1..((cnt + 1) - 1)
  OBVIOUS
<1> DEFINE ok(p, S) == lines[order[p]].tag = used[p] /\ lines[order[p]].valid \in S
<1>2. \A p \in 1..Len(used) : ok(p, 1..(cnt - 1))
  BY DEF Holds
<1> DEFINE A == 1..(cnt - 1)
           B == 1..((cnt + 1) - 1)
<1>3. \A p \in 1..Len(used) : ok(p, B)
  BY <1>1, <1>2, Zenon
<1> QED
  BY <1>3, Zenon DEF Holds

(* One set of both is renewed, and the clock moves on.                     *)
SimAfter(c, h, m, e, i, v, x) ==
  [c EXCEPT !.hits = h, !.misses = m, !.evictions = e, !.cnt = c.cnt + 1,
            !.caches = [c.caches EXCEPT ![i] =
                          [c.caches[i] EXCEPT ![v] = [valid |-> c.cnt, tag |-> x]]]]
IdealAfter(t, h, m, e, i, new) ==
  [hits |-> h, misses |-> m, evictions |-> e, used |-> [t.used EXCEPT ![i] = new]]

(* An access to one set leaves the other sets as they were.                *)
LEMMA Changed ==
  ASSUME NEW c, NEW t, Same(c, t), NEW i \in Sets, NEW v \in 1..c.E, NEW x \in Nat,
         NEW new \in Seq(Nat), NEW h \in Nat, NEW m \in Nat, NEW e \in Nat,
         \E o : Holds([c.caches[i] EXCEPT ![v] = [valid |-> c.cnt, tag |-> x]], new, o, c.cnt + 1)
  PROVE  Same(SimAfter(c, h, m, e, i, v, x), IdealAfter(t, h, m, e, i, new))
<1> DEFINE d == SimAfter(c, h, m, e, i, v, x)
           u == IdealAfter(t, h, m, e, i, new)
<1> DEFINE renewed == [c.caches[i] EXCEPT ![v] = [valid |-> c.cnt, tag |-> x]]
           n == c.E
<1>1. /\ n \in LinesPerSet /\ c.cnt \in Nat \ {0} /\ c.set = SetBits /\ c.block = BlockBits
      /\ c.caches[i] \in [1..n -> Line]
      /\ c.caches \in [Sets -> UNION {[1..k -> Line] : k \in LinesPerSet}]
      /\ t.used \in [Sets -> Seq(Nat)]
  BY DEF Same, SimTypes
<1>2. [valid |-> c.cnt, tag |-> x] \in Line
  BY <1>1 DEF Line
<1>3. renewed \in [1..n -> Line]
  BY <1>1, <1>2
<1> HIDE DEF renewed
<1>4. /\ d.hits = h /\ d.misses = m /\ d.evictions = e /\ d.cnt = c.cnt + 1
      /\ d.set = SetBits /\ d.block = BlockBits /\ d.E = n
      /\ d.caches = [c.caches EXCEPT ![i] = renewed]
      /\ d = [set |-> d.set, E |-> d.E, block |-> d.block, cnt |-> d.cnt, hits |-> d.hits,
              misses |-> d.misses, evictions |-> d.evictions, caches |-> d.caches]
  <2>1. c = [set |-> c.set, E |-> c.E, block |-> c.block, cnt |-> c.cnt, hits |-> c.hits,
             misses |-> c.misses, evictions |-> c.evictions, caches |-> c.caches]
    BY DEF Same, SimTypes
  <2> DEFINE all == [c.caches EXCEPT ![i] = renewed]
  <2>2. d = [c EXCEPT !.hits = h, !.misses = m, !.evictions = e, !.cnt = c.cnt + 1, !.caches = all]
    BY DEF SimAfter, renewed
  <2> HIDE DEF all, d
  <2>3. d = [set |-> c.set, E |-> c.E, block |-> c.block, cnt |-> c.cnt + 1, hits |-> h,
             misses |-> m, evictions |-> e, caches |-> all]
    BY <2>1, <2>2
  <2>4. /\ d.hits = h /\ d.misses = m /\ d.evictions = e /\ d.cnt = c.cnt + 1
        /\ d.set = c.set /\ d.block = c.block /\ d.E = c.E /\ d.caches = all
    BY <2>3
  <2> QED
    BY <1>1, <2>3, <2>4 DEF all
<1>5. /\ d.caches[i] = renewed /\ \A j \in Sets : j # i => d.caches[j] = c.caches[j]
      /\ d.caches \in [Sets -> UNION {[1..k -> Line] : k \in LinesPerSet}]
  <2> DEFINE AllLines == UNION {[1..k -> Line] : k \in LinesPerSet}
  <2>1. renewed \in AllLines
    BY <1>1, <1>3
  <2>2. c.caches \in [Sets -> AllLines]
    BY <1>1
  <2> HIDE DEF AllLines
  <2>3. /\ d.caches[i] = renewed /\ \A j \in Sets : j # i => d.caches[j] = c.caches[j]
        /\ d.caches \in [Sets -> AllLines]
    BY <1>4, <2>1, <2>2
  <2> QED
    BY <2>3 DEF AllLines
<1>6. /\ u.used[i] = new /\ \A j \in Sets : j # i => u.used[j] = t.used[j]
      /\ u.used \in [Sets -> Seq(Nat)]
      /\ u = [hits |-> h, misses |-> m, evictions |-> e, used |-> u.used]
  BY <1>1 DEF IdealAfter
<1> HIDE DEF n, d, u
<1>7. SimTypes(d, u)
  <2>1. \A j \in Sets : d.caches[j] \in [1..d.E -> Line]
    BY <1>3, <1>4, <1>5 DEF Same, SimTypes, n
  <2>2. u \in [hits : Nat, misses : Nat, evictions : Nat, used : [Sets -> Seq(Nat)]]
    BY <1>6
  <2>3. d.cnt \in Nat \ {0}
    BY <1>1, <1>4
  <2>4. d \in [set : {SetBits}, E : LinesPerSet, block : {BlockBits}, cnt : Nat \ {0}, hits : Nat,
               misses : Nat, evictions : Nat,
               caches : [Sets -> UNION {[1..k -> Line] : k \in LinesPerSet}]]
    BY <1>1, <1>4, <1>5, <2>3
  <2> QED
    BY <2>1, <2>2, <2>4 DEF SimTypes
<1>8. SameCounts(d, u)
  BY <1>4, <1>6 DEF SameCounts
<1>9. SameBlocks(d, u)
  <2> SUFFICES ASSUME NEW j \in Sets
               PROVE  \E order \in [1..Len(u.used[j]) -> 1..d.E] :
                        Holds(d.caches[j], u.used[j], order, d.cnt)
    BY DEF SameBlocks
  <2>1. CASE j = i
    <3>1. PICK o : Holds(renewed, new, o, c.cnt + 1)
      BY DEF renewed
    <3>2. DOMAIN renewed = 1..n
      BY <1>3
    <3>3. o \in [1..Len(new) -> 1..n]
      BY <3>1, <3>2 DEF Holds
    <3>4. u.used[j] = new /\ d.caches[j] = renewed /\ d.cnt = c.cnt + 1 /\ d.E = n
      BY <1>4, <1>5, <1>6, <2>1
    <3> QED
      BY <3>1, <3>3, <3>4
  <2>2. CASE j # i
    <3>1. PICK o \in [1..Len(t.used[j]) -> 1..n] : Holds(c.caches[j], t.used[j], o, c.cnt)
      BY DEF Same, SameBlocks, n
    <3>2. Holds(c.caches[j], t.used[j], o, c.cnt + 1)
      BY <1>1, <3>1, HoldsLater
    <3>3. u.used[j] = t.used[j] /\ d.caches[j] = c.caches[j] /\ d.cnt = c.cnt + 1 /\ d.E = n
      BY <1>4, <1>5, <1>6, <2>2
    <3> QED
      BY <3>1, <3>2, <3>3
  <2> QED
    BY <2>1, <2>2
<1> QED
  BY <1>7, <1>8, <1>9 DEF Same, d, u

(* A block is found by the simulator exactly when the textbook's cache has *)
(* it, and the line that a miss takes is the one used longest ago.         *)
LEMMA Finds ==
  ASSUME NEW c, NEW t, Same(c, t), NEW addr \in Addresses
  PROVE  Same(find_cache(c, addr), Touch(t, c, addr))
<1> DEFINE i == SetIndex(c, addr)
           x == Tag(c, addr)
           n == c.E
           lines == c.caches[i]
           used == t.used[i]
           cnt == c.cnt
<1>1. /\ n \in LinesPerSet /\ n \in Nat \ {0} /\ cnt \in Nat \ {0}
      /\ c.set = SetBits /\ c.block = BlockBits
      /\ c.hits \in Nat /\ c.misses \in Nat /\ c.evictions \in Nat
      /\ c.hits = t.hits /\ c.misses = t.misses /\ c.evictions = t.evictions
  BY GeometryAssumption DEF Same, SimTypes, SameCounts
<1>2. i \in Sets /\ x \in Nat
  BY <1>1, Places
<1> HIDE DEF i, x
<1>3. lines \in [1..n -> Line] /\ used \in Seq(Nat)
  BY <1>2 DEF Same, SimTypes
<1>4. PICK order \in [1..Len(used) -> 1..n] : Holds(lines, used, order, cnt)
  BY <1>2 DEF Same, SameBlocks
<1>5. /\ c = [set |-> c.set, E |-> c.E, block |-> c.block, cnt |-> c.cnt, hits |-> c.hits,
              misses |-> c.misses, evictions |-> c.evictions, caches |-> c.caches]
      /\ c.caches = [j \in Sets |-> c.caches[j]]
  BY DEF Same, SimTypes
<1>6. Len(used) \in Nat /\ DOMAIN used = 1..Len(used) /\ DOMAIN lines = 1..n
  BY <1>3, LenProperties
<1> DEFINE at == {p \in DOMAIN used : used[p] = x}
           found == {l \in DOMAIN lines : lines[l].valid > 0 /\ lines[l].tag = x}
           out == IF at # {} THEN CHOOSE p \in at : TRUE ELSE n
<1>7. Touch(t, c, addr) =
        [hits      |-> t.hits + (IF at # {} THEN 1 ELSE 0),
         misses    |-> t.misses + (IF at # {} THEN 0 ELSE 1),
         evictions |-> t.evictions + (IF ~(at # {}) /\ Len(used) = n THEN 1 ELSE 0),
         used      |-> [t.used EXCEPT ![i] = <<x>> \o
                          (IF out \in DOMAIN used THEN RemoveAt(used, out) ELSE used)]]
  BY Zenon DEF Touch, x, i
<1> HIDE DEF n, lines, used, cnt, out
<1>8. /\ n \in LinesPerSet /\ n \in Nat \ {0} /\ cnt \in Nat \ {0}
  BY <1>1 DEF n, cnt
<1>9. CASE at # {}
  <2> DEFINE k == CHOOSE p \in at : TRUE
             v == CHOOSE l \in found : TRUE
  <2>1. k \in 1..Len(used) /\ used[k] = x
    BY <1>6, <1>9
  <2>2. found = {order[k]}
    <3>1. order[k] \in 1..n /\ lines[order[k]].tag = x /\ lines[order[k]].valid > 0
      BY <1>4, <2>1 DEF Holds
    <3>2. \A l \in found : \E p \in 1..Len(used) : order[p] = l /\ used[p] = x
      <4> SUFFICES ASSUME NEW l \in found
                   PROVE  \E p \in 1..Len(used) : order[p] = l /\ used[p] = x
        OBVIOUS
      <4>1. l \in DOMAIN lines /\ lines[l].valid > 0 /\ lines[l].tag = x
        OBVIOUS
      <4>2. PICK p \in 1..Len(used) : order[p] = l
        BY <1>4, <4>1 DEF Holds
      <4>3. lines[order[p]].tag = used[p]
        BY <1>4 DEF Holds
      <4> QED
        BY <4>1, <4>2, <4>3
    <3>3. \A p \in 1..Len(used) : used[p] = x => p = k
      BY <1>4, <2>1 DEF Holds
    <3> QED
      BY <1>6, <3>1, <3>2, <3>3
  <2>3. v = order[k] /\ v \in 1..n /\ lines[v].tag = x
    BY <1>4, <2>1, <2>2 DEF Holds
  <2> DEFINE new == <<x>> \o (IF k \in DOMAIN used THEN RemoveAt(used, k) ELSE used)
  <2> HIDE DEF k, v
  <2>4. Renewed(used, k, x, new)
    <3>1. k \in Nat \ {0}
      BY <2>1
    <3> QED
      BY <1>2, <1>3, <3>1, Renews
  <2> HIDE DEF new
  <2>5. [lines EXCEPT ![v] = [valid |-> cnt, tag |-> x]] = [lines EXCEPT ![v].valid = cnt]
    BY <1>3, <2>3 DEF Line
  <2>6. \E o : Holds([lines EXCEPT ![v] = [valid |-> cnt, tag |-> x]], new, o, cnt + 1)
    <3>1. k \in Nat \ {0} /\ n \in Nat /\ k <= Len(used)
      BY <1>1, <1>6, <2>1
    <3>2. \A p \in 1..Len(used) : used[p] = x => p = k
      BY <1>4, <2>1 DEF Holds
    <3>3. k <= Len(used) => v = order[k]
      BY <2>3
    <3>4. k > Len(used) => lines[v].valid = 0
      BY <1>6, <3>1
    <3>5. /\ n \in Nat /\ lines \in [1..n -> Line] /\ used \in Seq(Nat) /\ cnt \in Nat \ {0}
          /\ Holds(lines, used, order, cnt) /\ x \in Nat /\ k \in Nat \ {0} /\ v \in 1..n
          /\ Renewed(used, k, x, new)
      BY <1>1, <1>2, <1>3, <1>4, <2>3, <2>4, <3>1 DEF cnt
    <3> QED
      BY <3>2, <3>3, <3>4, <3>5, Renewal
  <2>7. Touch(t, c, addr) = IdealAfter(t, c.hits + 1, c.misses, c.evictions, i, new)
    <3>1. out = k
      BY <1>9 DEF out, k
    <3>2. t.hits + (IF at # {} THEN 1 ELSE 0) = c.hits + 1
      BY <1>1, <1>9
    <3>3. t.misses + (IF at # {} THEN 0 ELSE 1) = c.misses
      BY <1>1, <1>9
    <3>4. t.evictions + (IF ~(at # {}) /\ Len(used) = n THEN 1 ELSE 0) = c.evictions
      BY <1>1, <1>9
    <3> HIDE DEF at
    <3> QED
      BY <1>7, <3>1, <3>2, <3>3, <3>4, Zenon DEF new, IdealAfter
  <2>8. find_cache(c, addr) = SimAfter(c, c.hits + 1, c.misses, c.evictions, i, v, x)
    <3>1. found # {}
      BY <2>2
    <3>2. find_cache(c, addr) = [c EXCEPT !.hits = @ + 1, !.cnt = @ + 1, !.caches[i][v].valid = c.cnt]
      BY <3>1 DEF find_cache, v, lines, x, i
    <3>3. [c.caches EXCEPT ![i][v].valid = c.cnt] =
          [c.caches EXCEPT ![i] = [c.caches[i] EXCEPT ![v] = [valid |-> c.cnt, tag |-> x]]]
      BY <1>2, <1>5, <2>5 DEF lines, cnt
    <3> QED
      BY <1>1, <1>5, <3>2, <3>3 DEF SimAfter
  <2>9. /\ Same(c, t) /\ i \in Sets /\ v \in 1..c.E /\ x \in Nat /\ new \in Seq(Nat)
        /\ c.hits + 1 \in Nat /\ c.misses \in Nat /\ c.evictions \in Nat
    BY <1>1, <1>2, <2>3, <2>4 DEF Renewed, n
  <2>10. \E o : Holds([c.caches[i] EXCEPT ![v] = [valid |-> c.cnt, tag |-> x]], new, o, c.cnt + 1)
    BY <2>6 DEF lines, cnt
  <2>11. Same(SimAfter(c, c.hits + 1, c.misses, c.evictions, i, v, x),
              IdealAfter(t, c.hits + 1, c.misses, c.evictions, i, new))
    BY <2>9, <2>10, Changed
  <2> QED
    BY <2>7, <2>8, <2>11, Zenon
<1>10. CASE at = {}
  <2> DEFINE v == Victim(lines)
             full == Len(used) = n
  <2>1. v \in 1..n /\ \A l \in 1..n : lines[v].valid <= lines[l].valid
    BY <1>1, <1>3, VictimLeast
  <2> HIDE DEF v
  <2>2. found = {}
    <3>1. \A l \in found : \E p \in 1..Len(used) : order[p] = l /\ used[p] = x
      <4> SUFFICES ASSUME NEW l \in found
                   PROVE  \E p \in 1..Len(used) : order[p] = l /\ used[p] = x
        OBVIOUS
      <4>1. l \in DOMAIN lines /\ lines[l].valid > 0 /\ lines[l].tag = x
        OBVIOUS
      <4>2. PICK p \in 1..Len(used) : order[p] = l
        BY <1>4, <4>1 DEF Holds
      <4>3. lines[order[p]].tag = used[p]
        BY <1>4 DEF Holds
      <4> QED
        BY <4>1, <4>2, <4>3
    <3> QED
      BY <1>6, <1>10, <3>1
  <2>3. /\ Len(used) <= n
        /\ Len(used) = n => \A l \in 1..n : lines[l].valid > 0
        /\ Len(used) < n => \E l \in 1..n : lines[l].valid = 0
    BY <1>1, <1>3, <1>4, FullOrNot
  <2>4. lines[v].valid \in Nat
    BY <1>3, <2>1 DEF Line
  <2>5. \A l \in 1..n : lines[l].valid \in Nat
    BY <1>3 DEF Line
  <2>6. Len(used) < n => lines[v].valid = 0
    BY <2>1, <2>3, <2>4, <2>5
  <2>7. (lines[v].valid > 0) <=> (Len(used) = n)
    <3>1. Len(used) = n => lines[v].valid > 0
      BY <2>1, <2>3
    <3>2. Len(used) # n => Len(used) < n
      BY <1>6, <1>8, <2>3
    <3>3. Len(used) # n => ~(lines[v].valid > 0)
      BY <2>6, <3>2
    <3> QED
      BY <3>1, <3>3
  <2>8. n <= Len(used) => v = order[n]
    <3> SUFFICES ASSUME n <= Len(used) PROVE v = order[n]
      OBVIOUS
    <3>1. Len(used) = n /\ n \in 1..n /\ lines[v].valid > 0
      <4>1. Len(used) = n
        <5>1. Len(used) \in Nat /\ n \in Nat /\ Len(used) <= n
          BY <1>6, <1>8, <2>3
        <5> QED
          BY <5>1
      <4> QED
        BY <1>8, <2>7, <4>1
    <3>2. PICK p \in 1..Len(used) : order[p] = v
      BY <1>4, <1>6, <2>1, <3>1 DEF Holds
    <3>3. p < n => lines[order[n]].valid < lines[order[p]].valid
      BY <1>4, <3>1, <3>2 DEF Holds
    <3>4. lines[order[p]].valid <= lines[order[n]].valid /\ order[n] \in 1..n
      BY <1>4, <2>1, <3>1, <3>2
    <3>5. ~(p < n)
      BY <2>5, <3>2, <3>3, <3>4, <2>1
    <3> QED
      BY <1>1, <3>1, <3>2, <3>5
  <2> DEFINE new == <<x>> \o (IF n \in DOMAIN used THEN RemoveAt(used, n) ELSE used)
  <2>9. Renewed(used, n, x, new)
    BY <1>1, <1>2, <1>3, Renews
  <2> HIDE DEF new
  <2>10. \E o : Holds([lines EXCEPT ![v] = [valid |-> cnt, tag |-> x]], new, o, cnt + 1)
    <3>1. \A p \in 1..Len(used) : used[p] = x => p = n
      BY <1>6, <1>10
    <3>2. n > Len(used) => lines[v].valid = 0
      BY <1>1, <1>6, <2>6
    <3>3. n \in Nat
      BY <1>1
    <3>4. /\ n \in Nat /\ lines \in [1..n -> Line] /\ used \in Seq(Nat) /\ cnt \in Nat \ {0}
          /\ Holds(lines, used, order, cnt) /\ x \in Nat /\ n \in Nat \ {0} /\ v \in 1..n
          /\ Renewed(used, n, x, new)
      BY <1>1, <1>2, <1>3, <1>4, <2>1, <2>9 DEF cnt
    <3> QED
      BY <2>8, <3>1, <3>2, <3>4, Renewal
  <2> DEFINE e == c.evictions + (IF Len(used) = n THEN 1 ELSE 0)
  <2>11. Touch(t, c, addr) = IdealAfter(t, c.hits, c.misses + 1, e, i, new)
    <3>1. out = n
      BY <1>10 DEF out
    <3>2. t.hits + (IF at # {} THEN 1 ELSE 0) = c.hits
      BY <1>1, <1>10
    <3>3. t.misses + (IF at # {} THEN 0 ELSE 1) = c.misses + 1
      BY <1>1, <1>10
    <3>4. t.evictions + (IF ~(at # {}) /\ Len(used) = n THEN 1 ELSE 0) = e
      BY <1>1, <1>10
    <3> HIDE DEF at, e
    <3> QED
      BY <1>7, <3>1, <3>2, <3>3, <3>4, Zenon DEF new, IdealAfter
  <2>12. find_cache(c, addr) = SimAfter(c, c.hits, c.misses + 1, e, i, v, x)
    <3>1. find_cache(c, addr) =
            [c EXCEPT !.misses = @ + 1, !.cnt = @ + 1,
                      !.evictions = @ + (IF lines[v].valid > 0 THEN 1 ELSE 0),
                      !.caches[i][v] = [valid |-> c.cnt, tag |-> x]]
      BY <2>2 DEF find_cache, v, lines, x, i
    <3>2. c.evictions + (IF lines[v].valid > 0 THEN 1 ELSE 0) = e
      BY <2>7
    <3>3. [c.caches EXCEPT ![i][v] = [valid |-> c.cnt, tag |-> x]] =
          [c.caches EXCEPT ![i] = [c.caches[i] EXCEPT ![v] = [valid |-> c.cnt, tag |-> x]]]
      BY <1>2, <1>5
    <3> QED
      BY <1>1, <1>5, <3>1, <3>2, <3>3 DEF SimAfter
  <2>13. e \in Nat /\ c.misses + 1 \in Nat
    BY <1>1
  <2> HIDE DEF e
  <2>14. /\ Same(c, t) /\ i \in Sets /\ v \in 1..c.E /\ x \in Nat /\ new \in Seq(Nat)
         /\ c.hits \in Nat
    BY <1>1, <1>2, <2>1, <2>9 DEF Renewed, n
  <2>15. \E o : Holds([c.caches[i] EXCEPT ![v] = [valid |-> c.cnt, tag |-> x]], new, o, c.cnt + 1)
    BY <2>10 DEF lines, cnt
  <2>16. Same(SimAfter(c, c.hits, c.misses + 1, e, i, v, x),
              IdealAfter(t, c.hits, c.misses + 1, e, i, new))
    BY <2>13, <2>14, <2>15, Changed
  <2> QED
    BY <2>11, <2>12, <2>16, Zenon
<1> QED
  BY <1>9, <1>10

(* A block that has just been used is the first of its set.                *)
LEMMA TouchedAgain ==
  ASSUME NEW c, NEW t, Same(c, t), NEW addr \in Addresses
  PROVE  LET u == Touch(t, c, addr)
         IN  Touch(u, c, addr) = [u EXCEPT !.hits = u.hits + 1]
<1> DEFINE i == SetIndex(c, addr)
           x == Tag(c, addr)
           n == c.E
           u == Touch(t, c, addr)
           new == u.used[i]
<1>1. /\ c.set = SetBits /\ c.block = BlockBits /\ Same(find_cache(c, addr), u)
  BY Finds DEF Same, SimTypes
<1>2. i \in Sets /\ x \in Nat
  BY <1>1, Places
<1> HIDE DEF i, x
<1>3. /\ u \in [hits : Nat, misses : Nat, evictions : Nat, used : [Sets -> Seq(Nat)]]
      /\ \A p, q \in 1..Len(new) : new[p] = new[q] => p = q
  BY <1>1, <1>2 DEF Same, SimTypes, SameBlocks, Holds
<1>4. new \in Seq(Nat) /\ Len(new) \in Nat /\ DOMAIN new = 1..Len(new)
  BY <1>2, <1>3, LenProperties
<1>5. new[1] = x /\ Len(new) >= 1
  <2> DEFINE used == t.used[i]
             at == {p \in DOMAIN used : used[p] = x}
             out == IF at # {} THEN CHOOSE p \in at : TRUE ELSE n
             got == <<x>> \o (IF out \in DOMAIN used THEN RemoveAt(used, out) ELSE used)
  <2>1. u.used = [t.used EXCEPT ![i] = got]
    BY Zenon DEF Touch, x, i
  <2>2. used \in Seq(Nat) /\ t.used \in [Sets -> Seq(Nat)] /\ n \in Nat \ {0}
    BY <1>2, GeometryAssumption DEF Same, SimTypes
  <2>3. Len(used) \in Nat /\ DOMAIN used = 1..Len(used)
    BY <2>2, LenProperties
  <2>4. out \in Nat \ {0}
    BY <2>2, <2>3
  <2> HIDE DEF out, used
  <2>5. Renewed(used, out, x, got)
    BY <1>2, <2>2, <2>4, Renews DEF used
  <2> HIDE DEF got
  <2>6. u.used[i] = got
    BY <1>2, <2>1, <2>2
  <2>7. Len(got) >= 1
    <3>1. CASE out <= Len(used)
      BY <2>3, <2>4, <2>5, <3>1 DEF Renewed
    <3>2. CASE ~(out <= Len(used))
      BY <2>3, <2>4, <2>5, <3>2 DEF Renewed
    <3> QED
      BY <3>1, <3>2
  <2> QED
    BY <2>5, <2>6, <2>7 DEF Renewed
<1> HIDE DEF u, new
<1> DEFINE at == {p \in DOMAIN new : new[p] = x}
           out == IF at # {} THEN CHOOSE p \in at : TRUE ELSE n
<1>6. at = {1}
  BY <1>3, <1>4, <1>5
<1>7. out = 1 /\ out \in DOMAIN new
  BY <1>4, <1>5, <1>6
<1>8. Touch(u, c, addr) =
        [hits      |-> u.hits + (IF at # {} THEN 1 ELSE 0),
         misses    |-> u.misses + (IF at # {} THEN 0 ELSE 1),
         evictions |-> u.evictions + (IF ~(at # {}) /\ Len(new) = n THEN 1 ELSE 0),
         used      |-> [u.used EXCEPT ![i] = <<x>> \o
                          (IF out \in DOMAIN new THEN RemoveAt(new, out) ELSE new)]]
  BY Zenon DEF Touch, x, i, new
<1> DEFINE got == <<x>> \o (IF out \in DOMAIN new THEN RemoveAt(new, out) ELSE new)
<1>9. got = new
  <2>1. Renewed(new, 1, x, <<x>> \o (IF 1 \in DOMAIN new THEN RemoveAt(new, 1) ELSE new))
    BY <1>2, <1>4, Renews
  <2>2. Renewed(new, 1, x, got)
    BY <1>7, <2>1
  <2> HIDE DEF got, out, at
  <2>3. got \in Seq(Nat) /\ Len(got) = Len(new)
    BY <1>4, <1>5, <2>2 DEF Renewed
  <2>4. \A p \in 1..Len(new) : got[p] = new[p]
    <3> SUFFICES ASSUME NEW p \in 1..Len(new) PROVE got[p] = new[p]
      OBVIOUS
    <3>1. CASE p = 1
      BY <1>5, <2>2, <3>1 DEF Renewed
    <3>2. CASE p # 1
      <4>1. p \in 2..Len(got) /\ ~(p <= 1)
        BY <1>4, <2>3, <3>2
      <4> QED
        BY <2>2, <4>1 DEF Renewed
    <3> QED
      BY <3>1, <3>2
  <2> QED
    BY <1>4, <2>3, <2>4, SeqEqual
<1>10. [u.used EXCEPT ![i] = new] = u.used
  BY <1>2, <1>3 DEF new
<1>11. /\ u.hits + (IF at # {} THEN 1 ELSE 0) = u.hits + 1
       /\ u.misses + (IF at # {} THEN 0 ELSE 1) = u.misses
       /\ u.evictions + (IF ~(at # {}) /\ Len(new) = n THEN 1 ELSE 0) = u.evictions
  <2>1. at # {}
    BY <1>6
  <2>2. u.hits \in Nat /\ u.misses \in Nat /\ u.evictions \in Nat
    BY <1>3
  <2> HIDE DEF at
  <2> QED
    BY <2>1, <2>2
<1> HIDE DEF at, out
<1>12. Touch(u, c, addr) = [hits |-> u.hits + 1, misses |-> u.misses, evictions |-> u.evictions,
                            used |-> u.used]
  BY <1>8, <1>9, <1>10, <1>11, Zenon
<1>13. Touch(u, c, addr) = [u EXCEPT !.hits = u.hits + 1]
  BY <1>3, <1>12
<1> QED
  BY <1>13 DEF u

(* Both caches start empty.                                                *)
LEMMA SimInit == ASSUME NEW n \in LinesPerSet, CsimStart(n) PROVE SimInv
<1> DEFINE c == init_cache(SetBits, n, BlockBits)
           t == NoBlocks(SetBits)
<1>1. n \in Nat \ {0}
  BY GeometryAssumption
<1>2. \A i \in Sets : c.caches[i] \in [1..c.E -> Line]
  BY DEF init_cache, Sets, Line
<1>3. c.caches \in [Sets -> UNION {[1..k -> Line] : k \in LinesPerSet}]
  BY DEF init_cache, Sets, Line
<1>4. SimTypes(c, t)
  BY <1>1, <1>2, <1>3 DEF SimTypes, init_cache, NoBlocks, Sets
<1>5. SameCounts(c, t)
  BY DEF SameCounts, init_cache, NoBlocks
<1>6. ASSUME NEW i \in Sets
      PROVE  \E order \in [1..Len(t.used[i]) -> 1..c.E] : Holds(c.caches[i], t.used[i], order, c.cnt)
  <2>1. t.used[i] = <<>> /\ Len(t.used[i]) = 0 /\ c.E = n
    BY DEF NoBlocks, Sets, init_cache
  <2>2. \A l \in DOMAIN c.caches[i] : ~(c.caches[i][l].valid > 0)
    BY DEF init_cache, Sets
  <2> DEFINE o == [p \in 1..0 |-> 1]
  <2>3. o \in [1..0 -> 1..n] /\ o \in [1..0 -> DOMAIN c.caches[i]] /\ \A p \in 1..0 : FALSE
    BY <1>1
  <2> HIDE DEF o, c, t
  <2>4. Holds(c.caches[i], t.used[i], o, c.cnt)
    BY <2>1, <2>2, <2>3 DEF Holds
  <2> QED
    BY <2>1, <2>3, <2>4
<1>7. SameBlocks(c, t)
  BY <1>6 DEF SameBlocks
<1>8. csim.sim = c /\ csim.ideal = t
  BY DEF CsimStart
<1> QED
  BY <1>4, <1>5, <1>7, <1>8 DEF SimInv, Same

(* An access does the same to both.                                        *)
LEMMA SimStep == ASSUME SimInv, read_from_file PROVE SimInv'
<1>1. PICK op \in {"I", "L", "S", "M"}, addr \in Addresses :
        csim' = [sim   |-> simulate(csim.sim, op, addr),
                 ideal |-> Textbook(csim.ideal, csim.sim, op, addr),
                 read  |-> csim.read + 1]
  BY DEF read_from_file
<1> DEFINE c == csim.sim
           t == csim.ideal
<1>2. Same(c, t)
  BY DEF SimInv
<1>3. csim'.sim = simulate(c, op, addr) /\ csim'.ideal = Textbook(t, c, op, addr)
  BY <1>1
<1> HIDE DEF c, t
<1>4. Same(simulate(c, op, addr), Textbook(t, c, op, addr))
  <2>1. CASE op = "I"
    BY <1>2, <2>1 DEF simulate, Textbook
  <2>2. CASE op \in {"L", "S"}
    BY <1>2, <2>2, Finds DEF simulate, Textbook
  <2>3. CASE op = "M"
    <3> DEFINE d == find_cache(c, addr)
               u == Touch(t, c, addr)
    <3>1. Same(d, u)
      BY <1>2, Finds
    <3>2. Touch(u, c, addr) = [u EXCEPT !.hits = u.hits + 1]
      BY <1>2, TouchedAgain
    <3>3. simulate(c, op, addr) = [d EXCEPT !.hits = d.hits + 1]
      BY <2>3 DEF simulate
    <3>4. Textbook(t, c, op, addr) = [u EXCEPT !.hits = u.hits + 1]
      BY <2>3, <3>2 DEF Textbook
    <3> HIDE DEF d, u
    <3>5. Same([d EXCEPT !.hits = d.hits + 1], [u EXCEPT !.hits = u.hits + 1])
      <4>1. SimTypes([d EXCEPT !.hits = d.hits + 1], [u EXCEPT !.hits = u.hits + 1])
        <5>1. d.hits \in Nat /\ u.hits \in Nat
          BY <3>1 DEF Same, SimTypes
        <5> DEFINE D == [set : {SetBits}, E : LinesPerSet, block : {BlockBits}, cnt : Nat \ {0},
                         hits : Nat, misses : Nat, evictions : Nat,
                         caches : [Sets -> UNION {[1..n -> Line] : n \in LinesPerSet}]]
        <5>2. d \in D
          BY <3>1 DEF Same, SimTypes
        <5>3. [d EXCEPT !.hits = d.hits + 1] \in D
          BY <5>1, <5>2
        <5>4. [u EXCEPT !.hits = u.hits + 1]
                \in [hits : Nat, misses : Nat, evictions : Nat, used : [Sets -> Seq(Nat)]]
          <6>1. u \in [hits : Nat, misses : Nat, evictions : Nat, used : [Sets -> Seq(Nat)]]
            BY <3>1 DEF Same, SimTypes
          <6> QED
            BY <5>1, <6>1
        <5>5. /\ [d EXCEPT !.hits = d.hits + 1].caches = d.caches
              /\ [d EXCEPT !.hits = d.hits + 1].E = d.E
          BY <5>2
        <5> HIDE DEF D
        <5> QED
          BY <3>1, <5>3, <5>4, <5>5 DEF Same, SimTypes, D
      <4>2. SameCounts([d EXCEPT !.hits = d.hits + 1], [u EXCEPT !.hits = u.hits + 1])
        BY <3>1 DEF Same, SimTypes, SameCounts
      <4>3. SameBlocks([d EXCEPT !.hits = d.hits + 1], [u EXCEPT !.hits = u.hits + 1])
        BY <3>1 DEF Same, SimTypes, SameBlocks
      <4> QED
        BY <4>1, <4>2, <4>3 DEF Same
    <3> QED
      BY <3>3, <3>4, <3>5
  <2> QED
    BY <2>1, <2>2, <2>3
<1> QED
  BY <1>3, <1>4 DEF SimInv

(* Whatever the geometry and the trace, the simulator counts the hits, the *)
(* misses and the evictions of the textbook's cache.                       *)
THEOREM SimulatorRight == Spec => []SimulatorExact
<1>1. Init => SimInv
  <2> SUFFICES ASSUME Init PROVE SimInv
    OBVIOUS
  <2>1. PICK n \in Inputs("csim", LinesPerSet, CHOOSE k \in LinesPerSet : TRUE) : CsimStart(n)
    BY DEF Init
  <2>2. n \in LinesPerSet
    BY <2>1, GeometryAssumption DEF Inputs
  <2> QED
    BY <2>1, <2>2, SimInit
<1>2. SimInv /\ [Next]_vars => SimInv'
  <2> SUFFICES ASSUME SimInv, [Next]_vars PROVE SimInv'
    OBVIOUS
  <2>1. read_from_file \/ UNCHANGED csim
    BY DEF Next, vars
  <2>2. UNCHANGED csim => SimInv'
    BY DEF SimInv
  <2> QED
    BY <2>1, <2>2, SimStep
<1>3. SimInv => SimulatorExact
  BY DEF SimInv, Same, SameCounts, SimulatorExact
<1> QED
  BY <1>1, <1>2, <1>3, PTL DEF Spec

(***************************************************************************)
(* The reference queue.                                                    *)
(***************************************************************************)
Node == [id : Names \cup {""}, len : Nat, next : Nat, prev : Nat]

(* The places of the list, from head to tail and back.                     *)
Linked(q) ==
  /\ q \in Seq(Nodes)
  /\ \A i, j \in 1..Len(q) : q[i] = q[j] => i = j
  /\ head = IF Len(q) = 0 THEN NULL ELSE q[1]
  /\ tail = IF Len(q) = 0 THEN NULL ELSE q[Len(q)]
  /\ \A i \in 1..Len(q) : /\ node[q[i]].next = IF i = Len(q) THEN NULL ELSE q[i + 1]
                          /\ node[q[i]].prev = IF i = 1 THEN NULL ELSE q[i - 1]

(* What they hold, and that nothing else is allocated.                     *)
Filled(q) ==
  /\ content \in Seq(Names \X Lens) /\ Len(content) = Len(q)
  /\ \A i \in 1..Len(q) : node[q[i]].id = content[i][1] /\ node[q[i]].len = content[i][2]
  /\ \A a \in Nodes : node[a] # Freed => \E i \in 1..Len(q) : q[i] = a

QueueInv == node \in [Nodes -> Node] /\ \E q \in Seq(Nodes) : Linked(q) /\ Filled(q)

(* A list has no more places than there are nodes.                         *)
LEMMA ListFits ==
  ASSUME NEW q, Linked(q)
  PROVE  Len(q) \in Nat /\ Cardinality(Nodes) \in Nat /\ Len(q) <= Cardinality(Nodes)
<1>1. q \in Seq(Nodes) /\ Len(q) \in Nat /\ q \in [1..Len(q) -> Nodes]
  BY LenProperties DEF Linked
<1>2. q \in Injection(1..Len(q), Nodes)
  BY <1>1 DEF Linked, Injection, IsInjective
<1>3. IsFiniteSet(Nodes) /\ Cardinality(Nodes) \in Nat
  BY QueueAssumption, FS_CardinalityType
<1>4. Cardinality(1..Len(q)) <= Cardinality(Nodes)
  BY <1>2, <1>3, FS_Injection
<1>5. Cardinality(1..Len(q)) = IF 1 > Len(q) THEN 0 ELSE Len(q) - 1 + 1
  BY <1>1, FS_Interval
<1> QED
  BY <1>1, <1>3, <1>4, <1>5

(* The first places of a list, one by one.                                 *)
LEMMA FirstPlaces ==
  ASSUME NEW q \in Seq(Nodes), NEW m \in 0..Len(q)
  PROVE  /\ SubSeq(q, 1, m) \in Seq(Nodes) /\ Len(SubSeq(q, 1, m)) = m
         /\ \A i \in 1..m : SubSeq(q, 1, m)[i] = q[i]
<1>1. Len(q) \in Nat /\ \A i \in 1..Len(q) : q[i] \in Nodes
  BY ElementOfSeq, LenProperties
<1>2. /\ SubSeq(q, 1, m) \in Seq(Nodes) /\ Len(SubSeq(q, 1, m)) = IF 1 <= m THEN m - 1 + 1 ELSE 0
      /\ \A i \in 1..(m - 1 + 1) : SubSeq(q, 1, m)[i] = q[1 + i - 1]
  BY <1>1, SubSeqProperties
<1>3. /\ (IF 1 <= m THEN m - 1 + 1 ELSE 0) = m /\ m - 1 + 1 = m
      /\ \A i \in 1..m : 1 + i - 1 = i
  BY <1>1
<1> QED
  BY <1>2, <1>3

(* A prefix and the entry after it are the next prefix.                    *)
LEMMA PrefixGrows ==
  ASSUME NEW q \in Seq(Nodes), NEW m \in 0..(Len(q) - 1)
  PROVE  Append(SubSeq(q, 1, m), q[m + 1]) = SubSeq(q, 1, m + 1)
<1>1. Len(q) \in Nat /\ \A i \in 1..Len(q) : q[i] \in Nodes
  BY ElementOfSeq, LenProperties
<1> DEFINE a == SubSeq(q, 1, m)
           b == SubSeq(q, 1, m + 1)
<1>2. a \in Seq(Nodes) /\ Len(a) = m /\ \A i \in 1..m : a[i] = q[i]
  <2>1. m \in 0..Len(q)
    BY <1>1
  <2> QED
    BY <2>1, FirstPlaces
<1>3. b \in Seq(Nodes) /\ Len(b) = m + 1 /\ \A i \in 1..(m + 1) : b[i] = q[i]
  <2>1. m + 1 \in 0..Len(q)
    BY <1>1
  <2> QED
    BY <2>1, FirstPlaces
<1> HIDE DEF a, b
<1>4. q[m + 1] \in Nodes
  BY <1>1
<1> DEFINE c == Append(a, q[m + 1])
<1>5. /\ c \in Seq(Nodes) /\ Len(c) = m + 1 /\ \A i \in 1..m : c[i] = a[i]
      /\ c[m + 1] = q[m + 1]
  BY <1>2, <1>4, AppendProperties
<1> HIDE DEF c
<1>6. \A i \in 1..(m + 1) : c[i] = b[i]
  <2>1. \A i \in 1..(m + 1) : i \in 1..m \/ i = m + 1
    BY <1>1
  <2> QED
    BY <1>2, <1>3, <1>5, <2>1
<1>7. c = b
  BY <1>3, <1>5, <1>6, SeqEqual
<1> QED
  BY <1>7 DEF a, b, c

(* Walking the next pointers from head gives the list.                     *)
LEMMA ChainIs == ASSUME NEW q, Linked(q) PROVE Chain = q
<1> DEFINE most == Cardinality(Nodes)
           body(f, n) == IF n = 0 THEN IF head = NULL THEN <<>> ELSE <<head>>
                         ELSE IF f[n - 1] = <<>> \/ node[Last(f[n - 1])].next = NULL THEN f[n - 1]
                              ELSE Append(f[n - 1], node[Last(f[n - 1])].next)
           upto(n) == IF n + 1 <= Len(q) THEN n + 1 ELSE Len(q)
           W == [n \in 0..most |-> SubSeq(q, 1, upto(n))]
<1>1. Len(q) \in Nat /\ most \in Nat /\ Len(q) <= most
  BY ListFits
<1>2. q \in Seq(Nodes) /\ \A i \in 1..Len(q) : q[i] \in Nodes /\ q[i] # NULL
  BY ElementOfSeq, QueueAssumption DEF Linked, NULL
<1> HIDE DEF most
<1>3. \A n \in 0..most : upto(n) \in 0..Len(q)
  BY <1>1
<1>4. ASSUME NEW n \in 0..most PROVE W[n] = body(W, n)
  <2>1. W[n] = SubSeq(q, 1, upto(n))
    OBVIOUS
  <2>2. CASE n = 0
    <3>1. CASE Len(q) = 0
      <4>1. upto(n) = 0 /\ head = NULL
        BY <2>2, <3>1 DEF Linked
      <4>2. SubSeq(q, 1, 0) = <<>>
        BY <1>1, <1>2, FirstPlaces, EmptySeq
      <4> QED
        BY <2>1, <2>2, <4>1, <4>2
    <3>2. CASE Len(q) # 0
      <4>1. upto(n) = 1 /\ head = q[1] /\ q[1] \in Nodes /\ q[1] # NULL
        BY <1>1, <1>2, <2>2, <3>2 DEF Linked
      <4>2. SubSeq(q, 1, 1) = <<q[1]>>
        <5>1. /\ SubSeq(q, 1, 1) \in Seq(Nodes) /\ Len(SubSeq(q, 1, 1)) = 1
              /\ SubSeq(q, 1, 1)[1] = q[1]
          BY <1>1, <1>2, <3>2, FirstPlaces
        <5>2. <<q[1]>> \in Seq(Nodes) /\ Len(<<q[1]>>) = 1 /\ <<q[1]>>[1] = q[1]
          BY <4>1
        <5>3. \A i \in 1..1 : i = 1
          OBVIOUS
        <5> QED
          BY <5>1, <5>2, <5>3, SeqEqual
      <4> QED
        BY <2>1, <2>2, <4>1, <4>2
    <3> QED
      BY <3>1, <3>2
  <2>3. CASE n # 0
    <3> DEFINE m == upto(n - 1)
               s == SubSeq(q, 1, m)
    <3>1. n - 1 \in 0..most /\ W[n - 1] = s
      BY <1>1, <2>3
    <3>2. m \in 0..Len(q) /\ (m = 0 => Len(q) = 0) /\ upto(n) = IF m < Len(q) THEN m + 1 ELSE m
      BY <1>1, <2>3
    <3> HIDE DEF m
    <3>3. s \in Seq(Nodes) /\ Len(s) = m /\ \A i \in 1..m : s[i] = q[i]
      BY <1>2, <3>2, FirstPlaces
    <3> HIDE DEF s
    <3>4. CASE Len(q) = 0
      <4>1. s = <<>> /\ upto(n) = m
        BY <1>1, <3>2, <3>3, <3>4, EmptySeq
      <4>2. W[n] = s
        BY <2>1, <4>1 DEF s
      <4> HIDE DEF W
      <4> QED
        BY <2>3, <3>1, <4>1, <4>2
    <3>5. CASE Len(q) # 0
      <4>1. m \in 1..Len(q) /\ s # <<>> /\ Last(s) = q[m]
        BY <1>1, <3>2, <3>3, <3>5, EmptySeq DEF Last
      <4>2. node[Last(s)].next = IF m = Len(q) THEN NULL ELSE q[m + 1]
        BY <4>1 DEF Linked
      <4>3. CASE m = Len(q)
        <5>1. W[n] = s /\ node[Last(s)].next = NULL
          BY <2>1, <3>2, <4>2, <4>3 DEF s
        <5> HIDE DEF W
        <5> QED
          BY <2>3, <3>1, <5>1
      <4>4. CASE m # Len(q)
        <5>1. m < Len(q) /\ m \in 0..(Len(q) - 1) /\ q[m + 1] # NULL /\ upto(n) = m + 1
          BY <1>1, <1>2, <3>2, <4>1, <4>4
        <5>2. Append(s, q[m + 1]) = SubSeq(q, 1, m + 1)
          BY <1>2, <5>1, PrefixGrows DEF s
        <5>3. W[n] = Append(s, node[Last(s)].next) /\ node[Last(s)].next # NULL
          BY <2>1, <4>2, <4>4, <5>1, <5>2
        <5> HIDE DEF W
        <5> QED
          BY <2>3, <3>1, <4>1, <5>3
      <4> QED
        BY <4>3, <4>4
    <3> QED
      BY <3>4, <3>5
  <2> QED
    BY <2>2, <2>3
<1> DEFINE after == CHOOSE f : f = [n \in 0..most |-> body(f, n)]
<1>5. W = [n \in 0..most |-> body(W, n)]
  <2>1. W = [n \in 0..most |-> W[n]]
    OBVIOUS
  <2> HIDE DEF W
  <2> QED
    BY <1>4, <2>1
<1>6. after = [n \in 0..most |-> body(after, n)]
  <2> HIDE DEF W, body
  <2> QED
    BY <1>5
<1> HIDE DEF after
<1>7. \A n \in 0..most : after[n] = W[n]
  <2> DEFINE Bad == {n \in 0..most : after[n] # W[n]}
  <2> SUFFICES ASSUME Bad # {} PROVE FALSE
    OBVIOUS
  <2>1. Bad \subseteq Nat
    BY <1>1
  <2> HIDE DEF Bad
  <2>2. PICK n \in Bad : \A k \in Bad : n <= k
    BY <2>1, LeastNat
  <2> USE DEF Bad
  <2>3. n \in 0..most /\ after[n] # W[n]
    BY <2>2
  <2> HIDE DEF W
  <2>4. after[n] = body(after, n) /\ W[n] = body(W, n)
    BY <1>4, <1>6, <2>3
  <2>5. CASE n = 0
    BY <2>3, <2>4, <2>5
  <2>6. CASE n # 0
    <3>1. n - 1 \in 0..most /\ ~(n <= n - 1)
      BY <1>1, <2>3, <2>6
    <3>2. after[n - 1] = W[n - 1]
      BY <2>2, <3>1
    <3> QED
      BY <2>3, <2>4, <3>2
  <2> QED
    BY <2>5, <2>6
<1>8. W[most] = q
  <2>1. W[most] = SubSeq(q, 1, Len(q))
    BY <1>1
  <2>2. /\ SubSeq(q, 1, Len(q)) \in Seq(Nodes) /\ Len(SubSeq(q, 1, Len(q))) = Len(q)
        /\ \A i \in 1..Len(q) : SubSeq(q, 1, Len(q))[i] = q[i]
    BY <1>1, <1>2, FirstPlaces
  <2> QED
    BY <1>2, <2>1, <2>2, SeqEqual
<1>9. Chain = after[most]
  BY DEF Chain, after, most
<1>10. most \in 0..most
  BY <1>1
<1> HIDE DEF W
<1> QED
  BY <1>7, <1>8, <1>9, <1>10

(* The list starts empty.                                                  *)
LEMMA QueueStart == ASSUME init_queue PROVE QueueInv
<1>1. node \in [Nodes -> Node]
  BY DEF init_queue, Node, Freed, NULL
<1>2. <<>> \in Seq(Nodes) /\ Len(<<>>) = 0 /\ <<>> \in Seq(Names \X Lens)
  BY EmptySeq
<1>3. Linked(<<>>)
  BY <1>2 DEF Linked, init_queue
<1>4. Filled(<<>>)
  BY <1>2 DEF Filled, init_queue
<1> QED
  BY <1>1, <1>2, <1>3, <1>4 DEF QueueInv

(* A node goes in at the tail.                                             *)
LEMMA EnqueueInv == ASSUME QueueInv, enqueue PROVE QueueInv'
<1>1. PICK q \in Seq(Nodes) : Linked(q) /\ Filled(q)
  BY DEF QueueInv
<1>2. PICK a \in Nodes, id \in Names, size \in Lens :
        /\ node[a] = Freed /\ tail' = a
        /\ IF head = NULL
           THEN /\ head' = a
                /\ node' = [node EXCEPT ![a] = [id |-> id, len |-> size, next |-> NULL, prev |-> NULL]]
           ELSE /\ node' = [node EXCEPT ![tail].next = a,
                                        ![a] = [id |-> id, len |-> size, next |-> NULL, prev |-> tail]]
                /\ UNCHANGED head
        /\ content' = Append(content, <<id, size>>)
  BY DEF enqueue
<1>3. Len(q) \in Nat /\ \A i \in 1..Len(q) : q[i] \in Nodes /\ q[i] \in Nat /\ q[i] # NULL
  BY ElementOfSeq, LenProperties, QueueAssumption DEF NULL
<1>4. a \in Nat /\ a # NULL /\ size \in Nat \ {0} /\ node \in [Nodes -> Node]
  BY QueueAssumption DEF QueueInv, NULL
<1> DEFINE r == Append(q, a)
           n == Len(q)
           was == IF n = 0 THEN NULL ELSE q[n]
           added == [id |-> id, len |-> size, next |-> NULL, prev |-> was]
<1>5. /\ r \in Seq(Nodes) /\ Len(r) = n + 1 /\ \A i \in 1..n : r[i] = q[i]
      /\ r[n + 1] = a
  BY AppendProperties
<1> HIDE DEF r
<1>6. \A i \in 1..n : q[i] # a
  <2> SUFFICES ASSUME NEW i \in 1..n, q[i] = a PROVE FALSE
    OBVIOUS
  <2>1. node[a].len = content[i][2] /\ content[i] \in Names \X Lens
    BY <1>1, ElementOfSeq DEF Filled
  <2>2. \A e \in Names \X Lens : e[2] \in Lens
    OBVIOUS
  <2>3. node[a].len = 0
    <3>1. node[a] = Freed
      BY <1>2
    <3>2. Freed.len = 0
      BY DEF Freed
    <3> QED
      BY <3>1, <3>2
  <2> QED
    BY <2>1, <2>2, <2>3, QueueAssumption
<1>7. added \in Node
  <2>1. was \in Nat /\ NULL \in Nat /\ size \in Nat
    BY <1>3, <1>4 DEF NULL
  <2> HIDE DEF was
  <2> QED
    BY <2>1 DEF Node
<1> HIDE DEF added
<1>8. head = (IF n = 0 THEN NULL ELSE q[1]) /\ tail = was
  BY <1>1 DEF Linked
<1>9. /\ node' \in [Nodes -> Node] /\ node'[a] = added
      /\ n > 0 => node'[q[n]] = [node[q[n]] EXCEPT !.next = a]
      /\ \A b \in Nodes : b # a /\ (n > 0 => b # q[n]) => node'[b] = node[b]
      /\ head' = IF n = 0 THEN a ELSE q[1]
  <2>1. CASE n = 0
    <3>1. head = NULL /\ was = NULL
      BY <1>8, <2>1
    <3>2. node' = [node EXCEPT ![a] = added] /\ head' = a
      BY <1>2, <3>1 DEF added
    <3> HIDE DEF was
    <3> QED
      BY <1>4, <1>7, <2>1, <3>2
  <2>2. CASE n # 0
    <3>1. n \in 1..n /\ 1 \in 1..n /\ n > 0
      BY <1>3, <2>2
    <3>2. head = q[1] /\ head # NULL /\ tail = q[n] /\ was = q[n] /\ q[n] \in Nodes /\ q[n] # a
      BY <1>3, <1>6, <1>8, <2>2, <3>1
    <3> DEFINE first == [node EXCEPT ![q[n]].next = a]
    <3>3. node' = [first EXCEPT ![a] = added] /\ head' = q[1]
      BY <1>2, <3>2 DEF added
    <3>4. /\ first \in [Nodes -> Node] /\ first[q[n]] = [node[q[n]] EXCEPT !.next = a]
          /\ \A b \in Nodes : b # q[n] => first[b] = node[b]
      <4>1. node[q[n]] \in Node
        BY <1>4, <3>2
      <4>2. [node[q[n]] EXCEPT !.next = a] \in Node
        BY <1>4, <4>1 DEF Node
      <4> QED
        BY <1>4, <3>2, <4>2
    <3> HIDE DEF first, was
    <3>5. /\ node' \in [Nodes -> Node] /\ node'[a] = added
          /\ \A b \in Nodes : b # a => node'[b] = first[b]
      BY <1>7, <3>3, <3>4
    <3> QED
      BY <2>2, <3>1, <3>2, <3>3, <3>4, <3>5
  <2> QED
    BY <2>1, <2>2
<1>10. added.id = id /\ added.len = size /\ added.next = NULL /\ added.prev = was
  BY DEF added
<1>11. \A i \in 1..n : /\ node'[q[i]].id = node[q[i]].id /\ node'[q[i]].len = node[q[i]].len
                       /\ node'[q[i]].prev = node[q[i]].prev
                       /\ node'[q[i]].next = IF i = n THEN a ELSE node[q[i]].next
  <2> SUFFICES ASSUME NEW i \in 1..n
               PROVE  /\ node'[q[i]].id = node[q[i]].id /\ node'[q[i]].len = node[q[i]].len
                      /\ node'[q[i]].prev = node[q[i]].prev
                      /\ node'[q[i]].next = IF i = n THEN a ELSE node[q[i]].next
    OBVIOUS
  <2>1. CASE i = n
    <3>1. node'[q[n]] = [node[q[n]] EXCEPT !.next = a] /\ node[q[n]] \in Node
      BY <1>3, <1>4, <1>9, <2>1
    <3> QED
      BY <2>1, <3>1 DEF Node
  <2>2. CASE i # n
    <3>1. n \in 1..n /\ q[i] # q[n]
      BY <1>1, <1>3, <2>2 DEF Linked
    <3> QED
      BY <1>3, <1>6, <1>9, <2>2, <3>1
  <2> QED
    BY <2>1, <2>2
<1>12. \A i \in 1..(n + 1) : i \in 1..n \/ i = n + 1
  BY <1>3
<1>13. Linked(r)'
  <2>1. \A i, j \in 1..(n + 1) : r[i] = r[j] => i = j
    <3> SUFFICES ASSUME NEW i \in 1..(n + 1), NEW j \in 1..(n + 1), r[i] = r[j] PROVE i = j
      OBVIOUS
    <3>1. CASE i \in 1..n /\ j \in 1..n
      BY <1>1, <1>5, <3>1 DEF Linked
    <3>2. CASE i = n + 1 \/ j = n + 1
      BY <1>3, <1>5, <1>6, <1>12, <3>2
    <3> QED
      BY <1>12, <3>1, <3>2
  <2>2. head' = r[1] /\ tail' = r[n + 1] /\ n + 1 # 0
    <3>1. head' = (IF n = 0 THEN a ELSE q[1]) /\ tail' = a
      BY <1>2, <1>9
    <3>2. r[n + 1] = a /\ n + 1 # 0 /\ (n = 0 => n + 1 = 1) /\ (n # 0 => 1 \in 1..n)
      BY <1>3, <1>5
    <3>3. r[1] = IF n = 0 THEN a ELSE q[1]
      BY <1>5, <3>2
    <3> QED
      BY <3>1, <3>2, <3>3
  <2>3. ASSUME NEW i \in 1..(n + 1)
        PROVE  /\ node'[r[i]].next = IF i = n + 1 THEN NULL ELSE r[i + 1]
               /\ node'[r[i]].prev = IF i = 1 THEN NULL ELSE r[i - 1]
    <3>1. CASE i = n + 1
      <4>1. node'[r[i]].next = NULL /\ node'[r[i]].prev = was
        BY <1>5, <1>9, <1>10, <3>1
      <4>2. was = IF i = 1 THEN NULL ELSE r[i - 1]
        BY <1>3, <1>5, <3>1
      <4> QED
        BY <3>1, <4>1, <4>2
    <3>2. CASE i \in 1..n
      <4>1. r[i] = q[i] /\ i # n + 1
        BY <1>3, <1>5, <3>2
      <4>2. node'[q[i]].next = r[i + 1]
        <5>1. CASE i = n
          BY <1>5, <1>11, <3>2, <5>1
        <5>2. CASE i # n
          <6>1. i + 1 \in 1..n /\ node[q[i]].next = q[i + 1]
            BY <1>1, <1>3, <3>2, <5>2 DEF Linked
          <6> QED
            BY <1>5, <1>11, <3>2, <5>2, <6>1
        <5> QED
          BY <5>1, <5>2
      <4>3. node'[q[i]].prev = IF i = 1 THEN NULL ELSE r[i - 1]
        <5>1. i # 1 => i - 1 \in 1..n
          BY <1>3, <3>2
        <5>2. node[q[i]].prev = IF i = 1 THEN NULL ELSE q[i - 1]
          BY <1>1, <3>2 DEF Linked
        <5> QED
          BY <1>5, <1>11, <3>2, <5>1, <5>2
      <4> QED
        BY <4>1, <4>2, <4>3
    <3> QED
      BY <1>12, <3>1, <3>2
  <2> QED
    BY <1>5, <2>1, <2>2, <2>3 DEF Linked
<1>14. Filled(r)'
  <2> DEFINE pair == <<id, size>>
  <2>1. /\ content' \in Seq(Names \X Lens) /\ Len(content') = n + 1
        /\ \A i \in 1..n : content'[i] = content[i]
        /\ content'[n + 1] = pair
    <3>1. content \in Seq(Names \X Lens) /\ Len(content) = n /\ pair \in Names \X Lens
      BY <1>1 DEF Filled
    <3>2. content' = Append(content, pair)
      BY <1>2
    <3> HIDE DEF pair, n
    <3> QED
      BY <3>1, <3>2, AppendProperties
  <2>2. ASSUME NEW i \in 1..(n + 1)
        PROVE  node'[r[i]].id = content'[i][1] /\ node'[r[i]].len = content'[i][2]
    <3>1. CASE i = n + 1
      BY <1>5, <1>9, <1>10, <2>1, <3>1
    <3>2. CASE i \in 1..n
      <4>1. node[q[i]].id = content[i][1] /\ node[q[i]].len = content[i][2]
        BY <1>1, <3>2 DEF Filled
      <4> QED
        BY <1>5, <1>11, <2>1, <3>2, <4>1
    <3> QED
      BY <1>12, <3>1, <3>2
  <2>3. ASSUME NEW b \in Nodes, node'[b] # Freed PROVE \E i \in 1..(n + 1) : r[i] = b
    <3>1. CASE b = a
      BY <1>3, <1>5, <3>1
    <3>2. CASE n > 0 /\ b = q[n]
      BY <1>3, <1>5, <3>2
    <3>3. CASE b # a /\ (n > 0 => b # q[n])
      <4>1. node[b] # Freed
        BY <1>9, <2>3, <3>3
      <4>2. PICK i \in 1..n : q[i] = b
        BY <1>1, <4>1 DEF Filled
      <4> QED
        BY <1>3, <1>5, <4>2
    <3> QED
      BY <3>1, <3>2, <3>3
  <2> QED
    BY <1>5, <2>1, <2>2, <2>3 DEF Filled
<1> QED
  BY <1>5, <1>9, <1>13, <1>14 DEF QueueInv

(* The node at the head comes out.                                         *)
LEMMA DequeueInv == ASSUME QueueInv, NEW size, dequeue(size) PROVE QueueInv'
<1>1. PICK q \in Seq(Nodes) : Linked(q) /\ Filled(q)
  BY DEF QueueInv
<1> DEFINE n == Len(q)
           r == Tail(q)
<1>2. n \in Nat /\ \A i \in 1..n : q[i] \in Nodes /\ q[i] \in Nat /\ q[i] # NULL
  BY ElementOfSeq, LenProperties, QueueAssumption DEF NULL
<1>3. node \in [Nodes -> Node] /\ Freed \in Node
  BY DEF QueueInv, Freed, Node, NULL
<1>4. n > 0 /\ head = q[1] /\ tail = q[n] /\ 1 \in 1..n /\ n \in 1..n
  BY <1>1, <1>2 DEF dequeue, Linked
<1>5. /\ r \in Seq(Nodes) /\ Len(r) = n - 1 /\ \A i \in 1..(n - 1) : r[i] = q[i + 1]
  <2>1. q # <<>>
    BY <1>4, EmptySeq
  <2> QED
    BY <2>1, HeadTailProperties
<1> HIDE DEF r
<1>6. \A i \in 1..(n - 1) : i + 1 \in 1..n /\ i \in 1..n /\ i + 1 # 1
  BY <1>2
<1>7. /\ node[q[1]].next = IF n = 1 THEN NULL ELSE q[2]
      /\ n # 1 => 2 \in 1..n
  <2>1. node[q[1]].next = IF 1 = n THEN NULL ELSE q[1 + 1]
    BY <1>1, <1>4 DEF Linked
  <2>2. 1 + 1 = 2
    OBVIOUS
  <2>3. n # 1 => 2 \in 1..n
    BY <1>2, <1>4
  <2> QED
    BY <2>1, <2>2, <2>3
<1>8. /\ node' \in [Nodes -> Node] /\ node'[q[1]] = Freed
      /\ n # 1 => node'[q[2]] = [node[q[2]] EXCEPT !.prev = NULL]
      /\ \A b \in Nodes : b # q[1] /\ (n # 1 => b # q[2]) => node'[b] = node[b]
      /\ head' = IF n = 1 THEN NULL ELSE q[2]
      /\ tail' = IF n = 1 THEN NULL ELSE tail
  <2>1. CASE n = 1
    <3>1. head' = NULL /\ tail' = NULL /\ node' = [node EXCEPT ![q[1]] = Freed]
      BY <1>4, <1>7, <2>1 DEF dequeue
    <3> QED
      BY <1>2, <1>3, <1>4, <2>1, <3>1
  <2>2. CASE n # 1
    <3>1. 2 \in 1..n /\ q[2] \in Nodes /\ q[2] # NULL /\ node[q[1]].next = q[2] /\ q[1] \in Nodes
      BY <1>2, <1>4, <1>7, <2>2
    <3>2. q[2] # q[1]
      BY <1>1, <1>4, <3>1 DEF Linked
    <3> DEFINE first == [node EXCEPT ![q[2]].prev = NULL]
    <3>3. head' = q[2] /\ UNCHANGED tail /\ node' = [first EXCEPT ![q[1]] = Freed]
      BY <1>4, <3>1 DEF dequeue
    <3>4. /\ first \in [Nodes -> Node] /\ first[q[2]] = [node[q[2]] EXCEPT !.prev = NULL]
          /\ \A b \in Nodes : b # q[2] => first[b] = node[b]
      <4>1. node[q[2]] \in Node
        BY <1>3, <3>1
      <4>2. [node[q[2]] EXCEPT !.prev = NULL] \in Node
        BY <4>1 DEF Node, NULL
      <4> QED
        BY <1>3, <3>1, <4>2
    <3> HIDE DEF first
    <3>5. /\ node' \in [Nodes -> Node] /\ node'[q[1]] = Freed
          /\ \A b \in Nodes : b # q[1] => node'[b] = first[b]
      BY <1>3, <3>1, <3>3, <3>4
    <3> QED
      BY <2>2, <3>1, <3>2, <3>3, <3>4, <3>5
  <2> QED
    BY <2>1, <2>2
<1>9. \A i \in 1..(n - 1) :
        LET b == q[i + 1]
        IN  /\ node'[b].id = node[b].id /\ node'[b].len = node[b].len /\ node'[b].next = node[b].next
            /\ node'[b].prev = IF i = 1 THEN NULL ELSE node[b].prev
  <2> SUFFICES ASSUME NEW i \in 1..(n - 1)
               PROVE  LET b == q[i + 1]
                      IN  /\ node'[b].id = node[b].id /\ node'[b].len = node[b].len
                          /\ node'[b].next = node[b].next
                          /\ node'[b].prev = IF i = 1 THEN NULL ELSE node[b].prev
    OBVIOUS
  <2>1. n # 1 /\ 2 \in 1..n /\ i + 1 \in 1..n /\ q[i + 1] # q[1]
    <3>1. n # 1 /\ i + 1 \in 1..n /\ i + 1 # 1
      BY <1>2, <1>6
    <3> QED
      BY <1>1, <1>4, <1>7, <3>1 DEF Linked
  <2>2. CASE i = 1
    <3>1. node'[q[2]] = [node[q[2]] EXCEPT !.prev = NULL] /\ node[q[2]] \in Node
      BY <1>2, <1>3, <1>8, <2>1
    <3>2. /\ node'[q[2]].id = node[q[2]].id /\ node'[q[2]].len = node[q[2]].len
          /\ node'[q[2]].next = node[q[2]].next /\ node'[q[2]].prev = NULL
      BY <3>1 DEF Node
    <3>3. i + 1 = 2
      BY <2>2
    <3> QED
      BY <2>2, <3>2, <3>3
  <2>3. CASE i # 1
    <3>1. i + 1 # 2
      BY <1>2, <2>3
    <3>2. q[i + 1] # q[2] /\ q[i + 1] \in Nodes
      BY <1>1, <1>2, <2>1, <3>1 DEF Linked
    <3>3. node'[q[i + 1]] = node[q[i + 1]]
      BY <1>8, <2>1, <3>2
    <3> QED
      BY <2>3, <3>3
  <2> QED
    BY <2>2, <2>3
<1>10. Linked(r)'
  <2>1. \A i, j \in 1..(n - 1) : r[i] = r[j] => i = j
    <3> SUFFICES ASSUME NEW i \in 1..(n - 1), NEW j \in 1..(n - 1), r[i] = r[j] PROVE i = j
      OBVIOUS
    <3>1. i + 1 = j + 1
      BY <1>1, <1>5, <1>6 DEF Linked
    <3> QED
      BY <3>1
  <2>2. /\ head' = IF n - 1 = 0 THEN NULL ELSE r[1]
        /\ tail' = IF n - 1 = 0 THEN NULL ELSE r[n - 1]
    <3>1. CASE n = 1
      BY <1>8, <3>1
    <3>2. CASE n # 1
      <4>1. r[1] = q[2] /\ r[n - 1] = q[n] /\ n - 1 # 0
        <5>1. 1 \in 1..(n - 1) /\ n - 1 \in 1..(n - 1) /\ 1 + 1 = 2 /\ (n - 1) + 1 = n
          BY <1>2, <1>4, <3>2
        <5> QED
          BY <1>5, <5>1
      <4> QED
        BY <1>4, <1>8, <3>2, <4>1
    <3> QED
      BY <3>1, <3>2
  <2>3. ASSUME NEW i \in 1..(n - 1)
        PROVE  /\ node'[r[i]].next = IF i = n - 1 THEN NULL ELSE r[i + 1]
               /\ node'[r[i]].prev = IF i = 1 THEN NULL ELSE r[i - 1]
    <3>1. r[i] = q[i + 1] /\ i + 1 \in 1..n
      BY <1>5, <1>6
    <3>2. node'[r[i]].next = node[q[i + 1]].next
      BY <1>9, <3>1
    <3>3. node'[r[i]].prev = IF i = 1 THEN NULL ELSE node[q[i + 1]].prev
      BY <1>9, <3>1
    <3>4. node[q[i + 1]].next = IF i + 1 = n THEN NULL ELSE q[(i + 1) + 1]
      BY <1>1, <3>1 DEF Linked
    <3>5. node[q[i + 1]].prev = IF i + 1 = 1 THEN NULL ELSE q[(i + 1) - 1]
      BY <1>1, <3>1 DEF Linked
    <3>6. i # n - 1 => i + 1 \in 1..(n - 1) /\ r[i + 1] = q[(i + 1) + 1]
      <4>1. i # n - 1 => i + 1 \in 1..(n - 1)
        BY <1>2
      <4> QED
        BY <1>5, <4>1
    <3>7. i # 1 => i - 1 \in 1..(n - 1) /\ r[i - 1] = q[(i + 1) - 1]
      <4>1. i # 1 => i - 1 \in 1..(n - 1) /\ (i - 1) + 1 = (i + 1) - 1
        BY <1>2
      <4> QED
        BY <1>5, <4>1
    <3>8. (i + 1 = n <=> i = n - 1) /\ i + 1 # 1
      BY <1>2
    <3>9. node'[r[i]].next = IF i = n - 1 THEN NULL ELSE r[i + 1]
      <4> HIDE DEF n
      <4> QED
        BY <3>2, <3>4, <3>6, <3>8
    <3>10. node'[r[i]].prev = IF i = 1 THEN NULL ELSE r[i - 1]
      <4> HIDE DEF n
      <4> QED
        BY <3>3, <3>5, <3>7, <3>8
    <3> QED
      BY <3>9, <3>10
  <2> QED
    BY <1>5, <2>1, <2>2, <2>3 DEF Linked
<1>11. Filled(r)'
  <2>1. /\ content' \in Seq(Names \X Lens) /\ Len(content') = n - 1
        /\ \A i \in 1..(n - 1) : content'[i] = content[i + 1]
    <3>1. content \in Seq(Names \X Lens) /\ Len(content) = n /\ content' = Tail(content)
      BY <1>1 DEF Filled, dequeue
    <3>2. content # <<>>
      BY <1>4, <3>1, EmptySeq
    <3> HIDE DEF n
    <3> QED
      BY <3>1, <3>2, HeadTailProperties
  <2>2. ASSUME NEW i \in 1..(n - 1)
        PROVE  node'[r[i]].id = content'[i][1] /\ node'[r[i]].len = content'[i][2]
    <3>1. r[i] = q[i + 1] /\ i + 1 \in 1..n
      BY <1>5, <1>6
    <3>2. node[q[i + 1]].id = content[i + 1][1] /\ node[q[i + 1]].len = content[i + 1][2]
      BY <1>1, <3>1 DEF Filled
    <3>3. node'[r[i]].id = node[q[i + 1]].id /\ node'[r[i]].len = node[q[i + 1]].len
      BY <1>9, <3>1
    <3> QED
      BY <2>1, <3>2, <3>3
  <2>3. ASSUME NEW b \in Nodes, node'[b] # Freed PROVE \E i \in 1..(n - 1) : r[i] = b
    <3>1. b # q[1]
      BY <1>8, <2>3
    <3>2. \E i \in 1..n : q[i] = b
      <4>1. CASE n # 1 /\ b = q[2]
        BY <1>7, <4>1
      <4>2. CASE ~(n # 1 /\ b = q[2])
        <5>1. node[b] # Freed
          BY <1>8, <2>3, <3>1, <4>2
        <5> QED
          BY <1>1, <5>1 DEF Filled
      <4> QED
        BY <4>1, <4>2
    <3>3. PICK i \in 1..n : q[i] = b
      BY <3>2
    <3>4. i - 1 \in 1..(n - 1) /\ (i - 1) + 1 = i
      <4>1. i # 1
        BY <3>1, <3>3
      <4> QED
        BY <1>2, <4>1
    <3> QED
      BY <1>5, <3>3, <3>4
  <2> QED
    BY <1>5, <2>1, <2>2, <2>3 DEF Filled
<1> QED
  BY <1>5, <1>8, <1>10, <1>11 DEF QueueInv

(* A list that is linked so is what was queued, and searched so.           *)
LEMMA QueueHolds == QueueInv => QueueRight
<1> SUFFICES ASSUME QueueInv PROVE QueueRight
  OBVIOUS
<1>1. PICK q \in Seq(Nodes) : Linked(q) /\ Filled(q)
  BY DEF QueueInv
<1> DEFINE n == Len(q)
<1>2. Chain = q
  BY <1>1, ChainIs
<1>3. /\ n \in Nat /\ DOMAIN q = 1..n /\ q = [i \in 1..n |-> q[i]]
      /\ \A i \in 1..n : q[i] \in Nodes
  BY ElementOfSeq, LenProperties
<1>4. content \in Seq(Names \X Lens) /\ Len(content) = n
  BY <1>1 DEF Filled
<1>5. DOMAIN content = 1..n /\ content = [i \in 1..n |-> content[i]]
  BY <1>4, LenProperties
<1>6. [i \in DOMAIN q |-> <<node[q[i]].id, node[q[i]].len>>] = content
  <2>1. ASSUME NEW i \in 1..n PROVE content[i] = <<node[q[i]].id, node[q[i]].len>>
    <3>1. content[i] \in Names \X Lens
      BY <1>4, ElementOfSeq
    <3>2. \A e \in Names \X Lens : e = <<e[1], e[2]>>
      OBVIOUS
    <3>3. node[q[i]].id = content[i][1] /\ node[q[i]].len = content[i][2]
      BY <1>1 DEF Filled
    <3> QED
      BY <3>1, <3>2, <3>3
  <2> HIDE DEF n
  <2> QED
    BY <1>3, <1>5, <2>1
<1>7. {a \in Nodes : node[a] # Freed} = ToSet(q)
  <2>1. ASSUME NEW i \in 1..n PROVE node[q[i]] # Freed
    <3>1. content[i] \in Names \X Lens /\ node[q[i]].len = content[i][2]
      BY <1>1, <1>4, ElementOfSeq DEF Filled
    <3>2. \A e \in Names \X Lens : e[2] \in Lens
      OBVIOUS
    <3>3. node[q[i]].len # 0
      BY <3>1, <3>2, QueueAssumption
    <3>4. Freed.len = 0
      BY DEF Freed
    <3> QED
      BY <3>3, <3>4
  <2>2. \A a \in Nodes : node[a] # Freed => \E i \in 1..n : q[i] = a
    BY <1>1 DEF Filled
  <2>3. ToSet(q) = {q[i] : i \in 1..n}
    BY <1>3 DEF ToSet
  <2> QED
    BY <1>3, <2>1, <2>2, <2>3
<1>8. tail = IF q = <<>> THEN NULL ELSE Last(q)
  <2>1. q = <<>> <=> n = 0
    BY <1>3, EmptySeq
  <2> QED
    BY <1>1, <2>1 DEF Linked, Last
<1>9. \A i \in DOMAIN q : node[q[i]].prev = IF i = 1 THEN NULL ELSE q[i - 1]
  BY <1>1, <1>3 DEF Linked
<1>10. ASSUME NEW id \in Names
       PROVE  IF \E i \in DOMAIN content : content[i][1] = id
              THEN find_object(id) = q[CHOOSE i \in DOMAIN content :
                     content[i][1] = id /\ \A j \in 1..(i - 1) : content[j][1] # id]
              ELSE find_object(id) = NULL
  <2> DEFINE found == {i \in DOMAIN q : node[q[i]].id = id}
  <2>1. \A i \in 1..n : node[q[i]].id = content[i][1]
    BY <1>1 DEF Filled
  <2>2. found = {i \in 1..n : content[i][1] = id}
    BY <1>3, <2>1
  <2>3. find_object(id) = IF found = {} THEN NULL ELSE q[CHOOSE i \in found : \A j \in found : i <= j]
    BY <1>2 DEF find_object
  <2>4. CASE found = {}
    BY <1>5, <2>2, <2>3, <2>4
  <2>5. CASE found # {}
    <3>1. found \subseteq Nat
      BY <1>3
    <3> DEFINE first == CHOOSE i \in found : \A j \in found : i <= j
               oldest == CHOOSE i \in DOMAIN content :
                           content[i][1] = id /\ \A j \in 1..(i - 1) : content[j][1] # id
    <3>2. \E i \in found : \A j \in found : i <= j
      BY <2>5, <3>1, LeastNat
    <3>3. first \in found /\ \A j \in found : first <= j
      BY <3>2
    <3>4. find_object(id) = q[first]
      BY <2>3, <2>5
    <3> HIDE DEF first, found
    <3>5. first \in 1..n /\ content[first][1] = id /\ \A j \in 1..(first - 1) : content[j][1] # id
      <4>1. first \in 1..n /\ content[first][1] = id
        BY <2>2, <3>3
      <4>2. ASSUME NEW j \in 1..(first - 1), content[j][1] = id PROVE FALSE
        <5>1. j \in 1..n /\ ~(first <= j)
          BY <1>3, <4>1
        <5>2. j \in found
          BY <2>2, <4>2, <5>1
        <5> QED
          BY <3>3, <5>1, <5>2
      <4> QED
        BY <4>1, <4>2
    <3>6. /\ oldest \in 1..n /\ content[oldest][1] = id
          /\ \A j \in 1..(oldest - 1) : content[j][1] # id
      BY <1>5, <3>5
    <3> HIDE DEF oldest
    <3>7. oldest = first
      <4>1. ~(oldest < first)
        <5>1. oldest < first => oldest \in 1..(first - 1)
          BY <3>5, <3>6
        <5> QED
          BY <3>5, <3>6, <5>1
      <4>2. ~(first < oldest)
        <5>1. first < oldest => first \in 1..(oldest - 1)
          BY <3>5, <3>6
        <5> QED
          BY <3>5, <3>6, <5>1
      <4> QED
        BY <1>3, <3>5, <3>6, <4>1, <4>2
    <3>8. \E i \in DOMAIN content : content[i][1] = id
      BY <1>5, <3>5
    <3>9. find_object(id) = q[oldest]
      BY <3>4, <3>7
    <3> QED
      BY <3>8, <3>9 DEF oldest
  <2> QED
    BY <2>4, <2>5
<1> QED
  BY <1>2, <1>6, <1>7, <1>8, <1>9, <1>10 DEF QueueRight

(* The list of the reference queue is what was queued and not yet taken,   *)
(* and a name is found at its oldest entry, for any nodes, names and sizes.*)
THEOREM QueueCorrect == Spec => []QueueRight
<1>1. Init => QueueInv
  BY QueueStart DEF Init
<1>2. QueueInv /\ [Next]_vars => QueueInv'
  <2> SUFFICES ASSUME QueueInv, [Next]_vars PROVE QueueInv'
    OBVIOUS
  <2>1. QueueNext \/ UNCHANGED queueVars
    BY DEF Next, vars
  <2>2. CASE UNCHANGED queueVars
    BY <2>2 DEF QueueInv, Linked, Filled, queueVars
  <2>3. CASE QueueNext
    BY <2>3, EnqueueInv, DequeueInv DEF QueueNext
  <2> QED
    BY <2>1, <2>2, <2>3
<1> QED
  BY <1>1, <1>2, QueueHolds, PTL DEF Spec

(***************************************************************************)
(* The timers.                                                             *)
(***************************************************************************)
(* Quotient and remainder, the only ones there are.                        *)
LEMMA Divided ==
  ASSUME NEW x \in Int, NEW W \in Nat \ {0}
  PROVE  x \div W \in Int /\ x % W \in 0..(W - 1) /\ x = (x \div W) * W + (x % W)
OBVIOUS

(* Multiples do not change a remainder.                                    *)
LEMMA Remainder ==
  ASSUME NEW W \in Nat \ {0}, NEW d \in 0..(W - 1), NEW k \in Int
  PROVE  (d + k * W) % W = d
<1> DEFINE x == d + (k * W)
           Q == x \div W
           R == x % W
<1>1. x \in Int /\ k * W \in Int
  OBVIOUS
<1>2. Q \in Int /\ R \in 0..(W - 1) /\ x = Q * W + R
  BY <1>1, Divided
<1> DEFINE j == Q - k
<1>3. d = j * W + R /\ j \in Int
  <2>1. Q * W - k * W = (Q - k) * W
    BY <1>2
  <2> HIDE DEF Q, R
  <2> QED
    BY <1>1, <1>2, <2>1
<1> HIDE DEF Q, R, j
<1>4. j = 0
  <2>1. ~(j >= 1)
    <3> SUFFICES ASSUME j >= 1 PROVE FALSE
      OBVIOUS
    <3>1. j * W >= W
      BY <1>3
    <3> QED
      BY <1>2, <1>3, <3>1
  <2>2. ~(j <= -1)
    <3> SUFFICES ASSUME j <= -1 PROVE FALSE
      OBVIOUS
    <3>1. j * W <= -W
      BY <1>3
    <3> QED
      BY <1>2, <1>3, <3>1
  <2> QED
    BY <1>3, <2>1, <2>2
<1> QED
  BY <1>2, <1>3, <1>4 DEF R

(* The two words of the counter give back any run shorter than a round of  *)
(* it, with the borrow between them.                                       *)
LEMMA CounterExact ==
  ASSUME NEW start \in Nat, NEW cycles \in 0..(WordSize * WordSize - 1)
  PROVE  get_counter(start, start + cycles) = cycles
<1> DEFINE W == WordSize
           now == start + cycles
           a == start \div W
           s == start % W
           b == now \div W
           n == now % W
           borrow == IF n < s THEN 1 ELSE 0
           d == b - a - borrow
           lo == n - s + borrow * W
<1>1. W \in Nat \ {0} /\ now \in Nat /\ cycles \in Nat /\ cycles < W * W /\ W * W \in Nat
  BY TimerAssumption
<1>2. a \in Int /\ s \in 0..(W - 1) /\ start = a * W + s
  BY <1>1, Divided
<1>3. b \in Int /\ n \in 0..(W - 1) /\ now = b * W + n
  BY <1>1, Divided
<1> HIDE DEF W, a, s, b, n, now
<1>4. borrow \in {0, 1} /\ d \in Int /\ lo \in 0..(W - 1)
  <2>1. CASE n < s
    BY <1>1, <1>2, <1>3, <2>1
  <2>2. CASE ~(n < s)
    BY <1>1, <1>2, <1>3, <2>2
  <2> QED
    BY <2>1, <2>2
<1>5. cycles = d * W + lo
  <2>1. (b - a - borrow) * W = b * W - a * W - borrow * W
    BY <1>1, <1>2, <1>3, <1>4
  <2>2. cycles = now - start
    BY <1>1 DEF now
  <2>3. b * W \in Int /\ a * W \in Int /\ borrow * W \in Int
    BY <1>1, <1>2, <1>3, <1>4
  <2> HIDE DEF borrow
  <2> QED
    BY <1>1, <1>2, <1>3, <2>1, <2>2, <2>3
<1> HIDE DEF d, lo
<1>6. d \in 0..(W - 1)
  <2>1. ~(d <= -1)
    <3> SUFFICES ASSUME d <= -1 PROVE FALSE
      OBVIOUS
    <3>1. d * W <= -W
      BY <1>1, <1>4
    <3> QED
      BY <1>1, <1>4, <1>5, <3>1
  <2>2. ~(d >= W)
    <3> SUFFICES ASSUME d >= W PROVE FALSE
      OBVIOUS
    <3>1. d * W >= W * W
      BY <1>1, <1>4
    <3> QED
      BY <1>1, <1>4, <1>5, <3>1
  <2> QED
    BY <1>1, <1>4, <2>1, <2>2
<1>7. (n - s) % W = lo
  <2>1. lo + (0 - borrow) * W = n - s /\ 0 - borrow \in Int
    <3>1. CASE n < s
      BY <1>1, <1>2, <1>3, <3>1 DEF lo
    <3>2. CASE ~(n < s)
      BY <1>1, <1>2, <1>3, <3>2 DEF lo
    <3> QED
      BY <3>1, <3>2
  <2> DEFINE k == 0 - borrow
  <2>2. (lo + k * W) = n - s /\ k \in Int
    BY <2>1
  <2> HIDE DEF k
  <2>3. (lo + k * W) % W = lo
    BY <1>1, <1>4, <2>2, Remainder
  <2> QED
    BY <2>2, <2>3
<1>8. (IF lo > n THEN 1 ELSE 0) = borrow
  <2>1. CASE n < s
    BY <1>1, <1>2, <1>3, <2>1 DEF lo
  <2>2. CASE ~(n < s)
    BY <1>1, <1>2, <1>3, <2>2 DEF lo
  <2> QED
    BY <2>1, <2>2
<1> HIDE DEF borrow
<1>9. ((b % W) - (a % W) - borrow) % W = d
  <2> DEFINE p == b \div W
             q == a \div W
  <2>1. p \in Int /\ b % W \in Int /\ b = p * W + (b % W)
    BY <1>1, <1>3, Divided
  <2>2. q \in Int /\ a % W \in Int /\ a = q * W + (a % W)
    BY <1>1, <1>2, Divided
  <2> HIDE DEF p, q
  <2>3. (q - p) * W = q * W - p * W /\ q - p \in Int /\ p * W \in Int /\ q * W \in Int
    BY <1>1, <2>1, <2>2
  <2>4. (b % W) - (a % W) - borrow = d + (q - p) * W
    BY <1>2, <1>3, <1>4, <2>1, <2>2, <2>3 DEF d
  <2>5. (d + (q - p) * W) % W = d
    BY <1>1, <1>4, <1>6, <2>3, Remainder
  <2> QED
    BY <2>4, <2>5
<1>10. /\ access_counter(start) = [hi |-> a % W, lo |-> s]
       /\ access_counter(now) = [hi |-> b % W, lo |-> n]
  BY DEF access_counter, a, s, b, n, W
<1>11. get_counter(start, now) = (((b % W) - (a % W) - borrow) % W) * W + lo
  <2>1. get_counter(start, now) =
          (((b % W) - (a % W) - (IF ((n - s) % W) > n THEN 1 ELSE 0)) % W) * W + ((n - s) % W)
    BY <1>10 DEF get_counter, W
  <2> QED
    BY <1>7, <1>8, <2>1
<1> QED
  BY <1>5, <1>9, <1>11 DEF now

(* The clocks: seconds and microseconds carry into each other.             *)
LEMMA ClocksExact ==
  ASSUME NEW now \in Nat, NEW spent \in Nat
  PROVE  ftimer_gettod(now, spent) = spent /\ ftimer_itimer(now, spent) = spent
<1> DEFINE U == Usecs
<1>1. U \in Nat \ {0} /\ MAX_ETIME \in Nat
  BY TimerAssumption
<1> HIDE DEF U
<1>2. ASSUME NEW x \in Int
      PROVE  /\ Timeval(x).tv_sec \in Int /\ Timeval(x).tv_usec \in Int
             /\ Timeval(x).tv_sec * U \in Int /\ U * Timeval(x).tv_sec = Timeval(x).tv_sec * U
             /\ x = Timeval(x).tv_sec * U + Timeval(x).tv_usec
  <2>1. x \div U \in Int /\ x % U \in 0..(U - 1) /\ x = (x \div U) * U + (x % U)
    BY <1>1, Divided
  <2>2. Timeval(x).tv_sec = x \div U /\ Timeval(x).tv_usec = x % U
    BY DEF Timeval, U
  <2> QED
    BY <1>1, <2>1, <2>2
<1>3. ftimer_gettod(now, spent) = spent
  <2> DEFINE a == Timeval(now)
             b == Timeval(now + spent)
  <2>1. /\ a.tv_sec \in Int /\ a.tv_usec \in Int /\ a.tv_sec * U \in Int
        /\ now = a.tv_sec * U + a.tv_usec
    BY <1>2
  <2>2. /\ b.tv_sec \in Int /\ b.tv_usec \in Int /\ b.tv_sec * U \in Int
        /\ now + spent = b.tv_sec * U + b.tv_usec
    BY <1>2
  <2>3. ftimer_gettod(now, spent) = U * (b.tv_sec - a.tv_sec) + (b.tv_usec - a.tv_usec)
    BY DEF ftimer_gettod, U
  <2> HIDE DEF a, b
  <2>4. U * (b.tv_sec - a.tv_sec) = b.tv_sec * U - a.tv_sec * U
    BY <1>1, <2>1, <2>2
  <2> QED
    BY <2>1, <2>2, <2>3, <2>4
<1>4. ASSUME NEW elapsed \in Nat PROVE get_etime(elapsed) = elapsed
  <2> DEFINE x == MAX_ETIME * U - elapsed
             t == Timeval(x)
  <2>1. x \in Int /\ MAX_ETIME * U \in Int
    BY <1>1
  <2>2. t.tv_sec \in Int /\ t.tv_usec \in Int /\ t.tv_sec * U \in Int /\ x = t.tv_sec * U + t.tv_usec
    BY <1>2, <2>1
  <2>3. get_etime(elapsed) = (MAX_ETIME - t.tv_sec) * U + (0 - t.tv_usec)
    BY DEF get_etime, U
  <2> HIDE DEF t
  <2>4. (MAX_ETIME - t.tv_sec) * U = MAX_ETIME * U - t.tv_sec * U
    BY <1>1, <2>2
  <2> QED
    BY <2>1, <2>2, <2>3, <2>4
<1>5. now + spent \in Nat
  OBVIOUS
<1>6. ftimer_itimer(now, spent) = spent
  BY <1>4, <1>5 DEF ftimer_itimer
<1> QED
  BY <1>3, <1>6

(* The loop that adds up exists, and adds numbers up to a number.          *)
LEMMA TotalSum ==
  ASSUME NEW n \in Nat, NEW f \in [1..n -> Nat], Len(f) = n
  PROVE  \E sum \in [0..n -> Nat] :
           /\ sum[0] = 0 /\ Total(f) = sum[n]
           /\ \A k \in 1..n : sum[k] = sum[k - 1] + f[k]
<1> DEFINE body(s, k) == IF k = 0 THEN 0 ELSE s[k - 1] + f[k]
           Works(m) == \E s \in [0..m -> Nat] : \A k \in 0..m : s[k] = body(s, k)
           Bad == {m \in 0..n : ~Works(m)}
<1>1. Bad = {}
  <2> SUFFICES ASSUME Bad # {} PROVE FALSE
    OBVIOUS
  <2>1. Bad \subseteq Nat
    OBVIOUS
  <2> HIDE DEF Bad
  <2>2. PICK m \in Bad : \A k \in Bad : m <= k
    BY <2>1, LeastNat
  <2>3. m \in 0..n /\ ~Works(m)
    BY <2>2 DEF Bad
  <2>4. CASE m = 0
    <3> DEFINE s == [k \in 0..0 |-> 0]
    <3>1. s \in [0..0 -> Nat] /\ \A k \in 0..0 : s[k] = body(s, k)
      OBVIOUS
    <3> QED
      BY <2>3, <2>4, <3>1
  <2>5. CASE m # 0
    <3>1. m - 1 \in 0..n /\ ~(m <= m - 1)
      BY <2>3, <2>5
    <3>2. Works(m - 1)
      BY <2>2, <3>1 DEF Bad
    <3>3. PICK s \in [0..(m - 1) -> Nat] : \A k \in 0..(m - 1) : s[k] = body(s, k)
      BY <3>2
    <3> DEFINE t == [k \in 0..m |-> IF k = m THEN s[m - 1] + f[m] ELSE s[k]]
    <3>4. f[m] \in Nat /\ s[m - 1] \in Nat
      BY <2>3, <2>5
    <3>5. \A k \in 0..m : k # m => k \in 0..(m - 1) /\ (k # 0 => k - 1 \in 0..(m - 1) /\ k - 1 # m)
      BY <2>3
    <3>6. t \in [0..m -> Nat]
      BY <3>4, <3>5
    <3>7. \A k \in 0..m : t[k] = body(t, k)
      <4> SUFFICES ASSUME NEW k \in 0..m PROVE t[k] = body(t, k)
        OBVIOUS
      <4>1. CASE k = m
        <5>1. m - 1 \in 0..m /\ m - 1 # m
          BY <2>3, <2>5
        <5> QED
          BY <2>5, <4>1, <5>1
      <4>2. CASE k # m
        <5>1. t[k] = s[k] /\ s[k] = body(s, k)
          BY <3>3, <3>5, <4>2
        <5>2. k # 0 => t[k - 1] = s[k - 1]
          <6>1. k # 0 => k - 1 \in 0..m /\ k - 1 # m
            BY <2>3, <4>2
          <6> QED
            BY <6>1
        <5> HIDE DEF t
        <5> QED
          BY <5>1, <5>2
      <4> QED
        BY <4>1, <4>2
    <3> QED
      BY <2>3, <3>6, <3>7
  <2> QED
    BY <2>4, <2>5
<1>2. Works(n)
  <2>1. n \in 0..n
    OBVIOUS
  <2> HIDE DEF Works
  <2> QED
    BY <1>1, <2>1
<1>3. PICK s \in [0..n -> Nat] : \A k \in 0..n : s[k] = body(s, k)
  BY <1>2
<1> DEFINE sum == CHOOSE g : g = [k \in 0..n |-> body(g, k)]
<1>4. s = [k \in 0..n |-> body(s, k)]
  BY <1>3
<1>5. sum = [k \in 0..n |-> body(sum, k)]
  <2> HIDE DEF body
  <2> QED
    BY <1>4
<1>6. Total(f) = sum[n]
  BY DEF Total
<1> HIDE DEF sum
<1>7. \A k \in 0..n : sum[k] = s[k]
  <2> DEFINE Off == {k \in 0..n : sum[k] # s[k]}
  <2> SUFFICES ASSUME Off # {} PROVE FALSE
    OBVIOUS
  <2>1. Off \subseteq Nat
    OBVIOUS
  <2> HIDE DEF Off
  <2>2. PICK m \in Off : \A k \in Off : m <= k
    BY <2>1, LeastNat
  <2>3. m \in 0..n /\ sum[m] # s[m]
    BY <2>2 DEF Off
  <2>4. sum[m] = body(sum, m) /\ s[m] = body(s, m)
    BY <1>3, <1>5, <2>3
  <2>5. CASE m = 0
    BY <2>3, <2>4, <2>5
  <2>6. CASE m # 0
    <3>1. m - 1 \in 0..n /\ ~(m <= m - 1)
      BY <2>3, <2>6
    <3>2. sum[m - 1] = s[m - 1]
      BY <2>2, <3>1 DEF Off
    <3> QED
      BY <2>3, <2>4, <3>2
  <2> QED
    BY <2>5, <2>6
<1>8. Total(f) = s[n] /\ s[0] = 0 /\ \A k \in 1..n : s[k] = s[k - 1] + f[k]
  <2>1. n \in 0..n /\ 0 \in 0..n /\ \A k \in 1..n : k \in 0..n /\ k # 0
    OBVIOUS
  <2> QED
    BY <1>3, <1>6, <1>7, <2>1
<1> QED
  BY <1>8

(* How many samples lie below a value, and how many at most at it.         *)
Below(samples, v)  == Cardinality({j \in DOMAIN samples : samples[j] < v})
AtMost(samples, v) == Cardinality({j \in DOMAIN samples : samples[j] <= v})

(* They are numbers, of so many samples.                                   *)
LEMMA Counts ==
  ASSUME NEW samples \in Seq(Int), NEW v \in Int
  PROVE  /\ Below(samples, v) \in Nat /\ AtMost(samples, v) \in Nat
         /\ Below(samples, v) <= Len(samples)
<1>1. Len(samples) \in Nat /\ DOMAIN samples = 1..Len(samples)
  BY LenProperties
<1>2. IsFiniteSet(1..Len(samples)) /\ Cardinality(1..Len(samples)) = Len(samples)
  <2>1. 1 \in Int /\ Len(samples) \in Int
    BY <1>1
  <2>2. /\ IsFiniteSet(1..Len(samples))
        /\ Cardinality(1..Len(samples)) = IF 1 > Len(samples) THEN 0 ELSE Len(samples) - 1 + 1
    BY <2>1, FS_Interval
  <2> QED
    BY <1>1, <2>2
<1> DEFINE A == {j \in DOMAIN samples : samples[j] < v}
           B == {j \in DOMAIN samples : samples[j] <= v}
<1>3. A \in SUBSET (1..Len(samples)) /\ B \in SUBSET (1..Len(samples))
  BY <1>1
<1> HIDE DEF A, B
<1>4. IsFiniteSet(A) /\ Cardinality(A) <= Len(samples) /\ IsFiniteSet(B)
  BY <1>2, <1>3, FS_Subset
<1>5. Cardinality(A) \in Nat /\ Cardinality(B) \in Nat
  BY <1>4, FS_CardinalityType
<1> QED
  BY <1>4, <1>5 DEF Below, AtMost, A, B

(* Both grow with the value, the one up to less than the other.            *)
LEMMA CountsGrow ==
  ASSUME NEW samples \in Seq(Int), NEW v \in Int, NEW w \in Int, v <= w
  PROVE  /\ Below(samples, v) <= Below(samples, w)
         /\ AtMost(samples, v) <= AtMost(samples, w)
         /\ v < w => AtMost(samples, v) <= Below(samples, w)
<1>1. Len(samples) \in Nat /\ DOMAIN samples = 1..Len(samples) /\ \A j \in DOMAIN samples : samples[j] \in Int
  BY LenProperties, ElementOfSeq
<1>2. IsFiniteSet(1..Len(samples))
  BY <1>1, FS_Interval
<1> DEFINE A == {j \in DOMAIN samples : samples[j] < v}
           B == {j \in DOMAIN samples : samples[j] < w}
           C == {j \in DOMAIN samples : samples[j] <= v}
           D == {j \in DOMAIN samples : samples[j] <= w}
<1>3. /\ B \in SUBSET (1..Len(samples)) /\ D \in SUBSET (1..Len(samples))
      /\ A \in SUBSET B /\ C \in SUBSET D
      /\ v < w => C \in SUBSET B
  BY <1>1
<1> HIDE DEF A, B, C, D
<1>4. IsFiniteSet(B) /\ IsFiniteSet(D)
  BY <1>2, <1>3, FS_Subset
<1>5. Cardinality(A) <= Cardinality(B)
  BY <1>3, <1>4, FS_Subset
<1>6. Cardinality(C) <= Cardinality(D)
  BY <1>3, <1>4, FS_Subset
<1>7. v < w => Cardinality(C) <= Cardinality(B)
  <2> SUFFICES ASSUME v < w PROVE Cardinality(C) <= Cardinality(B)
    OBVIOUS
  <2>1. C \in SUBSET B
    BY <1>3
  <2> QED
    BY <2>1, <1>4, FS_Subset
<1> QED
  BY <1>5, <1>6, <1>7 DEF Below, AtMost, A, B, C, D

(* A new sample counts where it belongs.                                   *)
LEMMA CountsAdd ==
  ASSUME NEW samples \in Seq(Int), NEW x \in Int, NEW v \in Int
  PROVE  /\ Below(Append(samples, x), v) = Below(samples, v) + (IF x < v THEN 1 ELSE 0)
         /\ AtMost(Append(samples, x), v) = AtMost(samples, v) + (IF x <= v THEN 1 ELSE 0)
<1> DEFINE n == Len(samples)
           more == Append(samples, x)
<1>1. n \in Nat /\ DOMAIN samples = 1..n
  BY LenProperties
<1>2. /\ more \in Seq(Int) /\ Len(more) = n + 1 /\ more[n + 1] = x
      /\ \A j \in 1..n : more[j] = samples[j]
  BY AppendProperties
<1>3. DOMAIN more = 1..(n + 1)
  BY <1>2, LenProperties
<1> HIDE DEF more, n
<1>4. IsFiniteSet(1..n) /\ \A j \in 1..(n + 1) : j \in 1..n \/ j = n + 1
  BY <1>1, FS_Interval
<1>5. n + 1 \notin 1..n /\ \A j \in 1..n : j \in 1..(n + 1)
  BY <1>1
<1> DEFINE A == {j \in DOMAIN samples : samples[j] < v}
           B == {j \in DOMAIN samples : samples[j] <= v}
           C == {j \in DOMAIN more : more[j] < v}
           D == {j \in DOMAIN more : more[j] <= v}
<1>6. /\ A \in SUBSET (1..n) /\ B \in SUBSET (1..n)
  BY <1>1
<1>7. C = IF x < v THEN A \cup {n + 1} ELSE A
  BY <1>1, <1>2, <1>3, <1>4, <1>5
<1>8. D = IF x <= v THEN B \cup {n + 1} ELSE B
  BY <1>1, <1>2, <1>3, <1>4, <1>5
<1> HIDE DEF A, B, C, D
<1>9. IsFiniteSet(A) /\ IsFiniteSet(B) /\ n + 1 \notin A /\ n + 1 \notin B
  BY <1>4, <1>5, <1>6, FS_Subset
<1>10. /\ Cardinality(A \cup {n + 1}) = Cardinality(A) + 1
       /\ Cardinality(B \cup {n + 1}) = Cardinality(B) + 1
       /\ Cardinality(A) \in Nat /\ Cardinality(B) \in Nat
  BY <1>9, FS_AddElement, FS_CardinalityType
<1>11. Cardinality(C) = Cardinality(A) + (IF x < v THEN 1 ELSE 0)
  BY <1>7, <1>10
<1>12. Cardinality(D) = Cardinality(B) + (IF x <= v THEN 1 ELSE 0)
  BY <1>8, <1>10
<1> QED
  BY <1>11, <1>12 DEF Below, AtMost, A, B, C, D, more

(* The first k values are the k smallest samples, in order.                *)
Kept(samples, values, k) == \A i \in 1..k : Ranks(samples, i, values[i])

(* Kept values never fall.                                                 *)
LEMMA KeptSorted ==
  ASSUME NEW samples \in Seq(Int), NEW k \in Nat, NEW n \in Nat, k <= n,
         NEW values \in [1..n -> Int], Kept(samples, values, k),
         NEW i \in 1..k, NEW j \in 1..k, i <= j
  PROVE  values[i] <= values[j]
<1> SUFFICES ASSUME ~(values[i] <= values[j]) PROVE FALSE
  OBVIOUS
<1>1. values[i] \in Int /\ values[j] \in Int /\ values[j] < values[i]
  OBVIOUS
<1>2. AtMost(samples, values[j]) <= Below(samples, values[i])
  <2>1. \A a, b \in Int : a < b => a <= b
    OBVIOUS
  <2>2. \A a, b \in Int : a < b => AtMost(samples, a) <= Below(samples, b)
    BY <2>1, CountsGrow
  <2> QED
    BY <1>1, <2>2
<1>3. j <= AtMost(samples, values[j]) /\ Below(samples, values[i]) < i
  BY DEF Kept, Ranks, AtMost, Below
<1>4. AtMost(samples, values[j]) \in Nat /\ Below(samples, values[i]) \in Nat
  BY <1>1, Counts
<1> QED
  BY <1>2, <1>3, <1>4

(* A value that goes in before the first greater one, and moves those from *)
(* there on up, leaves the smallest in order.                              *)
LEMMA InsertKeeps ==
  ASSUME NEW samples \in Seq(Int), NEW n \in Nat, NEW k \in Nat, NEW m \in Nat,
         k <= n, m <= k, m + 1 <= n, NEW values \in [1..n -> Int], Kept(samples, values, k),
         NEW x \in Int, k = m \/ x < values[k], k = m \/ k = m + 1, m = k => k = Len(samples)
  PROVE  /\ Insert(values, m, x) \in [1..n -> Int]
         /\ Kept(Append(samples, x), Insert(values, m, x), m + 1)
<1> DEFINE greater == {i \in 1..m : values[i] > x}
           pos == IF greater = {} THEN m + 1 ELSE Min(greater)
           r == Insert(values, m, x)
           more == Append(samples, x)
<1>1. /\ pos \in 1..(m + 1)
      /\ pos <= m => values[pos] > x
      /\ \A i \in 1..m : i < pos => ~(values[i] > x)
  <2>1. CASE greater = {}
    <3>1. pos = m + 1 /\ m + 1 \in 1..(m + 1) /\ ~(m + 1 <= m)
      BY <2>1
    <3>2. \A i \in 1..m : ~(values[i] > x)
      BY <2>1
    <3> HIDE DEF pos, greater
    <3> QED
      BY <3>1, <3>2
  <2>2. CASE greater # {}
    <3>1. greater \subseteq Nat
      OBVIOUS
    <3>2. \E i \in greater : \A j \in greater : i <= j
      BY <2>2, <3>1, LeastNat
    <3>3. Min(greater) \in greater /\ \A j \in greater : Min(greater) <= j
      BY <3>2 DEF Min
    <3>4. pos \in greater /\ \A j \in greater : pos <= j
      BY <2>2, <3>3
    <3>5. pos \in 1..m /\ values[pos] > x
      BY <3>4
    <3>6. \A i \in 1..m : values[i] > x => pos <= i
      BY <3>4
    <3> HIDE DEF pos, greater
    <3>7. pos \in 1..(m + 1)
      BY <3>5
    <3> QED
      BY <3>5, <3>6, <3>7
  <2> QED
    BY <2>1, <2>2
<1>2. r = [i \in DOMAIN values |-> CASE i = pos                 -> x
                                     [] i \in pos + 1 .. m + 1 -> values[i - 1]
                                     [] OTHER                   -> values[i]]
  BY Zenon DEF Insert
<1> HIDE DEF pos, r, greater
<1>3. /\ r[pos] = x
      /\ \A i \in 1..(pos - 1) : r[i] = values[i] /\ i \in 1..m
      /\ \A i \in (pos + 1)..(m + 1) : r[i] = values[i - 1] /\ i - 1 \in 1..m /\ pos <= i - 1
  <2>1. DOMAIN values = 1..n /\ pos \in 1..n
    BY <1>1
  <2>2. \A i \in 1..(pos - 1) : /\ i \in 1..n /\ i \in 1..m /\ i # pos
                                /\ i \notin (pos + 1)..(m + 1)
    BY <1>1
  <2>3. \A i \in (pos + 1)..(m + 1) : /\ i \in 1..n /\ i # pos
                                      /\ i - 1 \in 1..m /\ pos <= i - 1
    BY <1>1
  <2>4. r[pos] = x
    BY <1>2, <2>1
  <2>5. \A i \in 1..(pos - 1) : r[i] = values[i]
    BY <1>2, <2>1, <2>2
  <2>6. \A i \in (pos + 1)..(m + 1) : r[i] = values[i - 1]
    BY <1>2, <2>1, <2>3
  <2> QED
    BY <2>2, <2>3, <2>4, <2>5, <2>6
<1>4. r \in [1..n -> Int]
  <2>1. \A i \in 1..n : i \in (pos + 1)..(m + 1) => i - 1 \in 1..n
    BY <1>1
  <2> QED
    BY <1>2, <2>1
<1>5. pos <= k => values[pos] > x
  <2>1. CASE pos <= m
    BY <1>1, <2>1
  <2>2. CASE ~(pos <= m)
    <3>1. pos <= k => k = m + 1 /\ pos = k /\ k # m
      BY <1>1, <2>2
    <3>2. \A v \in Int : x < v => v > x
      OBVIOUS
    <3> QED
      BY <1>1, <3>1, <3>2
  <2> QED
    BY <2>1, <2>2
<1>6. \A i \in 1..m : i \in 1..k /\ i \in 1..n /\ values[i] \in Int
  OBVIOUS
<1>7. ASSUME NEW i \in 1..(m + 1) PROVE Ranks(more, i, r[i])
  <2>1. CASE i = pos
    <3>1. Below(samples, x) < pos
      <4>1. CASE pos <= k
        <5>1. pos \in 1..k /\ values[pos] \in Int /\ x <= values[pos]
          BY <1>1, <1>5, <4>1
        <5>2. Below(samples, values[pos]) < pos
          BY <5>1 DEF Kept, Ranks, Below
        <5>3. Below(samples, x) <= Below(samples, values[pos])
          BY <5>1, CountsGrow
        <5>4. Below(samples, values[pos]) \in Nat /\ Below(samples, x) \in Nat
          BY <5>1, Counts
        <5> QED
          BY <1>1, <5>2, <5>3, <5>4
      <4>2. CASE ~(pos <= k)
        <5>1. pos = Len(samples) + 1 /\ Len(samples) \in Nat
          BY <1>1, <4>2
        <5>2. Below(samples, x) \in Nat /\ Below(samples, x) <= Len(samples)
          BY Counts
        <5> QED
          BY <5>1, <5>2
      <4> QED
        BY <4>1, <4>2
    <3>2. pos <= AtMost(samples, x) + 1
      <4>1. CASE pos = 1
        <5>1. AtMost(samples, x) \in Nat
          BY Counts
        <5> QED
          BY <4>1, <5>1
      <4>2. CASE pos # 1
        <5>1. pos - 1 \in 1..m /\ pos - 1 < pos
          BY <1>1, <4>2
        <5>2. pos - 1 \in 1..k /\ values[pos - 1] \in Int /\ values[pos - 1] <= x
          BY <1>1, <1>6, <5>1
        <5>3. pos - 1 <= AtMost(samples, values[pos - 1])
          BY <5>2 DEF Kept, Ranks, AtMost
        <5>4. AtMost(samples, values[pos - 1]) <= AtMost(samples, x)
          BY <5>2, CountsGrow
        <5>5. AtMost(samples, values[pos - 1]) \in Nat /\ AtMost(samples, x) \in Nat
          BY <5>2, Counts
        <5> QED
          BY <1>1, <5>3, <5>4, <5>5
      <4> QED
        BY <4>1, <4>2
    <3>3. /\ Below(more, x) = Below(samples, x) + (IF x < x THEN 1 ELSE 0)
          /\ AtMost(more, x) = AtMost(samples, x) + (IF x <= x THEN 1 ELSE 0)
      BY CountsAdd
    <3>4. Below(samples, x) \in Nat /\ AtMost(samples, x) \in Nat
      BY Counts
    <3>5. Below(more, x) < pos /\ pos <= AtMost(more, x)
      BY <3>1, <3>2, <3>3, <3>4
    <3> QED
      BY <1>3, <2>1, <3>5 DEF Ranks, Below, AtMost
  <2>2. CASE i < pos
    <3> DEFINE v == values[i]
    <3>1. i \in 1..(pos - 1)
      BY <1>1, <2>2
    <3>2. r[i] = v /\ i \in 1..m /\ v \in Int
      BY <1>3, <1>6, <3>1
    <3>3. v <= x
      BY <1>1, <2>2, <3>2
    <3>4. Below(samples, v) < i /\ i <= AtMost(samples, v)
      BY <1>6, <3>2 DEF Kept, Ranks, Below, AtMost
    <3> HIDE DEF v
    <3>5. /\ Below(more, v) = Below(samples, v) + (IF x < v THEN 1 ELSE 0)
          /\ AtMost(more, v) = AtMost(samples, v) + (IF x <= v THEN 1 ELSE 0)
      BY <3>2, CountsAdd
    <3>6. Below(samples, v) \in Nat /\ AtMost(samples, v) \in Nat
      BY <3>2, Counts
    <3>7. Below(more, v) < i /\ i <= AtMost(more, v)
      BY <3>2, <3>3, <3>4, <3>5, <3>6
    <3> QED
      BY <3>2, <3>7 DEF Ranks, Below, AtMost
  <2>3. CASE i > pos
    <3> DEFINE v == values[i - 1]
    <3>1. i \in (pos + 1)..(m + 1)
      BY <1>1, <2>3
    <3>2. r[i] = v /\ i - 1 \in 1..m /\ v \in Int /\ pos <= i - 1
      BY <1>3, <1>6, <3>1
    <3>3. pos \in 1..k /\ i - 1 \in 1..k /\ pos <= m
      BY <1>1, <3>2
    <3>4. values[pos] <= v
      BY <3>2, <3>3, KeptSorted
    <3>5. values[pos] > x /\ values[pos] \in Int
      BY <1>1, <1>6, <3>3
    <3>6. Below(samples, v) < i - 1 /\ i - 1 <= AtMost(samples, v)
      BY <3>3 DEF Kept, Ranks, Below, AtMost
    <3> HIDE DEF v
    <3>7. /\ Below(more, v) = Below(samples, v) + (IF x < v THEN 1 ELSE 0)
          /\ AtMost(more, v) = AtMost(samples, v) + (IF x <= v THEN 1 ELSE 0)
      BY <3>2, CountsAdd
    <3>8. Below(samples, v) \in Nat /\ AtMost(samples, v) \in Nat
      BY <3>2, Counts
    <3>9. x < v /\ x <= v
      BY <3>2, <3>4, <3>5
    <3>10. Below(more, v) < i /\ i <= AtMost(more, v)
      BY <3>6, <3>7, <3>8, <3>9
    <3> QED
      BY <3>2, <3>10 DEF Ranks, Below, AtMost
  <2> QED
    BY <1>1, <2>1, <2>2, <2>3
<1> QED
  BY <1>4, <1>7 DEF Kept, r

(* How many values are kept.                                               *)
Keeping(count, kbest) == IF count < kbest THEN count ELSE kbest

(* add_sample keeps the K smallest, in order.                              *)
LEMMA AddKeeps ==
  ASSUME NEW samples \in Seq(Int), NEW kbest \in Nat \ {0}, NEW values \in [1..kbest -> Int],
         Kept(samples, values, Keeping(Len(samples), kbest)), NEW x \in Int
  PROVE  /\ add_sample(values, Len(samples), kbest, x) \in [1..kbest -> Int]
         /\ Kept(Append(samples, x), add_sample(values, Len(samples), kbest, x),
                 Keeping(Len(samples) + 1, kbest))
<1> DEFINE count == Len(samples)
           more == Append(samples, x)
<1>1. count \in Nat /\ kbest \in Nat
  BY LenProperties
<1>2. CASE count < kbest
  <2>1. /\ count <= kbest /\ count <= count /\ count + 1 <= kbest /\ count = count
        /\ Keeping(count, kbest) = count /\ Keeping(count + 1, kbest) = count + 1
    BY <1>1, <1>2 DEF Keeping
  <2>2. Kept(samples, values, count)
    BY <2>1
  <2>3. /\ Insert(values, count, x) \in [1..kbest -> Int]
        /\ Kept(more, Insert(values, count, x), count + 1)
    BY <1>1, <2>1, <2>2, InsertKeeps
  <2>4. add_sample(values, count, kbest, x) = Insert(values, count, x)
    BY <1>2 DEF add_sample
  <2> QED
    BY <2>1, <2>3, <2>4
<1>3. CASE ~(count < kbest) /\ x < values[kbest]
  <2> DEFINE m == kbest - 1
  <2>1. /\ m \in Nat /\ kbest <= kbest /\ m <= kbest /\ m + 1 <= kbest /\ kbest = m + 1 /\ m # kbest
        /\ Keeping(count, kbest) = kbest /\ Keeping(count + 1, kbest) = m + 1
    BY <1>1, <1>3 DEF Keeping
  <2>2. Kept(samples, values, kbest)
    BY <2>1
  <2>3. add_sample(values, count, kbest, x) = Insert(values, m, x)
    BY <1>3 DEF add_sample
  <2> HIDE DEF m
  <2>4. /\ Insert(values, m, x) \in [1..kbest -> Int]
        /\ Kept(more, Insert(values, m, x), m + 1)
    <3>1. /\ kbest = m \/ x < values[kbest]
          /\ kbest = m \/ kbest = m + 1
          /\ m = kbest => kbest = Len(samples)
          /\ kbest \in Nat /\ m \in Nat /\ kbest <= kbest /\ m <= kbest /\ m + 1 <= kbest
      BY <1>1, <1>3, <2>1
    <3> QED
      BY <2>2, <3>1, InsertKeeps
  <2> QED
    BY <2>1, <2>3, <2>4
<1>4. CASE ~(count < kbest) /\ ~(x < values[kbest])
  <2>1. Keeping(count, kbest) = kbest /\ Keeping(count + 1, kbest) = kbest
    BY <1>1, <1>4 DEF Keeping
  <2>2. add_sample(values, count, kbest, x) = values
    BY <1>4 DEF add_sample
  <2>3. Kept(samples, values, kbest)
    BY <2>1
  <2>4. ASSUME NEW i \in 1..kbest PROVE Ranks(more, i, values[i])
    <3> DEFINE v == values[i]
    <3>1. kbest \in 1..kbest /\ i <= kbest /\ kbest <= kbest
      OBVIOUS
    <3>2. v <= values[kbest]
      BY <1>1, <2>3, <3>1, KeptSorted
    <3>3. v \in Int /\ values[kbest] \in Int
      BY <3>1
    <3>4. Below(samples, v) < i /\ i <= AtMost(samples, v)
      BY <2>3 DEF Kept, Ranks, Below, AtMost
    <3> HIDE DEF v
    <3>5. v <= x
      BY <1>4, <3>2, <3>3
    <3>6. /\ Below(more, v) = Below(samples, v) + (IF x < v THEN 1 ELSE 0)
          /\ AtMost(more, v) = AtMost(samples, v) + (IF x <= v THEN 1 ELSE 0)
      BY <3>3, CountsAdd
    <3>7. Below(samples, v) \in Nat /\ AtMost(samples, v) \in Nat
      BY <3>3, Counts
    <3>8. Below(more, v) < i /\ i <= AtMost(more, v)
      BY <3>3, <3>4, <3>5, <3>6, <3>7
    <3> QED
      BY <3>8 DEF Ranks, Below, AtMost, v
  <2> QED
    BY <2>1, <2>2, <2>4 DEF Kept
<1> QED
  BY <1>2, <1>3, <1>4

(* What callibrate finds is a number.                                      *)
LEMMA Calibrated == ASSUME NEW events \in [1..NEVENT -> Gaps] PROVE callibrate(events) \in Int
<1> DEFINE ratios == {events[e].cycles \div events[e].ticks : e \in DOMAIN events}
           interrupts == {cpt \in ratios : cpt > RECORDTHRESH}
<1>1. \A e \in DOMAIN events : events[e].cycles \in Nat /\ events[e].ticks \in Nat \ {0}
  BY TimerAssumption
<1>2. \A a \in Nat, b \in Nat \ {0} : a \div b \in Int
  OBVIOUS
<1>3. ratios \subseteq Int
  BY <1>1, <1>2
<1>4. interrupts \subseteq Nat
  <2>1. \A cpt \in Int : cpt > RECORDTHRESH => cpt \in Nat
    BY TimerAssumption
  <2> HIDE DEF ratios
  <2> QED
    BY <1>3, <2>1
<1>5. callibrate(events) = IF interrupts = {} THEN 0 ELSE Min(interrupts)
  BY Zenon DEF callibrate
<1> HIDE DEF interrupts
<1>6. CASE interrupts # {}
  <2>1. \E i \in interrupts : \A j \in interrupts : i <= j
    BY <1>4, <1>6, LeastNat
  <2>2. Min(interrupts) \in interrupts
    BY <2>1 DEF Min
  <2>3. \A cpt \in interrupts : cpt \in Int
    BY <1>4
  <2>4. callibrate(events) = Min(interrupts)
    BY <1>5, <1>6
  <2> QED
    BY <2>2, <2>3, <2>4, Zenon
<1> QED
  BY <1>5, <1>6

(* Of the timers: the values kept while one measures, what it has measured *)
(* once it is done, and the buffer as large as what is read of it.         *)
Timers == [scheme : {"FCYC", "ITIMER", "GETTOD"}, pc : {"idle", "sample", "killed"}, kbest : Nat \ {0},
           compensate : BOOLEAN, clear_cache : BOOLEAN, cyc_per_tick : Int,
           cache_bytes : Nat \ {0}, cache_buf : Nat, values : Seq(Int), samples : Seq(Int),
           result : Int]

Measures(timer) ==
  /\ timer.scheme = "FCYC" /\ timer.values \in [1..timer.kbest -> Int]
  /\ Kept(timer.samples, timer.values, Keeping(Len(timer.samples), timer.kbest))

HasMeasured(timer) ==
  Len(timer.samples) > 0 =>
    IF timer.scheme = "FCYC" THEN Ranks(timer.samples, 1, timer.result)
    ELSE timer.result = Total(timer.samples)

Cleared(timer) == timer.cache_buf \in {0, timer.cache_bytes}

TimerInv ==
  /\ fcyc \in Timers /\ Cleared(fcyc)
  /\ fcyc.pc = "sample" => Measures(fcyc)
  /\ fcyc.pc = "idle" => HasMeasured(fcyc)

(* It implies the property.                                                *)
LEMMA TimerHolds == TimerInv => KBestKept
<1> SUFFICES ASSUME TimerInv PROVE KBestKept
  OBVIOUS
<1> DEFINE count == Len(fcyc.samples)
           k == IF count < fcyc.kbest THEN count ELSE fcyc.kbest
<1>1. fcyc.pc = "sample" => \A i \in 1..k : Ranks(fcyc.samples, i, fcyc.values[i])
  <2>1. k = Keeping(count, fcyc.kbest)
    BY DEF Keeping
  <2> HIDE DEF k, count
  <2> QED
    BY <2>1 DEF TimerInv, Measures, Kept, count
<1>2. fcyc.pc = "idle" /\ count > 0 =>
        IF fcyc.scheme = "FCYC" THEN Ranks(fcyc.samples, 1, fcyc.result)
        ELSE fcyc.result = Total(fcyc.samples)
  BY DEF TimerInv, HasMeasured
<1>3. fcyc.cache_buf # 0 => fcyc.cache_bytes <= fcyc.cache_buf
  BY DEF TimerInv, Cleared, Timers
<1> HIDE DEF count, k
<1> QED
  BY <1>1, <1>2, <1>3 DEF KBestKept, count, k

(* Nothing is measured yet.                                                *)
LEMMA TimerStarts ==
  ASSUME NEW scheme \in {"FCYC", "ITIMER", "GETTOD"}, init_fsecs(scheme) PROVE TimerInv
<1>1. <<>> \in Seq(Int) /\ Len(<<>>) = 0
  BY EmptySeq
<1>2. fcyc \in Timers
  BY <1>1 DEF init_fsecs, Timers
<1> QED
  BY <1>1, <1>2 DEF init_fsecs, TimerInv, Cleared, HasMeasured

(* Other samples and another result leave the rest as it is.               *)
Anew(timer, s, r) == [timer EXCEPT !.samples = s, !.result = r]

(* Its type, its buffer and its scheme stay.                               *)
LEMMA Remeasured ==
  ASSUME NEW timer \in Timers, Cleared(timer), NEW s \in Seq(Int), NEW r \in Int
  PROVE  /\ Anew(timer, s, r) \in Timers /\ Cleared(Anew(timer, s, r))
         /\ Anew(timer, s, r).pc = timer.pc /\ Anew(timer, s, r).scheme = timer.scheme
         /\ Anew(timer, s, r).samples = s /\ Anew(timer, s, r).result = r
BY DEF Timers, Cleared, Anew

(* A setting starts over, with what is left of the buffer.                 *)
LEMMA SetInv ==
  ASSUME TimerInv,
         set_fcyc_k \/ set_fcyc_compensate \/ set_fcyc_clear_cache \/ set_fcyc_cache_size
  PROVE  TimerInv'
<1>1. /\ fcyc \in Timers /\ Cleared(fcyc) /\ fcyc.pc = "idle" /\ fcyc.scheme = "FCYC"
      /\ fcyc.cache_buf \in {0, fcyc.cache_bytes}
  BY DEF TimerInv, Cleared, set_fcyc_k, set_fcyc_compensate, set_fcyc_clear_cache,
         set_fcyc_cache_size, Set, Idle
<1>2. <<>> \in Seq(Int) /\ Len(<<>>) = 0
  BY EmptySeq
<1>3. PICK timer \in Timers : Cleared(timer) /\ timer.pc = "idle" /\ Set(timer)
  <2>1. CASE set_fcyc_k
    <3>1. PICK k \in Ks : Set([fcyc EXCEPT !.kbest = k])
      BY <2>1 DEF set_fcyc_k
    <3> DEFINE timer == [fcyc EXCEPT !.kbest = k]
    <3>2. timer \in Timers /\ Cleared(timer) /\ timer.pc = "idle"
      BY <1>1, TimerAssumption DEF Timers, Cleared
    <3> QED
      BY <3>1, <3>2
  <2>2. CASE set_fcyc_compensate
    <3> DEFINE timer == [fcyc EXCEPT !.compensate = ~@]
    <3>1. timer \in Timers /\ Cleared(timer) /\ timer.pc = "idle"
      BY <1>1 DEF Timers, Cleared
    <3> QED
      BY <2>2, <3>1 DEF set_fcyc_compensate
  <2>3. CASE set_fcyc_clear_cache
    <3> DEFINE timer == [fcyc EXCEPT !.clear_cache = ~@]
    <3>1. timer \in Timers /\ Cleared(timer) /\ timer.pc = "idle"
      BY <1>1 DEF Timers, Cleared
    <3> QED
      BY <2>3, <3>1 DEF set_fcyc_clear_cache
  <2>4. CASE set_fcyc_cache_size
    <3>1. PICK bytes \in CacheSizes : Set([fcyc EXCEPT !.cache_bytes = bytes, !.cache_buf = 0])
      BY <2>4 DEF set_fcyc_cache_size
    <3> DEFINE timer == [fcyc EXCEPT !.cache_bytes = bytes, !.cache_buf = 0]
    <3>2. timer \in Timers /\ Cleared(timer) /\ timer.pc = "idle"
      BY <1>1, TimerAssumption DEF Timers, Cleared
    <3> QED
      BY <3>1, <3>2
  <2> QED
    BY <2>1, <2>2, <2>3, <2>4
<1>4. fcyc' = [timer EXCEPT !.samples = <<>>, !.result = 0]
  BY <1>3 DEF Set
<1>5. fcyc' \in Timers /\ Cleared(fcyc') /\ fcyc'.pc = "idle" /\ fcyc'.samples = <<>>
  <2>1. 0 \in Int
    OBVIOUS
  <2>2. fcyc' = Anew(timer, <<>>, 0)
    BY <1>4 DEF Anew
  <2>3. /\ Anew(timer, <<>>, 0) \in Timers /\ Cleared(Anew(timer, <<>>, 0))
        /\ Anew(timer, <<>>, 0).pc = timer.pc /\ Anew(timer, <<>>, 0).samples = <<>>
    <3>1. timer \in Timers /\ Cleared(timer) /\ <<>> \in Seq(Int)
      BY <1>2, <1>3
    <3> QED
      BY <2>1, <3>1, Remeasured
  <2> QED
    BY <1>3, <2>2, <2>3, Zenon
<1> QED
  BY <1>2, <1>5 DEF TimerInv, HasMeasured

(* init_sampler keeps nothing yet.                                         *)
LEMMA StartInv == ASSUME TimerInv, Start PROVE TimerInv'
<1>1. /\ fcyc \in Timers /\ Cleared(fcyc) /\ fcyc.pc = "idle" /\ fcyc.scheme = "FCYC"
      /\ fcyc' = [fcyc EXCEPT !.pc = "sample", !.values = [i \in 1..fcyc.kbest |-> 0],
                              !.samples = <<>>]
  BY DEF TimerInv, Start, Idle
<1>2. <<>> \in Seq(Int) /\ Len(<<>>) = 0
  BY EmptySeq
<1> DEFINE zeros == [i \in 1..fcyc.kbest |-> 0]
<1>3. fcyc.kbest \in Nat
  BY <1>1 DEF Timers
<1>4. zeros \in [1..fcyc.kbest -> Int]
  OBVIOUS
<1>5. zeros \in Seq(Int)
  BY <1>3, <1>4, SeqDef
<1> HIDE DEF zeros
<1>6. fcyc' = [fcyc EXCEPT !.pc = "sample", !.values = zeros, !.samples = <<>>]
  BY <1>1 DEF zeros
<1>7. /\ fcyc' \in Timers /\ Cleared(fcyc') /\ fcyc'.pc = "sample" /\ fcyc'.scheme = "FCYC"
      /\ fcyc'.samples = <<>> /\ fcyc'.values = zeros /\ fcyc'.kbest = fcyc.kbest
  BY <1>1, <1>2, <1>5, <1>6 DEF Timers, Cleared
<1>8. Kept(<<>>, zeros, Keeping(Len(<<>>), fcyc.kbest))
  <2>1. Keeping(Len(<<>>), fcyc.kbest) = 0
    BY <1>1, <1>2, <1>3 DEF Keeping, Timers
  <2>2. \A i \in 1..0 : FALSE
    OBVIOUS
  <2> QED
    BY <2>1, <2>2 DEF Kept
<1>9. Measures(fcyc')
  BY <1>4, <1>7, <1>8 DEF Measures
<1> QED
  BY <1>7, <1>9 DEF TimerInv

(* A turn of fcyc's loop.                                                  *)
LEMMA SampleInv == ASSUME TimerInv, Sample PROVE TimerInv'
<1>1. /\ fcyc \in Timers /\ Cleared(fcyc) /\ Measures(fcyc) /\ fcyc.pc = "sample"
  BY DEF TimerInv, Sample
<1>2. PICK cpt \in (IF fcyc.compensate THEN start_comp_counter ELSE {fcyc.cyc_per_tick}),
           cycles \in Cycles, ticks \in Ticks, start \in Starts :
       LET cyc == IF fcyc.compensate
                  THEN get_comp_counter(start, start + cycles, ticks, cpt)
                  ELSE get_counter(start, start + cycles)
           samples == Append(fcyc.samples,
                        cycles - (IF fcyc.compensate THEN ticks * cpt ELSE 0))
           values  == add_sample(fcyc.values, Len(fcyc.samples), fcyc.kbest, cyc)
           over    == has_converged(values, Len(samples), fcyc.kbest) \/ Len(samples) >= maxsamples
       IN  fcyc' = [fcyc EXCEPT
             !.pc = IF over THEN "idle" ELSE "sample",
             !.cyc_per_tick = cpt,
             !.cache_buf = clear(fcyc),
             !.samples = samples, !.values = IF over THEN <<>> ELSE values,
             !.result = IF over THEN values[1] ELSE @]
  BY Zenon DEF Sample
<1> DEFINE x == cycles - (IF fcyc.compensate THEN ticks * cpt ELSE 0)
           samples == Append(fcyc.samples, x)
           values == add_sample(fcyc.values, Len(fcyc.samples), fcyc.kbest, x)
           over == has_converged(values, Len(samples), fcyc.kbest) \/ Len(samples) >= maxsamples
<1>3. cpt \in Int /\ cycles \in Nat /\ ticks \in Nat /\ start \in Nat /\ cycles \in Cycles
  <2>1. start_comp_counter \subseteq Int
    <3>1. fcyc.cyc_per_tick \in Int
      BY <1>1 DEF Timers
    <3> QED
      BY <3>1, Calibrated DEF start_comp_counter
  <2>2. fcyc.cyc_per_tick \in Int
    BY <1>1 DEF Timers
  <2> QED
    BY <1>2, <2>1, <2>2, TimerAssumption
<1>4. get_counter(start, start + cycles) = cycles
  <2>1. cycles \in 0..(WordSize * WordSize - 1)
    BY <1>3, TimerAssumption
  <2> QED
    BY <1>3, <2>1, CounterExact
<1>5. x = IF fcyc.compensate THEN get_comp_counter(start, start + cycles, ticks, cpt)
          ELSE get_counter(start, start + cycles)
  BY <1>3, <1>4 DEF get_comp_counter
<1>6. x \in Int
  <2>1. ticks * cpt \in Int
    BY <1>3
  <2> QED
    BY <1>3, <2>1
<1> HIDE DEF x
<1>7. fcyc' = [fcyc EXCEPT
             !.pc = IF over THEN "idle" ELSE "sample",
             !.cyc_per_tick = cpt,
             !.cache_buf = clear(fcyc),
             !.samples = samples, !.values = IF over THEN <<>> ELSE values,
             !.result = IF over THEN values[1] ELSE @]
  BY <1>2, <1>5, Zenon DEF x
<1>8. /\ fcyc.samples \in Seq(Int) /\ fcyc.kbest \in Nat \ {0}
      /\ fcyc.values \in [1..fcyc.kbest -> Int] /\ fcyc.scheme = "FCYC"
      /\ Kept(fcyc.samples, fcyc.values, Keeping(Len(fcyc.samples), fcyc.kbest))
  BY <1>1 DEF Timers, Measures
<1>9. /\ values \in [1..fcyc.kbest -> Int]
      /\ Kept(samples, values, Keeping(Len(fcyc.samples) + 1, fcyc.kbest))
  BY <1>6, <1>8, AddKeeps
<1>10. samples \in Seq(Int) /\ Len(samples) = Len(fcyc.samples) + 1 /\ Len(fcyc.samples) \in Nat
  BY <1>6, <1>8, AppendProperties, LenProperties
<1> HIDE DEF samples, values, over
<1>11. /\ values \in Seq(Int) /\ <<>> \in Seq(Int) /\ values[1] \in Int
       /\ 1 \in 1..Keeping(Len(samples), fcyc.kbest)
  <2>1. values[1] \in Int
    BY <1>8, <1>9
  <2>2. 1 \in 1..Keeping(Len(samples), fcyc.kbest)
    BY <1>8, <1>10 DEF Keeping
  <2> QED
    BY <1>8, <1>9, <2>1, <2>2, SeqDef
<1>12. clear(fcyc) \in Nat /\ clear(fcyc) \in {0, fcyc.cache_bytes}
  BY <1>1 DEF clear, Cleared, Timers
<1>13. /\ fcyc' \in Timers /\ Cleared(fcyc') /\ fcyc'.scheme = "FCYC" /\ fcyc'.kbest = fcyc.kbest
       /\ fcyc'.samples = samples /\ fcyc'.pc = IF over THEN "idle" ELSE "sample"
       /\ fcyc'.values = IF over THEN <<>> ELSE values
       /\ over => fcyc'.result = values[1]
  <2> DEFINE buf == clear(fcyc)
  <2>1. buf \in Nat /\ buf \in {0, fcyc.cache_bytes}
    BY <1>12
  <2>2. fcyc' = [fcyc EXCEPT
             !.pc = IF over THEN "idle" ELSE "sample",
             !.cyc_per_tick = cpt, !.cache_buf = buf,
             !.samples = samples, !.values = IF over THEN <<>> ELSE values,
             !.result = IF over THEN values[1] ELSE @]
    BY <1>7
  <2> HIDE DEF buf
  <2>3. CASE over
    <3>1. fcyc' = [fcyc EXCEPT !.pc = "idle", !.cyc_per_tick = cpt, !.cache_buf = buf,
                               !.samples = samples, !.values = <<>>, !.result = values[1]]
      BY <2>2, <2>3
    <3> QED
      BY <1>1, <1>3, <1>8, <1>10, <1>11, <2>1, <2>3, <3>1 DEF Timers, Cleared
  <2>4. CASE ~over
    <3>1. fcyc' = [fcyc EXCEPT !.pc = "sample", !.cyc_per_tick = cpt, !.cache_buf = buf,
                               !.samples = samples, !.values = values]
      BY <1>1, <2>2, <2>4 DEF Timers
    <3> QED
      BY <1>1, <1>3, <1>8, <1>10, <1>11, <2>1, <2>4, <3>1 DEF Timers, Cleared
  <2> QED
    BY <2>3, <2>4
<1>14. CASE over
  <2>1. Ranks(samples, 1, values[1])
    BY <1>9, <1>10, <1>11 DEF Kept
  <2> QED
    BY <1>13, <1>14, <2>1 DEF TimerInv, HasMeasured
<1>15. CASE ~over
  <2>1. Measures(fcyc')
    BY <1>9, <1>10, <1>13, <1>15 DEF Measures
  <2> QED
    BY <1>13, <1>15, <2>1 DEF TimerInv
<1> QED
  BY <1>14, <1>15

(* The runs by the clock, in all.                                          *)
LEMMA FsecsInv == ASSUME TimerInv, NEW scheme \in {"ITIMER", "GETTOD"}, fsecs(scheme) PROVE TimerInv'
<1>1. fcyc \in Timers /\ Cleared(fcyc) /\ fcyc.pc = "idle" /\ fcyc.scheme = scheme
  BY DEF TimerInv, fsecs, Idle
<1> DEFINE Over(runs, now) == scheme = "ITIMER" /\ now + Total(runs) >= MAX_ETIME * Usecs
<1>2. PICK runs \in [1..Runs -> Durations], now \in 0..(Usecs - 1) :
        fcyc' = IF Over(runs, now) THEN [fcyc EXCEPT !.pc = "killed"]
                ELSE [fcyc EXCEPT !.samples = runs,
                        !.result = IF scheme = "GETTOD" THEN ftimer_gettod(now, Total(runs))
                                   ELSE ftimer_itimer(now, Total(runs))]
  BY Zenon DEF fsecs
<1> HIDE DEF Over
<1>3. Runs \in Nat /\ runs \in [1..Runs -> Nat] /\ now \in Nat
  <2>1. Runs \in Nat /\ Durations \subseteq Nat /\ Usecs \in Nat
    BY TimerAssumption
  <2>2. runs \in [1..Runs -> Nat]
    BY <2>1
  <2>3. now \in Nat
    BY <2>1
  <2> QED
    BY <2>1, <2>2, <2>3
<1>4. runs \in Seq(Nat) /\ runs \in Seq(Int) /\ Len(runs) = Runs
  <2>1. runs \in [1..Runs -> Int]
    BY <1>3
  <2>2. runs \in Seq(Nat) /\ runs \in Seq(Int)
    BY <1>3, <2>1, SeqDef
  <2> QED
    BY <1>3, <2>2, LenProperties
<1>5. Total(runs) \in Nat
  <2>1. PICK sum \in [0..Runs -> Nat] : Total(runs) = sum[Runs]
    BY <1>3, <1>4, TotalSum
  <2>2. Runs \in 0..Runs
    BY <1>3
  <2> QED
    BY <2>1, <2>2
<1> DEFINE spent == Total(runs)
<1> HIDE DEF spent
<1>6. CASE Over(runs, now)
  <2>1. fcyc' = [fcyc EXCEPT !.pc = "killed"]
    BY <1>2, <1>6
  <2>2. fcyc' \in Timers /\ Cleared(fcyc') /\ fcyc'.pc = "killed"
    BY <1>1, <2>1 DEF Timers, Cleared
  <2> QED
    BY <2>2 DEF TimerInv
<1>7. SUFFICES ASSUME ~Over(runs, now) PROVE TimerInv'
  BY <1>6
<1>8. spent \in Nat /\ fcyc' = [fcyc EXCEPT !.samples = runs,
                                  !.result = IF scheme = "GETTOD" THEN ftimer_gettod(now, spent)
                                             ELSE ftimer_itimer(now, spent)]
  BY <1>2, <1>5, <1>7 DEF spent
<1>9. ftimer_gettod(now, spent) = spent /\ ftimer_itimer(now, spent) = spent
  BY <1>3, <1>8, ClocksExact
<1>10. fcyc' = [fcyc EXCEPT !.samples = runs, !.result = spent]
  BY <1>8, <1>9
<1>11. /\ fcyc' \in Timers /\ Cleared(fcyc') /\ fcyc'.pc = "idle" /\ fcyc'.scheme = scheme
      /\ fcyc'.samples = runs /\ fcyc'.result = spent
  <2>1. spent \in Int
    BY <1>8
  <2>2. fcyc' = Anew(fcyc, runs, spent)
    BY <1>10 DEF Anew
  <2>3. /\ Anew(fcyc, runs, spent) \in Timers /\ Cleared(Anew(fcyc, runs, spent))
        /\ Anew(fcyc, runs, spent).pc = fcyc.pc /\ Anew(fcyc, runs, spent).scheme = fcyc.scheme
        /\ Anew(fcyc, runs, spent).samples = runs /\ Anew(fcyc, runs, spent).result = spent
    BY <1>1, <1>4, <2>1, Remeasured
  <2> QED
    BY <1>1, <2>2, <2>3, Zenon
<1> QED
  BY <1>11 DEF TimerInv, HasMeasured, spent

(* Every step of the timers.                                               *)
LEMMA TimerNextInv == TimerInv /\ TimerNext => TimerInv'
BY SetInv, StartInv, SampleInv, FsecsInv DEF TimerNext

(***************************************************************************)
(* The malloc driver's main.                                               *)
(***************************************************************************)
Options == {"g", "f", "t", "a", "l", "h"}
Stats   == [ops : Nat \ {0}, valid : BOOLEAN, secs : Nat, util : 0..100]
FileGiven   == "f" \in ToSet(md.args)
Named       == {"f", "t"} \cap ToSet(md.args) # {}

(* What Report prints is what IndexRight asks of it.                       *)
Reported ==
  /\ Named
  /\ md.printed.numcorrect = md.tracefiles - md.errors
  /\ (md.errors = 0) <=> (Valid(md.mm_stats) = DOMAIN md.mm_stats)
  /\ md.errors = 0 => md.table = md.printed.sums
  /\ md.printed.perfindex \in 0..100
  /\ md.errors > 0 => md.printed.perfindex = 0 /\ md.table = <<>>
  /\ (2 * md.printed.perfindex - 81) * (100 * md.tracefiles) <= 120 * md.printed.sums[3]

(* The fields of the driver's state.                                       *)
Fields(m) ==
  m = [pc |-> m.pc, args |-> m.args, team |-> m.team, tracedir |-> m.tracedir,
       tracefiles |-> m.tracefiles, team_check |-> m.team_check, run_libc |-> m.run_libc,
       autograder |-> m.autograder, libc_stats |-> m.libc_stats, mm_stats |-> m.mm_stats,
       errors |-> m.errors, table |-> m.table, printed |-> m.printed]

(* An error is counted for every trace that is not valid; what the options *)
(* chose holds whatever came after, and a trace is read only where they    *)
(* chose one; nothing is printed before the end.                           *)
MdInv ==
  /\ Fields(md)
  /\ md.pc \in {"getopt", "libc", "libc_speed", "mm", "exit"}
  /\ md.args \in Seq(Options) /\ md.mm_stats \in Seq(Stats) /\ md.tracefiles \in Nat
  /\ md.tracedir = IF FileGiven THEN "./" ELSE IF "t" \in ToSet(md.args) THEN "dir/" ELSE TRACEDIR
  /\ md.pc = "getopt" => md.tracefiles = IF FileGiven THEN 1 ELSE 0
  /\ md.pc \in {"libc", "libc_speed", "mm"} =>
       md.tracefiles = IF FileGiven THEN 1 ELSE DEFAULT_TRACEFILES
  /\ md.pc # "exit" => /\ md.errors = Len(md.mm_stats) - Cardinality(Valid(md.mm_stats))
                       /\ md.printed = NoIndex
  /\ md.pc = "libc_speed" => Named
  /\ md.libc_stats # <<>> => Named
  /\ md.mm_stats # <<>> => Named
  /\ md.printed # NoIndex => Reported

(* A quotient stays below a bound.                                         *)
LEMMA Share ==
  ASSUME NEW a \in Nat, NEW d \in Nat \ {0}, NEW c \in Nat, a <= c * d
  PROVE  a \div d \in 0..c
<1> DEFINE Q == a \div d
           R == a % d
<1>1. Q \in Int /\ R \in 0..(d - 1) /\ a = Q * d + R
  BY Divided
<1> HIDE DEF Q, R
<1>2. ~(Q <= -1)
  <2> SUFFICES ASSUME Q <= -1 PROVE FALSE
    OBVIOUS
  <2>1. Q * d <= -d
    BY <1>1
  <2> QED
    BY <1>1, <2>1
<1>3. ~(Q >= c + 1)
  <2> SUFFICES ASSUME Q >= c + 1 PROVE FALSE
    OBVIOUS
  <2>1. Q * d >= c * d + d
    <3>1. (Q - c) * d >= d
      BY <1>1
    <3>2. (Q - c) * d = Q * d - c * d
      BY <1>1
    <3>3. Q * d \in Int /\ c * d \in Int
      BY <1>1
    <3> DEFINE qd == Q * d
               cd == c * d
               e  == (Q - c) * d
    <3>4. qd \in Int /\ cd \in Int /\ e = qd - cd /\ e >= d
      BY <3>1, <3>2, <3>3
    <3> HIDE DEF qd, cd, e
    <3>5. qd >= cd + d
      BY <3>4
    <3> QED
      BY <3>5 DEF qd, cd
  <2> DEFINE qd == Q * d
             cd == c * d
  <2>2. qd \in Int /\ cd \in Int /\ a = qd + R /\ a <= cd /\ qd >= cd + d
    BY <1>1, <2>1
  <2> HIDE DEF qd, cd
  <2> QED
    BY <1>1, <2>2
<1> QED
  BY <1>1, <1>2, <1>3 DEF Q

(* A total of shares is at most a hundred for each.                        *)
LEMMA TotalHundred ==
  ASSUME NEW n \in Nat, NEW f \in [1..n -> Nat], Len(f) = n, \A i \in 1..n : f[i] <= 100
  PROVE  Total(f) \in Nat /\ Total(f) <= 100 * n
<1>1. PICK sum \in [0..n -> Nat] :
        sum[0] = 0 /\ Total(f) = sum[n] /\ \A k \in 1..n : sum[k] = sum[k - 1] + f[k]
  BY TotalSum
<1> DEFINE Fair(k) == sum[k] <= 100 * k
           Off == {k \in 0..n : ~Fair(k)}
<1>2. Off = {}
  <2> SUFFICES ASSUME Off # {} PROVE FALSE
    OBVIOUS
  <2>1. Off \subseteq Nat
    OBVIOUS
  <2> HIDE DEF Off
  <2>2. PICK m \in Off : \A k \in Off : m <= k
    BY <2>1, LeastNat
  <2>3. m \in 0..n /\ ~Fair(m)
    BY <2>2 DEF Off
  <2>4. CASE m = 0
    BY <1>1, <2>3, <2>4
  <2>5. CASE m # 0
    <3>1. m \in Nat /\ m \in 1..n /\ m - 1 \in 0..n /\ ~(m <= m - 1)
      BY <2>3, <2>5
    <3>2. Fair(m - 1)
      BY <2>2, <3>1 DEF Off
    <3>3. /\ sum[m] = sum[m - 1] + f[m] /\ f[m] \in Nat /\ f[m] <= 100
          /\ sum[m - 1] \in Nat
      BY <1>1, <3>1
    <3> QED
      BY <2>3, <3>1, <3>2, <3>3
  <2> QED
    BY <2>4, <2>5
<1>3. n \in 0..n /\ sum[n] \in Nat
  BY <1>1
<1>4. Fair(n)
  <2> HIDE DEF Fair
  <2> QED
    BY <1>2, <1>3
<1> QED
  BY <1>1, <1>3, <1>4

(* The last of the numbers is no more than the total.                      *)
LEMMA TotalLast ==
  ASSUME NEW n \in Nat \ {0}, NEW f \in [1..n -> Nat], Len(f) = n
  PROVE  Total(f) \in Nat /\ f[n] <= Total(f)
<1>1. PICK sum \in [0..n -> Nat] :
        sum[0] = 0 /\ Total(f) = sum[n] /\ \A k \in 1..n : sum[k] = sum[k - 1] + f[k]
  BY TotalSum
<1>2. n \in 1..n /\ n \in 0..n /\ n - 1 \in 0..n
  OBVIOUS
<1>3. sum[n] = sum[n - 1] + f[n] /\ sum[n - 1] \in Nat /\ sum[n] \in Nat /\ f[n] \in Nat
  BY <1>1, <1>2
<1> QED
  BY <1>1, <1>3

(* What is printed of a share of a hundred, and how far it is rounded up.  *)
LEMMA NearestBounds ==
  ASSUME NEW num \in Nat, NEW den \in Nat \ {0}, num <= 100 * den, NEW q \in Nearest(num, den)
  PROVE  q \in 0..100 /\ (2 * q - 1) * den <= 2 * num
<1>1. num \div den \in 0..100
  BY Share
<1>2. /\ q = num \div den \/ q = num \div den + 1
      /\ (2 * q - 1) * den <= 2 * num
  BY DEF Nearest
<1>3. q \in 0..101
  BY <1>1, <1>2
<1>4. q # 101
  <2> SUFFICES ASSUME q = 101 PROVE FALSE
    OBVIOUS
  <2>1. (2 * q - 1) * den = 201 * den
    OBVIOUS
  <2> QED
    BY <1>2, <2>1
<1> QED
  BY <1>2, <1>3, <1>4

(* What is no more than nothing when multiplied is no more than nothing.   *)
LEMMA Divide == ASSUME NEW k \in Nat \ {0}, NEW x \in Int, k * x <= 0 PROVE x <= 0
<1> SUFFICES ASSUME x >= 1 PROVE FALSE
  OBVIOUS
<1>1. k * x >= k
  OBVIOUS
<1> QED
  BY <1>1

(* The index is between 0 and 100, and throughput gives at most 40 of it.  *)
LEMMA IndexBounds ==
  ASSUME md.tracefiles \in Nat \ {0}, NEW secs \in Nat, NEW ops \in Nat \ {0},
         NEW util \in Nat, util <= 100 * md.tracefiles, NEW perf \in PerfIndex(secs, ops, util)
  PROVE  perf \in 0..100 /\ (2 * perf - 81) * (100 * md.tracefiles) <= 120 * util
<1> DEFINE full == 100 * md.tracefiles
           libc == AVG_LIBC_THRUPUT * secs
<1>1. full \in Nat \ {0} /\ util <= full
  OBVIOUS
<1>2. libc \in Nat
  BY MdriverAssumption
<1>3. perf \in IF ops > libc THEN Nearest(60 * util + 40 * full, full)
              ELSE Nearest(60 * util * libc + 40 * ops * full, full * libc)
  <2>1. 100 - 60 = 40
    OBVIOUS
  <2> QED
    BY <2>1, Zenon DEF PerfIndex, UTIL_WEIGHT
<1> HIDE DEF full, libc
<1>4. CASE ops > libc
  <2> DEFINE num == 60 * util + 40 * full
  <2>1. num \in Nat /\ num <= 100 * full /\ perf \in Nearest(num, full)
    BY <1>1, <1>3, <1>4
  <2> HIDE DEF num
  <2>2. perf \in 0..100 /\ (2 * perf - 1) * full <= 2 * num
    BY <1>1, <2>1, NearestBounds
  <2>3. (2 * perf - 81) * full = (2 * perf - 1) * full - 80 * full
    BY <1>1, <2>2
  <2>4. (2 * perf - 1) * full \in Int
    BY <1>1, <2>2
  <2> DEFINE a == (2 * perf - 1) * full
             b == (2 * perf - 81) * full
  <2>5. a \in Int /\ b = a - 80 * full /\ a <= 2 * num
    BY <2>2, <2>3, <2>4
  <2> HIDE DEF a, b
  <2>6. b <= 120 * util
    BY <1>1, <2>5 DEF num
  <2> QED
    BY <2>2, <2>6 DEF b, full
<1>5. CASE ~(ops > libc)
  <2> DEFINE u == util * libc
             o == ops * full
             f == full * libc
             num == 60 * u + 40 * o
  <2>1. libc \in Nat \ {0} /\ ops <= libc
    BY <1>2, <1>5
  <2>2. u \in Nat /\ o \in Nat /\ f \in Nat \ {0}
    BY <1>1, <2>1
  <2>3. u <= f
    BY <1>1, <2>1
  <2>4. o <= f
    BY <1>1, <2>1
  <2>5. num = 60 * util * libc + 40 * ops * full
    BY <1>1, <2>1
  <2>6. perf \in Nearest(num, f)
    BY <1>3, <1>5, <2>5
  <2> HIDE DEF u, o, f
  <2>7. num \in Nat /\ num <= 100 * f
    BY <2>2, <2>3, <2>4
  <2> HIDE DEF num
  <2>8. perf \in 0..100 /\ (2 * perf - 1) * f <= 2 * num
    BY <2>2, <2>6, <2>7, NearestBounds
  <2> DEFINE b == (2 * perf - 81) * full
  <2>9. b \in Int
    BY <1>1, <2>8
  <2>10. libc * (b - 120 * util) = (2 * perf - 81) * f - 120 * u
    <3>1. libc * b = (2 * perf - 81) * f
      BY <1>1, <2>1, <2>8 DEF f
    <3> HIDE DEF b
    <3>2. libc * (b - 120 * util) = libc * b - 120 * u
      BY <2>1, <2>9 DEF u
    <3> QED
      BY <3>1, <3>2
  <2>11. (2 * perf - 81) * f - 120 * u <= 0
    <3>1. (2 * perf - 81) * f = (2 * perf - 1) * f - 80 * f /\ (2 * perf - 1) * f \in Int
      BY <2>2, <2>8
    <3> DEFINE a == (2 * perf - 1) * f
               c == (2 * perf - 81) * f
    <3>2. a \in Int /\ c = a - 80 * f /\ a <= 2 * num
      BY <2>8, <3>1
    <3> HIDE DEF a, c
    <3>3. c - 120 * u <= 0
      BY <2>2, <2>4, <3>2 DEF num
    <3> QED
      BY <3>3 DEF c
  <2> HIDE DEF b
  <2>12. b - 120 * util <= 0
    <3> DEFINE x == b - 120 * util
    <3>1. x \in Int /\ libc * x <= 0
      BY <2>9, <2>10, <2>11
    <3> HIDE DEF x
    <3>2. x <= 0
      BY <2>1, <3>1, Divide
    <3> QED
      BY <3>2 DEF x
  <2>13. b <= 120 * util
    BY <2>9, <2>12
  <2> QED
    BY <2>8, <2>13 DEF b, full
<1> QED
  BY <1>4, <1>5

(* One more trace, valid or not.                                           *)
LEMMA ValidAdd ==
  ASSUME NEW stats \in Seq(Stats), NEW s \in Stats
  PROVE  /\ Append(stats, s) \in Seq(Stats) /\ Len(Append(stats, s)) = Len(stats) + 1
         /\ Cardinality(Valid(Append(stats, s)))
              = Cardinality(Valid(stats)) + (IF s.valid THEN 1 ELSE 0)
         /\ Cardinality(Valid(stats)) \in Nat /\ Len(stats) \in Nat
<1> DEFINE n == Len(stats)
           more == Append(stats, s)
           A == Valid(stats)
           B == Valid(more)
<1>1. n \in Nat /\ DOMAIN stats = 1..n
  BY LenProperties
<1>2. /\ more \in Seq(Stats) /\ Len(more) = n + 1 /\ more[n + 1] = s
      /\ \A j \in 1..n : more[j] = stats[j]
  BY AppendProperties
<1>3. DOMAIN more = 1..(n + 1)
  BY <1>2, LenProperties
<1> HIDE DEF more, n
<1>4. /\ IsFiniteSet(1..n) /\ \A j \in 1..(n + 1) : j \in 1..n \/ j = n + 1
      /\ n + 1 \notin 1..n /\ n + 1 \in 1..(n + 1) /\ \A j \in 1..n : j \in 1..(n + 1)
  BY <1>1, FS_Interval
<1>5. A \in SUBSET (1..n)
  BY <1>1 DEF Valid
<1>6. B = IF s.valid THEN A \cup {n + 1} ELSE A
  BY <1>1, <1>2, <1>3, <1>4 DEF Valid
<1> HIDE DEF A, B
<1>7. IsFiniteSet(A) /\ n + 1 \notin A
  BY <1>4, <1>5, FS_Subset
<1>8. Cardinality(A \cup {n + 1}) = Cardinality(A) + 1 /\ Cardinality(A) \in Nat
  BY <1>7, FS_AddElement, FS_CardinalityType
<1>9. Cardinality(B) = Cardinality(A) + (IF s.valid THEN 1 ELSE 0)
  BY <1>6, <1>8
<1> QED
  BY <1>1, <1>2, <1>8, <1>9 DEF more, n, A, B

(* No option is read and no trace run yet.                                 *)
LEMMA MdStarts == ASSUME NEW team, MdriverStart(team) PROVE MdInv
<1>1. <<>> \in Seq(Options) /\ <<>> \in Seq(Stats) /\ Len(<<>>) = 0 /\ DOMAIN <<>> = {}
  BY EmptySeq
<1>2. ToSet(<<>>) = {} /\ Valid(<<>>) = {} /\ Cardinality({}) = 0
  BY <1>1, FS_EmptySet DEF ToSet, Valid
<1>3. /\ md.args = <<>> /\ md.mm_stats = <<>> /\ md.errors = 0 /\ md.printed = NoIndex
      /\ md.libc_stats = <<>>
      /\ md.tracefiles = 0 /\ md.tracedir = TRACEDIR /\ md.pc = "getopt" /\ Fields(md)
  BY DEF MdriverStart, Fields
<1>4. /\ md.args \in Seq(Options) /\ md.mm_stats \in Seq(Stats) /\ md.tracefiles \in Nat
      /\ ToSet(md.args) = {} /\ Len(md.mm_stats) = 0 /\ Cardinality(Valid(md.mm_stats)) = 0
  <2>1. 0 \in Nat
    OBVIOUS
  <2>2. Cardinality(Valid(<<>>)) = 0
    BY <1>2, Zenon
  <2> QED
    BY <1>1, <1>2, <1>3, <2>1, <2>2, Zenon
<1>5. ~FileGiven /\ "t" \notin ToSet(md.args) /\ md.errors = 0 - 0
  BY <1>3, <1>4 DEF FileGiven
<1> QED
  BY <1>3, <1>4, <1>5 DEF MdInv

(* One more option.                                                        *)
LEMMA OptionAdded ==
  ASSUME NEW args \in Seq(Options), NEW opt \in Options
  PROVE  Append(args, opt) \in Seq(Options) /\ ToSet(Append(args, opt)) = ToSet(args) \cup {opt}
<1> DEFINE n == Len(args)
           more == Append(args, opt)
<1>1. n \in Nat /\ DOMAIN args = 1..n
  BY LenProperties
<1>2. /\ more \in Seq(Options) /\ Len(more) = n + 1 /\ more[n + 1] = opt
      /\ \A j \in 1..n : more[j] = args[j]
  BY AppendProperties
<1>3. DOMAIN more = 1..(n + 1)
  BY <1>2, LenProperties
<1>4. /\ \A j \in 1..(n + 1) : j \in 1..n \/ j = n + 1
      /\ n + 1 \in 1..(n + 1) /\ \A j \in 1..n : j \in 1..(n + 1)
  BY <1>1
<1> HIDE DEF more, n
<1> QED
  BY <1>1, <1>2, <1>3, <1>4 DEF ToSet, more

(* What an option makes of the driver's state.                             *)
Chosen(m, opt) ==
  /\ m = [pc |-> m.pc, args |-> md.args, team |-> m.team, tracedir |-> m.tracedir,
          tracefiles |-> m.tracefiles, team_check |-> m.team_check, run_libc |-> m.run_libc,
          autograder |-> m.autograder, libc_stats |-> md.libc_stats, mm_stats |-> md.mm_stats,
          errors |-> md.errors, table |-> m.table, printed |-> md.printed]
  /\ m.pc = IF opt = "h" THEN "exit" ELSE "getopt"
  /\ m.tracefiles = IF opt = "f" THEN 1 ELSE md.tracefiles
  /\ m.tracedir = IF opt = "f" THEN "./"
                  ELSE IF opt = "t" /\ md.tracefiles # 1 THEN "dir/" ELSE md.tracedir

(* Each option changes what it is for.                                     *)
LEMMA OptionChooses ==
  ASSUME Fields(md), md.pc = "getopt", NEW opt \in Options PROVE Chosen(Option(opt), opt)
<1>1. CASE opt = "g"
  BY <1>1 DEF Fields, Chosen, Option
<1>2. CASE opt = "f"
  BY <1>2 DEF Fields, Chosen, Option
<1>3. CASE opt = "t"
  BY <1>3 DEF Fields, Chosen, Option
<1>4. CASE opt = "a"
  BY <1>4 DEF Fields, Chosen, Option
<1>5. CASE opt = "l"
  BY <1>5 DEF Fields, Chosen, Option
<1>6. CASE opt = "h"
  BY <1>6 DEF Fields, Chosen, Option
<1> QED
  BY <1>1, <1>2, <1>3, <1>4, <1>5, <1>6 DEF Options

(* Reading an option.                                                      *)
LEMMA GetoptInv == ASSUME MdInv, Getopt PROVE MdInv'
<1>1. md.pc = "getopt" /\ Fields(md)
  BY DEF MdInv, Getopt
<1>2. PICK opt \in Options : md' = [Option(opt) EXCEPT !.args = Append(@, opt)]
  BY DEF Getopt, Options
<1> DEFINE m == Option(opt)
<1>3. Chosen(m, opt)
  BY <1>1, OptionChooses
<1> HIDE DEF m
<1>4. md' = [m EXCEPT !.args = Append(md.args, opt)]
  <2>1. md' = [m EXCEPT !.args = Append(m.args, opt)]
    BY <1>2 DEF m
  <2>2. m.args = md.args
    BY <1>3 DEF Chosen
  <2> QED
    BY <2>1, <2>2
<1>5. /\ Fields(md') /\ md'.args = Append(md.args, opt) /\ md'.pc = m.pc
      /\ md'.tracefiles = m.tracefiles /\ md'.tracedir = m.tracedir
      /\ md'.mm_stats = md.mm_stats /\ md'.errors = md.errors /\ md'.printed = md.printed
      /\ md'.libc_stats = md.libc_stats
  <2> DEFINE more == Append(md.args, opt)
  <2>1. md' = [m EXCEPT !.args = more] /\ Chosen(m, opt)
    BY <1>3, <1>4
  <2> HIDE DEF more
  <2>2. /\ Fields(md') /\ md'.args = more /\ md'.pc = m.pc
        /\ md'.tracefiles = m.tracefiles /\ md'.tracedir = m.tracedir
        /\ md'.mm_stats = m.mm_stats /\ md'.errors = m.errors /\ md'.printed = m.printed
        /\ md'.libc_stats = m.libc_stats
    BY <2>1 DEF Chosen, Fields
  <2>3. /\ m.mm_stats = md.mm_stats /\ m.errors = md.errors /\ m.printed = md.printed
        /\ m.libc_stats = md.libc_stats
    BY <2>1 DEF Chosen
  <2> QED
    BY <2>2, <2>3 DEF more
<1>6. md'.args \in Seq(Options) /\ ToSet(md'.args) = ToSet(md.args) \cup {opt}
  BY <1>5, OptionAdded DEF MdInv
<1>7. /\ Named => Named'
      /\ FileGiven' <=> FileGiven \/ opt = "f"
      /\ "t" \in ToSet(md'.args) <=> "t" \in ToSet(md.args) \/ opt = "t"
  BY <1>6 DEF FileGiven, Named
<1>8. /\ md.libc_stats # <<>> => Named
      /\ md.mm_stats # <<>> => Named
      /\ md.tracefiles = IF FileGiven THEN 1 ELSE 0
      /\ md.tracedir = IF FileGiven THEN "./" ELSE IF "t" \in ToSet(md.args) THEN "dir/" ELSE TRACEDIR
      /\ md.mm_stats \in Seq(Stats) /\ md.tracefiles \in Nat /\ md.printed = NoIndex
      /\ md.errors = Len(md.mm_stats) - Cardinality(Valid(md.mm_stats))
  BY <1>1 DEF MdInv
<1>9. /\ m.pc = IF opt = "h" THEN "exit" ELSE "getopt"
      /\ m.tracefiles = IF opt = "f" THEN 1 ELSE md.tracefiles
      /\ m.tracedir = IF opt = "f" THEN "./"
                      ELSE IF opt = "t" /\ md.tracefiles # 1 THEN "dir/" ELSE md.tracedir
  BY <1>3 DEF Chosen
<1>10. md'.tracefiles = IF FileGiven' THEN 1 ELSE 0
  BY <1>5, <1>7, <1>8, <1>9
<1>11. md'.tracedir = IF FileGiven' THEN "./"
                      ELSE IF "t" \in ToSet(md'.args) THEN "dir/" ELSE TRACEDIR
  BY <1>5, <1>7, <1>8, <1>9
<1>12. md'.pc \in {"getopt", "exit"} /\ md'.tracefiles \in Nat
  BY <1>5, <1>8, <1>9
<1>13. /\ md'.libc_stats # <<>> => Named'
       /\ md'.mm_stats # <<>> => Named'
  BY <1>5, <1>7, <1>8
<1> QED
  BY <1>5, <1>6, <1>8, <1>10, <1>11, <1>12, <1>13 DEF MdInv

(* What the other steps before the report leave alone.                     *)
Stays(a, b) ==
  /\ Fields(b) /\ b.args = a.args /\ b.tracedir = a.tracedir /\ b.printed = a.printed

(* They leave what the options name as it was.                            *)
LEMMA SameNames ==
  ASSUME Stays(md, md') PROVE (FileGiven' <=> FileGiven) /\ (Named' <=> Named)
BY DEF Stays, FileGiven, Named

(* A trace is read from the directory of an option.                        *)
LEMMA ReadNamed == ASSUME MdInv, NEW stats, read_trace(stats) PROVE Named
<1>1. md.tracedir \in {"./", "dir/"}
  BY DEF read_trace
<1>2. md.tracedir = IF FileGiven THEN "./" ELSE IF "t" \in ToSet(md.args) THEN "dir/" ELSE TRACEDIR
  BY DEF MdInv
<1> QED
  BY <1>1, <1>2 DEF TRACEDIR, FileGiven, Named

(* The team is checked, and the default traces are taken.                  *)
LEMMA CheckTeamInv == ASSUME MdInv, CheckTeam PROVE MdInv'
<1>1. /\ Fields(md) /\ md.pc = "getopt"
      /\ md' = [md EXCEPT !.pc = IF md.team_check /\ ~TeamOK(md.team) THEN "exit"
                                 ELSE IF md.run_libc THEN "libc" ELSE "mm",
                          !.tracefiles = IF @ = 0 THEN DEFAULT_TRACEFILES ELSE @]
  BY DEF MdInv, CheckTeam
<1>2. /\ Stays(md, md') /\ md'.pc \in {"exit", "libc", "mm"}
      /\ md'.mm_stats = md.mm_stats /\ md'.errors = md.errors /\ md'.libc_stats = md.libc_stats
      /\ md'.tracefiles = IF md.tracefiles = 0 THEN DEFAULT_TRACEFILES ELSE md.tracefiles
  BY <1>1 DEF Fields, Stays
<1>3. (FileGiven' <=> FileGiven) /\ (Named' <=> Named)
  BY <1>2, SameNames
<1>4. md.tracefiles = (IF FileGiven THEN 1 ELSE 0) /\ md.printed = NoIndex
  BY <1>1 DEF MdInv
<1>5. md'.tracefiles = (IF FileGiven' THEN 1 ELSE DEFAULT_TRACEFILES) /\ md'.tracefiles \in Nat
  BY <1>2, <1>3, <1>4, MdriverAssumption
<1> QED
  BY <1>1, <1>2, <1>3, <1>4, <1>5 DEF MdInv, Stays

(* A trace that cannot be read ends the driver.                            *)
LEMMA BadTraceInv == ASSUME MdInv, BadTrace PROVE MdInv'
<1>1. Fields(md) /\ md.pc \in {"libc", "mm"} /\ md' = [md EXCEPT !.pc = "exit"]
  BY DEF MdInv, BadTrace
<1>2. /\ Stays(md, md') /\ md'.pc = "exit" /\ md'.mm_stats = md.mm_stats
      /\ md'.libc_stats = md.libc_stats
      /\ md'.tracefiles = md.tracefiles /\ md.printed = NoIndex
  BY <1>1 DEF Fields, Stays, MdInv
<1>3. (FileGiven' <=> FileGiven) /\ (Named' <=> Named)
  BY <1>2, SameNames
<1> QED
  BY <1>2, <1>3 DEF MdInv, Stays

(* libc's malloc, before the package.                                      *)
LEMMA LibcInv == ASSUME MdInv, eval_libc_valid \/ eval_libc_speed \/ LibcDone PROVE MdInv'
<1>1. /\ Stays(md, md') /\ md'.mm_stats = md.mm_stats /\ md'.tracefiles = md.tracefiles
      /\ md.pc \in {"libc", "libc_speed"}
      /\ \/ md'.pc \in {"libc", "libc_speed", "mm"} /\ md'.errors = md.errors
         \/ md'.pc = "exit"
      /\ eval_libc_valid \/ md.pc = "libc_speed" \/ md'.libc_stats = md.libc_stats
      /\ md'.pc = "libc_speed" => eval_libc_valid
  <2> USE DEF MdInv
  <2>1. CASE eval_libc_valid
    BY <2>1 DEF eval_libc_valid, Fields, Stays
  <2>2. CASE eval_libc_speed
    <3>1. CASE md' = [md EXCEPT !.pc = "exit"]
      BY <2>2, <3>1 DEF eval_libc_speed, Fields, Stays
    <3>2. CASE ~(md' = [md EXCEPT !.pc = "exit"])
      <4>1. PICK secs \in Secs :
              md' = [md EXCEPT !.pc = "libc", !.libc_stats[Len(md.libc_stats)].secs = secs]
        BY <2>2, <3>2 DEF eval_libc_speed
      <4> DEFINE l == [md.libc_stats EXCEPT ![Len(md.libc_stats)].secs = secs]
      <4>2. md' = [md EXCEPT !.pc = "libc", !.libc_stats = l]
        BY <4>1 DEF Fields
      <4> HIDE DEF l
      <4> QED
        BY <2>2, <4>2 DEF eval_libc_speed, Fields, Stays
    <3> QED
      BY <3>1, <3>2
  <2>3. CASE LibcDone
    BY <2>3 DEF LibcDone, Fields, Stays
  <2> QED
    BY <2>1, <2>2, <2>3
<1>2. (FileGiven' <=> FileGiven) /\ (Named' <=> Named)
  BY <1>1, SameNames
<1>3. md.printed = NoIndex
  BY <1>1 DEF MdInv
<1>4. eval_libc_valid \/ md.pc = "libc_speed" => Named
  <2>1. eval_libc_valid => Named
    BY ReadNamed DEF eval_libc_valid
  <2> QED
    BY <2>1 DEF MdInv
<1>5. md'.libc_stats # <<>> \/ md'.pc = "libc_speed" => Named
  BY <1>1, <1>4 DEF MdInv
<1> QED
  BY <1>1, <1>2, <1>3, <1>5 DEF MdInv, Stays

(* A trace for the package.                                                *)
LEMMA MmTraceInv == ASSUME MdInv, MmTrace PROVE MdInv'
<1>1. Fields(md) /\ md.pc = "mm" /\ md.mm_stats \in Seq(Stats)
  BY DEF MdInv, MmTrace
<1>2. PICK s \in Stats :
        /\ Stays(md, md') /\ md'.pc = "mm" /\ md'.tracefiles = md.tracefiles
        /\ md'.libc_stats = md.libc_stats
        /\ md'.mm_stats = Append(md.mm_stats, s)
        /\ md'.errors = IF s.valid THEN md.errors ELSE md.errors + 1
  <2>1. PICK ops \in NumOps :
          \/ \E util \in Utils, secs \in Secs :
               md' = [md EXCEPT !.mm_stats =
                        Append(@, [ops |-> ops, valid |-> TRUE, secs |-> secs, util |-> util])]
          \/ md' = [md EXCEPT !.errors = @ + 1, !.mm_stats =
                      Append(@, [ops |-> ops, valid |-> FALSE, secs |-> 0, util |-> 0])]
    BY DEF MmTrace
  <2>2. CASE \E util \in Utils, secs \in Secs :
               md' = [md EXCEPT !.mm_stats =
                        Append(@, [ops |-> ops, valid |-> TRUE, secs |-> secs, util |-> util])]
    <3>1. PICK util \in Utils, secs \in Secs :
               md' = [md EXCEPT !.mm_stats =
                        Append(@, [ops |-> ops, valid |-> TRUE, secs |-> secs, util |-> util])]
      BY <2>2
    <3> DEFINE s == [ops |-> ops, valid |-> TRUE, secs |-> secs, util |-> util]
    <3>2. s \in Stats /\ s.valid = TRUE
      BY MdriverAssumption DEF Stats
    <3>3. md' = [md EXCEPT !.mm_stats = Append(@, s)]
      BY <3>1
    <3> HIDE DEF s
    <3>4. /\ Stays(md, md') /\ md'.pc = "mm" /\ md'.tracefiles = md.tracefiles
          /\ md'.libc_stats = md.libc_stats
          /\ md'.mm_stats = Append(md.mm_stats, s) /\ md'.errors = md.errors
      BY <1>1, <3>3 DEF Fields, Stays
    <3> QED
      BY <3>2, <3>4
  <2>3. CASE md' = [md EXCEPT !.errors = @ + 1, !.mm_stats =
                      Append(@, [ops |-> ops, valid |-> FALSE, secs |-> 0, util |-> 0])]
    <3> DEFINE s == [ops |-> ops, valid |-> FALSE, secs |-> 0, util |-> 0]
    <3>1. s \in Stats /\ s.valid = FALSE
      BY MdriverAssumption DEF Stats
    <3>2. md' = [md EXCEPT !.errors = @ + 1, !.mm_stats = Append(@, s)]
      BY <2>3
    <3> HIDE DEF s
    <3>3. /\ Stays(md, md') /\ md'.pc = "mm" /\ md'.tracefiles = md.tracefiles
          /\ md'.libc_stats = md.libc_stats
          /\ md'.mm_stats = Append(md.mm_stats, s) /\ md'.errors = md.errors + 1
      BY <1>1, <3>2 DEF Fields, Stays
    <3> QED
      BY <3>1, <3>3
  <2> QED
    BY <2>1, <2>2, <2>3
<1>3. (FileGiven' <=> FileGiven) /\ (Named' <=> Named) /\ Named
  <2>1. Named
    BY ReadNamed DEF MmTrace
  <2> QED
    BY <1>2, <2>1, SameNames
<1>4. md.printed = NoIndex /\ md.errors = Len(md.mm_stats) - Cardinality(Valid(md.mm_stats))
  BY <1>1 DEF MdInv
<1> DEFINE more == Append(md.mm_stats, s)
<1>5. /\ more \in Seq(Stats) /\ Len(more) = Len(md.mm_stats) + 1
      /\ Cardinality(Valid(more)) = Cardinality(Valid(md.mm_stats)) + (IF s.valid THEN 1 ELSE 0)
      /\ Cardinality(Valid(md.mm_stats)) \in Nat /\ Len(md.mm_stats) \in Nat
  BY <1>1, ValidAdd
<1>6. md'.mm_stats = more
  BY <1>2
<1> HIDE DEF more
<1>7. md'.errors = Len(more) - Cardinality(Valid(more))
  <2> DEFINE c == Cardinality(Valid(md.mm_stats))
             d == Cardinality(Valid(more))
             k == Len(md.mm_stats)
  <2>1. md'.errors = IF s.valid THEN md.errors ELSE md.errors + 1
    BY <1>2
  <2>2. /\ md.errors = k - c /\ c \in Nat /\ k \in Nat /\ Len(more) = k + 1
        /\ d = c + (IF s.valid THEN 1 ELSE 0)
    BY <1>4, <1>5
  <2> HIDE DEF c, d, k
  <2>3. md'.errors = Len(more) - d
    <3>1. CASE s.valid
      BY <2>1, <2>2, <3>1
    <3>2. CASE ~s.valid
      BY <2>1, <2>2, <3>2
    <3> QED
      BY <3>1, <3>2
  <2> QED
    BY <2>3 DEF d
<1> QED
  BY <1>1, <1>2, <1>3, <1>4, <1>5, <1>6, <1>7 DEF MdInv, Stays

(* What the table and the index are made from.                             *)
LEMMA ReportInv == ASSUME MdInv, Report PROVE MdInv'
<1> DEFINE stats == md.mm_stats
           n == Len(stats)
           sums == Sums(stats, DOMAIN stats)
           valid == Valid(stats)
           perfs == IF md.errors = 0 THEN PerfIndex(sums[1], sums[2], sums[3]) ELSE {0}
<1>1. PICK perf \in perfs :
        md' = [md EXCEPT !.pc = "exit", !.table = printresults(stats),
                 !.printed = [sums |-> sums, perfindex |-> perf,
                              numcorrect |-> Cardinality(valid)]]
  BY Zenon DEF Report
<1> DEFINE printed == [sums |-> sums, perfindex |-> perf, numcorrect |-> Cardinality(valid)]
<1>2. /\ Fields(md) /\ md.pc = "mm" /\ n = md.tracefiles /\ stats \in Seq(Stats)
      /\ md.errors = n - Cardinality(valid)
  BY DEF MdInv, Report
<1>3. md' = [md EXCEPT !.pc = "exit", !.table = printresults(stats), !.printed = printed]
  BY <1>1, Zenon
<1>4. n \in Nat \ {0} /\ DOMAIN stats = 1..n /\ \A i \in 1..n : stats[i] \in Stats
  <2>1. n \in Nat /\ DOMAIN stats = 1..n /\ \A i \in 1..n : stats[i] \in Stats
    BY <1>2, LenProperties, ElementOfSeq
  <2>2. n # 0
    BY <1>2, MdriverAssumption DEF MdInv
  <2> QED
    BY <2>1, <2>2
<1>5. Cardinality(valid) \in 0..n /\ (Cardinality(valid) = n => valid = 1..n)
      /\ (valid = 1..n => Cardinality(valid) = n)
  <2>1. IsFiniteSet(1..n) /\ Cardinality(1..n) = n
    <3>1. n \in Nat
      BY <1>4
    <3>2. 1 \in Int /\ n \in Int
      BY <1>4
    <3>3. /\ IsFiniteSet(1..n)
          /\ Cardinality(1..n) = IF 1 > n THEN 0 ELSE n - 1 + 1
      BY <3>2, FS_Interval
    <3> HIDE DEF n
    <3> QED
      BY <3>1, <3>3
  <2>2. valid \in SUBSET (1..n)
    BY <1>4 DEF Valid
  <2> HIDE DEF valid, n
  <2>3. /\ IsFiniteSet(valid) /\ Cardinality(valid) <= Cardinality(1..n)
        /\ Cardinality(1..n) = Cardinality(valid) => 1..n = valid
    BY <2>1, <2>2, FS_Subset
  <2>4. Cardinality(valid) \in Nat
    BY <2>3, FS_CardinalityType
  <2> QED
    BY <2>1, <2>3, <2>4
<1>6. (md.errors = 0 <=> valid = DOMAIN stats) /\ Cardinality(valid) = n - md.errors
      /\ md.errors \in Nat
  <2>1. n \in Nat /\ Cardinality(valid) \in 0..n
    BY <1>4, <1>5
  <2> DEFINE c == Cardinality(valid)
  <2>2. c \in 0..n /\ (c = n <=> valid = 1..n) /\ md.errors = n - c
    BY <1>2, <1>5
  <2> HIDE DEF c, n, valid, stats
  <2>3. c = n - md.errors /\ md.errors \in Nat /\ (md.errors = 0 <=> c = n)
    BY <2>1, <2>2
  <2> QED
    BY <1>4, <2>2, <2>3 DEF c
<1>7. md.errors = 0 => printresults(stats) = sums
  BY <1>6, Zenon DEF printresults
<1>8. md.errors # 0 => printresults(stats) = <<>> /\ perf = 0
  BY <1>1 DEF printresults
<1>9. /\ sums[3] \in Nat
      /\ md.errors = 0 =>
           perf \in 0..100 /\ (2 * perf - 81) * (100 * md.tracefiles) <= 120 * sums[3]
  <2> DEFINE secs == [i \in DOMAIN stats |-> IF i \in DOMAIN stats THEN stats[i].secs ELSE 0]
             ops  == [i \in DOMAIN stats |-> IF i \in DOMAIN stats THEN stats[i].ops ELSE 0]
             util == [i \in DOMAIN stats |-> IF i \in DOMAIN stats THEN stats[i].util ELSE 0]
  <2>1. sums = <<Total(secs), Total(ops), Total(util)>>
    BY Zenon DEF Sums
  <2>2. sums[1] = Total(secs) /\ sums[2] = Total(ops) /\ sums[3] = Total(util)
    <3> HIDE DEF sums, secs, ops, util
    <3> QED
      BY <2>1
  <2>3. \A i \in 1..n : /\ secs[i] = stats[i].secs /\ ops[i] = stats[i].ops
                        /\ util[i] = stats[i].util
                        /\ stats[i].secs \in Nat /\ stats[i].ops \in Nat \ {0}
                        /\ stats[i].util \in 0..100
    BY <1>4 DEF Stats
  <2>4. secs \in [1..n -> Nat] /\ ops \in [1..n -> Nat] /\ util \in [1..n -> Nat]
    <3>1. DOMAIN stats = 1..n /\ \A i \in 1..n : /\ stats[i].secs \in Nat
                                              /\ stats[i].ops \in Nat /\ stats[i].util \in Nat
      <4>1. \A k \in 0..100 : k \in Nat
        OBVIOUS
      <4>2. \A k \in Nat \ {0} : k \in Nat
        OBVIOUS
      <4> QED
        BY <1>4, <2>3, <4>1, <4>2, Zenon
    <3> HIDE DEF n, stats
    <3>2. secs \in [1..n -> Nat]
      BY <3>1
    <3>3. ops \in [1..n -> Nat]
      BY <3>1
    <3>4. util \in [1..n -> Nat]
      BY <3>1
    <3> QED
      BY <3>2, <3>3, <3>4, Zenon DEF n, stats
  <2> HIDE DEF secs, ops, util
  <2>5. Len(secs) = n /\ Len(ops) = n /\ Len(util) = n
    <3>1. secs \in Seq(Nat) /\ ops \in Seq(Nat) /\ util \in Seq(Nat)
      <4>1. n \in Nat
        BY <1>4
      <4> HIDE DEF n
      <4>2. \A f \in [1..n -> Nat] : f \in Seq(Nat)
        BY <4>1, SeqDef
      <4> QED
        BY <2>4, <4>2, Zenon
    <3> QED
      BY <1>4, <2>4, <3>1, LenProperties
  <2>6. Total(secs) \in Nat
    BY <1>4, <2>4, <2>5, TotalLast
  <2>7. Total(ops) \in Nat \ {0}
    <3>1. Total(ops) \in Nat /\ ops[n] <= Total(ops)
      BY <1>4, <2>4, <2>5, TotalLast
    <3>2. n \in 1..n /\ ops[n] \in Nat \ {0}
      BY <1>4, <2>3
    <3> HIDE DEF n
    <3> QED
      BY <3>1, <3>2
  <2>8. Total(util) \in Nat /\ Total(util) <= 100 * n
    <3>1. /\ n \in Nat /\ util \in [1..n -> Nat] /\ Len(util) = n
          /\ \A i \in 1..n : util[i] <= 100
      <4>1. \A i \in 1..n : util[i] \in 0..100
        BY <2>3
      <4>2. n \in Nat
        BY <1>4
      <4> HIDE DEF n
      <4>3. \A i \in 1..n : util[i] <= 100
        BY <4>1
      <4> QED
        BY <2>4, <2>5, <4>2, <4>3
    <3> HIDE DEF n
    <3> QED
      BY <3>1, TotalHundred
  <2> DEFINE a == Total(secs)
             b == Total(ops)
             c == Total(util)
  <2>9. /\ md.tracefiles \in Nat \ {0} /\ a \in Nat /\ b \in Nat \ {0}
        /\ c \in Nat /\ c <= 100 * md.tracefiles
    BY <1>2, <1>4, <2>6, <2>7, <2>8
  <2>10. md.errors = 0 => perf \in PerfIndex(a, b, c)
    BY <1>1, <2>2
  <2>11. c = sums[3]
    BY <2>2
  <2> HIDE DEF a, b, c, sums, perfs
  <2>12. ASSUME md.errors = 0
         PROVE  perf \in 0..100 /\ (2 * perf - 81) * (100 * md.tracefiles) <= 120 * c
    <3>1. perf \in PerfIndex(a, b, c)
      BY <2>10, <2>12
    <3> QED
      BY <2>9, <3>1, IndexBounds
  <2> QED
    BY <2>9, <2>11, <2>12
<1> HIDE DEF sums, valid, perfs, n, stats
<1>10. /\ Stays([md EXCEPT !.printed = printed], md') /\ md'.pc = "exit"
      /\ md'.mm_stats = md.mm_stats /\ md'.errors = md.errors /\ md'.tracefiles = md.tracefiles
      /\ md'.table = printresults(stats) /\ md'.printed = printed
      /\ md'.libc_stats = md.libc_stats
  <2> HIDE DEF printed
  <2> QED
    BY <1>2, <1>3 DEF Fields, Stays
<1>11. Fields(md') /\ md'.args = md.args /\ md'.tracedir = md.tracedir
  <2> HIDE DEF printed
  <2> QED
    BY <1>2, <1>10 DEF Fields, Stays
<1>12. /\ md'.printed.numcorrect = Cardinality(valid) /\ md'.printed.sums = sums
       /\ md'.printed.perfindex = perf
  BY <1>10
<1>13. perf \in 0..100
  <2>1. CASE md.errors = 0
    BY <1>9, <2>1
  <2>2. CASE md.errors # 0
    BY <1>8, <2>2
  <2> QED
    BY <2>1, <2>2
<1>14. (2 * perf - 81) * (100 * md.tracefiles) <= 120 * sums[3]
  <2>1. CASE md.errors = 0
    BY <1>9, <2>1
  <2>2. CASE md.errors # 0
    <3>1. perf = 0 /\ md.tracefiles \in Nat /\ sums[3] \in Nat
      BY <1>2, <1>4, <1>8, <1>9, <2>2
    <3> QED
      BY <3>1
  <2> QED
    BY <2>1, <2>2
<1>15. (FileGiven' <=> FileGiven) /\ Named' /\ Named
  <2>1. md.mm_stats # <<>>
    BY <1>4 DEF n, stats
  <2>2. Named
    BY <2>1 DEF MdInv
  <2> QED
    BY <1>11, <2>2 DEF FileGiven, Named
<1>16. Reported'
  <2>1. md'.printed.numcorrect = md'.tracefiles - md'.errors
    BY <1>2, <1>6, <1>10, <1>12 DEF n, stats
  <2>2. (md'.errors = 0) <=> (Valid(md'.mm_stats) = DOMAIN md'.mm_stats)
    BY <1>6, <1>10 DEF valid, stats
  <2>3. md'.errors = 0 => md'.table = md'.printed.sums
    BY <1>7, <1>10, <1>12
  <2>4. md'.errors > 0 => md'.printed.perfindex = 0 /\ md'.table = <<>>
    <3>1. md.errors > 0 => md.errors # 0
      BY <1>6
    <3> QED
      BY <1>8, <1>10, <1>12, <3>1
  <2>5. md'.printed.perfindex \in 0..100
    BY <1>12, <1>13
  <2>6. (2 * md'.printed.perfindex - 81) * (100 * md'.tracefiles) <= 120 * md'.printed.sums[3]
    BY <1>10, <1>12, <1>14
  <2>7. Named'
    BY <1>15
  <2> QED
    BY <2>1, <2>2, <2>3, <2>4, <2>5, <2>6, <2>7 DEF Reported
<1> HIDE DEF printed
<1> QED
  BY <1>10, <1>11, <1>15, <1>16 DEF MdInv

(* Every step of the driver's main.                                        *)
LEMMA MdNextInv == MdInv /\ MdriverNext => MdInv'
BY GetoptInv, CheckTeamInv, BadTraceInv, LibcInv, MmTraceInv, ReportInv DEF MdriverNext

(* It implies the property.                                                *)
LEMMA MdHolds == MdInv => IndexRight
<1> SUFFICES ASSUME MdInv PROVE IndexRight
  OBVIOUS
<1>1. md.pc \in {"libc", "mm"} => md.tracefiles = IF FileGiven THEN 1 ELSE DEFAULT_TRACEFILES
  BY DEF MdInv
<1>2. md.tracedir = IF FileGiven THEN "./" ELSE IF "t" \in ToSet(md.args) THEN "dir/" ELSE TRACEDIR
  BY DEF MdInv
<1>3. md.printed # NoIndex => Reported
  BY DEF MdInv
<1>4. Len(md.libc_stats) + Len(md.mm_stats) > 0 => Named
  <2>1. CASE Named
    BY <2>1
  <2>2. CASE ~Named
    <3>1. md.libc_stats = <<>> /\ md.mm_stats = <<>>
      BY <2>2 DEF MdInv
    <3>2. Len(md.libc_stats) = 0 /\ Len(md.mm_stats) = 0
      BY <3>1, EmptySeq, Zenon
    <3> QED
      BY <3>2
  <2> QED
    BY <2>1, <2>2
<1> QED
  BY <1>1, <1>2, <1>3, <1>4, Zenon DEF IndexRight, FileGiven, Named, Reported

(* The timers measure what the runs took; the files read are those the     *)
(* options name, and the index is made from them as the table says and     *)
(* within the bounds of its rounding, for any runs, traces and constants.  *)
THEOREM IndexCorrect == Spec => []IndexFromTimes
<1>1. Init => TimerInv /\ MdInv
  <2> SUFFICES ASSUME Init PROVE TimerInv /\ MdInv
    OBVIOUS
  <2>1. PICK scheme \in {"FCYC", "ITIMER", "GETTOD"} : init_fsecs(scheme)
    BY DEF Init, Inputs
  <2>2. PICK team : MdriverStart(team)
    BY DEF Init
  <2> QED
    BY <2>1, <2>2, TimerStarts, MdStarts
<1>2. TimerInv /\ MdInv /\ [Next]_vars => TimerInv' /\ MdInv'
  <2> SUFFICES ASSUME TimerInv, MdInv, [Next]_vars PROVE TimerInv' /\ MdInv'
    OBVIOUS
  <2>1. (TimerNext \/ UNCHANGED fcyc) /\ (MdriverNext \/ UNCHANGED md)
    BY DEF Next, vars, timerVars
  <2>2. TimerInv'
    <3>1. CASE UNCHANGED fcyc
      BY <3>1 DEF TimerInv
    <3> QED
      BY <2>1, <3>1, TimerNextInv
  <2>3. MdInv'
    <3>1. CASE UNCHANGED md
      BY <3>1 DEF MdInv, FileGiven, Named, Reported
    <3> QED
      BY <2>1, <3>1, MdNextInv
  <2> QED
    BY <2>2, <2>3
<1>3. TimerInv /\ MdInv => IndexFromTimes
  BY TimerHolds, MdHolds DEF IndexFromTimes
<1> QED
  BY <1>1, <1>2, <1>3, PTL DEF Spec
=============================================================================
