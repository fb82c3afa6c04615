------------------------------- MODULE Words --------------------------------
(***************************************************************************)
(* 32-bit machine words as the sets of their bits that are one, and the    *)
(* operators of C on int and unsigned under gcc -m32.                      *)
(***************************************************************************)
EXTENDS Integers, FiniteSets

Bits == 0..31

And(x, y) == x \cap y
Or(x, y)  == x \cup y
Xor(x, y) == (x \ y) \cup (y \ x)
Not(x)    == Bits \ x

(* x << k, x >> k of an unsigned, and x >> k of an int.                    *)
Shl(x, k) == {i + k : i \in {j \in x : j + k \in Bits}}
Shr(x, k) == {i - k : i \in {j \in x : j - k \in Bits}}
Sar(x, k) == Shr(x, k) \cup (IF 31 \in x THEN (32 - k)..31 ELSE {})

(* x + y, modulo 2^32.                                                     *)
Plus(x, y) ==
  LET Ones(i, c) == Cardinality({v \in {1} : i \in x}) + Cardinality({v \in {1} : i \in y}) + c
      carry[i \in 0..32] == IF i = 0 THEN 0 ELSE Ones(i - 1, carry[i - 1]) \div 2
  IN  {i \in Bits : Ones(i, carry[i]) % 2 = 1}

(* !x, and the word of a condition.                                        *)
Bool(b) == IF b THEN {0} ELSE {}
Lnot(x) == Bool(x = {})

(* The word of an int, and its value.                                      *)
Word(n)  == {i \in 0..30 : (n \div 2^i) % 2 = 1} \cup (IF n < 0 THEN {31} ELSE {})
Value(x) ==
  LET sum[i \in 0..31] == IF i = 0 THEN IF 31 \in x THEN -2147483647 - 1 ELSE 0
                          ELSE sum[i - 1] + (IF i - 1 \in x THEN 2^(i - 1) ELSE 0)
  IN  sum[31]
TMin == {31}
TMax == 0..30
=============================================================================
