----------------------------- MODULE BitPuzzles -----------------------------
(***************************************************************************)
(* datalab-handout: the solutions of bits.c, the reference functions of    *)
(* tests.c that state what they should compute, and btest.c, which runs    *)
(* the ones against the others on the arguments it generates.              *)
(***************************************************************************)
EXTENDS Words, SequencesExt

(***************************************************************************)
(* bits.c                                                                  *)
(***************************************************************************)
bitXor(x, y) == And(Not(And(Not(x), Not(y))), Not(And(x, y)))

tmin == Shl({0}, 31)

(* Faulty variant: -1, whose successor is 0, is taken for the maximum too. *)
isTmaxOrMinusOne(x) == Lnot(Xor(Not(Plus(x, {0})), x))

isTmax(x) ==
  LET next == Plus(x, {0}) IN And(Lnot(Xor(Not(next), x)), Lnot(Lnot(next)))

allOddBits(x) ==
  LET AA   == Or(Word(10), Shl(Word(10), 4))
      AAAA == Or(AA, Shl(AA, 8))
      mask == Or(AAAA, Shl(AAAA, 16))
  IN  Lnot(Xor(And(x, mask), mask))

negate(x) == Plus(Not(x), {0})

isAsciiDigit(x) ==
  And(Lnot(Xor(Sar(x, 4), Word(3))),
      Sar(Plus(And(x, Word(15)), Plus(Not(Word(10)), {0})), 31))

conditional(x, y, z) ==
  LET mask == Sar(Shl(Lnot(Lnot(x)), 31), 31) IN Or(And(mask, y), And(Not(mask), z))

isLessOrEqual(x, y) ==
  LET minus == Plus(Plus(x, Not(y)), {0})
  IN  And(Lnot(And(Lnot(Sar(x, 31)), Sar(y, 31))),
          Or(Or(And(Sar(x, 31), Lnot(Sar(y, 31))), Sar(minus, 31)), Lnot(Xor(x, y))))

logicalNeg(x) == Plus(Sar(Or(negate(x), x), 31), {0})

(* Is there a bit at or above 2^k?  Then so much can be shifted away.      *)
Step(x, k) == IF Sar(x, k) # {} THEN k ELSE 0

howManyBits(x) ==
  LET sign == Sar(x, 31)
      Turn(t, k) == [rest |-> Sar(t.rest, Step(t.rest, k)), bits |-> t.bits + Step(t.rest, k)]
      last == FoldLeft(Turn, [rest |-> Or(And(sign, Not(x)), And(Not(sign), x)), bits |-> 1],
                       <<16, 8, 4, 2, 1>>)
  IN  Or(Lnot(last.rest),
         And(Sar(Shl(Lnot(Lnot(last.rest)), 31), 31), Plus(last.rest, Word(last.bits))))

(* The fields of a float.                                                  *)
Sign(uf) == And(Shr(uf, 31), {0})
Exp(uf)  == And(Shr(uf, 23), 0..7)
Frac(uf) == And(uf, 0..22)

floatScale2(uf) ==
  CASE Exp(uf) = {} /\ Frac(uf) = {} -> uf
    [] Exp(uf) = 0..7                -> uf
    [] Exp(uf) = {} /\ Frac(uf) # {} -> Or(Shl(Sign(uf), 31), Shl(Frac(uf), 1))
    [] OTHER -> Or(Or(Shl(Sign(uf), 31), Shl(Plus(Exp(uf), {0}), 23)), Frac(uf))

floatFloat2Int(uf) ==
  LET E    == Value(Exp(uf)) - 127
      frac == Or(Frac(uf), {23})
      int  == IF E >= 23 THEN Shl(frac, E - 23) ELSE Shr(frac, 23 - E)
  IN  CASE Exp(uf) = 0..7 \/ E > 31 -> TMin
        [] E < 0                    -> {}
        [] OTHER                    -> IF Sign(uf) = {} THEN int ELSE negate(int)

floatPower2(x) ==
  LET n == Value(x)
  IN  CASE n < -149           -> {}
        [] n \in -149 .. -127 -> Shl({0}, 23 - (-n - 126))
        [] n \in -126 .. 127  -> Shl(Word(n + 127), 23)
        [] OTHER              -> Shl(0..7, 23)

(***************************************************************************)
(* tests.c                                                                 *)
(***************************************************************************)
test_bitXor(x, y) == {i \in Bits : (i \in x) # (i \in y)}
test_tmin == TMin
test_isTmax(x) == Bool(x = TMax)
test_allOddBits(x) == Bool(\A i \in Bits : i % 2 = 1 => i \in x)
test_negate(x) == IF x = TMin THEN TMin ELSE Word(-Value(x))
test_isAsciiDigit(x) == Bool(Value(x) \in 48..57)
test_conditional(x, y, z) == IF x # {} THEN y ELSE z
test_isLessOrEqual(x, y) == Bool(Value(x) <= Value(y))
test_logicalNeg(x) == Bool(x = {})

(* The number of halvings after which nothing is left, and one more.       *)
test_howManyBits(x) ==
  LET a == IF Value(x) < 0 THEN -(Value(x) + 1) ELSE Value(x)
  IN  Word(1 + CHOOSE n \in 0..31 : (n = 31 \/ a < 2^n) /\ (n > 0 => a >= 2^(n - 1)))

(* What a float is: infinite, not a number, or +- m * 2^e.  f2u of such a  *)
(* number, which is never rounded here.                                    *)
IsNaN(u) == Exp(u) = 0..7 /\ Frac(u) # {}
Inf == Shl(0..7, 23)
Mantissa(u) == Value(Frac(u)) + (IF Exp(u) = {} THEN 0 ELSE 2^23)
Scale(u)    == (IF Exp(u) = {} THEN 1 ELSE Value(Exp(u))) - 150

f2u(m, e) ==
  IF m = 0 THEN {}
  ELSE LET k == CHOOSE n \in 0..23 : /\ m * 2^n >= 2^23 \/ e - n = -149
                                     /\ \A l \in 0..(n - 1) : m * 2^l < 2^23 /\ e - l > -149
           M == m * 2^k
       IN  CASE M < 2^23                    -> Word(M)
             [] M >= 2^23 /\ e - k <= 104   -> Word((e - k + 150) * 2^23 + (M - 2^23))
             [] OTHER                       -> Inf

test_floatScale2(uf) ==
  IF Exp(uf) = 0..7 THEN uf
  ELSE Or(Shl(Sign(uf), 31), f2u(Mantissa(uf), Scale(uf) + 1))

(* (int) f as the processor does it: whatever does not fit gives TMin.     *)
test_floatFloat2Int(uf) ==
  LET e == Scale(uf)
      m == CASE e >= 0           -> Mantissa(uf) * 2^e
             [] e \in -24 .. -1  -> Mantissa(uf) \div 2^(-e)
             [] OTHER            -> 0
  IN  IF e > 7 THEN TMin ELSE Word(IF Sign(uf) = {} THEN m ELSE -m)

(* 2.0 or 0.5 to the power |x| by squaring; a float that is a power of two *)
(* is its exponent, beyond which there are Infinity and 0.                 *)
Times(a, b) == CASE a + b > 127 -> 1000 [] a + b < -149 -> -1000 [] OTHER -> a + b

test_floatPower2(x) ==
  LET n == IF x = TMin THEN 0 ELSE Value(x)
      a == Word(IF n < 0 THEN -n ELSE n)
      Turn(p, i) == [result |-> IF i \in a THEN Times(p.result, p.p2) ELSE p.result,
                     p2     |-> Times(p.p2, p.p2)]
      r == FoldLeft(Turn, [result |-> 0, p2 |-> IF n < 0 THEN -1 ELSE 1],
                    [i \in 1..31 |-> i - 1]).result
  IN  CASE x = TMin \/ r = -1000 -> {}
        [] x # TMin /\ r = 1000  -> Inf
        [] OTHER                 -> f2u(1, r)

(***************************************************************************)
(* decl.c and btest.c                                                      *)
(***************************************************************************)
CONSTANTS TEST_RANGE,   \* how many values near each point of interest
          Randoms,      \* what random_val returns
          Given         \* arguments the user may name, as words

Test(name, args, rating, float) ==
  [name |-> name, args |-> args, rating |-> rating, float |-> float]
test_set ==
  <<Test("bitXor", 2, 1, FALSE), Test("tmin", 0, 1, FALSE), Test("isTmax", 1, 1, FALSE),
    Test("allOddBits", 1, 2, FALSE), Test("negate", 1, 2, FALSE),
    Test("isAsciiDigit", 1, 3, FALSE), Test("conditional", 3, 3, FALSE),
    Test("isLessOrEqual", 2, 3, FALSE), Test("logicalNeg", 1, 4, FALSE),
    Test("howManyBits", 1, 4, FALSE), Test("floatScale2", 1, 4, TRUE),
    Test("floatFloat2Int", 1, 4, TRUE), Test("floatPower2", 1, 4, TRUE)>>

Solution(name, a) ==
  CASE name = "bitXor"         -> bitXor(a[1], a[2])
    [] name = "tmin"           -> tmin
    [] name = "isTmax"         -> isTmax(a[1])
    [] name = "allOddBits"     -> allOddBits(a[1])
    [] name = "negate"         -> negate(a[1])
    [] name = "isAsciiDigit"   -> isAsciiDigit(a[1])
    [] name = "conditional"    -> conditional(a[1], a[2], a[3])
    [] name = "isLessOrEqual"  -> isLessOrEqual(a[1], a[2])
    [] name = "logicalNeg"     -> logicalNeg(a[1])
    [] name = "howManyBits"    -> howManyBits(a[1])
    [] name = "floatScale2"    -> floatScale2(a[1])
    [] name = "floatFloat2Int" -> floatFloat2Int(a[1])
    [] name = "floatPower2"    -> floatPower2(a[1])

Reference(name, a) ==
  CASE name = "bitXor"         -> test_bitXor(a[1], a[2])
    [] name = "tmin"           -> test_tmin
    [] name = "isTmax"         -> test_isTmax(a[1])
    [] name = "allOddBits"     -> test_allOddBits(a[1])
    [] name = "negate"         -> test_negate(a[1])
    [] name = "isAsciiDigit"   -> test_isAsciiDigit(a[1])
    [] name = "conditional"    -> test_conditional(a[1], a[2], a[3])
    [] name = "isLessOrEqual"  -> test_isLessOrEqual(a[1], a[2])
    [] name = "logicalNeg"     -> test_logicalNeg(a[1])
    [] name = "howManyBits"    -> test_howManyBits(a[1])
    [] name = "floatScale2"    -> test_floatScale2(a[1])
    [] name = "floatFloat2Int" -> test_floatFloat2Int(a[1])
    [] name = "floatPower2"    -> test_floatPower2(a[1])

(* gen_vals, as a set: the values around the boundaries and around zero,   *)
(* and for floats around zero, the smallest normalised number, one and     *)
(* what btest.c takes for the largest.                                     *)
FloatVals(range) ==
  LET smallest_norm == 2^23
      one == 127 * 2^23
      largest_norm == 254 * 2^23
      plus == UNION {{i, smallest_norm + i, smallest_norm - i, one + i, one - i, largest_norm - i} :
                     i \in 0..(range - 1)}
      words == {Word(n) : n \in plus} \cup {Inf, Or(Inf, {22})}
  IN  words \cup {Or(w, TMin) : w \in words}

IntVals(range) ==
  UNION {{Plus(TMin, Word(i)), Plus(TMax, Word(-i)), Word(i), Word(-i)} : i \in 0..(range - 1)}
    \cup Randoms

gen_vals(t, range) == IF t.float THEN FloatVals(range) ELSE IntVals(range)

(* The roots of TEST_RANGE that functions of several arguments get.        *)
Root(k) == CHOOSE n \in 1..TEST_RANGE : n^k <= TEST_RANGE /\ (n + 1)^k > TEST_RANGE

VARIABLE bt         \* the run of btest

(* only, given: the options -f and -1; i: the function under test; todo:   *)
(* its first arguments; points and errors so far.                          *)
BtestStart(only, given) ==
  bt = [pc |-> "next", only |-> only, given |-> given, i |-> 1, todo |-> {},
        errors |-> 0, points |-> 0, max_points |-> 0]
BtestStarts ==
  \/ BtestStart("", {})
  \/ \E t \in ToSet(test_set), w \in Given : t.args = 1 /\ BtestStart(t.name, {w})

Tested == test_set[bt.i]
TestRange(args) == IF args = 3 THEN Root(3) ELSE IF args = 2 THEN Root(2) ELSE TEST_RANGE

(* run_tests goes on to its next function, or is over.                     *)
NextFunction ==
  /\ bt.pc = "next" /\ bt.i <= Len(test_set)
  /\ IF bt.only \notin {"", Tested.name}
     THEN bt' = [bt EXCEPT !.i = @ + 1]
     ELSE bt' = [bt EXCEPT !.pc = "test", !.max_points = @ + Tested.rating,
                           !.todo = CASE Tested.args = 0 -> {{}}
                                      [] Tested.args > 0 /\ bt.given # {} -> bt.given
                                      [] OTHER -> gen_vals(Tested, TestRange(Tested.args))]

(* test_0_arg to test_3_arg on one first argument and all the others.      *)
TestArgument ==
  /\ bt.pc = "test" /\ bt.todo # {}
  /\ LET others == gen_vals(Tested, TestRange(Tested.args))
         a1     == CHOOSE w \in bt.todo : TRUE
         tuples == CASE Tested.args = 3 -> {<<a1, a2, a3>> : a2 \in others, a3 \in others}
                     [] Tested.args = 2 -> {<<a1, a2>> : a2 \in others}
                     [] OTHER           -> {<<a1>>}
         error  == \E a \in tuples : Solution(Tested.name, a) # Reference(Tested.name, a)
     IN  IF error
         THEN bt' = [bt EXCEPT !.pc = "next", !.i = @ + 1, !.errors = @ + 1]
         ELSE bt' = [bt EXCEPT !.todo = @ \ {a1}]

(* No argument of this function gave an error.                             *)
FunctionPasses ==
  /\ bt.pc = "test" /\ bt.todo = {}
  /\ bt' = [bt EXCEPT !.pc = "next", !.i = @ + 1, !.points = @ + Tested.rating]

BtestNext == NextFunction \/ TestArgument \/ FunctionPasses

(* The floats that two solutions get wrong: those whose double overflows,  *)
(* which floatScale2 makes a NaN of unless the fraction is 0, and those of *)
(* magnitude between 2^31 and 2^32, of which floatFloat2Int returns the    *)
(* bits.                                                                   *)
Deviates(name, uf) ==
  \/ name = "floatScale2"    /\ Exp(uf) = 1..7 /\ Frac(uf) # {}
  \/ name = "floatFloat2Int" /\ Exp(uf) = {1, 2, 3, 4, 7} /\ Frac(uf) # {}

(* Every solution computes what its reference does, over the whole range   *)
(* btest generates; on an argument that the user names it does so too,     *)
(* except for the two deviations, which lie outside that range.            *)
PuzzlesRight ==
  bt.pc = "next" /\ bt.i > Len(test_set) =>
    IF bt.only = "" THEN bt.errors = 0 /\ bt.points = bt.max_points
    ELSE bt.errors > 0 <=> \E w \in bt.given : Deviates(bt.only, w)
=============================================================================
