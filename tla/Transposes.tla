----------------------------- MODULE Transposes -----------------------------
(***************************************************************************)
(* cachelab-handout: the transposes of trans.c as the loads and stores     *)
(* they make, and the chain that grades them: driver.py runs test-trans on *)
(* three sizes of matrix, test-trans has tracegen check and trace every    *)
(* registered function and counts the misses of the trace.                 *)
(***************************************************************************)
EXTENDS CacheSim

(* "L": reg := m[i][j]; "S": m[i][j] := reg.  m is A or B.                 *)
Load(reg, m, i, j)  == [op |-> "L", reg |-> reg, m |-> m, i |-> i, j |-> j]
Store(reg, m, i, j) == [op |-> "S", reg |-> reg, m |-> m, i |-> i, j |-> j]
Move(mi, mj, i, j)  == <<Load(9, "A", mi, mj), Store(9, "B", i, j)>>

(* The statements of a loop's turns k = 0, 1 ... n - 1.                    *)
Loop(n, Body(_)) == FlattenSeq([k \in 1..n |-> Body(k - 1)])

(* a = A[i][j] ... h = A[i][j + 7].                                        *)
Row8(i, j) == [n \in 1..8 |-> Load(n, "A", i, j + n - 1)]

(* 32 x 32, the block at i, j: in the turns k of one loop its rows are     *)
(* copied as rows of B, in those of another B's block is transposed.       *)
Copy32(i, j, k) == Row8(i + k, j) \o [n \in 1..8 |-> Store(n, "B", j + k, i + n - 1)]
Swap32(i, j, k) ==
  Loop(k, LAMBDA l : <<Load(9, "B", j + k, i + l), Load(10, "B", j + l, i + k),
                       Store(10, "B", j + k, i + l), Store(9, "B", j + l, i + k)>>)

(* 64 x 64, the block at i, j: its upper half is transposed, the right part*)
(* of it into the wrong quarter; then that quarter is moved to its place   *)
(* while the lower half comes in.                                          *)
Upper64(i, j, k) ==
  Row8(i + k, j) \o [n \in 1..4 |-> Store(n, "B", j + n - 1, i + k)]
                 \o [n \in 1..4 |-> Store(n + 4, "B", j + n - 1, i + k + 4)]

Parked(i, j, k)  == [n \in 1..4 |-> Load(n, "B", j + k, i + n + 3)]
LowerLeft(i, j, k) ==
  [n \in 1..4 |-> Load(n + 4, "A", i + n + 3, j + k)]
    \o [n \in 1..4 |-> Store(n + 4, "B", j + k, i + n + 3)]
LowerRight(i, j, k) ==
  [n \in 1..4 |-> Store(n, "B", j + k + 4, i + n - 1)]
    \o Loop(4, LAMBDA n : Move(i + n + 4, j + k + 4, j + k + 4, i + n + 4))

(* Faulty variant: what is parked in B is overwritten before it is read.   *)
Lower64Early(i, j, k) == LowerLeft(i, j, k) \o Parked(i, j, k) \o LowerRight(i, j, k)

Lower64(i, j, k) == Parked(i, j, k) \o LowerLeft(i, j, k) \o LowerRight(i, j, k)

(* Any other size: strips of eight columns, then the columns left over.    *)
Strip(j, k) == Row8(k, j) \o [n \in 1..8 |-> Store(n, "B", j + n - 1, k)]
Rest(M, i) ==
  LET M_ == M - (M % 8) IN Loop(M % 8, LAMBDA j : Move(i, M_ + j, M_ + j, i))

(* All the turns of the loops around these statements, in their order.     *)
SubmitTurns(M, N) ==
  CASE M = 32 /\ N = 32 -> 16 * 16 [] M = 64 /\ N = 64 -> 64 * 8 [] OTHER -> (M \div 8) * N + N

transpose_submit(M, N, t) ==
  CASE M = 32 /\ N = 32 -> LET i == 8 * (t \div 64)
                               j == 8 * ((t \div 16) % 4)
                           IN  IF t % 16 < 8 THEN Copy32(i, j, t % 8) ELSE Swap32(i, j, t % 8)
    [] M = 64 /\ N = 64 -> LET i == 8 * (t \div 64)
                               j == 8 * ((t \div 8) % 8)
                           IN  IF t % 8 < 4 THEN Upper64(i, j, t % 4) ELSE Lower64(i, j, t % 4)
    [] OTHER            -> IF t < (M \div 8) * N THEN Strip(8 * (t \div N), t % N)
                           ELSE Rest(M, t - (M \div 8) * N)

trans(M, N, t) == Loop(M, LAMBDA j : Move(t, j, j, t))

(* registerFunctions.                                                      *)
func_list == <<"Transpose submission", "Simple row-wise scan transpose">>
Turns(fn, M, N) == IF fn = 1 THEN SubmitTurns(M, N) ELSE N
Program(fn, M, N, turn) == IF fn = 1 THEN transpose_submit(M, N, turn) ELSE trans(M, N, turn)

(***************************************************************************)
(* tracegen.c: A and B lie one after the other, 256 * 256 ints each, and   *)
(* hold their rows without gaps.  initMatrix: every element of A is told   *)
(* from the others by its place.                                           *)
(***************************************************************************)
Address(m, M, N, i, j) == IF m = "A" THEN 4 * (i * M + j) ELSE 4 * (256 * 256 + i * N + j)

Junk == -1
initMatrix(M, N) ==
  [B |-> [i \in 0..(M - 1) |-> [j \in 0..(N - 1) |-> Junk]],
   reg |-> [r \in 1..10 |-> Junk], sim |-> init_cache(5, 1, 5)]

(* One access, traced and counted.                                         *)
Access(M, N, s, a) ==
  LET sim == simulate(s.sim, a.op, Address(a.m, M, N, a.i, a.j))
  IN  IF a.op = "S"
      THEN [B |-> [s.B EXCEPT ![a.i][a.j] = s.reg[a.reg]], reg |-> s.reg, sim |-> sim]
      ELSE [B |-> s.B, sim |-> sim,
            reg |-> [s.reg EXCEPT ![a.reg] = IF a.m = "A" THEN a.i * M + a.j ELSE s.B[a.i][a.j]]]

validate(M, N, B) == \A i \in 0..(M - 1), j \in 0..(N - 1) : B[i][j] = j * M + i

(***************************************************************************)
(* test-trans.c and driver.py.                                             *)
(***************************************************************************)
Sizes == <<<<32, 32>>, <<64, 64>>, <<61, 67>>>>
INT_MAX == 2147483647

(* In tenths of a point, as it is rounded.                                 *)
computeMissScore(miss, lower, upper, full_score) ==
  CASE miss <= lower -> 10 * full_score
    [] miss >= upper -> 0
    [] OTHER -> (2 * 10 * (upper - miss) * full_score + (upper - lower)) \div (2 * (upper - lower))

VARIABLE grading    \* size and function under test, its memory, the results

NoResults == [correct |-> 0, misses |-> INT_MAX]
TransInit ==
  grading = [size |-> 1, fn |-> 1, turn |-> 0, mem |-> initMatrix(32, 32),
             results |-> <<NoResults, NoResults, NoResults>>]

M == Sizes[grading.size][1]
N == Sizes[grading.size][2]
Grading == grading.size <= Len(Sizes)

(* A turn of the outer loops of the function that is being traced.         *)
RunTurn ==
  /\ Grading /\ grading.turn < Turns(grading.fn, M, N)
  /\ grading' = [grading EXCEPT
       !.turn = @ + 1,
       !.mem = FoldLeft(LAMBDA s, a : Access(M, N, s, a), @, Program(grading.fn, M, N, grading.turn))]

(* eval_perf: the function is checked and, when it is the submission, its  *)
(* misses are kept.  Then the next function, or main's result line and the *)
(* next size.                                                              *)
FunctionTraced ==
  /\ Grading /\ grading.turn = Turns(grading.fn, M, N)
  /\ LET ok   == validate(M, N, grading.mem.B)
         last == grading.fn = Len(func_list)
         size == IF last THEN grading.size + 1 ELSE grading.size
     IN  grading' =
           [size |-> size, fn |-> IF last THEN 1 ELSE grading.fn + 1, turn |-> 0,
            mem |-> IF size > Len(Sizes) THEN grading.mem ELSE initMatrix(Sizes[size][1], Sizes[size][2]),
            results |-> IF ok /\ grading.fn = 1
                        THEN [grading.results EXCEPT ![grading.size] =
                                [correct |-> 1, misses |-> grading.mem.sim.misses]]
                        ELSE grading.results]

TransNext == RunTurn \/ FunctionTraced

(* The driver's points for the three sizes: each multiplied by whether     *)
(* that result is correct.                                                 *)
Points(r, lower, upper, full) == computeMissScore(r.misses, lower, upper, full) * r.correct
total_score ==
  Points(grading.results[1], 300, 600, 8) + Points(grading.results[2], 1300, 2000, 8)
    + Points(grading.results[3], 2000, 3000, 10)

(* The blocked transposes move every element to its place although they    *)
(* park parts of A in B, and their misses stay below the limits of full    *)
(* marks; the simple one is correct too, where it is done.                 *)
TransposeScores ==
  /\ ~Grading => total_score = 10 * 26
  /\ Grading /\ grading.turn = Turns(grading.fn, M, N) => validate(M, N, grading.mem.B)
=============================================================================
