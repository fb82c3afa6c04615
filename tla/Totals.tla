------------------------------- MODULE Totals -------------------------------
(***************************************************************************)
(* The total of a sequence of numbers, as a loop over it adds them up.     *)
(***************************************************************************)
EXTENDS Integers, Sequences

Total(s) ==
  LET sum[n \in 0..Len(s)] == IF n = 0 THEN 0 ELSE sum[n - 1] + s[n] IN sum[Len(s)]
=============================================================================
