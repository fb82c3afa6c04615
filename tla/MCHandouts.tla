----------------------------- MODULE MCHandouts -----------------------------
(***************************************************************************)
(* The arguments a user may give to btest: those of the comments in bits.c,*)
(* the edges of the ranges of floatPower2, and floats of every kind; the   *)
(* interrupts callibrate sees, and the teams of a malloc package.          *)
(***************************************************************************)
EXTENDS Handouts

Ints == {0, 1, 2, 5, 12, 48, 57, 58, 298, -1, -5, 2147483647, -1431655766,
         -1000, -150, -149, -130, -127, -126, 127, 128, 200}
Exponents == {0, 1, 100, 126, 127, 149, 150, 157, 158, 159, 253, 254, 255}
Floats == {Or(Or(Shl(Word(e), 23), f), s) : e \in Exponents, f \in {{}, {0}, {3, 22}, 0..22},
                                            s \in {{}, TMin}}
MCGiven == {Word(n) : n \in Ints} \cup {TMin} \cup Floats
MCRandoms == {Word(1234567)}

MCGaps == {[cycles |-> 8, ticks |-> 1], [cycles |-> 6, ticks |-> 2], [cycles |-> 2, ticks |-> 1]}

(* The team of mm.c, and teams with a field too few or too many.           *)
MCTeam == [teamname |-> TRUE, name1 |-> TRUE, id1 |-> TRUE, name2 |-> FALSE, id2 |-> FALSE]
MCTeams == {MCTeam, [MCTeam EXCEPT !.name2 = TRUE], [MCTeam EXCEPT !.teamname = FALSE]}
=============================================================================
