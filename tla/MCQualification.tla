--------------------------- MODULE MCQualification ---------------------------
(* Instances of Qualification for TLC.  The rule treats players alike, so a *)
(* player may be named by the rank it has in the full table.                *)
EXTENDS Qualification

CONSTANT Field      \* how many players there are

MCPlayer == 1..Field

Rows(n, score(_)) == [i \in 1..n |-> [code |-> i, points |-> score(i)]]

\* Strictly falling points, ties around the line, and tables too short to
\* fill the seats.
Falling(n) == Rows(n, LAMBDA i : 2 * (Field - i))
Tied(n)    == Rows(n, LAMBDA i : IF i <= TopSeats THEN 9 ELSE 5)

\* The rule as published, with a champion or a withdrawal possible at either
\* side of every boundary of it.
FullTables == {Falling(n) : n \in {6, 8, 9, Field}} \cup {Tied(Field)}
FullPlayers == {1, 7, 8, 9, 20, 21}
=============================================================================
