-------------------------------- MODULE MCPage --------------------------------
(* A small instance of Page for TLC: two seats by rank, a third for a        *)
(* champion ranked 3 or 4, and a fourth player out.                          *)
EXTENDS Page

MCPlayer == 1..5

Rows(order, score(_)) == [i \in DOMAIN order |-> [code |-> order[i], points |-> score(i)]]

\* A table, one with ranks exchanged and a tie at the line, and a longer one
\* with a new entrant.  Two withdrawals leave no alternate.
Falling(i) == 5 - i
Tied(i)    == IF i <= 2 THEN 1 ELSE 0
MCTable == {Rows(<<1, 2, 3, 4>>, Falling), Rows(<<2, 1, 4, 3>>, Tied), Rows(<<1, 2, 3, 5, 4>>, Falling)}

\* Two players whose titles differ in the disambiguator only.
MCName == <<"A", "B", "C", "D", "D">>

MCAnnounced == {{}, {1, 5}}
=============================================================================
