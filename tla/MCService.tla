----------------------------- MODULE MCService ------------------------------
(* A small instance of Service for TLC. *)
EXTENDS Service

CONSTANTS p1, p2        \* players

R(p)          == [code |-> p, points |-> 1, results |-> {}]
Q(p)          == [code |-> p, on |-> "day"]
A(rows, q, t) == [rows |-> rows, qualifiers |-> q, source_as_of |-> t, generated_at |-> 0]

MCPlayer == {p1, p2}
MCPoints == {1}
MCEntry  == {}
MCDay    == {"day"}

\* A table, the same table under a later date, the table with ranks
\* exchanged, and one that announces a player twice.
First   == A(<<R(p1), R(p2)>>, <<>>, 0)
Redated == A(<<R(p1), R(p2)>>, <<>>, 1)
Swapped == A(<<R(p2), R(p1)>>, <<Q(p2)>>, 1)
Twice   == A(<<R(p2), R(p1)>>, <<Q(p2), Q(p2)>>, 1)

MCArticle == {First, Redated, Swapped, Twice}
LiveOnly  == {First, Redated, Swapped}
=============================================================================
