------------------------------ MODULE MCStore -------------------------------
(* A small instance of Store for TLC. *)
EXTENDS Store, TLC

CONSTANTS p1, p2, p3,   \* players
          e1, e2,       \* ledger entries
          a, b, c       \* callers

R(p, pts, ledger) == [code |-> p, points |-> pts, results |-> ledger]
Q(p)              == [code |-> p, on |-> "day"]
S(rows, quals, t) == [rows |-> rows, qualifiers |-> quals,
                      source_as_of |-> t, generated_at |-> t]

MCPlayer == {p1, p2, p3}
MCPoints == {1, 2}
MCEntry  == {e1, e2}
MCDay    == {"day"}

\* A first table; a table with a new entrant, ranks exchanged and announcements;
\* and one that announces a player twice.
First == S(<<R(p1, 2, {e1, e2}), R(p2, 1, {e1})>>, <<>>, 0)
Moved == S(<<R(p2, 2, {e2}), R(p3, 2, {}), R(p1, 1, {e1})>>, <<Q(p2), Q(p1)>>, 2)
Twice == S(<<R(p3, 1, {})>>, <<Q(p3), Q(p3)>>, 2)

MCCandidate == {First, Moved, Twice}

\* Two tasks of one process, which share its connection, and a second process
\* with a connection of its own.
MCTasks == {a, b, c}
SharedConnection == [t \in MCTasks |-> IF t = c THEN c ELSE a]
=============================================================================
