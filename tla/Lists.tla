--------------------------------- MODULE Lists ---------------------------------
(***************************************************************************)
(* The iterator adaptors the code walks a table with.  A walk goes over    *)
(* the places of the rows, in ascending order: a place determines its row. *)
(***************************************************************************)
EXTENDS Integers, Sequences, FiniteSets

\* iter().enumerate(): the places of a list.
Places(s) == [i \in DOMAIN s |-> i]

\* filter.
Filter(s, T) ==
    LET kept[i \in 0..Len(s)] == IF i = 0        THEN <<>>
                                 ELSE IF s[i] \in T THEN Append(kept[i - 1], s[i])
                                 ELSE kept[i - 1]
    IN  kept[Len(s)]

Take(s, n) == SubSeq(s, 1, IF n < Len(s) THEN n ELSE Len(s))
Skip(s, n) == SubSeq(s, n + 1, Len(s))

\* sum.
Total(ns) ==
    LET upto[i \in 0..Len(ns)] == IF i = 0 THEN 0 ELSE upto[i - 1] + ns[i]
    IN  upto[Len(ns)]

\* All elements of the sequence as a set.
Members(s) == {s[i] : i \in DOMAIN s}

\* How many elements of S come before r.
Below(S, r) == Cardinality({q \in S : q < r})

\* s lists S in ascending order.
Enumerates(s, S) ==
    /\ s \in Seq(Nat)
    /\ Members(s) = S
    /\ \A i, j \in DOMAIN s : i < j => s[i] < s[j]
=============================================================================
