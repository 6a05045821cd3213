------------------------------- MODULE MCAtpIds -------------------------------
(* A small instance of AtpIds for TLC: three titles in batches of two, an id *)
(* that was superseded, one that is marked preferred, a statement without a  *)
(* value, and one that is not an id.                                         *)
EXTENDS AtpIds

S(id, r) == [value |-> id, rank |-> r]

MCTitle == 1..3
MCId == {"A0E2", "B0E2", "a0e2"}
MCValidId == {"A0E2", "B0E2"}
MCAnswer == {<<>>,
             <<S("A0E2", "preferred"), S("B0E2", "normal")>>,
             <<S("A0E2", "normal"), S("B0E2", "deprecated")>>,
             <<S("a0e2", "normal")>>,
             <<S("A0E2", "normal"), S("novalue", "normal")>>}
MCTable == {{1, 2, 3}, {2, 3}, {1}}
=============================================================================
