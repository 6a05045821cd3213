----------------------------- MODULE MCStandings -----------------------------
(***************************************************************************)
(* A table of four players over two Grand Slams, one mandatory Masters and *)
(* one best other result.  The rows differ in what the parser tells apart: *)
(* every column used but the event to come; an event skipped; a best other *)
(* column unused; a first result that scored nothing.                      *)
(***************************************************************************)
EXTENDS Standings

Column(title, text, n) == [left |-> FALSE, link |-> title, shows |-> text, points |-> n]

Result(event, n) == Column(event, "Result", n)
Empty == Column("none", "Pending", 0)
A     == Column("none", "Absent", 0)

MCNoLink == "none"
MCPlayer == {"p1", "p2", "p3", "p4", "p5"}
MCTitle  == MCPlayer \cup {"AUS", "IW", "DUB"}

MCTable ==
    <<[player |-> "p1", total |-> 35, counts |-> <<4, 1>>,
       cells  |-> <<Result("AUS", 20), Empty, Result("IW", 10), Result("DUB", 5)>>],
      [player |-> "p2", total |-> 20, counts |-> <<3, 0>>,
       cells  |-> <<Result("AUS", 10), Empty, A, Result("DUB", 10)>>],
      [player |-> "p3", total |-> 9, counts |-> <<2, 0>>,
       cells  |-> <<A, Empty, Result("IW", 9), Empty>>],
      [player |-> "p4", total |-> 6, counts |-> <<2, 0>>,
       cells  |-> <<Result("AUS", 0), Empty, Result("IW", 6), Empty>>]>>

MCBlocks ==
    <<[slot |-> "GrandSlam", span |-> 2],
      [slot |-> "Mandatory1000", span |-> 1],
      [slot |-> "BestOther", span |-> 1]>>

MCAnnounced == {"p3"}

\* The doubles table announces one of the singles' players.
MCDoubles == {[link |-> "p2", aligned |-> TRUE, dated |-> TRUE, cited |-> TRUE]}

\* Above the first total, and between two.
MCMisprints == {36, 15}

MCMaxEdits == [rows |-> 2, beside |-> 1]

\* Three players with a result each.
MCSmallTable ==
    [i \in 1..3 |-> [player |-> <<"p2", "p3", "p4">>[i], total |-> 40 \div i, counts |-> <<1, 0>>,
                     cells  |-> <<Result("AUS", 40 \div i)>>]]
MCOneBlock    == <<[slot |-> "GrandSlam", span |-> 1]>>
MCSmallPlayer == {"p2", "p3", "p4"}
MCSmallTitle  == MCSmallPlayer \cup {"AUS"}
MCNoMisprint  == {}

\* One edit for each of the ways an edit can corrupt the page.
MCFourEdits == [rows |-> 3, beside |-> 1]
=============================================================================
