---------------------------- MODULE Qualification ----------------------------
(***************************************************************************)
(* The Turin selection rule (qualification.rs, select) and the boundary    *)
(* lines the page draws from it (web.rs, build_rows).                      *)
(*                                                                         *)
(* select is a pure function of the stored table and the curated file; the *)
(* specification lets both change the way a season changes them, so that   *)
(* what one change does to the selection can be stated.                    *)
(***************************************************************************)
EXTENDS Lists

CONSTANTS
    Player,         \* player codes
    Curatable,      \* those the curated file may name
    Table,          \* the validated tables: sequences of rows in rank order
    TopSeats,       \* seats by race rank alone: 7
    FirstEligible,  \* displayed ranks between which a champion
    LastEligible,   \*   may claim a seat: 8 to 20
    MaxChampions    \* how many champions the rule reads: 2

\* source.rs, validate: a player once, points non-increasing.
ASSUME TableAssumption ==
    \A t \in Table :
        /\ t \in Seq([code : Player, points : Nat])
        /\ \A i, j \in DOMAIN t : i < j => /\ t[i].code # t[j].code
                                           /\ t[i].points >= t[j].points

ASSUME RuleAssumption ==
    /\ Curatable \subseteq Player
    /\ {TopSeats, FirstEligible, LastEligible, MaxChampions} \subseteq Nat
    /\ TopSeats < FirstEligible
    /\ MaxChampions >= 2

VARIABLES
    table,          \* the rows of the current snapshot
    champions,      \* curated: Grand Slam champions of the season
    withdrawals,    \* curated: players who have withdrawn
    selection       \* AppState.selection

vars == <<table, champions, withdrawals, selection>>

------------------------------------------------------------------------------
(* select.  The order is kept as a sequence of ranks: a rank determines    *)
(* its row.                                                                *)

\* Seeded fault: withdrawals are ignored.
ActiveAll(rows, out) == Places(rows)
Active(rows, out) == Filter(Places(rows), {i \in DOMAIN rows : rows[i].code \notin out})

TopSeven(active) == Take(active, TopSeats)

\* Seeded fault: a champion the withdrawals have moved into the top seven is kept.
ChampionsInTopSeven(rows, active, champs) ==
    Take(Filter(active, {i \in DOMAIN rows : /\ i \in FirstEligible..LastEligible
                                             /\ rows[i].code \in champs}),
         MaxChampions)

\* Seeded fault: eligibility by position among the remaining players.
ChampionsByPosition(rows, active, champs) ==
    Take(Filter(active, {i \in DOMAIN rows : /\ \E k \in DOMAIN active \cap FirstEligible..LastEligible :
                                                  active[k] = i
                                             /\ rows[i].code \in champs}),
         MaxChampions)

Champions(rows, active, champs) ==
    Take(Filter(active, {i \in DOMAIN rows : /\ i \in FirstEligible..LastEligible
                                             /\ rows[i].code \in champs
                                             /\ i \notin Members(TopSeven(active))}),
         MaxChampions)

\* Seeded fault: every champion gets a seat.
OrderSeatPerChampion(active, provision) ==
    LET byRank == TopSeats + 1 - Len(provision)
    IN  Take(active, byRank) \o provision
            \o Filter(Skip(active, byRank), Members(active) \ Members(provision))

\* `seen` drops a champion's second occurrence, in rank order; the top seven
\* and the champions have none in common.
Order(active, provision) ==
    TopSeven(active) \o provision
        \o Filter(Skip(active, TopSeats), Members(active) \ Members(provision))

\* Provisional state by position in the order, counted from 1.
StateAt(i) ==
    CASE i <= TopSeats     -> "TopSeven"
      [] i = TopSeats + 1  -> "Eighth"
      [] i = TopSeats + 2  -> "FirstAlternate"
      [] OTHER             -> "NotSelected"

\* Selected players show their cushion over the first player out, chasers
\* their deficit to the holder of seat eight.
Margin(rows, order, i) ==
    LET line == IF i <= TopSeats + 1 THEN order[TopSeats + 2] ELSE order[TopSeats + 1]
    IN  rows[order[i]].points - rows[line].points

\* Option<String> as a sequence of at most one player.
At(rows, order, i) == IF i \in DOMAIN order THEN <<rows[order[i]].code>> ELSE <<>>

\* Seeded fault: margins are computed under the provision, too.
LinedAlways(order, slam) == TopSeats + 2 \in DOMAIN order
\* There is one line: seat eight is by rank, and somebody is out.
Lined(order, slam) == ~slam /\ TopSeats + 2 \in DOMAIN order

select(rows, champs, out) ==
    LET active    == Active(rows, out)
        provision == Champions(rows, active, champs)
        order     == Order(active, provision)
        position  == [p \in {rows[order[i]].code : i \in DOMAIN order} |->
                        CHOOSE i \in DOMAIN order : rows[order[i]].code = p]
        slam      == /\ TopSeats + 1 \in DOMAIN order
                     /\ order[TopSeats + 1] \in Members(provision)
    IN  [eighth_basis   |-> IF slam THEN "GrandSlamChampion" ELSE "RaceRank",
         eighth_code    |-> At(rows, order, TopSeats + 1),
         alternate_code |-> At(rows, order, TopSeats + 2),
         by_code        |-> [p \in out \cup DOMAIN position |->
                               IF p \in DOMAIN position THEN StateAt(position[p])
                                                        ELSE "Withdrawn"],
         margins        |-> [p \in IF Lined(order, slam) THEN DOMAIN position ELSE {} |->
                               Margin(rows, order, position[p])]]

\* Selection::state.
State(sel, p) == IF p \in DOMAIN sel.by_code THEN sel.by_code[p] ELSE "NotSelected"

Seated(sel) == {p \in Player : State(sel, p) \in {"TopSeven", "Eighth"}}

------------------------------------------------------------------------------
(* The page's boundary lines.                                              *)

Seat(rows, sel, i) == State(sel, rows[i].code)

cut_strong_after(rows, sel) ==
    /\ Len(rows) > TopSeats
    /\ \A i \in 1..TopSeats : Seat(rows, sel, i) = "TopSeven"

\* Seeded fault: the line is drawn after row eight whoever holds the seat.
CutOrdinaryByBasis(rows, sel) ==
    /\ cut_strong_after(rows, sel)
    /\ sel.eighth_basis # "GrandSlamChampion"
cut_ordinary_after(rows, sel) ==
    /\ cut_strong_after(rows, sel)
    /\ sel.eighth_basis # "GrandSlamChampion"
    /\ Seat(rows, sel, TopSeats + 1) = "Eighth"

------------------------------------------------------------------------------
Init ==
    /\ table \in Table
    /\ champions = {}
    /\ withdrawals = {}
    /\ selection = select(table, champions, withdrawals)

\* The cycle that reads a change builds a new AppState from it.
Select == selection' = select(table', champions', withdrawals')

\* A new snapshot is published.
NewTable(t) ==
    /\ t # table
    /\ table' = t
    /\ UNCHANGED <<champions, withdrawals>>
    /\ Select

\* The curated file gains a champion or a withdrawal.
WinSlam(p) ==
    /\ p \notin champions
    /\ champions' = champions \cup {p}
    /\ UNCHANGED <<table, withdrawals>>
    /\ Select

Withdraw(p) ==
    /\ p \notin withdrawals
    /\ withdrawals' = withdrawals \cup {p}
    /\ UNCHANGED <<table, champions>>
    /\ Select

\* The curated file of another season, or a correction, starts over.
NewSeason ==
    /\ champions \cup withdrawals # {}
    /\ champions' = {}
    /\ withdrawals' = {}
    /\ UNCHANGED table
    /\ Select

Next ==
    \/ \E t \in Table : NewTable(t)
    \/ \E p \in Curatable : WinSlam(p) \/ Withdraw(p)
    \/ NewSeason

Spec == Init /\ [][Next]_vars

------------------------------------------------------------------------------
(* Properties.                                                             *)

CodesOf(rows) == {rows[i].code : i \in DOMAIN rows}

\* Every player of the table has a state, as has everyone who withdrew; if
\* margins are shown at all, every remaining player has one.
TypeOK ==
    /\ table \in Table
    /\ champions \cup withdrawals \subseteq Curatable
    /\ DOMAIN selection.by_code = CodesOf(table) \cup withdrawals
    /\ DOMAIN selection.margins \in {{}, CodesOf(table) \ withdrawals}

(* The rule as the page states it (templates/index.html, methodology.html), by
   counting instead of by list surgery. *)
Remaining(rows, out) == {i \in DOMAIN rows : rows[i].code \notin out}
ByRank(rows, out) ==
    {i \in Remaining(rows, out) : Below(Remaining(rows, out), i) < TopSeats}
Chasing(rows, out) == Remaining(rows, out) \ ByRank(rows, out)
Claimants(rows, champs, out) ==
    {i \in Chasing(rows, out) : i \in FirstEligible..LastEligible /\ rows[i].code \in champs}
Claiming(rows, champs, out) ==
    {i \in Claimants(rows, champs, out) : Below(Claimants(rows, champs, out), i) < MaxChampions}

\* Whoever has a claim comes before whoever has none; among equals it is rank.
Before(claiming, j, i) ==
    \/ j \in claiming /\ i \notin claiming
    \/ (j \in claiming <=> i \in claiming) /\ j < i
Ahead(rows, champs, out, i) ==
    {j \in Chasing(rows, out) : Before(Claiming(rows, champs, out), j, i)}
Expected(rows, champs, out, i) ==
    IF i \in ByRank(rows, out) THEN "TopSeven"
    ELSE StateAt(TopSeats + 1 + Cardinality(Ahead(rows, champs, out, i)))

\* While seat eight goes by rank and somebody is next in line, the selected
\* are measured against the first alternate, the others against the eighth.
Holding(rows, out, sel, s) == {i \in Remaining(rows, out) : State(sel, rows[i].code) = s}
MarginsOf(rows, champs, out, sel) ==
    LET eighth    == Holding(rows, out, sel, "Eighth")
        alternate == Holding(rows, out, sel, "FirstAlternate")
        chosen    == eighth \cup Holding(rows, out, sel, "TopSeven")
    IN  /\ DOMAIN sel.margins = IF Claiming(rows, champs, out) = {} /\ alternate # {}
                                THEN {rows[i].code : i \in Remaining(rows, out)} ELSE {}
        /\ \A i \in Remaining(rows, out) : rows[i].code \in DOMAIN sel.margins =>
              \E j \in IF i \in chosen THEN alternate ELSE eighth :
                 sel.margins[rows[i].code] = rows[i].points - rows[j].points

Rule(rows, champs, out, sel) ==
    /\ \A i \in Remaining(rows, out) : State(sel, rows[i].code) = Expected(rows, champs, out, i)
    /\ \A p \in out : State(sel, p) = "Withdrawn"
    /\ (sel.eighth_basis = "GrandSlamChampion") = (Claiming(rows, champs, out) # {})
    /\ MarginsOf(rows, champs, out, sel)

\* The selection is what the published rule says for every table, set of
\* champions and set of withdrawals; nobody who withdrew is in it, and every
\* margin is the distance to the player it should be measured against.
MatchesRule == Rule(table, champions, withdrawals, selection)

\* A line on the page has exactly the seated players above it, so it is not
\* drawn when a withdrawal or a champion breaks the order.
CutLinesDivide ==
    /\ cut_strong_after(table, selection) =>
          \A i \in DOMAIN table : (Seat(table, selection, i) = "TopSeven") = (i <= TopSeats)
    /\ cut_ordinary_after(table, selection) =>
          \A i \in DOMAIN table : (table[i].code \in Seated(selection)) = (i <= TopSeats + 1)

\* A withdrawal costs nobody else a seat.
WithdrawalCostsNobodyElse ==
    [][\A p \in Curatable :
          Withdraw(p) => Seated(selection) \ {p} \subseteq Seated(selection)']_vars

\* A Slam title costs at most the holder of seat eight a seat, and never its
\* winner.
SlamCostsAtMostSeatEight ==
    [][\A p \in Curatable :
          WinSlam(p) => \A q \in Seated(selection) \ Seated(selection)' :
                           /\ q # p
                           /\ <<q>> = selection.eighth_code]_vars

\* The first alternate gets the next seat that falls free, except a second
\* champion: the provision holds one seat, so when a player of the top seven
\* withdraws it is the next by rank who moves up.
SecondChampion(sel) ==
    sel.eighth_basis = "GrandSlamChampion" /\ \E i \in Claimants(table, champions, withdrawals) :
                                                   <<table[i].code>> = sel.alternate_code
AlternateStepsUp ==
    [][\A p \in Seated(selection) \cap Curatable :
          Withdraw(p) /\ (SecondChampion(selection) => State(selection, p) = "Eighth")
            => \A q \in Player : <<q>> = selection.alternate_code => q \in Seated(selection)']_vars
=============================================================================
