--------------------------------- MODULE Page ---------------------------------
(***************************************************************************)
(* The page (web.rs, index): a request takes the served state once and     *)
(* builds the summary, the shared-link text and the rows of the table from *)
(* it, while the refresh swaps in other states.  The three say the same    *)
(* things in different words, by different ways through the selection and  *)
(* the table.                                                              *)
(*                                                                         *)
(* Qualification supplies the table, the curated facts and the selection;  *)
(* here a new version also brings the version before it, which movement    *)
(* is derived from, and the announcements.                                 *)
(***************************************************************************)
EXTENDS Qualification

CONSTANTS
    Name,       \* Name[p]: the display name, not unique
    Announced   \* sets of players an article may announce as qualified

VARIABLES
    previous,   \* the rows of the version before, if there is one
    qualifiers, \* the announced players
    guard,      \* the state a request holds
    summary,    \* the summary it has built
    response    \* what the last request was answered with

pageVars == <<vars, previous, qualifiers, guard, summary, response>>

AppState == [rows       |-> table,
             previous   |-> previous,
             qualifiers |-> qualifiers,
             selection  |-> selection]

None == [rows |-> <<>>]
Dash == "none"

\* The dash is nobody's name.
ASSUME NameAssumption == \A p \in Player : Name[p] # Dash

------------------------------------------------------------------------------
(* build_summary and shared_link_text.                                     *)

\* The name of a player of the table; failing that, the code.
name_of(s, code) == IF \E i \in DOMAIN s.rows : s.rows[i].code = code THEN Name[code] ELSE code

NameOrDash(s, code) == IF code = <<>> THEN Dash ELSE name_of(s, code[1])

Slam(s) == s.selection.eighth_basis = "GrandSlamChampion"

TopSevenRanks(s) ==
    Filter(Places(s.rows), {i \in DOMAIN s.rows : State(s.selection, s.rows[i].code) = "TopSeven"})

NamesAt(rows, ranks) == [k \in DOMAIN ranks |-> Name[rows[ranks[k]].code]]

build_summary(s) ==
    [officials      |-> {name_of(s, q) : q \in s.qualifiers},
     top_seven      |-> NamesAt(s.rows, TopSevenRanks(s)),
     eighth         |-> NameOrDash(s, s.selection.eighth_code),
     alternate      |-> NameOrDash(s, s.selection.alternate_code),
     basis_sentence |-> s.selection.eighth_code # <<>> /\ Slam(s)]

------------------------------------------------------------------------------
(* build_rows.                                                             *)

\* Places gained, as a set of at most one.
\* Seeded fault: places lost count as gained.
MovementReversed(s, i) == {i - j : j \in {k \in DOMAIN s.previous : s.previous[k].code = s.rows[i].code}}
Movement(s, i) == {j - i : j \in {k \in DOMAIN s.previous : s.previous[k].code = s.rows[i].code}}

status_label(s, state) ==
    CASE state = "TopSeven"       -> "Top 7"
      [] state = "Eighth"         -> IF Slam(s) THEN "8th seat, Slam rule" ELSE "8th seat"
      [] state = "FirstAlternate" -> "First alternate"
      [] state = "Withdrawn"      -> "Withdrawn"
      [] state = "NotSelected"    -> ""

RowView(s, i) ==
    LET p == s.rows[i].code
    IN  [name         |-> Name[p],
         moved        |-> Movement(s, i),
         official     |-> p \in s.qualifiers,
         status_label |-> status_label(s, State(s.selection, p)),
         margin       |-> {s.selection.margins[q] : q \in {p} \cap DOMAIN s.selection.margins},
         cut          |-> \/ i = TopSeats /\ cut_strong_after(s.rows, s.selection)
                          \/ i = TopSeats + 1 /\ cut_ordinary_after(s.rows, s.selection)]

build_rows(s) == [i \in DOMAIN s.rows |-> RowView(s, i)]

------------------------------------------------------------------------------
PageInit ==
    /\ Init
    /\ previous = <<>>
    /\ qualifiers = {}
    /\ guard = None
    /\ summary = None
    /\ response = None

\* Validation asks that everybody announced is in the table.
Valid(q, rows) == q \subseteq {rows[i].code : i \in DOMAIN rows}

\* A cycle publishes a version, for its table or its announcements, and the
\* state built from it is swapped in.
Publish ==
    /\ \E t \in Table, q \in Announced :
          /\ Valid(q, t)
          /\ t # table \/ q # qualifiers
          /\ table' = t
          /\ qualifiers' = q
    /\ previous' = table
    /\ UNCHANGED <<champions, withdrawals>>
    /\ Select
    /\ UNCHANGED <<guard, summary, response>>

\* A change of the curated file makes no version.
Curate ==
    /\ \/ \E p \in Curatable : WinSlam(p) \/ Withdraw(p)
       \/ NewSeason
    /\ UNCHANGED <<previous, qualifiers, guard, summary, response>>

\* index: shared.load().
Request ==
    /\ guard = None
    /\ guard' = AppState
    /\ response' = None
    /\ UNCHANGED <<vars, previous, qualifiers, summary>>

Summarise ==
    /\ guard # None
    /\ summary = None
    /\ summary' = build_summary(guard)
    /\ UNCHANGED <<vars, previous, qualifiers, guard, response>>

\* Seeded fault: the state is loaded again.
RenderedState == AppState
Rendered == guard

Respond ==
    /\ summary # None
    /\ response' = [summary           |-> summary,
                    rows              |-> build_rows(Rendered),
                    shared_link_text  |-> [cut       |-> NameOrDash(guard, guard.selection.eighth_code),
                                           alternate |-> summary.alternate]]
    /\ guard' = None
    /\ summary' = None
    /\ UNCHANGED <<vars, previous, qualifiers>>

PageNext == Publish \/ Curate \/ Request \/ Summarise \/ Respond

PageSpec == PageInit /\ [][PageNext]_pageVars

------------------------------------------------------------------------------
(* Properties, of every page a reader is sent.                             *)

Sent == response # None
Labelled(label) ==
    Filter(Places(response.rows), {i \in DOMAIN response.rows : response.rows[i].status_label = label})
NamesOf(ranks) == [k \in DOMAIN ranks |-> response.rows[ranks[k]].name]
OnlyName(label, name) == NamesOf(Labelled(label)) = IF name = Dash THEN <<>> ELSE <<name>>

\* The summary names those the table labels, in its order, and nobody else:
\* the seven, seat eight and by which rule, the alternate, the officials; the
\* text of a shared link names the same.
SummaryAgreesWithTable ==
    Sent =>
        LET said == response.summary
        IN  /\ said.top_seven = NamesOf(Labelled("Top 7"))
            /\ OnlyName("8th seat", IF said.basis_sentence THEN Dash ELSE said.eighth)
            /\ OnlyName("8th seat, Slam rule", IF said.basis_sentence THEN said.eighth ELSE Dash)
            /\ OnlyName("First alternate", said.alternate)
            /\ said.officials = {row.name : row \in {response.rows[i] : i \in
                                     {j \in DOMAIN response.rows : response.rows[j].official}}}
            /\ response.shared_link_text = [cut |-> said.eighth, alternate |-> said.alternate]

\* Margins are hidden exactly when the sentence says so, or nobody is out;
\* otherwise everyone who has not withdrawn shows one, no less than zero with a
\* seat and no more without.
MarginsFollowTheSentence ==
    Sent =>
        LET rows  == response.rows
            shown == ~response.summary.basis_sentence /\ response.summary.alternate # Dash
        IN  \A i \in DOMAIN rows :
                /\ rows[i].margin # {} <=> shown /\ rows[i].status_label # "Withdrawn"
                /\ \A m \in rows[i].margin :
                      /\ rows[i].status_label \in {"Top 7", "8th seat"} => m >= 0
                      /\ rows[i].status_label \in {"First alternate", ""} => m <= 0

\* The moves on a page are those of one permutation: no two rows come from
\* the same place and, when nobody entered and nobody came from below the
\* table, the places gained are the places lost.
MovesAddUp ==
    Sent =>
        LET rows == response.rows
            came == {i \in DOMAIN rows : rows[i].moved # {}}
            from == [i \in came |-> i + (CHOOSE m \in rows[i].moved : TRUE)]
        IN  /\ \A i, j \in came : from[i] = from[j] => i = j
            /\ \A i \in came : from[i] > 0
            /\ (came = DOMAIN rows /\ \A i \in came : from[i] \in DOMAIN rows)
                  => {from[i] : i \in came} = DOMAIN rows
=============================================================================
