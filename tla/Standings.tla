------------------------------ MODULE Standings ------------------------------
(***************************************************************************)
(* The article's standings table and what the parser makes of it           *)
(* (source.rs): the text of the table up to its first end, the walk over   *)
(* its chunks, the ledger read block by block and reconciled with the      *)
(* stated total, and the validation of the whole.                          *)
(*                                                                         *)
(* The parser is a pure function of the article, so the behaviour is that  *)
(* of the article: editors edit the markup of a table that was right, edit *)
(* after edit, and the properties say what a reader can be shown.          *)
(***************************************************************************)
EXTENDS Lists, SequencesExt, FiniteSetsExt

CONSTANTS
    Table,      \* the table as the editors mean it, in rank order
    Blocks,     \* its blocks of tournament columns: the slot and the width
    Announced,  \* the players it announces as qualified
    Doubles,    \* what the next sortable table announces
    Title,      \* the articles cells link to: players and events
    Player,     \* those of players, of the table or not
    NoLink,     \* a cell without a wikilink
    MinRows,    \* MIN_ROWS
    Misprints,  \* the totals an editor may type
    MaxEdits    \* bounds on the edits of rows and of what is beside them

VARIABLES
    article,    \* the markup: the header's blocks, the table's chunks, the
                \* announcements, and the markers the parser finds its way by
    damage      \* the edits so far, for the bounds

vars == <<article, damage>>

------------------------------------------------------------------------------
(* Markup.  A chunk is what stands between two row separators: the cells   *)
(* (the player's first, its style prefix being `left`), the number in the  *)
(* rank cell, the numeric `!` cells, and whether a "|}" closes the table   *)
(* there.  The parser cannot see the row it was written for (`of`, 0 for   *)
(* none), how often its text was edited, nor whether it holds a result     *)
(* that is not the row's (`foreign`).                                      *)

Slot == {"GrandSlam", "Mandatory1000", "BestOther"}
Text == {"Name", "Result", "Pending", "Absent"}
Cell == [left : BOOLEAN, link : Title \cup {NoLink}, shows : Text, points : Nat]

PlayerCell(title) == [left |-> TRUE, link |-> title, shows |-> "Name", points |-> 0]

RowChunk(i) ==
    [separator |-> FALSE,
     of        |-> i,
     edits     |-> 0,
     foreign   |-> FALSE,
     ends      |-> FALSE,
     rank      |-> i,
     numbers   |-> <<Table[i].total>> \o Table[i].counts,
     cells     |-> <<PlayerCell(Table[i].player)>> \o Table[i].cells]

\* "Alternates", across the whole width, after the eighth row.
Separator ==
    [separator |-> TRUE, of |-> 0, edits |-> 0, foreign |-> FALSE, ends |-> FALSE,
     rank |-> 0, numbers |-> <<>>, cells |-> <<>>]

------------------------------------------------------------------------------
(* parse_standings.                                                        *)

\* The table runs to its first "|}": what stands below a stray one is not
\* read.
table_at(chunks) ==
    SubSeq(chunks, 1, Min({k \in DOMAIN chunks : chunks[k].ends} \cup {Len(chunks)}))

\* The slot of every tournament column, from the header's blocks.
Columns(groups) ==
    FlattenSeq([g \in DOMAIN groups |-> [k \in 1..groups[g].span |-> groups[g].slot]])

\* Seeded fault: the number is read whether the cell has a link or not.
parse_result_cell_unlinked(cell, slot) ==
    [slot   |-> slot,
     played |-> IF cell.link # NoLink THEN "Result" ELSE cell.shows,
     event  |-> cell.link,
     points |-> cell.points]
parse_result_cell(cell, slot) ==
    [slot   |-> slot,
     played |-> IF cell.link # NoLink THEN "Result" ELSE cell.shows,
     event  |-> cell.link,
     points |-> IF cell.link # NoLink THEN cell.points ELSE 0]

\* The cells after the player's, as many as there are; an unused column of
\* the last block is not an entry.
parse_ledger(cells, player_at, groups) ==
    LET slots   == Columns(groups)
        all     == [k \in 1..Min({Len(slots), Len(cells) - player_at}) |->
                        parse_result_cell(cells[player_at + k], slots[k])]
        entries == Filter(Places(all), {k \in DOMAIN all : ~(/\ all[k].slot = "BestOther"
                                                             /\ all[k].played = "Pending")})
    IN  [n \in DOMAIN entries |-> all[entries[n]]]

Sum(results) == Total([n \in DOMAIN results |-> results[n].points])

\* Seeded fault: a ledger is kept while it does not exceed the total.
ReconcilesBelow(results, total) == results # <<>> /\ Sum(results) <= total
Reconciles(results, total) == results # <<>> /\ Sum(results) = total

\* Chunks the walk passes over: separators, stubs, rows without a rank.
Skipped(chunk) ==
    \/ chunk.separator
    \/ Len(chunk.cells) < 2
    \/ chunk.rank = 0

Links(cells) == {k \in DOMAIN cells : cells[k].link # NoLink}

\* The aligned cell with a link or, failing that, the first with a link.
PlayerAt(cells) ==
    LET aligned == {k \in Links(cells) : cells[k].left}
    IN  Min(IF aligned # {} THEN aligned ELSE Links(cells))

\* No player cell, or no total: the whole article is refused.
Refused(chunk) == Links(chunk.cells) = {} \/ chunk.numbers = <<>>

\* The first number is taken for the total.
ParsedRow(chunk, groups) ==
    LET at      == PlayerAt(chunk.cells)
        results == parse_ledger(chunk.cells, at, groups)
        total   == Head(chunk.numbers)
    IN  [rank        |-> chunk.rank,
         player_code |-> chunk.cells[at].link,
         race_points |-> total,
         counts      |-> Tail(chunk.numbers),
         results     |-> IF Reconciles(results, total) THEN results ELSE <<>>]

PlayerChunks(chunks) ==
    LET kept == Filter(Places(chunks), {k \in DOMAIN chunks : ~Skipped(chunks[k])})
    IN  [n \in DOMAIN kept |-> chunks[kept[n]]]

parse_standings(chunks, groups) ==
    LET rows == PlayerChunks(table_at(chunks))
    IN  [n \in DOMAIN rows |-> ParsedRow(rows[n], groups)]

\* A row without a link, the name's prefix, a date or a citation is passed
\* over.  Without its opening line the table read is the next sortable one.
parse_qualifiers(announcements, markers) ==
    {a.link : a \in {b \in IF "qualifiers" \in markers THEN announcements ELSE Doubles :
                        b.link # NoLink /\ b.aligned /\ b.dated /\ b.cited}}

------------------------------------------------------------------------------
(* validate and parse.                                                     *)

\* Seeded fault: gaps are accepted.
RanksAscend(rows) == \A k \in 1..(Len(rows) - 1) : rows[k].rank < rows[k + 1].rank
Contiguous(rows) == \A k \in DOMAIN rows : rows[k].rank = k

NoPlayerTwice(rows) ==
    \A k, l \in DOMAIN rows : rows[k].player_code = rows[l].player_code => k = l

\* Seeded fault: points in any order are accepted.
AnyOrder(rows) == TRUE
NonIncreasing(rows) ==
    \A k \in 1..(Len(rows) - 1) : rows[k].race_points >= rows[k + 1].race_points

\* Seeded fault: an announced player may be missing from the table.
validateTable(rows, qualifiers) ==
    /\ Len(rows) >= MinRows
    /\ Contiguous(rows)
    /\ NoPlayerTwice(rows)
    /\ NonIncreasing(rows)
validate(rows, qualifiers) ==
    /\ Len(rows) >= MinRows
    /\ Contiguous(rows)
    /\ NoPlayerTwice(rows)
    /\ NonIncreasing(rows)
    /\ qualifiers \subseteq {rows[k].player_code : k \in DOMAIN rows}

Accepted ==
    LET rows == PlayerChunks(table_at(article.chunks))
    IN  /\ {"as_of", "standings"} \subseteq article.markers
        /\ \A n \in DOMAIN rows : ~Refused(rows[n])
        /\ validate(parse_standings(article.chunks, article.groups),
                    parse_qualifiers(article.announcements, article.markers))

\* The rows of an accepted article.
Rows == parse_standings(article.chunks, article.groups)

------------------------------------------------------------------------------
(* The breakdown on the page (web.rs, build_ledger).                       *)

\* An event skipped reads 0, one to come a dash.
ResultView(r) == [played |-> r.played, points |-> IF r.played = "Result" THEN r.points ELSE 0]

\* A result goes under the last heading if it is its own, else under a new one.
Grouped(groups, r) ==
    IF groups # <<>> /\ Last(groups).title = r.slot
    THEN [groups EXCEPT ![Len(groups)].results = Append(@, ResultView(r))]
    ELSE Append(groups, [title |-> r.slot, results |-> <<ResultView(r)>>])

Grouping(results) ==
    LET upto[n \in 0..Len(results)] == IF n = 0 THEN <<>> ELSE Grouped(upto[n - 1], results[n])
    IN  upto[Len(results)]

Counting(results) == Cardinality({n \in DOMAIN results : results[n].played = "Result"})

NoLedger == <<>>

\* The headline is "n of m tournaments count", or without m when that is
\* missing or smaller.
build_ledger(row) ==
    IF row.results = <<>>
    THEN NoLedger
    ELSE [counting |-> Counting(row.results),
          of       |-> {m \in ToSet(SubSeq(row.counts, 1, Min({1, Len(row.counts)}))) :
                           m >= Counting(row.results)},
          groups   |-> Grouping(row.results),
          total    |-> Sum(row.results)]

------------------------------------------------------------------------------
(* The article as it should be.                                            *)

\* Each slot is declared by one block.
ASSUME BlocksAssumption ==
    /\ Blocks \in Seq([slot : Slot, span : Nat])
    /\ \A g, h \in DOMAIN Blocks : Blocks[g].slot = Blocks[h].slot => g = h

\* A row of Table: the player, the total, the two counts that follow it and
\* the cells of the tournament columns, which account for the total.  A cell
\* without a link is empty or an absence, and no event has a player's title.
ASSUME TableAssumption ==
    /\ Table \in Seq([player : Player, total : Nat, counts : Seq(Nat), cells : Seq(Cell)])
    /\ Table # <<>>
    /\ Player \subseteq Title /\ NoLink \notin Title
    /\ \A i, j \in DOMAIN Table : Table[i].player = Table[j].player => i = j
    /\ \A i \in DOMAIN Table :
          LET cells == Table[i].cells
          IN  /\ Len(cells) \in 1..Len(Columns(Blocks))
              /\ Table[i].total = Sum(cells)
              /\ \A c \in DOMAIN cells :
                    /\ ~cells[c].left /\ cells[c].link \notin Player
                    /\ cells[c].link = NoLink => /\ cells[c].points = 0
                                                 /\ cells[c].shows \in {"Pending", "Absent"}

\* A row of a table of qualifiers: the first link, the prefix of the name's
\* cell, the date and the citation.
Announcement ==
    [link : Player \cup {NoLink}, aligned : BOOLEAN, dated : BOOLEAN, cited : BOOLEAN]

ASSUME EditorsAssumption ==
    /\ Announced \subseteq Player /\ Doubles \subseteq Announcement
    /\ Misprints \subseteq Nat
    /\ MaxEdits \in [rows : Nat, beside : Nat]

------------------------------------------------------------------------------
(* The editors.                                                            *)

\* The separator stands before the last row.
Init ==
    /\ article = [markers       |-> {"as_of", "standings", "qualifiers"},
                  groups        |-> Blocks,
                  chunks        |-> [i \in 1..(Len(Table) - 1) |-> RowChunk(i)]
                                      \o <<Separator, RowChunk(Len(Table))>>,
                  announcements |-> {[link |-> p, aligned |-> TRUE, dated |-> TRUE, cited |-> TRUE] :
                                        p \in Announced}]
    /\ damage = [rows |-> 0, beside |-> 0]

Damage(what) ==
    /\ damage[what] < MaxEdits[what]
    /\ damage' = [damage EXCEPT ![what] = @ + 1]

\* Other chunks, for the rows are moved about.
Arrange(chunks) ==
    /\ article' = [article EXCEPT !.chunks = chunks]
    /\ Damage("rows")

\* The text of one row becomes another.
Rewrite(k, chunk) ==
    /\ ~article.chunks[k].separator
    /\ chunk # article.chunks[k]
    /\ Arrange([article.chunks EXCEPT ![k] = [chunk EXCEPT !.edits = @ + 1]])

RemoveRow(k) ==
    /\ ~article.chunks[k].separator
    /\ Arrange(RemoveAt(article.chunks, k))

\* The row changes places with the next chunk.
SwapRows(k) ==
    /\ k + 1 \in DOMAIN article.chunks
    /\ Arrange([article.chunks EXCEPT ![k] = article.chunks[k + 1],
                                      ![k + 1] = article.chunks[k]])

\* A row is written below a copy of which it began as.
InsertRow(k) ==
    /\ article.chunks[k].cells # <<>>
    /\ \E p \in Player :
          Arrange(InsertAt(article.chunks, k + 1,
                           [article.chunks[k] EXCEPT !.of = 0, !.rank = @ + 1, !.cells[1].link = p]))

\* Another rank, or no digit ("T", "-").
RetypeRank(k) ==
    \E r \in 0..Len(Table) : Rewrite(k, [article.chunks[k] EXCEPT !.rank = r])

\* The player's name links to another player, or is no longer a link.
RelinkName(k) ==
    /\ article.chunks[k].cells # <<>>
    /\ \E p \in Player \cup {NoLink} :
          Rewrite(k, [article.chunks[k] EXCEPT !.cells[1].link = p])

\* The player's cell loses its style prefix.
Unalign(k) ==
    /\ article.chunks[k].cells # <<>>
    /\ Rewrite(k, [article.chunks[k] EXCEPT !.cells[1].left = FALSE])

\* The total is another number, or not a number for a footnote.
RetypeTotal(k) ==
    /\ article.chunks[k].numbers # <<>>
    /\ \E new \in {Tail(article.chunks[k].numbers)}
                    \cup {[article.chunks[k].numbers EXCEPT ![1] = n] : n \in Misprints} :
          Rewrite(k, [article.chunks[k] EXCEPT !.numbers = new])

\* The three numbers are written as plain cells.
DropNumbers(k) == Rewrite(k, [article.chunks[k] EXCEPT !.numbers = <<>>])

\* A tournament cell is deleted: those after it move up.
DropCell(k) ==
    \E c \in 2..Len(article.chunks[k].cells) :
        Rewrite(k, [article.chunks[k] EXCEPT !.cells = RemoveAt(@, c)])

\* A tournament cell is written twice: those after it move down.
CopyCell(k) ==
    \E c \in 2..Len(article.chunks[k].cells) :
        Rewrite(k, [article.chunks[k] EXCEPT !.cells = InsertAt(@, c, @[c]), !.foreign = TRUE])

\* A result is credited with a point too many, or with none.
RetypeResult(k) ==
    \E c \in 2..Len(article.chunks[k].cells) :
        /\ article.chunks[k].cells[c].link # NoLink
        /\ \E n \in {0, article.chunks[k].cells[c].points + 1} :
              Rewrite(k, [article.chunks[k] EXCEPT !.cells[c].points = n])

\* A result loses its link; its text stays.
UnlinkResult(k) ==
    \E c \in 2..Len(article.chunks[k].cells) :
        /\ article.chunks[k].cells[c].link # NoLink
        /\ Rewrite(k, [article.chunks[k] EXCEPT !.cells[c].link = NoLink,
                                                !.cells[c].shows = "Absent"])

\* A tournament cell links to an event, or to another than it did.
RelinkResult(k) ==
    \E c \in 2..Len(article.chunks[k].cells), event \in Title \ Player :
        /\ article.chunks[k].cells[c].link # event
        /\ Rewrite(k, [article.chunks[k] EXCEPT !.cells[c].link = event, !.foreign = TRUE])

\* The row is cut down to its rank and its name.
Truncate(k) == Rewrite(k, [article.chunks[k] EXCEPT !.cells = <<>>])

\* A line "|}" after n of the row's cells and numbers: the rest of the row is
\* outside the table.
CloseTable(k) ==
    LET chunk == article.chunks[k]
    IN  \E n \in 0..(Len(chunk.cells) + Len(chunk.numbers)) :
            Rewrite(k, [chunk EXCEPT !.ends    = TRUE,
                                     !.cells   = SubSeq(@, 1, Min({n, Len(@)})),
                                     !.numbers = SubSeq(@, 1, n - Len(chunk.cells))])

\* A block of the header is renamed or loses its colspan.
LoseBlock ==
    \E g \in DOMAIN article.groups :
        /\ Len(article.groups) = Len(Blocks)
        /\ article' = [article EXCEPT !.groups = RemoveAt(@, g)]
        /\ Damage("beside")

\* The date of the table or the opening line of a table is rewritten.
LoseMarker ==
    \E m \in article.markers :
        /\ article' = [article EXCEPT !.markers = @ \ {m}]
        /\ Damage("beside")

\* An announcement links to another player, or loses its link, the prefix,
\* the date or the citation.
EditAnnouncement ==
    \E a \in article.announcements :
        \E new \in {[a EXCEPT !.aligned = FALSE], [a EXCEPT !.dated = FALSE], [a EXCEPT !.cited = FALSE]}
                      \cup {[a EXCEPT !.link = p] : p \in Player \cup {NoLink}} :
            /\ article' = [article EXCEPT !.announcements = (@ \ {a}) \cup {new}]
            /\ Damage("beside")

\* Announcements are deleted, or left below a stray end of their table.
DropAnnouncements ==
    \E kept \in SUBSET article.announcements :
        /\ article' = [article EXCEPT !.announcements = kept]
        /\ Damage("beside")

Next ==
    \/ \E k \in DOMAIN article.chunks :
          \/ RemoveRow(k)    \/ SwapRows(k)     \/ InsertRow(k)    \/ RetypeRank(k)
          \/ RelinkName(k)   \/ Unalign(k)      \/ RetypeTotal(k)  \/ DropNumbers(k)
          \/ DropCell(k)     \/ CopyCell(k)     \/ RetypeResult(k) \/ UnlinkResult(k)
          \/ RelinkResult(k) \/ Truncate(k)     \/ CloseTable(k)
    \/ LoseBlock \/ LoseMarker \/ EditAnnouncement \/ DropAnnouncements

Spec == Init /\ [][Next]_vars

------------------------------------------------------------------------------
(* Properties.                                                             *)

LostBlocks == Len(Blocks) - Len(article.groups)

\* The block a tournament column belongs to, by the widths of Blocks.
SlotOf(column) ==
    LET ends == {g \in DOMAIN Blocks :
                    column <= Total([h \in 1..g |-> Blocks[h].span])}
    IN  Blocks[Min(ends)].slot

\* The results of the row ranked i, and what a ledger shows as results.
Meant(i) ==
    {[slot |-> SlotOf(c), event |-> Table[i].cells[c].link, points |-> Table[i].cells[c].points] :
        c \in Links(Table[i].cells)}
Shown(row) ==
    {[slot |-> r.slot, event |-> r.event, points |-> r.points] :
        r \in {x \in ToSet(row.results) : x.played = "Result"}}

Scoring(results) ==
    {[event |-> r.event, points |-> r.points] : r \in {x \in results : x.points > 0}}

\* The chunk that became the row at n, and a chunk that is a row as written.
Read(n) == PlayerChunks(table_at(article.chunks))[n]

Untouched(chunk) == chunk.of # 0 /\ chunk.edits = 0

\* Whatever is done to other rows, a row nobody edited that stands above the
\* table's first end is published if the article is: at its rank, under its
\* player, with its total and, while the header is whole, with its whole
\* breakdown, every result in its block (source.rs, parse_standings and
\* validate).
DamageStaysInItsRow ==
    Accepted =>
        \A chunk \in ToSet(table_at(article.chunks)) : Untouched(chunk) =>
            LET i == chunk.of
            IN  /\ i \in DOMAIN Rows
                /\ Rows[i].player_code = Table[i].player
                /\ Rows[i].race_points = Table[i].total
                /\ LostBlocks = 0 => Shown(Rows[i]) = Meant(i)

\* A breakdown that is shown after one edit of its row, or of the header,
\* names every event the row scored in and the points of each: what the edit
\* lost would be missing from the total (source.rs, the reconciliation in
\* parse_standings).  Not if the edit put another event's result there: the
\* sum cannot tell which events it is made of.
LedgersLoseNoPoints ==
    Accepted =>
        \A n \in DOMAIN Rows :
            (/\ Rows[n].results # <<>>
             /\ Read(n).of # 0 /\ ~Read(n).foreign
             /\ Read(n).edits + LostBlocks <= 1)
                => Scoring(Shown(Rows[n])) = Scoring(Meant(Read(n).of))

\* A breakdown a reader can open adds up: the points under its headings make
\* the total below them, which is the row's; no heading comes twice, and the
\* headline counts the results listed (web.rs, build_ledger on what the parser kept).
BreakdownAddsUp ==
    Accepted =>
        \A i \in DOMAIN Rows :
            LET ledger == build_ledger(Rows[i])
                listed == FlattenSeq([g \in DOMAIN ledger.groups |-> ledger.groups[g].results])
            IN  ledger # NoLedger =>
                    /\ Sum(listed) = ledger.total
                    /\ ledger.total = Rows[i].race_points
                    /\ ledger.counting = Counting(listed)
                    /\ \A g, h \in DOMAIN ledger.groups :
                          ledger.groups[g].title = ledger.groups[h].title => g = h

\* Between two rows nobody edited no total leaves the range of theirs,
\* whatever was typed, moved or inserted there (source.rs, the order of the
\* points in validate).
TotalsStayBetween ==
    Accepted =>
        \A i, j \in {n \in DOMAIN Rows : Untouched(Read(n))} : \A n \in i..j :
            Rows[n].race_points \in Table[j].total..Table[i].total

\* A player whose qualification is announced stays in the published table,
\* and at another rank than his only where an edited row names him and his
\* own was edited or is gone (source.rs, the qualifiers and the uniqueness of
\* players in validate).
AnnouncedStayPublished ==
    Accepted =>
        \A i \in DOMAIN Table :
            Table[i].player \in parse_qualifiers(article.announcements, article.markers) =>
                \E n \in DOMAIN Rows :
                    /\ Rows[n].player_code = Table[i].player
                    /\ n # i => \A chunk \in ToSet(table_at(article.chunks)) :
                                   Untouched(chunk) => chunk # Read(n) /\ chunk.of # i

\* Every published row is a player's.
NamesArePlayers == \A n \in DOMAIN Rows : Rows[n].player_code \in Player

\* No row's count of tournaments or of titles is published as its total.
CountsAreNoTotals ==
    \A n \in DOMAIN Rows :
        Read(n).of # 0 => Rows[n].race_points \notin ToSet(Table[Read(n).of].counts)

\* No row is off the page that nobody edited.
UntouchedRowsStay ==
    \A chunk \in ToSet(article.chunks) :
        Untouched(chunk) => \E n \in DOMAIN Rows : Rows[n].player_code = Table[chunk.of].player

\* Nobody is announced whom the singles' table does not announce.
DoublesAreIgnored ==
    parse_qualifiers(article.announcements, article.markers)
        \subseteq {a.link : a \in article.announcements}

\* "A bad edit upstream cannot corrupt the served page" (README.md), at its
\* weakest: whatever becomes of the article, the page is not wrong in its
\* players, its totals, its rows and its announcements at once (source.rs,
\* parse and validate).
BadEditsCannotCorrupt ==
    Accepted =>
        NamesArePlayers \/ CountsAreNoTotals \/ UntouchedRowsStay \/ DoublesAreIgnored
=============================================================================
