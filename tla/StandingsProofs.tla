---------------------------- MODULE StandingsProofs ----------------------------
(***************************************************************************)
(* What a reader can be shown of a table that was edited, for any table,   *)
(* blocks, announcements and sequence of edits.  A chunk of the article is *)
(* a row as it was written, what one edit made of it, or anything; the     *)
(* parser reads the chunks above the table's first end, and an accepted    *)
(* article has at each rank a chunk of that rank.                          *)
(***************************************************************************)
EXTENDS Standings, ListProofs

\* What TableAssumption says of a row.
LEMMA RowTyped ==
    ASSUME NEW i \in DOMAIN Table
    PROVE  /\ i \in Nat /\ i # 0
           /\ Table[i].player \in Player
           /\ Table[i].player \in Title /\ Table[i].player # NoLink
           /\ Table[i].total \in Nat /\ Table[i].counts \in Seq(Nat) /\ Table[i].cells \in Seq(Cell)
           /\ Len(Table[i].cells) \in 1..Len(Columns(Blocks))
           /\ Table[i].total = Sum(Table[i].cells)
           /\ \A c \in DOMAIN Table[i].cells :
                 /\ ~Table[i].cells[c].left
                 /\ Table[i].cells[c].link = NoLink =>
                       /\ Table[i].cells[c].points = 0
                       /\ Table[i].cells[c].shows \in {"Pending", "Absent"}
<1>1. Table \in Seq([player : Player, total : Nat, counts : Seq(Nat), cells : Seq(Cell)])
  BY TableAssumption
<1>2. Table[i] \in [player : Player, total : Nat, counts : Seq(Nat), cells : Seq(Cell)]
  BY <1>1, ElementTyped
<1>3. i \in Nat /\ i # 0
  BY <1>1
<1>4. Table[i].player \in Player /\ Table[i].player \in Title /\ Table[i].player # NoLink
  BY <1>2, TableAssumption
<1> QED  BY <1>2, <1>3, <1>4, TableAssumption, Zenon

\* The least element of a set of places.
LEMMA MinTyped ==
    ASSUME NEW S, S \subseteq Nat, S # {}
    PROVE  Min(S) \in S /\ \A n \in S : Min(S) <= n
<1>1. \E n \in S : \A m \in S : n <= m
  BY LeastNatural
<1> QED  BY <1>1 DEF Min

\* The lesser of two numbers.
LEMMA MinOfTwo ==
    ASSUME NEW a \in Nat, NEW b \in Nat
    PROVE  /\ Min({a, b}) \in Nat /\ Min({a, b}) <= a /\ Min({a, b}) <= b
           /\ a <= b => Min({a, b}) = a
           /\ b <= a => Min({a, b}) = b
<1>1. {a, b} \subseteq Nat /\ {a, b} # {}
  OBVIOUS
<1>2. PICK m : m = Min({a, b})
  OBVIOUS
<1>3. m \in {a, b} /\ \A n \in {a, b} : m <= n
  BY <1>1, <1>2, MinTyped
<1>4. (m = a \/ m = b) /\ m <= a /\ m <= b
  BY <1>3
<1> QED  BY <1>2, <1>4

------------------------------------------------------------------------------
(* Chunks.                                                                 *)

Chunk == [separator : BOOLEAN, of : Nat, edits : Nat, foreign : BOOLEAN, ends : BOOLEAN,
          rank : Nat, numbers : Seq(Nat), cells : Seq(Cell)]

Article == [markers       : SUBSET {"as_of", "standings", "qualifiers"},
            groups        : Seq([slot : Slot, span : Nat]),
            chunks        : Seq(Chunk),
            announcements : SUBSET Announcement]

TypeOK == article \in Article /\ damage \in [rows : Nat, beside : Nat]

\* A row as it was written.
LEMMA RowChunkTyped ==
    ASSUME NEW i \in DOMAIN Table
    PROVE  /\ RowChunk(i) \in Chunk
           /\ ~RowChunk(i).separator /\ RowChunk(i).of = i /\ RowChunk(i).rank = i
           /\ Len(RowChunk(i).cells) = Len(Table[i].cells) + 1
           /\ RowChunk(i).cells[1] = PlayerCell(Table[i].player)
           /\ \A c \in DOMAIN Table[i].cells : RowChunk(i).cells[c + 1] = Table[i].cells[c]
           /\ RowChunk(i).numbers # <<>> /\ Head(RowChunk(i).numbers) = Table[i].total
<1> DEFINE numbers == <<Table[i].total>> \o Table[i].counts
           cells   == <<PlayerCell(Table[i].player)>> \o Table[i].cells
<1>1. /\ i \in Nat /\ Table[i].player \in Title /\ Table[i].total \in Nat
      /\ Table[i].counts \in Seq(Nat) /\ Table[i].cells \in Seq(Cell)
  BY RowTyped
<1>2. PlayerCell(Table[i].player) \in Cell
  <2>1. Table[i].player \in Title \cup {NoLink}
    BY <1>1
  <2> QED  BY <2>1 DEF PlayerCell, Cell, Text
<1>3. /\ numbers \in Seq(Nat) /\ numbers[1] = Table[i].total
      /\ numbers # <<>> /\ Head(numbers) = numbers[1]
  BY <1>1
<1>4. /\ cells \in Seq(Cell) /\ Len(cells) = Len(Table[i].cells) + 1
      /\ cells[1] = PlayerCell(Table[i].player)
      /\ \A c \in DOMAIN Table[i].cells : cells[c + 1] = Table[i].cells[c]
  BY <1>1, <1>2
<1>5. RowChunk(i) = [separator |-> FALSE, of |-> i, edits |-> 0, foreign |-> FALSE,
                     ends |-> FALSE, rank |-> i, numbers |-> numbers, cells |-> cells]
  BY DEF RowChunk
<1> HIDE DEF numbers, cells
<1>6. RowChunk(i) \in Chunk
  BY <1>1, <1>3, <1>4, <1>5 DEF Chunk
<1> QED  BY <1>3, <1>4, <1>5, <1>6

\* A list without one of its elements.
LEMMA Removed ==
    ASSUME NEW S, NEW s \in Seq(S), NEW c \in DOMAIN s
    PROVE  /\ RemoveAt(s, c) \in Seq(S)
           /\ Len(RemoveAt(s, c)) = Len(s) - 1
           /\ \A k \in DOMAIN RemoveAt(s, c) :
                 RemoveAt(s, c)[k] = IF k < c THEN s[k] ELSE s[k + 1]
<1>1. c \in 1..Len(s) /\ Len(s) \in Nat
  OBVIOUS
<1>2. PICK a : a = SubSeq(s, 1, c - 1)
  OBVIOUS
<1>3. PICK b : b = SubSeq(s, c + 1, Len(s))
  OBVIOUS
<1>4. a \in Seq(S) /\ Len(a) = c - 1 /\ \A k \in 1..(c - 1) : a[k] = s[k]
  BY <1>1, <1>2
<1>5. b \in Seq(S) /\ Len(b) = Len(s) - c /\ \A k \in 1..(Len(s) - c) : b[k] = s[c + k]
  BY <1>1, <1>3
<1>6. PICK t : t = a \o b
  OBVIOUS
<1>7. RemoveAt(s, c) = t
  BY <1>2, <1>3, <1>6 DEF RemoveAt
<1>8. /\ t \in Seq(S) /\ Len(t) = Len(a) + Len(b) /\ DOMAIN t = 1..Len(t)
      /\ DOMAIN a = 1..Len(a) /\ DOMAIN b = 1..Len(b)
      /\ \A k \in DOMAIN a : t[k] = a[k]
      /\ \A k \in DOMAIN b : t[Len(a) + k] = b[k]
  <2>1. a \in Seq(S) /\ b \in Seq(S)
    BY <1>4, <1>5
  <2> QED  BY ONLY <1>6, <2>1
<1>9. ASSUME NEW k \in DOMAIN t
      PROVE  t[k] = IF k < c THEN s[k] ELSE s[k + 1]
  <2>1. /\ k \in Nat /\ 1 <= k /\ k <= Len(s) - 1
        /\ c \in Nat /\ 1 <= c /\ c <= Len(s)
    BY <1>1, <1>4, <1>5, <1>8
  <2>2. CASE k < c
    <3>1. k \in 1..(c - 1) /\ k \in DOMAIN a
      BY <1>4, <1>8, <2>1, <2>2
    <3> QED  BY <1>4, <1>8, <2>2, <3>1
  <2>3. CASE ~(k < c)
    <3>1. PICK l \in Int : l = k - (c - 1)
      BY <2>1
    <3>2. l \in 1..(Len(s) - c) /\ (c - 1) + l = k /\ c + l = k + 1
      BY <1>1, <2>1, <2>3, <3>1
    <3>4. Len(a) = c - 1 /\ DOMAIN b = 1..(Len(s) - c)
      BY <1>4, <1>5, <1>8
    <3>3. t[k] = b[l] /\ b[l] = s[k + 1]
      BY <1>5, <1>8, <3>2, <3>4
    <3> QED  BY <2>3, <3>3
  <2> QED  BY <2>2, <2>3
<1> QED  BY <1>1, <1>4, <1>5, <1>7, <1>8, <1>9

\* A list with one more element.
LEMMA Inserted ==
    ASSUME NEW S, NEW s \in Seq(S), NEW c \in 1..(Len(s) + 1), NEW e \in S
    PROVE  /\ InsertAt(s, c, e) \in Seq(S)
           /\ \A k \in DOMAIN InsertAt(s, c, e) :
                 InsertAt(s, c, e)[k] = e \/ \E l \in DOMAIN s : InsertAt(s, c, e)[k] = s[l]
<1>1. Len(s) \in Nat /\ DOMAIN s = 1..Len(s)
  OBVIOUS
<1>2. PICK a : a = SubSeq(s, 1, c - 1)
  OBVIOUS
<1>3. PICK b : b = SubSeq(s, c, Len(s))
  OBVIOUS
<1>4. a \in Seq(S) /\ \A k \in DOMAIN a : k \in DOMAIN s /\ a[k] = s[k]
  BY <1>1, <1>2
<1>5. b \in Seq(S) /\ \A k \in DOMAIN b : c + k - 1 \in DOMAIN s /\ b[k] = s[c + k - 1]
  BY <1>1, <1>3
<1>6. PICK t : t = a \o <<e>>
  OBVIOUS
<1>7. t \in Seq(S) /\ \A k \in DOMAIN t : (k \in DOMAIN a /\ t[k] = a[k]) \/ t[k] = e
  BY <1>4, <1>6
<1>8. PICK u : u = t \o b
  OBVIOUS
<1>9. /\ u \in Seq(S)
      /\ \A k \in DOMAIN u : (k \in DOMAIN t /\ u[k] = t[k]) \/ \E l \in DOMAIN b : u[k] = b[l]
  <2>1. t \in Seq(S) /\ b \in Seq(S)
    BY <1>5, <1>7
  <2>2. /\ u \in Seq(S) /\ DOMAIN u = 1..(Len(t) + Len(b))
        /\ DOMAIN t = 1..Len(t) /\ DOMAIN b = 1..Len(b)
        /\ \A k \in DOMAIN t : u[k] = t[k]
        /\ \A k \in DOMAIN b : u[Len(t) + k] = b[k]
        /\ Len(t) \in Nat /\ Len(b) \in Nat
    BY ONLY <1>8, <2>1
  <2>3. \A k \in DOMAIN u : k \in DOMAIN t \/ \E l \in DOMAIN b : k = Len(t) + l
    <3> SUFFICES ASSUME NEW k \in DOMAIN u, k \notin DOMAIN t
                 PROVE  \E l \in DOMAIN b : k = Len(t) + l
      OBVIOUS
    <3>1. k - Len(t) \in DOMAIN b /\ k = Len(t) + (k - Len(t))
      BY ONLY <2>2, k \in DOMAIN u, k \notin DOMAIN t
    <3> QED  BY ONLY <3>1
  <2> QED  BY <2>2, <2>3
<1>10. InsertAt(s, c, e) = u
  BY <1>2, <1>3, <1>6, <1>8 DEF InsertAt
<1> QED  BY <1>4, <1>5, <1>7, <1>9, <1>10

------------------------------------------------------------------------------
(* The inductive invariant.                                                *)

\* What one edit that brings no foreign result makes of the row ranked i: its
\* cells as written, or no numbers, or one cell changed and the total whole.
OneEdit(numbers, cells, i) ==
    LET written == RowChunk(i).cells
    IN  \/ numbers = <<>> \/ cells = <<>>
        \/ cells = written
        \/ /\ numbers = RowChunk(i).numbers
           /\ \/ \E p \in Player \cup {NoLink} : cells = [written EXCEPT ![1].link = p]
              \/ cells = [written EXCEPT ![1].left = FALSE]
              \/ \E c \in 2..Len(written) : cells = RemoveAt(written, c)
              \/ \E c \in 2..Len(written), n \in Nat :
                    /\ written[c].link # NoLink /\ n # written[c].points
                    /\ cells = [written EXCEPT ![c].points = n]
              \/ \E c \in 2..Len(written) :
                    /\ written[c].link # NoLink
                    /\ cells = [written EXCEPT ![c].link = NoLink, ![c].shows = "Absent"]

\* What is left of the row the chunk was written for.
Remains(chunk) ==
    chunk.of # 0 =>
        /\ chunk.of \in DOMAIN Table
        /\ chunk.edits = 0 => chunk = RowChunk(chunk.of)
        /\ chunk.edits = 1 /\ ~chunk.foreign => OneEdit(chunk.numbers, chunk.cells, chunk.of)

ChunksRemain == \A k \in DOMAIN article.chunks : Remains(article.chunks[k])

\* The header has all its blocks, or all but one.
BlocksRemain ==
    \/ article.groups = Blocks
    \/ \E g \in DOMAIN Blocks : article.groups = RemoveAt(Blocks, g)

IInv == TypeOK /\ ChunksRemain /\ BlocksRemain

------------------------------------------------------------------------------
(* One edit of a chunk.                                                    *)

\* What an edit of the chunk may make of it.
Follows(new, chunk) ==
    /\ new \in Chunk /\ new.of = chunk.of /\ new.edits = chunk.edits
    /\ (chunk = RowChunk(chunk.of) /\ ~new.foreign) => OneEdit(new.numbers, new.cells, chunk.of)

\* Another rank; other numbers over the same cells; all cells dropped.
LEMMA PlainEdits ==
    ASSUME NEW chunk \in Chunk
    PROVE  /\ \A r \in Nat : Follows([chunk EXCEPT !.rank = r], chunk)
           /\ \A ns \in Seq(Nat) : Follows([chunk EXCEPT !.numbers = ns], chunk)
           /\ Follows([chunk EXCEPT !.cells = <<>>], chunk)
<1>1. ASSUME NEW r \in Nat PROVE Follows([chunk EXCEPT !.rank = r], chunk)
  BY DEF Follows, OneEdit, Chunk
<1>2. ASSUME NEW ns \in Seq(Nat) PROVE Follows([chunk EXCEPT !.numbers = ns], chunk)
  <2>1. PICK new : new = [chunk EXCEPT !.numbers = ns]
    OBVIOUS
  <2>2. /\ new \in Chunk /\ new.of = chunk.of /\ new.edits = chunk.edits
        /\ new.cells = chunk.cells
    BY <2>1 DEF Chunk
  <2> QED  BY <2>1, <2>2 DEF Follows, OneEdit
<1>3. Follows([chunk EXCEPT !.cells = <<>>], chunk)
  <2>1. PICK new : new = [chunk EXCEPT !.cells = <<>>]
    OBVIOUS
  <2>2. <<>> \in Seq(Cell)
    OBVIOUS
  <2>3. /\ new \in Chunk /\ new.of = chunk.of /\ new.edits = chunk.edits
        /\ new.cells = <<>>
    BY <2>1, <2>2 DEF Chunk
  <2> QED  BY <2>1, <2>3 DEF Follows, OneEdit
<1> QED  BY <1>1, <1>2, <1>3

\* Other cells.
LEMMA CellsReplaced ==
    ASSUME NEW chunk \in Chunk, NEW cells \in Seq(Cell)
    PROVE  /\ Follows([chunk EXCEPT !.cells = cells, !.foreign = TRUE], chunk)
           /\ (chunk = RowChunk(chunk.of) => OneEdit(chunk.numbers, cells, chunk.of))
                 => Follows([chunk EXCEPT !.cells = cells], chunk)
<1>1. Follows([chunk EXCEPT !.cells = cells, !.foreign = TRUE], chunk)
  BY DEF Follows, Chunk
<1>2. PICK new : new = [chunk EXCEPT !.cells = cells]
  OBVIOUS
<1>3. /\ new \in Chunk /\ new.of = chunk.of /\ new.edits = chunk.edits
      /\ new.numbers = chunk.numbers /\ new.cells = cells
  BY <1>2 DEF Chunk
<1>4. (chunk = RowChunk(chunk.of) => OneEdit(chunk.numbers, cells, chunk.of)) => Follows(new, chunk)
  BY <1>3 DEF Follows
<1> QED  BY <1>1, <1>2, <1>4

\* A cell replaced by another.
LEMMA CellReplaced ==
    ASSUME NEW chunk \in Chunk, NEW c \in DOMAIN chunk.cells, NEW cell \in Cell
    PROVE  [chunk.cells EXCEPT ![c] = cell] \in Seq(Cell)
<1>1. chunk.cells \in Seq(Cell)
  BY DEF Chunk
<1> QED  BY <1>1

\* The link or the prefix of the player's cell.
LEMMA NameEdits ==
    ASSUME NEW chunk \in Chunk, chunk.cells # <<>>
    PROVE  /\ \A p \in Player \cup {NoLink} : Follows([chunk EXCEPT !.cells[1].link = p], chunk)
           /\ Follows([chunk EXCEPT !.cells[1].left = FALSE], chunk)
<1>1. /\ chunk.cells \in Seq(Cell) /\ 1 \in DOMAIN chunk.cells /\ chunk.cells[1] \in Cell
  <2>1. chunk.cells \in Seq(Cell)
    BY DEF Chunk
  <2> QED  BY <2>1, ElementTyped
<1>2. ASSUME NEW p \in Player \cup {NoLink}
      PROVE  Follows([chunk EXCEPT !.cells[1].link = p], chunk)
  <2>1. PICK cell : cell = [chunk.cells[1] EXCEPT !.link = p]
    OBVIOUS
  <2>2. cell \in Cell
    <3>1. p \in Title \cup {NoLink}
      BY TableAssumption
    <3> QED  BY <1>1, <2>1, <3>1 DEF Cell
  <2>3. PICK cells : cells = [chunk.cells EXCEPT ![1] = cell]
    OBVIOUS
  <2>4. cells \in Seq(Cell)
    BY <1>1, <2>2, <2>3, CellReplaced
  <2>5. PICK new : new = [chunk EXCEPT !.cells[1].link = p]
    OBVIOUS
  <2>6. new = [chunk EXCEPT !.cells = cells]
    BY <2>1, <2>3, <2>5
  <2>7. cells = [chunk.cells EXCEPT ![1].link = p]
    BY <2>1, <2>3
  <2>8. chunk = RowChunk(chunk.of) => OneEdit(chunk.numbers, cells, chunk.of)
    BY <2>7 DEF OneEdit
  <2>9. Follows(new, chunk)
    BY <2>4, <2>6, <2>8, CellsReplaced
  <2> QED  BY <2>5, <2>9
<1>3. Follows([chunk EXCEPT !.cells[1].left = FALSE], chunk)
  <2>1. PICK cell : cell = [chunk.cells[1] EXCEPT !.left = FALSE]
    OBVIOUS
  <2>2. cell \in Cell
    BY <1>1, <2>1 DEF Cell
  <2>3. PICK cells : cells = [chunk.cells EXCEPT ![1] = cell]
    OBVIOUS
  <2>4. cells \in Seq(Cell)
    BY <1>1, <2>2, <2>3, CellReplaced
  <2>5. PICK new : new = [chunk EXCEPT !.cells[1].left = FALSE]
    OBVIOUS
  <2>6. new = [chunk EXCEPT !.cells = cells]
    BY <2>1, <2>3, <2>5
  <2>7. cells = [chunk.cells EXCEPT ![1].left = FALSE]
    BY <2>1, <2>3
  <2>8. chunk = RowChunk(chunk.of) => OneEdit(chunk.numbers, cells, chunk.of)
    BY <2>7 DEF OneEdit
  <2>9. Follows(new, chunk)
    BY <2>4, <2>6, <2>8, CellsReplaced
  <2> QED  BY <2>5, <2>9
<1> QED  BY <1>2, <1>3

\* A tournament cell deleted, written twice, or changed in its points or its link.
LEMMA CellEdits ==
    ASSUME NEW chunk \in Chunk, NEW c \in 2..Len(chunk.cells)
    PROVE  /\ Follows([chunk EXCEPT !.cells = RemoveAt(@, c)], chunk)
           /\ Follows([chunk EXCEPT !.cells = InsertAt(@, c, @[c]), !.foreign = TRUE], chunk)
           /\ \A n \in Nat : (chunk.cells[c].link # NoLink /\ n # chunk.cells[c].points)
                 => Follows([chunk EXCEPT !.cells[c].points = n], chunk)
           /\ chunk.cells[c].link # NoLink =>
                 Follows([chunk EXCEPT !.cells[c].link = NoLink, !.cells[c].shows = "Absent"], chunk)
           /\ \A event \in Title :
                 Follows([chunk EXCEPT !.cells[c].link = event, !.foreign = TRUE], chunk)
<1>1. /\ chunk.cells \in Seq(Cell) /\ c \in DOMAIN chunk.cells /\ chunk.cells[c] \in Cell
      /\ c \in 1..(Len(chunk.cells) + 1)
  <2>1. chunk.cells \in Seq(Cell)
    BY DEF Chunk
  <2>2. c \in DOMAIN chunk.cells /\ c \in 1..(Len(chunk.cells) + 1)
    BY <2>1
  <2> QED  BY <2>1, <2>2, ElementTyped
<1>2. Follows([chunk EXCEPT !.cells = RemoveAt(@, c)], chunk)
  <2>1. PICK cells : cells = RemoveAt(chunk.cells, c)
    OBVIOUS
  <2>2. cells \in Seq(Cell)
    BY <1>1, <2>1, Removed
  <2>3. PICK new : new = [chunk EXCEPT !.cells = cells]
    OBVIOUS
  <2>4. chunk = RowChunk(chunk.of) => OneEdit(chunk.numbers, cells, chunk.of)
    BY <2>1 DEF OneEdit
  <2>5. Follows(new, chunk)
    BY <2>2, <2>3, <2>4, CellsReplaced
  <2> QED  BY <2>1, <2>3, <2>5
<1>3. Follows([chunk EXCEPT !.cells = InsertAt(@, c, @[c]), !.foreign = TRUE], chunk)
  <2>1. PICK cells : cells = InsertAt(chunk.cells, c, chunk.cells[c])
    OBVIOUS
  <2>2. cells \in Seq(Cell)
    BY <1>1, <2>1, Inserted
  <2>3. Follows([chunk EXCEPT !.cells = cells, !.foreign = TRUE], chunk)
    BY <2>2, CellsReplaced
  <2> QED  BY <2>1, <2>3
<1>4. ASSUME NEW n \in Nat, chunk.cells[c].link # NoLink, n # chunk.cells[c].points
      PROVE  Follows([chunk EXCEPT !.cells[c].points = n], chunk)
  <2>1. PICK cell : cell = [chunk.cells[c] EXCEPT !.points = n]
    OBVIOUS
  <2>2. cell \in Cell
    BY <1>1, <2>1 DEF Cell
  <2>3. PICK cells : cells = [chunk.cells EXCEPT ![c] = cell]
    OBVIOUS
  <2>4. cells \in Seq(Cell)
    BY <1>1, <2>2, <2>3, CellReplaced
  <2>5. PICK new : new = [chunk EXCEPT !.cells[c].points = n]
    OBVIOUS
  <2>6. new = [chunk EXCEPT !.cells = cells]
    BY <2>1, <2>3, <2>5
  <2>7. cells = [chunk.cells EXCEPT ![c].points = n]
    BY <2>1, <2>3
  <2>8. ASSUME chunk = RowChunk(chunk.of)
        PROVE  OneEdit(chunk.numbers, cells, chunk.of)
    <3>1. PICK rc : rc = RowChunk(chunk.of)
      OBVIOUS
    <3>2. /\ chunk.numbers = rc.numbers /\ c \in 2..Len(rc.cells) /\ n \in Nat
          /\ rc.cells[c].link # NoLink /\ n # rc.cells[c].points
          /\ cells = [rc.cells EXCEPT ![c].points = n]
      BY <1>4, <2>7, <2>8, <3>1
    <3> QED  BY <3>1, <3>2, Zenon DEF OneEdit
  <2>9. Follows(new, chunk)
    BY <2>4, <2>6, <2>8, CellsReplaced
  <2> QED  BY <2>5, <2>9
<1>5. ASSUME chunk.cells[c].link # NoLink
      PROVE  Follows([chunk EXCEPT !.cells[c].link = NoLink, !.cells[c].shows = "Absent"], chunk)
  <2>1. PICK cell : cell = [chunk.cells[c] EXCEPT !.link = NoLink, !.shows = "Absent"]
    OBVIOUS
  <2>2. cell \in Cell
    BY <1>1, <2>1 DEF Cell, Text
  <2>3. PICK cells : cells = [chunk.cells EXCEPT ![c] = cell]
    OBVIOUS
  <2>4. cells \in Seq(Cell)
    BY <1>1, <2>2, <2>3, CellReplaced
  <2>5. PICK new : new = [chunk EXCEPT !.cells[c].link = NoLink, !.cells[c].shows = "Absent"]
    OBVIOUS
  <2>6. new = [chunk EXCEPT !.cells = cells]
    BY <1>1, <2>1, <2>3, <2>5 DEF Chunk
  <2>7. cells = [chunk.cells EXCEPT ![c].link = NoLink, ![c].shows = "Absent"]
    BY <1>1, <2>1, <2>3
  <2>8. chunk = RowChunk(chunk.of) => OneEdit(chunk.numbers, cells, chunk.of)
    BY <1>5, <2>7 DEF OneEdit
  <2>9. Follows(new, chunk)
    BY <2>4, <2>6, <2>8, CellsReplaced
  <2> QED  BY <2>5, <2>9
<1>6. ASSUME NEW event \in Title
      PROVE  Follows([chunk EXCEPT !.cells[c].link = event, !.foreign = TRUE], chunk)
  <2>1. PICK cell : cell = [chunk.cells[c] EXCEPT !.link = event]
    OBVIOUS
  <2>2. cell \in Cell
    BY <1>1, <2>1 DEF Cell
  <2>3. PICK cells : cells = [chunk.cells EXCEPT ![c] = cell]
    OBVIOUS
  <2>4. cells \in Seq(Cell)
    BY <1>1, <2>2, <2>3, CellReplaced
  <2>5. PICK new : new = [chunk EXCEPT !.cells[c].link = event, !.foreign = TRUE]
    OBVIOUS
  <2>6. new = [chunk EXCEPT !.cells = cells, !.foreign = TRUE]
    BY <2>1, <2>3, <2>5
  <2>7. Follows(new, chunk)
    BY <2>4, <2>6, CellsReplaced
  <2> QED  BY <2>5, <2>7
<1> QED  BY <1>2, <1>3, <1>4, <1>5, <1>6

\* The table closed in the middle of the row or behind it: no numbers are
\* left, or all the cells.
LEMMA Closed ==
    ASSUME NEW chunk \in Chunk, NEW n \in 0..(Len(chunk.cells) + Len(chunk.numbers)),
           NEW new, new = [chunk EXCEPT !.ends    = TRUE,
                                        !.cells   = SubSeq(@, 1, Min({n, Len(@)})),
                                        !.numbers = SubSeq(@, 1, n - Len(chunk.cells))]
    PROVE  Follows(new, chunk)
<1>1. /\ chunk.cells \in Seq(Cell) /\ chunk.numbers \in Seq(Nat)
      /\ Len(chunk.cells) \in Nat /\ Len(chunk.numbers) \in Nat
  <2>1. chunk.cells \in Seq(Cell) /\ chunk.numbers \in Seq(Nat)
    BY DEF Chunk
  <2> QED  BY <2>1
<1>2. PICK m : m = Min({n, Len(chunk.cells)})
  OBVIOUS
<1>3. m \in Nat /\ m <= n /\ m <= Len(chunk.cells) /\ (Len(chunk.cells) <= n => m = Len(chunk.cells))
  BY <1>1, <1>2, MinOfTwo
<1>4. PICK cells : cells = SubSeq(chunk.cells, 1, m)
  OBVIOUS
<1>5. PICK numbers : numbers = SubSeq(chunk.numbers, 1, n - Len(chunk.cells))
  OBVIOUS
<1>6. cells \in Seq(Cell) /\ (Len(chunk.cells) <= n => cells = chunk.cells)
  <2>1. cells \in Seq(Cell)
    BY <1>1, <1>3, <1>4
  <2>2. Len(chunk.cells) <= n => cells = chunk.cells
    BY <1>1, <1>3, <1>4
  <2> QED  BY <2>1, <2>2
<1>7. numbers \in Seq(Nat) /\ (n < Len(chunk.cells) => numbers = <<>>)
  <2>1. PICK a \in Nat, b \in Nat : a = Len(chunk.cells) /\ b = Len(chunk.numbers)
    BY <1>1
  <2>4. n \in 0..(a + b)
    BY <2>1
  <2>5. PICK d \in Int : d = n - a
    BY <2>4
  <2>6. d <= b
    BY ONLY a \in Nat, b \in Nat, d \in Int, <2>4, <2>5
  <2>7. numbers = SubSeq(chunk.numbers, 1, d) /\ d <= Len(chunk.numbers)
    BY <1>5, <2>1, <2>5, <2>6
  <2>2. numbers \in Seq(Nat)
    BY <1>1, <2>7
  <2>3. n < Len(chunk.cells) => numbers = <<>>
    BY <1>1, <1>5
  <2> QED  BY <2>2, <2>3
<1>8. new = [chunk EXCEPT !.ends = TRUE, !.cells = cells, !.numbers = numbers]
  BY <1>2, <1>4, <1>5
<1>9. /\ new \in Chunk /\ new.of = chunk.of /\ new.edits = chunk.edits
      /\ new.cells = cells /\ new.numbers = numbers
  BY <1>6, <1>7, <1>8 DEF Chunk
<1>10. new.numbers = <<>> \/ new.cells = chunk.cells
  BY <1>1, <1>6, <1>7, <1>9
<1> QED  BY <1>9, <1>10 DEF Follows, OneEdit

------------------------------------------------------------------------------
(* The steps.                                                              *)

\* An edit is counted.
LEMMA Damaged ==
    ASSUME TypeOK, NEW what \in {"rows", "beside"}, Damage(what)
    PROVE  damage' \in [rows : Nat, beside : Nat]
BY DEF TypeOK, Damage

\* Rows moved about, chunk for chunk what they may be.
LEMMA ArrangeKeeps ==
    ASSUME IInv, NEW after \in Seq(Chunk), Arrange(after),
           \A k \in DOMAIN after : Remains(after[k])
    PROVE  IInv'
<1>1. TypeOK /\ BlocksRemain /\ article' = [article EXCEPT !.chunks = after] /\ Damage("rows")
  BY DEF IInv, Arrange
<1>2. damage' \in [rows : Nat, beside : Nat]
  BY <1>1, Damaged
<1>3. article' \in Article /\ article'.chunks = after /\ article'.groups = article.groups
  BY <1>1 DEF TypeOK, Article
<1>4. TypeOK' /\ ChunksRemain' /\ BlocksRemain'
  BY <1>1, <1>2, <1>3 DEF TypeOK, ChunksRemain, BlocksRemain
<1> QED  BY <1>4 DEF IInv

\* The chunks are what is left of rows.
LEMMA ChunksTyped ==
    ASSUME IInv
    PROVE  /\ article.chunks \in Seq(Chunk)
           /\ \A k \in DOMAIN article.chunks :
                 /\ article.chunks[k] \in Chunk /\ Remains(article.chunks[k])
<1>1. article.chunks \in Seq(Chunk)
  BY DEF IInv, TypeOK, Article
<1>2. \A k \in DOMAIN article.chunks : article.chunks[k] \in Chunk
  BY <1>1, ElementTyped
<1> QED  BY <1>1, <1>2 DEF IInv, ChunksRemain

\* Edits of the text of one row.
LEMMA RewriteKeeps ==
    ASSUME IInv, NEW k \in DOMAIN article.chunks, NEW new,
           Rewrite(k, new), Follows(new, article.chunks[k])
    PROVE  IInv'
<1>1. PICK chunks : chunks = article.chunks
  OBVIOUS
<1>2. /\ chunks \in Seq(Chunk) /\ k \in DOMAIN chunks
      /\ \A l \in DOMAIN chunks : chunks[l] \in Chunk /\ Remains(chunks[l])
  BY <1>1, ChunksTyped
<1>3. PICK chunk \in Chunk : chunk = chunks[k] /\ Remains(chunk)
  BY <1>2
<1>4. new \in Chunk /\ new.of = chunk.of /\ new.edits = chunk.edits
      /\ ((chunk = RowChunk(chunk.of) /\ ~new.foreign) => OneEdit(new.numbers, new.cells, chunk.of))
  BY <1>1, <1>3 DEF Follows
<1>5. PICK edited : edited = [new EXCEPT !.edits = @ + 1]
  OBVIOUS
<1>6. chunk.edits \in Nat /\ new \in Chunk /\ new.edits + 1 \in Nat
  <2>1. chunk.edits \in Nat
    BY DEF Chunk
  <2> QED  BY <1>4, <2>1
<1>7. /\ edited \in Chunk /\ edited.of = chunk.of /\ edited.edits = chunk.edits + 1
      /\ edited.foreign = new.foreign /\ edited.numbers = new.numbers /\ edited.cells = new.cells
  BY <1>4, <1>5, <1>6 DEF Chunk
<1>8. Remains(edited)
  <2> SUFFICES ASSUME edited.of # 0
               PROVE  /\ edited.of \in DOMAIN Table /\ edited.edits # 0
                      /\ edited.edits = 1 /\ ~edited.foreign => OneEdit(edited.numbers, edited.cells, edited.of)
    BY DEF Remains
  <2>1. edited.of \in DOMAIN Table /\ (chunk.edits = 0 => chunk = RowChunk(chunk.of))
    BY <1>3, <1>7 DEF Remains
  <2>2. edited.edits # 0 /\ (edited.edits = 1 => chunk.edits = 0)
    BY <1>6, <1>7
  <2>3. edited.edits = 1 /\ ~edited.foreign => OneEdit(new.numbers, new.cells, edited.of)
    BY <1>4, <1>7, <2>1, <2>2
  <2>4. OneEdit(new.numbers, new.cells, edited.of) => OneEdit(edited.numbers, edited.cells, edited.of)
    BY <1>7
  <2> QED  BY <2>1, <2>2, <2>3, <2>4
<1>9. PICK after : after = [chunks EXCEPT ![k] = edited]
  OBVIOUS
<1>10. /\ after \in Seq(Chunk) /\ DOMAIN after = DOMAIN chunks
       /\ after[k] = edited /\ \A l \in DOMAIN chunks : l # k => after[l] = chunks[l]
  BY <1>2, <1>7, <1>9
<1>11. Arrange(after)
  BY <1>1, <1>5, <1>9 DEF Rewrite
<1>12. \A l \in DOMAIN after : Remains(after[l])
  BY <1>2, <1>8, <1>10
<1> QED  BY <1>10, <1>11, <1>12, ArrangeKeeps

\* Rows deleted, swapped or inserted.
LEMMA MovesKeep ==
    ASSUME IInv, NEW k \in DOMAIN article.chunks, RemoveRow(k) \/ SwapRows(k) \/ InsertRow(k)
    PROVE  IInv'
<1>1. PICK chunks : chunks = article.chunks
  OBVIOUS
<1>2. /\ chunks \in Seq(Chunk) /\ k \in DOMAIN chunks
      /\ \A l \in DOMAIN chunks : chunks[l] \in Chunk /\ Remains(chunks[l])
      /\ DOMAIN chunks = 1..Len(chunks) /\ Len(chunks) \in Nat
  <2>1. chunks \in Seq(Chunk) /\ \A l \in DOMAIN chunks : chunks[l] \in Chunk /\ Remains(chunks[l])
    BY <1>1, ChunksTyped
  <2> QED  BY <1>1, <2>1
<1>3. CASE RemoveRow(k)
  <2>1. PICK after : after = RemoveAt(chunks, k)
    OBVIOUS
  <2>2. /\ after \in Seq(Chunk) /\ Len(after) = Len(chunks) - 1
        /\ \A l \in DOMAIN after : after[l] = IF l < k THEN chunks[l] ELSE chunks[l + 1]
    BY <1>2, <2>1, Removed
  <2>3. \A l \in DOMAIN after : l \in DOMAIN chunks /\ l + 1 \in DOMAIN chunks
    BY <1>2, <2>2
  <2>4. \A l \in DOMAIN after : Remains(after[l])
    BY <1>2, <2>2, <2>3
  <2>5. Arrange(after)
    BY <1>1, <1>3, <2>1 DEF RemoveRow
  <2> QED  BY <2>2, <2>4, <2>5, ArrangeKeeps
<1>4. CASE SwapRows(k)
  <2>1. PICK after : after = [chunks EXCEPT ![k] = chunks[k + 1], ![k + 1] = chunks[k]]
    OBVIOUS
  <2>2. k + 1 \in DOMAIN chunks /\ Arrange(after)
    BY <1>1, <1>4, <2>1 DEF SwapRows
  <2>3. chunks[k] \in Chunk /\ chunks[k + 1] \in Chunk
    BY <1>2, <2>2
  <2>4. /\ after \in Seq(Chunk) /\ DOMAIN after = DOMAIN chunks
        /\ \A l \in DOMAIN chunks : after[l] \in {chunks[l], chunks[k], chunks[k + 1]}
    BY <1>2, <2>1, <2>2, <2>3
  <2>5. \A l \in DOMAIN after : Remains(after[l])
    BY <1>2, <2>2, <2>4
  <2> QED  BY <2>2, <2>4, <2>5, ArrangeKeeps
<1>5. CASE InsertRow(k)
  <2>1. PICK p \in Player :
           /\ chunks[k].cells # <<>>
           /\ Arrange(InsertAt(chunks, k + 1,
                         [chunks[k] EXCEPT !.of = 0, !.rank = @ + 1, !.cells[1].link = p]))
    BY <1>1, <1>5 DEF InsertRow
  <2>2. PICK chunk \in Chunk : chunk = chunks[k]
    BY <1>2
  <2>3. /\ chunk.cells \in Seq(Cell) /\ 1 \in DOMAIN chunk.cells /\ chunk.cells[1] \in Cell
        /\ chunk.rank + 1 \in Nat
    <3>1. chunk.cells \in Seq(Cell) /\ chunk.rank \in Nat
      BY DEF Chunk
    <3>2. 1 \in DOMAIN chunk.cells
      BY <2>1, <2>2, <3>1
    <3> QED  BY <3>1, <3>2, ElementTyped
  <2>4. PICK cell : cell = [chunk.cells[1] EXCEPT !.link = p]
    OBVIOUS
  <2>5. cell \in Cell
    <3>1. p \in Title \cup {NoLink}
      BY TableAssumption
    <3> QED  BY <2>3, <2>4, <3>1 DEF Cell
  <2>6. PICK cells : cells = [chunk.cells EXCEPT ![1] = cell]
    OBVIOUS
  <2>7. cells \in Seq(Cell)
    BY <2>3, <2>5, <2>6, CellReplaced
  <2>8. PICK row : row = [chunk EXCEPT !.of = 0, !.rank = @ + 1, !.cells[1].link = p]
    OBVIOUS
  <2>9. row = [chunk EXCEPT !.of = 0, !.rank = @ + 1, !.cells = cells]
    BY <2>4, <2>6, <2>8
  <2>10. row \in Chunk /\ row.of = 0
    BY <2>3, <2>7, <2>9 DEF Chunk
  <2>11. PICK after : after = InsertAt(chunks, k + 1, row)
    OBVIOUS
  <2>12. chunks \in Seq(Chunk) /\ row \in Chunk /\ k + 1 \in 1..(Len(chunks) + 1)
    BY <1>2, <2>10
  <2>13. /\ after \in Seq(Chunk)
         /\ \A l \in DOMAIN after : after[l] = row \/ \E m \in DOMAIN chunks : after[l] = chunks[m]
    BY ONLY <2>11, <2>12, Inserted
  <2>14. \A l \in DOMAIN after : Remains(after[l])
    BY <1>2, <2>10, <2>13 DEF Remains
  <2>15. Arrange(after)
    BY <2>1, <2>2, <2>8, <2>11
  <2> QED  BY <2>13, <2>14, <2>15, ArrangeKeeps
<1> QED  BY <1>3, <1>4, <1>5

\* Edits of a row.
LEMMA RowEditKeeps ==
    ASSUME IInv, NEW k \in DOMAIN article.chunks,
           \/ RetypeRank(k) \/ RelinkName(k) \/ Unalign(k) \/ RetypeTotal(k) \/ DropNumbers(k)
           \/ DropCell(k) \/ CopyCell(k) \/ RetypeResult(k) \/ UnlinkResult(k)
           \/ RelinkResult(k) \/ Truncate(k) \/ CloseTable(k)
    PROVE  IInv'
<1>1. PICK c \in Chunk : c = article.chunks[k]
  BY ChunksTyped
<1>2. /\ c.numbers \in Seq(Nat) /\ <<>> \in Seq(Nat)
      /\ c.numbers # <<>> => /\ Tail(c.numbers) \in Seq(Nat)
                             /\ \A n \in Misprints : [c.numbers EXCEPT ![1] = n] \in Seq(Nat)
  <2>1. c.numbers \in Seq(Nat) /\ Misprints \subseteq Nat
    BY EditorsAssumption DEF Chunk
  <2> QED  BY <2>1
<1>3. \E new : Rewrite(k, new) /\ Follows(new, c)
  <2>1. CASE RetypeRank(k)
    <3>1. 0..Len(Table) \subseteq Nat
      BY TableAssumption
    <3> QED  BY <1>1, <2>1, <3>1, PlainEdits DEF RetypeRank
  <2>2. CASE RelinkName(k)
    BY <1>1, <2>2, NameEdits DEF RelinkName
  <2>3. CASE Unalign(k)
    BY <1>1, <2>3, NameEdits DEF Unalign
  <2>4. CASE RetypeTotal(k)
    <3>1. PICK ns \in Seq(Nat) : Rewrite(k, [c EXCEPT !.numbers = ns])
      BY <1>1, <1>2, <2>4 DEF RetypeTotal
    <3> QED  BY <3>1, PlainEdits
  <2>5. CASE DropNumbers(k)
    BY <1>1, <1>2, <2>5, PlainEdits DEF DropNumbers
  <2>6. CASE DropCell(k)
    BY <1>1, <2>6, CellEdits DEF DropCell
  <2>7. CASE CopyCell(k)
    BY <1>1, <2>7, CellEdits DEF CopyCell
  <2>8. CASE RetypeResult(k)
    <3>1. PICK d \in 2..Len(c.cells) :
             /\ c.cells[d].link # NoLink
             /\ \E n \in {0, c.cells[d].points + 1} : Rewrite(k, [c EXCEPT !.cells[d].points = n])
      BY <1>1, <2>8 DEF RetypeResult
    <3>2. PICK n \in {0, c.cells[d].points + 1} : Rewrite(k, [c EXCEPT !.cells[d].points = n])
      BY <3>1
    <3>3. c.cells \in Seq(Cell) /\ d \in DOMAIN c.cells /\ c.cells[d] \in Cell
      <4>1. c.cells \in Seq(Cell)
        BY DEF Chunk
      <4>2. d \in DOMAIN c.cells
        BY <4>1
      <4> QED  BY <4>1, <4>2, ElementTyped
    <3>4. c.cells[d].points \in Nat /\ n \in Nat
      <4>1. c.cells[d].points \in Nat
        BY <3>3 DEF Cell
      <4> QED  BY <4>1
    <3>5. PICK new : new = [c EXCEPT !.cells[d].points = n]
      OBVIOUS
    <3>6. n # c.cells[d].points
      <4> SUFFICES ASSUME n = c.cells[d].points PROVE FALSE
        OBVIOUS
      <4>1. [c.cells[d] EXCEPT !.points = n] = c.cells[d]
        BY <3>3 DEF Cell
      <4>2. [c.cells EXCEPT ![d] = c.cells[d]] = c.cells
        BY <3>3
      <4>3. new = [c EXCEPT !.cells = c.cells]
        BY <3>5, <4>1, <4>2
      <4>4. new = c
        BY <4>3 DEF Chunk
      <4>5. new # c
        BY <1>1, <3>2, <3>5 DEF Rewrite
      <4> QED  BY <4>4, <4>5
    <3> QED  BY <3>1, <3>2, <3>4, <3>6, CellEdits
  <2>9. CASE UnlinkResult(k)
    BY <1>1, <2>9, CellEdits DEF UnlinkResult
  <2>10. CASE RelinkResult(k)
    BY <1>1, <2>10, CellEdits DEF RelinkResult
  <2>11. CASE Truncate(k)
    BY <1>1, <2>11, PlainEdits DEF Truncate
  <2>12. CASE CloseTable(k)
    <3>1. PICK n \in 0..(Len(c.cells) + Len(c.numbers)) :
             Rewrite(k, [c EXCEPT !.ends    = TRUE,
                                  !.cells   = SubSeq(@, 1, Min({n, Len(@)})),
                                  !.numbers = SubSeq(@, 1, n - Len(c.cells))])
      BY <1>1, <2>12 DEF CloseTable
    <3> QED  BY <3>1, Closed
  <2> QED  BY <2>1, <2>2, <2>3, <2>4, <2>5, <2>6, <2>7, <2>8, <2>9, <2>10, <2>11, <2>12
<1> QED  BY <1>1, <1>3, RewriteKeeps

\* Edits beside the rows.
LEMMA OtherEditsKeep ==
    ASSUME IInv, LoseBlock \/ LoseMarker \/ EditAnnouncement \/ DropAnnouncements
    PROVE  IInv'
<1>1. TypeOK /\ damage' \in [rows : Nat, beside : Nat]
  <2>1. TypeOK /\ Damage("beside")
    BY DEF IInv, LoseBlock, LoseMarker, EditAnnouncement, DropAnnouncements
  <2> QED  BY <2>1, Damaged
<1>2. CASE LoseBlock
  <2>1. PICK g \in DOMAIN article.groups :
           /\ Len(article.groups) = Len(Blocks)
           /\ article' = [article EXCEPT !.groups = RemoveAt(@, g)]
    BY <1>2 DEF LoseBlock
  <2>2. Blocks \in Seq([slot : Slot, span : Nat])
    BY BlocksAssumption
  <2>3. article.groups = Blocks
    <3> SUFFICES ASSUME NEW h \in DOMAIN Blocks, article.groups = RemoveAt(Blocks, h) PROVE FALSE
      BY DEF IInv, BlocksRemain
    <3>1. Len(RemoveAt(Blocks, h)) = Len(Blocks) - 1 /\ Len(Blocks) \in Nat
      BY <2>2, Removed
    <3> QED  BY <2>1, <3>1
  <2>4. PICK rest : rest = RemoveAt(Blocks, g)
    OBVIOUS
  <2>5. rest \in Seq([slot : Slot, span : Nat])
    BY <2>1, <2>2, <2>3, <2>4, Removed
  <2>6. article' = [article EXCEPT !.groups = rest]
    BY <2>1, <2>3, <2>4
  <2>7. TypeOK' /\ article'.groups = rest /\ article'.chunks = article.chunks
    BY <1>1, <2>5, <2>6 DEF TypeOK, Article
  <2>8. BlocksRemain'
    BY <2>1, <2>3, <2>4, <2>7 DEF BlocksRemain
  <2>9. ChunksRemain'
    BY <2>7 DEF IInv, ChunksRemain
  <2> QED  BY <2>7, <2>8, <2>9 DEF IInv
<1>3. CASE LoseMarker
  <2>1. PICK m : article' = [article EXCEPT !.markers = @ \ {m}]
    BY <1>3 DEF LoseMarker
  <2>2. TypeOK' /\ article'.groups = article.groups /\ article'.chunks = article.chunks
    BY <1>1, <2>1 DEF TypeOK, Article
  <2>3. ChunksRemain' /\ BlocksRemain'
    BY <2>2 DEF IInv, ChunksRemain, BlocksRemain
  <2> QED  BY <2>2, <2>3 DEF IInv
<1>4. ASSUME NEW others \in SUBSET Announcement,
             article' = [article EXCEPT !.announcements = others]
      PROVE  IInv'
  <2>1. TypeOK' /\ article'.groups = article.groups /\ article'.chunks = article.chunks
    BY <1>1, <1>4 DEF TypeOK, Article
  <2>2. ChunksRemain' /\ BlocksRemain'
    BY <2>1 DEF IInv, ChunksRemain, BlocksRemain
  <2> QED  BY <2>1, <2>2 DEF IInv
<1>5. article.announcements \in SUBSET Announcement
  BY <1>1 DEF TypeOK, Article
<1>6. CASE EditAnnouncement
  <2>1. PICK a \in article.announcements :
           \E new \in {[a EXCEPT !.aligned = FALSE], [a EXCEPT !.dated = FALSE], [a EXCEPT !.cited = FALSE]}
                         \cup {[a EXCEPT !.link = p] : p \in Player \cup {NoLink}} :
              article' = [article EXCEPT !.announcements = (@ \ {a}) \cup {new}]
    BY <1>6 DEF EditAnnouncement
  <2>2. PICK new \in {[a EXCEPT !.aligned = FALSE], [a EXCEPT !.dated = FALSE], [a EXCEPT !.cited = FALSE]}
                        \cup {[a EXCEPT !.link = p] : p \in Player \cup {NoLink}} :
           article' = [article EXCEPT !.announcements = (@ \ {a}) \cup {new}]
    BY <2>1
  <2>3. new \in Announcement
    BY <1>5, <2>2 DEF Announcement
  <2> QED  BY <1>4, <1>5, <2>2, <2>3
<1>7. CASE DropAnnouncements
  <2>1. PICK kept \in SUBSET article.announcements :
           article' = [article EXCEPT !.announcements = kept]
    BY <1>7 DEF DropAnnouncements
  <2> QED  BY <1>4, <1>5, <2>1
<1> QED  BY <1>2, <1>3, <1>6, <1>7

\* No edit of the article breaks the invariant.
LEMMA NextIInv == IInv /\ [Next]_vars => IInv'
<1> SUFFICES ASSUME IInv, [Next]_vars PROVE IInv'
  OBVIOUS
<1>1. CASE UNCHANGED vars
  BY <1>1 DEF vars, IInv, TypeOK, ChunksRemain, BlocksRemain
<1>2. CASE Next
  <2>1. CASE LoseBlock \/ LoseMarker \/ EditAnnouncement \/ DropAnnouncements
    BY <2>1, OtherEditsKeep
  <2>2. ASSUME NEW k \in DOMAIN article.chunks, RemoveRow(k) \/ SwapRows(k) \/ InsertRow(k)
        PROVE  IInv'
    BY <2>2, MovesKeep
  <2>3. ASSUME NEW k \in DOMAIN article.chunks,
               \/ RetypeRank(k) \/ RelinkName(k) \/ Unalign(k) \/ RetypeTotal(k) \/ DropNumbers(k)
               \/ DropCell(k) \/ CopyCell(k) \/ RetypeResult(k) \/ UnlinkResult(k)
               \/ RelinkResult(k) \/ Truncate(k) \/ CloseTable(k)
        PROVE  IInv'
    BY <2>3, RowEditKeeps
  <2> QED  BY <1>2, <2>1, <2>2, <2>3 DEF Next
<1> QED  BY <1>1, <1>2

\* The article as written satisfies the invariant.
LEMMA InitIInv == Init => IInv
<1> SUFFICES ASSUME Init PROVE IInv
  OBVIOUS
<1>1. PICK n : n = Len(Table)
  OBVIOUS
<1>2. n \in Nat /\ n # 0 /\ DOMAIN Table = 1..n
  BY <1>1, TableAssumption
<1>3. PICK upper : upper = [i \in 1..(n - 1) |-> RowChunk(i)]
  OBVIOUS
<1>4. PICK lower : lower = <<Separator, RowChunk(n)>>
  OBVIOUS
<1>5. PICK chunks : chunks = upper \o lower
  OBVIOUS
<1>6. \A i \in 1..n : RowChunk(i) \in Chunk /\ Remains(RowChunk(i))
  <2> SUFFICES ASSUME NEW i \in 1..n PROVE RowChunk(i) \in Chunk /\ Remains(RowChunk(i))
    OBVIOUS
  <2>1. RowChunk(i) \in Chunk /\ RowChunk(i).of = i /\ i \in DOMAIN Table
    BY <1>2, RowChunkTyped
  <2>2. RowChunk(i).edits = 0
    BY DEF RowChunk
  <2> QED  BY <2>1, <2>2 DEF Remains
<1>7. Separator \in Chunk /\ Remains(Separator)
  <2>1. <<>> \in Seq(Nat) /\ <<>> \in Seq(Cell)
    OBVIOUS
  <2> QED  BY <2>1 DEF Separator, Chunk, Remains
<1>8. /\ upper \in Seq(Chunk) /\ \A k \in DOMAIN upper : Remains(upper[k])
  <2>1. \A k \in 1..(n - 1) : RowChunk(k) \in Chunk /\ Remains(RowChunk(k))
    BY <1>2, <1>6
  <2> QED  BY <1>2, <1>3, <2>1
<1>9. /\ lower \in Seq(Chunk) /\ \A k \in DOMAIN lower : Remains(lower[k])
  <2>1. RowChunk(n) \in Chunk /\ Remains(RowChunk(n))
    BY <1>2, <1>6
  <2>2. lower \in Seq(Chunk) /\ DOMAIN lower = {1, 2} /\ lower[1] = Separator /\ lower[2] = RowChunk(n)
    BY <1>4, <1>7, <2>1
  <2> QED  BY <1>7, <2>1, <2>2
<1>10. /\ chunks \in Seq(Chunk)
       /\ \A k \in DOMAIN chunks : \/ \E l \in DOMAIN upper : chunks[k] = upper[l]
                                   \/ \E l \in DOMAIN lower : chunks[k] = lower[l]
  <2>1. upper \in Seq(Chunk) /\ lower \in Seq(Chunk)
    BY <1>8, <1>9
  <2>2. /\ chunks \in Seq(Chunk) /\ DOMAIN chunks = 1..(Len(upper) + Len(lower))
        /\ Len(upper) \in Nat /\ Len(lower) \in Nat
        /\ DOMAIN upper = 1..Len(upper) /\ DOMAIN lower = 1..Len(lower)
        /\ \A k \in DOMAIN upper : chunks[k] = upper[k]
        /\ \A k \in DOMAIN lower : chunks[Len(upper) + k] = lower[k]
    BY ONLY <1>5, <2>1
  <2>3. \A k \in DOMAIN chunks : k \in DOMAIN upper \/ \E l \in DOMAIN lower : k = Len(upper) + l
    <3> SUFFICES ASSUME NEW k \in DOMAIN chunks, k \notin DOMAIN upper
                 PROVE  \E l \in DOMAIN lower : k = Len(upper) + l
      OBVIOUS
    <3>1. k - Len(upper) \in DOMAIN lower /\ k = Len(upper) + (k - Len(upper))
      BY ONLY <2>2, k \in DOMAIN chunks, k \notin DOMAIN upper
    <3> QED  BY ONLY <3>1
  <2> QED  BY <2>2, <2>3
<1>11. \A k \in DOMAIN chunks : Remains(chunks[k])
  BY <1>8, <1>9, <1>10
<1>12. PICK all : all = {[link |-> p, aligned |-> TRUE, dated |-> TRUE, cited |-> TRUE] : p \in Announced}
  OBVIOUS
<1>13. all \in SUBSET Announcement
  <2>1. \A p \in Announced : [link |-> p, aligned |-> TRUE, dated |-> TRUE, cited |-> TRUE] \in Announcement
    <3>1. \A p \in Announced : p \in Player \cup {NoLink}
      BY EditorsAssumption
    <3> QED  BY <3>1 DEF Announcement
  <2>2. \A a \in all : \E p \in Announced :
           a = [link |-> p, aligned |-> TRUE, dated |-> TRUE, cited |-> TRUE]
    BY <1>12
  <2> QED  BY <2>1, <2>2
<1>14. /\ article = [markers       |-> {"as_of", "standings", "qualifiers"},
                     groups        |-> Blocks,
                     chunks        |-> chunks,
                     announcements |-> all]
       /\ damage \in [rows : Nat, beside : Nat]
  BY <1>1, <1>3, <1>4, <1>5, <1>12 DEF Init
<1>15. article \in Article
  <2>1. Blocks \in Seq([slot : Slot, span : Nat])
    BY BlocksAssumption
  <2>2. {"as_of", "standings", "qualifiers"} \in SUBSET {"as_of", "standings", "qualifiers"}
    OBVIOUS
  <2>3. chunks \in Seq(Chunk)
    BY <1>10
  <2> QED  BY <1>13, <1>14, <2>1, <2>2, <2>3, Zenon DEF Article
<1>16. TypeOK /\ ChunksRemain /\ BlocksRemain
  BY <1>11, <1>14, <1>15 DEF TypeOK, ChunksRemain, BlocksRemain
<1> QED  BY <1>16 DEF IInv

\* The inductive invariant of an article under edits (source.rs reads what it
\* leaves): chunks are what is left of rows.
THEOREM Invariance == Spec => []IInv
BY InitIInv, NextIInv, PTL DEF Spec


------------------------------------------------------------------------------
(* What an accepted article's rows are.                                    *)

\* The table is a beginning of the chunks.
LEMMA TableTyped ==
    ASSUME NEW S, NEW chunks \in Seq(S), NEW table, table = table_at(chunks)
    PROVE  /\ table \in Seq(S)
           /\ \A k \in DOMAIN table : k \in DOMAIN chunks /\ table[k] = chunks[k]
<1>1. PICK ends : ends = {k \in DOMAIN chunks : chunks[k].ends} \cup {Len(chunks)}
  OBVIOUS
<1>2. PICK m : m = Min(ends)
  OBVIOUS
<1>3. m \in ends
  <2>1. ends \subseteq Nat /\ ends # {}
    BY <1>1
  <2> QED  BY <1>2, <2>1, MinTyped
<1>4. m \in 0..Len(chunks)
  BY <1>1, <1>3
<1>5. table = SubSeq(chunks, 1, m)
  BY <1>1, <1>2 DEF table_at
<1> QED  BY <1>4, <1>5

\* The walk keeps the chunks it does not pass over.
LEMMA ChunksKept ==
    ASSUME NEW S, NEW chunks \in Seq(S), NEW kept, kept = PlayerChunks(chunks)
    PROVE  /\ Len(kept) \in Nat /\ DOMAIN kept = 1..Len(kept)
           /\ \A n \in DOMAIN kept : \E k \in DOMAIN chunks :
                 ~Skipped(chunks[k]) /\ kept[n] = chunks[k]
           /\ \A k \in DOMAIN chunks : ~Skipped(chunks[k]) =>
                 \E n \in DOMAIN kept : kept[n] = chunks[k]
<1> DEFINE T == {k \in DOMAIN chunks : ~Skipped(chunks[k])}
<1>1. PICK places : places = Filter(Places(chunks), T)
  OBVIOUS
<1>2. Len(chunks) \in Nat /\ DOMAIN chunks = 1..Len(chunks)
  OBVIOUS
<1>3. DOMAIN chunks \cap T = T
  OBVIOUS
<1>4. Enumerates(places, T)
  <2>1. Enumerates(Places(chunks), DOMAIN chunks)
    BY <1>2, PlacesEnumerate
  <2> HIDE DEF T
  <2>2. Enumerates(Filter(Places(chunks), T), DOMAIN chunks \cap T)
    BY <2>1, FilterEnumerates
  <2> QED  BY <1>1, <1>3, <2>2
<1>5. /\ Len(places) \in Nat /\ DOMAIN places = 1..Len(places)
      /\ \A n \in DOMAIN places : places[n] \in T
      /\ \A k \in T : \E n \in DOMAIN places : places[n] = k
  BY <1>4 DEF Enumerates, Members
<1>6. kept = [n \in DOMAIN places |-> chunks[places[n]]]
  BY <1>1 DEF PlayerChunks
<1> QED  BY <1>5, <1>6

\* An accepted article has at each rank a chunk of that rank; a chunk of the
\* table that the walk does not pass over is one of them.
LEMMA RowsAre ==
    ASSUME IInv, Accepted
    PROVE  /\ Len(Rows) \in Nat /\ DOMAIN Rows = 1..Len(Rows)
           /\ \A n \in DOMAIN Rows :
                 /\ Read(n) \in Chunk /\ Remains(Read(n))
                 /\ ~Skipped(Read(n)) /\ ~Refused(Read(n)) /\ Read(n).rank = n
                 /\ Rows[n] = ParsedRow(Read(n), article.groups)
           /\ \A chunk \in ToSet(table_at(article.chunks)) : ~Skipped(chunk) =>
                 \E n \in DOMAIN Rows : Read(n) = chunk
<1>1. PICK chunks : chunks = article.chunks
  OBVIOUS
<1>2. /\ chunks \in Seq(Chunk)
      /\ \A k \in DOMAIN chunks : chunks[k] \in Chunk /\ Remains(chunks[k])
  BY <1>1, ChunksTyped
<1>3. PICK table : table = table_at(chunks)
  OBVIOUS
<1>4. /\ table \in Seq(Chunk)
      /\ \A k \in DOMAIN table : table[k] \in Chunk /\ Remains(table[k])
  BY <1>2, <1>3, TableTyped
<1>5. PICK kept : kept = PlayerChunks(table)
  OBVIOUS
<1>6. /\ Len(kept) \in Nat /\ DOMAIN kept = 1..Len(kept)
      /\ \A n \in DOMAIN kept : \E k \in DOMAIN table :
            ~Skipped(table[k]) /\ kept[n] = table[k]
      /\ \A k \in DOMAIN table : ~Skipped(table[k]) =>
            \E n \in DOMAIN kept : kept[n] = table[k]
  BY <1>4, <1>5, ChunksKept
<1>7. Rows = [n \in DOMAIN kept |-> ParsedRow(kept[n], article.groups)]
  BY <1>1, <1>3, <1>5 DEF Rows, parse_standings
<1>8. Len(Rows) \in Nat /\ DOMAIN Rows = 1..Len(Rows) /\ DOMAIN Rows = DOMAIN kept
  BY <1>6, <1>7
<1>9. \A n : Read(n) = kept[n]
  BY <1>1, <1>3, <1>5 DEF Read
<1>10. /\ \A n \in DOMAIN kept : ~Refused(kept[n])
       /\ \A n \in DOMAIN Rows : Rows[n].rank = n
  BY <1>1, <1>3, <1>5 DEF Accepted, validate, Contiguous, Rows
<1>11. \A n \in DOMAIN kept : kept[n].rank = n
  BY <1>7, <1>8, <1>10 DEF ParsedRow
<1>12. ASSUME NEW n \in DOMAIN Rows
       PROVE  /\ kept[n] \in Chunk /\ Remains(kept[n])
              /\ ~Skipped(kept[n]) /\ ~Refused(kept[n]) /\ kept[n].rank = n
              /\ Rows[n] = ParsedRow(kept[n], article.groups)
  <2>1. PICK k \in DOMAIN table : ~Skipped(table[k]) /\ kept[n] = table[k]
    BY <1>6, <1>8
  <2>2. kept[n] \in Chunk /\ Remains(kept[n]) /\ ~Skipped(kept[n])
    BY <1>4, <2>1
  <2>3. /\ ~Refused(kept[n]) /\ kept[n].rank = n
        /\ Rows[n] = ParsedRow(kept[n], article.groups)
    BY <1>7, <1>8, <1>10, <1>11
  <2> QED  BY <2>2, <2>3
<1>13. ASSUME NEW chunk \in ToSet(table_at(article.chunks)), ~Skipped(chunk)
       PROVE  \E n \in DOMAIN Rows : kept[n] = chunk
  <2>1. PICK k \in DOMAIN table : chunk = table[k]
    BY <1>1, <1>3 DEF ToSet
  <2> QED  BY <1>6, <1>8, <1>13, <2>1
<1> QED  BY <1>8, <1>9, <1>12, <1>13

\* The player's cell has a link.
LEMMA PlayerFound ==
    ASSUME NEW cells \in Seq(Cell), Links(cells) # {}
    PROVE  /\ PlayerAt(cells) \in Links(cells)
           /\ PlayerAt(cells) \in DOMAIN cells /\ PlayerAt(cells) \in Nat
           /\ \/ cells[PlayerAt(cells)].left
              \/ \A k \in Links(cells) : ~cells[k].left /\ PlayerAt(cells) <= k
           /\ \A k \in Links(cells) : cells[k].left => PlayerAt(cells) <= k
<1> DEFINE aligned == {k \in Links(cells) : cells[k].left}
           S == IF aligned # {} THEN aligned ELSE Links(cells)
<1>1. Links(cells) \subseteq Nat /\ Links(cells) \subseteq DOMAIN cells
  BY DEF Links
<1>2. S \subseteq Nat /\ S # {} /\ S \subseteq Links(cells)
  BY <1>1
<1>3. PlayerAt(cells) = Min(S)
  BY DEF PlayerAt
<1>4. Min(S) \in S /\ \A n \in S : Min(S) <= n
  <2> HIDE DEF S
  <2> QED  BY <1>2, MinTyped
<1> QED  BY <1>1, <1>2, <1>3, <1>4

\* The first cell is the player's if it has a link and the prefix, or a link
\* and no cell has the prefix.
LEMMA FirstIsPlayer ==
    ASSUME NEW cells \in Seq(Cell), cells # <<>>, cells[1].link # NoLink,
           cells[1].left \/ \A c \in Links(cells) : ~cells[c].left
    PROVE  PlayerAt(cells) = 1
<1>1. 1 \in DOMAIN cells /\ DOMAIN cells = 1..Len(cells)
  OBVIOUS
<1>2. 1 \in Links(cells)
  BY <1>1 DEF Links
<1>3. PICK at : at = PlayerAt(cells)
  OBVIOUS
<1>4. /\ at \in Links(cells) /\ at \in DOMAIN cells /\ at \in Nat
      /\ \/ cells[at].left
         \/ \A k \in Links(cells) : ~cells[k].left /\ at <= k
      /\ \A k \in Links(cells) : cells[k].left => at <= k
  <2>1. Links(cells) # {}
    BY <1>2
  <2> QED  BY <1>3, <2>1, PlayerFound
<1>5. at <= 1
  BY <1>2, <1>4
<1>6. at >= 1
  BY <1>1, <1>4
<1> QED  BY <1>3, <1>4, <1>5, <1>6

\* The total of a row is its first number.
LEMMA TotalRead ==
    ASSUME IInv, Accepted, NEW n \in DOMAIN Rows
    PROVE  Rows[n].race_points = Head(Read(n).numbers) /\ Rows[n].race_points \in Nat
<1>1. PICK chunk \in Chunk : chunk = Read(n) /\ ~Refused(chunk) /\ Rows[n] = ParsedRow(chunk, article.groups)
  BY RowsAre
<1>2. chunk.numbers \in Seq(Nat) /\ chunk.numbers # <<>>
  BY <1>1 DEF Chunk, Refused
<1>3. Head(chunk.numbers) \in Nat
  BY <1>2
<1> QED  BY <1>1, <1>3 DEF ParsedRow

\* A row nobody edited that stands in the table is published at its rank, and
\* read from its own chunk.
LEMMA RowFound ==
    ASSUME IInv, Accepted,
           NEW chunk \in ToSet(table_at(article.chunks)), Untouched(chunk)
    PROVE  LET i == chunk.of
           IN  /\ i \in DOMAIN Table /\ chunk = RowChunk(i)
               /\ i \in DOMAIN Rows /\ Read(i) = chunk
               /\ Rows[i] = ParsedRow(RowChunk(i), article.groups)
<1>1. PICK i : i = chunk.of
  OBVIOUS
<1>2. i \in DOMAIN Table /\ chunk = RowChunk(i)
  <2>1. article.chunks \in Seq(Chunk) /\ \A k \in DOMAIN article.chunks : Remains(article.chunks[k])
    BY ChunksTyped
  <2>2. PICK table : table = table_at(article.chunks)
    OBVIOUS
  <2>3. PICK k \in DOMAIN table : chunk = table[k]
    BY <2>2 DEF ToSet
  <2>4. Remains(chunk)
    BY <2>1, <2>2, <2>3, TableTyped
  <2> QED  BY <1>1, <2>4 DEF Remains, Untouched
<1>3. ~Skipped(RowChunk(i)) /\ RowChunk(i).rank = i
  <2>1. i # 0 /\ Len(Table[i].cells) \in Nat /\ Len(Table[i].cells) >= 1
    BY <1>2, RowTyped
  <2>2. /\ ~RowChunk(i).separator /\ RowChunk(i).rank = i
        /\ Len(RowChunk(i).cells) = Len(Table[i].cells) + 1
    BY <1>2, RowChunkTyped
  <2> QED  BY <2>1, <2>2 DEF Skipped
<1>4. PICK n \in DOMAIN Rows : Read(n) = chunk
  BY <1>2, <1>3, RowsAre
<1>5. n = i /\ Rows[n] = ParsedRow(chunk, article.groups)
  BY <1>2, <1>3, <1>4, RowsAre
<1> QED  BY <1>1, <1>2, <1>4, <1>5

\* A row nobody edited has its player and its total.
LEMMA RowRight ==
    ASSUME IInv, Accepted, NEW n \in DOMAIN Rows, Untouched(Read(n))
    PROVE  /\ n \in DOMAIN Table /\ Read(n) = RowChunk(n)
           /\ Rows[n].player_code = Table[n].player /\ Rows[n].race_points = Table[n].total
<1>1. PICK chunk \in Chunk :
         /\ chunk = Read(n) /\ Remains(chunk) /\ chunk.rank = n
         /\ Rows[n] = ParsedRow(chunk, article.groups)
  BY RowsAre
<1>2. chunk.of \in DOMAIN Table /\ chunk = RowChunk(chunk.of)
  BY <1>1 DEF Remains, Untouched
<1>3. chunk.of = n
  BY <1>1, <1>2, RowChunkTyped
<1>4. /\ chunk.cells[1] = PlayerCell(Table[n].player) /\ Head(chunk.numbers) = Table[n].total
      /\ Table[n].player # NoLink
      /\ Len(chunk.cells) = Len(Table[n].cells) + 1 /\ Len(Table[n].cells) \in Nat
  BY <1>2, <1>3, RowChunkTyped, RowTyped
<1>5. chunk.cells \in Seq(Cell)
  BY DEF Chunk
<1>6. chunk.cells # <<>>
  BY <1>4, <1>5
<1>7. PlayerAt(chunk.cells) = 1
  <2>1. chunk.cells[1].link # NoLink /\ chunk.cells[1].left
    BY <1>4 DEF PlayerCell
  <2> QED  BY <1>5, <1>6, <2>1, FirstIsPlayer
<1> QED  BY <1>1, <1>2, <1>3, <1>4, <1>7 DEF ParsedRow, PlayerCell

\* Points that do not increase from a row to the next do not increase at all.
LEMMA PointsFall ==
    ASSUME NEW p, NEW n \in Nat, \A k \in 1..n : p[k] \in Nat,
           \A k \in 1..(n - 1) : p[k] >= p[k + 1],
           NEW i \in 1..n, NEW j \in 1..n, i < j
    PROVE  p[i] >= p[j]
<1> DEFINE Good == {d \in Nat : i + d <= n => p[i] >= p[i + d]}
<1>1. 0 \in Good
  OBVIOUS
<1>2. ASSUME NEW d \in Nat, d \in Good
      PROVE  d + 1 \in Good
  <2> SUFFICES ASSUME i + (d + 1) <= n PROVE p[i] >= p[i + (d + 1)]
    OBVIOUS
  <2>1. /\ i + d \in 1..(n - 1) /\ i + d \in 1..n /\ (i + d) + 1 \in 1..n
        /\ (i + d) + 1 = i + (d + 1)
    OBVIOUS
  <2>2. p[i] >= p[i + d] /\ p[i + d] >= p[(i + d) + 1]
    BY <1>2, <2>1
  <2>3. p[i] \in Nat /\ p[i + d] \in Nat /\ p[(i + d) + 1] \in Nat
    BY <2>1
  <2> QED  BY <2>1, <2>2, <2>3
<1> HIDE DEF Good
<1>3. Nat \subseteq Good
  BY <1>1, <1>2, NaturalInduction
<1>4. j - i \in Nat /\ i + (j - i) = j
  OBVIOUS
<1>5. j - i \in Good
  BY <1>3, <1>4
<1> QED  BY <1>4, <1>5 DEF Good

\* Between two rows nobody edited no published total leaves the range of
\* theirs (source.rs, the order of the points in validate), whatever the rows
\* between them became.
THEOREM TotalsAreBetween == Spec => []TotalsStayBetween
<1>1. IInv => TotalsStayBetween
  <2> SUFFICES ASSUME IInv, Accepted,
                      NEW i \in DOMAIN Rows, Untouched(Read(i)),
                      NEW j \in DOMAIN Rows, Untouched(Read(j)), NEW n \in i..j
               PROVE  Rows[n].race_points \in Table[j].total..Table[i].total
    BY DEF TotalsStayBetween
  <2>1. Len(Rows) \in Nat /\ DOMAIN Rows = 1..Len(Rows)
    BY RowsAre
  <2>2. PICK p : p = [k \in DOMAIN Rows |-> Rows[k].race_points]
    OBVIOUS
  <2>3. \A k \in 1..Len(Rows) : p[k] = Rows[k].race_points /\ p[k] \in Nat
    BY <2>1, <2>2, TotalRead
  <2>4. \A k \in 1..(Len(Rows) - 1) : p[k] >= p[k + 1]
    <3>1. \A k \in 1..(Len(Rows) - 1) : Rows[k].race_points >= Rows[k + 1].race_points
      BY DEF Accepted, validate, NonIncreasing, Rows
    <3>2. \A k \in 1..(Len(Rows) - 1) : k \in 1..Len(Rows) /\ k + 1 \in 1..Len(Rows)
      BY <2>1
    <3> QED  BY <2>3, <3>1, <3>2
  <2>5. /\ i \in 1..Len(Rows) /\ j \in 1..Len(Rows) /\ n \in 1..Len(Rows)
        /\ (i = n \/ i < n) /\ (n = j \/ n < j)
    BY <2>1
  <2>6. p[i] >= p[n] /\ p[n] >= p[j]
    <3>1. i < n => p[i] >= p[n]
      BY <2>1, <2>3, <2>4, <2>5, PointsFall
    <3>2. n < j => p[n] >= p[j]
      BY <2>1, <2>3, <2>4, <2>5, PointsFall
    <3>3. p[i] \in Nat /\ p[n] \in Nat /\ p[j] \in Nat
      BY <2>3, <2>5
    <3> QED  BY <2>5, <3>1, <3>2, <3>3
  <2>7. p[i] = Table[i].total /\ p[j] = Table[j].total
    BY <2>3, <2>5, RowRight
  <2>8. p[i] \in Nat /\ p[n] \in Nat /\ p[j] \in Nat /\ p[n] = Rows[n].race_points
    BY <2>3, <2>5
  <2> QED  BY <2>6, <2>7, <2>8
<1> QED  BY <1>1, Invariance, PTL

\* A player whose qualification is announced stays in the published table, and
\* at another rank only where an edited row names him, his own being edited or
\* gone (source.rs, the qualifiers and the uniqueness of players in validate).
THEOREM AnnouncedArePublished == Spec => []AnnouncedStayPublished
<1>1. IInv => AnnouncedStayPublished
  <2> SUFFICES ASSUME IInv, Accepted, NEW i \in DOMAIN Table,
                      Table[i].player \in parse_qualifiers(article.announcements, article.markers)
               PROVE  \E n \in DOMAIN Rows :
                         /\ Rows[n].player_code = Table[i].player
                         /\ n # i => \A chunk \in ToSet(table_at(article.chunks)) :
                                        Untouched(chunk) => chunk # Read(n) /\ chunk.of # i
    BY DEF AnnouncedStayPublished
  <2>1. /\ parse_qualifiers(article.announcements, article.markers)
              \subseteq {Rows[k].player_code : k \in DOMAIN Rows}
        /\ \A k, l \in DOMAIN Rows : Rows[k].player_code = Rows[l].player_code => k = l
    BY DEF Accepted, validate, NoPlayerTwice, Rows
  <2>2. PICK n \in DOMAIN Rows : Rows[n].player_code = Table[i].player
    BY <2>1
  <2>3. ASSUME n # i, NEW chunk \in ToSet(table_at(article.chunks)), Untouched(chunk)
        PROVE  chunk # Read(n) /\ chunk.of # i
    <3>1. chunk # Read(n)
      <4> SUFFICES ASSUME chunk = Read(n) PROVE FALSE
        OBVIOUS
      <4>1. n \in DOMAIN Table /\ Rows[n].player_code = Table[n].player
        BY <2>3, RowRight
      <4> QED  BY <2>2, <2>3, <4>1, TableAssumption
    <3>2. chunk.of # i
      <4> SUFFICES ASSUME chunk.of = i PROVE FALSE
        OBVIOUS
      <4>1. i \in DOMAIN Rows /\ Read(i) = chunk
        BY <2>3, RowFound
      <4>2. Rows[i].player_code = Table[i].player
        BY <2>3, <4>1, RowRight
      <4> QED  BY <2>1, <2>2, <2>3, <4>1, <4>2
    <3> QED  BY <3>1, <3>2
  <2> QED  BY <2>2, <2>3
<1> QED  BY <1>1, Invariance, PTL

------------------------------------------------------------------------------
(* Lists of lists.                                                         *)

\* The recursion of FlattenSeq.
Flattens(flat, seqs) ==
    /\ flat[0] = <<>>
    /\ \A i \in 1..Len(seqs) : flat[i] = flat[i - 1] \o seqs[i]

\* It has a solution, of which FlattenSeq is the last value.
LEMMA FlattenUnfolds ==
    ASSUME NEW S, NEW seqs \in Seq(Seq(S))
    PROVE  \E flat : /\ Flattens(flat, seqs)
                     /\ FlattenSeq(seqs) = flat[Len(seqs)]
                     /\ \A i \in 0..Len(seqs) : flat[i] \in Seq(S)
<1> DEFINE Step(f, i) == IF i = 1 THEN seqs[i] ELSE f[i - 1] \o seqs[i]
           Good == {n \in Nat : \E f : f = [i \in 1..n |-> Step(f, i)]}
<1>0. /\ Len(seqs) \in Nat
      /\ \A i \in 1..Len(seqs) : seqs[i] \in Seq(S)
  OBVIOUS
<1>1. 0 \in Good
  <2> DEFINE f == [i \in 1..0 |-> <<>>]
  <2>1. f = [i \in 1..0 |-> Step(f, i)]
    OBVIOUS
  <2> QED  BY <2>1
<1>2. ASSUME NEW n \in Nat, n \in Good
      PROVE  n + 1 \in Good
  <2>1. PICK f : f = [i \in 1..n |-> Step(f, i)]
    BY <1>2
  <2> DEFINE g == [i \in 1..(n + 1) |-> IF i = n + 1 THEN Step(f, n + 1) ELSE f[i]]
  <2>2. ASSUME NEW i \in 1..(n + 1)
        PROVE  g[i] = Step(g, i)
    <3>0. i # 1 => i - 1 \in 1..n /\ g[i - 1] = f[i - 1]
      OBVIOUS
    <3>1. CASE i = n + 1
      <4>1. g[i] = Step(f, i)
        BY <3>1
      <4> QED  BY <3>0, <4>1
    <3>2. CASE i \in 1..n
      <4>1. f[i] = Step(f, i) /\ g[i] = f[i]
        BY <2>1, <3>2
      <4> QED  BY <3>0, <4>1
    <3> QED  BY <3>1, <3>2
  <2>3. g = [i \in 1..(n + 1) |-> Step(g, i)]
    BY <2>2
  <2>4. \E h : h = [i \in 1..(n + 1) |-> Step(h, i)]
    <3> HIDE DEF g
    <3> QED  BY <2>3, Zenon
  <2>5. n + 1 \in Nat
    OBVIOUS
  <2> QED  BY <2>4, <2>5, Zenon
<1>3. Len(seqs) \in Good
  <2> HIDE DEF Good
  <2> QED  BY <1>0, <1>1, <1>2, NaturalInduction
<1>4. PICK f : f = [i \in 1..Len(seqs) |-> Step(f, i)]
  BY <1>0, <1>3
<1> DEFINE solution == CHOOSE flatten : flatten = [i \in 1..Len(seqs) |->
                                     IF i = 1 THEN seqs[i] ELSE flatten[i - 1] \o seqs[i]]
<1>5. solution = [i \in 1..Len(seqs) |-> Step(solution, i)]
  BY <1>4
<1>6. FlattenSeq(seqs) = IF Len(seqs) = 0 THEN seqs ELSE solution[Len(seqs)]
  BY DEF FlattenSeq
<1> HIDE DEF solution
<1>7. PICK k : /\ k = [i \in 1..Len(seqs) |-> Step(k, i)]
               /\ FlattenSeq(seqs) = IF Len(seqs) = 0 THEN seqs ELSE k[Len(seqs)]
  BY <1>5, <1>6
<1>8. PICK flat : flat = [i \in 0..Len(seqs) |-> IF i = 0 THEN <<>> ELSE k[i]]
  OBVIOUS
<1>9. ASSUME NEW i \in 1..Len(seqs)
      PROVE  flat[i] = flat[i - 1] \o seqs[i]
  <2>0. i \in 0..Len(seqs) /\ i # 0
    BY <1>0
  <2>1. flat[i] = k[i] /\ k[i] = Step(k, i)
    <3>1. flat[i] = k[i]
      BY <1>8, <2>0
    <3>2. k = [j \in 1..Len(seqs) |-> Step(k, j)]
      BY <1>7
    <3>3. k[i] = Step(k, i)
      BY <3>2
    <3> QED  BY <3>1, <3>3
  <2>2. CASE i = 1
    <3>1. flat[i - 1] = <<>> /\ <<>> \o seqs[i] = seqs[i]
      BY <1>0, <1>8, <2>2
    <3> QED  BY <2>1, <2>2, <3>1
  <2>3. CASE i # 1
    <3>1. flat[i - 1] = k[i - 1]
      BY <1>0, <1>8, <2>3
    <3> QED  BY <2>1, <2>3, <3>1
  <2> QED  BY <2>2, <2>3
<1>10. flat[0] = <<>>
  BY <1>0, <1>8
<1>11. Flattens(flat, seqs)
  BY <1>9, <1>10 DEF Flattens
<1>12. FlattenSeq(seqs) = flat[Len(seqs)]
  <2>1. Len(seqs) = 0 => seqs = <<>>
    OBVIOUS
  <2> QED  BY <1>0, <1>7, <1>8, <2>1
<1>13. \A i \in 0..Len(seqs) : flat[i] \in Seq(S)
  <2> DEFINE Typed == {i \in Nat : i <= Len(seqs) => flat[i] \in Seq(S)}
  <2>1. 0 \in Typed
    <3>1. <<>> \in Seq(S)
      OBVIOUS
    <3> QED  BY <1>10, <3>1
  <2>2. ASSUME NEW i \in Nat, i \in Typed
        PROVE  i + 1 \in Typed
    <3> SUFFICES ASSUME i + 1 <= Len(seqs) PROVE flat[i + 1] \in Seq(S)
      OBVIOUS
    <3>1. i + 1 \in 1..Len(seqs) /\ (i + 1) - 1 = i /\ i <= Len(seqs)
      BY <1>0
    <3>2. flat[i] \in Seq(S) /\ seqs[i + 1] \in Seq(S) /\ flat[i + 1] = flat[i] \o seqs[i + 1]
      BY <1>0, <1>9, <2>2, <3>1
    <3> QED  BY ONLY <3>2
  <2> HIDE DEF Typed
  <2>3. Nat \subseteq Typed
    BY <2>1, <2>2, NaturalInduction
  <2> QED  BY <1>0, <2>3 DEF Typed
<1> QED  BY <1>11, <1>12, <1>13

\* Lists that agree on a prefix flatten alike there.
LEMMA FlattenSame ==
    ASSUME NEW seqs, NEW others, NEW flat, NEW flat2, Flattens(flat, seqs), Flattens(flat2, others),
           NEW n \in Nat, Len(seqs) \in Nat, Len(others) \in Nat, n <= Len(seqs), n <= Len(others),
           \A i \in 1..n : seqs[i] = others[i]
    PROVE  flat[n] = flat2[n]
<1> DEFINE Good == {i \in Nat : i <= n => flat[i] = flat2[i]}
<1>1. 0 \in Good
  BY DEF Flattens
<1>2. ASSUME NEW i \in Nat, i \in Good
      PROVE  i + 1 \in Good
  <2> SUFFICES ASSUME i + 1 <= n PROVE flat[i + 1] = flat2[i + 1]
    OBVIOUS
  <2>1. /\ i + 1 \in 1..n /\ i + 1 \in 1..Len(seqs) /\ i + 1 \in 1..Len(others)
        /\ (i + 1) - 1 = i /\ i <= n
    OBVIOUS
  <2> QED  BY <1>2, <2>1 DEF Flattens
<1> HIDE DEF Good
<1>3. Nat \subseteq Good
  BY <1>1, <1>2, NaturalInduction
<1> QED  BY <1>3 DEF Good

\* Another element at the end of the last list.
Extended(seqs, r) == [seqs EXCEPT ![Len(seqs)] = Append(@, r)]

\* Another list behind; another element at the end of the last list.
Grows(S, seqs, s, r) ==
    /\ FlattenSeq(seqs) \in Seq(S)
    /\ FlattenSeq(Append(seqs, s)) = FlattenSeq(seqs) \o s
    /\ seqs # <<>> => FlattenSeq(Extended(seqs, r)) = Append(FlattenSeq(seqs), r)

\* Lists laid end to end are typed, and grow as their last list does.
LEMMA FlattenGrows ==
    ASSUME NEW S, NEW seqs \in Seq(Seq(S)), NEW s \in Seq(S), NEW r \in S
    PROVE  Grows(S, seqs, s, r)
<1>1. PICK flat : /\ Flattens(flat, seqs)
                  /\ FlattenSeq(seqs) = flat[Len(seqs)]
                  /\ \A i \in 0..Len(seqs) : flat[i] \in Seq(S)
  BY FlattenUnfolds
<1>2. PICK n \in Nat : n = Len(seqs)
  OBVIOUS
<1>3. FlattenSeq(seqs) \in Seq(S)
  BY <1>1, <1>2
<1>4. PICK longer : longer = Append(seqs, s)
  OBVIOUS
<1>5. /\ longer \in Seq(Seq(S)) /\ Len(longer) = n + 1 /\ longer[n + 1] = s
      /\ \A i \in 1..n : longer[i] = seqs[i]
  BY <1>2, <1>4
<1>6. FlattenSeq(longer) = FlattenSeq(seqs) \o s
  <2>1. PICK flat2 : Flattens(flat2, longer) /\ FlattenSeq(longer) = flat2[Len(longer)]
    BY <1>5, FlattenUnfolds
  <2>2. flat2[n] = flat[n]
    <3>1. /\ Len(longer) \in Nat /\ n <= Len(longer) /\ Len(seqs) \in Nat /\ n <= Len(seqs)
          /\ \A i \in 1..n : longer[i] = seqs[i]
      BY <1>2, <1>5
    <3> QED  BY <1>1, <2>1, <3>1, FlattenSame
  <2>3. n + 1 \in 1..Len(longer) /\ (n + 1) - 1 = n
    BY <1>5
  <2>4. flat2[n + 1] = flat2[n] \o longer[n + 1]
    BY <2>1, <2>3 DEF Flattens
  <2> QED  BY <1>1, <1>2, <1>5, <2>1, <2>2, <2>4
<1>7. ASSUME seqs # <<>>
      PROVE  FlattenSeq(Extended(seqs, r)) = Append(FlattenSeq(seqs), r)
  <2>1. n - 1 \in Nat /\ n \in 1..Len(seqs) /\ seqs[n] \in Seq(S) /\ Append(seqs[n], r) \in Seq(S)
    BY <1>2, <1>7
  <2>2. PICK grown : grown = Extended(seqs, r)
    OBVIOUS
  <2>3. grown \in Seq(Seq(S))
    BY <1>2, <2>1, <2>2 DEF Extended
  <2>4. /\ Len(grown) = n /\ grown[n] = Append(seqs[n], r)
        /\ \A i \in 1..(n - 1) : grown[i] = seqs[i]
    BY <1>2, <2>1, <2>2 DEF Extended
  <2>5. PICK flat2 : Flattens(flat2, grown) /\ FlattenSeq(grown) = flat2[Len(grown)]
    BY <2>3, FlattenUnfolds
  <2>6. flat2[n - 1] = flat[n - 1]
    <3>1. /\ Len(grown) \in Nat /\ n - 1 <= Len(grown) /\ Len(seqs) \in Nat /\ n - 1 <= Len(seqs)
          /\ \A i \in 1..(n - 1) : grown[i] = seqs[i]
      BY <1>2, <2>4
    <3>2. n - 1 \in Nat
      BY <2>1
    <3> QED  BY <1>1, <2>5, <3>1, <3>2, FlattenSame
  <2>7. flat2[n] = flat2[n - 1] \o grown[n] /\ flat[n] = flat[n - 1] \o seqs[n]
    BY <1>1, <1>2, <2>1, <2>4, <2>5 DEF Flattens
  <2>8. flat[n - 1] \in Seq(S)
    BY <1>1, <1>2, <2>1
  <2>9. \A a, b \in Seq(S) : a \o Append(b, r) = Append(a \o b, r)
    OBVIOUS
  <2>10. FlattenSeq(grown) = Append(FlattenSeq(seqs), r)
    BY <1>1, <1>2, <2>1, <2>4, <2>5, <2>6, <2>7, <2>8, <2>9
  <2> QED  BY <2>2, <2>10
<1> QED  BY <1>3, <1>4, <1>6, <1>7 DEF Grows

------------------------------------------------------------------------------
(* The header's columns.                                                   *)

Header == Seq([slot : Slot, span : Nat])

\* The last column of the g-th block.
End(groups, g) == Total([h \in 1..g |-> groups[h].span])

\* Blocks stand behind each other.
LEMMA EndsGrow ==
    ASSUME NEW groups \in Header
    PROVE  /\ End(groups, 0) = 0
           /\ \A g \in 0..Len(groups) : End(groups, g) \in Nat
           /\ \A g \in 1..Len(groups) : End(groups, g) = End(groups, g - 1) + groups[g].span
           /\ \A g, h \in 0..Len(groups) : g <= h => End(groups, g) <= End(groups, h)
<1> DEFINE Widths(g) == [h \in 1..g |-> groups[h].span]
<1>0. Len(groups) \in Nat /\ \A g \in 1..Len(groups) : groups[g].span \in Nat
  <2>1. groups \in Seq([slot : Slot, span : Nat]) /\ DOMAIN groups = 1..Len(groups)
    BY DEF Header
  <2>2. \A g \in DOMAIN groups : groups[g] \in [slot : Slot, span : Nat]
    BY <2>1, ElementTyped
  <2> QED  BY <2>1, <2>2
<1>1. End(groups, 0) = 0
  <2>1. Widths(0) = <<>>
    OBVIOUS
  <2> QED  BY <2>1, TotalEmpty DEF End
<1>2. \A g \in 0..Len(groups) : Widths(g) \in Seq(Nat)
  BY <1>0
<1>3. \A g \in 0..Len(groups) : End(groups, g) \in Nat
  BY <1>2, TotalAppend DEF End
<1>4. ASSUME NEW g \in 1..Len(groups)
      PROVE  End(groups, g) = End(groups, g - 1) + groups[g].span
  <2>1. g - 1 \in 0..Len(groups) /\ groups[g].span \in Nat
    BY <1>0
  <2>2. Widths(g) = Append(Widths(g - 1), groups[g].span)
    BY <1>0
  <2>3. Widths(g - 1) \in Seq(Nat)
    BY <1>2, <2>1
  <2>4. Total(Append(Widths(g - 1), groups[g].span)) = Total(Widths(g - 1)) + groups[g].span
    <3> HIDE DEF Widths
    <3> QED  BY <2>1, <2>3, TotalAppend
  <2> QED  BY <2>2, <2>4 DEF End
<1>5. ASSUME NEW g \in 0..Len(groups), NEW h \in 0..Len(groups), g <= h
      PROVE  End(groups, g) <= End(groups, h)
  <2> DEFINE Good == {d \in Nat : g + d <= Len(groups) => End(groups, g) <= End(groups, g + d)}
  <2>1. 0 \in Good
    BY <1>3
  <2>2. ASSUME NEW d \in Nat, d \in Good
        PROVE  d + 1 \in Good
    <3> SUFFICES ASSUME g + (d + 1) <= Len(groups)
                 PROVE  End(groups, g) <= End(groups, g + (d + 1))
      OBVIOUS
    <3>1. PICK e : e = g + (d + 1)
      OBVIOUS
    <3>2. e \in 1..Len(groups) /\ e - 1 = g + d /\ e - 1 \in 0..Len(groups) /\ e \in 0..Len(groups)
      BY <1>0, <3>1
    <3>3. End(groups, g) <= End(groups, e - 1)
      BY <1>0, <2>2, <3>2
    <3>4. End(groups, e) = End(groups, e - 1) + groups[e].span /\ groups[e].span \in Nat
      BY <1>0, <1>4, <3>2
    <3>5. End(groups, g) \in Nat /\ End(groups, e - 1) \in Nat /\ End(groups, e) \in Nat
      BY <1>3, <3>2
    <3> QED  BY <3>1, <3>3, <3>4, <3>5
  <2> HIDE DEF Good
  <2>3. Nat \subseteq Good
    BY <2>1, <2>2, NaturalInduction
  <2>4. h - g \in Nat /\ g + (h - g) = h /\ h <= Len(groups)
    BY <1>0, <1>5
  <2>5. h - g \in Good
    BY <2>3, <2>4
  <2> QED  BY <2>4, <2>5 DEF Good
<1> QED  BY <1>1, <1>3, <1>4, <1>5

\* A column has the slot of the block it stands in.
LEMMA ColumnsLaidOut ==
    ASSUME NEW groups \in Header
    PROVE  /\ Columns(groups) \in Seq(Slot)
           /\ Len(Columns(groups)) = End(groups, Len(groups))
           /\ \A c \in DOMAIN Columns(groups) : \E g \in DOMAIN groups :
                 /\ End(groups, g - 1) < c /\ c <= End(groups, g)
                 /\ Columns(groups)[c] = groups[g].slot
<1> DEFINE Block(g) == [k \in 1..groups[g].span |-> groups[g].slot]
<1>0. /\ Len(groups) \in Nat /\ DOMAIN groups = 1..Len(groups)
      /\ \A g \in 1..Len(groups) : groups[g].span \in Nat /\ groups[g].slot \in Slot
  <2>1. groups \in Seq([slot : Slot, span : Nat]) /\ DOMAIN groups = 1..Len(groups)
    BY DEF Header
  <2>2. \A g \in DOMAIN groups : groups[g] \in [slot : Slot, span : Nat]
    BY <2>1, ElementTyped
  <2> QED  BY <2>1, <2>2
<1>1. PICK seqs : seqs = [g \in DOMAIN groups |-> Block(g)]
  OBVIOUS
<1>2. \A g \in 1..Len(groups) : /\ Block(g) \in Seq(Slot)
                                /\ Len(Block(g)) = groups[g].span
                                /\ \A k \in 1..groups[g].span : Block(g)[k] = groups[g].slot
  BY <1>0
<1>3. seqs \in Seq(Seq(Slot)) /\ Len(seqs) = Len(groups) /\ \A g \in 1..Len(groups) : seqs[g] = Block(g)
  <2> HIDE DEF Block
  <2> QED  BY <1>0, <1>1, <1>2
<1>4. PICK flat : /\ Flattens(flat, seqs)
                  /\ FlattenSeq(seqs) = flat[Len(seqs)]
                  /\ \A i \in 0..Len(seqs) : flat[i] \in Seq(Slot)
  BY <1>3, FlattenUnfolds
<1>5. Columns(groups) = flat[Len(groups)]
  BY <1>1, <1>3, <1>4 DEF Columns
<1> HIDE DEF Block
<1> DEFINE Laid(n) == /\ Len(flat[n]) = End(groups, n)
                      /\ \A c \in 1..End(groups, n) : \E g \in 1..n :
                            /\ End(groups, g - 1) < c /\ c <= End(groups, g)
                            /\ flat[n][c] = groups[g].slot
           Good == {n \in Nat : n <= Len(groups) => Laid(n)}
<1>6. 0 \in Good
  <2>1. flat[0] = <<>> /\ Len(flat[0]) = 0
    BY <1>4 DEF Flattens
  <2>2. End(groups, 0) = 0
    BY EndsGrow
  <2> QED  BY <2>1, <2>2
<1>7. ASSUME NEW n \in Nat, n \in Good
      PROVE  n + 1 \in Good
  <2> HIDE DEF Laid
  <2> SUFFICES ASSUME n + 1 <= Len(groups)
               PROVE  Laid(n + 1)
    OBVIOUS
  <2>1. PICK m : m = n + 1
    OBVIOUS
  <2>2. m \in 1..Len(groups) /\ m - 1 = n /\ n \in 0..Len(groups) /\ m \in 0..Len(groups) /\ n <= Len(groups)
    BY <1>0, <2>1
  <2>3. Laid(n)
    BY <1>7, <2>2
  <2>4. /\ End(groups, n) \in Nat /\ End(groups, m) \in Nat /\ groups[m].span \in Nat
        /\ End(groups, m) = End(groups, n) + groups[m].span
    BY <1>0, <2>2, EndsGrow
  <2>5. PICK b : b = Block(m)
    OBVIOUS
  <2>6. /\ b \in Seq(Slot) /\ Len(b) = groups[m].span /\ DOMAIN b = 1..Len(b)
        /\ \A k \in 1..groups[m].span : b[k] = groups[m].slot
    BY <1>2, <2>2, <2>5
  <2>7. PICK a \in Seq(Slot) : a = flat[n]
    BY <1>3, <1>4, <2>2
  <2>8. PICK t : t = flat[m]
    OBVIOUS
  <2>9. t = a \o b
    BY <1>3, <1>4, <2>2, <2>5, <2>7, <2>8 DEF Flattens
  <2>10. /\ Len(t) = Len(a) + Len(b) /\ DOMAIN a = 1..Len(a)
         /\ \A k \in DOMAIN a : t[k] = a[k]
         /\ \A k \in DOMAIN b : t[Len(a) + k] = b[k]
    <3>1. b \in Seq(Slot)
      BY <2>6
    <3> QED  BY ONLY <2>7, <2>9, <3>1
  <2>11. Len(a) = End(groups, n)
    BY <2>3, <2>7 DEF Laid
  <2>12. Len(t) = End(groups, m)
    BY <2>4, <2>6, <2>10, <2>11
  <2>13. ASSUME NEW c \in 1..End(groups, m)
         PROVE  \E g \in 1..m : /\ End(groups, g - 1) < c /\ c <= End(groups, g)
                                /\ t[c] = groups[g].slot
    <3>1. CASE c <= End(groups, n)
      <4>1. c \in 1..End(groups, n) /\ c \in DOMAIN a
        BY <2>4, <2>10, <2>11, <2>13, <3>1
      <4>2. PICK g \in 1..n : /\ End(groups, g - 1) < c /\ c <= End(groups, g)
                              /\ flat[n][c] = groups[g].slot
        BY <2>3, <4>1 DEF Laid
      <4>3. g \in 1..m
        BY <2>1, <2>2
      <4>4. t[c] = groups[g].slot
        BY <2>7, <2>10, <4>1, <4>2
      <4> QED  BY <4>2, <4>3, <4>4
    <3>2. CASE ~(c <= End(groups, n))
      <4>0. c \in Int /\ c > End(groups, n) /\ c <= End(groups, m)
        BY <2>4, <3>2
      <4>1. PICK k \in Int : k = c - End(groups, n)
        BY <2>4, <4>0
      <4>2. k \in 1..groups[m].span /\ End(groups, n) + k = c
        BY <2>4, <4>0, <4>1
      <4>3. t[c] = groups[m].slot
        <5>1. k \in DOMAIN b /\ Len(a) + k = c
          BY <2>6, <2>11, <4>2
        <5> QED  BY <2>6, <2>10, <4>2, <5>1
      <4>4. End(groups, m - 1) < c /\ c <= End(groups, m) /\ m \in 1..m
        BY <2>2, <2>4, <3>2
      <4> QED  BY <4>3, <4>4
    <3> QED  BY <3>1, <3>2
  <2>14. Laid(m)
    BY <2>8, <2>12, <2>13 DEF Laid
  <2> QED  BY <2>1, <2>14
<1> HIDE DEF Good
<1>8. Nat \subseteq Good
  BY <1>6, <1>7, NaturalInduction
<1>9. Laid(Len(groups))
  BY <1>0, <1>8 DEF Good
<1>10. flat[Len(groups)] \in Seq(Slot)
  BY <1>0, <1>3, <1>4
<1>11. DOMAIN flat[Len(groups)] = 1..End(groups, Len(groups))
  BY <1>9, <1>10
<1> QED  BY <1>0, <1>5, <1>9, <1>10, <1>11

\* The header, whole or short of a block, declares each slot by one block.
LEMMA HeaderTyped ==
    ASSUME BlocksRemain
    PROVE  /\ article.groups \in Header /\ Blocks \in Header
           /\ \A g, h \in DOMAIN article.groups :
                 article.groups[g].slot = article.groups[h].slot => g = h
           /\ LostBlocks = 0 => article.groups = Blocks
           /\ LostBlocks \in Nat
<1> DEFINE B == [slot : Slot, span : Nat]
<1>1. Blocks \in Seq(B) /\ DOMAIN Blocks = 1..Len(Blocks) /\ Len(Blocks) \in Nat
  BY BlocksAssumption
<1>2. CASE article.groups = Blocks
  <2>1. LostBlocks \in Nat
    BY <1>1, <1>2 DEF LostBlocks
  <2> QED  BY <1>1, <1>2, <2>1, BlocksAssumption DEF Header
<1>3. ASSUME NEW g \in DOMAIN Blocks, article.groups = RemoveAt(Blocks, g)
      PROVE  /\ article.groups \in Header
             /\ \A h, l \in DOMAIN article.groups :
                   article.groups[h].slot = article.groups[l].slot => h = l
             /\ LostBlocks # 0 /\ LostBlocks \in Nat
  <2>1. PICK less : less = RemoveAt(Blocks, g)
    OBVIOUS
  <2>2. /\ less \in Seq(B) /\ Len(less) = Len(Blocks) - 1
        /\ \A k \in DOMAIN less : less[k] = IF k < g THEN Blocks[k] ELSE Blocks[k + 1]
    <3> HIDE DEF B
    <3> QED  BY <1>1, <2>1, Removed
  <2>3. DOMAIN less = 1..(Len(Blocks) - 1)
    BY <2>2
  <2>4. \A k \in DOMAIN less : k \in DOMAIN Blocks /\ k + 1 \in DOMAIN Blocks /\ k \in Nat
    BY <1>1, <2>3
  <2>5. ASSUME NEW h \in DOMAIN less, NEW l \in DOMAIN less, less[h].slot = less[l].slot
        PROVE  h = l
    <3>1. PICK x \in DOMAIN Blocks : less[h] = Blocks[x] /\ x = IF h < g THEN h ELSE h + 1
      BY <2>2, <2>4
    <3>2. PICK y \in DOMAIN Blocks : less[l] = Blocks[y] /\ y = IF l < g THEN l ELSE l + 1
      BY <2>2, <2>4
    <3>3. x = y
      BY <2>5, <3>1, <3>2, BlocksAssumption
    <3>4. h \in Nat /\ l \in Nat /\ g \in Nat
      BY <1>1, <2>4
    <3> QED  BY <3>1, <3>2, <3>3, <3>4
  <2>6. LostBlocks # 0 /\ LostBlocks \in Nat
    BY <1>1, <1>3, <2>1, <2>2 DEF LostBlocks
  <2> QED  BY <1>3, <2>1, <2>2, <2>5, <2>6 DEF Header
<1> QED  BY <1>1, <1>2, <1>3 DEF BlocksRemain, Header

\* The columns of a slot stand together.
LEMMA SlotsInRuns ==
    ASSUME NEW groups \in Header,
           \A g, h \in DOMAIN groups : groups[g].slot = groups[h].slot => g = h,
           NEW a \in DOMAIN Columns(groups), NEW b \in DOMAIN Columns(groups),
           NEW c \in DOMAIN Columns(groups), a <= b, b <= c,
           Columns(groups)[a] = Columns(groups)[c]
    PROVE  Columns(groups)[b] = Columns(groups)[a]
<1>1. PICK g \in DOMAIN groups : End(groups, g - 1) < a /\ a <= End(groups, g) /\ Columns(groups)[a] = groups[g].slot
  BY ColumnsLaidOut
<1>2. PICK h \in DOMAIN groups : End(groups, h - 1) < b /\ b <= End(groups, h) /\ Columns(groups)[b] = groups[h].slot
  BY ColumnsLaidOut
<1>3. PICK l \in DOMAIN groups : End(groups, l - 1) < c /\ c <= End(groups, l) /\ Columns(groups)[c] = groups[l].slot
  BY ColumnsLaidOut
<1>4. l = g
  BY <1>1, <1>3
<1>5. /\ Len(groups) \in Nat /\ DOMAIN groups = 1..Len(groups)
      /\ g \in 0..Len(groups) /\ h \in 0..Len(groups) /\ g - 1 \in 0..Len(groups) /\ h - 1 \in 0..Len(groups)
  BY DEF Header
<1>6. a \in Nat /\ b \in Nat /\ c \in Nat
  <2>1. Columns(groups) \in Seq(Slot)
    BY ColumnsLaidOut
  <2> QED  BY <2>1
<1>7. /\ End(groups, g - 1) \in Nat /\ End(groups, h - 1) \in Nat
      /\ End(groups, g) \in Nat /\ End(groups, h) \in Nat
      /\ g <= h - 1 => End(groups, g) <= End(groups, h - 1)
      /\ h <= g - 1 => End(groups, h) <= End(groups, g - 1)
  BY <1>5, EndsGrow
<1>8. ~(g <= h - 1)
  <2>1. End(groups, h - 1) < End(groups, g)
    BY <1>2, <1>3, <1>4, <1>6, <1>7
  <2> QED  BY <1>7, <2>1
<1>9. ~(h <= g - 1)
  <2>1. End(groups, g - 1) < End(groups, h)
    BY <1>1, <1>2, <1>6, <1>7
  <2> QED  BY <1>7, <2>1
<1>10. h = g
  BY <1>5, <1>8, <1>9
<1> QED  BY <1>1, <1>2, <1>10

\* The slot a column has is the slot it is meant to have.
LEMMA ColumnsMeant ==
    ASSUME NEW c \in DOMAIN Columns(Blocks)
    PROVE  SlotOf(c) = Columns(Blocks)[c]
<1>0. Blocks \in Header
  BY BlocksAssumption DEF Header
<1>1. PICK g \in DOMAIN Blocks :
         End(Blocks, g - 1) < c /\ c <= End(Blocks, g) /\ Columns(Blocks)[c] = Blocks[g].slot
  BY <1>0, ColumnsLaidOut
<1>2. /\ Len(Blocks) \in Nat /\ DOMAIN Blocks = 1..Len(Blocks)
      /\ g \in 0..Len(Blocks) /\ g - 1 \in 0..Len(Blocks) /\ g \in Nat
  BY <1>0 DEF Header
<1>3. c \in Nat
  <2>1. Columns(Blocks) \in Seq(Slot)
    BY <1>0, ColumnsLaidOut
  <2> QED  BY <2>1
<1> DEFINE ends == {h \in DOMAIN Blocks : c <= End(Blocks, h)}
<1>4. SlotOf(c) = Blocks[Min(ends)].slot
  BY DEF SlotOf, End
<1>5. g \in ends /\ ends \subseteq Nat /\ ends \subseteq DOMAIN Blocks
  BY <1>1, <1>2
<1>6. Min(ends) \in ends /\ \A h \in ends : Min(ends) <= h
  <2> HIDE DEF ends
  <2> QED  BY <1>5, MinTyped
<1>7. PICK m \in ends : m = Min(ends) /\ m <= g
  BY <1>5, <1>6
<1>8. ~(m <= g - 1)
  <2>1. m \in 0..Len(Blocks) /\ c <= End(Blocks, m)
    BY <1>2, <1>5, <1>7
  <2>2. /\ m <= g - 1 => End(Blocks, m) <= End(Blocks, g - 1)
        /\ End(Blocks, m) \in Nat /\ End(Blocks, g - 1) \in Nat
    BY <1>0, <1>2, <2>1, EndsGrow
  <2> QED  BY <1>1, <1>3, <2>1, <2>2
<1>9. m = g
  BY <1>2, <1>5, <1>7, <1>8
<1> QED  BY <1>1, <1>4, <1>7, <1>9

------------------------------------------------------------------------------
(* The ledger.                                                             *)

ResultType == [slot : Slot, played : Text, event : Title \cup {NoLink}, points : Nat]

\* The cells of the ledger, before the unused ones are left out.
Entries(cells, at, groups) ==
    [k \in 1..Min({Len(Columns(groups)), Len(cells) - at}) |->
        parse_result_cell(cells[at + k], Columns(groups)[k])]

\* An unused column of the last block is not an entry.
Used(entries) == {k \in DOMAIN entries : ~(/\ entries[k].slot = "BestOther"
                                           /\ entries[k].played = "Pending")}

\* An entry has its column's slot, and points only if it is a result.
LEMMA EntriesTyped ==
    ASSUME NEW groups \in Header, NEW cells \in Seq(Cell), NEW at \in DOMAIN cells,
           NEW entries, entries = Entries(cells, at, groups)
    PROVE  /\ entries \in Seq(ResultType)
           /\ Len(entries) \in Nat /\ DOMAIN entries = 1..Len(entries)
           /\ Len(entries) <= Len(Columns(groups)) /\ Len(entries) <= Len(cells) - at
           /\ \/ Len(entries) = Len(Columns(groups)) \/ Len(entries) = Len(cells) - at
           /\ \A k \in DOMAIN entries :
                 /\ k \in DOMAIN Columns(groups) /\ at + k \in DOMAIN cells
                 /\ entries[k] = parse_result_cell(cells[at + k], Columns(groups)[k])
                 /\ entries[k].slot = Columns(groups)[k]
                 /\ entries[k].played # "Result" => entries[k].points = 0
<1>1. /\ at \in Nat /\ at >= 1 /\ Len(cells) - at \in Nat /\ Len(cells) \in Nat
      /\ DOMAIN cells = 1..Len(cells)
  OBVIOUS
<1>2. PICK columns \in Seq(Slot) : columns = Columns(groups)
  BY ColumnsLaidOut
<1>3. Len(columns) \in Nat /\ DOMAIN columns = 1..Len(columns)
  OBVIOUS
<1>4. PICK m : m = Min({Len(columns), Len(cells) - at})
  OBVIOUS
<1>5. /\ m \in Nat /\ m <= Len(columns) /\ m <= Len(cells) - at
      /\ m = Len(columns) \/ m = Len(cells) - at
  BY <1>1, <1>3, <1>4, MinOfTwo
<1>6. entries = [k \in 1..m |-> parse_result_cell(cells[at + k], columns[k])]
  BY <1>2, <1>4 DEF Entries
<1>7. ASSUME NEW k \in 1..m
      PROVE  /\ k \in DOMAIN columns /\ at + k \in DOMAIN cells
             /\ parse_result_cell(cells[at + k], columns[k]) \in ResultType
             /\ parse_result_cell(cells[at + k], columns[k]).slot = columns[k]
             /\ parse_result_cell(cells[at + k], columns[k]).played # "Result" =>
                   parse_result_cell(cells[at + k], columns[k]).points = 0
  <2>0. k \in Nat /\ 1 <= k /\ k <= Len(columns) /\ k <= Len(cells) - at
    <3>1. k \in Nat /\ 1 <= k /\ k <= m /\ m \in Nat
      BY <1>5
    <3>2. PICK w \in Nat : w = Len(columns)
      BY <1>3
    <3>3. PICK d \in Nat : d = Len(cells) - at
      BY <1>1
    <3>4. m <= w /\ m <= d
      BY <1>5, <3>2, <3>3
    <3>5. k <= w /\ k <= d
      BY <3>1, <3>4
    <3> QED  BY <3>1, <3>2, <3>3, <3>5
  <2>1. k \in DOMAIN columns /\ at + k \in DOMAIN cells
    <3>1. k \in 1..Len(columns) /\ at + k \in 1..Len(cells)
      BY <1>1, <1>3, <2>0
    <3> QED  BY <1>1, <1>3, <3>1
  <2>2. PICK cell \in Cell : cell = cells[at + k]
    BY <2>1, ElementTyped
  <2>3. PICK slot \in Slot : slot = columns[k]
    BY <2>1, ElementTyped
  <2>4. /\ parse_result_cell(cell, slot) \in ResultType
        /\ parse_result_cell(cell, slot).slot = slot
        /\ parse_result_cell(cell, slot).played # "Result" =>
              parse_result_cell(cell, slot).points = 0
    BY DEF parse_result_cell, ResultType, Cell, Text
  <2> QED  BY <2>1, <2>2, <2>3, <2>4
<1>8. /\ Len(entries) = m /\ DOMAIN entries = 1..m
      /\ \A k \in 1..m : entries[k] = parse_result_cell(cells[at + k], columns[k])
  <2> DEFINE R(k) == parse_result_cell(cells[at + k], columns[k])
  <2>1. entries = [k \in 1..m |-> R(k)]
    BY <1>6
  <2> HIDE DEF R
  <2>2. /\ Len(entries) = m /\ DOMAIN entries = 1..m
        /\ \A k \in 1..m : entries[k] = R(k)
    BY <1>5, <2>1
  <2> QED  BY <2>2 DEF R
<1>9. entries \in Seq(ResultType)
  <2>1. \A k \in 1..m : entries[k] \in ResultType
    BY <1>7, <1>8
  <2>2. entries = [k \in 1..m |-> entries[k]]
    BY <1>6, <1>8, Zenon
  <2> QED  BY <1>5, <2>1, <2>2
<1> QED  BY <1>2, <1>5, <1>7, <1>8, <1>9

\* The ledger lists the used entries in order, and sums up to all of them.
LEMMA LedgerReads ==
    ASSUME NEW groups \in Header, NEW cells \in Seq(Cell), NEW at \in DOMAIN cells,
           NEW entries, entries = Entries(cells, at, groups),
           NEW results, results = parse_ledger(cells, at, groups)
    PROVE  /\ results \in Seq(ResultType)
           /\ \E places :
                 /\ Enumerates(places, Used(entries)) /\ DOMAIN places = DOMAIN results
                 /\ \A n \in DOMAIN results : /\ places[n] \in DOMAIN entries
                                              /\ results[n] = entries[places[n]]
           /\ Sum(results) = Sum(entries)
<1>1. /\ entries \in Seq(ResultType)
      /\ Len(entries) \in Nat /\ DOMAIN entries = 1..Len(entries)
      /\ \A k \in DOMAIN entries : entries[k].played # "Result" => entries[k].points = 0
  BY EntriesTyped
<1>2. \A k \in DOMAIN entries : entries[k] \in ResultType /\ entries[k].points \in Nat
  <2>1. \A k \in DOMAIN entries : entries[k] \in ResultType
    BY <1>1, ElementTyped
  <2> QED  BY <2>1 DEF ResultType
<1>3. PICK places : places = Filter(Places(entries), Used(entries))
  OBVIOUS
<1>4. results = [n \in DOMAIN places |-> entries[places[n]]]
  BY <1>3 DEF parse_ledger, Entries, Used
<1>5. Enumerates(places, Used(entries))
  <2>1. Enumerates(Places(entries), DOMAIN entries)
    BY <1>1, PlacesEnumerate
  <2>2. Enumerates(places, DOMAIN entries \cap Used(entries))
    BY <1>3, <2>1, FilterEnumerates
  <2>3. DOMAIN entries \cap Used(entries) = Used(entries)
    BY DEF Used
  <2> QED  BY <2>2, <2>3
<1>6. /\ Len(places) \in Nat /\ DOMAIN places = 1..Len(places)
      /\ \A n \in DOMAIN places : places[n] \in DOMAIN entries
  BY <1>5 DEF Enumerates, Members, Used
<1>7. results \in Seq(ResultType) /\ DOMAIN results = DOMAIN places
  BY <1>2, <1>4, <1>6
<1>8. PICK points : points = [k \in DOMAIN entries |-> entries[k].points]
  OBVIOUS
<1>9. points \in Seq(Nat) /\ DOMAIN points = DOMAIN entries
  BY <1>1, <1>2, <1>8
<1>10. \A k \in DOMAIN points : k \notin Used(entries) => points[k] = 0
  <2>1. \A k \in DOMAIN entries : k \notin Used(entries) => entries[k].played # "Result"
    BY DEF Used
  <2> QED  BY <1>1, <1>8, <1>9, <2>1
<1>11. places = Filter(Places(points), Used(entries))
  BY <1>3, <1>9 DEF Places
<1>12. Total([n \in DOMAIN places |-> points[places[n]]]) = Total(points)
  BY <1>9, <1>10, <1>11, TotalFilter
<1>13. [n \in DOMAIN results |-> results[n].points] = [n \in DOMAIN places |-> points[places[n]]]
  BY <1>4, <1>6, <1>7, <1>8
<1>14. Sum(results) = Sum(entries)
  BY <1>8, <1>12, <1>13 DEF Sum
<1> QED  BY <1>4, <1>5, <1>6, <1>7, <1>14

\* In a ledger the results of a slot stand together, and only a result has points.
LEMMA LedgerInRuns ==
    ASSUME NEW groups \in Header,
           \A g, h \in DOMAIN groups : groups[g].slot = groups[h].slot => g = h,
           NEW cells \in Seq(Cell), NEW at \in DOMAIN cells,
           NEW results, results = parse_ledger(cells, at, groups)
    PROVE  /\ results \in Seq(ResultType)
           /\ \A n \in DOMAIN results : results[n].played # "Result" => results[n].points = 0
           /\ \A l, m, n \in DOMAIN results :
                 (l <= m /\ m <= n /\ results[l].slot = results[n].slot)
                    => results[m].slot = results[l].slot
<1>1. PICK entries : entries = Entries(cells, at, groups)
  OBVIOUS
<1>2. /\ results \in Seq(ResultType)
      /\ \E places :
            /\ Enumerates(places, Used(entries)) /\ DOMAIN places = DOMAIN results
            /\ \A n \in DOMAIN results : /\ places[n] \in DOMAIN entries
                                         /\ results[n] = entries[places[n]]
  BY <1>1, LedgerReads
<1>3. PICK places :
         /\ Enumerates(places, Used(entries)) /\ DOMAIN places = DOMAIN results
         /\ \A n \in DOMAIN results : /\ places[n] \in DOMAIN entries
                                      /\ results[n] = entries[places[n]]
  BY <1>2
<1>4. /\ DOMAIN entries = 1..Len(entries) /\ Len(entries) \in Nat
      /\ \A k \in DOMAIN entries :
            /\ k \in DOMAIN Columns(groups)
            /\ entries[k].slot = Columns(groups)[k]
            /\ entries[k].played # "Result" => entries[k].points = 0
  BY <1>1, EntriesTyped
<1>5. ASSUME NEW l \in DOMAIN results, NEW m \in DOMAIN results, NEW n \in DOMAIN results,
             l <= m, m <= n, results[l].slot = results[n].slot
      PROVE  results[m].slot = results[l].slot
  <2>1. /\ places[l] \in DOMAIN entries /\ places[m] \in DOMAIN entries /\ places[n] \in DOMAIN entries
        /\ results[l] = entries[places[l]] /\ results[m] = entries[places[m]]
        /\ results[n] = entries[places[n]]
    BY <1>3
  <2>2. /\ l \in Nat /\ m \in Nat /\ n \in Nat
        /\ places[l] \in Nat /\ places[m] \in Nat /\ places[n] \in Nat
    BY <1>2, <1>4, <2>1
  <2>3. \A i, j \in DOMAIN places : i < j => places[i] < places[j]
    BY <1>3 DEF Enumerates
  <2>4. places[l] <= places[m] /\ places[m] <= places[n]
    <3>1. (l < m => places[l] < places[m]) /\ (m < n => places[m] < places[n])
      BY <1>3, <2>3
    <3>2. (l = m \/ l < m) /\ (m = n \/ m < n)
      BY <1>5, <2>2
    <3> QED  BY <2>2, <3>1, <3>2
  <2>5. Columns(groups)[places[l]] = Columns(groups)[places[n]]
    BY <1>4, <1>5, <2>1
  <2>6. Columns(groups)[places[m]] = Columns(groups)[places[l]]
    BY <1>4, <2>1, <2>4, <2>5, SlotsInRuns
  <2> QED  BY <1>4, <2>1, <2>6
<1> QED  BY <1>2, <1>3, <1>4, <1>5

------------------------------------------------------------------------------
(* The breakdown on the page.                                              *)

\* The recursion of the grouping has a solution, and the grouping is its last
\* value.
LEMMA GroupingUnfolds ==
    ASSUME NEW results, Len(results) \in Nat
    PROVE  \E upto : /\ upto[0] = <<>>
                     /\ \A n \in 1..Len(results) : upto[n] = Grouped(upto[n - 1], results[n])
                     /\ Grouping(results) = upto[Len(results)]
<1> DEFINE Step(f, i) == IF i = 0 THEN <<>> ELSE Grouped(f[i - 1], results[i])
           Good == {n \in Nat : \E f : f = [i \in 0..n |-> Step(f, i)]}
<1>1. 0 \in Good
  <2> DEFINE f == [i \in 0..0 |-> <<>>]
  <2>1. f = [i \in 0..0 |-> Step(f, i)]
    OBVIOUS
  <2> QED  BY <2>1
<1>2. ASSUME NEW n \in Nat, n \in Good
      PROVE  n + 1 \in Good
  <2>1. PICK f : f = [i \in 0..n |-> Step(f, i)]
    BY <1>2
  <2> DEFINE g == [i \in 0..(n + 1) |-> IF i = n + 1 THEN Step(f, n + 1) ELSE f[i]]
  <2>2. ASSUME NEW i \in 0..(n + 1)
        PROVE  g[i] = Step(g, i)
    <3>0. i # 0 => i - 1 \in 0..n /\ g[i - 1] = f[i - 1]
      OBVIOUS
    <3>1. CASE i = n + 1
      <4>1. g[i] = Step(f, i)
        BY <3>1
      <4> QED  BY <3>0, <4>1
    <3>2. CASE i \in 0..n
      <4>1. f[i] = Step(f, i) /\ g[i] = f[i]
        BY <2>1, <3>2
      <4> QED  BY <3>0, <4>1
    <3> QED  BY <3>1, <3>2
  <2>3. g = [i \in 0..(n + 1) |-> Step(g, i)]
    BY <2>2
  <2>4. \E h : h = [i \in 0..(n + 1) |-> Step(h, i)]
    <3> HIDE DEF g
    <3> QED  BY <2>3, Zenon
  <2>5. n + 1 \in Nat
    OBVIOUS
  <2> QED  BY <2>4, <2>5, Zenon
<1>3. Len(results) \in Good
  <2> HIDE DEF Good
  <2> QED  BY <1>1, <1>2, NaturalInduction
<1>4. PICK f : f = [i \in 0..Len(results) |-> Step(f, i)]
  BY <1>3
<1> DEFINE solution == CHOOSE upto : upto = [n \in 0..Len(results) |->
                          IF n = 0 THEN <<>> ELSE Grouped(upto[n - 1], results[n])]
<1>5. solution = [i \in 0..Len(results) |-> Step(solution, i)]
  BY <1>4
<1>6. Grouping(results) = solution[Len(results)]
  BY DEF Grouping
<1> HIDE DEF solution
<1>7. PICK k : k = [i \in 0..Len(results) |-> Step(k, i)] /\ Grouping(results) = k[Len(results)]
  BY <1>5, <1>6
<1>8. k[0] = <<>>
  BY <1>7
<1>9. ASSUME NEW i \in 1..Len(results)
      PROVE  k[i] = Grouped(k[i - 1], results[i])
  <2>1. i \in 0..Len(results) /\ i # 0
    OBVIOUS
  <2>2. k[i] = Step(k, i)
    BY <1>7, <2>1
  <2> QED  BY <2>1, <2>2
<1> QED  BY <1>7, <1>8, <1>9

View    == [played : Text, points : Nat]
Heading == [title : Slot, results : Seq(View)]

\* What stands under the headings, in order.
Listed(groups) == FlattenSeq([g \in DOMAIN groups |-> groups[g].results])

\* The grouping of the first n results: they are listed in order, each under
\* its slot, and no slot has two headings.
GroupsFirst(groups, results, n) ==
    /\ groups \in Seq(Heading)
    /\ Listed(groups) = [k \in 1..n |-> ResultView(results[k])]
    /\ n # 0 => groups # <<>> /\ Last(groups).title = results[n].slot
    /\ \A g \in DOMAIN groups : \E k \in 1..n : groups[g].title = results[k].slot
    /\ \A g, h \in DOMAIN groups : groups[g].title = groups[h].title => g = h

\* A heading gained a result, or a heading was added.
HeadingGained(groups, r, view, grown) ==
    /\ view \in View /\ grown \in Seq(Heading) /\ grown # <<>>
    /\ Listed(groups) \in Seq(View)
    /\ Listed(grown) = Append(Listed(groups), view)
    /\ Last(grown).title = r.slot
    /\ \A g \in DOMAIN groups : grown[g].title = groups[g].title
    /\ \/ /\ groups # <<>> /\ Last(groups).title = r.slot
          /\ DOMAIN grown = DOMAIN groups
       \/ /\ groups # <<>> => Last(groups).title # r.slot
          /\ DOMAIN grown = 1..(Len(groups) + 1)
          /\ grown[Len(groups) + 1].title = r.slot

\* One more ledger entry is listed last, under the heading of its block.
LEMMA HeadingsGrow ==
    ASSUME NEW groups \in Seq(Heading), NEW r \in ResultType
    PROVE  HeadingGained(groups, r, ResultView(r), Grouped(groups, r))
<1> DEFINE view  == ResultView(r)
           grown == Grouped(groups, r)
<1>1. /\ view \in View /\ r.slot \in Slot /\ <<view>> \in Seq(View)
  <2>1. view \in View /\ r.slot \in Slot
    BY DEF ResultType, ResultView, View, Text
  <2> HIDE DEF view
  <2> QED  BY <2>1
<1> HIDE DEF view, grown
<1>2. PICK n \in Nat : n = Len(groups)
  OBVIOUS
<1>3. DOMAIN groups = 1..n /\ \A g \in 1..n : groups[g] \in Heading
  BY <1>2, ElementTyped
<1>4. \A g \in 1..n : groups[g].title \in Slot /\ groups[g].results \in Seq(View)
  BY <1>3 DEF Heading
<1>5. PICK lists : lists = [g \in DOMAIN groups |-> groups[g].results]
  OBVIOUS
<1>6. /\ lists \in Seq(Seq(View)) /\ Len(lists) = n /\ DOMAIN lists = 1..n
      /\ \A g \in 1..n : lists[g] = groups[g].results
  BY <1>2, <1>3, <1>4, <1>5
<1>7. Listed(groups) = FlattenSeq(lists)
  BY <1>5 DEF Listed
<1>8. /\ Listed(groups) \in Seq(View)
      /\ FlattenSeq(Append(lists, <<view>>)) = FlattenSeq(lists) \o <<view>>
      /\ lists # <<>> =>
            FlattenSeq(Extended(lists, view)) = Append(FlattenSeq(lists), view)
  <2>1. PICK one \in Seq(View) : one = <<view>>
    BY <1>1
  <2>2. view \in View /\ lists \in Seq(Seq(View)) /\ one \in Seq(View)
    BY <1>1, <1>6
  <2>3. Grows(View, lists, one, view)
    BY <2>2, FlattenGrows
  <2> QED  BY <1>7, <2>1, <2>3 DEF Grows
<1>9. CASE groups # <<>> /\ Last(groups).title = r.slot
  <2>1. n # 0 /\ n \in 1..n /\ lists # <<>>
    BY <1>2, <1>6, <1>9
  <2>2. PICK heading : heading = [groups[n] EXCEPT !.results = Append(@, view)]
    OBVIOUS
  <2>3. /\ heading \in Heading /\ heading.title = groups[n].title
        /\ heading.results = Append(groups[n].results, view)
    <3>0. PICK old \in Seq(View) : old = groups[n].results
      BY <1>4, <2>1
    <3>1. PICK more \in Seq(View) : more = Append(groups[n].results, view)
      <4>1. view \in View
        BY <1>1
      <4>2. Append(old, view) \in Seq(View)
        BY ONLY <4>1
      <4> QED  BY <3>0, <4>2
    <3>2. groups[n] \in Heading /\ heading = [groups[n] EXCEPT !.results = more]
      BY <1>3, <2>1, <2>2, <3>1
    <3> QED  BY <3>1, <3>2 DEF Heading
  <2>4. grown = [groups EXCEPT ![n] = heading]
    BY <1>2, <1>9, <2>2 DEF Grouped, grown, view
  <2>5. /\ grown \in Seq(Heading) /\ Len(grown) = n /\ DOMAIN grown = 1..n /\ grown # <<>>
        /\ grown[n] = heading /\ \A g \in 1..n : g # n => grown[g] = groups[g]
    BY <1>2, <1>3, <2>1, <2>3, <2>4
  <2>6. \A g \in 1..n : grown[g].title = groups[g].title
    BY <2>3, <2>5
  <2>7. Last(grown).title = r.slot
    BY <1>2, <1>9, <2>3, <2>5 DEF Last
  <2>8. [g \in DOMAIN grown |-> grown[g].results] = Extended(lists, view)
    <3>1. \A g \in 1..n : grown[g].results = IF g = n THEN Append(lists[n], view) ELSE lists[g]
      BY <1>6, <2>1, <2>3, <2>5
    <3> QED  BY <1>6, <2>5, <3>1 DEF Extended
  <2>9. Listed(grown) = Append(Listed(groups), view)
    BY <1>6, <1>7, <1>8, <2>1, <2>8 DEF Listed
  <2>10. HeadingGained(groups, r, view, grown)
    BY <1>1, <1>3, <1>8, <1>9, <2>5, <2>6, <2>7, <2>9 DEF HeadingGained
  <2> QED  BY <2>10 DEF view, grown
<1>10. CASE ~(groups # <<>> /\ Last(groups).title = r.slot)
  <2>1. PICK heading : heading = [title |-> r.slot, results |-> <<view>>]
    OBVIOUS
  <2>2. heading \in Heading /\ heading.title = r.slot /\ heading.results = <<view>>
    BY <1>1, <2>1 DEF Heading
  <2>3. grown = Append(groups, heading)
    BY <1>10, <2>1 DEF Grouped, grown, view
  <2>4. /\ grown \in Seq(Heading) /\ Len(grown) = n + 1 /\ DOMAIN grown = 1..(n + 1) /\ grown # <<>>
        /\ grown[n + 1] = heading /\ \A g \in 1..n : grown[g] = groups[g]
    BY <1>2, <1>3, <2>2, <2>3
  <2>5. Last(grown).title = r.slot
    BY <2>2, <2>4 DEF Last
  <2>6. [g \in DOMAIN grown |-> grown[g].results] = Append(lists, <<view>>)
    <3>0. \A g \in 1..(n + 1) : g = n + 1 \/ (g \in 1..n /\ g # n + 1)
      OBVIOUS
    <3>1. \A g \in 1..(n + 1) : grown[g].results = IF g = n + 1 THEN <<view>> ELSE lists[g]
      BY <1>6, <2>2, <2>4, <3>0
    <3>2. /\ DOMAIN Append(lists, <<view>>) = 1..(n + 1)
          /\ \A g \in 1..(n + 1) : Append(lists, <<view>>)[g] = IF g = n + 1 THEN <<view>> ELSE lists[g]
      BY <1>1, <1>6
    <3>3. PICK longer : longer = Append(lists, <<view>>)
      OBVIOUS
    <3>4. longer = [g \in 1..(n + 1) |-> longer[g]]
      BY <1>1, <1>6, <3>3
    <3> QED  BY <2>4, <3>1, <3>2, <3>3, <3>4
  <2>7. Listed(grown) = Append(Listed(groups), view)
    <3>1. Listed(grown) = Listed(groups) \o <<view>>
      BY <1>7, <1>8, <2>6 DEF Listed
    <3>2. \A s \in Seq(View) : s \o <<view>> = Append(s, view)
      BY <1>1
    <3> QED  BY <1>8, <3>1, <3>2
  <2>8. HeadingGained(groups, r, view, grown)
    BY <1>1, <1>2, <1>3, <1>8, <1>10, <2>2, <2>4, <2>5, <2>7 DEF HeadingGained
  <2> QED  BY <2>8 DEF view, grown
<1> QED  BY <1>9, <1>10

\* Results of a slot that stand together come under one heading.
LEMMA GroupingKeeps ==
    ASSUME NEW results \in Seq(ResultType),
           \A l, m, n \in DOMAIN results :
              (l <= m /\ m <= n /\ results[l].slot = results[n].slot)
                 => results[m].slot = results[l].slot
    PROVE  GroupsFirst(Grouping(results), results, Len(results))
<1>1. Len(results) \in Nat /\ DOMAIN results = 1..Len(results)
  OBVIOUS
<1>2. PICK upto : /\ upto[0] = <<>>
                  /\ \A n \in 1..Len(results) : upto[n] = Grouped(upto[n - 1], results[n])
                  /\ Grouping(results) = upto[Len(results)]
  BY <1>1, GroupingUnfolds
<1> DEFINE Good == {n \in Nat : n <= Len(results) => GroupsFirst(upto[n], results, n)}
<1>3. 0 \in Good
  <2>1. <<>> \in Seq(Heading) /\ DOMAIN <<>> = {} /\ 1..0 = {}
    OBVIOUS
  <2>2. <<>> \in Seq(Seq(View)) /\ Len(<<>>) = 0
    OBVIOUS
  <2>3. FlattenSeq(<<>>) = <<>>
    BY <2>2 DEF FlattenSeq
  <2>4. [g \in DOMAIN <<>> |-> <<>>[g].results] = <<>>
    OBVIOUS
  <2>5. Listed(<<>>) = <<>>
    BY <2>3, <2>4 DEF Listed
  <2>6. [k \in 1..0 |-> ResultView(results[k])] = <<>>
    OBVIOUS
  <2>7. GroupsFirst(<<>>, results, 0)
    BY <2>1, <2>5, <2>6 DEF GroupsFirst
  <2> QED  BY <1>2, <2>7
<1>4. ASSUME NEW n \in Nat, n \in Good
      PROVE  n + 1 \in Good
  <2> SUFFICES ASSUME n + 1 <= Len(results)
               PROVE  GroupsFirst(upto[n + 1], results, n + 1)
    OBVIOUS
  <2>1. PICK m : m = n + 1
    OBVIOUS
  <2>2. m \in 1..Len(results) /\ m - 1 = n /\ n <= Len(results) /\ m \in Nat /\ m # 0
    BY <1>1, <2>1
  <2>3. PICK groups : groups = upto[n]
    OBVIOUS
  <2>4. GroupsFirst(groups, results, n)
    BY <1>4, <2>2, <2>3
  <2>5. PICK r : r = results[m]
    OBVIOUS
  <2>6. r \in ResultType
    BY <1>1, <2>2, <2>5, ElementTyped
  <2>7. PICK grown : grown = Grouped(groups, r)
    OBVIOUS
  <2>8. upto[m] = grown
    BY <1>2, <2>2, <2>3, <2>5, <2>7
  <2>9. PICK view : view = ResultView(r)
    OBVIOUS
  <2>10. groups \in Seq(Heading)
    BY <2>4 DEF GroupsFirst
  <2>11. /\ view \in View /\ grown \in Seq(Heading) /\ grown # <<>>
         /\ Listed(groups) \in Seq(View)
         /\ Listed(grown) = Append(Listed(groups), view)
         /\ Last(grown).title = r.slot
         /\ \A g \in DOMAIN groups : grown[g].title = groups[g].title
         /\ \/ /\ groups # <<>> /\ Last(groups).title = r.slot
               /\ DOMAIN grown = DOMAIN groups
            \/ /\ groups # <<>> => Last(groups).title # r.slot
               /\ DOMAIN grown = 1..(Len(groups) + 1)
               /\ grown[Len(groups) + 1].title = r.slot
    <3>1. HeadingGained(groups, r, view, grown)
      BY <2>6, <2>7, <2>9, <2>10, HeadingsGrow
    <3> QED  BY <3>1 DEF HeadingGained
  <2>12. Listed(grown) = [k \in 1..m |-> ResultView(results[k])]
    <3>1. PICK before : before = [k \in 1..n |-> ResultView(results[k])]
      OBVIOUS
    <3>2. before \in Seq(View) /\ Listed(grown) = Append(before, view)
      BY <2>4, <2>11, <3>1 DEF GroupsFirst
    <3>3. Len(before) = n /\ \A k \in 1..n : before[k] = ResultView(results[k])
      BY <3>1
    <3>4. PICK longer : longer = Append(before, view)
      OBVIOUS
    <3>5. /\ longer = [k \in 1..(n + 1) |-> longer[k]]
          /\ longer[n + 1] = view /\ \A k \in 1..n : longer[k] = before[k]
      <4>1. view \in View /\ before \in Seq(View)
        BY <2>11, <3>2
      <4>2. /\ longer \in Seq(View) /\ Len(longer) = Len(before) + 1
            /\ longer[Len(before) + 1] = view
            /\ \A k \in 1..Len(before) : longer[k] = before[k]
        BY ONLY <3>4, <4>1
      <4>3. longer = [k \in 1..Len(longer) |-> longer[k]]
        BY <4>2
      <4> QED  BY <3>3, <4>2, <4>3
    <3>6. \A k \in 1..(n + 1) : longer[k] = ResultView(results[k])
      <4>1. \A k \in 1..(n + 1) : k \in 1..n \/ k = n + 1
        OBVIOUS
      <4> QED  BY <2>1, <2>5, <2>9, <3>3, <3>5, <4>1
    <3> QED  BY <2>1, <3>2, <3>4, <3>5, <3>6
  <2>13. /\ n # 0 => groups # <<>> /\ Last(groups).title = results[n].slot
         /\ \A g \in DOMAIN groups : \E k \in 1..n : groups[g].title = results[k].slot
         /\ \A g, h \in DOMAIN groups : groups[g].title = groups[h].title => g = h
    BY <2>4 DEF GroupsFirst
  <2>14. \A k \in 1..n : k \in 1..m
    BY <2>1
  <2>15. CASE /\ groups # <<>> /\ Last(groups).title = r.slot
              /\ DOMAIN grown = DOMAIN groups
    <3>1. \A g \in DOMAIN grown : \E k \in 1..m : grown[g].title = results[k].slot
      BY <2>11, <2>13, <2>14, <2>15
    <3>2. \A g, h \in DOMAIN grown : grown[g].title = grown[h].title => g = h
      BY <2>11, <2>13, <2>15
    <3>3. GroupsFirst(grown, results, m)
      BY <2>5, <2>11, <2>12, <3>1, <3>2 DEF GroupsFirst
    <3> QED  BY <2>1, <2>8, <3>3
  <2>16. CASE /\ groups # <<>> => Last(groups).title # r.slot
              /\ DOMAIN grown = 1..(Len(groups) + 1)
              /\ grown[Len(groups) + 1].title = r.slot
    <3>1. DOMAIN groups = 1..Len(groups) /\ Len(groups) \in Nat
      BY <2>10
    <3>2. \A g \in DOMAIN grown : g \in DOMAIN groups \/ g = Len(groups) + 1
      BY <2>16, <3>1
    <3>3. ASSUME NEW g \in DOMAIN groups
          PROVE  groups[g].title # r.slot
      <4>1. PICK k \in 1..n : groups[g].title = results[k].slot
        BY <2>13
      <4>2. k \in DOMAIN results /\ n \in DOMAIN results /\ m \in DOMAIN results
            /\ k <= n /\ n <= m /\ n # 0
        BY <1>1, <2>1, <2>2
      <4>3. results[k].slot = results[m].slot => results[n].slot = results[k].slot
        BY <4>2
      <4>4. Last(groups).title = results[n].slot /\ groups # <<>>
        BY <2>13, <4>2
      <4> QED  BY <2>5, <2>16, <4>1, <4>3, <4>4
    <3>4. \A g \in DOMAIN grown : \E k \in 1..m : grown[g].title = results[k].slot
      <4>1. m \in 1..m
        BY <2>2
      <4> QED  BY <2>5, <2>11, <2>13, <2>14, <2>16, <3>2, <4>1
    <3>5. \A g, h \in DOMAIN grown : grown[g].title = grown[h].title => g = h
      BY <2>11, <2>13, <2>16, <3>2, <3>3
    <3>6. GroupsFirst(grown, results, m)
      BY <2>5, <2>11, <2>12, <3>4, <3>5 DEF GroupsFirst
    <3> QED  BY <2>1, <2>8, <3>6
  <2> QED  BY <2>11, <2>15, <2>16
<1> HIDE DEF Good
<1>5. Nat \subseteq Good
  BY <1>3, <1>4, NaturalInduction
<1> QED  BY <1>1, <1>2, <1>5 DEF Good

\* A row with a breakdown has the ledger of its chunk, which makes its total.
LEMMA LedgerReconciles ==
    ASSUME IInv, Accepted, NEW n \in DOMAIN Rows, Rows[n].results # <<>>
    PROVE  \E cells \in Seq(Cell) : \E at \in DOMAIN cells :
              /\ cells = Read(n).cells /\ at = PlayerAt(cells)
              /\ Rows[n].results = parse_ledger(cells, at, article.groups)
              /\ Sum(Rows[n].results) = Rows[n].race_points
<1>1. PICK chunk \in Chunk :
         /\ chunk = Read(n) /\ ~Refused(chunk) /\ Rows[n] = ParsedRow(chunk, article.groups)
  BY RowsAre
<1>2. PICK cells \in Seq(Cell) : cells = chunk.cells
  BY DEF Chunk
<1>3. PICK at : at = PlayerAt(cells)
  OBVIOUS
<1>4. at \in DOMAIN cells
  <2>1. Links(cells) # {}
    BY <1>1, <1>2 DEF Refused
  <2> QED  BY <1>3, <2>1, PlayerFound
<1>5. PICK results : results = parse_ledger(cells, at, article.groups)
  OBVIOUS
<1>6. Rows[n].results = IF Reconciles(results, Rows[n].race_points) THEN results ELSE <<>>
  BY <1>1, <1>2, <1>3, <1>5 DEF ParsedRow
<1>7. Rows[n].results = results /\ Sum(results) = Rows[n].race_points
  BY <1>6 DEF Reconciles
<1> QED  BY <1>1, <1>2, <1>3, <1>4, <1>5, <1>7

\* A breakdown a reader can open adds up (web.rs, build_ledger on what the
\* parser kept): its headings list the reconciled results, in order and each
\* slot once.
THEOREM BreakdownsAddUp == Spec => []BreakdownAddsUp
<1>1. IInv => BreakdownAddsUp
  <2> DEFINE ledger(i) == build_ledger(Rows[i])
             listed(i) == FlattenSeq([g \in DOMAIN ledger(i).groups |-> ledger(i).groups[g].results])
  <2> SUFFICES ASSUME IInv, Accepted, NEW i \in DOMAIN Rows, ledger(i) # NoLedger
               PROVE  /\ Sum(listed(i)) = ledger(i).total
                      /\ ledger(i).total = Rows[i].race_points
                      /\ ledger(i).counting = Counting(listed(i))
                      /\ \A g, h \in DOMAIN ledger(i).groups :
                            ledger(i).groups[g].title = ledger(i).groups[h].title => g = h
    BY DEF BreakdownAddsUp
  <2>1. PICK results : results = Rows[i].results
    OBVIOUS
  <2>2. results # <<>>
    BY <2>1 DEF build_ledger, NoLedger
  <2>3. PICK groups : groups = Grouping(results)
    OBVIOUS
  <2>4. /\ ledger(i).total = Sum(results) /\ ledger(i).counting = Counting(results)
        /\ ledger(i).groups = groups
    BY <2>1, <2>2, <2>3 DEF build_ledger
  <2>5. PICK list : list = listed(i)
    OBVIOUS
  <2>6. list = Listed(groups)
    BY <2>4, <2>5 DEF Listed
  <2> HIDE DEF ledger, listed
  <2>7. PICK cells \in Seq(Cell) : \E at \in DOMAIN cells :
           /\ results = parse_ledger(cells, at, article.groups)
           /\ Sum(results) = Rows[i].race_points
    BY <2>1, <2>2, LedgerReconciles
  <2>8. PICK at \in DOMAIN cells : /\ results = parse_ledger(cells, at, article.groups)
                                   /\ Sum(results) = Rows[i].race_points
    BY <2>7
  <2>9. /\ article.groups \in Header
        /\ \A g, h \in DOMAIN article.groups :
              article.groups[g].slot = article.groups[h].slot => g = h
    BY HeaderTyped DEF IInv
  <2>10. /\ results \in Seq(ResultType)
         /\ \A n \in DOMAIN results : results[n].played # "Result" => results[n].points = 0
         /\ \A l, m, n \in DOMAIN results :
               (l <= m /\ m <= n /\ results[l].slot = results[n].slot)
                  => results[m].slot = results[l].slot
    BY <2>8, <2>9, LedgerInRuns
  <2>11. GroupsFirst(groups, results, Len(results))
    BY <2>3, <2>10, GroupingKeeps
  <2>12. /\ list = [k \in 1..Len(results) |-> ResultView(results[k])]
         /\ \A g, h \in DOMAIN groups : groups[g].title = groups[h].title => g = h
    BY <2>6, <2>11 DEF GroupsFirst
  <2>13. DOMAIN results = 1..Len(results)
    BY <2>10
  <2>14. /\ DOMAIN list = DOMAIN results
         /\ \A k \in DOMAIN results : /\ list[k].played = results[k].played
                                      /\ list[k].points = results[k].points
    <3>1. \A k \in DOMAIN results : list[k] = ResultView(results[k])
      BY <2>12, <2>13
    <3>2. \A k \in DOMAIN results : /\ ResultView(results[k]).played = results[k].played
                                    /\ ResultView(results[k]).points = results[k].points
      BY <2>10 DEF ResultView
    <3> QED  BY <2>12, <2>13, <3>1, <3>2
  <2>15. Sum(list) = Sum(results)
    <3>1. [n \in DOMAIN list |-> list[n].points] = [n \in DOMAIN results |-> results[n].points]
      BY <2>14
    <3> QED  BY <3>1 DEF Sum
  <2>16. Counting(list) = Counting(results)
    <3>1. {n \in DOMAIN list : list[n].played = "Result"}
             = {n \in DOMAIN results : results[n].played = "Result"}
      BY <2>14
    <3> QED  BY <3>1 DEF Counting
  <2> QED  BY <2>4, <2>5, <2>8, <2>12, <2>15, <2>16
<1> QED  BY <1>1, Invariance, PTL

------------------------------------------------------------------------------
(* A row nobody edited.                                                    *)

\* The ledger of a row as it was written, under a header whole or not.
LEMMA RowEntries ==
    ASSUME NEW i \in DOMAIN Table, NEW groups \in Header,
           NEW entries, entries = Entries(RowChunk(i).cells, 1, groups)
    PROVE  /\ PlayerAt(RowChunk(i).cells) = 1
           /\ Len(entries) \in Nat /\ DOMAIN entries = 1..Len(entries)
           /\ Len(entries) <= Len(Table[i].cells)
           /\ groups = Blocks => Len(entries) = Len(Table[i].cells)
           /\ \A k \in DOMAIN entries :
                 /\ k \in DOMAIN Table[i].cells /\ k \in DOMAIN Columns(groups)
                 /\ entries[k] = parse_result_cell(Table[i].cells[k], Columns(groups)[k])
<1>1. PICK cells : cells = RowChunk(i).cells
  OBVIOUS
<1>2. PICK ts : ts = Table[i].cells
  OBVIOUS
<1>3. /\ ts \in Seq(Cell) /\ Len(ts) \in Nat /\ DOMAIN ts = 1..Len(ts)
      /\ Len(ts) >= 1 /\ Len(ts) <= Len(Columns(Blocks))
      /\ Table[i].player \in Title /\ Table[i].player # NoLink
  BY <1>2, RowTyped
<1>4. /\ cells \in Seq(Cell) /\ Len(cells) = Len(ts) + 1
      /\ cells[1] = PlayerCell(Table[i].player)
      /\ \A c \in DOMAIN ts : cells[c + 1] = ts[c]
  <2>1. RowChunk(i) \in Chunk
    BY RowChunkTyped
  <2>2. cells \in Seq(Cell)
    BY <1>1, <2>1 DEF Chunk
  <2> QED  BY <1>1, <1>2, <2>2, RowChunkTyped
<1>5. 1 \in DOMAIN cells /\ cells # <<>> /\ Len(cells) - 1 = Len(ts)
  BY <1>3, <1>4
<1>6. PlayerAt(cells) = 1
  <2>1. cells[1].link # NoLink /\ cells[1].left
    BY <1>3, <1>4 DEF PlayerCell
  <2> QED  BY <1>4, <1>5, <2>1, FirstIsPlayer
<1>7. entries = Entries(cells, 1, groups)
  BY <1>1
<1>8. /\ Len(entries) \in Nat /\ DOMAIN entries = 1..Len(entries)
      /\ Len(entries) <= Len(Columns(groups)) /\ Len(entries) <= Len(cells) - 1
      /\ \/ Len(entries) = Len(Columns(groups)) \/ Len(entries) = Len(cells) - 1
      /\ \A k \in DOMAIN entries :
            /\ k \in DOMAIN Columns(groups) /\ 1 + k \in DOMAIN cells
            /\ entries[k] = parse_result_cell(cells[1 + k], Columns(groups)[k])
  BY <1>4, <1>5, <1>7, EntriesTyped
<1>9. Len(entries) <= Len(ts)
  BY <1>5, <1>8
<1>10. groups = Blocks => Len(entries) = Len(ts)
  <2>1. Len(Columns(groups)) \in Nat
    <3>1. Columns(groups) \in Seq(Slot)
      BY ColumnsLaidOut
    <3> QED  BY <3>1
  <2> QED  BY <1>3, <1>5, <1>8, <2>1
<1>11. \A k \in DOMAIN entries : k \in DOMAIN ts /\ 1 + k = k + 1
  BY <1>3, <1>8, <1>9
<1> QED  BY <1>1, <1>2, <1>4, <1>6, <1>8, <1>9, <1>10, <1>11

\* What a cell of the table is read as.
LEMMA CellRead ==
    ASSUME NEW i \in DOMAIN Table, NEW c \in DOMAIN Table[i].cells, NEW slot,
           NEW r, r = parse_result_cell(Table[i].cells[c], slot)
    PROVE  /\ r.slot = slot /\ r.event = Table[i].cells[c].link
           /\ r.points = Table[i].cells[c].points /\ r.points \in Nat
           /\ r.played = "Result" <=> c \in Links(Table[i].cells)
           /\ Table[i].cells[c].points # 0 => c \in Links(Table[i].cells)
<1>1. /\ Table[i].cells \in Seq(Cell)
      /\ Table[i].cells[c].link = NoLink =>
            /\ Table[i].cells[c].points = 0
            /\ Table[i].cells[c].shows \in {"Pending", "Absent"}
  BY RowTyped
<1>2. PICK cell \in Cell : cell = Table[i].cells[c]
  BY <1>1, ElementTyped
<1>3. c \in Links(Table[i].cells) <=> cell.link # NoLink
  BY <1>2 DEF Links
<1>4. cell.points \in Nat
  BY DEF Cell
<1> QED  BY <1>1, <1>2, <1>3, <1>4 DEF parse_result_cell

\* Under a whole header the row's ledger reads every cell, hence makes the total.
LEMMA LedgerWhole ==
    ASSUME NEW i \in DOMAIN Table,
           NEW entries, entries = Entries(RowChunk(i).cells, 1, Blocks)
    PROVE  /\ Sum(entries) = Table[i].total
           /\ DOMAIN entries = DOMAIN Table[i].cells
           /\ \A c \in DOMAIN entries :
                 /\ entries[c].slot = SlotOf(c) /\ entries[c].event = Table[i].cells[c].link
                 /\ entries[c].points = Table[i].cells[c].points
                 /\ entries[c].played = "Result" <=> c \in Links(Table[i].cells)
<1>1. PICK ts : ts = Table[i].cells
  OBVIOUS
<1>2. Blocks \in Header
  BY BlocksAssumption DEF Header
<1>3. /\ Len(entries) \in Nat /\ DOMAIN entries = 1..Len(entries)
      /\ Len(entries) = Len(ts)
      /\ \A k \in DOMAIN entries :
            /\ k \in DOMAIN ts /\ k \in DOMAIN Columns(Blocks)
            /\ entries[k] = parse_result_cell(ts[k], Columns(Blocks)[k])
  BY <1>1, <1>2, RowEntries
<1>4. ts \in Seq(Cell) /\ Table[i].total = Sum(ts)
  BY <1>1, RowTyped
<1>5. DOMAIN entries = DOMAIN ts
  BY <1>3, <1>4
<1>6. ASSUME NEW c \in DOMAIN entries
      PROVE  /\ entries[c].slot = SlotOf(c) /\ entries[c].event = ts[c].link
             /\ entries[c].points = ts[c].points
             /\ entries[c].played = "Result" <=> c \in Links(ts)
  <2>1. c \in DOMAIN ts /\ c \in DOMAIN Columns(Blocks)
        /\ entries[c] = parse_result_cell(ts[c], Columns(Blocks)[c])
    BY <1>3
  <2>2. SlotOf(c) = Columns(Blocks)[c]
    BY <2>1, ColumnsMeant
  <2> QED  BY <1>1, <2>1, <2>2, CellRead
<1>7. Sum(entries) = Sum(ts)
  <2>1. [n \in DOMAIN entries |-> entries[n].points] = [n \in DOMAIN ts |-> ts[n].points]
    BY <1>5, <1>6
  <2> QED  BY <2>1 DEF Sum
<1> QED  BY <1>1, <1>4, <1>5, <1>6, <1>7

\* Whatever is done to other rows, a row nobody edited that stands above the
\* table's first end is published if the article is: at its rank, under its
\* player, with its total and, while the header is whole, with its whole
\* breakdown (source.rs, parse_standings and validate).
THEOREM UntouchedRowsAreRight == Spec => []DamageStaysInItsRow
<1>1. IInv => DamageStaysInItsRow
  <2> SUFFICES ASSUME IInv, Accepted,
                      NEW chunk \in ToSet(table_at(article.chunks)), Untouched(chunk), NEW i, i = chunk.of
               PROVE  /\ i \in DOMAIN Rows
                      /\ Rows[i].player_code = Table[i].player
                      /\ Rows[i].race_points = Table[i].total
                      /\ LostBlocks = 0 => Shown(Rows[i]) = Meant(i)
    BY DEF DamageStaysInItsRow
  <2>1. /\ i \in DOMAIN Table /\ chunk = RowChunk(i) /\ i \in DOMAIN Rows /\ Read(i) = chunk
        /\ Rows[i] = ParsedRow(RowChunk(i), article.groups)
    BY RowFound
  <2>2. /\ RowChunk(i) \in Chunk /\ RowChunk(i).cells[1] = PlayerCell(Table[i].player)
        /\ Head(RowChunk(i).numbers) = Table[i].total
    BY <2>1, RowChunkTyped
  <2>3. article.groups \in Header /\ Blocks \in Header /\ (LostBlocks = 0 => article.groups = Blocks)
    BY HeaderTyped DEF IInv
  <2>4. PlayerAt(RowChunk(i).cells) = 1
    <3>1. PICK entries : entries = Entries(RowChunk(i).cells, 1, Blocks)
      OBVIOUS
    <3> QED  BY <2>1, <2>3, <3>1, RowEntries
  <2>5. Rows[i].player_code = Table[i].player /\ Rows[i].race_points = Table[i].total
    BY <2>1, RowRight
  <2>6. ASSUME LostBlocks = 0
        PROVE  Shown(Rows[i]) = Meant(i)
    <3>1. PICK cells \in Seq(Cell) : cells = RowChunk(i).cells
      BY <2>2 DEF Chunk
    <3>2. PICK entries : entries = Entries(cells, 1, Blocks)
      OBVIOUS
    <3>3. PICK results : results = parse_ledger(cells, 1, Blocks)
      OBVIOUS
    <3>4. 1 \in DOMAIN cells
      <4>1. Len(cells) = Len(Table[i].cells) + 1 /\ Len(Table[i].cells) \in Nat
        BY <2>1, <3>1, RowChunkTyped, RowTyped
      <4> QED  BY <4>1
    <3>5. /\ \E places :
                /\ Enumerates(places, Used(entries)) /\ DOMAIN places = DOMAIN results
                /\ \A n \in DOMAIN results : /\ places[n] \in DOMAIN entries
                                             /\ results[n] = entries[places[n]]
          /\ Sum(results) = Sum(entries)
      BY <2>3, <3>2, <3>3, <3>4, LedgerReads
    <3>6. PICK places :
             /\ Enumerates(places, Used(entries)) /\ DOMAIN places = DOMAIN results
             /\ \A n \in DOMAIN results : /\ places[n] \in DOMAIN entries
                                          /\ results[n] = entries[places[n]]
      BY <3>5
    <3>7. /\ Sum(entries) = Table[i].total
          /\ DOMAIN entries = DOMAIN Table[i].cells
          /\ \A c \in DOMAIN entries :
                /\ entries[c].slot = SlotOf(c) /\ entries[c].event = Table[i].cells[c].link
                /\ entries[c].points = Table[i].cells[c].points
                /\ entries[c].played = "Result" <=> c \in Links(Table[i].cells)
      BY <2>1, <3>1, <3>2, LedgerWhole
    <3>8. Rows[i].results = results
      <4>1. /\ article.groups = Blocks /\ cells = RowChunk(i).cells
            /\ PlayerAt(cells) = 1 /\ Head(RowChunk(i).numbers) = Table[i].total
        BY <2>2, <2>3, <2>4, <2>6, <3>1
      <4>2. Rows[i].results = IF Reconciles(results, Table[i].total) THEN results ELSE <<>>
        BY <2>1, <3>3, <4>1 DEF ParsedRow
      <4>3. Sum(results) = Table[i].total
        BY <3>5, <3>7
      <4> QED  BY <4>2, <4>3 DEF Reconciles
    <3> DEFINE Said(c) == [slot   |-> SlotOf(c), event |-> Table[i].cells[c].link,
                           points |-> Table[i].cells[c].points]
    <3>9. \A n \in DOMAIN results :
             /\ places[n] \in DOMAIN entries /\ results[n] = entries[places[n]]
             /\ [slot |-> results[n].slot, event |-> results[n].event, points |-> results[n].points]
                   = Said(places[n])
      BY <3>6, <3>7
    <3>10. ASSUME NEW r \in ToSet(results), r.played = "Result"
           PROVE  \E c \in Links(Table[i].cells) :
                     [slot |-> r.slot, event |-> r.event, points |-> r.points] = Said(c)
      <4>1. PICK n \in DOMAIN results : r = results[n]
        BY DEF ToSet
      <4> QED  BY <3>7, <3>9, <3>10, <4>1
    <3>11. ASSUME NEW c \in Links(Table[i].cells)
           PROVE  \E r \in ToSet(results) :
                     /\ r.played = "Result"
                     /\ [slot |-> r.slot, event |-> r.event, points |-> r.points] = Said(c)
      <4>1. c \in DOMAIN entries /\ entries[c].played = "Result"
        BY <3>7 DEF Links
      <4>2. c \in Used(entries)
        BY <4>1 DEF Used
      <4>3. PICK n \in DOMAIN results : places[n] = c
        BY <3>6, <4>2 DEF Enumerates, Members
      <4>4. results[n] \in ToSet(results)
        BY DEF ToSet
      <4> QED  BY <3>9, <4>1, <4>3, <4>4
    <3>12. Shown(Rows[i]) = {[slot |-> r.slot, event |-> r.event, points |-> r.points] :
                                r \in {x \in ToSet(results) : x.played = "Result"}}
      BY <3>8 DEF Shown
    <3>13. Meant(i) = {Said(c) : c \in Links(Table[i].cells)}
      BY DEF Meant
    <3> HIDE DEF Said
    <3> QED  BY <3>10, <3>11, <3>12, <3>13
  <2> QED  BY <2>1, <2>5, <2>6
<1> QED  BY <1>1, Invariance, PTL

------------------------------------------------------------------------------
(* A breakdown after one edit.                                             *)

\* The points of the row's cells, and those credited to the entries.
Points(i) == [c \in DOMAIN Table[i].cells |-> Table[i].cells[c].points]
Credits(entries) == [k \in DOMAIN entries |-> entries[k].points]

\* The points of a row's cells are numbers, as many as the cells, that sum to its total.
LEMMA PointsTyped ==
    ASSUME NEW i \in DOMAIN Table
    PROVE  /\ Points(i) \in Seq(Nat) /\ Len(Points(i)) = Len(Table[i].cells)
           /\ DOMAIN Points(i) = DOMAIN Table[i].cells
           /\ DOMAIN Table[i].cells = 1..Len(Table[i].cells) /\ Len(Table[i].cells) \in Nat
           /\ \A c \in DOMAIN Table[i].cells : Points(i)[c] = Table[i].cells[c].points
           /\ Total(Points(i)) = Table[i].total
<1>1. PICK ts \in Seq(Cell) : ts = Table[i].cells
  BY RowTyped
<1>2. \A c \in DOMAIN ts : ts[c].points \in Nat
  <2>1. \A c \in DOMAIN ts : ts[c] \in Cell
    BY ElementTyped
  <2> QED  BY <2>1 DEF Cell
<1>3. PICK p : p = [c \in DOMAIN ts |-> ts[c].points]
  OBVIOUS
<1>4. /\ p \in Seq(Nat) /\ Len(p) = Len(ts) /\ DOMAIN p = DOMAIN ts
      /\ DOMAIN ts = 1..Len(ts) /\ Len(ts) \in Nat
      /\ \A c \in DOMAIN ts : p[c] = ts[c].points
  BY <1>2, <1>3
<1>5. Points(i) = p
  BY <1>1, <1>3 DEF Points
<1>6. Total(p) = Table[i].total
  BY <1>1, <1>3, RowTyped DEF Sum
<1> QED  BY <1>1, <1>4, <1>5, <1>6

\* The points credited to entries are numbers, as many as the entries.
LEMMA CreditsTyped ==
    ASSUME NEW entries \in Seq(ResultType)
    PROVE  /\ Credits(entries) \in Seq(Nat) /\ Len(Credits(entries)) = Len(entries)
           /\ DOMAIN Credits(entries) = DOMAIN entries
           /\ \A k \in DOMAIN entries : Credits(entries)[k] = entries[k].points
           /\ Total(Credits(entries)) = Sum(entries)
<1>1. \A k \in DOMAIN entries : entries[k].points \in Nat
  <2>1. \A k \in DOMAIN entries : entries[k] \in ResultType
    BY ElementTyped
  <2> QED  BY <2>1 DEF ResultType
<1>2. PICK p : p = [k \in DOMAIN entries |-> entries[k].points]
  OBVIOUS
<1>3. /\ p \in Seq(Nat) /\ Len(p) = Len(entries) /\ DOMAIN p = DOMAIN entries
      /\ \A k \in DOMAIN entries : p[k] = entries[k].points
  BY <1>1, <1>2
<1> QED  BY <1>2, <1>3 DEF Credits, Sum

\* The entries that score are the cells of the row that do.
Says(entry, cell) == entry.event = cell.link /\ entry.points = cell.points

Matches(entries, i) ==
    /\ \A k \in DOMAIN entries : entries[k].points # 0 =>
          \E c \in DOMAIN Table[i].cells : Says(entries[k], Table[i].cells[c])
    /\ \A c \in DOMAIN Table[i].cells : Table[i].cells[c].points # 0 =>
          \E k \in DOMAIN entries : Says(entries[k], Table[i].cells[c])

\* Then the breakdown names every event the player scored in.
LEMMA NothingLost ==
    ASSUME NEW i \in DOMAIN Table, NEW groups \in Header,
           NEW cells \in Seq(Cell), NEW at \in DOMAIN cells,
           NEW row, row.results = parse_ledger(cells, at, groups),
           Matches(Entries(cells, at, groups), i)
    PROVE  Scoring(Shown(row)) = Scoring(Meant(i))
<1>1. PICK entries : entries = Entries(cells, at, groups)
  OBVIOUS
<1>2. PICK results : results = parse_ledger(cells, at, groups)
  OBVIOUS
<1>3. \E places :
         /\ Enumerates(places, Used(entries)) /\ DOMAIN places = DOMAIN results
         /\ \A n \in DOMAIN results : /\ places[n] \in DOMAIN entries
                                      /\ results[n] = entries[places[n]]
  BY <1>1, <1>2, LedgerReads
<1>4. PICK places :
         /\ Enumerates(places, Used(entries)) /\ DOMAIN places = DOMAIN results
         /\ \A n \in DOMAIN results : /\ places[n] \in DOMAIN entries
                                      /\ results[n] = entries[places[n]]
  BY <1>3
<1>5. /\ entries \in Seq(ResultType)
      /\ \A k \in DOMAIN entries : entries[k].played # "Result" => entries[k].points = 0
  BY <1>1, EntriesTyped
<1>6. \A k \in DOMAIN entries : entries[k].points \in Nat
  <2>1. \A k \in DOMAIN entries : entries[k] \in ResultType
    BY <1>5, ElementTyped
  <2> QED  BY <2>1 DEF ResultType
<1>7. \A c \in DOMAIN Table[i].cells :
         /\ Table[i].cells[c].points \in Nat
         /\ Table[i].cells[c].points # 0 => c \in Links(Table[i].cells)
  <2>1. \A c \in DOMAIN Table[i].cells : Points(i)[c] \in Nat /\ Points(i)[c] = Table[i].cells[c].points
    BY PointsTyped, ElementTyped
  <2> QED  BY <2>1, CellRead
<1>8. Matches(entries, i)
  BY <1>1
<1>9. ASSUME NEW s \in Shown(row), s.points > 0
      PROVE  \E m \in Meant(i) : m.points > 0 /\ m.event = s.event /\ m.points = s.points
  <2>1. PICK n \in DOMAIN results :
           s = [slot |-> results[n].slot, event |-> results[n].event, points |-> results[n].points]
    BY <1>2 DEF Shown, ToSet
  <2>2. PICK k \in DOMAIN entries : s.event = entries[k].event /\ s.points = entries[k].points
    BY <1>4, <2>1
  <2>3. entries[k].points # 0
    BY <1>6, <1>9, <2>2
  <2>4. PICK c \in DOMAIN Table[i].cells : Says(entries[k], Table[i].cells[c])
    BY <1>8, <2>3 DEF Matches
  <2>5. Table[i].cells[c].link = s.event /\ Table[i].cells[c].points = s.points
    BY <2>2, <2>4 DEF Says
  <2>6. c \in Links(Table[i].cells)
    BY <1>7, <2>2, <2>3, <2>5
  <2>7. PICK m : m = [slot   |-> SlotOf(c), event |-> Table[i].cells[c].link,
                      points |-> Table[i].cells[c].points]
    OBVIOUS
  <2>8. m \in Meant(i)
    BY <2>6, <2>7 DEF Meant
  <2>9. m.event = s.event /\ m.points = s.points
    BY <2>5, <2>7
  <2> QED  BY <1>9, <2>8, <2>9
<1>10. ASSUME NEW m \in Meant(i), m.points > 0
       PROVE  \E s \in Shown(row) : s.points > 0 /\ s.event = m.event /\ s.points = m.points
  <2>1. PICK c \in Links(Table[i].cells) :
           m = [slot   |-> SlotOf(c), event |-> Table[i].cells[c].link,
                points |-> Table[i].cells[c].points]
    BY DEF Meant
  <2>2. c \in DOMAIN Table[i].cells /\ Table[i].cells[c].points # 0
    BY <1>10, <2>1 DEF Links
  <2>3. PICK k \in DOMAIN entries : Says(entries[k], Table[i].cells[c])
    BY <1>8, <2>2 DEF Matches
  <2>4. entries[k].event = m.event /\ entries[k].points = m.points
    BY <2>1, <2>3 DEF Says
  <2>5. entries[k].played = "Result"
    BY <1>5, <2>1, <2>2, <2>4
  <2>6. k \in Used(entries)
    BY <2>5 DEF Used
  <2>7. PICK n \in DOMAIN results : places[n] = k
    BY <1>4, <2>6 DEF Enumerates, Members
  <2>8. results[n] \in ToSet(results) /\ results[n] = entries[k]
    BY <1>4, <2>7 DEF ToSet
  <2>9. PICK s : s = [slot |-> results[n].slot, event |-> results[n].event, points |-> results[n].points]
    OBVIOUS
  <2>10. s \in Shown(row)
    BY <1>2, <2>5, <2>8, <2>9 DEF Shown
  <2>11. s.event = m.event /\ s.points = m.points
    BY <2>4, <2>8, <2>9
  <2> QED  BY <1>10, <2>10, <2>11
<1> DEFINE Pair(r) == [event |-> r.event, points |-> r.points]
<1>11. /\ Scoring(Shown(row)) = {Pair(r) : r \in {x \in Shown(row) : x.points > 0}}
       /\ Scoring(Meant(i)) = {Pair(r) : r \in {x \in Meant(i) : x.points > 0}}
  BY DEF Scoring
<1>12. \A s, m : s.event = m.event /\ s.points = m.points => Pair(s) = Pair(m)
  OBVIOUS
<1> HIDE DEF Pair
<1>13. \A s \in Shown(row) : s.points > 0 => \E m \in Meant(i) : m.points > 0 /\ Pair(s) = Pair(m)
  BY <1>9, <1>12
<1>14. \A m \in Meant(i) : m.points > 0 => \E s \in Shown(row) : s.points > 0 /\ Pair(m) = Pair(s)
  BY <1>10, <1>12
<1> QED  BY <1>11, <1>13, <1>14

\* What the parser reads in a cell as written is what the cell says.
LEMMA CellSays ==
    ASSUME NEW i \in DOMAIN Table, NEW c \in DOMAIN Table[i].cells, NEW slot
    PROVE  Says(parse_result_cell(Table[i].cells[c], slot), Table[i].cells[c])
<1>1. PICK r : r = parse_result_cell(Table[i].cells[c], slot)
  OBVIOUS
<1> QED  BY <1>1, CellRead DEF Says

\* The cells as they were written, under a header whole or not.
LEMMA WrittenMatches ==
    ASSUME NEW i \in DOMAIN Table, NEW groups \in Header,
           NEW entries, entries = Entries(RowChunk(i).cells, 1, groups),
           groups = Blocks \/ Sum(entries) = Table[i].total
    PROVE  Matches(entries, i)
<1>1. PICK ts : ts = Table[i].cells
  OBVIOUS
<1>2. PICK p : p = Points(i)
  OBVIOUS
<1>3. /\ p \in Seq(Nat) /\ Len(p) = Len(ts) /\ DOMAIN ts = 1..Len(ts) /\ Len(ts) \in Nat
      /\ \A c \in DOMAIN ts : p[c] = ts[c].points
      /\ Total(p) = Table[i].total
  BY <1>1, <1>2, PointsTyped
<1>4. /\ Len(entries) \in Nat /\ DOMAIN entries = 1..Len(entries)
      /\ Len(entries) <= Len(ts)
      /\ groups = Blocks => Len(entries) = Len(ts)
      /\ \A k \in DOMAIN entries :
            /\ k \in DOMAIN ts
            /\ entries[k] = parse_result_cell(ts[k], Columns(groups)[k])
  BY <1>1, RowEntries
<1>5. \A k \in DOMAIN entries : k \in DOMAIN ts /\ Says(entries[k], ts[k])
  BY <1>1, <1>4, CellSays
<1>6. \A c \in DOMAIN ts : ts[c].points # 0 => c \in DOMAIN entries
  <2>1. CASE groups = Blocks
    BY <1>3, <1>4, <2>1
  <2>2. CASE Sum(entries) = Table[i].total
    <3>1. entries \in Seq(ResultType)
      <4>1. RowChunk(i) \in Chunk /\ 1 \in DOMAIN RowChunk(i).cells
        <5>1. RowChunk(i) \in Chunk /\ Len(RowChunk(i).cells) = Len(ts) + 1
          BY <1>1, RowChunkTyped
        <5>2. RowChunk(i).cells \in Seq(Cell)
          BY <5>1 DEF Chunk
        <5> QED  BY <1>3, <5>1, <5>2
      <4>2. RowChunk(i).cells \in Seq(Cell)
        BY <4>1 DEF Chunk
      <4> QED  BY <4>1, <4>2, EntriesTyped
    <3>2. PICK q : q = Credits(entries)
      OBVIOUS
    <3>3. /\ q \in Seq(Nat) /\ Len(q) = Len(entries)
          /\ \A k \in DOMAIN entries : q[k] = entries[k].points
          /\ Total(q) = Table[i].total
      BY <2>2, <3>1, <3>2, CreditsTyped
    <3>4. PICK n \in 0..Len(p) : n = Len(entries)
      BY <1>3, <1>4
    <3>5. q = SubSeq(p, 1, n)
      <4>1. /\ SubSeq(p, 1, n) \in Seq(Nat) /\ Len(SubSeq(p, 1, n)) = n
            /\ \A k \in 1..n : SubSeq(p, 1, n)[k] = p[k]
        BY <1>3, <3>4, FrontAndRest
      <4>2. \A k \in 1..n : q[k] = p[k]
        BY <1>3, <1>4, <1>5, <3>3, <3>4 DEF Says
      <4>3. Len(q) = Len(SubSeq(p, 1, n)) /\ \A k \in 1..Len(q) : q[k] = SubSeq(p, 1, n)[k]
        BY <3>3, <3>4, <4>1, <4>2
      <4> QED  BY <3>3, <4>1, <4>3, ListsEqual
    <3>6. Total(SubSeq(p, 1, n)) = Total(p)
      BY <1>3, <3>3, <3>5
    <3>7. \A c \in (n + 1)..Len(p) : p[c] = 0
      BY <1>3, <3>6, RestZero
    <3>8. \A c \in DOMAIN ts : c \in 1..n \/ c \in (n + 1)..Len(p)
      BY <1>3, <3>4
    <3> QED  BY <1>3, <1>4, <3>4, <3>7, <3>8
  <2> QED  BY <2>1, <2>2
<1> QED  BY <1>1, <1>5, <1>6 DEF Matches

\* The player's cell is no longer a link: a later cell is taken for it, and
\* what comes after must make the total.
LEMMA LaterMatches ==
    ASSUME NEW i \in DOMAIN Table, NEW cells \in Seq(Cell), NEW at \in DOMAIN cells,
           Len(cells) = Len(Table[i].cells) + 1,
           \A c \in DOMAIN Table[i].cells : cells[c + 1] = Table[i].cells[c],
           NEW entries, entries = Entries(cells, at, Blocks),
           Sum(entries) = Table[i].total
    PROVE  Matches(entries, i)
<1>1. PICK ts : ts = Table[i].cells
  OBVIOUS
<1>2. PICK p : p = Points(i)
  OBVIOUS
<1>3. /\ p \in Seq(Nat) /\ Len(p) = Len(ts) /\ DOMAIN ts = 1..Len(ts) /\ Len(ts) \in Nat
      /\ \A c \in DOMAIN ts : p[c] = ts[c].points
      /\ Total(p) = Table[i].total
  BY <1>1, <1>2, PointsTyped
<1>4. Blocks \in Header
  BY BlocksAssumption DEF Header
<1>5. PICK n \in Int : n = at - 1
  OBVIOUS
<1>6. n \in 0..Len(ts) /\ at = n + 1 /\ Len(cells) - at = Len(ts) - n
  BY <1>1, <1>3, <1>5
<1>7. Len(ts) <= Len(Columns(Blocks)) /\ Len(Columns(Blocks)) \in Nat
  <2>1. Columns(Blocks) \in Seq(Slot)
    BY <1>4, ColumnsLaidOut
  <2> QED  BY <1>1, <2>1, RowTyped
<1>8. /\ entries \in Seq(ResultType)
      /\ Len(entries) \in Nat /\ DOMAIN entries = 1..Len(entries)
      /\ Len(entries) <= Len(Columns(Blocks)) /\ Len(entries) <= Len(cells) - at
      /\ \/ Len(entries) = Len(Columns(Blocks)) \/ Len(entries) = Len(cells) - at
      /\ \A k \in DOMAIN entries :
            entries[k] = parse_result_cell(cells[at + k], Columns(Blocks)[k])
  BY <1>4, EntriesTyped
<1>9. Len(entries) = Len(ts) - n
  <2>1. PICK w \in Nat : w = Len(entries)
    BY <1>8
  <2>2. PICK u \in Nat : u = Len(ts)
    BY <1>3
  <2>3. PICK v \in Nat : v = Len(Columns(Blocks))
    BY <1>7
  <2>4. n \in 0..u /\ u <= v /\ w <= u - n /\ (w = v \/ w = u - n)
    BY <1>6, <1>7, <1>8, <2>1, <2>2, <2>3
  <2>5. w = u - n
    BY ONLY <2>4
  <2> QED  BY <2>1, <2>2, <2>5
<1>10. \A k \in 1..(Len(ts) - n) : n + k \in DOMAIN ts /\ at + k = (n + k) + 1
  <2>1. PICK u \in Nat : u = Len(ts)
    BY <1>3
  <2>2. n \in 0..u /\ at = n + 1
    BY <1>6, <2>1
  <2>3. \A k \in 1..(u - n) : n + k \in 1..u /\ (n + 1) + k = (n + k) + 1
    BY ONLY <2>2
  <2> QED  BY <1>3, <2>1, <2>2, <2>3
<1>11. \A k \in DOMAIN entries : n + k \in DOMAIN ts /\ Says(entries[k], ts[n + k])
  <2> SUFFICES ASSUME NEW k \in DOMAIN entries
               PROVE  n + k \in DOMAIN ts /\ Says(entries[k], ts[n + k])
    OBVIOUS
  <2>1. PICK c \in DOMAIN ts : c = n + k /\ at + k = c + 1
    BY <1>8, <1>9, <1>10
  <2>2. entries[k] = parse_result_cell(ts[c], Columns(Blocks)[k])
    BY <1>1, <1>8, <2>1
  <2>3. Says(entries[k], ts[c])
    BY <1>1, <2>2, CellSays
  <2> QED  BY <2>1, <2>3
<1>12. PICK q : q = Credits(entries)
  OBVIOUS
<1>13. /\ q \in Seq(Nat) /\ Len(q) = Len(entries)
       /\ \A k \in DOMAIN entries : q[k] = entries[k].points
       /\ Total(q) = Table[i].total
  BY <1>8, <1>12, CreditsTyped
<1>14. q = SubSeq(p, n + 1, Len(p))
  <2>1. n \in 0..Len(p)
    BY <1>3, <1>6
  <2>2. /\ SubSeq(p, n + 1, Len(p)) \in Seq(Nat) /\ Len(SubSeq(p, n + 1, Len(p))) = Len(p) - n
        /\ \A k \in 1..(Len(p) - n) : SubSeq(p, n + 1, Len(p))[k] = p[n + k]
    BY <1>3, <2>1, FrontAndRest
  <2>3. \A k \in DOMAIN entries : q[k] = p[n + k]
    BY <1>3, <1>11, <1>13 DEF Says
  <2>4. /\ Len(q) = Len(SubSeq(p, n + 1, Len(p)))
        /\ \A k \in 1..Len(q) : q[k] = SubSeq(p, n + 1, Len(p))[k]
    BY <1>3, <1>8, <1>9, <1>13, <2>2, <2>3
  <2> QED  BY <1>13, <2>2, <2>4, ListsEqual
<1>15. \A c \in 1..n : p[c] = 0
  <2>1. n \in 0..Len(p)
    BY <1>3, <1>6
  <2>2. Total(SubSeq(p, n + 1, Len(p))) = Total(p)
    BY <1>3, <1>13, <1>14
  <2> QED  BY <1>3, <2>1, <2>2, RestZero
<1>16. ASSUME NEW c \in DOMAIN ts, ts[c].points # 0
       PROVE  \E k \in DOMAIN entries : Says(entries[k], ts[c])
  <2>1. c \notin 1..n
    BY <1>3, <1>15, <1>16
  <2>2. PICK k \in Int : k = c - n
    BY <1>3, <1>6
  <2>3. k \in DOMAIN entries /\ n + k = c
    BY <1>3, <1>6, <1>8, <1>9, <2>1, <2>2
  <2> QED  BY <1>11, <2>3
<1> QED  BY <1>1, <1>11, <1>16 DEF Matches

\* A list without one of its numbers.
LEMMA TotalWithout ==
    ASSUME NEW s \in Seq(Nat), NEW c \in DOMAIN s
    PROVE  /\ Total(RemoveAt(s, c)) \in Nat /\ s[c] \in Nat
           /\ Total(s) = Total(RemoveAt(s, c)) + s[c]
<1> DEFINE a == SubSeq(s, 1, c - 1)
           b == SubSeq(s, c + 1, Len(s))
<1>1. a \in Seq(Nat) /\ b \in Seq(Nat) /\ s[c] \in Nat
  BY SplitAround
<1>2. Total(s) = Total(a) + s[c] + Total(b)
  BY TotalAround
<1>3. RemoveAt(s, c) = a \o b
  BY DEF RemoveAt
<1> HIDE DEF a, b
<1>4. Total(a) \in Nat /\ Total(b) \in Nat /\ Total(a \o b) = Total(a) + Total(b)
  BY <1>1, TotalConcat
<1> QED  BY <1>1, <1>2, <1>3, <1>4

\* A tournament cell was deleted: it was worth nothing.
LEMMA RemovedMatches ==
    ASSUME NEW i \in DOMAIN Table, NEW rc \in Seq(Cell),
           Len(rc) = Len(Table[i].cells) + 1,
           \A c \in DOMAIN Table[i].cells : rc[c + 1] = Table[i].cells[c],
           NEW d \in 2..Len(rc), NEW entries, entries = Entries(RemoveAt(rc, d), 1, Blocks),
           Sum(entries) = Table[i].total, Len(RemoveAt(rc, d)) >= 1
    PROVE  Matches(entries, i)
<1>1. PICK ts : ts = Table[i].cells
  OBVIOUS
<1>2. PICK p : p = Points(i)
  OBVIOUS
<1>3. /\ p \in Seq(Nat) /\ Len(p) = Len(ts) /\ DOMAIN ts = 1..Len(ts) /\ Len(ts) \in Nat
      /\ DOMAIN p = DOMAIN ts
      /\ \A c \in DOMAIN ts : p[c] = ts[c].points
      /\ Total(p) = Table[i].total
  BY <1>1, <1>2, PointsTyped
<1>4. Blocks \in Header
  BY BlocksAssumption DEF Header
<1>5. PICK c \in Int : c = d - 1
  OBVIOUS
<1>6. c \in DOMAIN ts /\ d = c + 1 /\ d \in DOMAIN rc /\ Len(rc) = Len(ts) + 1
  BY <1>1, <1>3, <1>5
<1>7. PICK cells : cells = RemoveAt(rc, d)
  OBVIOUS
<1>8. /\ cells \in Seq(Cell) /\ Len(cells) = Len(rc) - 1
      /\ \A k \in DOMAIN cells : cells[k] = IF k < d THEN rc[k] ELSE rc[k + 1]
  BY <1>6, <1>7, Removed
<1>9. Len(cells) = Len(ts) /\ DOMAIN cells = 1..Len(ts) /\ 1 \in DOMAIN cells /\ Len(cells) - 1 = Len(ts) - 1
  BY <1>3, <1>6, <1>7, <1>8
<1>10. Len(ts) <= Len(Columns(Blocks)) /\ Len(Columns(Blocks)) \in Nat
  <2>1. Columns(Blocks) \in Seq(Slot)
    BY <1>4, ColumnsLaidOut
  <2> QED  BY <1>1, <2>1, RowTyped
<1>11. /\ entries \in Seq(ResultType)
       /\ Len(entries) \in Nat /\ DOMAIN entries = 1..Len(entries)
       /\ Len(entries) <= Len(Columns(Blocks)) /\ Len(entries) <= Len(cells) - 1
       /\ \/ Len(entries) = Len(Columns(Blocks)) \/ Len(entries) = Len(cells) - 1
       /\ \A k \in DOMAIN entries :
             /\ 1 + k \in DOMAIN cells
             /\ entries[k] = parse_result_cell(cells[1 + k], Columns(Blocks)[k])
  <2>1. entries = Entries(cells, 1, Blocks)
    BY <1>7
  <2> QED  BY <1>4, <1>8, <1>9, <2>1, EntriesTyped
<1>12. Len(entries) = Len(ts) - 1
  <2>1. PICK w \in Nat : w = Len(entries)
    BY <1>11
  <2>2. PICK u \in Nat : u = Len(ts)
    BY <1>3
  <2>3. PICK v \in Nat : v = Len(Columns(Blocks))
    BY <1>10
  <2>4. u <= v /\ w <= u - 1 /\ (w = v \/ w = u - 1)
    BY <1>9, <1>10, <1>11, <2>1, <2>2, <2>3
  <2>5. w = u - 1
    BY ONLY <2>4
  <2> QED  BY <2>1, <2>2, <2>5
\* The cell of the table an entry stands for.
<1> DEFINE From(k) == IF k < c THEN k ELSE k + 1
<1>13. ASSUME NEW k \in DOMAIN entries
       PROVE  From(k) \in DOMAIN ts /\ Says(entries[k], ts[From(k)])
  <2>1. k \in Nat /\ 1 <= k /\ k <= Len(ts) - 1 /\ c \in Nat
    <3>1. PICK w \in Nat : w = Len(entries) /\ k \in 1..w
      BY <1>11
    <3>2. w = Len(ts) - 1
      BY <1>12, <3>1
    <3>3. k \in Nat /\ 1 <= k /\ k <= w
      BY ONLY <3>1
    <3>4. c \in Nat
      BY <1>3, <1>6
    <3> QED  BY <3>2, <3>3, <3>4
  <2>2. From(k) \in DOMAIN ts
    BY <1>3, <2>1
  <2>3. cells[1 + k] = IF 1 + k < d THEN rc[1 + k] ELSE rc[(1 + k) + 1]
    BY <1>8, <1>11
  <2>4. cells[1 + k] = rc[From(k) + 1]
    BY <1>6, <2>1, <2>3
  <2>5. cells[1 + k] = ts[From(k)]
    BY <1>1, <2>2, <2>4
  <2>6. entries[k] = parse_result_cell(ts[From(k)], Columns(Blocks)[k])
    BY <1>11, <2>5
  <2> HIDE DEF From
  <2>7. Says(entries[k], ts[From(k)])
    BY <1>1, <2>2, <2>6, CellSays
  <2> QED  BY <2>2, <2>7
<1>14. PICK q : q = Credits(entries)
  OBVIOUS
<1>15. /\ q \in Seq(Nat) /\ Len(q) = Len(entries)
       /\ \A k \in DOMAIN entries : q[k] = entries[k].points
       /\ Total(q) = Table[i].total
  BY <1>11, <1>14, CreditsTyped
<1>16. q = RemoveAt(p, c)
  <2>1. PICK less : less = RemoveAt(p, c)
    OBVIOUS
  <2>2. /\ less \in Seq(Nat) /\ Len(less) = Len(p) - 1 /\ DOMAIN less = 1..Len(less)
        /\ \A k \in DOMAIN less : less[k] = IF k < c THEN p[k] ELSE p[k + 1]
    <3>1. c \in DOMAIN p
      BY <1>3, <1>6
    <3>2. /\ less \in Seq(Nat) /\ Len(less) = Len(p) - 1
          /\ \A k \in DOMAIN less : less[k] = IF k < c THEN p[k] ELSE p[k + 1]
      BY <1>3, <2>1, <3>1, Removed
    <3> QED  BY <3>2
  <2>3. \A k \in DOMAIN entries : From(k) \in DOMAIN ts /\ q[k] = p[From(k)]
    BY <1>3, <1>13, <1>15 DEF Says
  <2>4. Len(q) = Len(less) /\ \A k \in 1..Len(q) : q[k] = less[k]
    <3>1. DOMAIN less = DOMAIN entries /\ Len(q) = Len(less)
      BY <1>3, <1>11, <1>12, <1>15, <2>2
    <3>2. \A k \in DOMAIN entries : q[k] = less[k]
      BY <2>2, <2>3, <3>1
    <3> QED  BY <1>11, <1>15, <3>1, <3>2
  <2> QED  BY <1>15, <2>1, <2>2, <2>4, ListsEqual
<1>17. p[c] = 0
  <2>1. /\ Total(RemoveAt(p, c)) \in Nat /\ p[c] \in Nat
        /\ Total(p) = Total(RemoveAt(p, c)) + p[c]
    BY <1>3, <1>6, TotalWithout
  <2> QED  BY <1>3, <1>15, <1>16, <2>1
<1>18. ASSUME NEW l \in DOMAIN ts, ts[l].points # 0
       PROVE  \E k \in DOMAIN entries : Says(entries[k], ts[l])
  <2>1. l # c
    BY <1>3, <1>17, <1>18
  <2>2. PICK k \in Int : k = IF l < c THEN l ELSE l - 1
    BY <1>3
  <2>3. k \in DOMAIN entries /\ From(k) = l
    <3>1. PICK u \in Nat : u = Len(ts)
      BY <1>3
    <3>2. l \in 1..u /\ c \in 1..u /\ DOMAIN entries = 1..(u - 1)
      BY <1>3, <1>6, <1>11, <1>12, <3>1
    <3>3. k \in 1..(u - 1) /\ From(k) = l
      BY <2>1, <2>2, <3>2
    <3> QED  BY <3>2, <3>3
  <2> QED  BY <1>13, <2>3
<1> HIDE DEF From
<1> QED  BY <1>1, <1>13, <1>18 DEF Matches

\* A tournament cell was changed: its points are the same, and if they are
\* none nothing is lost.
LEMMA ChangedMatches ==
    ASSUME NEW i \in DOMAIN Table, NEW cells \in Seq(Cell),
           Len(cells) = Len(Table[i].cells) + 1, NEW c \in DOMAIN Table[i].cells,
           \A k \in DOMAIN Table[i].cells : k # c => cells[k + 1] = Table[i].cells[k],
           NEW entries, entries = Entries(cells, 1, Blocks),
           Sum(entries) = Table[i].total
    PROVE  /\ parse_result_cell(cells[c + 1], Columns(Blocks)[c]).points = Table[i].cells[c].points
           /\ Table[i].cells[c].points = 0 => Matches(entries, i)
<1>1. PICK ts : ts = Table[i].cells
  OBVIOUS
<1>2. PICK p : p = Points(i)
  OBVIOUS
<1>3. /\ p \in Seq(Nat) /\ Len(p) = Len(ts) /\ DOMAIN ts = 1..Len(ts) /\ Len(ts) \in Nat
      /\ DOMAIN p = DOMAIN ts
      /\ \A k \in DOMAIN ts : p[k] = ts[k].points
      /\ Total(p) = Table[i].total
  BY <1>1, <1>2, PointsTyped
<1>4. Blocks \in Header
  BY BlocksAssumption DEF Header
<1>5. c \in DOMAIN ts /\ Len(cells) - 1 = Len(ts) /\ 1 \in DOMAIN cells
  BY <1>1, <1>3
<1>6. Len(ts) <= Len(Columns(Blocks)) /\ Len(Columns(Blocks)) \in Nat
  <2>1. Columns(Blocks) \in Seq(Slot)
    BY <1>4, ColumnsLaidOut
  <2> QED  BY <1>1, <2>1, RowTyped
<1>7. /\ entries \in Seq(ResultType)
      /\ Len(entries) \in Nat /\ DOMAIN entries = 1..Len(entries)
      /\ Len(entries) <= Len(Columns(Blocks)) /\ Len(entries) <= Len(cells) - 1
      /\ \/ Len(entries) = Len(Columns(Blocks)) \/ Len(entries) = Len(cells) - 1
      /\ \A k \in DOMAIN entries :
            entries[k] = parse_result_cell(cells[1 + k], Columns(Blocks)[k])
  BY <1>4, <1>5, EntriesTyped
<1>8. Len(entries) = Len(ts) /\ DOMAIN entries = DOMAIN ts
  BY <1>3, <1>5, <1>6, <1>7
<1>9. \A k \in DOMAIN ts : 1 + k = k + 1
  BY <1>3
<1>10. \A k \in DOMAIN ts : k # c => Says(entries[k], ts[k])
  <2> SUFFICES ASSUME NEW k \in DOMAIN ts, k # c
               PROVE  Says(entries[k], ts[k])
    OBVIOUS
  <2>1. entries[k] = parse_result_cell(ts[k], Columns(Blocks)[k])
    BY <1>1, <1>7, <1>8, <1>9
  <2> QED  BY <1>1, <2>1, CellSays
<1>11. PICK q : q = Credits(entries)
  OBVIOUS
<1>12. /\ q \in Seq(Nat) /\ Len(q) = Len(entries)
       /\ \A k \in DOMAIN entries : q[k] = entries[k].points
       /\ DOMAIN q = DOMAIN entries
       /\ Total(q) = Table[i].total
  BY <1>7, <1>11, CreditsTyped
<1>13. q[c] = p[c]
  <2>1. \A k \in DOMAIN p : k # c => q[k] = p[k]
    BY <1>3, <1>8, <1>10, <1>12 DEF Says
  <2>2. Total(q) + p[c] = Total(p) + q[c] /\ Total(p) \in Nat
    BY <1>3, <1>5, <1>8, <1>12, <2>1, TotalReplaced
  <2>3. p[c] \in Nat /\ q[c] \in Nat
    BY <1>3, <1>5, <1>8, <1>12
  <2> QED  BY <1>3, <1>12, <2>2, <2>3
<1>14. entries[c].points = ts[c].points
  BY <1>3, <1>5, <1>8, <1>12, <1>13
<1>15. ASSUME ts[c].points = 0
       PROVE  Matches(entries, i)
  <2>1. \A k \in DOMAIN entries : entries[k].points # 0 => k \in DOMAIN ts /\ Says(entries[k], ts[k])
    BY <1>8, <1>10, <1>14, <1>15
  <2>2. \A k \in DOMAIN ts : ts[k].points # 0 => k \in DOMAIN entries /\ Says(entries[k], ts[k])
    BY <1>8, <1>10, <1>15
  <2> QED  BY <1>1, <2>1, <2>2 DEF Matches
<1> QED  BY <1>1, <1>5, <1>7, <1>8, <1>9, <1>14, <1>15

\* After one edit of the row the ledger that makes its total loses nothing: a
\* cell unlinked or deleted was worth nothing, and no result changed its points.
LEMMA OneEditMatches ==
    ASSUME NEW i \in DOMAIN Table, NEW chunk \in Chunk, OneEdit(chunk.numbers, chunk.cells, i),
           ~Skipped(chunk), ~Refused(chunk),
           NEW entries, entries = Entries(chunk.cells, PlayerAt(chunk.cells), Blocks),
           Sum(entries) = Head(chunk.numbers)
    PROVE  Matches(entries, i)
<1>1. PICK rc : rc = RowChunk(i).cells
  OBVIOUS
<1>2. PICK ts : ts = Table[i].cells
  OBVIOUS
<1>3. /\ ts \in Seq(Cell) /\ DOMAIN ts = 1..Len(ts) /\ Len(ts) \in Nat
      /\ Table[i].player # NoLink
      /\ \A c \in DOMAIN ts : ts[c] \in Cell
  <2>1. ts \in Seq(Cell) /\ Table[i].player # NoLink
    BY <1>2, RowTyped
  <2> QED  BY <2>1, ElementTyped
<1>4. /\ rc \in Seq(Cell) /\ Len(rc) = Len(ts) + 1 /\ rc[1] = PlayerCell(Table[i].player)
      /\ \A c \in DOMAIN ts : rc[c + 1] = ts[c]
      /\ RowChunk(i).numbers # <<>> /\ Head(RowChunk(i).numbers) = Table[i].total
  <2>1. RowChunk(i) \in Chunk
    BY RowChunkTyped
  <2>2. rc \in Seq(Cell)
    BY <1>1, <2>1 DEF Chunk
  <2> QED  BY <1>1, <1>2, <2>2, RowChunkTyped
<1>5. DOMAIN rc = 1..Len(rc) /\ \A c \in DOMAIN ts : c + 1 \in DOMAIN rc /\ c + 1 # 1
  BY <1>3, <1>4
<1>6. PICK cells \in Seq(Cell) : cells = chunk.cells
  BY DEF Chunk
<1>7. /\ cells # <<>> /\ Len(cells) \in Nat /\ Len(cells) >= 2 /\ chunk.numbers # <<>>
      /\ Links(cells) # {}
  BY <1>6 DEF Skipped, Refused
<1>8. PICK at : at = PlayerAt(cells)
  OBVIOUS
<1>9. at \in DOMAIN cells /\ entries = Entries(cells, at, Blocks)
  BY <1>6, <1>7, <1>8, PlayerFound
<1>10. Blocks \in Header
  BY BlocksAssumption DEF Header
<1>11. rc[1].left /\ rc[1].link # NoLink
  BY <1>3, <1>4 DEF PlayerCell
<1>12. CASE cells = rc
  <2>1. at = 1
    BY <1>1, <1>7, <1>8, <1>11, <1>12, FirstIsPlayer
  <2>2. entries = Entries(RowChunk(i).cells, 1, Blocks)
    BY <1>1, <1>9, <1>12, <2>1
  <2> QED  BY <1>10, <2>2, WrittenMatches
<1>13. CASE /\ chunk.numbers = RowChunk(i).numbers
            /\ \/ \E q \in Player \cup {NoLink} : cells = [rc EXCEPT ![1].link = q]
               \/ cells = [rc EXCEPT ![1].left = FALSE]
  <2>1. Len(cells) = Len(rc) /\ \A c \in DOMAIN rc : c # 1 => cells[c] = rc[c]
    BY <1>4, <1>5, <1>13
  <2>2. Sum(entries) = Table[i].total
    BY <1>4, <1>13
  <2>3. /\ Len(cells) = Len(Table[i].cells) + 1
        /\ \A c \in DOMAIN Table[i].cells : cells[c + 1] = Table[i].cells[c]
    BY <1>2, <1>4, <1>5, <2>1
  <2> QED  BY <1>9, <2>2, <2>3, LaterMatches
<1>14. ASSUME chunk.numbers = RowChunk(i).numbers,
              NEW d \in 2..Len(rc), cells = RemoveAt(rc, d)
       PROVE  Matches(entries, i)
  <2>1. d \in DOMAIN rc /\ 1 \in DOMAIN cells /\ 1 < d
    BY <1>5, <1>7
  <2>2. cells[1] = rc[1]
    <3>1. \A k \in DOMAIN RemoveAt(rc, d) :
             RemoveAt(rc, d)[k] = IF k < d THEN rc[k] ELSE rc[k + 1]
      BY <1>4, <2>1, Removed
    <3> QED  BY <1>14, <2>1, <3>1
  <2>3. at = 1
    BY <1>7, <1>8, <1>11, <2>2, FirstIsPlayer
  <2>4. Sum(entries) = Table[i].total
    BY <1>4, <1>14
  <2>5. entries = Entries(RemoveAt(rc, d), 1, Blocks)
    BY <1>9, <1>14, <2>3
  <2>6. Len(RemoveAt(rc, d)) >= 1
    BY <1>7, <1>14
  <2>7. /\ Len(rc) = Len(Table[i].cells) + 1
        /\ \A c \in DOMAIN Table[i].cells : rc[c + 1] = Table[i].cells[c]
    BY <1>2, <1>4
  <2> QED  BY <1>4, <2>4, <2>5, <2>6, <2>7, RemovedMatches
<1>15. ASSUME chunk.numbers = RowChunk(i).numbers,
              NEW d \in 2..Len(rc), rc[d].link # NoLink,
              \/ \E m \in Nat : m # rc[d].points /\ cells = [rc EXCEPT ![d].points = m]
              \/ cells = [rc EXCEPT ![d].link = NoLink, ![d].shows = "Absent"]
       PROVE  Matches(entries, i)
  <2>1. d \in DOMAIN rc /\ 1 \in DOMAIN rc /\ 1 # d
    BY <1>5
  <2>2. Len(cells) = Len(rc) /\ \A c \in DOMAIN rc : c # d => cells[c] = rc[c]
    BY <1>4, <1>5, <1>15
  <2>3. at = 1
    <3>1. cells[1] = rc[1]
      BY <2>1, <2>2
    <3> QED  BY <1>7, <1>8, <1>11, <3>1, FirstIsPlayer
  <2>4. Sum(entries) = Table[i].total
    BY <1>4, <1>15
  <2>5. PICK c \in Int : c = d - 1
    OBVIOUS
  <2>6. c \in DOMAIN ts /\ d = c + 1
    BY <1>3, <1>4, <2>5
  <2>7. \A k \in DOMAIN ts : k # c => cells[k + 1] = ts[k]
    <3>1. \A k \in DOMAIN ts : k # c => k + 1 # d
      BY <1>3, <2>6
    <3> QED  BY <1>4, <1>5, <2>2, <3>1
  <2>8. /\ parse_result_cell(cells[c + 1], Columns(Blocks)[c]).points = ts[c].points
        /\ ts[c].points = 0 => Matches(entries, i)
    <3>1. entries = Entries(cells, 1, Blocks)
      BY <1>9, <2>3
    <3>2. Len(cells) = Len(Table[i].cells) + 1 /\ c \in DOMAIN Table[i].cells
      BY <1>2, <1>4, <2>2, <2>6
    <3>3. \A k \in DOMAIN Table[i].cells : k # c => cells[k + 1] = Table[i].cells[k]
      BY <1>2, <2>7
    <3> QED  BY <1>2, <2>4, <3>1, <3>2, <3>3, ChangedMatches
  <2>9. PICK cell \in Cell : cell = rc[d] /\ cell.points = ts[c].points /\ cell.link # NoLink
    BY <1>3, <1>4, <1>15, <2>6
  <2>11. ASSUME NEW m \in Nat, m # rc[d].points, cells = [rc EXCEPT ![d].points = m]
         PROVE  FALSE
    <3>1. cells[d] = [cell EXCEPT !.points = m]
      BY <1>4, <2>1, <2>9, <2>11
    <3>2. cells[d].points = m /\ cells[d].link = cell.link
      BY <3>1 DEF Cell
    <3>3. parse_result_cell(cells[d], Columns(Blocks)[c]).points = m
      BY <2>9, <3>2 DEF parse_result_cell
    <3> QED  BY <2>6, <2>8, <2>9, <2>11, <3>3
  <2>12. CASE cells = [rc EXCEPT ![d].link = NoLink, ![d].shows = "Absent"]
    <3>1. cells[d] = [cell EXCEPT !.link = NoLink, !.shows = "Absent"]
      BY <1>4, <2>1, <2>9, <2>12
    <3>2. cells[d].link = NoLink
      BY <3>1 DEF Cell
    <3>3. parse_result_cell(cells[d], Columns(Blocks)[c]).points = 0
      BY <3>2 DEF parse_result_cell
    <3> QED  BY <2>6, <2>8, <3>3
  <2> QED  BY <1>15, <2>11, <2>12
<1> QED  BY <1>1, <1>6, <1>7, <1>12, <1>13, <1>14, <1>15 DEF OneEdit

\* A breakdown shown after one edit, of its row or of the header, still names
\* every event the player scored in and the points of each (source.rs, the
\* reconciliation in parse_standings): what the edit lost was worth nothing,
\* or the total would not be made.
THEOREM BreakdownsLoseNoPoints == Spec => []LedgersLoseNoPoints
<1>1. IInv => LedgersLoseNoPoints
  <2> SUFFICES ASSUME IInv, Accepted, NEW n \in DOMAIN Rows, Rows[n].results # <<>>,
                      Read(n).of # 0, ~Read(n).foreign, Read(n).edits + LostBlocks <= 1
               PROVE  Scoring(Shown(Rows[n])) = Scoring(Meant(Read(n).of))
    BY DEF LedgersLoseNoPoints
  <2>1. PICK chunk \in Chunk :
           /\ chunk = Read(n) /\ Remains(chunk) /\ ~Skipped(chunk) /\ ~Refused(chunk)
    BY RowsAre
  <2>2. PICK i : i = chunk.of
    OBVIOUS
  <2>3. /\ i \in DOMAIN Table /\ ~chunk.foreign
        /\ chunk.edits = 0 => chunk = RowChunk(i)
        /\ chunk.edits = 1 => OneEdit(chunk.numbers, chunk.cells, i)
    BY <2>1, <2>2 DEF Remains
  <2>4. /\ article.groups \in Header /\ Blocks \in Header
        /\ LostBlocks = 0 => article.groups = Blocks
        /\ LostBlocks \in Nat
    BY HeaderTyped DEF IInv
  <2>5. chunk.edits = 0 \/ (chunk.edits = 1 /\ LostBlocks = 0)
    <3>1. chunk.edits \in Nat /\ chunk.edits + LostBlocks <= 1
      BY <2>1 DEF Chunk
    <3> QED  BY <2>4, <3>1
  <2>6. PICK cells \in Seq(Cell) : \E at \in DOMAIN cells :
           /\ cells = chunk.cells /\ at = PlayerAt(cells)
           /\ Rows[n].results = parse_ledger(cells, at, article.groups)
           /\ Sum(Rows[n].results) = Rows[n].race_points
    BY <2>1, LedgerReconciles
  <2>7. PICK at \in DOMAIN cells :
           /\ cells = chunk.cells /\ at = PlayerAt(cells)
           /\ Rows[n].results = parse_ledger(cells, at, article.groups)
           /\ Sum(Rows[n].results) = Rows[n].race_points
    BY <2>6
  <2>8. PICK entries : entries = Entries(cells, at, article.groups)
    OBVIOUS
  <2>9. Sum(entries) = Head(chunk.numbers)
    <3>1. PICK results : results = parse_ledger(cells, at, article.groups)
      OBVIOUS
    <3>2. Sum(results) = Sum(entries)
      BY <2>4, <2>8, <3>1, LedgerReads
    <3>3. Rows[n].race_points = Head(chunk.numbers)
      BY <2>1, TotalRead
    <3> QED  BY <2>7, <3>1, <3>2, <3>3
  <2>10. Matches(entries, i)
    <3>1. CASE chunk.edits = 0
      <4>1. chunk = RowChunk(i) /\ Head(RowChunk(i).numbers) = Table[i].total
        BY <2>3, <3>1, RowChunkTyped
      <4>2. cells = RowChunk(i).cells /\ Sum(entries) = Table[i].total
        BY <2>7, <2>9, <4>1
      <4>3. at = 1
        <5>1. PICK es : es = Entries(RowChunk(i).cells, 1, Blocks)
          OBVIOUS
        <5> QED  BY <2>3, <2>4, <2>7, <4>2, <5>1, RowEntries
      <4>4. entries = Entries(RowChunk(i).cells, 1, article.groups)
        BY <2>8, <4>2, <4>3
      <4> QED  BY <2>3, <2>4, <4>2, <4>4, WrittenMatches
    <3>2. CASE chunk.edits = 1 /\ LostBlocks = 0
      <4>1. OneEdit(chunk.numbers, chunk.cells, i)
        BY <2>3, <3>2
      <4>2. entries = Entries(chunk.cells, PlayerAt(chunk.cells), Blocks)
        BY <2>4, <2>7, <2>8, <3>2
      <4> QED  BY <2>1, <2>3, <2>9, <4>1, <4>2, OneEditMatches
    <3> QED  BY <2>5, <3>1, <3>2
  <2>11. Matches(Entries(cells, at, article.groups), i)
    BY <2>8, <2>10
  <2>12. Scoring(Shown(Rows[n])) = Scoring(Meant(i))
    BY <2>3, <2>4, <2>7, <2>11, NothingLost
  <2> QED  BY <2>1, <2>2, <2>12
<1> QED  BY <1>1, Invariance, PTL
=============================================================================
