---------------------------- MODULE StoreProofs -----------------------------
(***************************************************************************)
(* Proofs about Store, for every set of callers and candidates: the        *)
(* inductive invariant and what follows from it; then the refinement.      *)
(***************************************************************************)
EXTENDS Store, TLAPS, SequenceTheorems

\* An element of a sequence over S is in S.
LEMMA ElementTyped ==
    ASSUME NEW S, NEW s \in Seq(S), NEW i \in DOMAIN s
    PROVE  s[i] \in S
  OBVIOUS

\* A sequence mapped element by element.
LEMMA MapTyped ==
    ASSUME NEW S, NEW T, NEW s \in Seq(S), NEW f \in [DOMAIN s -> T]
    PROVE  f \in Seq(T)
  OBVIOUS

\* The blank version is a stored version.
LEMMA BlankTyped ==
    ASSUME NEW s \in Snapshot
    PROVE  Blank(s) \in StoredSnapshot
  BY DEF Blank, StoredSnapshot, Snapshot, content_hash

\* The candidate of an idle caller is a snapshot.
LEMMA NoCandidateTyped == NoCandidate \in Snapshot
  BY DEF NoCandidate, Snapshot

\* The image of a caller outside a transaction is well typed.
LEMMA NoImageTyped == NoImage \in [snapshot : StoredSnapshot, pointer : Nat]
  BY BlankTyped, NoCandidateTyped DEF NoImage

GotType == [version : Nat, source_as_of : Nat, generated_at : Nat,
            rows : Seq(Row), previous : Nat, ranks : SUBSET (Player \X Nat)]

\* What a load starts from is well typed.
LEMMA NothingReadTyped == NothingRead \in GotType
  BY DEF NothingRead, GotType

\* The row loop of publish_if_changed keeps the version being written well typed.
LEMMA WithRowTyped ==
    ASSUME NEW s \in StoredSnapshot, NEW row \in Row
    PROVE  WithRow(s, row) \in StoredSnapshot
<1>1. StoredRow(row) \in [code : Player, points : Points]
  BY DEF StoredRow, Row
<1>2. {row.code} \X row.results \in SUBSET (Player \X Entry)
  BY DEF Row
<1>3. s.rows \in Seq([code : Player, points : Points]) /\ s.results \in SUBSET (Player \X Entry)
  BY DEF StoredSnapshot
<1>4. Append(s.rows, StoredRow(row)) \in Seq([code : Player, points : Points])
  BY <1>1, <1>3, AppendProperties
<1>5. s.results \cup ({row.code} \X row.results) \in SUBSET (Player \X Entry)
  BY <1>2, <1>3
<1> QED
  BY <1>4, <1>5 DEF WithRow, StoredSnapshot

\* So does the qualifier loop.
LEMMA WithQualifierTyped ==
    ASSUME NEW s \in StoredSnapshot, NEW q \in Qualifier
    PROVE  WithQualifier(s, q) \in StoredSnapshot
<1>1. Append(s.qualifiers, q) \in Seq(Qualifier)
  BY AppendProperties DEF StoredSnapshot
<1> QED
  BY <1>1 DEF WithQualifier, StoredSnapshot

\* The ranks of a stored table are pairs of players and positions.
LEMMA RanksTyped ==
    ASSUME NEW rows, DOMAIN rows \subseteq Nat,
           \A i \in DOMAIN rows : rows[i].code \in Player
    PROVE  Ranks(rows) \in SUBSET (Player \X Nat)
<1>1. \A i \in DOMAIN rows : <<rows[i].code, i>> \in Player \X Nat
  OBVIOUS
<1> QED
  BY <1>1 DEF Ranks

\* A movement is an integer, if there is one.
LEMMA MovementTyped ==
    ASSUME NEW ranks \in SUBSET (Player \X Nat), NEW code, NEW rank \in Nat
    PROVE  Movement(ranks, code, rank) \in SUBSET Int
  BY DEF Movement

\* Ids have no gaps: the newest version older than v is v - 1.
LEMMA PreviousIsPredecessor ==
    ASSUME snaps \in Seq(StoredSnapshot), NEW v \in DOMAIN snaps
    PROVE  PreviousOf(v) = v - 1
<1> DEFINE P(n) == n < v /\ \A m \in DOMAIN snaps : m < v => m <= n
<1>1. v - 1 \in 0..Len(snaps) /\ P(v - 1)
  OBVIOUS
<1>2. \A n \in 0..Len(snaps) : P(n) => n = v - 1
  <2> SUFFICES ASSUME NEW n \in 0..Len(snaps), P(n) PROVE n = v - 1
    OBVIOUS
  <2>1. CASE v = 1
    BY <2>1
  <2>2. CASE v # 1
    <3>1. v - 1 \in DOMAIN snaps
      BY <2>2
    <3> QED
      BY <3>1
  <2> QED
    BY <2>1, <2>2
<1> QED
  BY <1>1, <1>2 DEF PreviousOf

\* An empty database satisfies the invariant.
LEMMA InitInv == Init => IInv
<1> SUFFICES ASSUME Init PROVE IInv
  OBVIOUS
<1>1. TypeOK
  BY NoCandidateTyped, NoImageTyped, NothingReadTyped
  DEF Init, TypeOK, Phase, Answer, GotType
<1>2. Locked
  BY DEF Init, Locked, PointerAtNewest, Writing
<1>3. StillNew
  BY DEF Init, StillNew, Writing
<1>4. Copying
  BY DEF Init, Copying, Writing, InTransaction
<1>5. CommittedWhole /\ NoRepeat
  BY DEF Init, CommittedWhole, NoRepeat
<1>6. Reading
  BY DEF Init, Reading, Loading
<1> QED
  BY <1>1, <1>2, <1>3, <1>4, <1>5, <1>6 DEF IInv

------------------------------------------------------------------------------
\* Return resets a caller's locals to typed values.
LEMMA ReturnTyped ==
    ASSUME TypeOK, NEW c \in Client, NEW a \in Answer, Return(c, a)
    PROVE  /\ phase' \in [Client -> Phase]
           /\ cand' \in [Client -> Snapshot]
           /\ seen' \in [Client -> Nat]
           /\ image' \in [Client -> [snapshot : StoredSnapshot, pointer : Nat]]
           /\ got' \in [Client -> GotType]
           /\ answer' \in [Client -> Answer]
  BY NoCandidateTyped, NoImageTyped, NothingReadTyped
  DEF TypeOK, Return, Goto, Phase, GotType

\* Every statement keeps the types.
LEMMA TypeStep == IInv /\ [Next]_vars => TypeOK'
<1> SUFFICES ASSUME IInv, [Next]_vars PROVE TypeOK'
  OBVIOUS
<1> USE DEF IInv
<1>0. CASE UNCHANGED vars
  BY <1>0 DEF vars, TypeOK
<1>1. ASSUME NEW c \in Client, NEW s \in Candidate, StartPublish(c, s) PROVE TypeOK'
  BY <1>1, CandidateAssumption DEF StartPublish, Goto, TypeOK, Phase, Answer
<1>2. ASSUME NEW c \in Client, StartLoad(c) PROVE TypeOK'
  BY <1>2 DEF StartLoad, Goto, TypeOK, Phase, Answer
<1>3. ASSUME NEW c \in Client, Fail(c) PROVE TypeOK'
  BY <1>3, ReturnTyped DEF Fail, TypeOK, Answer, GotType
<1>4. ASSUME NEW c \in Client, Begin(c) PROVE TypeOK'
  BY <1>4 DEF Begin, Continue, Goto, TypeOK, Phase, InTransaction
<1>5. ASSUME NEW c \in Client, SelectCurrent(c) PROVE TypeOK'
  <2>1. Published(ptr, FALSE) \in Answer
    BY DEF TypeOK, Answer, Published
  <2>2. CASE Return(c, Published(ptr, FALSE))
    BY <1>5, <2>1, <2>2, ReturnTyped DEF SelectCurrent, TypeOK, GotType
  <2>3. CASE Continue(c, "snapshot") /\ seen' = [seen EXCEPT ![c] = Len(snaps)]
                                     /\ UNCHANGED <<cand, image, got>>
    BY <1>5, <2>3 DEF SelectCurrent, Continue, Goto, TypeOK, Phase, InTransaction
  <2> QED
    BY <1>5, <2>2, <2>3 DEF SelectCurrent
<1>6. ASSUME NEW c \in Client, InsertSnapshot(c) PROVE TypeOK'
  BY <1>6, BlankTyped DEF InsertSnapshot, Continue, Goto, TypeOK, Phase, InTransaction, Writing
<1>7. ASSUME NEW c \in Client, Busy(c) PROVE TypeOK'
  BY <1>7, ReturnTyped DEF Busy, TypeOK, Answer, GotType
<1>8. ASSUME NEW c \in Client, InsertRow(c) PROVE TypeOK'
  <2>1. NextRow(c) \in Row
    BY <1>8 DEF InsertRow, NextRow, RowsLeft, TypeOK, Snapshot, StoredSnapshot
  <2>2. WithRow(image[c].snapshot, NextRow(c)) \in StoredSnapshot
    BY <2>1, WithRowTyped DEF TypeOK
  <2> QED
    BY <1>8, <2>2 DEF InsertRow, TypeOK
<1>9. ASSUME NEW c \in Client, InsertQualifier(c) PROVE TypeOK'
  <2>1. NextQualifier(c) \in Qualifier
    BY <1>9 DEF InsertQualifier, QualifiersLeft, NextQualifier, TypeOK, Snapshot, StoredSnapshot
  <2>2. WithQualifier(image[c].snapshot, NextQualifier(c)) \in StoredSnapshot
    BY <2>1, WithQualifierTyped DEF TypeOK
  <2> QED
    BY <1>9, <2>2 DEF InsertQualifier, TypeOK
<1>10. ASSUME NEW c \in Client, RejectQualifier(c) PROVE TypeOK'
  BY <1>10, ReturnTyped DEF RejectQualifier, TypeOK, Answer, GotType
<1>11. ASSUME NEW c \in Client, MovePointer(c) PROVE TypeOK'
  <2>1. [image[c] EXCEPT !.pointer = Len(snaps) + 1] \in [snapshot : StoredSnapshot, pointer : Nat]
    <3>1. image[c] \in [snapshot : StoredSnapshot, pointer : Nat] /\ Len(snaps) + 1 \in Nat
      BY DEF TypeOK
    <3> QED
      BY <3>1
  <2>2. image' = [image EXCEPT ![c] = [image[c] EXCEPT !.pointer = Len(snaps) + 1]]
    BY <1>11 DEF MovePointer
  <2> QED
    BY <1>11, <2>1, <2>2 DEF MovePointer, Continue, Goto, TypeOK, Phase, InTransaction, Writing
<1>12. ASSUME NEW c \in Client, Commit(c) PROVE TypeOK'
  <2>1. Published(Len(snaps) + 1, TRUE) \in Answer
    BY DEF TypeOK, Answer, Published
  <2>2. image[c].snapshot \in StoredSnapshot /\ image[c].pointer \in Nat
    BY DEF TypeOK
  <2>3. snaps' \in Seq(StoredSnapshot) /\ ptr' \in Nat
    BY <1>12, <2>2, AppendProperties DEF Commit, TypeOK
  <2>4. Return(c, Published(Len(snaps) + 1, TRUE))
    BY <1>12 DEF Commit
  <2> QED
    BY <2>1, <2>3, <2>4, ReturnTyped DEF TypeOK, GotType
<1>13. ASSUME NEW c \in Client, LoadMeta(c) PROVE TypeOK'
  <2>1. CASE Return(c, Empty)
    BY <1>13, <2>1, ReturnTyped DEF LoadMeta, TypeOK, Answer, GotType
  <2>2. CASE ptr # 0
    <3>1. snaps[ptr] \in StoredSnapshot
      BY <2>2 DEF TypeOK, Locked, PointerAtNewest
    <3>2. [NothingRead EXCEPT !.version      = ptr,
                              !.source_as_of = snaps[ptr].source_as_of,
                              !.generated_at = snaps[ptr].generated_at] \in GotType
      BY <3>1, NothingReadTyped DEF GotType, StoredSnapshot, TypeOK
    <3>3. CASE Continue(c, "rows")
      BY <1>13, <2>2, <3>2, <3>3
      DEF LoadMeta, Continue, Goto, TypeOK, Phase, Loading, GotType
    <3> QED
      BY <1>13, <2>2, <3>3 DEF LoadMeta
  <2> QED
    BY <1>13, <2>1, <2>2 DEF LoadMeta
<1>14. ASSUME NEW c \in Client, LoadRows(c) PROVE TypeOK'
  <2> DEFINE rows == snaps[got[c].version].rows
  <2>1. rows \in Seq([code : Player, points : Points])
    <3>1. got[c].version \in DOMAIN snaps
      BY <1>14 DEF LoadRows, Query, Reading, Loading
    <3>2. snaps[got[c].version] \in StoredSnapshot
      BY <3>1 DEF TypeOK
    <3> QED
      BY <3>2 DEF StoredSnapshot
  <2>2. \A i \in DOMAIN rows : BareRow(rows[i]) \in Row
    <3> SUFFICES ASSUME NEW i \in DOMAIN rows PROVE BareRow(rows[i]) \in Row
      OBVIOUS
    <3>1. rows[i] \in [code : Player, points : Points]
      BY <2>1, ElementTyped
    <3> QED
      BY <3>1 DEF BareRow, Row
  <2>3. [i \in DOMAIN rows |-> BareRow(rows[i])] \in Seq(Row)
    BY <2>1, <2>2
  <2> QED
    BY <1>14, <2>3 DEF LoadRows, Continue, Goto, TypeOK, Phase, Loading
<1>15. ASSUME NEW c \in Client, LoadResults(c) PROVE TypeOK'
  <2> DEFINE rows    == got[c].rows
             results == snaps[got[c].version].results
  <2>1. \A i \in DOMAIN rows : WithLedger(results, rows[i]) \in Row
    <3> SUFFICES ASSUME NEW i \in DOMAIN rows PROVE WithLedger(results, rows[i]) \in Row
      OBVIOUS
    <3>1. rows[i] \in Row
      BY DEF TypeOK
    <3>2. Ledger(results, rows[i].code) \in SUBSET Entry
      BY DEF Ledger
    <3> QED
      BY <3>1, <3>2 DEF WithLedger, Row
  <2>2. [i \in DOMAIN rows |-> WithLedger(results, rows[i])] \in Seq(Row)
    <3>1. rows \in Seq(Row)
      BY DEF TypeOK
    <3> HIDE DEF rows, results
    <3> QED
      BY <2>1, <3>1
  <2> QED
    BY <1>15, <2>2 DEF LoadResults, Continue, Goto, TypeOK, Phase, Loading
<1>16. ASSUME NEW c \in Client, LoadPrevious(c) PROVE TypeOK'
  <2>1. got[c].version \in DOMAIN snaps
    BY <1>16 DEF LoadPrevious, Query, Reading, Loading
  <2>2. PreviousOf(got[c].version) \in Nat
    BY <2>1, PreviousIsPredecessor DEF TypeOK
  <2> QED
    BY <1>16, <2>2 DEF LoadPrevious, Continue, Goto, TypeOK, Phase, Loading
<1>17. ASSUME NEW c \in Client, LoadRanks(c) PROVE TypeOK'
  <2> DEFINE rows == snaps[got[c].previous].rows
  <2>1. rows \in Seq([code : Player, points : Points])
    <3>1. got[c].previous \in DOMAIN snaps
      <4>1. got[c].version \in DOMAIN snaps /\ got[c].version > 1
               /\ got[c].previous = got[c].version - 1
        BY <1>17 DEF LoadRanks, Query, Reading, ReadOf, Loading
      <4> QED
        BY <4>1 DEF TypeOK
    <3>2. snaps[got[c].previous] \in StoredSnapshot
      BY <3>1 DEF TypeOK
    <3> QED
      BY <3>2 DEF StoredSnapshot
  <2>2. Ranks(rows) \in SUBSET (Player \X Nat)
    <3>1. DOMAIN rows \subseteq Nat /\ \A i \in DOMAIN rows : rows[i].code \in Player
      <4> HIDE DEF rows
      <4>1. \A i \in DOMAIN rows : rows[i] \in [code : Player, points : Points]
        BY <2>1, ElementTyped
      <4> QED
        BY <2>1, <4>1
    <3> QED
      BY <3>1, RanksTyped
  <2> QED
    BY <1>17, <2>2 DEF LoadRanks, Continue, Goto, TypeOK, Phase, Loading
<1>18. ASSUME NEW c \in Client, LoadQualifiers(c) PROVE TypeOK'
  <2> DEFINE rows == got[c].rows
             qs   == snaps[got[c].version].qualifiers
             moved == [i \in DOMAIN rows |->
                          [row      |-> rows[i],
                           movement |-> Movement(got[c].ranks, rows[i].code, i)]]
             view == [version      |-> got[c].version,
                      source_as_of |-> got[c].source_as_of,
                      generated_at |-> got[c].generated_at,
                      rows         |-> moved,
                      qualifiers   |-> Range(qs)]
  <2>1. \A i \in DOMAIN rows :
           [row |-> rows[i], movement |-> Movement(got[c].ranks, rows[i].code, i)]
             \in [row : Row, movement : SUBSET Int]
    BY MovementTyped DEF TypeOK
  <2>2. moved \in Seq([row : Row, movement : SUBSET Int])
    <3>1. rows \in Seq(Row)
      BY DEF TypeOK
    <3>2. moved \in [DOMAIN rows -> [row : Row, movement : SUBSET Int]]
      BY <2>1
    <3> HIDE DEF moved, rows
    <3> QED
      BY <3>1, <3>2, MapTyped
  <2>3. Range(qs) \in SUBSET Qualifier
    <3>1. got[c].version \in DOMAIN snaps
      BY <1>18 DEF LoadQualifiers, Query, Reading, Loading
    <3>2. snaps[got[c].version] \in StoredSnapshot
      BY <3>1 DEF TypeOK
    <3>3. qs \in Seq(Qualifier)
      BY <3>2 DEF StoredSnapshot
    <3> QED
      BY <3>3 DEF Range
  <2>4. Loaded(view) \in Answer
    <3>1. view \in ViewOfVersion
      BY <2>2, <2>3 DEF ViewOfVersion, TypeOK
    <3> QED
      BY <3>1 DEF Answer, Loaded
  <2>5. Return(c, Loaded(view))
    BY <1>18 DEF LoadQualifiers
  <2> QED
    BY <1>18, <2>4, <2>5, ReturnTyped DEF LoadQualifiers, TypeOK, GotType
<1> QED
  BY <1>0, <1>1, <1>2, <1>3, <1>4, <1>5, <1>6, <1>7, <1>8, <1>9, <1>10, <1>11, <1>12,
     <1>13, <1>14, <1>15, <1>16, <1>17, <1>18
  DEF Next, Turn, Step, Publishing, LoadingStep

------------------------------------------------------------------------------
\* A caller's turn leaves the other callers alone.
LeavesAlone(d) ==
    /\ phase'[d] = phase[d] /\ cand'[d] = cand[d] /\ seen'[d] = seen[d]
    /\ image'[d] = image[d] /\ got'[d] = got[d] /\ answer'[d] = answer[d]

\* A step of one caller leaves the others' locals alone.
LEMMA Frame ==
    ASSUME TypeOK, NEW c \in Client, NEW d \in Client, d # c, Turn(c)
    PROVE  LeavesAlone(d)
<1> USE DEF TypeOK, LeavesAlone, Return, Continue, Goto
<1>1. ASSUME NEW s \in Candidate, StartPublish(c, s) PROVE LeavesAlone(d)
  BY <1>1 DEF StartPublish
<1>2. CASE StartLoad(c)
  BY <1>2 DEF StartLoad
<1>3. CASE Fail(c)
  BY <1>3 DEF Fail
<1>4. CASE Begin(c)
  BY <1>4 DEF Begin
<1>5. CASE SelectCurrent(c)
  BY <1>5 DEF SelectCurrent
<1>6. CASE InsertSnapshot(c)
  BY <1>6 DEF InsertSnapshot
<1>7. CASE Busy(c)
  BY <1>7 DEF Busy
<1>8. CASE InsertRow(c)
  BY <1>8 DEF InsertRow
<1>9. CASE InsertQualifier(c)
  BY <1>9 DEF InsertQualifier
<1>10. CASE RejectQualifier(c)
  BY <1>10 DEF RejectQualifier
<1>11. CASE MovePointer(c)
  BY <1>11 DEF MovePointer
<1>12. CASE Commit(c)
  BY <1>12 DEF Commit
<1>13. CASE LoadMeta(c)
  BY <1>13 DEF LoadMeta
<1>14. CASE LoadRows(c)
  BY <1>14 DEF LoadRows
<1>15. CASE LoadResults(c)
  BY <1>15 DEF LoadResults
<1>16. CASE LoadPrevious(c)
  BY <1>16 DEF LoadPrevious
<1>17. CASE LoadRanks(c)
  BY <1>17 DEF LoadRanks
<1>18. CASE LoadQualifiers(c)
  BY <1>18 DEF LoadQualifiers
<1> QED
  BY <1>1, <1>2, <1>3, <1>4, <1>5, <1>6, <1>7, <1>8, <1>9, <1>10, <1>11, <1>12, <1>13, <1>14, <1>15, <1>16, <1>17, <1>18
  DEF Turn, Step, Publishing, LoadingStep

\* Only a commit changes the database.
LEMMA OnlyCommitWrites ==
    ASSUME NEW c \in Client, Turn(c), ~Commit(c)
    PROVE  UNCHANGED <<snaps, ptr>>
<1>1. ASSUME NEW s \in Candidate, StartPublish(c, s) PROVE UNCHANGED <<snaps, ptr>>
  BY <1>1 DEF StartPublish
<1>2. CASE StartLoad(c)
  BY <1>2 DEF StartLoad
<1>3. CASE Fail(c)
  BY <1>3 DEF Fail
<1>4. CASE Begin(c)
  BY <1>4 DEF Begin
<1>5. CASE SelectCurrent(c)
  BY <1>5 DEF SelectCurrent
<1>6. CASE InsertSnapshot(c)
  BY <1>6 DEF InsertSnapshot
<1>7. CASE Busy(c)
  BY <1>7 DEF Busy
<1>8. CASE InsertRow(c)
  BY <1>8 DEF InsertRow
<1>9. CASE InsertQualifier(c)
  BY <1>9 DEF InsertQualifier
<1>10. CASE RejectQualifier(c)
  BY <1>10 DEF RejectQualifier
<1>11. CASE MovePointer(c)
  BY <1>11 DEF MovePointer
<1>12. CASE LoadMeta(c)
  BY <1>12 DEF LoadMeta
<1>13. CASE LoadRows(c)
  BY <1>13 DEF LoadRows
<1>14. CASE LoadResults(c)
  BY <1>14 DEF LoadResults
<1>15. CASE LoadPrevious(c)
  BY <1>15 DEF LoadPrevious
<1>16. CASE LoadRanks(c)
  BY <1>16 DEF LoadRanks
<1>17. CASE LoadQualifiers(c)
  BY <1>17 DEF LoadQualifiers
<1> QED
  BY <1>1, <1>2, <1>3, <1>4, <1>5, <1>6, <1>7, <1>8, <1>9, <1>10, <1>11, <1>12, <1>13,
     <1>14, <1>15, <1>16, <1>17
     DEF Turn, Step, Publishing, LoadingStep

\* Every other turn leaves the caller outside of a transaction that has passed
\* the hash comparison.
LEMMA OthersLeave ==
    ASSUME TypeOK, NEW c \in Client, Turn(c)
    PROVE  \/ SelectCurrent(c) \/ InsertSnapshot(c) \/ InsertRow(c)
           \/ InsertQualifier(c) \/ MovePointer(c)
           \/ phase'[c] \notin {"snapshot"} \cup Writing
<1> USE DEF TypeOK, Writing, Return, Continue, Goto
<1>1. ASSUME NEW s \in Candidate, StartPublish(c, s) PROVE phase'[c] \notin {"snapshot"} \cup Writing
  BY <1>1 DEF StartPublish
<1>2. CASE StartLoad(c)
  BY <1>2 DEF StartLoad
<1>3. CASE Fail(c)
  BY <1>3 DEF Fail
<1>4. CASE Begin(c)
  BY <1>4 DEF Begin
<1>5. CASE Busy(c)
  BY <1>5 DEF Busy
<1>6. CASE RejectQualifier(c)
  BY <1>6 DEF RejectQualifier
<1>7. CASE Commit(c)
  BY <1>7 DEF Commit
<1>8. CASE LoadMeta(c)
  BY <1>8 DEF LoadMeta
<1>9. CASE LoadRows(c)
  BY <1>9 DEF LoadRows
<1>10. CASE LoadResults(c)
  BY <1>10 DEF LoadResults
<1>11. CASE LoadPrevious(c)
  BY <1>11 DEF LoadPrevious
<1>12. CASE LoadRanks(c)
  BY <1>12 DEF LoadRanks
<1>13. CASE LoadQualifiers(c)
  BY <1>13 DEF LoadQualifiers
<1> QED
  BY <1>1, <1>2, <1>3, <1>4, <1>5, <1>6, <1>7, <1>8, <1>9, <1>10, <1>11, <1>12, <1>13
     DEF Turn, Step, Publishing, LoadingStep

\* Every other turn leaves the caller outside of a publication.
LEMMA OthersRest ==
    ASSUME TypeOK, NEW c \in Client, Turn(c)
    PROVE  \/ \E s \in Candidate : StartPublish(c, s)
           \/ Begin(c) \/ SelectCurrent(c) \/ InsertSnapshot(c) \/ InsertRow(c)
           \/ InsertQualifier(c) \/ MovePointer(c)
           \/ phase'[c] \notin {"begin"} \cup InTransaction
<1> USE DEF TypeOK, InTransaction, Writing, Return, Continue, Goto
<1>3. CASE StartLoad(c)
  BY <1>3 DEF StartLoad
<1>4. CASE Fail(c)
  BY <1>4 DEF Fail
<1>5. CASE Busy(c)
  BY <1>5 DEF Busy
<1>6. CASE RejectQualifier(c)
  BY <1>6 DEF RejectQualifier
<1>7. CASE Commit(c)
  BY <1>7 DEF Commit
<1>8. CASE LoadMeta(c)
  BY <1>8 DEF LoadMeta
<1>9. CASE LoadRows(c)
  BY <1>9 DEF LoadRows
<1>10. CASE LoadResults(c)
  BY <1>10 DEF LoadResults
<1>11. CASE LoadPrevious(c)
  BY <1>11 DEF LoadPrevious
<1>12. CASE LoadRanks(c)
  BY <1>12 DEF LoadRanks
<1>13. CASE LoadQualifiers(c)
  BY <1>13 DEF LoadQualifiers
<1> QED
  BY <1>3, <1>4, <1>5, <1>6, <1>7, <1>8, <1>9, <1>10, <1>11, <1>12, <1>13
     DEF Turn, Step, Publishing, LoadingStep

\* Every statement keeps the write lock exclusive and the pointer at the newest version.
LEMMA LockedStep == IInv /\ [Next]_vars => Locked'
<1> SUFFICES ASSUME IInv, [Next]_vars PROVE Locked'
  OBVIOUS
<1>0. CASE UNCHANGED vars
  BY <1>0 DEF vars, IInv, Locked, PointerAtNewest
<1>1. ASSUME NEW c \in Client, Turn(c) PROVE Locked'
  <2> USE DEF IInv
  <2> TypeOK' BY TypeStep
  <2>f. \A d \in Client : d # c => LeavesAlone(d)
    BY <1>1, Frame
  <2>1. CASE Commit(c)
    <3>1. /\ Len(snaps') = Len(snaps) + 1
          /\ ptr' = Len(snaps')
      BY <2>1, AppendProperties DEF Commit, TypeOK, Locked
    <3>2. phase'[c] = "idle" /\ seen'[c] = 0
      BY <2>1 DEF Commit, Return, Goto, TypeOK
    <3>3. \A d \in Client : phase'[d] \notin Writing
      BY <2>f, <2>1, <3>2 DEF LeavesAlone, Commit, Locked, Writing
    <3>4. \A d \in Client : seen'[d] <= Len(snaps')
      <4> TAKE d \in Client
      <4>1. seen[d] <= Len(snaps) /\ seen[d] \in Nat /\ Len(snaps) \in Nat
        BY DEF Locked, TypeOK
      <4>2. seen'[d] = seen[d] \/ seen'[d] = 0
        BY <2>f, <3>2 DEF LeavesAlone
      <4> QED
        BY <3>1, <4>1, <4>2
    <3> QED
      BY <3>1, <3>3, <3>4 DEF Locked, PointerAtNewest, Writing
  <2>2. CASE ~Commit(c)
    <3>0. UNCHANGED <<snaps, ptr>>
      BY <1>1, <2>2, OnlyCommitWrites
    <3> DEFINE Here == /\ seen'[c] <= Len(snaps)
                       /\ phase'[c] \in Writing =>
                             /\ seen'[c] = Len(snaps)
                             /\ \A d \in Client \ {c} : phase[d] \notin Writing
                       /\ phase'[c] = "commit" => image'[c].pointer = Len(snaps) + 1
    <3>1. SUFFICES Here
      BY <2>f, <3>0, <3>1 DEF LeavesAlone, Locked, PointerAtNewest, Writing
    <3> USE DEF Locked, TypeOK, Writing, Return, Continue, Goto
    <3>2. ASSUME NEW s \in Candidate, StartPublish(c, s) PROVE Here
      BY <3>2 DEF StartPublish
    <3>3. CASE StartLoad(c)
      BY <3>3 DEF StartLoad
    <3>4. CASE Fail(c)
      BY <3>4 DEF Fail
    <3>5. CASE Begin(c)
      BY <3>5 DEF Begin
    <3>6. CASE SelectCurrent(c)
      <4>1. CASE Unchanged(c)
        BY <3>6, <4>1 DEF SelectCurrent
      <4>2. CASE ~Unchanged(c)
        <5>1. /\ phase' = [phase EXCEPT ![c] = "snapshot"]
              /\ seen' = [seen EXCEPT ![c] = Len(snaps)]
          BY <3>6, <4>2 DEF SelectCurrent
        <5>2. phase'[c] = "snapshot" /\ seen'[c] = Len(snaps)
          BY <5>1
        <5>3. Len(snaps) \in Nat
          OBVIOUS
        <5> QED
          BY <5>2, <5>3
      <4> QED
        BY <4>1, <4>2
    <3>7. CASE InsertSnapshot(c)
      BY <3>7 DEF InsertSnapshot, MayWrite
    <3>8. CASE Busy(c)
      BY <3>8 DEF Busy
    <3>9. CASE InsertRow(c)
      BY <3>9 DEF InsertRow
    <3>10. CASE InsertQualifier(c)
      BY <3>10 DEF InsertQualifier
    <3>11. CASE RejectQualifier(c)
      BY <3>11 DEF RejectQualifier
    <3>12. CASE MovePointer(c)
      BY <3>12 DEF MovePointer
    <3>13. CASE LoadMeta(c)
      <4>1. CASE ptr = 0
        <5>1. phase' = [phase EXCEPT ![c] = "idle"] /\ seen' = [seen EXCEPT ![c] = 0]
          BY <3>13, <4>1, Zenon DEF LoadMeta
        <5>2. phase'[c] = "idle" /\ seen'[c] = 0 /\ Len(snaps) \in Nat
          BY <5>1
        <5> QED
          BY <5>2
      <4>2. CASE ptr # 0
        <5>1. phase' = [phase EXCEPT ![c] = "rows"] /\ seen' = seen
          BY <3>13, <4>2, Zenon DEF LoadMeta
        <5>2. phase'[c] = "rows" /\ seen'[c] <= Len(snaps)
          BY <5>1
        <5> QED
          BY <5>2
      <4> QED
        BY <4>1, <4>2
    <3>14. CASE LoadRows(c)
      BY <3>14 DEF LoadRows
    <3>15. CASE LoadResults(c)
      BY <3>15 DEF LoadResults
    <3>16. CASE LoadPrevious(c)
      BY <3>16 DEF LoadPrevious
    <3>17. CASE LoadRanks(c)
      BY <3>17 DEF LoadRanks
    <3>18. CASE LoadQualifiers(c)
      BY <3>18 DEF LoadQualifiers
    <3> QED
      BY <1>1, <2>2, <3>2, <3>3, <3>4, <3>5, <3>6, <3>7, <3>8, <3>9, <3>10, <3>11,
         <3>12, <3>13, <3>14, <3>15, <3>16, <3>17, <3>18
         DEF Turn, Step, Publishing, LoadingStep
  <2> QED
    BY <2>1, <2>2
<1> QED
  BY <1>0, <1>1 DEF Next

\* A publication past its comparison stays new until somebody else commits.
LEMMA StillNewStep == IInv /\ [Next]_vars => StillNew'
<1> SUFFICES ASSUME IInv, [Next]_vars PROVE StillNew'
  OBVIOUS
<1>0. CASE UNCHANGED vars
  BY <1>0 DEF vars, IInv, StillNew, Unchanged
<1>1. ASSUME NEW c \in Client, Turn(c) PROVE StillNew'
  <2> SUFFICES ASSUME NEW d \in Client,
                      phase'[d] \in {"snapshot"} \cup Writing, seen'[d] = Len(snaps')
               PROVE  Unchanged(d)' = FALSE
    BY DEF StillNew
  <2> USE DEF IInv
  <2>1. CASE Commit(c)
    <3>1. Len(snaps') = Len(snaps) + 1 /\ phase'[c] = "idle"
      BY <2>1, AppendProperties DEF Commit, Return, Goto, TypeOK
    <3>2. c # d /\ seen'[d] = seen[d]
      BY <3>1, <1>1, Frame DEF LeavesAlone, Writing
    <3> QED
      BY <3>1, <3>2 DEF Locked, TypeOK
  <2>2. CASE ~Commit(c) /\ c # d
    BY <1>1, <2>2, OnlyCommitWrites, Frame DEF LeavesAlone, StillNew, Unchanged
  <2>3. CASE ~Commit(c) /\ c = d
    <3>0. UNCHANGED <<snaps, ptr>>
      BY <1>1, <2>3, OnlyCommitWrites
    <3> USE DEF TypeOK, Writing, Return, Continue, Goto, Unchanged
    <3>1. CASE SelectCurrent(c)
      BY <2>3, <3>0, <3>1 DEF SelectCurrent
    <3>2. CASE InsertSnapshot(c) \/ InsertRow(c) \/ InsertQualifier(c) \/ MovePointer(c)
      BY <2>3, <3>0, <3>2
      DEF InsertSnapshot, InsertRow, InsertQualifier, MovePointer, StillNew
    <3>3. CASE phase'[c] \notin {"snapshot"} \cup Writing
      BY <2>3, <3>3
    <3> QED
      BY <1>1, <3>1, <3>2, <3>3, OthersLeave
  <2> QED
    BY <2>1, <2>2, <2>3
<1> QED
  BY <1>0, <1>1 DEF Next

------------------------------------------------------------------------------
\* Each insert extends the copy of the candidate by one element.
LEMMA CopyRow ==
    ASSUME NEW s \in StoredSnapshot, NEW k \in Snapshot, Copied(s, k),
           Len(s.rows) < Len(k.rows)
    PROVE  Copied(WithRow(s, k.rows[Len(s.rows) + 1]), k)
<1> DEFINE n   == Len(s.rows) + 1
           row == k.rows[n]
           t   == WithRow(s, row)
<1>1. row \in Row /\ StoredRow(row) \in [code : Player, points : Points]
  <2>1. k.rows \in Seq(Row) /\ n \in DOMAIN k.rows
    BY DEF Snapshot, StoredSnapshot
  <2>2. row \in Row
    BY <2>1, ElementTyped
  <2> QED
    BY <2>2 DEF Row, StoredRow
<1>2. s.rows \in Seq([code : Player, points : Points]) /\ s.results \in SUBSET (Player \X Entry)
  BY DEF StoredSnapshot
<1>3. /\ t.rows = Append(s.rows, StoredRow(row))
      /\ t.results = s.results \cup ({row.code} \X row.results)
      /\ t.content_hash = s.content_hash /\ t.qualifiers = s.qualifiers
      /\ t.source_as_of = s.source_as_of /\ t.generated_at = s.generated_at
  BY DEF WithRow, StoredSnapshot
<1>4. /\ Len(t.rows) = n /\ DOMAIN t.rows = 1..n
      /\ \A i \in 1..Len(s.rows) : t.rows[i] = s.rows[i]
      /\ t.rows[n] = StoredRow(row)
  BY <1>1, <1>2, <1>3, AppendProperties
<1>5. DOMAIN s.rows = 1..Len(s.rows) /\ Len(s.rows) \in Nat /\ Len(k.rows) \in Nat
  BY <1>2 DEF Snapshot
<1>6. \A i \in DOMAIN t.rows : t.rows[i] = StoredRow(k.rows[i])
  BY <1>4, <1>5 DEF Copied
<1>7. ASSUME NEW p \in Player, NEW e \in Entry
      PROVE  <<p, e>> \in t.results
               <=> \E i \in DOMAIN t.rows : p = k.rows[i].code /\ e \in k.rows[i].results
  <2>1. <<p, e>> \in t.results
          <=> <<p, e>> \in s.results \/ (p = row.code /\ e \in row.results)
    BY <1>3
  <2>2. <<p, e>> \in s.results
          <=> \E i \in 1..Len(s.rows) : p = k.rows[i].code /\ e \in k.rows[i].results
    BY <1>5 DEF Copied
  <2> DEFINE From(i) == p = k.rows[i].code /\ e \in k.rows[i].results
  <2>3. From(n) <=> p = row.code /\ e \in row.results
    OBVIOUS
  <2>4. DOMAIN t.rows = 1..Len(s.rows) \cup {n}
    BY <1>4, <1>5
  <2> HIDE DEF From, t, row, n
  <2>5. (\E i \in DOMAIN t.rows : From(i)) <=> (\E i \in 1..Len(s.rows) : From(i)) \/ From(n)
    BY <2>4
  <2> QED
    BY <2>1, <2>2, <2>3, <2>5 DEF From
<1> HIDE DEF t
<1> QED
  BY <1>3, <1>4, <1>5, <1>6, <1>7 DEF Copied, t

\* One turn of the qualifier loop keeps the copy, if the key admits it.
LEMMA CopyQualifier ==
    ASSUME NEW s \in StoredSnapshot, NEW k \in Snapshot, Copied(s, k),
           Len(s.qualifiers) < Len(k.qualifiers),
           ~KeyConflict(s.qualifiers, k.qualifiers[Len(s.qualifiers) + 1])
    PROVE  Copied(WithQualifier(s, k.qualifiers[Len(s.qualifiers) + 1]), k)
<1> DEFINE n == Len(s.qualifiers) + 1
           q == k.qualifiers[n]
           t == WithQualifier(s, q)
<1>1. q \in Qualifier /\ s.qualifiers \in Seq(Qualifier)
  BY DEF Snapshot, StoredSnapshot
<1>2. /\ t.rows = s.rows /\ t.results = s.results
      /\ t.content_hash = s.content_hash /\ t.qualifiers = Append(s.qualifiers, q)
      /\ t.source_as_of = s.source_as_of /\ t.generated_at = s.generated_at
  BY DEF WithQualifier, StoredSnapshot
<1>3. /\ Len(t.qualifiers) = n /\ DOMAIN t.qualifiers = 1..n
      /\ \A i \in 1..Len(s.qualifiers) : t.qualifiers[i] = s.qualifiers[i]
      /\ t.qualifiers[n] = q
  BY <1>1, <1>2, AppendProperties
<1>4. /\ DOMAIN s.qualifiers = 1..Len(s.qualifiers) /\ Len(s.qualifiers) \in Nat
      /\ Len(k.qualifiers) \in Nat
  BY <1>1 DEF Snapshot
<1>5. \A i \in 1..Len(s.qualifiers) : s.qualifiers[i].code # q.code
  BY <1>4 DEF KeyConflict
<1>6. \A i \in DOMAIN t.qualifiers : t.qualifiers[i] = k.qualifiers[i]
  BY <1>3, <1>4 DEF Copied
<1>7. \A i, j \in DOMAIN t.qualifiers : t.qualifiers[i].code = t.qualifiers[j].code => i = j
  <2> SUFFICES ASSUME NEW i \in 1..n, NEW j \in 1..n,
                      t.qualifiers[i].code = t.qualifiers[j].code
               PROVE  i = j
    BY <1>3
  <2>1. CASE i \in DOMAIN s.qualifiers /\ j \in DOMAIN s.qualifiers
    BY <2>1, <1>3, <1>4 DEF Copied
  <2>2. CASE i = n
    BY <2>2, <1>3, <1>4, <1>5
  <2>3. CASE j = n
    BY <2>3, <1>3, <1>4, <1>5
  <2> QED
    BY <2>1, <2>2, <2>3, <1>4
<1> HIDE DEF t
<1> QED
  BY <1>2, <1>3, <1>4, <1>6, <1>7 DEF Copied, t

\* A version without rows is a copy of the front of any candidate.
LEMMA CopyBlank ==
    ASSUME NEW k \in Snapshot
    PROVE  Copied(Blank(k), k)
  BY DEF Copied, Blank, Snapshot

\* A finished copy of a valid candidate is whole.
LEMMA CopyWhole ==
    ASSUME NEW s \in StoredSnapshot, NEW k \in Snapshot, ValidRows(k.rows), Copied(s, k),
           Len(s.rows) = Len(k.rows), Len(s.qualifiers) = Len(k.qualifiers)
    PROVE  Whole(s)
<1>1. /\ s.content_hash.rows = k.rows /\ s.content_hash.qualifiers = k.qualifiers
      /\ k.rows \in Seq(Row) /\ k.qualifiers \in Seq(Qualifier)
      /\ s.qualifiers \in Seq(Qualifier)
      /\ DOMAIN s.rows = DOMAIN k.rows
  BY DEF Copied, content_hash, Snapshot, StoredSnapshot
<1>2. s.qualifiers = k.qualifiers
  BY <1>1 DEF Copied
<1>3. ASSUME NEW i \in DOMAIN s.rows
      PROVE  WithLedger(s.results, BareRow(s.rows[i])) = k.rows[i]
  <2>1. k.rows[i] \in Row
    BY <1>1, ElementTyped
  <2>2. BareRow(s.rows[i]) = [code |-> k.rows[i].code, points |-> k.rows[i].points, results |-> {}]
    <3>1. s.rows[i] = StoredRow(k.rows[i])
      BY DEF Copied
    <3> QED
      BY <3>1 DEF StoredRow, BareRow
  <2>3. Ledger(s.results, k.rows[i].code) = k.rows[i].results
    <3>1. ASSUME NEW e \in Entry
          PROVE  <<k.rows[i].code, e>> \in s.results <=> e \in k.rows[i].results
      <4>1. \A j \in DOMAIN s.rows : k.rows[j].code = k.rows[i].code => j = i
        BY <1>1 DEF ValidRows
      <4> QED
        BY <4>1, <2>1 DEF Copied, Row
    <3> QED
      BY <3>1, <2>1 DEF Ledger, Row
  <2> QED
    BY <2>1, <2>2, <2>3 DEF WithLedger, Row
<1> QED
  BY <1>1, <1>2, <1>3 DEF Whole

\* The callers that are copying a candidate are those that were, or have just
\* been given one.
LEMMA CopyingStep == IInv /\ [Next]_vars => Copying'
<1> SUFFICES ASSUME IInv, [Next]_vars PROVE Copying'
  OBVIOUS
<1> DEFINE Here(c) ==
      /\ phase[c] \in {"begin"} \cup InTransaction => cand[c] \in Candidate
      /\ phase[c] \in Writing => Copied(image[c].snapshot, cand[c])
      /\ phase[c] = "commit" => ~RowsLeft(c) /\ ~QualifiersLeft(c)
<1>0. CASE UNCHANGED vars
  BY <1>0 DEF vars, IInv, Copying, RowsLeft, QualifiersLeft
<1>1. ASSUME NEW c \in Client, Turn(c) PROVE Copying'
  <2> USE DEF IInv
  <2>1. ASSUME NEW d \in Client, d # c PROVE Here(d)'
    BY <1>1, <2>1, Frame DEF LeavesAlone, Copying, RowsLeft, QualifiersLeft
  <2>2. Here(c)'
    <3> USE DEF TypeOK, InTransaction, Writing, Return, Continue, Goto
    <3>1. ASSUME NEW s \in Candidate, StartPublish(c, s) PROVE Here(c)'
      BY <3>1 DEF StartPublish
    <3>2. CASE Begin(c) \/ SelectCurrent(c)
      BY <3>2 DEF Begin, SelectCurrent, Copying
    <3>3. CASE InsertSnapshot(c)
      <4>1. /\ phase'[c] = "insert" /\ cand'[c] = cand[c] /\ cand[c] \in Candidate
            /\ image'[c].snapshot = Blank(cand[c])
        BY <3>3 DEF InsertSnapshot, Copying
      <4> QED
        BY <4>1, CopyBlank
    <3>4. CASE InsertRow(c)
      <4>1. /\ phase'[c] = "insert" /\ cand'[c] = cand[c] /\ cand[c] \in Candidate
            /\ image'[c].snapshot = WithRow(image[c].snapshot, NextRow(c))
            /\ Copied(image[c].snapshot, cand[c]) /\ RowsLeft(c)
        BY <3>4 DEF InsertRow, Copying
      <4>2. Copied(image'[c].snapshot, cand[c])
        BY <4>1, CopyRow DEF RowsLeft, NextRow
      <4> QED
        BY <4>1, <4>2
    <3>5. CASE InsertQualifier(c)
      <4>1. /\ phase'[c] = "insert" /\ cand'[c] = cand[c] /\ cand[c] \in Candidate
            /\ image'[c].snapshot = WithQualifier(image[c].snapshot, NextQualifier(c))
            /\ Copied(image[c].snapshot, cand[c]) /\ QualifiersLeft(c)
            /\ ~KeyConflict(image[c].snapshot.qualifiers, NextQualifier(c))
        BY <3>5 DEF InsertQualifier, Copying
      <4>2. Copied(image'[c].snapshot, cand[c])
        BY <4>1, CopyQualifier DEF QualifiersLeft, NextQualifier
      <4> QED
        BY <4>1, <4>2
    <3>6. CASE MovePointer(c)
      <4>1. /\ phase[c] = "insert" /\ cand'[c] = cand[c] /\ ~RowsLeft(c) /\ ~QualifiersLeft(c)
            /\ image'[c].snapshot = image[c].snapshot
        BY <3>6 DEF MovePointer
      <4>2. cand[c] \in Candidate /\ Copied(image[c].snapshot, cand[c])
        BY <4>1 DEF Copying
      <4> QED
        BY <4>1, <4>2 DEF RowsLeft, QualifiersLeft
    <3>7. CASE phase'[c] \notin {"begin"} \cup InTransaction
      BY <3>7
    <3> QED
      BY <1>1, <3>1, <3>2, <3>3, <3>4, <3>5, <3>6, <3>7, OthersRest
  <2> QED
    BY <2>1, <2>2 DEF Copying
<1> QED
  BY <1>0, <1>1 DEF Next

------------------------------------------------------------------------------
\* What a commit appends is a whole version with new content.
LEMMA CommitAppends ==
    ASSUME IInv, NEW c \in Client, Commit(c)
    PROVE  LET s == image[c].snapshot
           IN  /\ s \in StoredSnapshot
               /\ snaps' = Append(snaps, s)
               /\ Whole(s)
               /\ s.content_hash = content_hash(cand[c])
               /\ snaps # <<>> => snaps[Len(snaps)].content_hash # s.content_hash
               /\ DOMAIN snaps' = 1..(Len(snaps) + 1)
               /\ \A n \in DOMAIN snaps : snaps'[n] = snaps[n]
               /\ snaps'[Len(snaps) + 1] = s
<1> USE DEF IInv
<1> DEFINE s == image[c].snapshot
<1>1. /\ s \in StoredSnapshot /\ snaps' = Append(snaps, s) /\ phase[c] = "commit"
      /\ phase[c] \in Writing
  BY DEF Commit, TypeOK, Writing
<1>2. /\ DOMAIN snaps' = 1..(Len(snaps) + 1)
      /\ \A n \in DOMAIN snaps : snaps'[n] = snaps[n]
      /\ snaps'[Len(snaps) + 1] = s
  BY <1>1, AppendProperties DEF TypeOK
<1>3. /\ cand[c] \in Candidate /\ Copied(s, cand[c]) /\ ~RowsLeft(c) /\ ~QualifiersLeft(c)
  BY <1>1 DEF Copying, InTransaction
<1>4. cand[c] \in Snapshot /\ ValidRows(cand[c].rows)
  BY <1>3, CandidateAssumption
<1>5. Len(s.rows) = Len(cand[c].rows) /\ Len(s.qualifiers) = Len(cand[c].qualifiers)
  BY <1>1, <1>3, <1>4 DEF RowsLeft, QualifiersLeft, Copied, StoredSnapshot, Snapshot
<1>6. Whole(s)
  BY <1>1, <1>3, <1>4, <1>5, CopyWhole
<1>7. s.content_hash = content_hash(cand[c])
  BY <1>3 DEF Copied
<1>8. snaps # <<>> => snaps[Len(snaps)].content_hash # s.content_hash
  <2>1. ~Unchanged(c) /\ ptr = Len(snaps)
    BY <1>1 DEF StillNew, Locked, PointerAtNewest
  <2>2. snaps # <<>> => Len(snaps) # 0
    BY DEF TypeOK
  <2> QED
    BY <1>7, <2>1, <2>2 DEF Unchanged
<1> QED
  BY <1>1, <1>2, <1>6, <1>7, <1>8

\* Every statement keeps the versions whole and without repetition.
LEMMA HistoryStep == IInv /\ [Next]_vars => CommittedWhole' /\ NoRepeat'
<1> SUFFICES ASSUME IInv, [Next]_vars PROVE CommittedWhole' /\ NoRepeat'
  OBVIOUS
<1>1. ASSUME UNCHANGED snaps PROVE CommittedWhole' /\ NoRepeat'
  BY <1>1 DEF IInv, CommittedWhole, NoRepeat
<1>2. ASSUME NEW c \in Client, Commit(c) PROVE CommittedWhole' /\ NoRepeat'
  <2> DEFINE s == image[c].snapshot
             n == Len(snaps) + 1
  <2>1. /\ Whole(s) /\ DOMAIN snaps' = 1..n /\ snaps'[n] = s
        /\ \A m \in DOMAIN snaps : snaps'[m] = snaps[m]
        /\ snaps # <<>> => snaps[Len(snaps)].content_hash # s.content_hash
    BY <1>2, CommitAppends
  <2>2. DOMAIN snaps = 1..(n - 1) /\ n \in Nat /\ Len(snaps') = n
    BY <1>2, AppendProperties DEF IInv, TypeOK, Commit
  <2>3. CommittedWhole'
    BY <2>1, <2>2 DEF IInv, CommittedWhole
  <2>4. NoRepeat'
    <3> SUFFICES ASSUME NEW m \in 2..n
                 PROVE  snaps'[m].content_hash # snaps'[m - 1].content_hash
      BY <2>2 DEF NoRepeat
    <3>1. CASE m = n
      BY <2>1, <2>2, <3>1
    <3>2. CASE m # n
      BY <2>1, <2>2, <3>2 DEF IInv, NoRepeat
    <3> QED
      BY <3>1, <3>2
  <2> QED
    BY <2>3, <2>4
<1> QED
  BY <1>1, <1>2, OnlyCommitWrites DEF Next, vars

------------------------------------------------------------------------------
\* Reading back a whole version gives the content it was published with.
LEMMA WholeReadsBack ==
    ASSUME NEW s \in StoredSnapshot, Whole(s)
    PROVE  /\ [i \in DOMAIN s.rows |-> WithLedger(s.results, BareRow(s.rows[i]))]
                 = s.content_hash.rows
           /\ Ranks(s.rows) = Ranks(s.content_hash.rows)
<1> DEFINE rows == s.rows
           content == s.content_hash.rows
<1>1. /\ rows \in Seq([code : Player, points : Points]) /\ content \in Seq(Row)
      /\ DOMAIN rows = DOMAIN content
  BY DEF StoredSnapshot, Whole
<1>2. \A i \in DOMAIN rows : WithLedger(s.results, BareRow(rows[i])) = content[i]
  BY DEF Whole
<1>3. ASSUME NEW i \in DOMAIN rows PROVE rows[i].code = content[i].code
  BY <1>2 DEF WithLedger, BareRow
<1>4. content = [i \in DOMAIN content |-> content[i]]
  BY <1>1
<1> HIDE DEF rows, content
<1>5. [i \in DOMAIN rows |-> WithLedger(s.results, BareRow(rows[i]))] = content
  BY <1>1, <1>2, <1>4
<1>6. Ranks(rows) = Ranks(content)
  BY <1>1, <1>3 DEF Ranks
<1> QED
  BY <1>5, <1>6 DEF rows, content

\* Committed versions do not change, so what has been read stays right.
LEMMA ReadStays ==
    ASSUME TypeOK, NEW d \in Client, phase[d] \in Loading,
           got[d].version \in DOMAIN snaps, ReadOf(d, got[d].version),
           phase'[d] = phase[d], got'[d] = got[d],
           DOMAIN snaps \subseteq DOMAIN snaps',
           \A n \in DOMAIN snaps : snaps'[n] = snaps[n]
    PROVE  got'[d].version \in DOMAIN snaps' /\ ReadOf(d, got[d].version)'
<1> DEFINE v == got[d].version
<1>1. snaps'[v] = snaps[v] /\ got'[d].version = v
  OBVIOUS
<1>2. v # 1 => snaps'[v - 1] = snaps[v - 1]
  BY DEF TypeOK
<1> QED
  BY <1>1, <1>2 DEF ReadOf

\* Only the queries of a load leave the caller in one.
LEMMA OthersDoNotRead ==
    ASSUME TypeOK, NEW c \in Client, Turn(c)
    PROVE  \/ LoadMeta(c) \/ LoadRows(c) \/ LoadResults(c) \/ LoadPrevious(c) \/ LoadRanks(c)
           \/ phase'[c] \notin Loading
<1> USE DEF TypeOK, Loading, Return, Continue, Goto
<1>2. ASSUME NEW s \in Candidate, StartPublish(c, s) PROVE phase'[c] \notin Loading
  BY <1>2 DEF StartPublish
<1>3. CASE StartLoad(c)
  BY <1>3 DEF StartLoad
<1>4. CASE Fail(c)
  BY <1>4 DEF Fail
<1>5. CASE Begin(c)
  BY <1>5 DEF Begin
<1>6. CASE SelectCurrent(c)
  BY <1>6 DEF SelectCurrent
<1>7. CASE InsertSnapshot(c)
  BY <1>7 DEF InsertSnapshot
<1>8. CASE Busy(c)
  BY <1>8 DEF Busy
<1>9. CASE InsertRow(c)
  BY <1>9 DEF InsertRow
<1>10. CASE InsertQualifier(c)
  BY <1>10 DEF InsertQualifier
<1>11. CASE RejectQualifier(c)
  BY <1>11 DEF RejectQualifier
<1>12. CASE MovePointer(c)
  BY <1>12 DEF MovePointer
<1>13. CASE Commit(c)
  BY <1>13 DEF Commit
<1>14. CASE LoadQualifiers(c)
  BY <1>14 DEF LoadQualifiers
<1> QED
  BY <1>2, <1>3, <1>4, <1>5, <1>6, <1>7, <1>8, <1>9, <1>10, <1>11, <1>12, <1>13, <1>14
     DEF Turn, Step, Publishing, LoadingStep

\* Every statement keeps a load's partial answer that of one version.
LEMMA ReadingStep == IInv /\ [Next]_vars => Reading'
<1> SUFFICES ASSUME IInv, [Next]_vars PROVE Reading'
  OBVIOUS
<1> USE DEF IInv
<1> DEFINE Here(d) == phase[d] \in Loading =>
                         got[d].version \in DOMAIN snaps /\ ReadOf(d, got[d].version)
<1>0. CASE UNCHANGED vars
  <2>1. ASSUME NEW d \in Client PROVE Here(d)'
    BY <1>0, ReadStays DEF vars, Reading
  <2> QED
    BY <2>1 DEF Reading
<1>1. ASSUME NEW c \in Client, Turn(c) PROVE Reading'
  <2>1. /\ DOMAIN snaps \subseteq DOMAIN snaps'
        /\ \A n \in DOMAIN snaps : snaps'[n] = snaps[n]
    <3>1. CASE Commit(c)
      BY <3>1, CommitAppends DEF TypeOK
    <3>2. CASE ~Commit(c)
      BY <1>1, <3>2, OnlyCommitWrites
    <3> QED
      BY <3>1, <3>2
  <2>2. ASSUME NEW d \in Client, d # c PROVE Here(d)'
    BY <1>1, <2>1, <2>2, Frame, ReadStays DEF LeavesAlone, Reading
  <2>3. Here(c)'
    <3> DEFINE v == got[c].version
    <3> USE DEF TypeOK, Continue, Goto, Query, Loading
    <3>1. CASE LoadMeta(c)
      <4>1. CASE phase'[c] \notin Loading
        BY <4>1
      <4>2. CASE ptr # 0
        <5>1. ptr \in DOMAIN snaps
          BY <4>2 DEF Locked, PointerAtNewest
        <5>2. CASE Continue(c, "rows")
          <6>1. /\ phase'[c] = "rows" /\ snaps' = snaps
                /\ got'[c].version = ptr /\ got'[c].ranks = {}
                /\ got'[c].source_as_of = snaps[ptr].source_as_of
                /\ got'[c].generated_at = snaps[ptr].generated_at
            BY <3>1, <4>2, <5>2 DEF LoadMeta, NothingRead
          <6> QED
            BY <5>1, <6>1 DEF ReadOf
        <5> QED
          BY <3>1, <4>2, <5>2 DEF LoadMeta
      <4> QED
        BY <3>1, <4>1, <4>2 DEF LoadMeta, Return
    <3>2. CASE LoadRows(c)
      <4>1. /\ phase[c] = "rows" /\ phase'[c] = "results" /\ snaps' = snaps
            /\ got'[c] = [got[c] EXCEPT !.rows =
                             [i \in DOMAIN snaps[v].rows |-> BareRow(snaps[v].rows[i])]]
        BY <3>2 DEF LoadRows
      <4>2. v \in DOMAIN snaps /\ ReadOf(c, v)
        BY <4>1 DEF Reading
      <4> QED
        BY <4>1, <4>2 DEF ReadOf
    <3>3. CASE LoadResults(c)
      <4>1. /\ phase[c] = "results" /\ phase'[c] = "previous" /\ snaps' = snaps
            /\ got'[c] = [got[c] EXCEPT !.rows =
                  [i \in DOMAIN got[c].rows |-> WithLedger(snaps[v].results, got[c].rows[i])]]
        BY <3>3 DEF LoadResults
      <4>2. v \in DOMAIN snaps /\ ReadOf(c, v)
        BY <4>1 DEF Reading
      <4>3. [i \in DOMAIN got[c].rows |-> WithLedger(snaps[v].results, got[c].rows[i])]
              = snaps[v].content_hash.rows
        <5>1. Whole(snaps[v]) /\ snaps[v] \in StoredSnapshot
          BY <4>2 DEF CommittedWhole
        <5>2. got[c].rows = [i \in DOMAIN snaps[v].rows |-> BareRow(snaps[v].rows[i])]
          BY <4>1, <4>2 DEF ReadOf
        <5> QED
          BY <5>1, <5>2, WholeReadsBack
      <4> QED
        BY <4>1, <4>2, <4>3 DEF ReadOf
    <3>4. CASE LoadPrevious(c)
      <4>1. /\ phase[c] = "previous" /\ snaps' = snaps
            /\ phase'[c] = IF PreviousOf(v) = 0 THEN "qualifiers" ELSE "ranks"
            /\ got'[c] = [got[c] EXCEPT !.previous = PreviousOf(v)]
        BY <3>4 DEF LoadPrevious
      <4>2. v \in DOMAIN snaps /\ ReadOf(c, v)
        BY <4>1 DEF Reading
      <4>3. PreviousOf(v) = v - 1 /\ v \in Nat \ {0}
        BY <4>2, PreviousIsPredecessor
      <4>4. /\ got'[c].version = v /\ got'[c].previous = v - 1 /\ got'[c].ranks = {}
            /\ got'[c].source_as_of = snaps[v].source_as_of
            /\ got'[c].generated_at = snaps[v].generated_at
            /\ got'[c].rows = snaps[v].content_hash.rows
        BY <4>1, <4>2, <4>3 DEF ReadOf
      <4>5. CASE v = 1
        <5>1. phase'[c] = "qualifiers"
          BY <4>1, <4>3, <4>5
        <5> QED
          BY <4>1, <4>2, <4>4, <4>5, <5>1 DEF ReadOf
      <4>6. CASE v # 1
        <5>1. phase'[c] = "ranks" /\ v > 1
          BY <4>1, <4>3, <4>6
        <5> QED
          BY <4>1, <4>2, <4>4, <4>6, <5>1 DEF ReadOf
      <4> QED
        BY <4>5, <4>6
    <3>5. CASE LoadRanks(c)
      <4>1. /\ phase[c] = "ranks" /\ phase'[c] = "qualifiers" /\ snaps' = snaps
            /\ got'[c] = [got[c] EXCEPT !.ranks = Ranks(snaps[got[c].previous].rows)]
        BY <3>5 DEF LoadRanks
      <4>2. v \in DOMAIN snaps /\ ReadOf(c, v)
        BY <4>1 DEF Reading
      <4>3. v > 1 /\ got[c].previous = v - 1 /\ v - 1 \in DOMAIN snaps
        BY <4>1, <4>2 DEF ReadOf
      <4>4. Ranks(snaps[v - 1].rows) = Ranks(snaps[v - 1].content_hash.rows)
        <5>1. Whole(snaps[v - 1]) /\ snaps[v - 1] \in StoredSnapshot
          BY <4>3 DEF CommittedWhole
        <5> QED
          BY <5>1, WholeReadsBack
      <4> QED
        BY <4>1, <4>2, <4>3, <4>4 DEF ReadOf
    <3>6. CASE phase'[c] \notin Loading
      BY <3>6
    <3> QED
      BY <1>1, <3>1, <3>2, <3>3, <3>4, <3>5, <3>6, OthersDoNotRead
  <2> QED
    BY <2>2, <2>3 DEF Reading
<1> QED
  BY <1>0, <1>1 DEF Next

------------------------------------------------------------------------------
(* The theorems.                                                           *)

\* The inductive invariant holds of every behaviour.
THEOREM Invariance == Spec => []IInv
<1>1. IInv /\ [Next]_vars => IInv'
  BY TypeStep, LockedStep, StillNewStep, CopyingStep, HistoryStep, ReadingStep DEF IInv
<1> QED
  BY <1>1, InitInv, PTL DEF Spec

\* Every variable keeps its type, for any callers, connections and candidates.
THEOREM TypeCorrect == Spec => []TypeOK
<1>1. IInv => TypeOK
  BY DEF IInv
<1> QED
  BY <1>1, Invariance, PTL

\* Every committed version holds exactly what its hash was taken over
\* (publish_if_changed commits all of a candidate or nothing).
THEOREM CommittedIsWhole == Spec => []CommittedWhole
<1>1. IInv => CommittedWhole
  BY DEF IInv
<1> QED
  BY <1>1, Invariance, PTL

\* The pointer designates the newest version.
THEOREM PointerIsNewest == Spec => []PointerAtNewest
<1>1. IInv => PointerAtNewest
  BY DEF IInv, Locked
<1> QED
  BY <1>1, Invariance, PTL

\* No version repeats the content of its predecessor, however many callers
\* publish at once.
THEOREM Deduplicated == Spec => []NoRepeat
<1>1. IInv => NoRepeat
  BY DEF IInv
<1> QED
  BY <1>1, Invariance, PTL

\* Versions are immutable and the pointer never goes back.
THEOREM Immutable == Spec => AppendOnly
<1> DEFINE A == /\ Len(snaps) <= Len(snaps')
                /\ \A n \in DOMAIN snaps : snaps'[n] = snaps[n]
                /\ ptr <= ptr'
<1>1. IInv /\ [Next]_vars => [A]_vars
  <2> SUFFICES ASSUME IInv, NEW c \in Client, Turn(c) PROVE A
    BY DEF Next
  <2>1. CASE Commit(c)
    <3>1. /\ Len(snaps') = Len(snaps) + 1 /\ ptr' = Len(snaps) + 1 /\ ptr = Len(snaps)
      BY <2>1, AppendProperties DEF IInv, Commit, TypeOK, Locked, PointerAtNewest
    <3> QED
      BY <2>1, <3>1, CommitAppends DEF IInv, TypeOK
  <2>2. CASE ~Commit(c)
    BY <2>2, OnlyCommitWrites DEF IInv, TypeOK
  <2> QED
    BY <2>1, <2>2
<1> QED
  BY <1>1, Invariance, PTL DEF Spec, AppendOnly

------------------------------------------------------------------------------
(* Store implements SnapshotLog: the commit is the step that publishes, the *)
(* first query of a load is the step that answers it, every other statement *)
(* is a stutter.                                                            *)

\* The promise is stated with the definitions Store itself uses.
LEMMA SameData ==
    /\ \A l, v : Promise!View(l, v) = View(l, v)
    /\ \A s : Promise!content_hash(s) = content_hash(s)
    /\ \A q : Promise!DuplicateQualifiers(q) = DuplicateQualifiers(q)
    /\ \A v, b : Promise!Published(v, b) = Published(v, b)
    /\ \A w : Promise!Loaded(w) = Loaded(w)
    /\ Promise!NoAnswer = NoAnswer
    /\ Promise!Failed = Failed
    /\ Promise!Empty = Empty
<1>1. \A r : Promise!Ranks(r) = Ranks(r)
  BY DEF Promise!Ranks, Ranks
<1>2. \A r, p, i : Promise!Movement(r, p, i) = Movement(r, p, i)
  BY DEF Promise!Movement, Movement
<1>3. \A f : Promise!Range(f) = Range(f)
  BY DEF Promise!Range, Range
<1>4. \A l, v : Promise!View(l, v) = View(l, v)
  BY <1>1, <1>2, <1>3, Zenon DEF Promise!View, View
<1>5. \A q, x : Promise!KeyConflict(q, x) = KeyConflict(q, x)
  BY DEF Promise!KeyConflict, KeyConflict
<1>6. \A q : Promise!DuplicateQualifiers(q) = DuplicateQualifiers(q)
  BY <1>5 DEF Promise!DuplicateQualifiers, DuplicateQualifiers
<1> QED
  BY <1>4, <1>6 DEF Promise!content_hash, content_hash, Promise!Published, Published,
     Promise!Loaded, Loaded, Promise!NoAnswer, NoAnswer, Promise!Failed, Failed,
     Promise!Empty, Empty

\* The log has one snapshot per stored version.
LEMMA LogTyped ==
    ASSUME snaps \in Seq(StoredSnapshot)
    PROVE  /\ PublishedLog \in Seq(Snapshot)
           /\ Len(PublishedLog) = Len(snaps)
           /\ DOMAIN PublishedLog = DOMAIN snaps
<1>1. \A n \in DOMAIN snaps : snaps[n] \in StoredSnapshot
  BY ElementTyped
<1>2. \A n \in DOMAIN snaps : PublishedLog[n] \in Snapshot
  BY <1>1 DEF PublishedLog, StoredSnapshot, Snapshot
<1>3. DOMAIN PublishedLog = 1..Len(snaps) /\ Len(snaps) \in Nat
  BY DEF PublishedLog
<1>4. PublishedLog \in [1..Len(snaps) -> Snapshot]
  BY <1>2, <1>3 DEF PublishedLog
<1> QED
  BY <1>3, <1>4, MapTyped

\* What a version shows is fixed once it is published.
LEMMA ViewKept ==
    ASSUME snaps \in Seq(StoredSnapshot), snaps' \in Seq(StoredSnapshot),
           \A n \in DOMAIN snaps : n \in DOMAIN snaps' /\ snaps'[n] = snaps[n],
           NEW v \in DOMAIN snaps
    PROVE  View(PublishedLog', v) = View(PublishedLog, v)
<1>1. \A n \in DOMAIN snaps : PublishedLog'[n] = PublishedLog[n]
  BY DEF PublishedLog
<1>2. CASE v = 1
  BY <1>1, <1>2 DEF View
<1>3. CASE v # 1
  <2>1. v - 1 \in DOMAIN snaps
    BY <1>3
  <2>2. PublishedLog'[v] = PublishedLog[v] /\ PublishedLog'[v - 1] = PublishedLog[v - 1]
    BY <1>1, <2>1
  <2> QED
    BY <1>3, <2>2, Zenon DEF View
<1> QED
  BY <1>2, <1>3

\* A step changes no version that exists.
LEMMA VersionsKept ==
    ASSUME IInv, NEW c \in Client, Turn(c)
    PROVE  \A n \in DOMAIN snaps : n \in DOMAIN snaps' /\ snaps'[n] = snaps[n]
<1>1. CASE Commit(c)
  BY <1>1, CommitAppends DEF IInv, TypeOK
<1>2. CASE ~Commit(c)
  BY <1>2, OnlyCommitWrites
<1> QED
  BY <1>1, <1>2

\* A step of one caller changes nobody else's answer.
LEMMA OneAnswer ==
    ASSUME IInv, IInv', NEW c \in Client, Turn(c)
    PROVE  Answers' = [Answers EXCEPT ![c] = Answers'[c]]
<1>1. ASSUME NEW d \in Client, d # c PROVE Answers'[d] = Answers[d]
  <2>1. phase'[d] = phase[d] /\ got'[d] = got[d] /\ answer'[d] = answer[d]
    BY <1>1, Frame DEF LeavesAlone, IInv
  <2>2. CASE phase[d] \in Loading
    <3>1. got[d].version \in DOMAIN snaps
      BY <2>2 DEF IInv, Reading
    <3>2. View(PublishedLog', got[d].version) = View(PublishedLog, got[d].version)
      BY <3>1, ViewKept, VersionsKept DEF IInv, TypeOK
    <3>3. Answers'[d] = Loaded(View(PublishedLog', got'[d].version))
      BY <2>1, <2>2 DEF Answers
    <3>4. Answers[d] = Loaded(View(PublishedLog, got[d].version))
      BY <2>2 DEF Answers
    <3> QED
      BY <2>1, <3>2, <3>3, <3>4
  <2>3. CASE phase[d] \notin Loading
    BY <2>1, <2>3 DEF Answers
  <2> QED
    BY <2>2, <2>3
<1>2. DOMAIN Answers = Client /\ DOMAIN Answers' = Client
  BY DEF Answers
<1>3. Answers' = [d \in Client |-> Answers'[d]]
  BY DEF Answers
<1>4. [Answers EXCEPT ![c] = Answers'[c]] = [d \in Client |-> Answers'[d]]
  BY <1>1, <1>2
<1> QED
  BY <1>3, <1>4

\* A step that leaves the tables alone leaves the log alone.
LEMMA SameLog ==
    ASSUME snaps' = snaps
    PROVE  PublishedLog' = PublishedLog
  BY DEF PublishedLog

\* A step that leaves the tables alone and ends or begins a call with a reply.
LEMMA RepliesWith ==
    ASSUME IInv, IInv', NEW c \in Client, Turn(c), NEW a,
           phase'[c] \notin Loading, answer'[c] = a
    PROVE  Promise!Reply(c, a)
<1>1. Answers'[c] = a
  BY DEF Answers
<1> QED
  BY <1>1, OneAnswer DEF Promise!Reply

\* A step that changes neither the tables nor what is owed to the caller.
LEMMA Stutters ==
    ASSUME IInv, IInv', NEW c \in Client, Turn(c), snaps' = snaps,
           Answers'[c] = Answers[c]
    PROVE  UNCHANGED Promise!vars
<1>1. [Answers EXCEPT ![c] = Answers[c]] = Answers
  BY DEF Answers
<1> QED
  BY <1>1, OneAnswer, SameLog DEF Promise!vars

\* A call that ends is idle with its answer.
LEMMA Returning ==
    ASSUME TypeOK, NEW c \in Client, NEW a, Return(c, a)
    PROVE  phase'[c] = "idle" /\ answer'[c] = a /\ phase'[c] \notin Loading
  BY DEF Return, Goto, TypeOK, Loading

\* Statements of a publication before its commit show the caller nothing.
LEMMA SilentWrites ==
    ASSUME IInv, IInv', NEW c \in Client, Turn(c),
           Begin(c) \/ InsertSnapshot(c) \/ InsertRow(c) \/ InsertQualifier(c) \/ MovePointer(c)
    PROVE  UNCHANGED Promise!vars
<1>1. /\ snaps' = snaps /\ answer' = answer
      /\ phase[c] \notin Loading /\ phase'[c] \notin Loading
  BY DEF Begin, InsertSnapshot, InsertRow, InsertQualifier, MovePointer,
         Continue, Goto, Loading, IInv, TypeOK
<1>2. Answers'[c] = Answers[c]
  BY <1>1 DEF Answers
<1> QED
  BY <1>1, <1>2, Stutters

\* Queries of a load after the first refine an answer already owed.
LEMMA SilentReads ==
    ASSUME IInv, IInv', NEW c \in Client, Turn(c),
           LoadRows(c) \/ LoadResults(c) \/ LoadPrevious(c) \/ LoadRanks(c)
    PROVE  UNCHANGED Promise!vars
<1>1. /\ snaps' = snaps
      /\ phase[c] \in Loading /\ phase'[c] \in Loading
      /\ got'[c].version = got[c].version
  BY DEF LoadRows, LoadResults, LoadPrevious, LoadRanks, Query,
         Continue, Goto, Loading, IInv, TypeOK
<1>2. PublishedLog' = PublishedLog
  BY <1>1, SameLog
<1>3. Answers[c] = Loaded(View(PublishedLog, got[c].version))
  BY <1>1 DEF Answers
<1>4. Answers'[c] = Loaded(View(PublishedLog', got'[c].version))
  BY <1>1 DEF Answers
<1>5. Answers'[c] = Answers[c]
  BY <1>1, <1>2, <1>3, <1>4
<1> QED
  BY <1>1, <1>5, Stutters

\* The last query of a load returns the version its first query found, whole.
LEMMA LoadEnds ==
    ASSUME IInv, IInv', NEW c \in Client, Turn(c), LoadQualifiers(c)
    PROVE  UNCHANGED Promise!vars
<1> DEFINE v == got[c].version
           s == snaps[v]
           shown == [version      |-> v,
                     source_as_of |-> got[c].source_as_of,
                     generated_at |-> got[c].generated_at,
                     rows         |-> [i \in DOMAIN got[c].rows |->
                        [row      |-> got[c].rows[i],
                         movement |-> Movement(got[c].ranks, got[c].rows[i].code, i)]],
                     qualifiers   |-> Range(s.qualifiers)]
<1>1. phase[c] = "qualifiers" /\ phase[c] \in Loading /\ snaps' = snaps
  BY DEF LoadQualifiers, Query, Loading
<1>2. v \in DOMAIN snaps /\ ReadOf(c, v)
  BY <1>1 DEF IInv, Reading
<1>3. Whole(s) /\ v \in Nat \ {0} /\ (v # 1 => v - 1 \in DOMAIN snaps)
  BY <1>2 DEF IInv, CommittedWhole, TypeOK
<1>4. /\ got[c].source_as_of = s.source_as_of
      /\ got[c].generated_at = s.generated_at
      /\ got[c].rows = s.content_hash.rows
      /\ got[c].ranks = IF v = 1 THEN {} ELSE Ranks(snaps[v - 1].content_hash.rows)
      /\ s.qualifiers = s.content_hash.qualifiers
  BY <1>1, <1>2, <1>3 DEF ReadOf, Whole
<1>5. /\ PublishedLog[v].rows = got[c].rows
      /\ PublishedLog[v].qualifiers = s.qualifiers
      /\ PublishedLog[v].source_as_of = got[c].source_as_of
      /\ PublishedLog[v].generated_at = got[c].generated_at
      /\ v # 1 => PublishedLog[v - 1].rows = snaps[v - 1].content_hash.rows
  BY <1>2, <1>3, <1>4 DEF PublishedLog
<1>6. View(PublishedLog, v) = shown
  <2>1. got[c].ranks = IF v = 1 THEN {} ELSE Ranks(PublishedLog[v - 1].rows)
    BY <1>4, <1>5
  <2> QED
    BY <1>5, <2>1, Zenon DEF View
<1>7. Return(c, Loaded(shown))
  BY Zenon DEF LoadQualifiers
<1>8. answer'[c] = Loaded(shown) /\ phase'[c] \notin Loading
  <2> HIDE DEF shown
  <2> QED
    BY <1>7, Returning DEF IInv
<1>9. Answers'[c] = answer'[c]
  BY <1>8 DEF Answers
<1>10. Answers[c] = Loaded(View(PublishedLog, v))
  BY <1>1 DEF Answers
<1>11. Answers'[c] = Answers[c]
  BY <1>6, <1>8, <1>9, <1>10
<1> QED
  BY <1>1, <1>11, Stutters

\* The hash comparison decides as the promise does.
LEMMA SameComparison ==
    ASSUME IInv, NEW c \in Client, cand[c] \in Snapshot
    PROVE  Promise!IsCurrent(cand[c]) <=> Unchanged(c)
<1>1. PublishedLog # <<>> <=> ptr # 0
  BY LogTyped DEF IInv, TypeOK, Locked, PointerAtNewest
<1>2. ASSUME ptr # 0
      PROVE  content_hash(PublishedLog[Len(PublishedLog)]) = snaps[ptr].content_hash
  <2>1. /\ Len(PublishedLog) = ptr /\ ptr \in DOMAIN snaps
        /\ snaps[ptr] \in StoredSnapshot
    BY <1>2, LogTyped DEF IInv, TypeOK, Locked, PointerAtNewest
  <2> QED
    BY <2>1 DEF PublishedLog, content_hash, StoredSnapshot
<1> QED
  BY <1>1, <1>2, SameData DEF Promise!IsCurrent, Unchanged

\* The comparison answers a repeated candidate at once.
LEMMA Compares ==
    ASSUME IInv, IInv', NEW c \in Client, Turn(c), SelectCurrent(c)
    PROVE  Promise!Next \/ UNCHANGED Promise!vars
<1>1. snaps' = snaps /\ PublishedLog' = PublishedLog /\ phase[c] = "select"
  BY SameLog DEF SelectCurrent
<1>2. cand[c] \in Candidate /\ cand[c] \in Snapshot
  BY <1>1, CandidateAssumption DEF IInv, Copying, InTransaction
<1>3. CASE Unchanged(c) /\ Return(c, Published(ptr, FALSE))
  <2>1. answer'[c] = Published(ptr, FALSE) /\ phase'[c] \notin Loading
    BY <1>3, Returning DEF IInv
  <2>2. Promise!Reply(c, Published(ptr, FALSE))
    BY <2>1, RepliesWith
  <2>3. Promise!IsCurrent(cand[c]) /\ Len(PublishedLog) = ptr
    BY <1>2, <1>3, SameComparison, LogTyped DEF IInv, TypeOK, Locked, PointerAtNewest
  <2>4. Promise!PublishUnchanged(c, cand[c])
    BY <1>1, <2>2, <2>3, SameData DEF Promise!PublishUnchanged
  <2> QED
    BY <1>2, <2>4 DEF Promise!Next
<1>4. CASE Continue(c, "snapshot")
  <2>1. answer' = answer /\ phase[c] \notin Loading /\ phase'[c] \notin Loading
    BY <1>1, <1>4 DEF Continue, Goto, Loading, IInv, TypeOK
  <2>2. Answers'[c] = Answers[c]
    BY <2>1 DEF Answers
  <2> QED
    BY <1>1, <2>2, Stutters
<1> QED
  BY <1>3, <1>4 DEF SelectCurrent

\* Announcements that were all accepted by the table's key name nobody twice.
LEMMA NoDuplicates ==
    ASSUME NEW q \in Seq(Qualifier), \A i, j \in DOMAIN q : q[i].code = q[j].code => i = j
    PROVE  ~DuplicateQualifiers(q)
<1> SUFFICES ASSUME NEW i \in DOMAIN q, KeyConflict(SubSeq(q, 1, i - 1), q[i]) PROVE FALSE
  BY DEF DuplicateQualifiers
<1> DEFINE front == SubSeq(q, 1, i - 1)
<1>1. DOMAIN front = 1..(i - 1) /\ \A j \in 1..(i - 1) : front[j] = q[j]
  OBVIOUS
<1>2. PICK j \in 1..(i - 1) : q[j].code = q[i].code
  BY <1>1 DEF KeyConflict
<1> QED
  BY <1>2

\* The commit publishes the candidate, and only new content.
LEMMA Commits ==
    ASSUME IInv, IInv', NEW c \in Client, Turn(c), Commit(c)
    PROVE  Promise!Next
<1> DEFINE s == image[c].snapshot
           k == cand[c]
<1>1. /\ phase[c] = "commit" /\ phase[c] \in Writing
      /\ snaps' = Append(snaps, s)
      /\ Return(c, Published(Len(snaps) + 1, TRUE))
  BY DEF Commit, Writing
<1>2. k \in Candidate /\ k \in Snapshot /\ s \in StoredSnapshot
  BY <1>1, CandidateAssumption DEF IInv, TypeOK, Copying, InTransaction
<1>3. Copied(s, k) /\ Len(s.qualifiers) = Len(k.qualifiers)
  <2>1. Copied(s, k) /\ ~(Len(s.qualifiers) < Len(k.qualifiers))
    BY <1>1 DEF IInv, Copying, QualifiersLeft
  <2>2. Len(s.qualifiers) \in Nat /\ Len(k.qualifiers) \in Nat
    <3>1. s.qualifiers \in Seq(Qualifier) /\ k.qualifiers \in Seq(Qualifier)
      BY <1>2 DEF StoredSnapshot, Snapshot
    <3> HIDE DEF s, k
    <3> QED
      BY <3>1
  <2> QED
    BY <2>1, <2>2 DEF Copied
<1>4. PublishedLog' = Append(PublishedLog, k)
  <2> DEFINE n == Len(snaps) + 1
  <2>1. /\ snaps \in Seq(StoredSnapshot) /\ Len(snaps) \in Nat
        /\ DOMAIN snaps' = 1..n /\ snaps'[n] = s
        /\ \A i \in DOMAIN snaps : snaps'[i] = snaps[i]
        /\ DOMAIN snaps = 1..Len(snaps)
    BY <1>1, <1>2, AppendProperties DEF IInv, TypeOK
  <2>2. DOMAIN PublishedLog' = 1..n
    BY <2>1 DEF PublishedLog
  <2>3. \A i \in 1..Len(snaps) : PublishedLog'[i] = PublishedLog[i]
    BY <2>1 DEF PublishedLog
  <2>4. PublishedLog'[n] = k
    <3>1. PublishedLog'[n] = [rows         |-> s.content_hash.rows,
                              qualifiers   |-> s.content_hash.qualifiers,
                              source_as_of |-> s.source_as_of,
                              generated_at |-> s.generated_at]
      BY <2>1 DEF PublishedLog
    <3> QED
      BY <1>2, <1>3, <3>1 DEF Copied, content_hash, Snapshot
  <2>5. /\ PublishedLog \in Seq(Snapshot) /\ Len(PublishedLog) = Len(snaps)
        /\ DOMAIN Append(PublishedLog, k) = 1..n
        /\ Append(PublishedLog, k)[n] = k
        /\ \A i \in 1..Len(snaps) : Append(PublishedLog, k)[i] = PublishedLog[i]
    BY <1>2, <2>1, LogTyped, AppendProperties
  <2>6. \A i \in 1..n : PublishedLog'[i] = Append(PublishedLog, k)[i]
    BY <2>1, <2>3, <2>4, <2>5
  <2>7. /\ PublishedLog' = [i \in 1..n |-> PublishedLog'[i]]
        /\ Append(PublishedLog, k) = [i \in 1..n |-> Append(PublishedLog, k)[i]]
    <3>1. PublishedLog' = [i \in 1..n |-> PublishedLog'[i]]
      BY <2>2 DEF PublishedLog
    <3>2. Append(PublishedLog, k) \in Seq(Snapshot)
      BY <1>2, <2>5, AppendProperties
    <3> QED
      BY <2>5, <3>1, <3>2
  <2> QED
    BY <2>6, <2>7
<1>5. ~Unchanged(c)
  BY <1>1 DEF IInv, Locked, StillNew
<1>6. ~Promise!IsCurrent(k)
  BY <1>2, <1>5, SameComparison
<1>7. ~DuplicateQualifiers(k.qualifiers)
  <2>1. /\ k.qualifiers \in Seq(Qualifier)
        /\ s.qualifiers \in Seq(Qualifier)
    BY <1>2 DEF Snapshot, StoredSnapshot
  <2>2. \A i, j \in DOMAIN k.qualifiers :
            k.qualifiers[i].code = k.qualifiers[j].code => i = j
    BY <1>3, <2>1 DEF Copied
  <2> QED
    BY <2>1, <2>2, NoDuplicates
<1>8. Promise!Reply(c, Published(Len(snaps) + 1, TRUE))
  BY <1>1, Returning, RepliesWith DEF IInv
<1>9. Promise!PublishNew(c, k)
  BY <1>4, <1>6, <1>7, <1>8, SameData, LogTyped DEF Promise!PublishNew, IInv, TypeOK
<1> QED
  BY <1>2, <1>9 DEF Promise!Next

\* The first query of a load answers it.
LEMMA LoadBegins ==
    ASSUME IInv, IInv', NEW c \in Client, Turn(c), LoadMeta(c)
    PROVE  Promise!Next
<1>1. snaps' = snaps /\ PublishedLog' = PublishedLog
  BY SameLog DEF LoadMeta
<1>2. CASE ptr = 0 /\ Return(c, Empty)
  <2>1. Promise!Reply(c, Empty)
    BY <1>2, Returning, RepliesWith DEF IInv
  <2>2. PublishedLog = <<>>
    BY <1>2, LogTyped DEF IInv, TypeOK, Locked, PointerAtNewest
  <2>3. Promise!Load(c)
    BY <1>1, <2>1, <2>2, SameData DEF Promise!Load
  <2> QED
    BY <2>3 DEF Promise!Next
<1>3. CASE ptr # 0 /\ Continue(c, "rows")
  <2>1. phase'[c] \in Loading /\ got'[c].version = ptr
    BY <1>3 DEF LoadMeta, Continue, Goto, Loading, IInv, TypeOK, NothingRead, Return
  <2>2. Len(PublishedLog) = ptr /\ PublishedLog # <<>>
    BY <1>3, LogTyped DEF IInv, TypeOK, Locked, PointerAtNewest
  <2>3. Answers'[c] = Loaded(View(PublishedLog', got'[c].version))
    BY <2>1 DEF Answers
  <2>4. Answers'[c] = Loaded(View(PublishedLog, Len(PublishedLog)))
    BY <1>1, <2>1, <2>2, <2>3
  <2>5. Promise!Load(c)
    BY <1>1, <2>2, <2>4, OneAnswer, SameData DEF Promise!Load, Promise!Reply
  <2> QED
    BY <2>5 DEF Promise!Next
<1> QED
  BY <1>2, <1>3 DEF LoadMeta

\* A failed statement ends the call and leaves the log alone.
LEMMA Fails ==
    ASSUME IInv, IInv', NEW c \in Client, Turn(c), Fail(c) \/ Busy(c) \/ RejectQualifier(c)
    PROVE  Promise!Next
<1>1. Return(c, Failed) /\ snaps' = snaps
  BY DEF Fail, Busy, RejectQualifier
<1>2. Promise!Reply(c, Failed)
  BY <1>1, Returning, RepliesWith DEF IInv
<1> QED
  BY <1>1, <1>2, SameLog, SameData DEF Promise!Fail, Promise!Next

\* A call that begins forgets the last answer.
LEMMA Calls ==
    ASSUME IInv, IInv', NEW c \in Client, Turn(c),
           StartLoad(c) \/ \E s \in Candidate : StartPublish(c, s)
    PROVE  Promise!Next
<1>1. answer'[c] = NoAnswer /\ phase'[c] \notin Loading /\ snaps' = snaps
  BY DEF StartLoad, StartPublish, Goto, Loading, IInv, TypeOK
<1>2. Promise!Reply(c, NoAnswer)
  BY <1>1, RepliesWith
<1> QED
  BY <1>1, <1>2, SameLog, SameData DEF Promise!Call, Promise!Next

\* Every step of the store is a step of the promise or shows nothing.
LEMMA EveryStep ==
    ASSUME IInv, IInv', [Next]_vars
    PROVE  [Promise!Next]_(Promise!vars)
<1>1. CASE UNCHANGED vars
  BY <1>1 DEF vars, Promise!vars, PublishedLog, Answers
<1>2. ASSUME NEW c \in Client, Turn(c)
      PROVE  Promise!Next \/ UNCHANGED Promise!vars
  BY <1>2, SilentWrites, SilentReads, LoadEnds, Compares, Commits, LoadBegins, Fails, Calls
     DEF Turn, Step, Publishing, LoadingStep
<1> QED
  BY <1>1, <1>2 DEF Next

\* The store, statement by statement, keeps the promise of SnapshotLog:
\* publications are atomic, deduplicated against the current version and
\* serialised, and a load shows one version whole with its movement, whatever
\* commits while its queries run.
THEOREM Refinement == Spec => KeepsPromise
<1>1. Init => Promise!Init
  BY SameData DEF Init, Promise!Init, PublishedLog, Answers, Loading
<1> QED
  BY <1>1, EveryStep, Invariance, PTL DEF Spec, KeepsPromise, Promise!Spec
=============================================================================
