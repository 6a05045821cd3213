------------------------------- MODULE Store --------------------------------
(***************************************************************************)
(* The snapshot store (storage.rs) over SQLite, one action per statement;  *)
(* a row is inserted together with its ledger, as both are private until   *)
(* the commit.                                                             *)
(*                                                                         *)
(* publish_if_changed runs in one deferred transaction: its reads see the  *)
(* database as it was at the first SELECT, its writes stay private until   *)
(* the commit and are lost with any error.  load_current is a series of    *)
(* separate queries, and a publication may commit between any two of them. *)
(*                                                                         *)
(* The deployed process has one caller on its one pooled connection; the   *)
(* module allows any number of callers on any number of connections (other *)
(* tasks, or other processes on the same file), as the code's transaction  *)
(* and busy timeout do.                                                    *)
(***************************************************************************)
EXTENDS SnapshotData

CONSTANTS
    Client,        \* callers of the store
    Connection,    \* Connection[c]: the pooled connection c's process owns
    Candidate,     \* the validated candidates they may publish
    MaxVersion     \* bound: no publication starts once this many versions exist

ASSUME CandidateAssumption ==
    \A s \in Candidate : s \in Snapshot /\ ValidRows(s.rows)

ASSUME MaxVersionAssumption == MaxVersion \in Nat

VARIABLES
    snaps,         \* committed rows of the snapshots tables; the id is the index
    ptr,           \* current_snapshot, 0 while the table is empty
    phase,         \* phase[c]: the statement c executes next
    cand,          \* cand[c]: the snapshot c is publishing
    seen,          \* seen[c]: how many commits c's transaction has seen
    image,         \* image[c]: what c's transaction has written and not committed
    got,           \* got[c]: what c's load has read so far
    answer         \* answer[c]: what c's last call returned

vars == <<snaps, ptr, phase, cand, seen, image, got, answer>>

\* Statements that run inside publish_if_changed's transaction, those that
\* hold SQLite's write lock, and those of load_current after its first query.
Writing == {"insert", "commit"}
InTransaction == {"select", "snapshot"} \cup Writing
Loading == {"rows", "results", "previous", "ranks", "qualifiers"}

Phase == {"idle", "begin", "meta"} \cup InTransaction \cup Loading

StoredRow(row) == [code |-> row.code, points |-> row.points]

StoredSnapshot ==
    [content_hash : [rows : Seq(Row), qualifiers : Seq(Qualifier)],
     source_as_of : Nat,
     generated_at : Nat,
     rows         : Seq([code : Player, points : Points]),
     results      : SUBSET (Player \X Entry),
     qualifiers   : Seq(Qualifier)]

NoCandidate == [rows |-> <<>>, qualifiers |-> <<>>, source_as_of |-> 0, generated_at |-> 0]

\* A version as its first INSERT leaves it: no row, no announcement yet.
Blank(s) == [content_hash |-> content_hash(s),
             source_as_of |-> s.source_as_of,
             generated_at |-> s.generated_at,
             rows         |-> <<>>,
             results      |-> {},
             qualifiers   |-> <<>>]
NoImage == [snapshot |-> Blank(NoCandidate), pointer |-> 0]

NothingRead == [version |-> 0, source_as_of |-> 0, generated_at |-> 0,
                rows |-> <<>>, previous |-> 0, ranks |-> {}]

Init ==
    /\ snaps = <<>>
    /\ ptr = 0
    /\ phase = [c \in Client |-> "idle"]
    /\ cand = [c \in Client |-> NoCandidate]
    /\ seen = [c \in Client |-> 0]
    /\ image = [c \in Client |-> NoImage]
    /\ got = [c \in Client |-> NothingRead]
    /\ answer = [c \in Client |-> NoAnswer]

------------------------------------------------------------------------------
(* SQLite and the pool.                                                    *)

\* Seeded fault: a load keeps the connection while its next query asks the
\* pool for one.
ConnectionFreeOfLoads(c) ==
    \A d \in Client :
        Connection[d] = Connection[c] => phase[d] \notin InTransaction \cup Loading

\* max_connections(1): a transaction keeps the connection to itself.
ConnectionFree(c) ==
    \A d \in Client \ {c} :
        Connection[d] = Connection[c] => phase[d] \notin InTransaction

\* Seeded fault: the lock is granted to an old read.
MayWriteStale(c) == \A d \in Client \ {c} : phase[d] \notin Writing

\* A deferred transaction may write while nobody else does and nothing has
\* been committed since it first read.
MayWrite(c) ==
    /\ \A d \in Client \ {c} : phase[d] \notin Writing
    /\ seen[c] = Len(snaps)

------------------------------------------------------------------------------
(* Calls and their ends.                                                   *)

Goto(c, p) == phase' = [phase EXCEPT ![c] = p]

\* The call's locals and, unless it has committed, its transaction are gone.
Return(c, a) ==
    /\ Goto(c, "idle")
    /\ answer' = [answer EXCEPT ![c] = a]
    /\ cand' = [cand EXCEPT ![c] = NoCandidate]
    /\ seen' = [seen EXCEPT ![c] = 0]
    /\ image' = [image EXCEPT ![c] = NoImage]
    /\ got' = [got EXCEPT ![c] = NothingRead]

Continue(c, p) ==
    /\ Goto(c, p)
    /\ UNCHANGED answer

StartPublish(c, s) ==
    /\ phase[c] = "idle"
    /\ Len(snaps) < MaxVersion
    /\ Goto(c, "begin")
    /\ cand' = [cand EXCEPT ![c] = s]
    /\ answer' = [answer EXCEPT ![c] = NoAnswer]
    /\ UNCHANGED <<snaps, ptr, seen, image, got>>

StartLoad(c) ==
    /\ phase[c] = "idle"
    /\ Goto(c, "meta")
    /\ answer' = [answer EXCEPT ![c] = NoAnswer]
    /\ UNCHANGED <<snaps, ptr, cand, seen, image, got>>

\* Any statement may fail (I/O error, pool timeout, the process dying): the
\* transaction, if there is one, is rolled back and the call reports it.
Fail(c) ==
    /\ phase[c] # "idle"
    /\ Return(c, Failed)
    /\ UNCHANGED <<snaps, ptr>>

------------------------------------------------------------------------------
(* publish_if_changed.                                                     *)

Begin(c) ==
    /\ phase[c] = "begin"
    /\ ConnectionFree(c)
    /\ Continue(c, "select")
    /\ UNCHANGED <<snaps, ptr, cand, seen, image, got>>

\* The current version already holds this content.
Unchanged(c) == ptr # 0 /\ snaps[ptr].content_hash = content_hash(cand[c])

SelectCurrent(c) ==
    /\ phase[c] = "select"
    /\ \/ /\ Unchanged(c)
          /\ Return(c, Published(ptr, FALSE))
       \/ /\ ~Unchanged(c)
          /\ Continue(c, "snapshot")
          /\ seen' = [seen EXCEPT ![c] = Len(snaps)]
          /\ UNCHANGED <<cand, image, got>>
    /\ UNCHANGED <<snaps, ptr>>

\* The first write takes the write lock and the next id: AUTOINCREMENT
\* counts committed snapshots only, a rollback returns the id.
InsertSnapshot(c) ==
    /\ phase[c] = "snapshot"
    /\ MayWrite(c)
    /\ Continue(c, "insert")
    /\ image' = [image EXCEPT ![c] = [snapshot |-> Blank(cand[c]), pointer |-> ptr]]
    /\ UNCHANGED <<snaps, ptr, cand, seen, got>>

\* The write lock was not released within the busy timeout, or the
\* transaction's view of the database is no longer the newest.
Busy(c) ==
    /\ phase[c] = "snapshot"
    /\ ~MayWrite(c)
    /\ Return(c, Failed)
    /\ UNCHANGED <<snaps, ptr>>

\* Seeded fault: the row loop ends one row early.
RowsLeftButOne(c) == Len(image[c].snapshot.rows) + 1 < Len(cand[c].rows)

RowsLeft(c) == Len(image[c].snapshot.rows) < Len(cand[c].rows)

QualifiersLeft(c) == Len(image[c].snapshot.qualifiers) < Len(cand[c].qualifiers)

NextRow(c) == cand[c].rows[Len(image[c].snapshot.rows) + 1]

NextQualifier(c) == cand[c].qualifiers[Len(image[c].snapshot.qualifiers) + 1]

\* One turn of the row loop: the row, then its ledger entries.
WithRow(s, row) == [s EXCEPT !.rows    = Append(@, StoredRow(row)),
                             !.results = @ \cup ({row.code} \X row.results)]

WithQualifier(s, q) == [s EXCEPT !.qualifiers = Append(@, q)]

InsertRow(c) ==
    /\ phase[c] = "insert"
    /\ RowsLeft(c)
    /\ image' = [image EXCEPT ![c].snapshot = WithRow(@, NextRow(c))]
    /\ UNCHANGED <<snaps, ptr, phase, cand, seen, got, answer>>

InsertQualifier(c) ==
    /\ phase[c] = "insert"
    /\ ~RowsLeft(c)
    /\ QualifiersLeft(c)
    /\ ~KeyConflict(image[c].snapshot.qualifiers, NextQualifier(c))
    /\ image' = [image EXCEPT ![c].snapshot = WithQualifier(@, NextQualifier(c))]
    /\ UNCHANGED <<snaps, ptr, phase, cand, seen, got, answer>>

\* PRIMARY KEY (snapshot_id, player_code): the insert fails, and the call.
RejectQualifier(c) ==
    /\ phase[c] = "insert"
    /\ ~RowsLeft(c)
    /\ QualifiersLeft(c)
    /\ KeyConflict(image[c].snapshot.qualifiers, NextQualifier(c))
    /\ Return(c, Failed)
    /\ UNCHANGED <<snaps, ptr>>

\* Seeded fault: the pointer statement is missing.
MovePointerNowhere(c) ==
    /\ phase[c] = "insert"
    /\ ~RowsLeft(c)
    /\ ~QualifiersLeft(c)
    /\ Continue(c, "commit")
    /\ UNCHANGED <<image, snaps, ptr, cand, seen, got>>

MovePointer(c) ==
    /\ phase[c] = "insert"
    /\ ~RowsLeft(c)
    /\ ~QualifiersLeft(c)
    /\ Continue(c, "commit")
    /\ image' = [image EXCEPT ![c].pointer = Len(snaps) + 1]
    /\ UNCHANGED <<snaps, ptr, cand, seen, got>>

\* Seeded fault: the current version is overwritten.
CommitInPlace(c) ==
    /\ phase[c] = "commit"
    /\ snaps' = IF ptr = 0 THEN <<image[c].snapshot>>
                          ELSE [snaps EXCEPT ![ptr] = image[c].snapshot]
    /\ ptr' = Len(snaps')
    /\ Return(c, Published(Len(snaps'), TRUE))

Commit(c) ==
    /\ phase[c] = "commit"
    /\ snaps' = Append(snaps, image[c].snapshot)
    /\ ptr' = image[c].pointer
    /\ Return(c, Published(Len(snaps) + 1, TRUE))

------------------------------------------------------------------------------
(* load_current.  Each query takes the connection for itself.              *)

Query(c, p) == phase[c] = p /\ ConnectionFree(c)

LoadMeta(c) ==
    /\ Query(c, "meta")
    /\ \/ /\ ptr = 0
          /\ Return(c, Empty)
       \/ /\ ptr # 0
          /\ Continue(c, "rows")
          /\ got' = [got EXCEPT ![c] =
                [NothingRead EXCEPT !.version      = ptr,
                                    !.source_as_of = snaps[ptr].source_as_of,
                                    !.generated_at = snaps[ptr].generated_at]]
          /\ UNCHANGED <<cand, seen, image>>
    /\ UNCHANGED <<snaps, ptr>>

\* Seeded fault: rows come back without a ledger column.
BareRowWithoutLedger(row) == [code |-> row.code, points |-> row.points]

\* row_from_db: the ledger is filled in by the next query.
BareRow(row) == [code |-> row.code, points |-> row.points, results |-> {}]

LoadRows(c) ==
    /\ Query(c, "rows")
    /\ Continue(c, "results")
    /\ LET rows == snaps[got[c].version].rows
       IN  got' = [got EXCEPT ![c].rows = [i \in DOMAIN rows |-> BareRow(rows[i])]]
    /\ UNCHANGED <<snaps, ptr, cand, seen, image>>

Ledger(results, code) == {e \in Entry : <<code, e>> \in results}

WithLedger(results, row) == [row EXCEPT !.results = Ledger(results, row.code)]

LoadResults(c) ==
    /\ Query(c, "results")
    /\ Continue(c, "previous")
    /\ LET results == snaps[got[c].version].results
       IN  got' = [got EXCEPT ![c].rows =
                     [i \in DOMAIN @ |-> WithLedger(results, @[i])]]
    /\ UNCHANGED <<snaps, ptr, cand, seen, image>>

\* Seeded fault: the predecessor of the version that is current by now.
PreviousOfCurrent(version) == ptr - 1

\* SELECT MAX(id) ... WHERE id < version: ids have no gaps; 0 for NULL.
PreviousOf(version) ==
    CHOOSE n \in 0..Len(snaps) :
        /\ n < version
        /\ \A m \in DOMAIN snaps : m < version => m <= n

LoadPrevious(c) ==
    /\ Query(c, "previous")
    /\ LET n == PreviousOf(got[c].version)
       IN  /\ Continue(c, IF n = 0 THEN "qualifiers" ELSE "ranks")
           /\ got' = [got EXCEPT ![c].previous = n]
    /\ UNCHANGED <<snaps, ptr, cand, seen, image>>

LoadRanks(c) ==
    /\ Query(c, "ranks")
    /\ Continue(c, "qualifiers")
    /\ got' = [got EXCEPT ![c].ranks = Ranks(snaps[got[c].previous].rows)]
    /\ UNCHANGED <<snaps, ptr, cand, seen, image>>

LoadQualifiers(c) ==
    /\ Query(c, "qualifiers")
    /\ Return(c, Loaded(
          [version      |-> got[c].version,
           source_as_of |-> got[c].source_as_of,
           generated_at |-> got[c].generated_at,
           rows         |-> [i \in DOMAIN got[c].rows |->
                               [row      |-> got[c].rows[i],
                                movement |-> Movement(got[c].ranks, got[c].rows[i].code, i)]],
           qualifiers   |-> Range(snaps[got[c].version].qualifiers)]))
    /\ UNCHANGED <<snaps, ptr>>

------------------------------------------------------------------------------
Publishing(c) ==
    \/ Begin(c) \/ SelectCurrent(c) \/ InsertSnapshot(c) \/ Busy(c)
    \/ InsertRow(c) \/ InsertQualifier(c) \/ RejectQualifier(c)
    \/ MovePointer(c) \/ Commit(c)

LoadingStep(c) ==
    \/ LoadMeta(c) \/ LoadRows(c) \/ LoadResults(c)
    \/ LoadPrevious(c) \/ LoadRanks(c) \/ LoadQualifiers(c)

Step(c) == Publishing(c) \/ LoadingStep(c)

Turn(c) ==
    \/ \E s \in Candidate : StartPublish(c, s)
    \/ StartLoad(c)
    \/ Step(c)
    \/ Fail(c)

Next == \E c \in Client : Turn(c)

Spec == Init /\ [][Next]_vars

\* A call that has begun goes on.  Strong fairness, because a call waits for
\* the connection, and the pool hands it out in order of arrival.
FairSpec == Spec /\ \A c \in Client : SF_vars(Step(c))

------------------------------------------------------------------------------
(* Properties.                                                             *)

TypeOK ==
    /\ snaps \in Seq(StoredSnapshot)
    /\ ptr \in Nat
    /\ phase \in [Client -> Phase]
    /\ cand \in [Client -> Snapshot]
    /\ seen \in [Client -> Nat]
    /\ image \in [Client -> [snapshot : StoredSnapshot, pointer : Nat]]
    /\ got \in [Client -> [version : Nat, source_as_of : Nat, generated_at : Nat,
                           rows : Seq(Row), previous : Nat, ranks : SUBSET (Player \X Nat)]]
    /\ answer \in [Client -> Answer]

\* Every committed version is whole: its tables hold exactly the rows, ledgers
\* and announcements its hash was taken over, whatever failed while it was
\* being written (publish_if_changed's transaction).
Whole(s) ==
    /\ Len(s.rows) = Len(s.content_hash.rows)
    /\ \A i \in DOMAIN s.rows :
          WithLedger(s.results, BareRow(s.rows[i])) = s.content_hash.rows[i]
    /\ s.qualifiers = s.content_hash.qualifiers
CommittedWhole == \A n \in DOMAIN snaps : Whole(snaps[n])

\* The pointer designates the newest version, so the version before it by id
\* (previous_ranks) is the one that was current before it.
PointerAtNewest == ptr = Len(snaps)

\* Deduplication: no version repeats the content of the one before it, even
\* when two callers publish the same candidate at the same time.
NoRepeat ==
    \A n \in 2..Len(snaps) : snaps[n].content_hash # snaps[n - 1].content_hash

\* Snapshots are immutable and the pointer never goes back (the contract
\* stated in migrations/0001_init.sql).
AppendOnly ==
    [][/\ Len(snaps) <= Len(snaps')
       /\ \A n \in DOMAIN snaps : snaps'[n] = snaps[n]
       /\ ptr <= ptr']_vars

\* Statement by statement, the store keeps the promise of SnapshotLog: a
\* publication is one atomic step (its commit), and a load shows one version
\* whole, with the movement against its predecessor, although a publication
\* may commit between its queries.
PublishedLog ==
    [n \in DOMAIN snaps |->
        [rows         |-> snaps[n].content_hash.rows,
         qualifiers   |-> snaps[n].content_hash.qualifiers,
         source_as_of |-> snaps[n].source_as_of,
         generated_at |-> snaps[n].generated_at]]
Answers ==
    [c \in Client |-> IF phase[c] \in Loading
                      THEN Loaded(View(PublishedLog, got[c].version))
                      ELSE answer[c]]
Promise == INSTANCE SnapshotLog WITH log <- PublishedLog, answer <- Answers
KeepsPromise == Promise!Spec

\* Every call returns: two writers never wait for each other for ever, and a
\* load whose connection another caller's transaction takes between its
\* queries is not starved of it (max_connections in Store::open, and the
\* transaction and the queries that ask its pool for the connection).
CallsReturn == \A c \in Client : phase[c] # "idle" ~> phase[c] = "idle"

------------------------------------------------------------------------------
(* The inductive invariant of the proofs (StoreProofs): what the lock, the *)
(* transactions' private writes and the loads' partial reads owe to the    *)
(* committed versions.                                                     *)

Locked ==
    /\ PointerAtNewest
    /\ \A c \in Client :
          /\ seen[c] <= Len(snaps)
          /\ phase[c] \in Writing => seen[c] = Len(snaps)
          /\ phase[c] = "commit" => image[c].pointer = Len(snaps) + 1
    /\ \A c, d \in Client : phase[c] \in Writing /\ phase[d] \in Writing => c = d

\* A transaction that has passed the hash comparison, and has since seen every
\* commit, still publishes new content.
StillNew ==
    \A c \in Client :
        phase[c] \in {"snapshot"} \cup Writing /\ seen[c] = Len(snaps) => ~Unchanged(c)

\* What is written so far is a copy of the front of the candidate.
Copied(s, k) ==
    /\ s.content_hash = content_hash(k)
    /\ s.source_as_of = k.source_as_of
    /\ s.generated_at = k.generated_at
    /\ Len(s.rows) <= Len(k.rows)
    /\ \A i \in DOMAIN s.rows : s.rows[i] = StoredRow(k.rows[i])
    /\ \A p \in Player, e \in Entry :
          <<p, e>> \in s.results
            <=> \E i \in DOMAIN s.rows : p = k.rows[i].code /\ e \in k.rows[i].results
    /\ Len(s.qualifiers) <= Len(k.qualifiers)
    /\ \A i \in DOMAIN s.qualifiers : s.qualifiers[i] = k.qualifiers[i]
    /\ \A i, j \in DOMAIN s.qualifiers : s.qualifiers[i].code = s.qualifiers[j].code => i = j
Copying ==
    \A c \in Client :
        /\ phase[c] \in {"begin"} \cup InTransaction => cand[c] \in Candidate
        /\ phase[c] \in Writing => Copied(image[c].snapshot, cand[c])
        /\ phase[c] = "commit" => ~RowsLeft(c) /\ ~QualifiersLeft(c)

\* What is read so far is the front of one version.
ReadOf(c, v) ==
    /\ got[c].source_as_of = snaps[v].source_as_of
    /\ got[c].generated_at = snaps[v].generated_at
    /\ phase[c] = "results" =>
          got[c].rows = [i \in DOMAIN snaps[v].rows |-> BareRow(snaps[v].rows[i])]
    /\ phase[c] \in {"previous", "ranks", "qualifiers"} =>
          got[c].rows = snaps[v].content_hash.rows
    /\ phase[c] # "qualifiers" => got[c].ranks = {}
    /\ phase[c] = "ranks" => v > 1 /\ got[c].previous = v - 1
    /\ phase[c] = "qualifiers" =>
          got[c].ranks = IF v = 1 THEN {} ELSE Ranks(snaps[v - 1].content_hash.rows)
Reading ==
    \A c \in Client :
        phase[c] \in Loading => /\ got[c].version \in DOMAIN snaps
                               /\ ReadOf(c, got[c].version)

IInv ==
    /\ TypeOK
    /\ Locked
    /\ StillNew
    /\ Copying
    /\ CommittedWhole
    /\ NoRepeat
    /\ Reading
=============================================================================
