---------------------------- MODULE SnapshotData ----------------------------
(***************************************************************************)
(* What a snapshot of the race table is (model.rs), which of its facts     *)
(* decide whether a new version is published (storage.rs, content_hash),   *)
(* and what a reader of a version is shown.  Pure definitions: the store   *)
(* (Store), its promise (SnapshotLog) and the service (Service) share      *)
(* them.                                                                   *)
(***************************************************************************)
EXTENDS Integers, Sequences, Functions

CONSTANTS
    Player,     \* player codes: the Wikipedia article titles
    Points,     \* race points and the other plain columns of a row
    Entry,      \* entries of a player's tournament ledger
    Day         \* announcement dates of official qualifications

Row == [code : Player, points : Points, results : SUBSET Entry]

Qualifier == [code : Player, on : Day]

\* A row's rank is its position: source.rs validates that ranks are
\* contiguous from 1 before a snapshot gets here.
Snapshot == [rows         : Seq(Row),
             qualifiers   : Seq(Qualifier),
             source_as_of : Nat,
             generated_at : Nat]

\* A validated table has rows and lists a player once (source.rs, validate;
\* what else it asks of a table is in Standings).
ValidRows(rows) ==
    /\ rows # <<>>
    /\ \A i, j \in DOMAIN rows : rows[i].code = rows[j].code => i = j

\* Seeded fault: the ledgers are left out.
content_hash_of_totals(s) ==
    [rows       |-> [i \in DOMAIN s.rows |-> [s.rows[i] EXCEPT !.results = {}]],
     qualifiers |-> s.qualifiers]
\* SHA-256 is taken to be collision free, so the digest is what it covers:
\* the rows with their ledgers and the qualifiers in order, not the dates.
content_hash(s) == [rows |-> s.rows, qualifiers |-> s.qualifiers]

\* The key of snapshot_qualifiers admits one announcement per player; the
\* validation of a candidate does not ask for that.
KeyConflict(qualifiers, q) ==
    \E i \in DOMAIN qualifiers : qualifiers[i].code = q.code

DuplicateQualifiers(qualifiers) ==
    \E i \in DOMAIN qualifiers : KeyConflict(SubSeq(qualifiers, 1, i - 1), qualifiers[i])

------------------------------------------------------------------------------
(* Derived movement: a row's change of rank since the previous version.    *)

Ranks(rows) == {<<rows[i].code, i>> : i \in DOMAIN rows}

\* Option<i32> as a set: empty for None.
Movement(previous, code, rank) ==
    {was[2] - rank : was \in {r \in previous : r[1] = code}}

ViewOfVersion == [version      : Nat,
                  source_as_of : Nat,
                  generated_at : Nat,
                  rows         : Seq([row : Row, movement : SUBSET Int]),
                  qualifiers   : SUBSET Qualifier]

\* What load_current returns for version v of a log of snapshots.
View(log, v) ==
    LET s        == log[v]
        previous == IF v = 1 THEN {} ELSE Ranks(log[v - 1].rows)
    IN  [version      |-> v,
         source_as_of |-> s.source_as_of,
         generated_at |-> s.generated_at,
         rows         |-> [i \in DOMAIN s.rows |->
                             [row      |-> s.rows[i],
                              movement |-> Movement(previous, s.rows[i].code, i)]],
         qualifiers   |-> Range(s.qualifiers)]

------------------------------------------------------------------------------
(* Answers of the store's two operations.                                  *)

NoAnswer                    == [kind |-> "none"]
Failed                      == [kind |-> "failed"]
Empty                       == [kind |-> "empty"]
Published(version, created) == [kind |-> "published", version |-> version, created |-> created]
Loaded(view)                == [kind |-> "loaded", view |-> view]

Answer == {NoAnswer, Failed, Empty}
            \cup [kind : {"published"}, version : Nat, created : BOOLEAN]
            \cup [kind : {"loaded"}, view : ViewOfVersion]
=============================================================================
