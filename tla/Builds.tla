-------------------------------- MODULE Builds --------------------------------
(***************************************************************************)
(* The points ledger across builds of the program.  A ledger is reconciled *)
(* once, by the build that parses it (source.rs); it is then stored entry  *)
(* by entry under the codes of that build (model.rs, storage.rs), and read *)
(* back by whatever build serves the volume next, which skips entries      *)
(* whose code it does not know.  The page shows the entries it is left     *)
(* with and their sum (web.rs, build_ledger).                              *)
(*                                                                         *)
(* The operator deploys builds, newer or older, and uses the kill switch;  *)
(* editors change the article.  The store is taken at its promise.         *)
(***************************************************************************)
EXTENDS SnapshotData, FiniteSetsExt

CONSTANTS
    Build,      \* builds of the program, the first of them the oldest
    Codes,      \* Codes[b]: codes of slots and results that b writes and reads
    Migrations, \* Migrations[b]: how many schema migrations b carries
    Article,    \* the tables the article may show, with all their entries
    MaxChanges  \* bound on deployments, settings and edits

\* Only a build that carries the ledger's migration writes ledgers.  An entry
\* is [code, points, event]; points of a row are its total.
ASSUME BuildsAssumption ==
    /\ MaxChanges \in Nat
    /\ \A b \in Build : Migrations[b] \in {1, 2} /\ (Codes[b] # {} => Migrations[b] = 2)
    /\ \A rows \in Article : rows \in Seq(Row) /\ ValidRows(rows)

VARIABLES
    build,      \* the build that is deployed
    migrated,   \* migrations applied to the volume
    enabled,    \* RTT_FETCH
    article,    \* what the article says
    changes,    \* deployments, settings and edits so far
    log, answer,\* the store
    pc,         \* what the process does
    parsed,     \* the rows its last cycle parsed
    page        \* the rows it shows: state.snapshot.rows

environment == <<build, enabled, article, changes>>
vars == <<environment, migrated, log, answer, pc, parsed, page>>

Ingest == "ingest"
CandidateOf(rows) == [rows |-> rows, qualifiers |-> <<>>, source_as_of |-> 0, generated_at |-> 0]
NoRows == <<>>

------------------------------------------------------------------------------
(* Ledgers.                                                                *)

ledger_points(results) == MapThenSumSet(LAMBDA r : r.points, results)

\* A ledger is kept when the build can parse all of it and it accounts for
\* the total.
ReconciledRow(b, row) ==
    [row EXCEPT !.results = IF /\ \A r \in @ : r.code \in Codes[b]
                               /\ ledger_points(@) = row.points
                            THEN @
                            ELSE {}]

parse(b, rows) == [i \in DOMAIN rows |-> ReconciledRow(b, rows[i])]

\* Seeded fault: from_code lacks the arm of one code.
from_code_lacking(b) == Codes[b] \ {"other"}
\* The codes Slot::from_code and Played::from_code turn back.
from_code(b) == Codes[b]

\* results_of: entries with another code are skipped.
results_of(b, row) == [row EXCEPT !.results = {r \in @ : r.code \in from_code(b)}]

Storage == INSTANCE SnapshotLog WITH
               Client    <- {Ingest},
               Candidate <- {CandidateOf(parse(b, rows)) : b \in Build, rows \in Article}

------------------------------------------------------------------------------
(* The process.                                                            *)

Init ==
    /\ build \in Build
    /\ migrated = 0
    /\ enabled = TRUE
    /\ article \in Article
    /\ changes = 0
    /\ Storage!Init
    /\ pc = "down"
    /\ parsed = NoRows
    /\ page = NoRows

\* Seeded fault: migrations the build does not carry are ignored.
IgnoringMissing == TRUE
\* sqlx refuses a database with a migration the build does not carry.
CarriesApplied == migrated <= Migrations[build]

\* Seeded fault: every migration is applied again.
AppliedAgain == migrated + Migrations[build]
Applied == IF migrated < Migrations[build] THEN Migrations[build] ELSE migrated

\* Store::open migrates the volume.
Open ==
    /\ pc = "down"
    /\ CarriesApplied
    /\ migrated' = Applied
    /\ pc' = "cycle"
    /\ UNCHANGED <<environment, log, answer, parsed, page>>

Publish ==
    /\ pc = "cycle"
    /\ enabled
    /\ LET candidate == CandidateOf(parse(build, article))
       IN  /\ Storage!PublishUnchanged(Ingest, candidate) \/ Storage!PublishNew(Ingest, candidate)
           /\ parsed' = candidate.rows
    /\ pc' = "load"
    /\ UNCHANGED <<environment, migrated, page>>

SkipCollection ==
    /\ pc = "cycle"
    /\ ~enabled
    /\ pc' = "load"
    /\ UNCHANGED <<environment, migrated, log, answer, parsed, page>>

\* The current version is loaded and shown; an empty store ends the boot.
Load ==
    /\ pc = "load"
    /\ Storage!Load(Ingest)
    /\ IF answer'[Ingest] = Empty
       THEN pc' = "down" /\ page' = NoRows
       ELSE LET rows == answer'[Ingest].view.rows
            IN  /\ pc' = "up"
                /\ page' = [i \in DOMAIN rows |-> results_of(build, rows[i].row)]
    /\ UNCHANGED <<environment, migrated, parsed>>

Wake ==
    /\ pc = "up"
    /\ enabled
    /\ pc' = "cycle"
    /\ UNCHANGED <<environment, migrated, log, answer, parsed, page>>

------------------------------------------------------------------------------
(* Operator and editors.                                                   *)

Change ==
    /\ changes < MaxChanges
    /\ changes' = changes + 1

\* The machine is replaced: the volume is all that stays.
Restart ==
    /\ pc' = "down"
    /\ parsed' = NoRows
    /\ page' = NoRows
    /\ UNCHANGED <<migrated, log, answer>>

Deploy(b) ==
    /\ Change
    /\ build' = b
    /\ Restart
    /\ UNCHANGED <<enabled, article>>

Configure ==
    /\ Change
    /\ enabled' = ~enabled
    /\ Restart
    /\ UNCHANGED <<build, article>>

Edit ==
    /\ Change
    /\ article' \in Article \ {article}
    /\ UNCHANGED <<build, enabled, migrated, log, answer, pc, parsed, page>>

Next ==
    \/ Open \/ Publish \/ SkipCollection \/ Load \/ Wake
    \/ \E b \in Build \ {build} : Deploy(b)
    \/ Configure \/ Edit

Spec == Init /\ [][Next]_vars

------------------------------------------------------------------------------
(* Properties.                                                             *)

TypeOK ==
    /\ build \in Build
    /\ migrated \in 0..2
    /\ enabled \in BOOLEAN
    /\ article \in Article
    /\ changes \in 0..MaxChanges
    /\ log \in Seq(Snapshot)
    /\ pc \in {"down", "cycle", "load", "up"}
    /\ parsed \in Seq(Row)
    /\ page \in Seq(Row)

\* What a build can read back, and what it shows of a version.
Legible(b, rows) == \A i \in DOMAIN rows : \A r \in rows[i].results : r.code \in Codes[b]
ReadBy(b, rows) == [i \in DOMAIN rows |-> results_of(b, rows[i])]

Total(row) == IF row.results = {} THEN row.points ELSE ledger_points(row.results)

\* After a cycle that collected, each row shows exactly the breakdown the
\* running build parsed, or none: the hash tells a version with other ledgers
\* apart, and every code comes back, whichever build wrote the version before.
CheckShowsOwnParse ==
    pc = "up" /\ enabled => page = parsed /\ parsed # NoRows

\* With the kill switch on, only a version written under another build's codes
\* can show a breakdown that is not the stored one: going back to a build that
\* can write the stored version shows all of it.
KnownCodesReadWhole ==
    pc = "up" /\ Legible(build, log[Len(log)].rows) => page = log[Len(log)].rows

\* A volume that holds ledgers is never opened by a build from before them,
\* which would publish the same table again without.
OldBuildsStayOut ==
    (\E v \in DOMAIN log : \E i \in DOMAIN log[v].rows : log[v].rows[i].results # {})
        /\ pc # "down" => Migrations[build] = 2

\* The inductive invariant: the process that runs has migrated the volume to
\* its schema; ledgers are of the schema that has them; between publication
\* and load the newest version is what the cycle parsed, in codes of its own;
\* and what is shown was read from the newest version.
IInv ==
    /\ TypeOK
    /\ DOMAIN answer = {Ingest}
    /\ pc # "down" => migrated = Migrations[build]
    /\ (\E v \in DOMAIN log : \E i \in DOMAIN log[v].rows : log[v].rows[i].results # {})
          => migrated = 2
    /\ pc \in {"load", "up"} /\ enabled =>
          /\ log # <<>> /\ log[Len(log)].rows = parsed
          /\ parsed # NoRows /\ Legible(build, parsed)
    /\ pc = "up" => log # <<>> /\ page = ReadBy(build, log[Len(log)].rows)

\* As documented (storage.rs, README): a row never shows a breakdown that does
\* not add up to its total.  Violated: an entry that is skipped on load leaves
\* the others, and nothing sums them again.
ShownLedgersReconcile ==
    \A i \in DOMAIN page : Total(page[i]) = page[i].points
=============================================================================
