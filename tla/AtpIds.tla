-------------------------------- MODULE AtpIds --------------------------------
(***************************************************************************)
(* The map from article titles to ATP player ids (live/atp_ids.toml): the  *)
(* tool that extends it (bin/refresh-atp-ids.rs) and the links the server  *)
(* makes of it (atp.rs).                                                   *)
(*                                                                         *)
(* A person runs the tool now and then.  A run reads the file, takes the   *)
(* titles of the table that have no id, asks Wikidata for them a batch at  *)
(* a time and writes the file anew.  Meanwhile players enter and leave the *)
(* table, Wikidata supersedes ids, the network fails, and the run may die  *)
(* at any point, also between truncating the file and having written it.   *)
(* The person commits the file, or takes it back to what is committed.     *)
(***************************************************************************)
EXTENDS Integers, FiniteSets, Sequences, SequencesExt

CONSTANTS
    Title,      \* article titles, in the order the map keeps them
    Id,         \* what Wikidata may give as an id
    ValidId,    \* those of the format Wikidata demands
    Answer,     \* P536 statements an entity may have
    Table,      \* sets of titles the standings may show
    Batch,      \* BATCH
    MaxChanges  \* bound on changes of table, Wikidata and, by hand, the file

ASSUME AtpIdsAssumption ==
    /\ Title \subseteq Int /\ ValidId \subseteq Id /\ Table \subseteq SUBSET Title
    /\ Batch \in Nat \ {0} /\ MaxChanges \in Nat

VARIABLES
    table,      \* the players of the standings
    wikidata,   \* wikidata[t]: the statements of t's entity
    file,       \* the file: whether it parses, and its entries
    committed,  \* its entries in the repository, which builds compile in
    pc,         \* what the run does
    titles,     \* the titles it read
    map,        \* the map it builds
    wanted,     \* titles it has yet to ask for
    unresolved, \* titles it will report
    cut,        \* a run died while it wrote, and the file was not taken back
    changes

environment == <<table, wikidata, changes>>
run  == <<pc, titles, map, wanted, unresolved>>
vars == <<environment, file, committed, run, cut>>

\* Maps from titles to ids.
Maps == UNION {[S -> Id] : S \in SUBSET Title}
NoEntries == [t \in {} |-> {}]
Extends(m, n) == \A t \in DOMAIN n : t \in DOMAIN m /\ m[t] = n[t]
Only(m, S) == [t \in DOMAIN m \cap S |-> m[t]]

------------------------------------------------------------------------------
(* Wikidata's answer.                                                      *)

Preferred(statements) == {k \in DOMAIN statements : statements[k].rank = "preferred"}
Usable(statements) == {k \in DOMAIN statements : statements[k].rank # "deprecated"}
LastOf(statements, S) == {statements[k] : k \in {n \in S : \A m \in S : m <= n}}

\* Seeded fault: deprecated statements are not skipped.
pick_any(statements) ==
    IF Preferred(statements) # {} THEN LastOf(statements, Preferred(statements))
    ELSE LastOf(statements, DOMAIN statements)
\* The last preferred statement, else the last that is not deprecated.
pick(statements) ==
    IF Preferred(statements) # {} THEN LastOf(statements, Preferred(statements))
    ELSE LastOf(statements, Usable(statements))

\* The id resolved for a title, if any: a statement may have no value.
resolve(t) == {s.value : s \in pick(wikidata[t])} \cap Id

------------------------------------------------------------------------------
(* The tool.                                                               *)

Init ==
    /\ table \in Table
    /\ wikidata \in [Title -> Answer]
    /\ file = [parses |-> TRUE, ids |-> NoEntries]
    /\ committed = NoEntries
    /\ pc = "idle"
    /\ titles = {}
    /\ map = NoEntries
    /\ wanted = {}
    /\ unresolved = {}
    /\ cut = FALSE
    /\ changes = 0

\* Seeded fault: every run starts from an empty map.
load_nothing == NoEntries
load_existing == file.ids

\* A run begins; a file that does not parse ends it.
Start ==
    /\ pc = "idle"
    /\ file.parses
    /\ pc' = "resolve"
    /\ titles' = table
    /\ map' = load_existing
    /\ wanted' = titles' \ DOMAIN map'
    /\ unresolved' = {}
    /\ UNCHANGED <<environment, file, committed, cut>>

\* The next titles, a batch of them.
Chunk == {t \in wanted : Cardinality({u \in wanted : u <= t}) <= Batch}

Found(t) == resolve(t) \cap ValidId

\* One request: valid ids are inserted, the other titles reported.
Resolve ==
    /\ pc = "resolve"
    /\ wanted # {}
    /\ LET found == {t \in Chunk : Found(t) # {}}
       IN  /\ map' = [t \in DOMAIN map \cup found |->
                         IF t \in found THEN CHOOSE i \in Found(t) : TRUE ELSE map[t]]
           /\ unresolved' = unresolved \cup (Chunk \ found)
    /\ wanted' = wanted \ Chunk
    /\ UNCHANGED <<environment, file, committed, pc, titles, cut>>

Finish ==
    /\ pc' = "idle"
    /\ titles' = {} /\ map' = NoEntries /\ wanted' = {} /\ unresolved' = {}

\* The network or Wikidata fails, or the run dies, before anything is written.
Abort ==
    /\ pc = "resolve"
    /\ Finish
    /\ UNCHANGED <<environment, file, committed, cut>>

\* Seeded fault: the last batch, if it is not full, is not asked for.
AllButTheRest == Cardinality(wanted) < Batch
AllAsked == wanted = {}

\* write_out opens the file, which empties it,
Truncate ==
    /\ pc = "resolve"
    /\ AllAsked
    /\ pc' = "write"
    /\ file' = [parses |-> TRUE, ids |-> NoEntries]
    /\ UNCHANGED <<environment, committed, titles, map, wanted, unresolved, cut>>

\* and writes the map.
Write ==
    /\ pc = "write"
    /\ file' = [parses |-> TRUE, ids |-> map]
    /\ Finish
    /\ UNCHANGED <<environment, committed, cut>>

\* The run dies, or the disk is full, in the middle: the first entries are
\* there, and what follows them may be part of a line.
Cut ==
    /\ pc = "write"
    /\ \E t \in Title, whole \in BOOLEAN :
          file' = [parses |-> whole, ids |-> Only(map, {u \in Title : u < t})]
    /\ cut' = TRUE
    /\ Finish
    /\ UNCHANGED <<environment, committed>>

------------------------------------------------------------------------------
(* The person and the world.                                               *)

Commit ==
    /\ pc = "idle"
    /\ file.parses
    /\ committed' = file.ids
    /\ UNCHANGED <<environment, file, run, cut>>

TakeBack ==
    /\ pc = "idle"
    /\ file' = [parses |-> TRUE, ids |-> committed]
    /\ cut' = FALSE
    /\ UNCHANGED <<environment, committed, run>>

Change ==
    /\ changes < MaxChanges
    /\ changes' = changes + 1

\* An entry is typed in.
Type(t) ==
    /\ Change
    /\ pc = "idle"
    /\ file.parses
    /\ t \notin DOMAIN file.ids
    /\ \E i \in Id : file' = [file EXCEPT !.ids = [u \in DOMAIN @ \cup {t} |-> IF u = t THEN i ELSE @[u]]]
    /\ UNCHANGED <<table, wikidata, committed, run, cut>>

NewTable ==
    /\ Change
    /\ table' \in Table
    /\ UNCHANGED <<wikidata, file, committed, run, cut>>

NewStatements(t) ==
    /\ Change
    /\ \E a \in Answer : wikidata' = [wikidata EXCEPT ![t] = a]
    /\ UNCHANGED <<table, file, committed, run, cut>>

Next ==
    \/ Start \/ Resolve \/ Abort \/ Truncate \/ Write \/ Cut
    \/ Commit \/ TakeBack \/ NewTable
    \/ \E t \in Title : Type(t) \/ NewStatements(t)

Spec == Init /\ [][Next]_vars

------------------------------------------------------------------------------
(* Properties.                                                             *)

TypeOK ==
    /\ table \subseteq Title
    /\ file \in [parses : BOOLEAN, ids : Maps]
    /\ {committed, map} \subseteq Maps
    /\ pc \in {"idle", "resolve", "write"}
    /\ titles \subseteq Title /\ wanted \subseteq Title /\ unresolved \subseteq Title
    /\ cut \in BOOLEAN

\* Nobody loses a link to a run: what is committed stays in the file, and is
\* in the map while the file is being rewritten, whoever left the table, and
\* however the network failed; only a run that dies while it writes loses
\* entries (bin/refresh-atp-ids.rs, load_existing and write_out: "the file
\* only ever grows").
OnlyGrows ==
    ~cut => Extends(IF pc = "write" THEN map ELSE file.ids, committed)

\* A run that gets as far as writing has accounted for every player it read,
\* in whatever batches: with an entry, or with a report, and not both
\* (bin/refresh-atp-ids.rs, main: "reported, not guessed").
EveryTitleAccounted ==
    pc = "write" => \A t \in titles : (t \in DOMAIN map) # (t \in unresolved)

\* The invariant behind both: a run's map extends the file it read, and each
\* title it read has an entry, is still to be asked for, or will be reported.
Grows ==
    /\ OnlyGrows
    /\ pc = "resolve" => Extends(map, file.ids)
Accounts ==
    /\ wanted \cap (DOMAIN map \cup unresolved) = {}
    /\ unresolved \cap DOMAIN map = {}
    /\ titles \subseteq DOMAIN map \cup wanted \cup unresolved
    /\ pc = "write" => wanted = {}
IInv == TypeOK /\ Grows /\ Accounts

\* An id a run adds is well formed and in force when it was asked for: not
\* deprecated, and the preferred one where one is marked
\* (bin/refresh-atp-ids.rs, resolve).
InForce(t, id) ==
    \E s \in ToSet(wikidata[t]) :
        /\ s.value = id
        /\ s.rank # "deprecated"
        /\ (\E p \in ToSet(wikidata[t]) : p.rank = "preferred") => s.rank = "preferred"
AddsIdsInForce ==
    [][\A t \in DOMAIN map' \ DOMAIN map :
          pc = "resolve" => map'[t] \in ValidId /\ InForce(t, map'[t])]_vars
=============================================================================
