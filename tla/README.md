# Verification of racetoturin

The program fetches the standings of the ATP race from a Wikipedia article,
parses and validates them, keeps every distinct version in SQLite, applies the
selection rule for the Turin finals and serves one page from memory. This
directory holds TLA+ models of it, the TLC configurations that check them on
small instances, and proofs checked by TLAPS.

Paths are relative to the repository (`src/storage.rs` is the Rust file).

## The system

| part | state | operations | talks to |
|---|---|---|---|
| snapshot store (`src/storage.rs`, `migrations/`) | SQLite tables: versions, their rows, ledgers and announcements, the current pointer | `publish_if_changed` (one transaction), `load_current` (six queries) | called by the ingest cycle |
| ingest and refresh (`src/lib.rs`, `src/main.rs`) | the served `AppState` behind an `ArcSwap` | boot (one cycle, errors end the process), `refresh_loop` (errors keep the state) | curated file, fetcher, parser, store, selection |
| selection rule (`src/qualification.rs`) | none, a pure function of the table and the curated facts | `select` | page |
| page (`src/web.rs`, `templates/`) | none, reads `AppState` | `/`, `/methodology`, `/static/*`, `/health/ready`, `/health/fresh` | readers, monitors, the caches between |
| source parser (`src/source.rs`) | none | `parse`, `validate` | ingest |
| curated facts (`src/curated.rs`) | a file an operator edits | `load` | ingest, selection |
| fetcher (`src/fetch.rs`) | none | one GET, no retry | Wikipedia |
| profile links (`src/atp.rs`, `src/bin/refresh-atp-ids.rs`) | a checked-in file, compiled in | lookup; an offline tool that extends the file | page |
| theme picker (`static/theme.js`) | one browser preference | click | page |

What is hard here is not in any one function. A load is several queries, and
the process next to it may publish between two of them. A publication decides
by a read and acts by a later write. A cycle has five steps that fail
separately, at boot with one consequence and in the loop with another, and the
process may die after the commit and before the swap. The selection moves one
seat about under two kinds of curated facts. A deployment leaves behind a
volume another build wrote and caches that another build filled. Two ages are
measured from different events, one against the poll and one against the
source. `PROJECT.json` lists these hazards one by one, at the line where each
bites.

## The modules

```
SnapshotData      what a snapshot is, its hash, movement, the store's answers
  SnapshotLog     the promise: an append-only log, atomic publish, atomic load
    Store         storage.rs over SQLite, statement by statement
      StoreProofs             its safety, and that it implements SnapshotLog
    Service       main.rs and lib.rs on top of SnapshotLog (INSTANCE)
      ServiceProofs           what is served, through faults and restarts
    Builds        ledgers written by one build and read by another
                  (on top of SnapshotLog)
      Deployment  Builds and Assets (INSTANCE): volume and caches together
        DeploymentProofs      what is shown, through deployments and rollbacks
Assets            the stylesheet's URL, the page that names it, a cache
Freshness         the alarm and the stale label under a clock
  FreshnessProofs
Lists             the iterator adaptors: enumerate, filter, take, skip, sum
  ListProofs
  Qualification   qualification.rs, and the boundary lines of web.rs
    Page          web.rs, index: one page from one load of the state
      SelectionProofs         the lists of select() are the published rule,
                              and the parts of a page agree
  Standings       source.rs: the standings table, its ledgers, validation;
                  web.rs, build_ledger
    StandingsProofs           what is shown of a badly edited table
AtpIds            bin/refresh-atp-ids.rs and the file it maintains
  AtpIdsProofs
MCStore, MCService, MCQualification, MCPage, MCStandings, MCFreshness,
MCDeployment, MCAtpIds        the instances TLC checks
```

Operators introduced by a comment "Seeded fault" are not part of a model. Each
is a plausible bug in the definition that follows it; `PROJECT.json` pairs it
with the property that must fail when it takes that definition's place.

### SnapshotData, SnapshotLog

A row is a player code, its other columns as one value, and a set of ledger
entries; rank is position, because `validate` accepts only tables whose ranks
are 1, 2, 3, ... SHA-256 is taken to be injective, so the hash is the record of
what it covers: the rows and the announcements, not `source_as_of` and not
`generated_at`. The order of a ledger and the text of a row are abstracted. Of
what `validate` asks, `ValidRows` keeps that there are rows and that no player
comes twice; the minimum of ten rows is not imposed, so small tables stand for
large ones, and the rest is in `Standings`.

`SnapshotLog` is what a caller may rely on: `PublishNew` appends a snapshot
whole and makes it current in one step, `PublishUnchanged` compares with the
current version only, `Load` returns the current version with its movement
against the version before it, and `Fail` changes nothing.

### Store

One action per SQL statement, for any number of callers on any number of
pooled connections, but that a row is inserted together with its ledger's
entries: until the commit both are private to the transaction.

| action | code |
|---|---|
| `Begin` | `pool.begin()`: takes the connection |
| `SelectCurrent` | the hash comparison; the first read fixes what the transaction sees |
| `InsertSnapshot`, `Busy` | the first write: takes SQLite's write lock, or fails when somebody else holds it past the busy timeout or has committed since the read |
| `InsertRow`, `InsertQualifier`, `RejectQualifier` | the two loops; the announcement's primary key |
| `MovePointer`, `Commit` | the upsert of the pointer, the commit |
| `LoadMeta` ... `LoadQualifiers` | the queries of `load_current`, each taking the connection for itself |
| `Fail` | any statement may fail: the transaction is rolled back, the call returns the error |

The deployed process has one caller and one connection. The code guards
against more (a transaction, a busy timeout, WAL), and another process on the
same file is one `fly ssh console` away, so the model has more. Callers of one
process share its connection: `ConnectionFree` holds while no other caller of
it is in a transaction, and a load gives it back between its queries.

SQLite's part (`MayWrite`, rollback, the id sequence rolled back with the
transaction) is external, modelled as WAL mode documents it.

### Service

The cycle of `ingest`, one action per step that can fail or be interrupted:
`LoadCurated`, `Collect` or `SkipCollection`, `Publish` or `PublishRefused`,
`Load`. `CycleFails` is the error path of all of them: in the refresh loop it
goes back to sleep, at boot it ends the process, which is what `?` in `main`
does. `OpenFails` is a boot that ends before it, in `Store::open`. `AfterCycle` is
the early return of `refresh_loop` when there is nothing to poll. The
environment edits and breaks the article, the fixture and the curated file,
changes the settings (a restart), and kills the process at any point; the
volume survives.

`Service` uses the store at its promise. That is sound because `Store`
implements `SnapshotLog`, which is proved.

### Qualification

`select` as the code computes it, by filtering and chaining lists (`Lists`; the
order is kept as a list of ranks, since a rank determines its row). What it is
checked against counts instead: `Expected` says for each remaining player how
many of those who go before it there are. `RuleAssumption` wants what the code's
numbers 7, 8 and 2 satisfy: champions eligible only below the seats by rank, and
at least two of them read. With one, `AlternateStepsUp` is false: a second
champion would be passed over as an alternate, and move up when the first
withdraws. The actions change the table, a
title, a withdrawal, or start the curated file over; each ends with the
selection recomputed, as the cycle that reads the change does.

### Page

`index` loads the shared state once and builds three things from it by
different ways: the summary above the table, the text a shared link carries,
and the rows. `Request`, `Summarise` and `Respond` are the steps of one
request; `Publish` and `Curate` swap the state between them. A page is what
the reader was sent; its properties compare its parts. Two players have the
same display name, since names are titles without their disambiguator.
Movement needs the table before the current one, and a version may differ from
the one before in its announcements alone, so `previous` may be the same table.

### Standings

The parser has no state, so the state is the article: its header blocks, the
chunks between row separators, the announcements, and the markers the parser
finds its way by. `Init` is an undamaged article; each action is one edit of its
markup.

| what is edited | actions |
|---|---|
| the rows of the table | `RemoveRow`, `SwapRows`, `InsertRow` (begun as a copy of the one above) |
| a rank, a name | `RetypeRank` (any rank, or none), `RelinkName` (to anybody, or no link), `Unalign` |
| the numbers | `RetypeTotal` (another number, or not a number), `DropNumbers` |
| a tournament's cell | `DropCell`, `CopyCell`, `RetypeResult`, `UnlinkResult`, `RelinkResult` |
| the rest of a row | `Truncate`, `CloseTable` (a line "\|}" after any of its cells) |
| beside the rows | `LoseBlock`, `LoseMarker`, `EditAnnouncement`, `DropAnnouncements` |

`Accepted` and `Rows` are what `parse` makes of it. `table_at` is the text up to the
first end of the table, so a stray one takes what stands below it away. A chunk
is modelled by what the parser reads in it: the number in the rank cell, the
`!` cells that are numbers, whether a "|}" ends the table there, and for each
cell whether it has a link, the player's prefix, a text, and points. Each chunk
carries what the parser does not read: the row it was written for (`of`; none for
an inserted row), how often its text was edited (`edits`), and whether an edit
put a result there that is not the row's (`foreign`). They let the properties
speak of rows nobody touched. `parse_qualifiers` passes over an announcement
without a link, the prefix, a date or a citation, as the code does, and without
the opening line of its table reads the next sortable one, `Doubles`.
`build_ledger` is the breakdown the page makes of a row that was kept.

Three assumptions say what an undamaged article is. `BlocksAssumption`: each
slot is declared by one block of columns. `TableAssumption`: a player comes once;
the cells of a row account for its total and fill no more columns than the
header has; a cell without a link is empty or an absence, worth nothing; an
event's title is no player's. `EditorsAssumption`: announcements are of players,
and typed totals are numbers. Nothing in the code checks these: they are the
meaning the parser relies on, for `MCTable` TLC evaluates them, and the
properties say how much of the meaning an edited article can lose. That points
fall along the table is not assumed: a table that is accepted has them fall.

Two limits of what any validation can tell are in the properties. The sum of a
ledger does not say which events it is made of, so a cell that was copied or
links to another event may be shown under that event (`LedgersLoseNoPoints`
leaves such rows out). And a name is believed: if two names exchange their
links, ranks, points, players and announcements are all valid and the two rows
are published under each other's player. `AnnouncedStayPublished` says that this
takes an edit of both.

### Freshness

`checked_at` is the time of the last successful collection, `source_as_of` the
date the article states. Time is explicit: a sleep lasts `Poll`, a cycle at
most `MaxCycle` (the fetcher has a timeout), and `Tick` does not pass a
deadline. `Finish` is the end of `ingest`, `Fail` the error arm of
`refresh_loop` or the exit at boot; a load that fails after the commit counts as
a cycle that failed before it (`Service` has the two apart). `healthy` is that
every cycle can succeed: the source is there, with an article the parser and
the store take (announcing a player twice is refused by the store alone), and
the volume responds. With collection off (`enabled`) a boot takes
`checked_at` from the stored version. The environment turns source and volume
bad and good, kills the process, flips the kill switch, and publishes editions
or mere new dates. The proofs are for all values of the times, under
`AlarmAssumption`: the threshold is at least one poll and one cycle, which is
what the comment in `Config` asks for and the defaults (6 h, a day) satisfy.
The code does not check the settings.

### Builds, Assets, Deployment

`Builds`: a ledger is reconciled once, by the build that parses it, and stored
under that build's codes. Another build that serves the volume skips entries it
has no code for. `Migrations` are checked by `Store::open`: sqlx refuses a
volume with a migration the build does not carry. `Deploy` replaces the process
by any build, newer or older.

`Assets`: a page names its stylesheet by a hash, answers for that URL are kept
for a year, and `app_css` answers every version with its own. `cache` is what
readers share (a CDN, or a browser); it may forget anything at any time, and
page and stylesheet are separate requests with deployments between them.

`Deployment` composes both. A deployment is one step of both, and requests that
no cache answers wait until the process serves (`Answering`), so a rollback that
ends in a boot that fails leaves the caches alone.

### AtpIds

One run of the tool: `Start` reads the file and the table, `Resolve` asks for a
batch, `Truncate` and `Write` are the two halves of `fs::write`, `Abort` and `Cut`
the failures before and inside it. A cut file has the first entries; the rest
may be part of a line, in which case it does not parse and the next run refuses
it. The person commits the file or takes it back; the table and Wikidata change
at any time, between batches too. A statement may lack a value, an id may be
superseded, and a value may not be an id at all.

## What the runs check

| run | question | instance |
|---|---|---|
| `store_two_processes` | Do interleaved statements of publications and of loads keep the promise, and does every call return, though callers wait for a connection and for the write lock? | 3 callers, two of which share a connection, 3 candidates, up to 4 versions; 153,384 states |
| `service_cycles` | Is what is served one stored version, never older than before, and the result of the check it claims; does the page follow once things settle? | 4 articles, 2 curated files, 3 changes, 1 crash or storage error, a clock of 2; 286,714 states |
| `selection_full` | Is the selection the published rule, and does one change do to it what it should? | 21 players, the curated ones ranked 1, 7, 8, 9, 20, 21; tables of 6, 8, 9 and 21 rows and one with ties; 20,480 states |
| `page_index` | Do summary, shared text, table, margins and movement of one page agree, whatever is swapped meanwhile? | tables of 4 and 5 rows, 2 seats by rank, 3 tables, 2 sets of announcements; 291,904 states |
| `standings_edits` | What can a reader be shown of a table that was edited badly? | 4 rows and a player who is not in them, at least 2 published, 4 columns in 3 blocks; any two edits of rows, with one beside them; 430,202 states |
| `freshness_clocks` | Are alarm and label raised when they should be, and only then? | poll 2, cycle 1, alarm over 4, stale over 7, editions every 2 with lag 1, time up to 8; 3,943,513 states |
| `deployments` | What do builds read of each other's volumes, and readers of each other's stylesheets? | 3 builds (before ledgers, two codes, three codes) with 2 stylesheets, 4 tables, 1 reader with a cache, 4 changes; 1,654,982 states |
| `atp_ids` | Can a run lose a player, or add an id not in force? | 3 titles in batches of 2, 5 answers, 3 tables, 2 changes; 1,430,736 states |
| `service_crashloop` | documented: the last good snapshot keeps serving | violated, see below |
| `service_date` | documented: the page shows the article's date | violated, see below |
| `standings_corrupt` | documented: a bad edit upstream cannot corrupt the page | violated, see below |
| `builds_rollback` | documented: no row shows a partial breakdown | violated, see below |

The properties, with the line each is about, are stated above their
definitions. Why the bounds are enough:

- Every conflict in the store is between two callers (two writers, a writer and
  a reader), and waiting takes a third: one of two tasks has the connection the
  other needs, and waits itself for the lock of another process. No publication
  begins once there are two versions (`MaxVersion`), but those that have begun
  may add two more: a load of version n looks at n and n - 1, and others may be
  published meanwhile. The candidates differ in players, ranks, ledgers and announcements,
  and one repeats an announcement; two callers may publish the same one. The
  proofs have none of these bounds.
- Three changes of the environment allow an article to change and return, and
  a setting or the curated file to change as well; one fault is a crash or a
  storage error at any step of any cycle.
- The published numbers 7, 8, 20 and 2 with champions and withdrawals next to
  each limit; tables one row short of the seats, exactly at seat eight, exactly
  at the alternate, and full; ties across the line.
- On a page of four or five rows with two seats by rank there are top seats, seat
  eight, an alternate and players out, a champion may be ranked in the last two,
  and two withdrawals leave no alternate. The tables differ in length, so that
  somebody enters and the table before may be the longer one.
- Two edits are enough for one to hide the other: a row lost and the ranks
  below retyped, two names exchanged, a row inserted where another was removed,
  a cell deleted in a row that is also unlinked, the end of the table moved up
  and an announcement dropped with it (the one edit beside the rows). A typed
  total may be above every other or between two. The four rows differ in what
  the parser tells apart (see `MCStandings`); two of them may be lost before the
  article is too short. The proofs have any number of edits.
- The alarm takes two missed cycles and the stale label one missed edition, as
  with the defaults; a time of 8 has room for an outage, the alarm and the
  recovery. The proofs have no bound.
- Four deployments, settings and edits: a newer build writes, an older one
  serves with the kill switch on, the newer returns. Two builds share a
  stylesheet, so that one may return under another build. One reader suffices
  for a mismatch; the cache is what a second one would see. The proof has any
  number.
- Three titles are a full batch and a short one.

Deadlock is checked for the store, the selection, the page and the id tool. In
`Service` and `Deployment` the system may stop: with collection off the loop has
returned, and a build that refuses the volume stays down. In `Standings` the
edits are bounded, in `Freshness` the clock.

### Fairness

`Store!FairSpec` asks for strong fairness of each caller's next statement: a
query waits for the connection, and the pool hands it out in the order of
arrival, so a caller whose turn comes again and again takes it. Nothing is
assumed of new calls or of failures. `Service!FairSpec` asks for weak fairness
of the process: it goes on, its sleep ends, and the platform starts it again
after it exits. Nothing is assumed of the environment, so the liveness
properties say what happens once it settles. In `Freshness` the same schedule is
a matter of deadlines instead: `Tick` waits for a sleep that is over and for a
cycle at its timeout. The platform's restart has no deadline there, because
none of its properties speaks of a process that is down.

### What the code does not do as documented

- `service_crashloop`. The runbook says of a rejected candidate that the last
  good snapshot keeps serving. That holds in the refresh loop
  (`CycleFails` leaves `state` alone; `ServedIsStored`). At boot `ingest` fails before
  it reads the store, and `main` exits, so a restart during that time loops.
  With the kill switch on it does not (`KillSwitchServes`).
- `service_date`. The README says the page shows exactly the date Wikipedia
  states. The hash leaves the date out, so an article that is re-dated without
  another change keeps its old date on the page, and becomes "stale" by it.
- `standings_corrupt`. The README says that a bad edit upstream cannot corrupt the
  served page. `BadEditsCannotCorrupt` reads this as weakly as it can be read,
  that a page is not wrong in four respects at once, and the run shows a page
  that is. Each of the four needs one edit, and is possible alone:
  - A row whose player's name is not a link takes its first result for the player
    and is published under that title (`NamesArePlayers` does not hold), unless
    the player's qualification is announced (`AnnouncedStayPublished`).
  - The total is the first of a row's `!` cells that is a bare number, so with a
    footnote in the total's own cell the count of tournaments is published as the
    player's points (`CountsAreNoTotals`), wherever the order of points allows it:
    in the last row, or above others like it. The row's breakdown is dropped, so
    the README's "every total on the page is one a reader can add up and check"
    fails too. `TotalsStayBetween` is what does hold.
  - The table ends at the first line that begins with "|}", so a stray one in a
    row drops the rows below it, which nobody edited (`UntouchedRowsStay`), and the
    article is accepted while ten rows remain and everybody announced is among
    them. The rows above are not affected (`DamageStaysInItsRow`).
  - A comment in `parse_qualifiers` says the doubles table follows the singles table
    and must be ignored. The table read is the first sortable one after the
    heading; when the opening line of the singles table is written in another
    way, that is the one of the doubles (`DoublesAreIgnored`).
- `builds_rollback`. A comment in `results_of` says that skipping an entry breaks
  reconciliation, so that the row shows no breakdown. Nothing sums a ledger
  after it is loaded, so the page shows a partial one, under a sum that is not
  the row's total. It takes a version written by a build with more codes and the
  kill switch; with collection on, the next cycle replaces it
  (`CheckShowsOwnParse`, `deployments`).

Three more are limits of the properties above, stated in them:

- A row that lost a cell worth nothing keeps its breakdown, although a comment
  in `parse_ledger` says reconciliation rejects a short row. Its results may
  stand in another block; the points are right (`LedgersLoseNoPoints`).
- When a stylesheet that had been replaced is deployed again, a cache may hold
  the other build's stylesheet under its URL, for a year: a page of the old
  build had asked for it while the new one answered. `CurrentPagesMatch` is
  stated, and proved, up to such a return (`returned`).
- The id file "only ever grows" but for a run that dies inside `fs::write`
  (`cut` in `OnlyGrows`); the committed file brings the entries back.

## What is proved

From the assumptions on constants alone, without the bounds of the runs:

- `StoreProofs`: `TypeCorrect`, `CommittedIsWhole`, `PointerIsNewest`,
  `Deduplicated`, `Immutable`, for every set of callers, assignment of
  connections and set of candidates that list a player once, as `validate`
  ensures (`CandidateAssumption`); `Refinement`, `Store!Spec` implements
  `SnapshotLog!Spec` under the mapping `PublishedLog`, `Answers`;
- `ServiceProofs`: `TypeCorrect`, `ServedStored`, `Advances`, `ChecksAreTrue`, for
  any articles and curated files and any number of edits, faults and restarts;
- `SelectionProofs`: `SelectIsTheRule`, the lists `select` builds are the published
  rule, its margins included, for every validated table, set of champions and
  set of withdrawals, any length of the table and any numbers of seats (`RuleAssumption`); from it
  `TypeCorrect`, `RuleFollowed`, `LinesDivide`; and what one change does to the
  selection, `WithdrawalIsAlone`, `SlamCostsSeatEight`, `AlternateIsNext`;
  and of the page `PagesAgree`, `MarginsAgree`, `MovesArePermutation`, for the same
  tables and any announcements and names (no name is the dash that stands for an
  empty seat, `NameAssumption`), with any number of swaps during a request;
- `StandingsProofs`: `UntouchedRowsAreRight`, `BreakdownsLoseNoPoints`,
  `BreakdownsAddUp`, `TotalsAreBetween`, `AnnouncedArePublished`, for any table and
  header that satisfy the three assumptions and any number of edits;
- `FreshnessProofs`: `TypeCorrect`, `AlarmIsNoFalseAlarm`, `OutagesAreSeen`,
  `Recovers`, `LabelIsTrue`, for any poll, cycle, alarm, edition and lag times;
- `DeploymentProofs`: `TypeCorrect`, `ShowsOwnParse`, `ReadWhole`, `StayOut` of
  `Builds`, for any builds, codes, migrations and tables; `StylesMatch` of `Assets`,
  for any builds, stylesheets and readers; `Deployment` implements `Assets`
  (`ImplementsAssets`), so the same holds beside a volume and a process that comes
  and goes (`DeployedStylesMatch`), and it implements `Builds` (`ImplementsBuilds`),
  so a cycle of a deployment shows its own parse (`DeployedShowsOwnParse`);
- `AtpIdsProofs`: `FileOnlyGrows`, `NobodyForgotten`, `OnlyIdsInForce`, for any
  titles, answers, tables and batch size;
- `ListProofs`: what `Filter`, `Take` and `Skip` make of an ascending list
  (`FilterEnumerates`, `TakeEnumerates`, `SkipEnumerates`), that a set has one
  ascending list (`EnumeratesUnique`), and how a sum changes with its list
  (`TotalAppend`, `TotalConcat`, `TotalAround`, `TotalParts`, `TotalReplaced`).

Of these invariants none is inductive alone, but for those of the selection. The
store's `IInv` adds what they lean on:

- `Locked`: one caller at most is past its first write, and it has seen every
  commit; ids have no gaps and the pointer is the last of them.
- `StillNew`: a transaction that has passed the comparison and has seen every
  commit still differs from the current version. This is what makes
  `Deduplicated` hold although the comparison is made long before the commit.
- `Copying`: what is written so far is the front of the candidate. At the
  commit it is all of it, hence whole.
- `Reading`: what a load has read so far is the front of one version, the one
  its first query found.

The refinement maps a caller in the middle of a load to one that has its
answer already: the view of the version its first query found. So that query
is the abstract `Load`, the commit is the abstract `PublishNew`, the
comparison that finds nothing new is `PublishUnchanged`, errors are `Fail`,
and every other statement is a stutter. That the last query returns exactly
the view owed is `LoadEnds`; it needs `Reading`, and that versions never
change.

The service's `IInv` orders the cycle (`CycleInOrder`): a candidate exists only
between collection and load, and when the load is due the newest version says
what the candidate says, because a publication either found it there or
appended it. Serving, readers have been shown what is served. So a load, the
only step that changes what is served, moves to the newest version, and to the
candidate's facts if there was one. A publication behind the served version
changes no older view (`ViewsStand`).

Freshness counts rounds: `Checked` says that a cycle or sleep in progress began
within `missed` rounds of the last check, `Missed` that while all is well a
failed cycle began before the recovery, `Editions` that what is collected was
the newest edition when the cycle began.

The proof about builds takes no sum: reconciliation keeps a ledger or drops it,
and what is kept is in the parsing build's codes, so that build reads back all
of it. `IInv` adds that a running process has migrated the volume to its schema,
that a volume with ledgers has their migration, and that between publication
and load the newest version is what the cycle parsed.

A stylesheet kept under the running build's URL was put there by a process
with that stylesheet, because no page named the URL before the build was first
deployed (`served`). The id tool's map extends the file it read, and the file
extends what is committed; each title it read has an entry, is still to be
asked for, or will be reported, and never two of these.

The selection is recomputed from the table and the curated file by every step
that changes them, so its invariant says no more than that, and the work is in
the lists. Each list of `select` is the ascending list of a set of ranks
(`Enumerates`): those still in, the first seven of them, the champions with a
claim, the rest. So the place of a player in the order is a count (`Position`):
among the seven and among the champions, of those ranked above; in the rest, of
the champions too. That is what `Expected` counts. `Lined` decides whether there
is a margin to show, and points fall along the table, which gives the margins
their signs. For a change of one step only two sets matter, who still chases and
who claims: seat eight is the best ranked claimant's or, without one, the next by
rank (`SeatEightHeld`); a withdrawal takes the player from the chasers, or the
first of them if it opens a seat by rank (`AfterWithdrawal`); a title adds a
claimant.

A page is made in two steps from the state the request took in the first; `PInv`
says that this state was served once, with the selection of its own table, and
that the page sent is a function of it (`Reply`). Then the parts agree because
the names under a label, in the order of the table, are those of the set of
ranks with that state, of which there is one list.

The `IInv` of `Standings` says what edits leave of an article: a chunk written for
a row is that row as long as nobody edited it (`Remains`), and after one edit that
brought no other result it is one of a few forms (`OneEdit`: no numbers, no cells,
the cells as they were, or one cell changed beside a whole total); the header
lacks one block at most (`BlocksRemain`). If the article is accepted, ranks are
1, 2, 3, ..., so a chunk nobody edited above the table's end is the row at its own
rank (`RowFound`), with its player and total (`RowRight`). What is left is
arithmetic about one row, and about lists of them:

- points do not rise along the table, so what stands between two such rows is
  in the range of their totals (`TotalsAreBetween`);
- an announced player must be in the table, and nobody is there twice, so an
  unedited row of his is the only one that names him (`AnnouncedArePublished`);
- a ledger is read off the columns of the header laid end to end, which come
  in runs, one for each block (`SlotsInRuns`), so `build_ledger` opens each heading
  once, and the slot of a column is the one its block was written with
  (`ColumnsMeant`);
- the entries read are worth as much as the cells, but for cells past the
  header. Where they make the total exactly, what one edit took away or left
  unread was worth nothing (`NothingLost`), and a result with other points, or
  unlinked with points, cannot reconcile.

Filter is a function on 0 .. n, not a fold: for a fold the provers have no
induction. For it, induction is an argument by the least number at which a claim
about sets of numbers fails (`NaturalInduction`, from `LeastNatural`).

Every safety and action property of the passing runs is proved. Only
model-checked are the liveness properties (`CallsReturn`, `PageConverges`,
`KillSwitchServes`), since fairness is out of the provers' reach. The properties
of the four runs that are violated are false, so there is nothing to prove.

## Not modelled

- Labels, number and date formats, markup, compression and security headers of
  the page, `/methodology` and `robots.txt`: text without state. The wikitext
  and TOML syntax below the level of cells and entries, and HTTP details of the
  fetcher (size cap, redirects, timeouts inside one GET), which end in a
  success or an error.
- The year that dates announcements comes from the curated file and the
  article's name from the environment. At a change of season one may be ahead
  of the other; dates are values without a year here.
- The ledger's sum is a `u32`. A wrap needs a cell past the range of any
  tournament, so points are small numbers here.
- The lookup of a compiled-in id and the text of a profile link; the theme
  picker, one browser preference shared with nobody; style, dependencies and
  continuous integration; image, DNS and backups of the deployment.
