------------------------------ MODULE Service -------------------------------
(***************************************************************************)
(* The service: main.rs boots by one ingest cycle and serves what it       *)
(* returned; refresh_loop (lib.rs) repeats the cycle.  A cycle reads the   *)
(* curated file, collects a candidate, publishes it if it changed, loads   *)
(* the current version and builds the state the handlers serve.            *)
(*                                                                         *)
(* The store is taken at its promise, SnapshotLog, which Store implements. *)
(* The article, the curated file and the operator are the environment: the *)
(* article is edited, becomes unreadable and recovers; the process dies at *)
(* any point and is started again on the same volume.                      *)
(***************************************************************************)
EXTENDS SnapshotData

CONSTANTS
    Article,      \* what a readable, valid article can say: snapshots before
                  \* they are stamped with the time of their parsing
    Fixture,      \* what a readable file under RTT_FIXTURE says
    Curation,     \* what a valid curated file can say
    NoArticle,    \* the article, or the file, cannot be fetched or read,
                  \* parsed or validated
    NoCuration,   \* the curated file is missing or invalid
    MaxTime,      \* bound on the clock
    MaxEdits,     \* bound on changes of the article, the file and the settings
    MaxFaults     \* bound on crashes and storage errors

ASSUME ArticleAssumption ==
    /\ NoArticle \notin Article \cup {Fixture}
    /\ NoCuration \notin Curation
    /\ \A a \in Article \cup {Fixture} :
          /\ a \in Snapshot
          /\ ValidRows(a.rows)

ASSUME BoundsAssumption == {MaxTime, MaxEdits, MaxFaults} \subseteq Nat

VARIABLES
    article,      \* what the source says now
    fixture,      \* what the file under RTT_FIXTURE says now
    curated_file, \* what the curated file says now
    mode,         \* settings: "live", "off" (RTT_FETCH=0), "fixture"
    now,          \* the clock
    edits,        \* changes of the environment so far
    faults,       \* crashes and storage errors so far
    log, answer,  \* the store
    pc,           \* what the process does next
    curated,      \* the running cycle's curated file
    candidate,    \* the running cycle's candidate
    state,        \* the AppState the handlers read
    shown         \* the newest version any reader has been shown

environment == <<article, fixture, curated_file, mode, now, edits, faults>>
vars == <<environment, log, answer, pc, curated, candidate, state, shown>>

Ingest == "ingest"
Stamped == {[a EXCEPT !.generated_at = t] : a \in Article \cup {Fixture}, t \in 0..MaxTime}
Storage == INSTANCE SnapshotLog WITH Client    <- {Ingest},
                                     Candidate <- Stamped

NoCandidate == [rows |-> <<>>]
NotServing  == [version |-> 0]
Serving     == state # NotServing

Init ==
    /\ article \in Article \cup {NoArticle}
    /\ fixture = Fixture
    /\ curated_file \in Curation
    /\ mode \in {"live", "off", "fixture"}
    /\ now = 0
    /\ edits = 0
    /\ faults = 0
    /\ Storage!Init
    /\ pc = "down"
    /\ curated = NoCuration
    /\ candidate = NoCandidate
    /\ state = NotServing
    /\ shown = 0

------------------------------------------------------------------------------
(* The ingest cycle.                                                       *)

\* Store::open, and the call of ingest in main.
Start ==
    /\ pc = "down"
    /\ pc' = "curate"
    /\ UNCHANGED <<environment, log, answer, curated, candidate, state, shown>>

Wake ==
    /\ pc = "sleep"
    /\ pc' = "curate"
    /\ UNCHANGED <<environment, log, answer, curated, candidate, state, shown>>

\* Seeded fault: the refresh loop ends with the first failed cycle.
CycleFailsForGood ==
    /\ pc' = IF Serving THEN "done" ELSE "down"
    /\ curated' = NoCuration
    /\ candidate' = NoCandidate
    /\ UNCHANGED <<state, shown>>

\* An error ends the cycle.  At boot it also ends the process, since main
\* propagates it; the refresh loop logs it and keeps the state it has.
CycleFails ==
    /\ pc' = IF Serving THEN "sleep" ELSE "down"
    /\ curated' = NoCuration
    /\ candidate' = NoCandidate
    /\ UNCHANGED <<state, shown>>

LoadCurated ==
    /\ pc = "curate"
    /\ \/ /\ curated_file # NoCuration
          /\ curated' = curated_file
          /\ pc' = "collect"
          /\ UNCHANGED <<candidate, state, shown>>
       \/ /\ curated_file = NoCuration
          /\ CycleFails
    /\ UNCHANGED <<environment, log, answer>>

\* What a cycle reads: the fixture when there is one, the article when
\* collection is enabled.
Source == IF mode = "fixture" THEN fixture ELSE article

\* Seeded fault: the kill switch is ignored.
CollectingDespiteSwitch == TRUE
Collecting == mode # "off"

\* Seeded fault: the parse time is in the future.
StampAhead(s) == [s EXCEPT !.generated_at = now + 1]
Stamp(s) == [s EXCEPT !.generated_at = now]

\* With the kill switch on there is nothing to collect or publish.
SkipCollection ==
    /\ pc = "collect"
    /\ ~Collecting
    /\ pc' = "load"
    /\ UNCHANGED <<environment, log, answer, curated, candidate, state, shown>>

Collect ==
    /\ pc = "collect"
    /\ Collecting
    /\ \/ /\ Source # NoArticle
          /\ candidate' = Stamp(Source)
          /\ pc' = "publish"
          /\ UNCHANGED <<curated, state, shown>>
       \/ /\ Source = NoArticle
          /\ CycleFails
    /\ UNCHANGED <<environment, log, answer>>

Publish ==
    /\ pc = "publish"
    /\ \/ Storage!PublishUnchanged(Ingest, candidate)
       \/ Storage!PublishNew(Ingest, candidate)
    /\ pc' = "load"
    /\ UNCHANGED <<environment, curated, candidate, state, shown>>

\* The store always refuses a candidate that announces a player twice.
PublishRefused ==
    /\ pc = "publish"
    /\ DuplicateQualifiers(candidate.qualifiers)
    /\ Storage!Fail(Ingest)
    /\ CycleFails
    /\ UNCHANGED environment

\* When these facts were last known to be the article's: now, or when they
\* were parsed if this cycle collected nothing.
CheckedAt(snapshot) ==
    IF candidate = NoCandidate THEN snapshot.generated_at ELSE now

\* Seeded fault: the snapshot is replaced and its version number is not.
AppStateOldVersion(snapshot) ==
    [version    |-> IF Serving THEN state.version ELSE snapshot.version,
     snapshot   |-> snapshot,
     checked_at |-> CheckedAt(snapshot),
     curated    |-> curated]
AppState(snapshot) ==
    [version    |-> snapshot.version,
     snapshot   |-> snapshot,
     checked_at |-> CheckedAt(snapshot),
     curated    |-> curated]

\* refresh_loop returns at once unless it has an article to poll.
AfterCycle == IF mode = "live" THEN "sleep" ELSE "done"

\* load_current and the rest of the cycle.  The store has one caller, so its
\* answer to the load is the newest version or, on a fresh database, none.
Load ==
    /\ pc = "load"
    /\ Storage!Load(Ingest)
    /\ \/ /\ answer'[Ingest].kind = "loaded"
          /\ state' = AppState(answer'[Ingest].view)
          /\ shown' = answer'[Ingest].view.version
          /\ pc' = AfterCycle
          /\ curated' = NoCuration
          /\ candidate' = NoCandidate
       \/ /\ answer'[Ingest].kind = "empty"
          /\ CycleFails
    /\ UNCHANGED environment

------------------------------------------------------------------------------
(* The environment.                                                        *)

Fault ==
    /\ faults < MaxFaults
    /\ faults' = faults + 1
    /\ UNCHANGED <<article, fixture, curated_file, mode, now, edits>>

\* Store::open fails (the volume, a migration): the process ends at once.
OpenFails ==
    /\ pc = "down"
    /\ Fault
    /\ UNCHANGED <<log, answer, pc, curated, candidate, state, shown>>

StorageFails ==
    /\ pc \in {"publish", "load"}
    /\ Fault
    /\ Storage!Fail(Ingest)
    /\ CycleFails

\* The process dies, in whatever it was doing: its memory is gone, the
\* volume stays.
Die ==
    /\ pc' = "down"
    /\ curated' = NoCuration
    /\ candidate' = NoCandidate
    /\ state' = NotServing
    /\ Storage!Call(Ingest)
    /\ UNCHANGED shown

Crash ==
    /\ pc # "down"
    /\ Fault
    /\ Die

Edit ==
    /\ edits < MaxEdits
    /\ edits' = edits + 1
    /\ UNCHANGED <<now, faults>>

EditArticle ==
    /\ Edit
    /\ article' \in (Article \cup {NoArticle}) \ {article}
    /\ UNCHANGED <<fixture, curated_file, mode, log, answer, pc, curated, candidate, state, shown>>

\* The fixture is removed or spoilt, or put back.
EditFixture ==
    /\ Edit
    /\ fixture' \in {Fixture, NoArticle} \ {fixture}
    /\ UNCHANGED <<article, curated_file, mode, log, answer, pc, curated, candidate, state, shown>>

EditCurated ==
    /\ Edit
    /\ curated_file' \in (Curation \cup {NoCuration}) \ {curated_file}
    /\ UNCHANGED <<article, fixture, mode, log, answer, pc, curated, candidate, state, shown>>

\* Changing a setting restarts the process.
Configure ==
    /\ Edit
    /\ mode' \in {"live", "off", "fixture"} \ {mode}
    /\ Die
    /\ UNCHANGED <<article, fixture, curated_file>>

Tick ==
    /\ now < MaxTime
    /\ now' = now + 1
    /\ UNCHANGED <<article, fixture, curated_file, mode, edits, faults,
                   log, answer, pc, curated, candidate, state, shown>>

------------------------------------------------------------------------------
Process ==
    Start \/ Wake \/ LoadCurated \/ SkipCollection \/ Collect
          \/ Publish \/ PublishRefused \/ Load

Environment ==
    OpenFails \/ StorageFails \/ Crash
        \/ EditArticle \/ EditFixture \/ EditCurated \/ Configure \/ Tick

Next == Process \/ Environment

Spec == Init /\ [][Next]_vars

\* The process goes on while it runs, its sleep ends, and the platform starts
\* it again when it is down.  Nothing is assumed of the environment.
FairSpec == Spec /\ WF_vars(Process)

------------------------------------------------------------------------------
(* Properties.                                                             *)

TypeOK ==
    /\ article \in Article \cup {NoArticle}
    /\ fixture \in {Fixture, NoArticle}
    /\ curated_file \in Curation \cup {NoCuration}
    /\ mode \in {"live", "off", "fixture"}
    /\ now \in 0..MaxTime /\ edits \in 0..MaxEdits /\ faults \in 0..MaxFaults
    /\ log \in Seq(Snapshot)
    /\ pc \in {"down", "curate", "collect", "publish", "load", "sleep", "done"}
    /\ curated \in Curation \cup {NoCuration}
    /\ candidate \in Stamped \cup {NoCandidate}
    /\ shown \in 0..Len(log)

\* What the handlers serve is one stored version, whole, movement included,
\* and remains so while newer versions are published behind it.
ServedIsStored ==
    Serving => /\ state.version \in DOMAIN log
               /\ state.snapshot = View(log, state.version)

\* What holds between the steps of a cycle: only a cycle that has collected
\* has a candidate, and once it is through the store the newest version says
\* the same.
CycleInOrder ==
    /\ pc \notin {"publish", "load"} => candidate = NoCandidate
    /\ pc = "publish" => candidate # NoCandidate /\ mode # "off"
    /\ pc = "load" => (candidate = NoCandidate) = (mode = "off")
    /\ pc = "load" /\ candidate # NoCandidate =>
          log # <<>> /\ content_hash(log[Len(log)]) = content_hash(candidate)

\* The inductive invariant: readers have been shown what is served now.
IInv ==
    /\ TypeOK
    /\ DOMAIN answer = {Ingest}
    /\ CycleInOrder
    /\ ServedIsStored
    /\ Serving => shown = state.version

\* Readers never see an older version after a newer one, whatever restarts
\* and failed cycles lie between.
VersionsOnlyAdvance == [][Serving' => state'.version >= shown]_vars

\* A cycle that claims a check serves the facts that check found: also when
\* the article returns to what an older version said.
CheckServesItsFacts ==
    [][state' # state /\ Serving' /\ mode # "off"
         => content_hash(log[state'.version]) = content_hash(candidate)]_vars

\* The store accepts what the article says: it announces nobody twice.
Readable == article # NoArticle /\ ~DuplicateQualifiers(article.qualifiers)

\* Once the article and the curated file settle and collection is on, the
\* page comes to show both, and goes on showing them.
ShowsArticle ==
    /\ Serving /\ Readable
    /\ content_hash(log[state.version]) = content_hash(article)
    /\ state.curated = curated_file
PageConverges ==
    <>[](mode = "live" /\ Readable /\ curated_file # NoCuration) => <>[]ShowsArticle

\* With the kill switch on, a stored snapshot is served whatever the article
\* is like (lib.rs: "kill switch: serve whatever is stored").
KillSwitchServes ==
    <>[](mode = "off" /\ log # <<>> /\ curated_file # NoCuration) => <>[]Serving

\* The documented behaviour while the article is rejected: "the last good
\* snapshot keeps serving" (deploy/RUNBOOK.md).  A boot does not do that.
LastGoodKeepsServing ==
    <>[](mode = "live" /\ log # <<>> /\ curated_file # NoCuration) => <>[]Serving

\* The documented date: the page shows exactly the date the article states
\* (README.md).  Deduplication ignores the date, so it need not.
PageShowsArticleDate ==
    [][state' # state /\ Serving' /\ mode = "live"
         => state'.snapshot.source_as_of = candidate.source_as_of]_vars
=============================================================================
