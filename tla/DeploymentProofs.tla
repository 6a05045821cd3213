--------------------------- MODULE DeploymentProofs ---------------------------
(***************************************************************************)
(* Proofs about a deployment and its parts.                                *)
(*                                                                         *)
(* Builds, for any builds, codes, migrations and tables, and any sequence  *)
(* of deployments, settings and edits: a cycle shows what the running      *)
(* build parsed, a build that can read a version shows all of it, and a    *)
(* build from before ledgers does not open a volume that holds some.  No   *)
(* sum is taken: reconciliation either keeps a ledger or drops it, and     *)
(* what it keeps is in the running build's codes.                          *)
(*                                                                         *)
(* Assets, for any builds, stylesheets and readers: pages of the running   *)
(* build are shown in its stylesheet until a replaced one returns.  What   *)
(* is kept under the running build's URL was answered by a process of a    *)
(* build with that stylesheet: before it was deployed first no page named  *)
(* that URL (`served` holds all that pages or the cache may name), and     *)
(* since then only it has answered.                                        *)
(*                                                                         *)
(* Deployment implements both, so both hold in it.                         *)
(***************************************************************************)
EXTENDS Deployment, TLAPS

------------------------------------------------------------------------------
(* Builds.                                                                 *)

\* The store's promise is stated with the definitions Builds itself uses.
LEMMA SameData ==
    /\ \A l, v : Storage!View(l, v) = View(l, v)
    /\ \A s : Storage!content_hash(s) = content_hash(s)
    /\ \A w : Storage!Loaded(w) = Loaded(w)
    /\ Storage!Empty = Empty
<1>1. \A r : Storage!Ranks(r) = Ranks(r)
  BY DEF Storage!Ranks, Ranks
<1>2. \A r, p, i : Storage!Movement(r, p, i) = Movement(r, p, i)
  BY DEF Storage!Movement, Movement
<1>3. \A f : Storage!Range(f) = Range(f)
  BY DEF Storage!Range, Range
<1>4. \A l, v : Storage!View(l, v) = View(l, v)
  BY <1>1, <1>2, <1>3, Zenon DEF Storage!View, View
<1> QED
  BY <1>4 DEF Storage!content_hash, content_hash, Storage!Loaded, Loaded, Storage!Empty, Empty

\* Reconciliation keeps a row's ledger, in codes of the build, or drops it.
LEMMA ParsedRow ==
    ASSUME NEW b \in Build, NEW row \in Row
    PROVE  /\ ReconciledRow(b, row) \in Row
           /\ ReconciledRow(b, row).results \subseteq row.results
           /\ \A r \in ReconciledRow(b, row).results : r.code \in Codes[b]
<1> DEFINE kept == IF /\ \A r \in row.results : r.code \in Codes[b]
                      /\ ledger_points(row.results) = row.points
                   THEN row.results
                   ELSE {}
<1>1. ReconciledRow(b, row) = [row EXCEPT !.results = kept]
  BY DEF ReconciledRow
<1>2. kept \subseteq row.results /\ \A r \in kept : r.code \in Codes[b]
  OBVIOUS
<1> HIDE DEF kept
<1> QED  BY <1>1, <1>2 DEF Row

\* What a build parses of an article is a table in its own codes.
LEMMA Parsed ==
    ASSUME NEW b \in Build, NEW rows \in Article
    PROVE  /\ parse(b, rows) \in Seq(Row)
           /\ parse(b, rows) # NoRows
           /\ Legible(b, parse(b, rows))
           /\ CandidateOf(parse(b, rows)) \in Snapshot
           /\ CandidateOf(parse(b, rows)).rows = parse(b, rows)
<1>1. rows \in Seq(Row) /\ rows # <<>>
  BY BuildsAssumption DEF ValidRows
<1>2. \A i \in DOMAIN rows : rows[i] \in Row
  BY <1>1
<1>3. /\ DOMAIN parse(b, rows) = 1..Len(rows) /\ Len(rows) \in Nat \ {0}
      /\ \A i \in DOMAIN rows : parse(b, rows)[i] = ReconciledRow(b, rows[i])
  BY <1>1 DEF parse
<1>4. \A i \in 1..Len(rows) : /\ parse(b, rows)[i] \in Row
                              /\ \A r \in parse(b, rows)[i].results : r.code \in Codes[b]
  BY <1>1, <1>2, <1>3, ParsedRow
<1>5. parse(b, rows) = [i \in 1..Len(rows) |-> parse(b, rows)[i]]
  BY <1>1, <1>3 DEF parse
<1>6. parse(b, rows) \in Seq(Row)
  BY <1>3, <1>4, <1>5
<1>7. parse(b, rows) # NoRows
  BY <1>3 DEF NoRows
<1>8. Legible(b, parse(b, rows))
  BY <1>3, <1>4 DEF Legible
<1>9. <<>> \in Seq(Qualifier)
  OBVIOUS
<1> QED  BY <1>6, <1>7, <1>8, <1>9 DEF CandidateOf, Snapshot

\* A build reads whole what is in its codes, and rows whatever it reads.
LEMMA ReadsWhole ==
    ASSUME NEW b, NEW rows \in Seq(Row)
    PROVE  /\ ReadBy(b, rows) \in Seq(Row)
           /\ Legible(b, rows) => ReadBy(b, rows) = rows
<1>1. \A i \in DOMAIN rows :
        /\ results_of(b, rows[i]) \in Row
        /\ (\A r \in rows[i].results : r.code \in Codes[b]) => results_of(b, rows[i]) = rows[i]
  <2> TAKE i \in DOMAIN rows
  <2> DEFINE read == {r \in rows[i].results : r.code \in Codes[b]}
  <2>1. rows[i] \in Row /\ results_of(b, rows[i]) = [rows[i] EXCEPT !.results = read]
    BY DEF results_of, from_code
  <2>2. read \subseteq rows[i].results
    OBVIOUS
  <2>3. (\A r \in rows[i].results : r.code \in Codes[b]) => read = rows[i].results
    OBVIOUS
  <2> HIDE DEF read
  <2> QED  BY <2>1, <2>2, <2>3 DEF Row
<1>2. DOMAIN rows = 1..Len(rows) /\ Len(rows) \in Nat
  OBVIOUS
<1>3. ReadBy(b, rows) \in Seq(Row)
  BY <1>1, <1>2 DEF ReadBy
<1>4. Legible(b, rows) => ReadBy(b, rows) = rows
  BY <1>1, <1>2 DEF ReadBy, Legible
<1> QED  BY <1>3, <1>4

LEMMA NewestTyped ==
    ASSUME log \in Seq(Snapshot), log # <<>>
    PROVE  log[Len(log)].rows \in Seq(Row)
<1>1. Len(log) \in DOMAIN log
  OBVIOUS
<1>2. log[Len(log)] \in Snapshot
  BY <1>1
<1> QED  BY <1>2 DEF Snapshot

\* The volume is new, and nothing runs.
LEMMA Initially == Init => IInv
BY BuildsAssumption DEF Init, IInv, TypeOK, Storage!Init, NoRows

\* Opening brings the volume to the schema of the build, which has ledgers if
\* the volume does.
LEMMA OpenKeeps ==
    ASSUME IInv, Open
    PROVE  IInv'
<1>1. migrated' = Migrations[build] /\ migrated' \in 0..2 /\ migrated <= migrated'
  BY BuildsAssumption DEF IInv, TypeOK, Open, CarriesApplied, Applied
<1>2. UNCHANGED <<environment, log, answer, parsed, page>> /\ pc' = "cycle"
  BY DEF Open
<1>3. TypeOK'
  BY <1>1, <1>2 DEF IInv, TypeOK, environment
<1>4. migrated = 2 => migrated' = 2
  BY <1>1 DEF IInv, TypeOK
<1> QED  BY <1>1, <1>2, <1>3, <1>4 DEF IInv, environment

\* Ledgers are published by builds that have them, on a volume they migrated.
LEMMA PublishKeeps ==
    ASSUME IInv, Publish
    PROVE  IInv'
<1> DEFINE candidate == CandidateOf(parse(build, article))
<1>1. /\ UNCHANGED <<environment, migrated, page>>
      /\ pc = "cycle" /\ pc' = "load"
      /\ parsed' = candidate.rows
      /\ Storage!PublishUnchanged(Ingest, candidate) \/ Storage!PublishNew(Ingest, candidate)
  BY DEF Publish
<1>2. /\ candidate \in Snapshot /\ candidate.rows \in Seq(Row) /\ candidate.rows # NoRows
      /\ Legible(build, candidate.rows)
  BY Parsed DEF IInv, TypeOK
<1> HIDE DEF candidate
<1>3. \/ log' = log /\ log # <<>> /\ content_hash(log[Len(log)]) = content_hash(candidate)
      \/ log' = Append(log, candidate)
  BY <1>1, SameData DEF Storage!PublishUnchanged, Storage!PublishNew, Storage!IsCurrent
<1>4. log \in Seq(Snapshot)
  BY DEF IInv, TypeOK
<1>5. /\ log' \in Seq(Snapshot) /\ log' # <<>>
      /\ log'[Len(log')].rows = candidate.rows
  <2>1. CASE log' = Append(log, candidate)
    <3>1. Len(log') = Len(log) + 1 /\ log'[Len(log) + 1] = candidate /\ log' \in Seq(Snapshot)
      BY <1>2, <1>4, <2>1
    <3>2. log' # <<>>
      BY <1>4, <3>1
    <3> QED  BY <3>1, <3>2
  <2>2. CASE log' = log /\ log # <<>> /\ content_hash(log[Len(log)]) = content_hash(candidate)
    BY <1>4, <2>2 DEF content_hash
  <2> QED  BY <1>3, <2>1, <2>2
<1>6. DOMAIN answer' = {Ingest}
  BY <1>1 DEF IInv, Storage!PublishUnchanged, Storage!PublishNew, Storage!Reply
<1>7. TypeOK'
  BY <1>1, <1>2, <1>5 DEF IInv, TypeOK, environment
<1>8. (\E v \in DOMAIN log' : \E i \in DOMAIN log'[v].rows : log'[v].rows[i].results # {})
        => migrated' = 2
  <2>1. CASE log' = log
    BY <1>1, <2>1 DEF IInv
  <2>2. CASE log' = Append(log, candidate)
    <3> SUFFICES ASSUME NEW v \in DOMAIN log', NEW i \in DOMAIN log'[v].rows,
                        log'[v].rows[i].results # {}
                 PROVE  migrated' = 2
      OBVIOUS
    <3>1. CASE v \in DOMAIN log
      <4>1. log'[v] = log[v]
        BY <1>4, <2>2, <3>1
      <4> QED  BY <1>1, <3>1, <4>1 DEF IInv
    <3>2. CASE v \notin DOMAIN log
      <4>1. log'[v] = candidate
        BY <1>2, <1>4, <2>2, <3>2
      <4>2. Codes[build] # {}
        BY <1>2, <4>1 DEF Legible
      <4>3. build \in Build /\ migrated = Migrations[build]
        BY <1>1 DEF IInv, TypeOK
      <4> QED  BY <1>1, <4>2, <4>3, BuildsAssumption
    <3> QED  BY <3>1, <3>2
  <2> QED  BY <1>3, <2>1, <2>2
<1> QED  BY <1>1, <1>2, <1>5, <1>6, <1>7, <1>8 DEF IInv, environment

\* What a load shows is the newest version as the build reads it.
LEMMA LoadKeeps ==
    ASSUME IInv, Load
    PROVE  IInv'
<1>1. /\ UNCHANGED <<environment, migrated, parsed, log>> /\ pc = "load"
      /\ answer' = [answer EXCEPT ![Ingest] = IF log = <<>> THEN Empty ELSE Loaded(View(log, Len(log)))]
  BY SameData DEF Load, Storage!Load, Storage!Reply
<1>2. answer'[Ingest] = IF log = <<>> THEN Empty ELSE Loaded(View(log, Len(log)))
  BY <1>1 DEF IInv
<1>3. Loaded(View(log, Len(log))) # Empty
  BY DEF Loaded, Empty
<1>4. DOMAIN answer' = {Ingest}
  BY <1>1 DEF IInv
<1>5. CASE log = <<>>
  <2>1. pc' = "down" /\ page' = NoRows
    BY <1>2, <1>5 DEF Load
  <2>2. TypeOK'
    BY <1>1, <2>1 DEF IInv, TypeOK, environment, NoRows
  <2> QED  BY <1>1, <1>4, <2>1, <2>2 DEF IInv, environment
<1>6. CASE log # <<>>
  <2>1. /\ pc' = "up"
        /\ page' = [i \in DOMAIN View(log, Len(log)).rows |->
                      results_of(build, View(log, Len(log)).rows[i].row)]
    BY <1>2, <1>3, <1>6 DEF Load, Loaded
  <2>2. page' = ReadBy(build, log[Len(log)].rows)
    BY <2>1 DEF View, ReadBy
  <2>3. log[Len(log)].rows \in Seq(Row)
    BY <1>6, NewestTyped DEF IInv, TypeOK
  <2>4. page' \in Seq(Row)
    BY <2>2, <2>3, ReadsWhole
  <2>5. TypeOK'
    BY <1>1, <2>1, <2>4 DEF IInv, TypeOK, environment
  <2> QED  BY <1>1, <1>4, <1>6, <2>1, <2>2, <2>5 DEF IInv, environment
<1> QED  BY <1>5, <1>6

LEMMA CycleKeeps ==
    ASSUME IInv, SkipCollection \/ Wake
    PROVE  IInv'
<1>1. UNCHANGED <<environment, migrated, log, answer, parsed, page>>
  BY DEF SkipCollection, Wake
<1>2. (pc' = "load" /\ ~enabled /\ pc = "cycle") \/ (pc' = "cycle" /\ pc = "up")
  BY DEF SkipCollection, Wake
<1>3. TypeOK'
  BY <1>1, <1>2 DEF IInv, TypeOK, environment
<1> QED  BY <1>1, <1>2, <1>3 DEF IInv, environment

\* A replaced process has nothing but the volume.
LEMMA RestartKeeps ==
    ASSUME IInv, Configure \/ \E b \in Build : Deploy(b)
    PROVE  IInv'
<1>1. Restart /\ Change
  BY DEF Configure, Deploy
<1>2. article' \in Article /\ build' \in Build /\ enabled' \in BOOLEAN /\ changes' \in 0..MaxChanges
  <2>1. changes' \in 0..MaxChanges
    BY <1>1, BuildsAssumption DEF IInv, TypeOK, Change
  <2>2. CASE Configure
    <3>1. (~enabled) \in BOOLEAN
      OBVIOUS
    <3> QED  BY <2>1, <2>2, <3>1 DEF IInv, TypeOK, Configure
  <2>3. CASE \E b \in Build : Deploy(b)
    BY <2>1, <2>3 DEF IInv, TypeOK, Deploy
  <2> QED  BY <2>2, <2>3
<1>3. TypeOK'
  BY <1>1, <1>2 DEF IInv, TypeOK, Restart, NoRows
<1> QED  BY <1>1, <1>3 DEF IInv, Restart

LEMMA EditKeeps ==
    ASSUME IInv, Edit
    PROVE  IInv'
<1>1. /\ article' \in Article /\ changes' \in 0..MaxChanges
      /\ UNCHANGED <<build, enabled, migrated, log, answer, pc, parsed, page>>
  BY BuildsAssumption DEF IInv, TypeOK, Edit, Change
<1>2. TypeOK'
  BY <1>1 DEF IInv, TypeOK
<1> QED  BY <1>1, <1>2 DEF IInv

LEMMA StepKeeps ==
    ASSUME IInv, [Next]_vars
    PROVE  IInv'
<1>1. CASE UNCHANGED vars
  BY <1>1 DEF vars, environment, IInv, TypeOK
<1>2. CASE Next
  BY <1>2, OpenKeeps, PublishKeeps, LoadKeeps, CycleKeeps, RestartKeeps, EditKeeps DEF Next
<1> QED  BY <1>1, <1>2

\* The inductive invariant: what the process runs, parsed and shows belongs to
\* the newest version on the volume (lib.rs, ingest; storage.rs, load_current).
THEOREM Invariance == Spec => []IInv
BY Initially, StepKeeps, PTL DEF Spec

\* Type correctness: what a build parses and what it reads back are rows again
\* (storage.rs, results_of).
THEOREM TypeCorrect == Spec => []TypeOK
<1>1. IInv => TypeOK
  BY DEF IInv
<1> QED  BY <1>1, Invariance, PTL

\* What was parsed is in the build's own codes, and read back from the newest
\* version.
LEMMA OwnParse == IInv => CheckShowsOwnParse
<1> SUFFICES ASSUME IInv, pc = "up", enabled
             PROVE  page = parsed /\ parsed # NoRows
  BY DEF CheckShowsOwnParse
<1>1. parsed \in Seq(Row) /\ Legible(build, parsed) /\ page = ReadBy(build, parsed) /\ parsed # NoRows
  BY DEF IInv, TypeOK
<1> QED  BY <1>1, ReadsWhole

\* After a cycle that collected, each row shows the breakdown the running
\* build parsed, whichever build wrote the version before (lib.rs, ingest;
\* storage.rs, results_of).
THEOREM ShowsOwnParse == Spec => []CheckShowsOwnParse
BY OwnParse, Invariance, PTL

LEMMA Whole == IInv => KnownCodesReadWhole
<1> SUFFICES ASSUME IInv, pc = "up", Legible(build, log[Len(log)].rows)
             PROVE  page = log[Len(log)].rows
  BY DEF KnownCodesReadWhole
<1>1. log \in Seq(Snapshot) /\ log # <<>> /\ page = ReadBy(build, log[Len(log)].rows)
  BY DEF IInv, TypeOK
<1>2. log[Len(log)].rows \in Seq(Row)
  BY <1>1, NewestTyped
<1> QED  BY <1>1, <1>2, ReadsWhole

\* A build that has all codes of the newest version shows it whole, whoever
\* wrote it (storage.rs, results_of; model.rs, from_code).
THEOREM ReadWhole == Spec => []KnownCodesReadWhole
BY Whole, Invariance, PTL

\* A volume that holds ledgers is not served by a build from before them
\* (storage.rs, Store::open: the migrations).
THEOREM StayOut == Spec => []OldBuildsStayOut
<1>1. IInv => OldBuildsStayOut
  BY DEF IInv, OldBuildsStayOut
<1> QED  BY <1>1, Invariance, PTL

------------------------------------------------------------------------------
(* Assets.                                                                 *)

\* Everything starts empty, but for the build that runs.
LEMMA WebInitially == Web!Init => Web!IInv
<1> SUFFICES ASSUME Web!Init PROVE Web!IInv
  OBVIOUS
<1>1. Style[build] \in Web!Styles /\ Style[build] \in served
  BY DEF Web!Init, Web!Styles
<1>2. Web!TypeOK
  BY <1>1 DEF Web!Init, Web!TypeOK
<1>3. /\ cache[Style[build]] = {}
      /\ \A url \in Web!Styles : cache[url] = {}
      /\ \A r \in Reader : markup[r] = {} /\ css[r] = {}
      /\ page_cache = {}
  BY <1>1 DEF Web!Init
<1> QED  BY <1>1, <1>2, <1>3 DEF Web!IInv

\* Deploying a stylesheet for the first time meets no page and no cache that
\* names it; deploying it again while it is in use changes nothing; deploying
\* one that was replaced is `returned`.
LEMMA WebDeployKeeps ==
    ASSUME Web!IInv, NEW b \in Build, Web!Deploy(b)
    PROVE  Web!IInv'
<1>0. USE DEF Web!IInv, Web!Deploy
<1>1. Web!TypeOK'
  BY DEF Web!TypeOK, Web!Styles, Web!caches, Web!shown
<1>2. (Style[build] \in served)'
  OBVIOUS
<1>3. (\A c \in Build : (c \in page_cache \/ \E r \in Reader : c \in markup[r]) => Style[c] \in served)'
  BY DEF Web!caches, Web!shown
<1>4. (\A url \in Web!Styles : cache[url] # {} => url \in served)'
  BY DEF Web!caches
<1>6. (/\ \A c, d \in page_cache : c = d
       /\ \A r \in Reader : \A c, d \in markup[r] : c = d)'
  BY DEF Web!caches, Web!shown
<1>5. ASSUME ~returned'
      PROVE  /\ (cache[Style[build]] \subseteq {Style[build]})'
             /\ (\A r \in Reader, c \in Build :
                   (c \in markup[r] /\ Style[c] = Style[build]) => css[r] \subseteq {Style[build]})'
  <2>1. CASE Style[b] = Style[build]
    BY <1>5, <2>1 DEF Web!caches, Web!shown
  <2>2. CASE Style[b] \notin served
    <3>1. cache[Style[b]] = {}
      BY <2>2 DEF Web!Styles
    <3>2. \A r \in Reader, c \in Build : c \in markup[r] => Style[c] # Style[b]
      BY <2>2
    <3> QED  BY <3>1, <3>2 DEF Web!caches, Web!shown
  <2> QED  BY <1>5, <2>1, <2>2
<1> QED  BY <1>1, <1>2, <1>3, <1>4, <1>5, <1>6

\* A page is rendered by the running build or was rendered by one deployed
\* before, and is shown without a stylesheet at first.
LEMMA WebVisitKeeps ==
    ASSUME Web!IInv, NEW r \in Reader, Web!Visit(r) \/ Web!VisitKept(r)
    PROVE  Web!IInv'
<1>1. Web!TypeOK'
  BY DEF Web!IInv, Web!TypeOK, Web!Visit, Web!VisitKept, Web!past, Web!caches
<1>2. markup'[r] \subseteq Build /\ css'[r] = {}
  BY DEF Web!IInv, Web!TypeOK, Web!Visit, Web!VisitKept
<1>3. \A q \in Reader : q # r => markup'[q] = markup[q] /\ css'[q] = css[q]
  BY DEF Web!IInv, Web!TypeOK, Web!Visit, Web!VisitKept
<1>4. /\ \A b \in page_cache' \cup markup'[r] : Style[b] \in served
      /\ \A b, c \in page_cache' : b = c
      /\ \A b, c \in markup'[r] : b = c
  BY DEF Web!IInv, Web!TypeOK, Web!Visit, Web!VisitKept, Web!caches
<1>5. UNCHANGED <<build, served, returned, cache>>
  BY DEF Web!Visit, Web!VisitKept, Web!past, Web!caches
<1> QED  BY <1>1, <1>2, <1>3, <1>4, <1>5 DEF Web!IInv

\* The running process answers with its own stylesheet, whatever it is asked
\* for: of the URLs pages name, only that of its own page matters.
LEMMA WebLoadStyleKeeps ==
    ASSUME Web!IInv, NEW r \in Reader, Web!LoadStyle(r)
    PROVE  Web!IInv'
<1>1. PICK b \in markup[r] :
         /\ cache[Web!css_version(b)] = {}
         /\ css' = [css EXCEPT ![r] = {Web!app_css(Web!css_version(b))}]
         /\ cache' = [cache EXCEPT ![Web!css_version(b)] = css'[r]]
         /\ UNCHANGED <<build, Web!past, page_cache, markup>>
  BY DEF Web!LoadStyle
<1>2. b \in Build /\ Style[b] \in Web!Styles /\ Style[b] \in served /\ Style[build] \in Web!Styles
  BY DEF Web!IInv, Web!TypeOK, Web!Styles
<1>3. css'[r] = {Style[build]} /\ \A q \in Reader : q # r => css'[q] = css[q]
  BY <1>1 DEF Web!IInv, Web!TypeOK, Web!app_css
<1>4. /\ cache'[Style[b]] = {Style[build]}
      /\ \A url \in Web!Styles : url # Style[b] => cache'[url] = cache[url]
  BY <1>1, <1>2, <1>3 DEF Web!IInv, Web!TypeOK, Web!css_version
<1>5. Web!TypeOK'
  BY <1>1, <1>2, <1>3 DEF Web!IInv, Web!TypeOK, Web!Styles, Web!past, Web!app_css, Web!css_version
<1>6. UNCHANGED <<build, served, returned, page_cache, markup>>
  BY <1>1 DEF Web!past
<1>7. (\A url \in Web!Styles : cache[url] # {} => url \in served)'
  BY <1>2, <1>4, <1>6 DEF Web!IInv
<1>8. ASSUME ~returned'
      PROVE  /\ (cache[Style[build]] \subseteq {Style[build]})'
             /\ (\A q \in Reader, c \in Build :
                   (c \in markup[q] /\ Style[c] = Style[build]) => css[q] \subseteq {Style[build]})'
  <2>1. (cache[Style[build]] \subseteq {Style[build]})'
    BY <1>2, <1>4, <1>6, <1>8 DEF Web!IInv
  <2>2. ASSUME NEW q \in Reader, NEW c \in Build, c \in markup[q], Style[c] = Style[build]
        PROVE  css'[q] \subseteq {Style[build]}
    BY <1>3, <1>6, <1>8, <2>2 DEF Web!IInv
  <2> QED  BY <1>6, <2>1, <2>2
<1> QED  BY <1>2, <1>5, <1>6, <1>7, <1>8 DEF Web!IInv

\* What is kept under the URL a page names is shown with it.
LEMMA WebLoadKeptKeeps ==
    ASSUME Web!IInv, NEW r \in Reader, Web!LoadKept(r)
    PROVE  Web!IInv'
<1>1. PICK b \in markup[r] :
         /\ cache[Web!css_version(b)] # {}
         /\ css' = [css EXCEPT ![r] = cache[Web!css_version(b)]]
         /\ UNCHANGED <<build, Web!past, Web!caches, markup>>
  BY DEF Web!LoadKept
<1>2. css'[r] = cache[Style[b]] /\ \A q \in Reader : q # r => css'[q] = css[q]
  BY <1>1 DEF Web!IInv, Web!TypeOK, Web!css_version
<1>3. UNCHANGED <<build, served, returned, cache, page_cache, markup>>
  BY <1>1 DEF Web!past, Web!caches
<1>4. Web!TypeOK'
  BY <1>1, <1>3 DEF Web!IInv, Web!TypeOK, Web!Styles, Web!css_version
<1> QED  BY <1>2, <1>3, <1>4 DEF Web!IInv

\* Forgetting adds nothing.
LEMMA WebForgettingKeeps ==
    ASSUME Web!IInv, Web!Expire \/ \E url \in Web!Styles : Web!Evict(url)
    PROVE  Web!IInv'
<1>1. CASE Web!Expire
  BY <1>1 DEF Web!Expire, Web!IInv, Web!TypeOK, Web!past, Web!shown
<1>2. ASSUME NEW url \in Web!Styles, Web!Evict(url)
      PROVE  Web!IInv'
  BY <1>2 DEF Web!Evict, Web!IInv, Web!TypeOK, Web!past, Web!shown
<1> QED  BY <1>1, <1>2

\* The invariant holds of every behaviour (web.rs, css_version, index, app_css).
THEOREM AssetsInvariance == Web!Spec => []Web!IInv
<1>1. Web!IInv /\ [Web!Next]_(Web!vars) => Web!IInv'
  <2> SUFFICES ASSUME Web!IInv, [Web!Next]_(Web!vars)
               PROVE  Web!IInv'
    OBVIOUS
  <2>1. CASE UNCHANGED Web!vars
    BY <2>1 DEF Web!vars, Web!past, Web!caches, Web!shown, Web!IInv, Web!TypeOK
  <2>2. CASE Web!Next
    BY <2>2, WebDeployKeeps, WebVisitKeeps, WebLoadStyleKeeps, WebLoadKeptKeeps, WebForgettingKeeps
       DEF Web!Next, Web!Request, Web!CacheStep
  <2> QED  BY <2>1, <2>2
<1> QED  BY WebInitially, <1>1, PTL DEF Web!Spec

\* A page of the running build is shown in that build's stylesheet, unless a
\* replaced stylesheet was deployed again (web.rs, CACHE_IMMUTABLE).
THEOREM StylesMatch == Web!Spec => []Web!CurrentPagesMatch
<1>1. Web!IInv => Web!CurrentPagesMatch
  BY DEF Web!IInv, Web!TypeOK, Web!CurrentPagesMatch
<1> QED  BY AssetsInvariance, <1>1, PTL

------------------------------------------------------------------------------
(* Deployment.                                                             *)

\* The process neither replaces itself nor reaches into a cache.
LEMMA ProcessStutters ==
    ASSUME ProcessStep
    PROVE  UNCHANGED Web!vars
<1>1. build' = build
  BY DEF ProcessStep, Open, Publish, SkipCollection, Load, Wake, Configure, Edit, environment
<1> QED  BY <1>1 DEF ProcessStep, readers, Web!vars, Web!past, Web!caches, Web!shown

\* Every behaviour of a deployment, with its volume and its process, is one of
\* Assets (web.rs, css_version and app_css).
THEOREM ImplementsAssets == DeploymentSpec => Web!Spec
<1>1. DeploymentInit => Web!Init
  BY DEF DeploymentInit
<1>2. [DeploymentNext]_allVars => [Web!Next]_(Web!vars)
  <2> SUFFICES ASSUME [DeploymentNext]_allVars
               PROVE  [Web!Next]_(Web!vars)
    OBVIOUS
  <2>1. CASE UNCHANGED allVars
    BY <2>1 DEF allVars, vars, environment, readers, Web!vars, Web!past, Web!caches, Web!shown
  <2>2. CASE \E b \in Build \ {build} : DeployBuild(b)
    BY <2>2 DEF DeployBuild, Web!Next
  <2>3. CASE ProcessStep
    BY <2>3, ProcessStutters
  <2>4. CASE AnswerRequest
    BY <2>4 DEF AnswerRequest, Web!Next
  <2>5. CASE AnswerFromCache
    BY <2>5 DEF AnswerFromCache, Web!Next
  <2> QED  BY <2>1, <2>2, <2>3, <2>4, <2>5 DEF DeploymentNext
<1> QED  BY <1>1, <1>2, PTL DEF DeploymentSpec, Web!Spec

\* Pages of the running build are shown in its stylesheet until a replaced
\* stylesheet returns (web.rs, css_version and app_css), for any builds,
\* styles and readers, and whatever the process and its volume go through.
THEOREM DeployedStylesMatch == DeploymentSpec => []CurrentPagesMatch
BY ImplementsAssets, StylesMatch, PTL DEF CurrentPagesMatch

\* Every behaviour of a deployment, with its readers and their caches, is one
\* of Builds (storage.rs, lib.rs).
THEOREM ImplementsBuilds == DeploymentSpec => Spec
<1>1. DeploymentInit => Init
  BY DEF DeploymentInit
<1>2. [DeploymentNext]_allVars => [Next]_vars
  BY DEF DeploymentNext, allVars, DeployBuild, ProcessStep, AnswerRequest, AnswerFromCache,
         Web!Request, Web!Visit, Web!LoadStyle, Web!CacheStep, Web!VisitKept, Web!LoadKept,
         Web!Expire, Web!Evict, volume, vars, environment, Next
<1> QED  BY <1>1, <1>2, PTL DEF DeploymentSpec, Spec

\* In a deployment, too, a cycle shows the breakdowns its build parsed
\* (lib.rs, ingest).
THEOREM DeployedShowsOwnParse == DeploymentSpec => []CheckShowsOwnParse
BY ImplementsBuilds, ShowsOwnParse, PTL
=============================================================================
