---------------------------- MODULE ServiceProofs ----------------------------
(***************************************************************************)
(* For any articles, curated files, settings, edits, faults and restarts:  *)
(* what is served is a stored version, versions only advance, and a cycle  *)
(* that claims a check serves what it found.                               *)
(*                                                                         *)
(* A cycle's candidate is a local of one call of ingest: it exists from    *)
(* the collection to the load, and by then the newest version says what it *)
(* says, because deduplication compares with that version and publication  *)
(* appends.                                                                *)
(***************************************************************************)
EXTENDS Service, TLAPS

\* A stamped article is a snapshot, and not the lack of one.
LEMMA StampedIsSnapshot ==
    ASSUME NEW s \in Stamped
    PROVE  s \in Snapshot /\ s # NoCandidate
<1>1. PICK a \in Article \cup {Fixture}, t \in 0..MaxTime : s = [a EXCEPT !.generated_at = t]
  BY DEF Stamped
<1>2. a \in Snapshot /\ a.rows # <<>>
  BY ArticleAssumption DEF ValidRows
<1>3. t \in Nat
  OBVIOUS
<1>4. s \in Snapshot /\ s.rows = a.rows
  BY <1>1, <1>2, <1>3 DEF Snapshot
<1> QED  BY <1>2, <1>4 DEF NoCandidate

\* What a collection stores is stamped.
LEMMA CollectedIsStamped ==
    ASSUME TypeOK, Source # NoArticle
    PROVE  Stamp(Source) \in Stamped
BY DEF TypeOK, Source, Stamp, Stamped

\* A publication leaves every older version as readers see it.
LEMMA ViewsStand ==
    ASSUME NEW l, l \in Seq(Snapshot), NEW s \in Snapshot, NEW v \in DOMAIN l
    PROVE  /\ v \in DOMAIN Append(l, s)
           /\ View(Append(l, s), v) = View(l, v)
<1>1. v \in DOMAIN Append(l, s) /\ Append(l, s)[v] = l[v]
  OBVIOUS
<1>2. v # 1 => Append(l, s)[v - 1] = l[v - 1]
  OBVIOUS
<1> QED  BY <1>1, <1>2 DEF View

\* The store's promise is stated with the definitions Service itself uses.
LEMMA SameData ==
    /\ \A l, v : Storage!View(l, v) = View(l, v)
    /\ \A s : Storage!content_hash(s) = content_hash(s)
    /\ \A w : Storage!Loaded(w) = Loaded(w)
    /\ Storage!Empty = Empty
<1>1. \A r : Storage!Ranks(r) = Ranks(r)
  BY DEF Storage!Ranks, Ranks
<1>2. \A r, p, i : Storage!Movement(r, p, i) = Movement(r, p, i)
  BY DEF Storage!Movement, Movement
<1>3. \A f : Storage!Range(f) = Range(f)
  BY DEF Storage!Range, Range
<1>4. \A l, v : Storage!View(l, v) = View(l, v)
  BY <1>1, <1>2, <1>3, Zenon DEF Storage!View, View
<1> QED
  BY <1>4 DEF Storage!content_hash, content_hash, Storage!Loaded, Loaded, Storage!Empty, Empty

\* Nothing runs, nothing is served, nothing has been shown.
LEMMA Initially == Init => IInv
<1> SUFFICES ASSUME Init PROVE IInv
  OBVIOUS
<1>1. TypeOK
  BY BoundsAssumption DEF Init, TypeOK, Storage!Init
<1>2. DOMAIN answer = {Ingest}
  BY DEF Init, Storage!Init
<1> QED  BY <1>1, <1>2 DEF Init, IInv, CycleInOrder, ServedIsStored, Serving

\* A failed cycle lets its candidate go and changes nothing that is served.
LEMMA FailureKeeps ==
    ASSUME IInv, CycleFails, UNCHANGED log, UNCHANGED environment \/ Fault,
           DOMAIN answer' = {Ingest}
    PROVE  IInv'
<1>0. UNCHANGED <<article, fixture, curated_file, mode, now, edits, log, state, shown>>
  BY DEF CycleFails, environment, Fault
<1>1. faults' \in 0..MaxFaults
  BY BoundsAssumption DEF IInv, TypeOK, environment, Fault
<1>2. TypeOK'
  BY <1>0, <1>1 DEF IInv, TypeOK, CycleFails
<1>3. CycleInOrder'
  BY DEF CycleInOrder, CycleFails
<1> QED  BY <1>0, <1>2, <1>3 DEF IInv, ServedIsStored, Serving

\* A dead process serves nothing.
LEMMA DeathKeeps ==
    ASSUME IInv, Crash \/ Configure
    PROVE  IInv'
<1>0. Die /\ UNCHANGED log
  BY DEF Crash, Configure, Die, Storage!Call
<1>1. TypeOK'
  <2>1. edits' \in 0..MaxEdits /\ faults' \in 0..MaxFaults /\ now' = now /\ article' = article
           /\ fixture' = fixture /\ curated_file' = curated_file /\ mode' \in {"live", "off", "fixture"}
    BY BoundsAssumption DEF IInv, TypeOK, Crash, Configure, Fault, Edit
  <2> QED  BY <1>0, <2>1 DEF IInv, TypeOK, Die
<1>2. DOMAIN answer' = {Ingest}
  BY <1>0 DEF IInv, Die, Storage!Call, Storage!Reply
<1> QED  BY <1>0, <1>1, <1>2 DEF IInv, CycleInOrder, ServedIsStored, Serving, Die

\* The steps of a cycle before it publishes change only what the cycle knows.
LEMMA CycleKeeps ==
    ASSUME IInv, Start \/ Wake \/ LoadCurated \/ SkipCollection \/ Collect
    PROVE  IInv'
<1>0. UNCHANGED <<environment, log, answer, state, shown>>
  BY DEF Start, Wake, LoadCurated, SkipCollection, Collect, CycleFails
<1>1. CASE CycleFails
  BY <1>0, <1>1, FailureKeeps DEF IInv
<1>2. CASE ~CycleFails
  <2>1. curated' \in Curation \cup {NoCuration} /\ pc' \in {"curate", "collect", "publish", "load"}
    BY <1>2 DEF IInv, TypeOK, Start, Wake, LoadCurated, SkipCollection, Collect
  <2>2. candidate' \in Stamped \cup {NoCandidate}
    BY <1>2, CollectedIsStamped DEF IInv, TypeOK, Start, Wake, LoadCurated, SkipCollection, Collect
  <2>3. TypeOK'
    BY <1>0, <2>1, <2>2 DEF IInv, TypeOK, environment
  <2>4. CycleInOrder'
    <3>1. CASE Start \/ Wake \/ LoadCurated
      BY <1>2, <3>1 DEF IInv, CycleInOrder, Start, Wake, LoadCurated
    <3>2. CASE SkipCollection
      BY <1>0, <3>2 DEF IInv, CycleInOrder, SkipCollection, Collecting, environment
    <3>3. CASE Collect
      <4>1. candidate' = Stamp(Source) /\ pc' = "publish" /\ mode' # "off" /\ Source # NoArticle
        BY <1>0, <1>2, <3>3 DEF Collect, Collecting, environment
      <4>2. candidate' # NoCandidate
        BY <4>1, CollectedIsStamped, StampedIsSnapshot DEF IInv
      <4> QED  BY <4>1, <4>2 DEF CycleInOrder
    <3> QED  BY <3>1, <3>2, <3>3
  <2> QED  BY <1>0, <2>3, <2>4 DEF IInv, ServedIsStored, Serving
<1> QED  BY <1>1, <1>2

\* Behind what is served a version may be appended; afterwards the newest
\* version says what the candidate says.
LEMMA PublishKeeps ==
    ASSUME IInv, Publish
    PROVE  IInv'
<1>0. /\ UNCHANGED <<environment, curated, candidate, state, shown>>
      /\ pc = "publish" /\ pc' = "load"
      /\ candidate \in Snapshot /\ candidate # NoCandidate /\ mode # "off"
  BY StampedIsSnapshot DEF Publish, IInv, TypeOK, CycleInOrder
<1>1. \/ /\ log' = log /\ log # <<>>
         /\ content_hash(log[Len(log)]) = content_hash(candidate)
      \/ log' = Append(log, candidate)
  BY SameData DEF Publish, Storage!PublishUnchanged, Storage!PublishNew, Storage!IsCurrent
<1>2. log \in Seq(Snapshot) /\ log' \in Seq(Snapshot) /\ Len(log') >= Len(log)
  BY <1>0, <1>1 DEF IInv, TypeOK
<1>3. TypeOK'
  BY <1>0, <1>2 DEF IInv, TypeOK, environment
<1>4. DOMAIN answer' = {Ingest}
  BY DEF IInv, Publish, Storage!PublishUnchanged, Storage!PublishNew, Storage!Reply
<1>5. log' # <<>> /\ content_hash(log'[Len(log')]) = content_hash(candidate)
  <2>1. CASE log' = Append(log, candidate)
    <3>1. Len(log') = Len(log) + 1 /\ log'[Len(log) + 1] = candidate
      BY <1>0, <1>2, <2>1
    <3> QED  BY <1>2, <3>1
  <2> QED  BY <1>1, <2>1
<1>6. CycleInOrder'
  BY <1>0, <1>5 DEF CycleInOrder, environment
<1>7. ServedIsStored'
  <2>1. CASE log' = log
    BY <1>0, <2>1 DEF IInv, ServedIsStored, Serving
  <2>2. CASE log' = Append(log, candidate)
    BY <1>0, <1>2, <2>2, ViewsStand DEF IInv, ServedIsStored, Serving
  <2> QED  BY <1>1, <2>1, <2>2
<1> QED  BY <1>0, <1>3, <1>4, <1>6, <1>7 DEF IInv, Serving

\* What a successful load puts in place.
LEMMA Loads ==
    ASSUME IInv, Load, ~CycleFails
    PROVE  /\ log # <<>> /\ UNCHANGED <<environment, log>>
           /\ state' = AppState(View(log, Len(log)))
           /\ state'.version = Len(log)
           /\ state'.snapshot = View(log, Len(log))
           /\ shown' = Len(log)
           /\ pc' \in {"sleep", "done"} /\ curated' = NoCuration /\ candidate' = NoCandidate
<1>1. /\ answer' = [answer EXCEPT ![Ingest] = IF log = <<>> THEN Empty ELSE Loaded(View(log, Len(log)))]
      /\ UNCHANGED <<environment, log>>
  BY SameData DEF Load, Storage!Load, Storage!Reply
<1>2. answer'[Ingest] = IF log = <<>> THEN Empty ELSE Loaded(View(log, Len(log)))
  BY <1>1 DEF IInv
<1>3. /\ answer'[Ingest].kind = "loaded"
      /\ state' = AppState(answer'[Ingest].view)
      /\ shown' = answer'[Ingest].view.version
      /\ pc' \in {"sleep", "done"} /\ curated' = NoCuration /\ candidate' = NoCandidate
  BY DEF Load, AfterCycle
<1>4. log # <<>> /\ answer'[Ingest].view = View(log, Len(log))
  BY <1>2, <1>3 DEF Empty, Loaded
<1>5. View(log, Len(log)).version = Len(log)
  BY DEF View
<1> QED  BY <1>1, <1>3, <1>4, <1>5 DEF AppState

LEMMA LoadKeeps ==
    ASSUME IInv, Load
    PROVE  IInv'
<1>1. CASE CycleFails
  <2>1. DOMAIN answer' = {Ingest} /\ UNCHANGED <<environment, log>>
    BY DEF IInv, Load, Storage!Load, Storage!Reply
  <2> QED  BY <1>1, <2>1, FailureKeeps
<1>2. CASE ~CycleFails
  <2>1. log \in Seq(Snapshot) /\ Len(log) \in DOMAIN log
    BY <1>2, Loads DEF IInv, TypeOK
  <2>2. TypeOK'
    BY <1>2, <2>1, Loads DEF IInv, TypeOK, environment
  <2>3. DOMAIN answer' = {Ingest}
    BY DEF IInv, Load, Storage!Load, Storage!Reply
  <2>4. CycleInOrder'
    BY <1>2, Loads DEF CycleInOrder
  <2> QED  BY <1>2, <2>1, <2>2, <2>3, <2>4, Loads DEF IInv, ServedIsStored
<1> QED  BY <1>1, <1>2

\* The clock, the outside world and a boot that fails do not reach into a
\* running cycle.
LEMMA OutsideKeeps ==
    ASSUME IInv, EditArticle \/ EditFixture \/ EditCurated \/ OpenFails \/ Tick
    PROVE  IInv'
<1>0. UNCHANGED <<mode, log, answer, pc, curated, candidate, state, shown>>
  BY DEF EditArticle, EditFixture, EditCurated, OpenFails, Fault, Tick
<1>1. /\ article' \in Article \cup {NoArticle} /\ fixture' \in {Fixture, NoArticle}
      /\ curated_file' \in Curation \cup {NoCuration}
      /\ now' \in 0..MaxTime /\ edits' \in 0..MaxEdits /\ faults' \in 0..MaxFaults
  BY BoundsAssumption 
     DEF IInv, TypeOK, EditArticle, EditFixture, EditCurated, OpenFails, Fault, Tick, Edit
<1>2. TypeOK'
  BY <1>0, <1>1 DEF IInv, TypeOK
<1> QED  BY <1>0, <1>2 DEF IInv, CycleInOrder, ServedIsStored, Serving

\* The refusal of the store, and its errors.
LEMMA ErrorKeeps ==
    ASSUME IInv, PublishRefused \/ StorageFails
    PROVE  IInv'
<1>1. DOMAIN answer' = {Ingest} /\ UNCHANGED log /\ CycleFails
  BY DEF IInv, PublishRefused, StorageFails, Storage!Fail, Storage!Reply
<1>2. UNCHANGED environment \/ Fault
  BY DEF PublishRefused, StorageFails
<1> QED  BY <1>1, <1>2, FailureKeeps

LEMMA StepKeeps ==
    ASSUME IInv, [Next]_vars
    PROVE  IInv'
<1>1. CASE UNCHANGED vars
  BY <1>1 DEF vars, environment, IInv, TypeOK, CycleInOrder, ServedIsStored, Serving
<1>2. CASE Next
  BY <1>2, CycleKeeps, PublishKeeps, LoadKeeps, ErrorKeeps, DeathKeeps, OutsideKeeps
  DEF Next, Process, Environment
<1> QED  BY <1>1, <1>2

\* The inductive invariant.
THEOREM Invariance == Spec => []IInv
BY Initially, StepKeeps, PTL DEF Spec

\* Type correctness.
THEOREM TypeCorrect == Spec => []TypeOK
<1>1. IInv => TypeOK
  BY DEF IInv
<1> QED  BY <1>1, Invariance, PTL

\* What the handlers serve is one stored version, whole (lib.rs, ingest:
\* the state is built from one load_current).
THEOREM ServedStored == Spec => []ServedIsStored
<1>1. IInv => ServedIsStored
  BY DEF IInv
<1> QED  BY <1>1, Invariance, PTL

\* Only a load changes what is served while something is served.
LEMMA ServedChangesByLoad ==
    ASSUME IInv, [Next]_vars, Serving', state' # state
    PROVE  Load /\ ~CycleFails
<1>1. ~Die /\ ~CycleFails
  BY DEF Die, Serving, CycleFails
<1> QED  BY <1>1 DEF Next, Process, Environment, vars, Start, Wake, LoadCurated, SkipCollection,
         Collect, Publish, PublishRefused, OpenFails, StorageFails, Crash,
         EditArticle, EditFixture, EditCurated, Configure, Tick

\* Readers never see an older version after a newer one, through every
\* restart and failed cycle: load_current reads the newest, and the log only
\* grows.
THEOREM Advances == Spec => VersionsOnlyAdvance
<1>1. ASSUME IInv, [Next]_vars, Serving'
      PROVE  state'.version >= shown
  <2>1. CASE state' = state
    BY <1>1, <2>1 DEF IInv, TypeOK, Serving
  <2>2. CASE state' # state
    BY <1>1, <2>2, ServedChangesByLoad, Loads DEF IInv, TypeOK
  <2> QED  BY <2>1, <2>2
<1> QED  BY <1>1, Invariance, PTL DEF Spec, VersionsOnlyAdvance

\* A cycle that claims a check serves what it found, also when the article
\* has returned to what an older version said (storage.rs compares with the
\* current version only).
THEOREM ChecksAreTrue == Spec => CheckServesItsFacts
<1>1. ASSUME IInv, [Next]_vars, state' # state, Serving', mode # "off"
      PROVE  content_hash(log[state'.version]) = content_hash(candidate)
  <2>1. Load /\ state'.version = Len(log)
    BY <1>1, ServedChangesByLoad, Loads
  <2>2. pc = "load"
    BY <2>1 DEF Load
  <2> QED  BY <1>1, <2>1, <2>2 DEF IInv, CycleInOrder
<1> QED  BY <1>1, Invariance, PTL DEF Spec, CheckServesItsFacts
=============================================================================
