----------------------------- MODULE AtpIdsProofs -----------------------------
(***************************************************************************)
(* For any titles, ids, batches and answers: runs of the tool only add to  *)
(* the file unless one dies while it writes, and account for every title.  *)
(*                                                                         *)
(* A run inserts only titles it asked for, which had no entry, so its map  *)
(* extends the file; the file extends what is committed, hence so does the *)
(* map, while the file is empty.                                           *)
(***************************************************************************)
EXTENDS AtpIds, TLAPS

LEMMA ExtendsItself == \A m : Extends(m, m)
BY DEF Extends

LEMMA ExtendsFurther == \A l, m, n : Extends(l, m) /\ Extends(m, n) => Extends(l, n)
BY DEF Extends

LEMMA EmptyMap == NoEntries \in Maps /\ DOMAIN NoEntries = {}
<1>1. NoEntries \in [{} -> Id] /\ DOMAIN NoEntries = {}
  BY DEF NoEntries
<1> QED  BY <1>1 DEF Maps

\* A map of the entries for some titles, with ids for them, is a map.
LEMMA IsMap ==
    ASSUME NEW S \in SUBSET Title, NEW m, m \in [S -> Id]
    PROVE  m \in Maps
BY DEF Maps

\* What a map is.
LEMMA MapIs ==
    ASSUME NEW m \in Maps
    PROVE  DOMAIN m \subseteq Title /\ \A t \in DOMAIN m : m[t] \in Id
BY DEF Maps

LEMMA Initially == Init => IInv
<1> SUFFICES ASSUME Init PROVE IInv
  OBVIOUS
<1>1. TypeOK
  BY EmptyMap, AtpIdsAssumption DEF Init, TypeOK
<1>2. Grows
  BY ExtendsItself DEF Init, Grows, OnlyGrows
<1>3. Accounts
  BY EmptyMap DEF Init, Accounts
<1> QED  BY <1>1, <1>2, <1>3 DEF IInv

LEMMA StartKeeps == ASSUME IInv, Start PROVE IInv'
<1>1. file.ids \in Maps /\ table \subseteq Title
  BY DEF IInv, TypeOK
<1>2. TypeOK'
  BY <1>1 DEF IInv, TypeOK, Start, environment, load_existing
<1>3. Grows'
  BY ExtendsItself DEF IInv, Grows, OnlyGrows, Start, load_existing
<1>4. Accounts'
  BY DEF Accounts, Start
<1> QED  BY <1>2, <1>3, <1>4 DEF IInv

\* The titles found were asked for, so they had no entry.
LEMMA ResolveKeeps == ASSUME IInv, Resolve PROVE IInv'
<1> DEFINE found == {t \in Chunk : Found(t) # {}}
<1>1. /\ map' = [t \in DOMAIN map \cup found |->
                    IF t \in found THEN CHOOSE i \in Found(t) : TRUE ELSE map[t]]
      /\ unresolved' = unresolved \cup (Chunk \ found)
      /\ wanted' = wanted \ Chunk
      /\ pc = "resolve" /\ pc' = "resolve"
      /\ UNCHANGED <<table, file, committed, titles, cut>>
  BY DEF Resolve, environment
<1>2. Chunk \subseteq wanted /\ found \subseteq Chunk
  BY DEF Chunk
<1>3. \A t \in found : (CHOOSE i \in Found(t) : TRUE) \in Id
  BY AtpIdsAssumption DEF Found
<1>4. DOMAIN map' = DOMAIN map \cup found
  BY <1>1
<1> HIDE DEF found
<1>5. TypeOK'
  <2>1. DOMAIN map \subseteq Title /\ \A t \in DOMAIN map : map[t] \in Id
    BY MapIs DEF IInv, TypeOK
  <2>2. DOMAIN map \cup found \in SUBSET Title
    BY <1>2, <2>1 DEF IInv, TypeOK
  <2>3. map' \in [DOMAIN map \cup found -> Id]
    BY <1>1, <1>3, <2>1
  <2>4. map' \in Maps
    BY <2>2, <2>3, IsMap
  <2> QED  BY <1>1, <1>2, <2>4 DEF IInv, TypeOK
<1>6. Extends(map', map)
  <2>1. \A t \in DOMAIN map : t \notin found
    BY <1>2 DEF IInv, Accounts
  <2> QED  BY <1>1, <1>4, <2>1 DEF Extends
<1>7. Grows'
  BY <1>1, <1>6, ExtendsFurther DEF IInv, Grows, OnlyGrows
<1>8. Accounts'
  BY <1>1, <1>2, <1>4 DEF IInv, Accounts
<1> QED  BY <1>5, <1>7, <1>8 DEF IInv

\* While the file is empty the map extends what is committed.
LEMMA TruncateKeeps == ASSUME IInv, Truncate PROVE IInv'
<1>1. TypeOK'
  BY EmptyMap DEF IInv, TypeOK, Truncate, environment
<1>2. ~cut => Extends(map, committed)
  BY ExtendsFurther DEF IInv, Grows, OnlyGrows, Truncate
<1>3. Grows'
  BY <1>2 DEF Grows, OnlyGrows, Truncate
<1>4. Accounts'
  BY DEF IInv, Accounts, Truncate, AllAsked
<1> QED  BY <1>1, <1>3, <1>4 DEF IInv

\* A run that ended leaves nothing to account for.
LEMMA FinishAccounts == ASSUME Finish PROVE Accounts' /\ map' \in Maps
BY EmptyMap DEF Finish, Accounts

LEMMA WriteKeeps == ASSUME IInv, Write PROVE IInv'
<1>1. TypeOK'
  BY FinishAccounts DEF IInv, TypeOK, Write, Finish, environment
<1>2. Grows'
  BY DEF IInv, Grows, OnlyGrows, Write, Finish
<1> QED  BY <1>1, <1>2, FinishAccounts DEF IInv, Write

LEMMA CutKeeps == ASSUME IInv, Cut PROVE IInv'
<1>1. PICK t \in Title, whole \in BOOLEAN :
         file' = [parses |-> whole, ids |-> Only(map, {u \in Title : u < t})]
  BY DEF Cut
<1>2. Only(map, {u \in Title : u < t}) \in Maps
  <2> DEFINE S == DOMAIN map \cap {u \in Title : u < t}
  <2>1. S \in SUBSET Title /\ [u \in S |-> map[u]] \in [S -> Id]
    BY MapIs DEF IInv, TypeOK
  <2> QED  BY <2>1, IsMap DEF Only
<1>3. TypeOK'
  BY <1>1, <1>2, FinishAccounts DEF IInv, TypeOK, Cut, Finish, environment
<1>4. Grows'
  BY DEF Grows, OnlyGrows, Cut, Finish
<1> QED  BY <1>3, <1>4, FinishAccounts DEF IInv, Cut

LEMMA AbortKeeps == ASSUME IInv, Abort PROVE IInv'
<1>1. TypeOK'
  BY FinishAccounts DEF IInv, TypeOK, Abort, Finish, environment
<1>2. Grows'
  BY DEF IInv, Grows, OnlyGrows, Abort, Finish
<1> QED  BY <1>1, <1>2, FinishAccounts DEF IInv, Abort

LEMMA CommitKeeps == ASSUME IInv, Commit \/ TakeBack PROVE IInv'
<1>1. TypeOK'
  <2>1. file.ids \in Maps /\ committed \in Maps
    BY DEF IInv, TypeOK
  <2>2. CASE Commit
    BY <2>1, <2>2 DEF IInv, TypeOK, Commit, environment, run
  <2>3. CASE TakeBack
    BY <2>1, <2>3 DEF IInv, TypeOK, TakeBack, environment, run
  <2> QED  BY <2>2, <2>3
<1>2. Grows'
  BY ExtendsItself DEF IInv, Grows, OnlyGrows, Commit, TakeBack, run
<1>3. Accounts'
  BY DEF IInv, Accounts, Commit, TakeBack, run
<1> QED  BY <1>1, <1>2, <1>3 DEF IInv

\* An entry is typed for a title without one.
LEMMA TypeKeeps == ASSUME IInv, NEW t \in Title, Type(t) PROVE IInv'
<1>1. PICK i \in Id :
         file' = [file EXCEPT !.ids = [u \in DOMAIN @ \cup {t} |-> IF u = t THEN i ELSE @[u]]]
  BY DEF Type
<1> DEFINE ids == [u \in DOMAIN file.ids \cup {t} |-> IF u = t THEN i ELSE file.ids[u]]
<1>2. file' = [parses |-> file.parses, ids |-> ids] /\ file.ids \in Maps
  BY <1>1 DEF IInv, TypeOK
<1>3. DOMAIN file.ids \cup {t} \in SUBSET Title /\ ids \in [DOMAIN file.ids \cup {t} -> Id]
  BY <1>2, MapIs
<1>4. ids \in Maps
  BY <1>3, IsMap
<1>5. Extends(ids, file.ids)
  BY DEF Type, Extends
<1> HIDE DEF ids
<1>6. TypeOK'
  BY <1>2, <1>4 DEF IInv, TypeOK, Type, run
<1>7. Grows'
  BY <1>2, <1>5, ExtendsFurther DEF IInv, Grows, OnlyGrows, Type, run
<1>8. Accounts'
  BY DEF IInv, Accounts, Type, run
<1> QED  BY <1>6, <1>7, <1>8 DEF IInv

\* The article and Wikidata change under a run.
LEMMA WorldKeeps ==
    ASSUME IInv, NewTable \/ \E t \in Title : NewStatements(t)
    PROVE  IInv'
<1>1. table' \subseteq Title /\ UNCHANGED <<file, committed, run, cut>>
  BY AtpIdsAssumption DEF IInv, TypeOK, NewTable, NewStatements
<1> QED  BY <1>1 DEF IInv, TypeOK, Grows, OnlyGrows, Accounts, run

\* The invariant holds of every behaviour (bin/refresh-atp-ids.rs, main).
THEOREM Invariance == Spec => []IInv
<1>1. IInv /\ [Next]_vars => IInv'
  <2> SUFFICES ASSUME IInv, [Next]_vars
               PROVE  IInv'
    OBVIOUS
  <2>1. CASE UNCHANGED vars
    BY <2>1 DEF vars, environment, run, IInv, TypeOK, Grows, OnlyGrows, Accounts
  <2>2. CASE Next
    BY <2>2, StartKeeps, ResolveKeeps, AbortKeeps, TruncateKeeps, WriteKeeps, CutKeeps,
       CommitKeeps, TypeKeeps, WorldKeeps
       DEF Next
  <2> QED  BY <2>1, <2>2
<1> QED  BY Initially, <1>1, PTL DEF Spec

\* Unless a run died while it wrote, what is committed is in the file, or in
\* the map a run is about to write (write_out).
THEOREM FileOnlyGrows == Spec => []OnlyGrows
<1>1. IInv => OnlyGrows
  BY DEF IInv, Grows
<1> QED  BY Invariance, <1>1, PTL

\* Every title a run read has an entry or is reported, not both (main).
THEOREM NobodyForgotten == Spec => []EveryTitleAccounted
<1>1. IInv => EveryTitleAccounted
  BY DEF IInv, Accounts, EveryTitleAccounted
<1> QED  BY Invariance, <1>1, PTL

\* What pick takes of the statements about a title is in force.
LEMMA PickInForce ==
    ASSUME NEW t, NEW s \in pick(wikidata[t])
    PROVE  InForce(t, s.value)
<1> DEFINE all == wikidata[t]
<1>1. \A S, x : x \in LastOf(all, S) => \E k \in S : x = all[k]
  BY DEF LastOf
<1>2. \A k \in DOMAIN all : all[k] \in ToSet(all)
  BY DEF ToSet
<1>3. \A p \in ToSet(all) : \E k \in DOMAIN all : p = all[k]
  BY DEF ToSet
<1>4. CASE Preferred(all) # {}
  <2>1. PICK k \in Preferred(all) : s = all[k]
    BY <1>1, <1>4 DEF pick
  <2>2. s \in ToSet(all) /\ s.rank = "preferred"
    BY <1>2, <2>1 DEF Preferred
  <2> QED  BY <2>2 DEF InForce
<1>5. CASE Preferred(all) = {}
  <2>1. PICK k \in Usable(all) : s = all[k]
    BY <1>1, <1>5 DEF pick
  <2>2. s \in ToSet(all) /\ s.rank # "deprecated"
    BY <1>2, <2>1 DEF Usable
  <2>3. \A p \in ToSet(all) : p.rank # "preferred"
    BY <1>3, <1>5 DEF Preferred
  <2> QED  BY <2>2, <2>3 DEF InForce
<1> QED  BY <1>4, <1>5

\* An id a run adds is well formed and in force when it was asked for
\* (resolve, and the check of the format in main).
THEOREM OnlyIdsInForce == Spec => AddsIdsInForce
<1> DEFINE A == \A t \in DOMAIN map' \ DOMAIN map :
                   pc = "resolve" => map'[t] \in ValidId /\ InForce(t, map'[t])
<1>1. ASSUME IInv, [Next]_vars PROVE A
  <2>1. ASSUME Resolve PROVE A
    <3> SUFFICES ASSUME NEW t \in DOMAIN map' \ DOMAIN map
                 PROVE  map'[t] \in ValidId /\ InForce(t, map'[t])
      OBVIOUS
    <3> DEFINE found == {u \in Chunk : Found(u) # {}}
    <3>1. map' = [u \in DOMAIN map \cup found |->
                     IF u \in found THEN CHOOSE i \in Found(u) : TRUE ELSE map[u]]
      BY <2>1 DEF Resolve
    <3>2. t \in found /\ map'[t] = CHOOSE i \in Found(t) : TRUE
      BY <3>1
    <3>3. map'[t] \in Found(t)
      BY <3>2
    <3>4. map'[t] \in ValidId /\ \E s \in pick(wikidata[t]) : map'[t] = s.value
      BY <3>3 DEF Found, resolve
    <3> QED  BY <3>4, PickInForce
  <2>2. ASSUME pc = "resolve", map' # map, ~Resolve PROVE Abort
    BY <1>1, <2>2 DEF Next, vars, environment, run, Start, Truncate, Write, Cut, Commit, TakeBack,
       Type, NewTable, NewStatements
  <2>3. ASSUME Abort PROVE A
    BY <2>3, EmptyMap DEF Abort, Finish
  <2> QED  BY <2>1, <2>2, <2>3
<1> QED  BY <1>1, Invariance, PTL DEF Spec, AddsIdsInForce
=============================================================================
