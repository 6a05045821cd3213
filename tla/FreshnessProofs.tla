--------------------------- MODULE FreshnessProofs ---------------------------
(***************************************************************************)
(* The clocks of Freshness, for every value of its times: what the alarm   *)
(* and the stale label mean follows from an invariant that dates every     *)
(* phase of the process against the last check, the last change of the     *)
(* source's health, and the last edition.                                  *)
(***************************************************************************)
EXTENDS Freshness, TLAPS

Dates == [content : Int, source_as_of : Int, generated_at : Int]

\* TypeOK without the bounds the clock gives.
Types ==
    /\ now \in Nat /\ upSince \in Nat /\ edited \in Nat /\ began \in Nat
    /\ collected \in Nat /\ missed \in Nat
    /\ edition \in Int /\ source_as_of \in Int
    /\ healthy \in BOOLEAN /\ enabled \in BOOLEAN
    /\ phase \in {"down", "fetch", "publish", "sleep", "done"}
    /\ candidate \in Dates /\ stored \in Dates
    /\ state \in {None} \cup [checked_at : Int, source_as_of : Int]

\* Nothing is dated in the future, nor before every date.
InPast ==
    /\ now <= MaxTime
    /\ upSince <= now /\ edited <= now /\ began <= now /\ collected <= now
    /\ -Lag <= edition /\ edition <= source_as_of /\ source_as_of <= now
    /\ \A d \in {candidate, stored} :
           /\ NoDate <= d.content /\ d.content <= d.source_as_of /\ d.source_as_of <= now
           /\ 0 <= d.generated_at /\ d.generated_at <= now
    /\ stored.generated_at <= collected
    /\ Serving => /\ NoDate <= state.source_as_of /\ state.source_as_of <= now
                  /\ 0 <= state.checked_at /\ state.checked_at <= collected

\* Who is in which phase, and until when.
Phases ==
    /\ phase = "down" => ~Serving
    /\ phase = "sleep" => Serving /\ enabled /\ now <= began + Poll
    /\ phase = "done" => Serving /\ ~enabled
    /\ Running => (Serving => enabled) /\ now <= began + MaxCycle

\* Every missed cycle is one round since the last check.
Checked ==
    Serving /\ enabled =>
        /\ phase = "sleep" => began <= state.checked_at + missed * Round
        /\ Running => began <= state.checked_at + missed * Round + Poll

\* A cycle that failed began before source and store were back.
Missed ==
    healthy /\ missed # 0 /\ enabled /\ Serving =>
        /\ phase = "sleep" => began <= upSince
        /\ Running => began <= upSince + Poll

\* What is collected is the edition of the time.
Editions ==
    /\ now <= edited + Edition
    /\ edited <= edition + Lag
    /\ phase = "publish" /\ enabled =>
           /\ candidate # Nothing
           /\ began <= candidate.content + Edition + Lag
    /\ enabled /\ Serving =>
           state.checked_at <= state.source_as_of + MaxCycle + Edition + Lag

IInv == Types /\ InPast /\ Phases /\ Checked /\ Missed /\ Editions

------------------------------------------------------------------------------
\* None is no state that was checked: it has another domain.
LEMMA NoneIsNoState ==
    ASSUME NEW s \in [checked_at : Int, source_as_of : Int]
    PROVE  s # None
<1>1. DOMAIN s = {"checked_at", "source_as_of"} /\ DOMAIN None = {"checked_at"}
  BY DEF None
<1>2. "source_as_of" # "checked_at"
  OBVIOUS
<1> QED
  BY <1>1, <1>2

\* One more missed cycle is one more round.
LEMMA OneMoreRound ==
    ASSUME NEW m \in Nat
    PROVE  /\ Round \in Nat /\ Round = Poll + MaxCycle
           /\ m * Round \in Nat /\ (m + 1) * Round = m * Round + Round
           /\ (m + 1) * Round \in Nat
<1>1. Poll \in Nat /\ MaxCycle \in Nat
  BY TimesAssumption
<1>2. ASSUME NEW r \in Nat
      PROVE  m * r \in Nat /\ (m + 1) * r = m * r + r /\ (m + 1) * r \in Nat
  OBVIOUS
<1> QED
  BY <1>1, <1>2 DEF Round

LEMMA Initially == Init => IInv
<1> SUFFICES ASSUME Init PROVE IInv
  OBVIOUS
<1>0. Lag \in Nat /\ MaxTime \in Nat /\ Edition \in Nat
  BY TimesAssumption
<1>1. ~Serving /\ ~Running
  BY DEF Init, Serving, Running
<1>2. Nothing \in Dates
  BY <1>0 DEF Nothing, NoDate, Dates
<1> QED
  BY <1>0, <1>1, <1>2
  DEF Init, IInv, Types, InPast, Phases, Checked, Missed, Editions, Nothing, NoDate

\* Going down leaves only what the world and the store hold.
LEMMA Down ==
    ASSUME IInv, Die, enabled' \in BOOLEAN, UNCHANGED <<healthy, upSince, edition, edited, source_as_of>>
    PROVE  IInv'
<1>0. Lag \in Nat /\ MaxTime \in Nat /\ Edition \in Nat
  BY TimesAssumption
<1>1. ~Serving' /\ ~Running' /\ phase' = "down" /\ state' = None
  BY DEF Die, Begin, Serving, Running
<1>2. Nothing \in Dates
  BY <1>0 DEF Nothing, NoDate, Dates
<1> QED
  BY <1>0, <1>1, <1>2
  DEF Die, Begin, IInv, Types, InPast, Phases, Checked, Missed, Editions, Nothing, NoDate

LEMMA Steps == IInv /\ [Next]_vars => IInv'
<1> SUFFICES ASSUME IInv, [Next]_vars PROVE IInv'
  OBVIOUS
<1> USE DEF IInv
<1>0. /\ {Poll, MaxCycle, CheckStaleAfter, StaleAfter, Edition, Lag, MaxTime} \subseteq Nat
      /\ NoDate \in Int
  BY TimesAssumption DEF NoDate
<1>m. missed \in Nat
  BY DEF Types
<1>r. /\ Round \in Nat /\ Round = Poll + MaxCycle
      /\ missed * Round \in Nat /\ (missed + 1) * Round = missed * Round + Round
  BY <1>m, OneMoreRound
<1>n. Nothing \in Dates
  BY <1>0 DEF Nothing, Dates
<1>1. CASE Boot
  <2>1. ~Serving /\ state' = state
    BY <1>1 DEF Boot, Phases
  <2> QED
    BY <1>0, <1>1, <2>1
    DEF Boot, Begin, world, history, Types, InPast, Phases, Checked, Missed, Editions, Serving, Running
<1>2. CASE Wake
  <2>1. Serving /\ enabled /\ now = began + Poll
    BY <1>0, <1>2 DEF Wake, Phases, Types
  <2> QED
    BY <1>0, <1>r, <1>2, <2>1
    DEF Wake, Begin, world, history, Types, InPast, Phases, Checked, Missed, Editions, Serving, Running
<1>3. CASE Collect
  <2>1. candidate' \in Dates
    BY <1>n, <1>3 DEF Collect, Dates, Types
  <2>2. enabled => /\ candidate'.content = edition /\ candidate'.source_as_of = source_as_of
                   /\ candidate'.generated_at = now
    BY <1>3 DEF Collect
  <2>3. ~enabled => candidate' = Nothing
    BY <1>3 DEF Collect
  <2>4. enabled => candidate' # Nothing
    BY <1>0, <2>2 DEF Nothing, NoDate, InPast, Types
  <2>5. Types'
    BY <1>3, <2>1 DEF Collect, world, history, Types
  <2>6. InPast'
    BY <1>0, <1>3, <2>2, <2>3
    DEF Collect, world, history, InPast, Types, Nothing, NoDate, Serving
  <2>7. Phases' /\ Checked' /\ Missed'
    BY <1>3 DEF Collect, world, history, Phases, Checked, Missed, Serving, Running
  <2>8. Editions'
    BY <1>0, <1>3, <2>2, <2>4 DEF Collect, world, history, InPast, Types, Editions, Serving
  <2> QED
    BY <2>5, <2>6, <2>7, <2>8
<1>4. CASE Finish
  <2>1. /\ phase = "publish" /\ Running /\ missed' = 0 /\ began' = now
        /\ UNCHANGED <<now, world>>
        /\ candidate' = Nothing
        /\ phase' = IF enabled THEN "sleep" ELSE "done"
        /\ collected' = IF candidate # Nothing THEN now ELSE collected
    BY <1>4 DEF Finish, Begin, Running
  <2>2. stored' \in {stored, candidate}
    BY <1>4 DEF Finish, Publish
  <2>3. candidate # Nothing => stored'.content = candidate.content
    BY <1>4 DEF Finish, Publish
  <2>3a. candidate = Nothing => stored' = stored
    BY <1>4 DEF Finish, Publish
  <2>4. stored' \in Dates
    BY <2>2 DEF Types
  <2>5. /\ state'.checked_at = IF candidate # Nothing THEN now ELSE stored.generated_at
        /\ state'.source_as_of = stored'.source_as_of
        /\ state' \in [checked_at : Int, source_as_of : Int]
    BY <1>4, <2>4 DEF Finish, CheckedAt, Loaded, Types, Dates
  <2>6. Serving'
    BY <2>5, NoneIsNoState DEF Serving
  <2>7. Types'
    BY <1>n, <2>1, <2>4, <2>5 DEF Types, world
  <2>8. InPast'
    <3>1. \A d \in {candidate', stored'} :
              /\ NoDate <= d.content /\ d.content <= d.source_as_of /\ d.source_as_of <= now
              /\ 0 <= d.generated_at /\ d.generated_at <= now
      BY <1>0, <2>1, <2>2 DEF InPast, Nothing, NoDate, Types
    <3>2. stored'.generated_at <= collected'
      BY <1>0, <2>1, <2>2, <2>3a DEF InPast, Types
    <3>3. 0 <= state'.checked_at /\ state'.checked_at <= collected'
      BY <1>0, <2>1, <2>5 DEF InPast, Types
    <3>4. collected' <= now'
      BY <1>0, <2>1 DEF InPast, Types
    <3>5. NoDate <= state'.source_as_of /\ state'.source_as_of <= now
      BY <1>0, <2>4, <2>5, <3>1 DEF Dates
    <3>6. /\ now' <= MaxTime /\ upSince' <= now' /\ edited' <= now' /\ began' <= now'
          /\ -Lag <= edition' /\ edition' <= source_as_of' /\ source_as_of' <= now'
      BY <1>0, <2>1 DEF InPast, Types, world
    <3>7. now' = now /\ NoDate' = NoDate
      BY <2>1 DEF NoDate
    <3> QED
      BY <3>1, <3>2, <3>3, <3>4, <3>5, <3>6, <3>7 DEF InPast
  <2>9. Phases' /\ Missed'
    BY <1>0, <2>1, <2>6 DEF Phases, Missed, Types, Running, world
  <2>10. Checked'
    <3>1. enabled => began' <= state'.checked_at
      BY <2>1, <2>5 DEF Editions, Types
    <3>2. missed' * Round' = 0 /\ Round' = Round
      BY <1>r, <2>1 DEF Round
    <3> QED
      BY <1>0, <2>1, <2>5, <3>1, <3>2 DEF Checked, Running, world
  <2>11. Editions'
    <3>1. stored'.content <= stored'.source_as_of
      BY <1>0, <2>2 DEF InPast, Types
    <3>2. enabled => state'.checked_at <= stored'.content + MaxCycle + Edition + Lag
      BY <1>0, <2>1, <2>3, <2>4, <2>5 DEF Editions, Phases, Types, Dates
    <3> QED
      BY <1>0, <2>1, <2>4, <2>5, <3>1, <3>2 DEF Editions, Types, Dates, world
  <2> QED
    BY <2>7, <2>8, <2>9, <2>10, <2>11
<1>5. CASE Fail
  <2>1. /\ Running /\ UNCHANGED <<now, world, stored, state, collected>>
        /\ candidate' = Nothing /\ began' = now
        /\ Serving' <=> Serving
        /\ Serving => phase' = "sleep" /\ missed' = missed + 1
        /\ ~Serving => phase' = "down" /\ missed' = 0
    BY <1>5 DEF Fail, Begin, AfterFailure, Running, Serving
  <2>2. enabled => ~healthy
    BY <1>5 DEF Fail, Editions
  <2>3. Types'
    BY <1>n, <2>1 DEF Types, world
  <2>4. InPast'
    BY <1>0, <2>1 DEF InPast, world, Nothing, NoDate, Types
  <2>5. Phases'
    BY <1>0, <2>1 DEF Phases, world, Types, Running
  <2>6. Checked'
    <3>1. SUFFICES ASSUME Serving, enabled
                   PROVE  began' <= state'.checked_at + missed' * Round
      BY <2>1 DEF Checked, world, Running, Round
    <3>2. now <= state.checked_at + missed * Round + Round
      BY <1>0, <1>r, <2>1, <3>1 DEF Checked, Phases, Types, InPast, Serving
    <3>3. missed' * Round = missed * Round + Round
      BY <1>r, <2>1, <3>1
    <3>4. state.checked_at \in Int
      BY <3>1 DEF Types, Serving
    <3> QED
      BY <1>r, <2>1, <3>2, <3>3, <3>4 DEF Types
  <2>7. Missed' /\ Editions'
    BY <2>1, <2>2 DEF Missed, Editions, world
  <2> QED
    BY <2>3, <2>4, <2>5, <2>6, <2>7
<1>6. CASE Crash
  BY <1>6, Down DEF Crash, world, Types
<1>7. CASE Configure
  BY <1>7, Down DEF Configure, Types
<1>8. CASE Turn
  BY <1>0, <1>8
  DEF Turn, history, Types, InPast, Phases, Checked, Missed, Editions, Serving, Running
<1>9. CASE NewEdition
  <2>1. /\ edition' \in Int /\ edition' <= now /\ now <= edition' + Lag
        /\ source_as_of < edition' /\ source_as_of' = edition' /\ edited' = now
        /\ UNCHANGED <<now, healthy, upSince, enabled, phase, began, candidate, stored, state, history>>
    BY <1>0, <1>9 DEF NewEdition, Types
  <2> QED
    BY <1>0, <2>1
    DEF history, Types, InPast, Phases, Checked, Missed, Editions, Serving, Running, Round
<1>9a. CASE Redate
  <2>1. /\ source_as_of' \in Int /\ source_as_of < source_as_of' /\ source_as_of' <= now
        /\ UNCHANGED <<now, healthy, upSince, edition, edited, enabled, phase, began, candidate, stored, state, history>>
    BY <1>9a DEF Redate, Types
  <2> QED
    BY <1>0, <2>1
    DEF history, Types, InPast, Phases, Checked, Missed, Editions, Serving, Running, Round
<1>10. CASE Tick
  <2>1. /\ now' = now + 1 /\ now < MaxTime /\ now < edited + Edition
        /\ phase = "sleep" => now < began + Poll
        /\ Running => now < began + MaxCycle
        /\ UNCHANGED <<world, phase, began, candidate, stored, state, history>>
    BY <1>10 DEF Tick
  <2>2. Types'
    BY <2>1 DEF Types, world, history
  <2>3. InPast'
    BY <1>0, <2>1, <2>2 DEF InPast, world, history, Types, Serving, Dates
  <2>4. Phases' /\ Checked' /\ Missed' /\ Editions'
    BY <1>0, <2>1
    DEF Phases, Checked, Missed, Editions, world, history, Serving, Running, Types, Round
  <2> QED
    BY <2>2, <2>3, <2>4
<1>11. CASE UNCHANGED vars
  BY <1>11
  DEF vars, world, history, Types, InPast, Phases, Checked, Missed, Editions, Serving, Running, Round
<1> QED
  BY <1>1, <1>2, <1>3, <1>4, <1>5, <1>6, <1>7, <1>8, <1>9, <1>9a, <1>10, <1>11 DEF Next

\* The dates of every phase hold in every state a run reaches.
THEOREM Dated == Spec => []IInv
BY Initially, Steps, PTL DEF Spec

------------------------------------------------------------------------------
\* While collection runs, the last check is at most one round and the missed
\* cycles away.
LEMMA AgeOfTheCheck ==
    ASSUME IInv, Serving, enabled
    PROVE  /\ state.checked_at \in Int
           /\ now - state.checked_at <= (missed + 1) * Round
<1>1. Poll \in Nat /\ MaxCycle \in Nat
  BY TimesAssumption
<1>2. /\ Round \in Nat /\ Round = Poll + MaxCycle
      /\ missed * Round \in Nat /\ (missed + 1) * Round = missed * Round + Round
  BY OneMoreRound DEF IInv, Types
<1>3. state.checked_at \in Int
  BY DEF IInv, Types, Serving
<1>4. phase = "sleep" \/ Running
  BY DEF IInv, Types, Phases, Running
<1> QED
  BY <1>1, <1>2, <1>3, <1>4 DEF IInv, Types, Phases, Checked

\* The type invariant of Freshness: no date lies in the future.
THEOREM TypeCorrect == Spec => []TypeOK
<1>1. IInv => TypeOK
  <2> SUFFICES ASSUME IInv PROVE TypeOK
    OBVIOUS
  <2>1. Lag \in Nat /\ NoDate \in Int /\ MaxTime \in Nat
    BY TimesAssumption DEF NoDate
  <2>2. \A d \in {candidate, stored} : d \in [content : NoDate..now, source_as_of : NoDate..now, generated_at : 0..now]
    <3>1. ASSUME NEW d \in {candidate, stored}
          PROVE  d \in [content : NoDate..now, source_as_of : NoDate..now, generated_at : 0..now]
      <4>1. d = [content |-> d.content, source_as_of |-> d.source_as_of, generated_at |-> d.generated_at]
        BY DEF IInv, Types, Dates
      <4>2. d.content \in NoDate..now /\ d.source_as_of \in NoDate..now /\ d.generated_at \in 0..now
        BY <2>1 DEF IInv, Types, InPast, Dates
      <4> QED
        BY <4>1, <4>2
    <3> QED
      BY <3>1
  <2>3. Serving => state \in [checked_at : 0..now, source_as_of : NoDate..now]
    BY <2>1 DEF IInv, Types, InPast, Serving
  <2> QED
    BY <2>1, <2>2, <2>3 DEF IInv, Types, InPast, Serving, TypeOK
<1> QED
  BY <1>1, Dated, PTL

\* /health/fresh alarms only after as many missed cycles as its threshold is
\* worth: a slow cycle is no outage, whatever the times are.
THEOREM AlarmIsNoFalseAlarm == Spec => []AlarmMeansMissedCycles
<1>1. IInv => AlarmMeansMissedCycles
  <2> SUFFICES ASSUME IInv, enabled, Alarm PROVE (missed + 1) * Round > CheckStaleAfter
    BY DEF AlarmMeansMissedCycles
  <2>1. Serving /\ now - state.checked_at > CheckStaleAfter
    BY DEF Alarm
  <2>2. missed \in Nat /\ CheckStaleAfter \in Nat /\ now \in Nat
    BY TimesAssumption DEF IInv, Types
  <2>3. (missed + 1) * Round \in Nat
    BY <2>2, OneMoreRound
  <2> QED
    BY <2>1, <2>2, <2>3, AgeOfTheCheck
<1> QED
  BY <1>1, Dated, PTL

\* Nothing a process does makes its check younger than the last candidate
\* that reached the store: no outage hides behind a restart or the kill switch.
THEOREM OutagesAreSeen == Spec => []OutageAlarms
<1>1. IInv => OutageAlarms
  BY TimesAssumption DEF IInv, Types, InPast, OutageAlarms, Alarm, Serving
<1> QED
  BY <1>1, Dated, PTL

\* One round after source and store are back the page has been checked.
THEOREM Recovers == Spec => []RecoversInTime
<1>1. IInv => RecoversInTime
  <2> SUFFICES ASSUME IInv, enabled, Serving, healthy, now - upSince > Round
               PROVE  missed = 0 /\ ~Alarm
    BY DEF RecoversInTime
  <2>1. Poll \in Nat /\ MaxCycle \in Nat /\ CheckStaleAfter \in Nat
    BY TimesAssumption
  <2>2. phase = "sleep" \/ Running
    BY DEF IInv, Types, Phases, Running
  <2>3. missed = 0
    BY <2>1, <2>2 DEF IInv, Types, Phases, Missed, Round
  <2>4. (missed + 1) * Round = Round
    BY <2>1, <2>3 DEF Round
  <2>5. now - state.checked_at <= CheckStaleAfter
    BY <2>1, <2>4, AgeOfTheCheck, AlarmAssumption DEF Round, IInv, Types
  <2>6. ~Alarm
    BY <2>1, <2>5, AgeOfTheCheck DEF Alarm, IInv, Types
  <2> QED
    BY <2>3, <2>6
<1> QED
  BY <1>1, Dated, PTL

\* The stale label needs editions or cycles that failed to come: their longest
\* regular delays do not add up to it.
THEOREM LabelIsTrue == Spec => []StaleMeansStalled
<1>1. IInv => StaleMeansStalled
  <2> SUFFICES ASSUME IInv, enabled, is_stale
               PROVE  Edition + Lag + MaxCycle + (missed + 1) * Round > StaleAfter
    BY DEF StaleMeansStalled
  <2>1. {MaxCycle, Edition, Lag, StaleAfter} \subseteq Nat
    BY TimesAssumption
  <2>2. Serving /\ now - state.source_as_of > StaleAfter
    BY DEF is_stale
  <2>3. missed \in Nat /\ now \in Nat
    BY DEF IInv, Types
  <2>3a. (missed + 1) * Round \in Nat
    BY <2>3, OneMoreRound
  <2>4. state.source_as_of \in Int
    BY <2>2 DEF IInv, Types, Serving
  <2>5. state.checked_at <= state.source_as_of + MaxCycle + Edition + Lag
    BY <2>2 DEF IInv, Editions
  <2> QED
    BY <2>1, <2>2, <2>3, <2>3a, <2>4, <2>5, AgeOfTheCheck
<1> QED
  BY <1>1, Dated, PTL
=============================================================================
