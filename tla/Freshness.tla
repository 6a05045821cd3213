------------------------------ MODULE Freshness ------------------------------
(***************************************************************************)
(* The two clocks of the page (web.rs, build_fresh and health_fresh): how  *)
(* long since the last successful collection, which raises the alarm, and  *)
(* how old the date is that the source states, which labels the table      *)
(* stale; and the schedule that keeps both low (main.rs, lib.rs): a boot   *)
(* that collects, then a cycle after every sleep of RTT_POLL_SECS.         *)
(*                                                                         *)
(* Time is explicit.  A cycle takes at most MaxCycle, the fetcher's        *)
(* timeout and the store's; a sleep takes Poll.  Editors change the table   *)
(* at least every Edition, dating it at most Lag back, and may re-date it  *)
(* without a change, which the store takes for the version it has.  While  *)
(* the article parses, the store takes what it says (it announces nobody   *)
(* twice) and the volume responds, a cycle succeeds; otherwise it may fail *)
(* at any of its steps.  The end of a cycle, its commit, the load and the  *)
(* swap of the state, is one step: a load that fails after the commit      *)
(* counts as a cycle that failed before it, and the next cycle finds its   *)
(* version stored (Service has the two apart).                             *)
(***************************************************************************)
EXTENDS Integers

CONSTANTS
    Poll,             \* RTT_POLL_SECS: 6 hours
    MaxCycle,         \* longest cycle
    CheckStaleAfter,  \* RTT_CHECK_STALE_AFTER_SECS: a day
    StaleAfter,       \* RTT_STALE_AFTER_SECS: 8 days
    Edition,          \* longest time between changes of the table: a week
    Lag,              \* longest time from an edition's date to its appearance
    MaxTime           \* bound on the clock

ASSUME TimesAssumption ==
    {Poll, MaxCycle, CheckStaleAfter, StaleAfter, Edition, Lag, MaxTime} \subseteq Nat

\* "Should be a small multiple of poll" (lib.rs, Config).
ASSUME AlarmAssumption == Poll + MaxCycle <= CheckStaleAfter

VARIABLES
    now,        \* the clock
    healthy,    \* the article can be had and parses, the store takes it and
                \* the volume responds: every cycle succeeds
    upSince,    \* when `healthy` last changed
    edition,    \* the table, named by the date it had when it appeared
    edited,     \* when it appeared
    source_as_of,   \* the date the article states
    enabled,    \* RTT_FETCH
    phase,      \* what the process does
    began,      \* when it began to: its sleep, its cycle
    candidate,  \* the running cycle's: the date it states, when it was parsed
    stored,     \* the current version
    state,      \* AppState: when it was checked, the date it states
    missed,     \* cycles failed since the last that succeeded
    collected   \* when a candidate last reached the store

world   == <<healthy, upSince, edition, edited, source_as_of, enabled>>
history == <<missed, collected>>
vars    == <<now, world, phase, began, candidate, stored, state, history>>

None    == [checked_at |-> -1]
NoDate  == -(Lag + 1)       \* before every date
Nothing == [content |-> NoDate, source_as_of |-> NoDate, generated_at |-> 0]

Serving == state # None
Running == phase \in {"fetch", "publish"}

Init ==
    /\ now = 0
    /\ healthy \in BOOLEAN
    /\ upSince = 0
    /\ edition \in (-Lag)..0
    /\ edited = 0
    /\ source_as_of = edition
    /\ enabled \in BOOLEAN
    /\ phase = "down"
    /\ began = 0
    /\ candidate = Nothing
    /\ stored = Nothing
    /\ state = None
    /\ missed = 0
    /\ collected = 0

------------------------------------------------------------------------------
(* The process.                                                            *)

Begin(p) == phase' = p /\ began' = now

Boot ==
    /\ phase = "down"
    /\ Begin("fetch")
    /\ UNCHANGED <<now, world, candidate, stored, state, history>>

Wake ==
    /\ phase = "sleep"
    /\ now >= began + Poll
    /\ Begin("fetch")
    /\ UNCHANGED <<now, world, candidate, stored, state, history>>

\* The article is fetched and parsed; with collection off there is no
\* candidate.
Collect ==
    /\ phase = "fetch"
    /\ phase' = "publish"
    /\ candidate' = IF enabled
                    THEN [content |-> edition, source_as_of |-> source_as_of, generated_at |-> now]
                    ELSE Nothing
    /\ UNCHANGED <<now, world, began, stored, state, history>>

\* publish_if_changed: a table that is stored already keeps its version, its
\* date and the time it was parsed.
Publish ==
    stored' = IF candidate = Nothing \/ candidate.content = stored.content
              THEN stored
              ELSE candidate

\* Seeded fault: the current version is loaded before the candidate is stored.
LoadedFirst == IF stored = Nothing THEN stored'.source_as_of ELSE stored.source_as_of
\* The date of the version that is current after the publication.
Loaded == stored'.source_as_of

\* Seeded fault: a cycle without a candidate counts as a check.
CheckedNow == now
\* Seeded fault: the time of the next check is kept.
CheckedNext == now + Poll
CheckedAt == IF candidate # Nothing THEN now ELSE stored.generated_at

\* The cycle succeeds: the state is swapped, and the loop sleeps if there is
\* something to poll.
Finish ==
    /\ phase = "publish"
    /\ Publish
    /\ stored' # Nothing
    /\ state' = [checked_at |-> CheckedAt, source_as_of |-> Loaded]
    /\ Begin(IF enabled THEN "sleep" ELSE "done")
    /\ candidate' = Nothing
    /\ missed' = 0
    /\ collected' = IF candidate # Nothing THEN now ELSE collected
    /\ UNCHANGED <<now, world>>

\* Seeded fault: an error leaves the loop.
AfterFailureEnds == IF Serving THEN "done" ELSE "down"
\* A failed cycle is followed by the next sleep; at boot the process ends.
AfterFailure == IF Serving THEN "sleep" ELSE "down"

Fail ==
    /\ \/ Running /\ ~healthy
       \/ phase = "publish" /\ candidate = Nothing /\ stored = Nothing
    /\ Begin(AfterFailure)
    /\ candidate' = Nothing
    /\ missed' = IF Serving THEN missed + 1 ELSE 0
    /\ UNCHANGED <<now, world, stored, state, collected>>

------------------------------------------------------------------------------
(* The environment.                                                        *)

Die ==
    /\ Begin("down")
    /\ candidate' = Nothing
    /\ state' = None
    /\ missed' = 0
    /\ UNCHANGED <<now, stored, collected>>

Crash ==
    /\ phase # "down"
    /\ Die
    /\ UNCHANGED world

\* RTT_FETCH is changed, which restarts the process.
Configure ==
    /\ enabled' = ~enabled
    /\ Die
    /\ UNCHANGED <<healthy, upSince, edition, edited, source_as_of>>

\* The source or the volume goes away, or comes back; or an edit makes an
\* article the parser or the store refuses, or mends it.
Turn ==
    /\ healthy' = ~healthy
    /\ upSince' = now
    /\ UNCHANGED <<now, edition, edited, source_as_of, enabled, phase, began, candidate, stored, state, history>>

\* The table changes, under a later date.
NewEdition ==
    /\ edition' \in {d \in (now - Lag)..now : d > source_as_of}
    /\ source_as_of' = edition'
    /\ edited' = now
    /\ UNCHANGED <<now, healthy, upSince, enabled, phase, began, candidate, stored, state, history>>

\* Only the date changes.
Redate ==
    /\ source_as_of' \in (source_as_of + 1)..now
    /\ UNCHANGED <<now, healthy, upSince, edition, edited, enabled, phase, began, candidate, stored, state, history>>

\* Time passes, but not beyond what has to happen by now.
Tick ==
    /\ now < MaxTime
    /\ now < edited + Edition
    /\ phase = "sleep" => now < began + Poll
    /\ Running => now < began + MaxCycle
    /\ now' = now + 1
    /\ UNCHANGED <<world, phase, began, candidate, stored, state, history>>

Next ==
    \/ Boot \/ Wake \/ Collect \/ Finish \/ Fail
    \/ Crash \/ Configure \/ Turn \/ NewEdition \/ Redate \/ Tick

Spec == Init /\ [][Next]_vars

------------------------------------------------------------------------------
(* What the handlers say.                                                  *)

\* Seeded fault: the age of the source's date is compared.
AlarmBySource == Serving /\ now - state.source_as_of > CheckStaleAfter
\* /health/fresh answers 503.
Alarm == Serving /\ now - state.checked_at > CheckStaleAfter

\* The table is labelled stale.
is_stale == Serving /\ now - state.source_as_of > StaleAfter

------------------------------------------------------------------------------
(* Properties.                                                             *)

TypeOK ==
    /\ now \in 0..MaxTime
    /\ healthy \in BOOLEAN /\ enabled \in BOOLEAN
    /\ upSince \in 0..now /\ edited \in 0..now /\ began \in 0..now
    /\ edition \in (-Lag)..now /\ source_as_of \in edition..now
    /\ phase \in {"down", "fetch", "publish", "sleep", "done"}
    /\ {candidate, stored} \subseteq [content : NoDate..now, source_as_of : NoDate..now, generated_at : 0..now]
    /\ state \in {None} \cup [checked_at : 0..now, source_as_of : NoDate..now]
    /\ missed \in Nat
    /\ collected \in 0..now

Round == Poll + MaxCycle

\* The alarm means that collection has stopped succeeding: a service that
\* missed m cycles in a row alarms only if m + 1 rounds exceed the threshold,
\* so a slow cycle, or one failure with the settings of main.rs, is no alarm.
AlarmMeansMissedCycles ==
    enabled /\ Alarm => (missed + 1) * Round > CheckStaleAfter

\* A collection that stopped is never masked: when nothing has reached the
\* store for longer than the threshold, the service alarms, whatever
\* restarts, crashes and changes of the kill switch came in between.
OutageAlarms ==
    Serving /\ now - collected > CheckStaleAfter => Alarm

\* One round after cycles can succeed again (the source is back with an
\* article the store takes, and so is the volume) the alarm is off: a cycle has
\* succeeded, whatever was going on when they came back.
RecoversInTime ==
    enabled /\ Serving /\ healthy /\ now - upSince > Round => missed = 0 /\ ~Alarm

\* The stale label means that the table stalled or collection did: while the
\* table keeps changing and cycles succeed, the page's date is never older
\* than the time between two changes, the lag, one round and a cycle.  A table
\* that is only re-dated does become stale.
StaleMeansStalled ==
    enabled /\ is_stale => Edition + Lag + MaxCycle + (missed + 1) * Round > StaleAfter
=============================================================================
