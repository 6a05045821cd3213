---------------------------- MODULE SnapshotLog -----------------------------
(***************************************************************************)
(* What the snapshot store promises its callers, as if each operation were *)
(* one step: an append-only log of snapshots whose last element is the     *)
(* current version, publication that deduplicates against the current      *)
(* version only, and a load that shows the current version as it was at    *)
(* one moment.  Store implements it statement by statement; Service is     *)
(* built on it.                                                            *)
(***************************************************************************)
EXTENDS SnapshotData

CONSTANTS
    Client,     \* the callers of the store
    Candidate   \* the validated candidates they may publish

VARIABLES
    log,        \* the published snapshots; version v is log[v]
    answer      \* answer[c]: what the last call of c returned

vars == <<log, answer>>

Init ==
    /\ log = <<>>
    /\ answer = [c \in Client |-> NoAnswer]

Reply(c, a) == answer' = [answer EXCEPT ![c] = a]

\* A new call forgets the answer of the last one.
Call(c) ==
    /\ Reply(c, NoAnswer)
    /\ UNCHANGED log

\* Seeded fault: any version with the same content will do.
IsKnown(s) == \E v \in DOMAIN log : content_hash(log[v]) = content_hash(s)
IsCurrent(s) ==
    /\ log # <<>>
    /\ content_hash(log[Len(log)]) = content_hash(s)

\* publish_if_changed, content unchanged: the current version stands.
PublishUnchanged(c, s) ==
    /\ IsCurrent(s)
    /\ Reply(c, Published(Len(log), FALSE))
    /\ UNCHANGED log

\* publish_if_changed, new content: appended whole, and current at once.
PublishNew(c, s) ==
    /\ ~IsCurrent(s)
    /\ ~DuplicateQualifiers(s.qualifiers)
    /\ log' = Append(log, s)
    /\ Reply(c, Published(Len(log) + 1, TRUE))

\* Seeded fault: the version is looked up by its content.
LoadByContent(c) ==
    /\ Reply(c, IF log = <<>>
                THEN Empty
                ELSE Loaded(View(log, CHOOSE v \in DOMAIN log : IsCurrent(log[v]))))
    /\ UNCHANGED log

\* load_current.
Load(c) ==
    /\ Reply(c, IF log = <<>> THEN Empty ELSE Loaded(View(log, Len(log))))
    /\ UNCHANGED log

\* Any error: nothing was published, nothing is shown.
Fail(c) ==
    /\ Reply(c, Failed)
    /\ UNCHANGED log

Next ==
    \E c \in Client :
        \/ Call(c)
        \/ \E s \in Candidate : PublishUnchanged(c, s) \/ PublishNew(c, s)
        \/ Load(c)
        \/ Fail(c)

Spec == Init /\ [][Next]_vars
=============================================================================
