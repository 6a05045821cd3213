\* Two tasks of one process share its one connection while another process
\* writes to the same file: statements of publications and of loads interleave.
CONSTANTS
    p1 = p1  p2 = p2  p3 = p3
    e1 = e1  e2 = e2
    a = a    b = b    c = c
    Player <- MCPlayer
    Points <- MCPoints
    Entry <- MCEntry
    Day <- MCDay
    Client <- MCTasks
    Connection <- SharedConnection
    Candidate <- MCCandidate
    MaxVersion = 2

SPECIFICATION FairSpec
INVARIANTS
    TypeOK
    CommittedWhole
    PointerAtNewest
    NoRepeat
PROPERTIES
    AppendOnly
    KeepsPromise
    CallsReturn
