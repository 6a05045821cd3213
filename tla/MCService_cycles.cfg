\* Liveness: the environment settles, the page follows.
CONSTANTS
    p1 = p1  p2 = p2
    Player <- MCPlayer
    Points <- MCPoints
    Entry <- MCEntry
    Day <- MCDay
    Article <- MCArticle
    Fixture <- Swapped
    Curation = {"c1", "c2"}
    NoArticle = NoArticle
    NoCuration = NoCuration
    MaxTime = 1
    MaxEdits = 3
    MaxFaults = 1
SPECIFICATION FairSpec
INVARIANTS
    TypeOK
    ServedIsStored
PROPERTIES
    PageConverges
    VersionsOnlyAdvance
    CheckServesItsFacts
    KillSwitchServes
CHECK_DEADLOCK FALSE
