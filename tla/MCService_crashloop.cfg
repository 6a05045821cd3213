\* Documented: the last good snapshot keeps serving while the article is rejected.
CONSTANTS
    p1 = p1  p2 = p2
    Player <- MCPlayer
    Points <- MCPoints
    Entry <- MCEntry
    Day <- MCDay
    Article <- LiveOnly
    Fixture <- Swapped
    Curation = {"c1", "c2"}
    NoArticle = NoArticle
    NoCuration = NoCuration
    MaxTime = 0
    MaxEdits = 2
    MaxFaults = 1
SPECIFICATION FairSpec
PROPERTIES
    LastGoodKeepsServing
CHECK_DEADLOCK FALSE
