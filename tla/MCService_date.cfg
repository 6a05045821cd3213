\* Documented: the page shows exactly the date the article states.
CONSTANTS
    p1 = p1  p2 = p2
    Player <- MCPlayer
    Points <- MCPoints
    Entry <- MCEntry
    Day <- MCDay
    Article <- MCArticle
    Fixture <- Swapped
    Curation = {"c1", "c2"}
    NoArticle = NoArticle
    NoCuration = NoCuration
    MaxTime = 0
    MaxEdits = 2
    MaxFaults = 0
SPECIFICATION Spec
PROPERTIES
    PageShowsArticleDate
CHECK_DEADLOCK FALSE
