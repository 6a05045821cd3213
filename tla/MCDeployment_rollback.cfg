\* A rollback with the kill switch on.
CONSTANTS
    p1 = p1
    p2 = p2
    Player <- MCPlayer
    Points <- MCPoints
    Entry <- MCEntry
    Day <- MCDay
    Build <- MCBuild
    Codes <- MCCodes
    Migrations <- MCMigrations
    Article <- MCArticle
    Style <- MCStyle
    Reader = {"reader"}
    MaxChanges = 4
SPECIFICATION DeploymentSpec
INVARIANTS
    ShownLedgersReconcile
CHECK_DEADLOCK FALSE
