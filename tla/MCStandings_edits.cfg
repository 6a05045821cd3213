\* Two edits of rows and one beside them.
CONSTANTS
    Table     <- MCTable
    Blocks    <- MCBlocks
    Announced <- MCAnnounced
    Doubles   <- MCDoubles
    Title     <- MCTitle
    Player    <- MCPlayer
    NoLink    <- MCNoLink
    MinRows   = 2
    Misprints <- MCMisprints
    MaxEdits  <- MCMaxEdits

SPECIFICATION Spec
INVARIANTS
    DamageStaysInItsRow
    LedgersLoseNoPoints
    BreakdownAddsUp
    TotalsStayBetween
    AnnouncedStayPublished

\* The edits are bounded.
CHECK_DEADLOCK FALSE
