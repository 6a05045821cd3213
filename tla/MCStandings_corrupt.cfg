\* Edits of one row and of the opening line of the qualifiers' table.
CONSTANTS
    Table     <- MCSmallTable
    Blocks    <- MCOneBlock
    Announced <- MCAnnounced
    Doubles   <- MCDoubles
    Title     <- MCSmallTitle
    Player    <- MCSmallPlayer
    NoLink    <- MCNoLink
    MinRows   = 2
    Misprints <- MCNoMisprint
    MaxEdits  <- MCFourEdits

SPECIFICATION Spec
INVARIANTS
    BadEditsCannotCorrupt

\* The edits are bounded.
CHECK_DEADLOCK FALSE
