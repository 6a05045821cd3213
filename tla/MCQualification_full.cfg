\* The rule with its published numbers.
CONSTANTS
    Field = 21
    Player <- MCPlayer
    Curatable <- FullPlayers
    Table <- FullTables
    TopSeats = 7
    FirstEligible = 8
    LastEligible = 20
    MaxChampions = 2
SPECIFICATION Spec
INVARIANTS
    TypeOK
    MatchesRule
    CutLinesDivide
PROPERTIES
    WithdrawalCostsNobodyElse
    SlamCostsAtMostSeatEight
    AlternateStepsUp

