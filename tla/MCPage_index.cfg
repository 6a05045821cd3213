\* A request between any two swaps of the served state.
CONSTANTS
    Player <- MCPlayer
    Curatable = {2, 3, 4}
    Table <- MCTable
    TopSeats = 2
    FirstEligible = 3
    LastEligible = 4
    MaxChampions = 2
    Name <- MCName
    Announced <- MCAnnounced
SPECIFICATION PageSpec
INVARIANTS
    SummaryAgreesWithTable
    MarginsFollowTheSentence
    MovesAddUp
