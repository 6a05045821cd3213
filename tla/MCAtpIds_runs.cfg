\* Runs of the tool, complete and cut short, between changes of the world.
CONSTANTS
    Title <- MCTitle
    Id <- MCId
    ValidId <- MCValidId
    Answer <- MCAnswer
    Table <- MCTable
    Batch = 2
    MaxChanges = 2
SPECIFICATION Spec
INVARIANTS
    OnlyGrows
    EveryTitleAccounted
PROPERTIES
    AddsIdsInForce
