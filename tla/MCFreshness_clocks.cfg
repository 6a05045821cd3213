\* Outages, crashes, kill switch and editions in every order up to the bound.
CONSTANTS
    Poll = 2
    MaxCycle = 1
    CheckStaleAfter = 4
    StaleAfter = 7
    Edition = 2
    Lag = 1
    MaxTime = 8
SPECIFICATION Spec
INVARIANTS
    TypeOK
    AlarmMeansMissedCycles
    OutageAlarms
    RecoversInTime
    StaleMeansStalled
CHECK_DEADLOCK FALSE
