CONSTANTS
    SeedBase = 0
    SeedCount = 2
    RecheckEvery = 1
    N = 1
    Attempts = 2
    Drivers = {"salience", "objectives", "adaptation", "livefire"}
    Channels = 1
    StallPolls = 2
    MaxLaunches = 2
    MaxMatches <- MatchesOf
SPECIFICATION Spec
CHECK_DEADLOCK FALSE
INVARIANTS ReportsAreTrue BeforeAfterIsPure
PROPERTIES RowsAreEvidence EveryBatteryIsReported
