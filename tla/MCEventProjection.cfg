CONSTANTS
    browser = browser
    Clients = {browser}
    LastTick = 2
    MaxEvents = 5
    MaxRevision = 3
    StatusIds = {3}
SPECIFICATION ProjectionSpec
INVARIANTS OnlyStopRefused
PROPERTIES NothingMissed EndReachesBrowser
CHECK_DEADLOCK FALSE
