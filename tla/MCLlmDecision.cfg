\* The model decision of one seat, its attempts and the evidence they leave.
CONSTANTS
    s1 = s1
    s2 = s2
    api = api
    onex = onex
    Order <- TwoSeats
    Providers = {api, onex}
    ClientOf <- Clients
    MaxPosts <- Posts
    RetryLimit = 2
    Budget = 4
    MaxTick = 2
    MaxFaults = 1

SPECIFICATION Spec

INVARIANTS
    EvidenceIsTrue
    EndsByWhatHappened

PROPERTIES
    PlansAreEarned
    EveryTurnDecides
