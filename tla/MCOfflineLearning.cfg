CONSTANTS
    Top = 2
    Styles <- StylesOf
    Parent <- ParentOf
    SearchSeeds = 2
    HoldoutSeeds = 1
    MaxAttempts = 2
    Excess = {0}
    MaxP <- MaxPOf
    MinDecisive = 2
    MaxDraws = 1
    MaxExcess = 0
    MinSteps = 1
    Processes = {p1, p2}
    Plans <- PlansOf
    p1 = p1
    p2 = p2
    Restarts = 2
    Schedule <- ScheduleOf
    Beneath = TRUE
SPECIFICATION Spec
CHECK_DEADLOCK FALSE
INVARIANTS VerdictsAreEarned
PROPERTIES PublicationsAreWhole
