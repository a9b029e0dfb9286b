CONSTANTS
    Seats = {1, 2}
    Catalog <- FiveCards
    Setups <- AllSetups
SPECIFICATION RoundSpec
INVARIANTS RulesDeliver OnlyRepeatsRefused
PROPERTY RoundsHold
CHECK_DEADLOCK FALSE
