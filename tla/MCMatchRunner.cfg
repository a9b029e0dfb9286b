SPECIFICATION FairSpec
CONSTANTS
    a = a
    b = b
    Roster <- MCRoster
    Rules <- MCRules
    Cells = {0, 1, 2}
    Modes = {"recon", "assault"}
    Cadences = {"plain", "atomic", "paced"}
    TickCaps = {0, 3}
    RunawayLimit = 3
    Registers = 2
    Lucks <- MCLucks
    Starts <- MCStarts
    Acts <- MCActs
INVARIANTS OneTerminal ResultIsTrue RestatementsAgree RoundsAreClosed
PROPERTIES Terminates
