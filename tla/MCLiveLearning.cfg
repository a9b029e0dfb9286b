\* The policy chain across matches, crashes and two processes.
CONSTANTS
    p1 = p1
    p2 = p2
    Servers = {p1, p2}
    Matches = {1, 2, 3}
    Top = 2
    MaxFaults = 1

SPECIFICATION Spec

SYMMETRY Interchangeable

INVARIANTS
    ChainBreaksOnlyByOverlap
    FieldedIsDurable
    PromotionsAreEarned
    FailuresAreContained

\* Every match of the bound has been played, or the chain is broken.
CHECK_DEADLOCK FALSE
