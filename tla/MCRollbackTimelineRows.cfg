\* The bounds of MCRollbackTimeline, for the row bound the class comment states.
CONSTANTS
    Pad = {p, q}
    InitialRemotePad = p
    NoPad = NoPad
    StartTick = 1
    MaxTick = 5
    MaxPrediction = 2
    MaxHistory = 3
    MaxLookahead = 2
SPECIFICATION Spec
INVARIANTS
    LocalRowsWithinHistory
CHECK_DEADLOCK FALSE
