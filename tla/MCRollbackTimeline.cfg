\* One timeline; prediction, history and lookahead of 2, 3 and 2 ticks keep
\* the code's order of bounds. Ticks 1 to 5 trim two rows.
CONSTANTS
    Pad = {p, q}
    InitialRemotePad = p
    NoPad = NoPad
    StartTick = 1
    MaxTick = 5
    MaxPrediction = 2
    MaxHistory = 3
    MaxLookahead = 2
SPECIFICATION Spec
INVARIANTS
    TypeOK
    ExecutedIsNewest
    ConfirmedIsActual
    NothingMissedIsStale
    CorrectionIsReplayable
    StorageIsBounded
PROPERTIES
    ConfirmedIsFinal
    CommitMatchesPlan
\* A disposed timeline accepts no call.
CHECK_DEADLOCK FALSE
