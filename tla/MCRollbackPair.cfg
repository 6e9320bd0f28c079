\* One prediction tick, a history of two, and the least lookahead that never
\* refuses an honest peer: ticks 1 to 4 trim two rows.
CONSTANTS
    Pad = {p, q}
    Produced = {p, q}
    InitialRemotePad = p
    NoPad = NoPad
    StartTick = 1
    MaxTick = 4
    MaxPrediction = 1
    MaxHistory = 2
    MaxLookahead = 3
SPECIFICATION Spec
INVARIANTS
    HonestSampleFits
PROPERTIES
    ImplementsAgreedHistory
\* The last tick ends the match.
CHECK_DEADLOCK FALSE
