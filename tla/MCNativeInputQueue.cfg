\* Three sampled ticks and the delay, a ring of two records.
CONSTANTS
    Pad = {"p", "q"}
    InputTicks = 3
    Delay = 2
    Ring = 2
    Budget = 3
    Batch = 3
    MaxFaults = 1
SPECIFICATION Spec
INVARIANTS
    TypeOK
    FramesAreAgreed
    ChecksumsAreComplete
    CaptureIsOnce
    HonestNeverEnds
PROPERTIES
    TerminalStops
    SessionPlays
