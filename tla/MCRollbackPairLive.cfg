\* The fair pair over three ticks with two prediction ticks, of which replays of
\* a confirmed prefix need both. Players that hold one pad, which is not the
\* predicted one: the first ticks are always predicted wrongly.
CONSTANTS
    Pad = {p, q}
    Produced = {q}
    InitialRemotePad = p
    NoPad = NoPad
    StartTick = 1
    MaxTick = 3
    MaxPrediction = 2
    MaxHistory = 3
    MaxLookahead = 4
SPECIFICATION FairSpec
INVARIANTS
    SettledIsPlayed
PROPERTIES
    EveryTickSettles
\* The last tick ends the match.
CHECK_DEADLOCK FALSE
