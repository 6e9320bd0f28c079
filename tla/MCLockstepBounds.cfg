\* Engines that differ, and bounds that are met exactly.
CONSTANTS
    a = a
    b = b
    c = c
    d = d
    Pad = {a, b, c, d}
    NeutralPad = NeutralPad
    m1 = m1
    m2 = m2
    Setups <- BoundsSetups
SPECIFICATION Spec
INVARIANTS
    DesyncIsFirst
    HonestIsWellFormed
\* A match ends, and so does a peer.
CHECK_DEADLOCK FALSE
