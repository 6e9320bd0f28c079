\* Two frames when a packet carries one row, and everything that must happen
\* happens.
CONSTANTS
    a = a
    b = b
    c = c
    d = d
    Pad = {a, b, c, d}
    NeutralPad = NeutralPad
    m1 = m1
    m2 = m2
    Setups <- LiveSetups
SPECIFICATION FairSpec
PROPERTIES
    MatchIsPlayed
\* A match ends, and so does a peer.
CHECK_DEADLOCK FALSE
