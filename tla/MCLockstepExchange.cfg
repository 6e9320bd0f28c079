\* The input exchange over an ordered transport and over one that is not, and
\* every fault of the platform.
CONSTANTS
    a = a
    b = b
    c = c
    d = d
    Pad = {a, b, c, d}
    NeutralPad = NeutralPad
    m1 = m1
    m2 = m2
    Setups <- ExchangeSetups
SPECIFICATION Spec
INVARIANTS
    TypeOK
    AcknowledgedIsCommitted
    DeferredStaysLocal
    PlayersAgreed
PROPERTIES
    ImplementsAgreedHistory
\* A match ends, and so does a peer.
CHECK_DEADLOCK FALSE
