\* One capture, beside one inbox command at a time, with two troubles in any
\* combination.
CONSTANTS
    Bundle <- MCBundle
    Session <- MCSession
    SessionOf <- MCSessionOf
    Mode = {"gui", "replay"}
    Tool = {"command", "report"}
    AppTool = "report"
    MaxRecords = 2
    MaxDiskErrors = 1
    MaxDeaths = 1
    MaxTrouble = 2
SPECIFICATION Spec
INVARIANTS
    TypeOK
    FinalizedIsSound
    DerivedIsBound
    AcceptedIsWhole
    OwnedIsStopped
    ShownIsTrue
PROPERTIES
    EvidenceIsKept
    StopEnds
