\* A last cycle, a browser probe, and an interrupted run under its probe, with
\* up to two interrupts, a descendant of a client and of the browser, and a
\* client that outlasts SIGKILL's deadline.
CONSTANTS
    Mode = {"last", "browser", "pause"}
    Helpers = {"p1", "browser-test"}
    Stuck = {"p1"}
    MaxInterrupts = 2
SPECIFICATION Spec
INVARIANTS
    TypeOK
    CleanIsTrue
    ReceiptIsTrue
    ProfilesOutliveClients
PROPERTIES
    RunEnds
CHECK_DEADLOCK FALSE
