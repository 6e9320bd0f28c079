\* A command-line replay that is interrupted.
CONSTANTS
    Bundle <- MCBundle
    Session <- MCSession
    SessionOf <- MCSessionOf
    Mode = {"replay"}
    Tool = {"command", "report"}
    AppTool = "report"
    MaxRecords = 2
    MaxDiskErrors = 1
    MaxDeaths = 0
    MaxTrouble = 2
SPECIFICATION Spec
INVARIANT DolphinIsStopped
\* The application that a signal ends is not started again here.
CHECK_DEADLOCK FALSE
