CONSTANTS
    Bundle <- MCBundle
    Session <- MCSession
    SessionOf <- MCSessionOf
    Tool = {"command"}
    MaxRecords = 1
    MaxDiskErrors = 0
SPECIFICATION InboxSpec
INVARIANT OneRunPerSession
