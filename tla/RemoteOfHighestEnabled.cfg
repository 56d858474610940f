SPECIFICATION Spec
CONSTANTS
    a = a
    b = b
    RuleIds = {a, b}
    NoId = NoId
    NoFile = NoFile
    NoEntry = NoEntry
    DiskSpace <- Disks
CHECK_DEADLOCK FALSE
INVARIANT RemoteOfHighestEnabled
