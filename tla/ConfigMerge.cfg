SPECIFICATION Spec
CONSTANTS
    a = a
    b = b
    RuleIds = {a, b}
    NoId = NoId
    NoFile = NoFile
    NoEntry = NoEntry
    DiskSpace <- Disks
INVARIANTS
    TypeOK
    NotWeakened
    FirstDecides
    ConflictsExact
    RulesFromFiles
    UserRulesBind
    SettingsByAuthority
CHECK_DEADLOCK FALSE
