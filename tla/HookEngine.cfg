SPECIFICATION Spec
CONSTANTS
    Rules = {r1, r2, r3}
    Tools = {Bash}
    AnyTool = AnyTool
    NoTool = NoTool
    NoRule = NoRule
    Policies <- MCPolicies
    Deadline = 2
    CheckTimeout = 3
    MaxDuration = 3
INVARIANTS
    TypeOK
    FailClosed
    NoSpuriousBlock
    UrgentFirst
    ReportInOrder
PROPERTIES
    ImplementsDecision
    EveryRuleChecked
    LateChecks
    Terminates
CHECK_DEADLOCK FALSE
