SPECIFICATION Spec
CONSTANTS
    Rules = {r1, r2}
    Tools = {Bash}
    AnyTool = AnyTool
    NoTool = NoTool
    NoRule = NoRule
    Policies <- NarrowPolicies
    Deadline = 2
    CheckTimeout = 3
    MaxDuration = 2
CHECK_DEADLOCK FALSE
INVARIANT WarningsShown
