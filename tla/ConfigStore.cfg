SPECIFICATION Spec
CONSTANTS
    a = a
    one = one
    NoId = NoId
    RuleIds = {a, one}
    Procs = {p1}
    Numeral <- NumeralOf
    RuleSpace <- Addable
    ShippedRules <- Shipped
    Behaviors <- TwoBehaviors
    InitialFiles <- Initial
    MaxRules = 2
INVARIANTS
    TypeOK
    UnloadableForCause
    BackedUp
    CommittedKept
PROPERTIES
    OneChangeAtATime
