SPECIFICATION Spec
CONSTANTS
    Calls = {c1}
    a = a
    b = b
    Ids = {a, b}
    Tokens = {t1}
    NoToken = NoToken
    Policies <- MCPolicies
    Timeouts = {1, 3, 4}
    ServerDeadline = 2
    WriteTimeout = 3
    CheckTimeout = 2
    MaxAge = 4
    MaxRestarts = 1
INVARIANTS
    TypeOK
    AnswerComplete
    ErrorHasCause
    VerdictsLogged
    DenyFailsClosed
PROPERTIES
    CallsEnd
    HandlersEnd
CHECK_DEADLOCK FALSE
