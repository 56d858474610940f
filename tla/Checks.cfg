SPECIFICATION WizardSpec
CONSTANTS
    key = key
    sample = sample
    other = other
    Words <- MCWords
    Detected = {key}
    TooLong = TooLong
    Malformed = Malformed
    Absent = Absent
    Unlike = Unlike
    Home <- MCHome
    Fitting <- MCFitting
    Beginning <- MCBeginning
    Pieces <- MCPieces
    Scenarios <- MCScenarios
    Answers <- MCAnswers
    MaxItems = 2
INVARIANTS
    WizardTypeOK
    Independent
    DenylistCovers
    SecretsFound
    ScannedToTheEnd
    MistakesErr
    RepoByIdentity
    WizardAccepted
CHECK_DEADLOCK FALSE
