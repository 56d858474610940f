SPECIFICATION WizardSpec
CONSTANTS
    key = key
    sample = sample
    other = other
    Words <- MCWords
    Detected = {key}
    TooLong = TooLong
    Malformed = Malformed
    Absent = Absent
    Unlike = Unlike
    Home <- MCHome
    Fitting <- MCFitting
    Beginning <- MCBeginning
    Pieces <- MCPieces
    Scenarios <- MCScenarios
    Answers <- MCAnswers
    MaxItems = 2
INVARIANT
    WithinProjectAllowed
CHECK_DEADLOCK FALSE
