SPECIFICATION Spec
CONSTANTS
    a = a
    b = b
    nl = nl
    NoFile = NoFile
    Words <- MCWords
    Nl = nl
    Inputs <- MCInputs
    Files <- MCFiles
    MaxHistory = 1
    MaxLen = 5
    MaxEdits = 2
    Cuts = {0}
PROPERTIES
    InsertsGoAfterLine
