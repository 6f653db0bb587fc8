CONSTANTS
    IntMax = 32767
    NotANumber = NotANumber
    Lines <- MCLines
    Documents <- MCDocuments
    MaxLines = 3
SPECIFICATION ConsoleFairSpec
INVARIANTS ConsoleTypeOK EndOnlyAfterLastLine NeverDeaf
PROPERTIES EndOfInputEndsDaemon ConfigurationTakenOver
CHECK_DEADLOCK FALSE
