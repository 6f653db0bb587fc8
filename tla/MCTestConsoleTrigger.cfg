CONSTANTS
    IntMax = 32767
    NotANumber = NotANumber
    Lines <- MCLines
    Documents <- MCDocuments
    MaxLines = 3
SPECIFICATION ConsoleSpec
PROPERTIES TriggerOverrides
CHECK_DEADLOCK FALSE
