CONSTANTS
    Instances = {i1, i2}
    Arguments <- MCArguments
    NoProcess = NoProcess
    ClosedStdio = FALSE
SPECIFICATION StartupFairSpec
INVARIANTS StartupTypeOK AtMostOneDaemon
PROPERTY TermHonoured
CHECK_DEADLOCK FALSE
