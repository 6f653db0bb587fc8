CONSTANTS
    mail = mail
    maps = maps
    p1 = p1
    noPid = noPid
    Apps = {mail, maps}
    Pids = {p1}
    NoPid = noPid
    Priority <- MCPriority
    CpuLoadThreshold <- MCThreshold
    RePrestartTrigger <- MCTrigger
    ForcedRePrestartNotAllowed <- MCNotAllowed
    Loads <- MCLoads
    TestMode = TRUE
    MaxReleases <- MCReleases
    MaxQueued <- MCQueued
SPECIFICATION FairSpec
INVARIANTS TypeOK QueueServed RePrestartJustified SignalsAccounted TimerOnlyWhileBlank
PROPERTIES SignalledOnlyBehindBlankScreen OnlyShownAppsComeBack ServedInTurn
           LifecycleSpec MostImportantServed QueueDrains ForcedRePrestartCarriedOut
CHECK_DEADLOCK FALSE
