CONSTANTS
    mail = mail
    game = game
    radio = radio
    clock = clock
    lamp = lamp
    p1 = p1
    p2 = p2
    noPid = noPid
    Apps = {mail}
    Outsiders = {}
    AllowedLazyShutdown = {}
    Nameless = {}
    Protected = {}
    Pids = {p1, p2}
    NoPid = noPid
    Priority <- MCPriority
    CpuLoadThreshold <- MCThreshold
    RePrestartTrigger <- MCEagerTrigger
    ForcedRePrestartNotAllowed <- MCNotAllowed
    Loads = {10}
    TestMode = FALSE
    QuietStartup = TRUE
    PidsReused = FALSE
    MaxReleases <- MCOneRelease
    MaxQueued <- MCQueued
    MaxPending = 2
SPECIFICATION FairSystemSpec
CHECK_DEADLOCK FALSE
PROPERTIES ReleasedAppComesBack PrestarterSpec
