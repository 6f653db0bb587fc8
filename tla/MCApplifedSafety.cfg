CONSTANTS
    mail = mail
    game = game
    radio = radio
    clock = clock
    lamp = lamp
    p1 = p1
    p2 = p2
    noPid = noPid
    Apps = {mail}
    Outsiders = {}
    AllowedLazyShutdown = {}
    Nameless = {}
    Protected = {}
    Pids = {p1, p2}
    NoPid = noPid
    Priority <- MCPriority
    CpuLoadThreshold <- MCThreshold
    RePrestartTrigger <- MCEagerTrigger
    ForcedRePrestartNotAllowed <- MCNotAllowed
    Loads = {10}
    TestMode = FALSE
    QuietStartup = TRUE
    PidsReused = TRUE
    MaxReleases <- MCOneRelease
    MaxQueued <- MCQueued
    MaxPending = 2
SPECIFICATION SystemSpec
CHECK_DEADLOCK FALSE
SYMMETRY PidSymmetry
INVARIANTS SystemTypeOK BusViewConverges
PROPERTIES TerminationReachesAll
