CONSTANTS
    mail = mail
    game = game
    radio = radio
    clock = clock
    lamp = lamp
    p1 = p1
    p2 = p2
    noPid = noPid
    Apps = {mail}
    Outsiders = {game, radio, clock, lamp}
    AllowedLazyShutdown = {radio, clock}
    Nameless = {clock}
    Protected = {lamp}
    Pids = {p1, p2}
    NoPid = noPid
    Priority <- MCPriority
    CpuLoadThreshold <- MCThreshold
    RePrestartTrigger <- MCTrigger
    ForcedRePrestartNotAllowed <- MCNotAllowed
    Loads = {}
    TestMode = FALSE
    QuietStartup = TRUE
    PidsReused = FALSE
    MaxReleases <- MCOneRelease
    MaxQueued <- MCQueued
    MaxPending = 2
SPECIFICATION FairSystemSpec
CHECK_DEADLOCK FALSE
INVARIANTS LazyShutdownReported
PROPERTIES OnlyLazyProgramsPoliced LazyShutdownPoliced
