CONSTANTS
    IntMax = 127
    MaxTicks = 140
    Ticks = {0, 20, 50}
    Uncounted = FALSE
    ForcedLoads <- MCForcedLoads
    StatReadable = FALSE
SPECIFICATION MeterSpec
INVARIANTS MeterTypeOK LoadOfLastInterval
CHECK_DEADLOCK FALSE
