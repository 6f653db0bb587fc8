CONSTANTS
    IntMax = 127
    MaxTicks = 100
    Ticks = {0, 20, 50}
    Uncounted = TRUE
    ForcedLoads <- MCForcedLoads
    StatReadable = TRUE
SPECIFICATION MeterSpec
INVARIANTS LoadInRange
CHECK_DEADLOCK FALSE
