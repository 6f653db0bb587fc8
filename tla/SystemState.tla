----------------------------- MODULE SystemState -----------------------------
(***************************************************************************)
(* The CPU meter: SystemState's polling of CPULoad (src/systemstate.cpp,   *)
(* src/cpuload.cpp).  The module is open: polling may be switched on and   *)
(* off at any time, the kernel counts ticks at any time, and the load may  *)
(* be forced to a value from the test console.                             *)
(*                                                                         *)
(* The fields user, nice and system of /proc/stat are one counter here,    *)
(* "busy".  Time the kernel counts elsewhere (iowait, interrupts) appears  *)
(* in neither counter, as in the code, which reads no other field.         *)
(***************************************************************************)
EXTENDS Integers

CONSTANTS
    IntMax,       \* largest int
    MaxTicks,     \* bound on the counters of the kernel
    Ticks,        \* how far a counter may advance between two events
    Uncounted,    \* an interval may pass in neither counter
    ForcedLoads,  \* values of CPU_LOAD= on the test console; -1 takes one back
    StatReadable  \* /proc/stat can always be opened

ASSUME MeterAssumption ==
    /\ IntMax \in Nat /\ IntMax >= 100
    /\ MaxTicks \in Nat
    /\ Ticks \subseteq Nat
    /\ Uncounted \in BOOLEAN
    /\ ForcedLoads \subseteq -IntMax - 1..IntMax
    /\ StatReadable \in BOOLEAN

VARIABLES
    polling,      \* m_cpuLoadPollingEnabled
    connections,  \* how often the timeout is connected to emitCPULoadUpdated
    timer,        \* m_pollTimer.isActive()
    timeList,     \* m_timeList
    load,         \* m_load of CPULoad
    forced,       \* m_forcedLoad, shared by all meters
    emitted,      \* the value of the last cpuLoadUpdated since polling began
    forcedThen,   \* history: m_forcedLoad when that value was delivered
    counters,     \* the counters of the kernel
    lastRead,     \* history: the counters when /proc/stat was last read
    span,         \* history: the ticks between the last two readings
    crashed       \* the program ended in undefined behaviour

pollVars == <<polling, connections, timer>>
loadVars == <<timeList, load, forced>>
kernelVars == <<counters, lastRead, span>>
emitVars == <<emitted, forcedThen>>
meterVars == <<pollVars, loadVars, emitVars, kernelVars, crashed>>

Fields == {"busy", "idle"}
Reading == [Fields -> Nat]
NoReading == [f \in {} |-> 0]   \* the empty TimeList
NotMeasured == -1
IntMin == -IntMax - 1
Ints == IntMin..IntMax

MeterInit ==
    /\ polling = FALSE
    /\ connections = 0
    /\ timer = FALSE
    /\ timeList = NoReading
    /\ load = NotMeasured
    /\ forced = NotMeasured
    /\ emitted = NotMeasured
    /\ forcedThen = NotMeasured
    /\ counters = [f \in Fields |-> 0]
    /\ lastRead = NoReading
    /\ span = NoReading
    /\ crashed = FALSE

-----------------------------------------------------------------------------
(* QByteArray::toInt(): a number too large for an int is read as 0. *)
ToInt(n) == IF n <= IntMax THEN n ELSE 0

(* int arithmetic *)
Wrapped(n) == ((n - IntMin) % (2 * (IntMax + 1))) + IntMin

(* Division of Ints rounding towards zero, as a double becomes an int. *)
Truncated(n, d) ==
    LET num == IF d > 0 THEN n ELSE -n
        den == IF d > 0 THEN d ELSE -d
    IN  IF num >= 0 THEN num \div den ELSE -((-num) \div den)

(* What a double that is not a number or does not fit becomes as an int:   *)
(* undefined in C++; x86 gives the least int, ARM 0 or the nearest int.    *)
Unrepresentable == {IntMin, 0, IntMax}

(* The value of 100.0 - (100.0 * idle / sum) as an int. *)
LoadOf(idle, sum) ==
    IF sum # 0 /\ Truncated(100 * (sum - idle), sum) \in Ints
    THEN {Truncated(100 * (sum - idle), sum)}
    ELSE Unrepresentable

LoadSince(from, to) ==
    LET delta(f) == Wrapped(ToInt(to[f]) - ToInt(from[f]))
    IN  LoadOf(delta("idle"), Wrapped(delta("busy") + delta("idle")))

Elapsed(from, to) == [f \in Fields |-> to[f] - from[f]]

-----------------------------------------------------------------------------
(* The forced value counts if it is not negative. *)
GetValue(measured) == IF forced > -1 THEN forced ELSE measured

(* Mutant: the reading is not kept, so the load is that of the whole time. *)
UpdateKeepingFirst ==
    LET v == counters IN
    /\ lastRead' = v
    /\ timeList' = IF timeList = NoReading THEN v ELSE timeList
    /\ IF timeList = NoReading
       THEN load' = NotMeasured /\ span' = NoReading
       ELSE /\ span' = Elapsed(lastRead, v)
            /\ load' \in LoadSince(timeList, v)
    /\ UNCHANGED crashed

(* CPULoad::update with a readable /proc/stat *)
Update ==
    LET v == counters IN
    /\ lastRead' = v
    /\ timeList' = v
    /\ IF timeList = NoReading
       THEN load' = NotMeasured /\ span' = NoReading
       ELSE /\ span' = Elapsed(lastRead, v)
            /\ load' \in LoadSince(timeList, v)
    /\ UNCHANGED crashed

(* CPULoad::update when /proc/stat cannot be opened: field 5 of the empty  *)
(* list is read if there is a reading to compare with.                     *)
UpdateUnreadable ==
    /\ ~StatReadable
    /\ timeList' = NoReading
    /\ lastRead' = NoReading
    /\ span' = NoReading
    /\ \/ timeList = NoReading /\ load' = NotMeasured /\ UNCHANGED crashed
       \/ timeList # NoReading /\ load' \in Unrepresentable /\ UNCHANGED crashed
       \/ timeList # NoReading /\ crashed' = TRUE /\ UNCHANGED load

(* SystemState::emitCPULoadUpdated, connected to the timer once. *)
EmitCPULoadUpdated ==
    /\ ~crashed
    /\ timer /\ connections = 1
    /\ Uncounted \/ counters # lastRead   \* the interval of the timer
    /\ Update \/ UpdateUnreadable
    /\ IF crashed' \/ GetValue(load') = NotMeasured
       THEN UNCHANGED emitVars
       ELSE emitted' = GetValue(load') /\ forcedThen' = forced
    /\ UNCHANGED <<pollVars, forced, counters>>

-----------------------------------------------------------------------------
(* Mutant: polling that is on is switched on again. *)
EnableCPULoadPollingAgain ==
    /\ ~crashed
    /\ connections' = connections + 1
    /\ load' = NotMeasured
    /\ timer' = TRUE
    /\ polling' = TRUE
    /\ emitted' = NotMeasured
    /\ UNCHANGED <<timeList, forced, forcedThen, kernelVars, crashed>>

(* enableCPULoadPolling(true); when polling is on it does nothing. *)
EnableCPULoadPolling ==
    /\ ~crashed
    /\ ~polling
    /\ connections' = connections + 1
    /\ load' = NotMeasured
    /\ timer' = TRUE
    /\ polling' = TRUE
    /\ emitted' = NotMeasured
    /\ UNCHANGED <<timeList, forced, forcedThen, kernelVars, crashed>>

DisableCPULoadPolling ==
    /\ ~crashed
    /\ connections' = 0
    /\ timer' = FALSE
    /\ polling' = FALSE
    /\ UNCHANGED <<loadVars, emitVars, kernelVars, crashed>>

ForceValue(forcedValue) ==
    /\ ~crashed
    /\ forced' = forcedValue
    /\ UNCHANGED <<pollVars, timeList, load, emitVars, kernelVars, crashed>>

(* The kernel counts. *)
Work(busy, idle) ==
    /\ counters' = [counters EXCEPT !["busy"] = @ + busy, !["idle"] = @ + idle]
    /\ \A f \in Fields : counters'[f] <= MaxTicks
    /\ UNCHANGED <<pollVars, loadVars, emitVars, lastRead, span, crashed>>

MeterNext ==
    \/ EnableCPULoadPolling
    \/ DisableCPULoadPolling
    \/ EmitCPULoadUpdated
    \/ \E forcedValue \in ForcedLoads : ForceValue(forcedValue)
    \/ \E busy, idle \in Ticks : Work(busy, idle)

MeterSpec == MeterInit /\ [][MeterNext]_meterVars

-----------------------------------------------------------------------------
(* The state of the meter keeps its shape; polling is on exactly while the *)
(* timer runs and its timeout is connected once (enableCPULoadPolling).    *)
MeterTypeOK ==
    /\ polling \in BOOLEAN /\ timer \in BOOLEAN /\ crashed \in BOOLEAN
    /\ load \in Ints /\ {forced, forcedThen} \subseteq ForcedLoads \cup {NotMeasured}
    /\ counters \in Reading
    /\ timeList \in Reading \cup {NoReading}
    /\ lastRead = timeList
    /\ span \in Reading \cup {NoReading}
    /\ timer = polling
    /\ connections = IF polling THEN 1 ELSE 0

(* A load that is delivered while none is forced is the share of the busy  *)
(* ticks between the last two readings, rounded towards zero, while all    *)
(* the ticks counted so far fit an int: /proc/stat is read on while a load *)
(* is forced, so that the first load after it is taken back is measured    *)
(* over the last interval and not since the forcing.  A load delivered     *)
(* while one is forced is the forced one (CPULoad::update, forceValue).    *)
CountersFit == counters["busy"] + counters["idle"] <= IntMax

LoadOfLastInterval ==
    emitted # NotMeasured =>
        IF forcedThen > -1 THEN emitted = forcedThen
        ELSE span # NoReading /\ CountersFit =>
                 emitted = (100 * span["busy"]) \div (span["busy"] + span["idle"])

(* The value of the load is in the range of 0 to 100, or it is -1 and is   *)
(* not delivered (cpuload.h, CPULoad::getValue).                           *)
LoadInRange == load \in NotMeasured..100
=============================================================================
