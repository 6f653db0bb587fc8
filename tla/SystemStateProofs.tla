-------------------------- MODULE SystemStateProofs --------------------------
(***************************************************************************)
(* What the CPU meter delivers, for every width of int, every number of    *)
(* ticks and every order of events.                                        *)
(***************************************************************************)
EXTENDS SystemState, TLAPS

-----------------------------------------------------------------------------
(* Arithmetic.                                                             *)

(* A number within the range of int is not wrapped. *)
LEMMA WrappedWithin ==
    ASSUME NEW n \in Ints PROVE Wrapped(n) = n
  <1>1. IntMax \in Nat  BY MeterAssumption
  <1> DEFINE m == 2 * (IntMax + 1)
             x == n - IntMin
  <1>2. m \in Nat /\ m > 0 /\ x \in Nat /\ x < m
    BY <1>1 DEF Ints, IntMin
  <1>3. x % m = x
    <2> HIDE DEF m, x
    <2> QED  BY <1>2
  <1> QED  BY <1>1, <1>3 DEF Wrapped, Ints, IntMin

(* A share in percent lies between 0 and 100. *)
LEMMA PercentInRange ==
    ASSUME NEW b \in Nat, NEW s \in Nat, s > 0, b <= s
    PROVE  (100 * b) \div s \in 0..100
  <1> DEFINE q == (100 * b) \div s
             r == (100 * b) % s
  <1>1. q \in Int /\ r \in Int /\ 100 * b = s * q + r /\ 0 <= r /\ r < s
    OBVIOUS
  <1>2. q >= 0
    <2> SUFFICES ASSUME q <= -1 PROVE FALSE  BY <1>1
    <2>1. s * q <= s * (-1)  BY <1>1
    <2> QED  BY <1>1, <2>1
  <1>3. q <= 100
    <2> SUFFICES ASSUME q >= 101 PROVE FALSE  BY <1>1
    <2>1. s * q >= s * 101  BY <1>1
    <2> QED  BY <1>1, <2>1
  <1> QED  BY <1>1, <1>2, <1>3

(* Between two readings that fit an int the meter computes the percentage  *)
(* of busy ticks.                                                          *)
LEMMA LoadSinceIsPercentage ==
    ASSUME NEW from \in Reading, NEW to \in Reading, from # to,
           \A f \in Fields : from[f] <= to[f],
           to["busy"] + to["idle"] <= IntMax
    PROVE  LET b == to["busy"] - from["busy"]
               s == b + (to["idle"] - from["idle"])
           IN  /\ LoadSince(from, to) = {(100 * b) \div s}
               /\ (100 * b) \div s \in 0..100
  <1> DEFINE b == to["busy"] - from["busy"]
             i == to["idle"] - from["idle"]
  <1>1. /\ IntMax \in Nat /\ IntMax >= 100
        /\ to["busy"] \in Nat /\ to["idle"] \in Nat
        /\ from["busy"] \in Nat /\ from["idle"] \in Nat
        /\ from["busy"] <= to["busy"] /\ from["idle"] <= to["idle"]
    BY MeterAssumption DEF Reading, Fields
  <1>2. from["busy"] # to["busy"] \/ from["idle"] # to["idle"]
    BY DEF Reading, Fields
  <1>3. b \in Nat /\ i \in Nat /\ b + i > 0 /\ b + i <= IntMax
    <2>1. b \in Nat /\ i \in Nat
      BY <1>1
    <2>2. b > 0 \/ i > 0
      BY <1>1, <1>2
    <2>3. b <= to["busy"] /\ i <= to["idle"] /\ to["busy"] + to["idle"] <= IntMax
      BY <1>1
    <2> HIDE DEF b, i
    <2> QED  BY <1>1, <2>1, <2>2, <2>3
  <1>4. \A f \in Fields : ToInt(from[f]) = from[f] /\ ToInt(to[f]) = to[f]
    BY <1>1 DEF ToInt, Fields
  <1>5. Wrapped(b) = b /\ Wrapped(i) = i /\ Wrapped(b + i) = b + i
    <2>1. b \in Ints /\ i \in Ints /\ b + i \in Ints
      BY <1>1, <1>3 DEF Ints, IntMin
    <2> QED  BY <2>1, WrappedWithin
  <1>6. LoadSince(from, to) = LoadOf(i, b + i)
    BY <1>4, <1>5 DEF LoadSince, Fields
  <1>7. (100 * b) \div (b + i) \in 0..100
    <2> HIDE DEF b, i
    <2>1. b + i \in Nat /\ b <= b + i
      BY <1>3
    <2> QED  BY <1>3, <2>1, PercentInRange
  <1>8. Truncated(100 * ((b + i) - i), b + i) = (100 * b) \div (b + i)
    <2>1. (b + i) - i = b  BY <1>3
    <2>2. 100 * b >= 0  BY <1>3
    <2> QED  BY <1>3, <2>1, <2>2 DEF Truncated
  <1>9. (100 * b) \div (b + i) \in Ints
    BY <1>1, <1>7 DEF Ints, IntMin
  <1>10. LoadOf(i, b + i) = {(100 * b) \div (b + i)}
    BY <1>3, <1>8, <1>9 DEF LoadOf
  <1> QED  BY <1>6, <1>7, <1>10

-----------------------------------------------------------------------------
(***************************************************************************)
(* The invariant: the kernel only counts upwards, so every reading lies    *)
(* below the counters; and the last delivered value belongs to the span.   *)
(***************************************************************************)
ReadingsBelowCounters ==
    lastRead # NoReading => \A f \in Fields : lastRead[f] <= counters[f]

MeterInv == MeterTypeOK /\ ReadingsBelowCounters /\ LoadOfLastInterval

LEMMA LoadSinceFitsInt ==
    ASSUME NEW from, NEW to PROVE LoadSince(from, to) \subseteq Ints
  <1>1. \A i, s : LoadOf(i, s) \subseteq Ints
    BY MeterAssumption DEF LoadOf, Unrepresentable, Ints, IntMin
  <1> QED  BY <1>1 DEF LoadSince

LEMMA MeterInvInit == MeterInit => MeterInv
  <1> SUFFICES ASSUME MeterInit PROVE MeterInv
    OBVIOUS
  <1>1. MeterTypeOK
    <2>1. NotMeasured \in Ints
      BY MeterAssumption DEF NotMeasured, Ints, IntMin
    <2>2. [f \in Fields |-> 0] \in Reading
      BY DEF Reading
    <2> QED  BY <2>1, <2>2 DEF MeterInit, MeterTypeOK
  <1>2. ReadingsBelowCounters /\ LoadOfLastInterval
    BY DEF MeterInit, ReadingsBelowCounters, LoadOfLastInterval
  <1> QED  BY <1>1, <1>2 DEF MeterInv

LEMMA TypeNext ==
    MeterTypeOK /\ ReadingsBelowCounters /\ [MeterNext]_meterVars => MeterTypeOK'
  <1> SUFFICES ASSUME MeterTypeOK, ReadingsBelowCounters, [MeterNext]_meterVars
               PROVE  MeterTypeOK'
    OBVIOUS
  <1> USE DEF MeterTypeOK
  <1>0. NotMeasured \in Ints /\ Unrepresentable \subseteq Ints
    BY MeterAssumption DEF NotMeasured, Ints, IntMin, Unrepresentable
  <1>1. CASE EnableCPULoadPolling
    BY <1>0, <1>1 DEF EnableCPULoadPolling, kernelVars
  <1>2. CASE DisableCPULoadPolling
    BY <1>2 DEF DisableCPULoadPolling, kernelVars, loadVars, emitVars
  <1>3. CASE EmitCPULoadUpdated
    <2>1. /\ UNCHANGED <<polling, connections, timer, forced, counters>>
          /\ forcedThen' \in {forcedThen, forced}
      BY <1>3 DEF EmitCPULoadUpdated, pollVars, emitVars
    <2>2. CASE Update
      <3>1. timeList' = counters /\ lastRead' = counters /\ crashed' = crashed
        BY <2>2 DEF Update
      <3>2. load' \in Ints
        BY <2>2, <1>0, LoadSinceFitsInt DEF Update
      <3>3. span' \in Reading \cup {NoReading}
        <4>1. CASE timeList = NoReading
          BY <2>2, <4>1 DEF Update
        <4>2. CASE timeList # NoReading
          <5>1. span' = Elapsed(lastRead, counters)
            BY <2>2, <4>2 DEF Update
          <5>2. /\ lastRead \in Reading /\ counters \in Reading
                /\ \A f \in Fields : lastRead[f] <= counters[f]
            BY <4>2 DEF ReadingsBelowCounters
          <5>3. \A f \in Fields : counters[f] - lastRead[f] \in Nat
            BY <5>2 DEF Reading
          <5> QED  BY <5>1, <5>3 DEF Elapsed, Reading
        <4> QED  BY <4>1, <4>2
      <3> QED  BY <2>1, <3>1, <3>2, <3>3
    <2>3. CASE UpdateUnreadable
      BY <1>0, <2>1, <2>3 DEF UpdateUnreadable
    <2> QED  BY <1>3, <2>2, <2>3 DEF EmitCPULoadUpdated
  <1>4. ASSUME NEW forcedValue \in ForcedLoads, ForceValue(forcedValue)
        PROVE  MeterTypeOK'
    BY <1>4 DEF ForceValue, pollVars, emitVars, kernelVars
  <1>5. ASSUME NEW busy \in Ticks, NEW idle \in Ticks, Work(busy, idle)
        PROVE  MeterTypeOK'
    BY <1>5, MeterAssumption DEF Work, pollVars, loadVars, emitVars, Reading, Fields
  <1>6. CASE UNCHANGED meterVars
    BY <1>6 DEF meterVars, pollVars, loadVars, emitVars, kernelVars
  <1> QED  BY <1>1, <1>2, <1>3, <1>4, <1>5, <1>6 DEF MeterNext

LEMMA ReadingsNext ==
    MeterTypeOK /\ ReadingsBelowCounters /\ [MeterNext]_meterVars => ReadingsBelowCounters'
  <1> SUFFICES ASSUME MeterTypeOK, ReadingsBelowCounters, [MeterNext]_meterVars
               PROVE  ReadingsBelowCounters'
    OBVIOUS
  <1> USE DEF ReadingsBelowCounters
  <1>1. CASE UNCHANGED kernelVars
    BY <1>1 DEF kernelVars
  <1>2. CASE EmitCPULoadUpdated
    <2>1. counters' = counters /\ (lastRead' = counters \/ lastRead' = NoReading)
      BY <1>2 DEF EmitCPULoadUpdated, Update, UpdateUnreadable
    <2>2. \A f \in Fields : counters[f] \in Nat
      BY DEF MeterTypeOK, Reading
    <2> QED  BY <2>1, <2>2
  <1>3. ASSUME NEW busy \in Ticks, NEW idle \in Ticks, Work(busy, idle)
        PROVE  ReadingsBelowCounters'
    <2>1. lastRead' = lastRead /\ lastRead \in Reading \cup {NoReading}
      BY <1>3 DEF Work, MeterTypeOK
    <2>2. busy \in Nat /\ idle \in Nat
      BY MeterAssumption
    <2>3. \A f \in Fields : counters[f] <= counters'[f]
      BY <1>3, <2>2 DEF Work, MeterTypeOK, Reading, Fields
    <2>4. /\ \A f \in Fields : counters[f] \in Nat /\ counters'[f] \in Nat
          /\ lastRead # NoReading => \A f \in Fields : lastRead[f] \in Nat
      BY <1>3, <2>1, <2>2 DEF Work, MeterTypeOK, Reading, Fields
    <2> QED  BY <2>1, <2>3, <2>4
  <1> QED
    BY <1>1, <1>2, <1>3
    DEF MeterNext, EnableCPULoadPolling, DisableCPULoadPolling, ForceValue, meterVars,
        kernelVars

(* A reading that finds a reading to compare with computes the percentage. *)
LEMMA UpdateMeasures ==
    ASSUME MeterInv, Update, timeList # NoReading, counters # lastRead, CountersFit
    PROVE  LET s == span'["busy"] + span'["idle"]
           IN  load' = (100 * span'["busy"]) \div s /\ load' \in 0..100
  <1>1. /\ timeList = lastRead /\ lastRead \in Reading /\ counters \in Reading
        /\ \A f \in Fields : lastRead[f] <= counters[f]
    BY DEF MeterInv, MeterTypeOK, ReadingsBelowCounters
  <1>2. span' = Elapsed(lastRead, counters) /\ load' \in LoadSince(lastRead, counters)
    BY <1>1 DEF Update
  <1>3. /\ span'["busy"] = counters["busy"] - lastRead["busy"]
        /\ span'["idle"] = counters["idle"] - lastRead["idle"]
    BY <1>2 DEF Elapsed, Fields
  <1> QED  BY <1>1, <1>2, <1>3, LoadSinceIsPercentage DEF CountersFit

LEMMA ValueNext ==
    ~Uncounted /\ MeterInv /\ [MeterNext]_meterVars => LoadOfLastInterval'
  <1> SUFFICES ASSUME ~Uncounted, MeterInv, [MeterNext]_meterVars
               PROVE  LoadOfLastInterval'
    OBVIOUS
  <1>0. LoadOfLastInterval /\ MeterTypeOK
    BY DEF MeterInv
  <1>1. CASE EnableCPULoadPolling
    BY <1>1 DEF EnableCPULoadPolling, LoadOfLastInterval
  <1>2. CASE DisableCPULoadPolling
    BY <1>0, <1>2
    DEF DisableCPULoadPolling, LoadOfLastInterval, CountersFit, kernelVars, emitVars
  <1>3. CASE EmitCPULoadUpdated
    <2> DEFINE Delivers == ~crashed' /\ GetValue(load') # NotMeasured
    <2>1. /\ ~Uncounted => counters # lastRead
          /\ UNCHANGED <<forced, counters>>
          /\ ~Delivers => emitted' = emitted /\ forcedThen' = forcedThen
          /\ Delivers => emitted' = GetValue(load') /\ forcedThen' = forced
          /\ ~crashed
      BY <1>3 DEF EmitCPULoadUpdated, emitVars
    <2>2. emitted' # NotMeasured /\ forcedThen' > -1 => emitted' = forcedThen'
      BY <1>0, <2>1 DEF LoadOfLastInterval, GetValue
    <2>3. CASE Update /\ timeList # NoReading /\ CountersFit
      <3>1. /\ load' = (100 * span'["busy"]) \div (span'["busy"] + span'["idle"])
            /\ load' \in 0..100
        BY <2>1, <2>3, UpdateMeasures
      <3>2. ~crashed'
        BY <2>1, <2>3 DEF Update
      <3>3. /\ GetValue(load') # NotMeasured
            /\ ~(forced > -1) => GetValue(load') = load'
        BY <3>1 DEF GetValue, NotMeasured
      <3>4. forcedThen' = forced /\ (~(forced > -1) => emitted' = load')
        BY <2>1, <3>2, <3>3
      <3> QED  BY <2>2, <3>1, <3>4 DEF LoadOfLastInterval
    <2>4. CASE span' = NoReading \/ ~CountersFit
      <3>1. span' = NoReading \/ ~CountersFit'
        BY <2>1, <2>4 DEF CountersFit
      <3> QED  BY <2>2, <3>1 DEF LoadOfLastInterval
    <2>5. Update /\ timeList = NoReading => span' = NoReading
      BY DEF Update
    <2>6. UpdateUnreadable => span' = NoReading
      BY DEF UpdateUnreadable
    <2> QED  BY <1>3, <2>3, <2>4, <2>5, <2>6 DEF EmitCPULoadUpdated
  <1>4. ASSUME NEW forcedValue \in ForcedLoads, ForceValue(forcedValue)
        PROVE  LoadOfLastInterval'
    BY <1>0, <1>4 DEF ForceValue, LoadOfLastInterval, CountersFit, kernelVars, emitVars
  <1>5. ASSUME NEW busy \in Ticks, NEW idle \in Ticks, Work(busy, idle)
        PROVE  LoadOfLastInterval'
    <2>1. CountersFit' => CountersFit
      BY <1>0, <1>5, MeterAssumption DEF Work, CountersFit, MeterTypeOK, Reading, Fields
    <2>2. UNCHANGED <<emitted, forcedThen, span>>
      BY <1>5 DEF Work, emitVars
    <2> QED  BY <1>0, <2>1, <2>2 DEF LoadOfLastInterval
  <1>6. CASE UNCHANGED meterVars
    BY <1>0, <1>6 DEF meterVars, emitVars, kernelVars, LoadOfLastInterval, CountersFit
  <1> QED  BY <1>1, <1>2, <1>3, <1>4, <1>5, <1>6 DEF MeterNext

-----------------------------------------------------------------------------
MeterShape == MeterTypeOK /\ ReadingsBelowCounters

(* The meter keeps its shape, polling is on exactly while the timer runs   *)
(* and its timeout is connected once, in whatever order polling is         *)
(* switched on and off (enableCPULoadPolling).                             *)
THEOREM MeterTypeCorrect == MeterSpec => []MeterTypeOK
  <1>1. MeterInit => MeterShape
    BY MeterInvInit DEF MeterInv, MeterShape
  <1>2. MeterShape /\ [MeterNext]_meterVars => MeterShape'
    BY TypeNext, ReadingsNext DEF MeterShape
  <1>3. MeterShape => MeterTypeOK
    BY DEF MeterShape
  <1> QED  BY <1>1, <1>2, <1>3, PTL DEF MeterSpec

(* If every interval of the timer is counted, a load that is delivered     *)
(* while none is forced is the percentage of busy ticks since the reading  *)
(* before, however often a load was forced and taken back in the meantime  *)
(* (CPULoad::update, CPULoad::forceValue).                                 *)
THEOREM MeterMeasuresLastInterval ==
    ASSUME ~Uncounted PROVE MeterSpec => []LoadOfLastInterval
  <1>1. MeterInv /\ [MeterNext]_meterVars => MeterInv'
    <2> SUFFICES ASSUME MeterInv, [MeterNext]_meterVars PROVE MeterInv'
      OBVIOUS
    <2>1. MeterTypeOK' /\ ReadingsBelowCounters'
      BY TypeNext, ReadingsNext DEF MeterInv
    <2>2. LoadOfLastInterval'
      BY ValueNext
    <2> QED  BY <2>1, <2>2 DEF MeterInv
  <1>2. MeterInv => LoadOfLastInterval
    BY DEF MeterInv
  <1> QED  BY <1>1, <1>2, MeterInvInit, PTL DEF MeterSpec

RangeInv ==
    /\ MeterShape
    /\ \A f \in Fields : counters[f] <= MaxTicks
    /\ LoadInRange

(* The range that the comment of getValue claims is kept under three       *)
(* conditions the code does not check: every interval of the timer is      *)
(* counted, /proc/stat can be read, and the counters fit an int.           *)
THEOREM LoadStaysInRange ==
    ASSUME ~Uncounted, StatReadable, 2 * MaxTicks <= IntMax
    PROVE  MeterSpec => []LoadInRange
  <1>1. MeterInit => RangeInv
    <2> SUFFICES ASSUME MeterInit PROVE RangeInv
      OBVIOUS
    <2>1. MeterShape
      BY MeterInvInit DEF MeterInv, MeterShape
    <2>2. \A f \in Fields : counters[f] <= MaxTicks
      BY MeterAssumption DEF MeterInit
    <2>3. LoadInRange
      BY DEF MeterInit, LoadInRange, NotMeasured
    <2> QED  BY <2>1, <2>2, <2>3 DEF RangeInv
  <1>2. RangeInv /\ [MeterNext]_meterVars => RangeInv'
    <2> SUFFICES ASSUME RangeInv, [MeterNext]_meterVars PROVE RangeInv'
      OBVIOUS
    <2>1. MeterShape'
      BY TypeNext, ReadingsNext DEF RangeInv, MeterShape
    <2>2. \A f \in Fields : counters'[f] <= MaxTicks
      BY DEF RangeInv, MeterNext, meterVars, kernelVars, EnableCPULoadPolling,
             DisableCPULoadPolling, EmitCPULoadUpdated, ForceValue, Work
    <2>3. LoadInRange'
      <3>0. LoadInRange /\ NotMeasured \in NotMeasured..100
        BY DEF RangeInv, NotMeasured
      <3>1. CASE UNCHANGED load
        BY <3>0, <3>1 DEF LoadInRange
      <3>2. CASE EnableCPULoadPolling
        BY <3>0, <3>2 DEF EnableCPULoadPolling, LoadInRange
      <3>3. CASE EmitCPULoadUpdated
        <4>1. Update /\ counters # lastRead
          BY <3>3 DEF EmitCPULoadUpdated, UpdateUnreadable
        <4>2. CASE timeList = NoReading
          BY <3>0, <4>1, <4>2 DEF Update, LoadInRange
        <4>3. CASE timeList # NoReading
          <5>1. /\ timeList = lastRead /\ lastRead \in Reading /\ counters \in Reading
                /\ \A f \in Fields : lastRead[f] <= counters[f]
            BY <4>3 DEF RangeInv, MeterShape, MeterTypeOK, ReadingsBelowCounters
          <5>2. counters["busy"] + counters["idle"] <= IntMax
            BY <5>1, MeterAssumption DEF RangeInv, Reading, Fields
          <5>3. load' \in LoadSince(lastRead, counters)
            BY <4>1, <4>3, <5>1 DEF Update
          <5>4. load' \in 0..100
            BY <4>1, <5>1, <5>2, <5>3, LoadSinceIsPercentage
          <5> QED  BY <5>4 DEF LoadInRange, NotMeasured
        <4> QED  BY <4>2, <4>3
      <3> QED
        BY <3>1, <3>2, <3>3
        DEF MeterNext, meterVars, loadVars, DisableCPULoadPolling, ForceValue, Work
    <2> QED  BY <2>1, <2>2, <2>3 DEF RangeInv
  <1>3. RangeInv => LoadInRange
    BY DEF RangeInv
  <1> QED  BY <1>1, <1>2, <1>3, PTL DEF MeterSpec
=============================================================================
