--------------------------- MODULE ApplifedProofs ---------------------------
(***************************************************************************)
(* Proofs about Applifed: the composed system keeps the shape its type     *)
(* invariant describes, and implements the open module Prestarter, so that *)
(* every safety theorem of PrestarterProofs holds of it as well.           *)
(***************************************************************************)
EXTENDS Applifed, PrestarterProofs, SequenceTheorems

(***************************************************************************)
(* The inductive invariant adds what the type invariant leaves unsaid:     *)
(* only a process has window events, and no application is known before    *)
(* the prestarts start.                                                    *)
(***************************************************************************)
EventsOfProcesses == \A i \in 1..Len(xEvents) : program[xEvents[i].pid] # Nothing
NothingKnownYet == state = "Init" => vectApps = {}
SystemInv == SystemTypeOK /\ EventsOfProcesses /\ NothingKnownYet

(* The answer to servicePid is the owner if there is one.                  *)
LEMMA OwnerPidType ==
  ASSUME ProcessesOK, NEW a
  PROVE  /\ OwnerPid(a) \in Pids \cup {NoPid}
         /\ OwnerPid(a) # NoPid => OwnerPid(a) \in onBus /\ program[OwnerPid(a)] = a
         /\ OwnerPid(a) = NoPid => \A p \in onBus : program[p] # a
  <1>1. CASE \E p \in onBus : program[p] = a
    BY <1>1, NoPidAssumption DEF OwnerPid, ProcessesOK
  <1>2. CASE ~(\E p \in onBus : program[p] = a)
    BY <1>2 DEF OwnerPid
  <1>3. QED
    BY <1>1, <1>2

(***************************************************************************)
(* Queues.                                                                 *)
(***************************************************************************)

(* A notification keeps the type of the bus queue.                         *)
LEMMA NotifyType ==
  ASSUME bus \in Seq(BusMessage), NEW a \in Apps,
         NEW event \in {"registered", "unregistered"}, NEW wasShown \in BOOLEAN,
         Notify(a, event, wasShown)
  PROVE  bus' \in Seq(BusMessage)
  <1>1. [app |-> a, event |-> event, wasShown |-> wasShown] \in BusMessage
    BY DEF BusMessage
  <1>2. QED
    BY <1>1, AppendProperties DEF Notify

(* A window event keeps the type of its queue and adds itself at the end.  *)
LEMMA PostXEventType ==
  ASSUME xEvents \in Seq(XEvent), NEW p \in Pids, NEW event \in {"map", "unmap"},
         PostXEvent(p, event)
  PROVE  /\ xEvents' \in Seq(XEvent)
         /\ \A i \in 1..Len(xEvents') :
              \/ i \in 1..Len(xEvents) /\ xEvents'[i] = xEvents[i]
              \/ xEvents'[i].pid = p
  <1> DEFINE e == [pid |-> p, event |-> event]
  <1>1. e \in XEvent
    BY DEF XEvent
  <1>2. xEvents' = Append(xEvents, e)
    BY DEF PostXEvent
  <1>3. /\ Append(xEvents, e) \in Seq(XEvent)
        /\ Len(Append(xEvents, e)) = Len(xEvents) + 1
        /\ \A i \in 1..Len(xEvents) : Append(xEvents, e)[i] = xEvents[i]
        /\ Append(xEvents, e)[Len(xEvents) + 1] = e
    BY <1>1, AppendProperties
  <1>4. e.pid = p
    OBVIOUS
  <1> HIDE DEF e
  <1>5. Len(xEvents) \in Nat
    BY LenProperties
  <1>6. QED
    BY <1>2, <1>3, <1>4, <1>5

(* Taking the head of a queue keeps its type, and every element left was   *)
(* there before.                                                           *)
LEMMA HeadAndTail ==
  ASSUME NEW S, NEW q \in Seq(S), q # <<>>
  PROVE  /\ Head(q) \in S /\ Tail(q) \in Seq(S)
         /\ 1 \in 1..Len(q) /\ Head(q) = q[1]
         /\ \A i \in 1..Len(Tail(q)) : i + 1 \in 1..Len(q) /\ Tail(q)[i] = q[i + 1]
  <1>1. Len(q) \in Nat \ {0}
    BY EmptySeq
  <1>2. /\ Head(q) \in S /\ Tail(q) \in Seq(S) /\ Len(Tail(q)) = Len(q) - 1
        /\ \A i \in 1..Len(Tail(q)) : Tail(q)[i] = q[i + 1]
    BY HeadTailProperties
  <1>3. Head(q) = q[1]
    OBVIOUS
  <1>4. QED
    BY <1>1, <1>2, <1>3

(***************************************************************************)
(* Every step of the composed system is a step of Prestarter or leaves its *)
(* variables alone, and the daemon starts up in order.                     *)
(***************************************************************************)

(* What a step may do to the state machine and to the known applications:  *)
(* the slots are called after the start-up only, and nobody returns to it. *)
StartupOrder ==
  /\ state' = "Init" => state = "Init" /\ vectApps' = vectApps
  /\ state = "Init" => state' = "Init" \/ watched = Apps

(* While a slot waits for the X server, no other slot runs. *)
SlotOrder == Idle \/ Idle' \/ UNCHANGED <<apps, vectApps, running, state>>

PrestarterStep == (Step \/ UNCHANGED vars) /\ StartupOrder /\ SlotOrder

(* Outside the test mode no slot runs during the start-up, and the machine *)
(* never returns to its initial state.                                     *)
LEMMA RunStateLeavesInit ==
  ASSUME NEW ap, NEW q, NEW ld, RunState(ap, q, ld)
  PROVE  state' # "Init"
  BY DEF RunState, StateWaitForPrestart, StateWaitForCPU

LEMMA EnvironmentStepOnly ==
  ASSUME UNCHANGED vars
  PROVE  PrestarterStep
  BY DEF PrestarterStep, StartupOrder, SlotOrder, vars, machineVars

LEMMA SlotStep ==
  ASSUME Listening, Idle \/ Idle', Step, vectApps' = vectApps,
         state' # "Init" \/ state' = state
  PROVE  PrestarterStep
  BY ProgramsAssumption DEF PrestarterStep, StartupOrder, SlotOrder, Listening

LEMMA StartPrestartsStep ==
  ASSUME SystemInv, StartPrestarts
  PROVE  PrestarterStep
  <1>1. state = "Init" /\ watched = Apps /\ vectApps = {}
    BY ProgramsAssumption DEF StartPrestarts, RunPrestarts, SystemInv, NothingKnownYet
  <1>2. DOMAIN answers = Apps
    BY <1>1 DEF SystemInv, SystemTypeOK, StartupOK
  <1>3. Apps \in SUBSET (Apps \ vectApps) /\ answers \in BusAnswers(Apps)
    BY <1>1, <1>2 DEF BusAnswers, SystemInv, SystemTypeOK, StartupOK
  <1>4. seen \in SUBSET Pids
    BY DEF SystemInv, SystemTypeOK, StartupOK
  <1>5. RunPrestarts(Apps, answers, seen)
    BY DEF StartPrestarts
  <1>6. Step
    BY <1>3, <1>4, <1>5 DEF Step
  <1>7. state' # "Init"
    BY <1>5 DEF RunPrestarts, StateInit, StateWaitForPrestart
  <1>8. Idle
    BY <1>1, ProgramsAssumption DEF SystemInv, SystemTypeOK, HandlerOK, Listening
  <1>9. QED
    BY <1>1, <1>6, <1>7, <1>8 DEF PrestarterStep, StartupOrder, SlotOrder

(* The change of owner that a registration is part of.                     *)
LEMMA HandleRegisteredStep ==
  ASSUME SystemInv, HandleRegistered
  PROVE  PrestarterStep
  <1> DEFINE a == Head(bus).app
  <1>1. Head(bus) \in BusMessage
    BY HeadAndTail DEF HandleRegistered, SystemInv, SystemTypeOK, QueuesOK
  <1>2. a \in Apps /\ OwnerPid(a) \in Pids \cup {NoPid}
    BY <1>1, OwnerPidType DEF BusMessage, SystemInv, SystemTypeOK
  <1>3. HandleRegisteredService(a, OwnerPid(a))
    BY DEF HandleRegistered
  <1> HIDE DEF a
  <1>4. HandleServiceOwnerChange(a, FALSE, TRUE, OwnerPid(a))
    BY <1>3 DEF HandleServiceOwnerChange
  <1>5. Step
    BY <1>2, <1>4 DEF Step
  <1>6. QED
    BY <1>3, <1>5, SlotStep DEF HandleRegistered, HandleRegisteredService, machineVars

LEMMA HandleUnregisteredStep ==
  ASSUME SystemInv, HandleUnregistered
  PROVE  PrestarterStep
  <1> DEFINE a == Head(bus).app
  <1>1. Head(bus) \in BusMessage
    BY HeadAndTail DEF HandleUnregistered, SystemInv, SystemTypeOK, QueuesOK
  <1>2. a \in Apps
    BY <1>1 DEF BusMessage
  <1>3. HandleUnregisteredService(a)
    BY DEF HandleUnregistered
  <1> HIDE DEF a
  <1>4. HandleServiceOwnerChange(a, TRUE, FALSE, NoPid)
    BY <1>3 DEF HandleServiceOwnerChange
  <1>5. Step
    BY <1>2, <1>4 DEF Step
  <1>6. state' # "Init" \/ state' = state
    BY <1>3, RunStateLeavesInit DEF HandleUnregisteredService, machineVars
  <1>7. QED
    BY <1>3, <1>5, <1>6, SlotStep DEF HandleUnregistered, HandleUnregisteredService

LEMMA HandleXMapEventStep ==
  ASSUME SystemInv, HandleXMapEvent
  PROVE  PrestarterStep
  <1> DEFINE pid == Head(xEvents).pid
  <1>1. Head(xEvents) \in XEvent
    BY HeadAndTail DEF HandleXMapEvent, SystemInv, SystemTypeOK, QueuesOK
  <1>2. pid \in Pids
    BY <1>1 DEF XEvent
  <1>3. ReleasedPrestart(pid) \/ UNCHANGED vars
    BY DEF HandleXMapEvent
  <1> HIDE DEF pid
  <1>4. CASE ReleasedPrestart(pid)
    <2>1. Step
      BY <1>2, <1>4 DEF Step
    <2>2. QED
      BY <1>4, <2>1, SlotStep DEF HandleXMapEvent, ReleasedPrestart, machineVars
  <1>5. QED
    BY <1>3, <1>4, EnvironmentStepOnly

(* The handler of an unmap event calls the prestarter in one of its steps. *)
LEMMA UnmapEventStep ==
  ASSUME SystemInv, HandleXUnmapEvent \/ UnmapEventGoesOn
  PROVE  PrestarterStep
  <1>1. CASE UNCHANGED vars
    BY <1>1, EnvironmentStepOnly
  <1>2. CASE CheckWindows /\ RestoredPrestart(unmapping.pid)
    <2>1. unmapping.pid \in Pids
      BY <1>2 DEF CheckWindows, SystemInv, SystemTypeOK, HandlerOK, Idle, NoEvent
    <2>2. Step
      BY <1>2, <2>1 DEF Step
    <2>3. Idle'
      BY <1>2 DEF CheckWindows, Return, Idle
    <2>4. QED
      BY <1>2, <2>2, <2>3, SlotStep DEF RestoredPrestart, machineVars
  <1>3. QED
    BY <1>1, <1>2 DEF HandleXUnmapEvent, UnmapEventGoesOn, CheckWindows, CheckFlag, CheckName,
       AskPidAgain, KillLazyProgram, OnlyHandlerMoves

(* The slots that read nothing of the environment.                         *)
LEMMA PollStep ==
  ASSUME NEW l \in Loads, Poll(l)
  PROVE  PrestarterStep
  <1>1. UpdateCPULoad(l)
    BY DEF Poll
  <1>2. Step
    BY <1>1 DEF Step
  <1>3. Listening /\ vectApps' = vectApps /\ RunState(apps, queue, l)
    BY <1>1 DEF UpdateCPULoad
  <1>4. QED
    BY <1>2, <1>3, RunStateLeavesInit, SlotStep DEF Poll

LEMMA ScreenChangesStep ==
  ASSUME NEW newState \in BOOLEAN, ScreenChanges(newState)
  PROVE  PrestarterStep
  <1>1. HandleScreenBlanked(newState)
    BY DEF ScreenChanges
  <1>2. Step
    BY <1>1 DEF Step
  <1>3. QED
    BY <1>1, <1>2, SlotStep DEF ScreenChanges, HandleScreenBlanked, machineVars

LEMMA ForcedRePrestartStep ==
  ASSUME NEW gone \in SUBSET Pids, ForcedRePrestartTimeout(gone)
  PROVE  PrestarterStep
  <1>1. TriggerForcedRePrestarts(gone)
    BY DEF ForcedRePrestartTimeout
  <1>2. Step
    BY <1>1 DEF Step
  <1>3. QED
    BY <1>1, <1>2, SlotStep DEF ForcedRePrestartTimeout, TriggerForcedRePrestarts, machineVars

LEMMA TerminateStep ==
  ASSUME NEW gone \in SUBSET Pids, Terminate(gone)
  PROVE  PrestarterStep
  <1>1. KillPrestartedApplications(gone)
    BY DEF Terminate
  <1>2. Step
    BY <1>1 DEF Step
  <1>3. QED
    BY <1>1, <1>2, SlotStep DEF Terminate, KillPrestartedApplications, machineVars

LEMMA AnswerPingStep ==
  ASSUME NEW a \in Apps, AnswerPing(a)
  PROVE  PrestarterStep
  <1>1. Step
    BY DEF Step
  <1>2. QED
    BY <1>1 DEF AnswerPing, PrestarterStep, StartupOrder, SlotOrder, machineVars

LEMMA SystemStepIsPrestarterStep ==
  ASSUME SystemInv, [SystemNext]_systemVars
  PROVE  PrestarterStep /\ [Next]_vars
  <1>1. PrestarterStep
    <2>1. CASE UNCHANGED systemVars
      BY <2>1, EnvironmentStepOnly DEF systemVars
    <2>2. CASE EnvironmentStep
      <3>1. ASSUME NEW p \in Pids, NEW a \in Apps, Activate(p, a)
            PROVE  PrestarterStep
        BY <3>1, AnswerPingStep DEF Activate
      <3>2. ASSUME NEW a \in Apps, PingWithoutStart(a)
            PROVE  PrestarterStep
        BY <3>2, AnswerPingStep DEF PingWithoutStart
      <3>3. ASSUME NEW newState \in BOOLEAN, ScreenChanges(newState)
            PROVE  PrestarterStep
        BY <3>3, ScreenChangesStep
      <3>4. ASSUME NEW gone \in SUBSET (Pids \ alive), Terminate(gone)
            PROVE  PrestarterStep
        BY <3>4, TerminateStep
      <3>5. ASSUME NEW p \in Pids, NEW prog \in Programs, Launch(p, prog)
            PROVE  PrestarterStep
        BY <3>5, EnvironmentStepOnly DEF Launch
      <3>6. ASSUME NEW p \in Pids,
                   \/ JoinBus(p) \/ Show(p) \/ Hide(p) \/ Die(p)
                   \/ BusNoticesDeath(p) \/ XNoticesDeath(p)
            PROVE  PrestarterStep
        <4>1. UNCHANGED vars
          BY <3>6 DEF JoinBus, Show, Hide, Die, BusNoticesDeath, XNoticesDeath
        <4>2. QED
          BY <4>1, EnvironmentStepOnly
      <3>7. QED
        BY <2>2, <3>1, <3>2, <3>3, <3>4, <3>5, <3>6 DEF EnvironmentStep
    <2>3. CASE DaemonStep
      <3>1. ASSUME NEW a \in Apps, AskBus(a) \/ WatchService(a)
            PROVE  PrestarterStep
        BY <3>1, EnvironmentStepOnly DEF AskBus, WatchService
      <3>2. ASSUME NEW l \in Loads, Poll(l)
            PROVE  PrestarterStep
        BY <3>2, PollStep
      <3>3. ASSUME NEW gone \in SUBSET (Pids \ alive), ForcedRePrestartTimeout(gone)
            PROVE  PrestarterStep
        BY <3>3, ForcedRePrestartStep
      <3>4. QED
        BY <2>3, <3>1, <3>2, <3>3, StartPrestartsStep, HandleRegisteredStep,
           HandleUnregisteredStep, HandleXMapEventStep, UnmapEventStep
           DEF DaemonStep
    <2>4. QED
      BY <2>1, <2>2, <2>3 DEF SystemNext
  <1>2. CASE UNCHANGED systemVars
    BY <1>1, <1>2 DEF systemVars
  <1>3. CASE SystemNext
    BY <1>1, <1>3 DEF SystemNext, PrestarterStep, Next
  <1>4. QED
    BY <1>1, <1>2, <1>3

(***************************************************************************)
(* The inductive invariant of the composed system.                         *)
(***************************************************************************)
LEMMA SystemInitInv == SystemInit => SystemInv
  <1> SUFFICES ASSUME SystemInit
               PROVE  SystemInv
    OBVIOUS
  <1>1. ProcessesOK
    BY DEF SystemInit, ProcessesOK
  <1>2. bus \in Seq(BusMessage) /\ xEvents \in Seq(XEvent) /\ Len(xEvents) = 0
    BY EmptySeq DEF SystemInit
  <1>3. QueuesOK /\ EventsOfProcesses
    BY <1>2 DEF QueuesOK, EventsOfProcesses
  <1>4. StartupOK /\ NothingKnownYet /\ HandlerOK
    BY DEF SystemInit, Init, StartupOK, NothingKnownYet, HandlerOK, Idle
  <1>5. QED
    BY <1>1, <1>3, <1>4 DEF SystemInv, SystemTypeOK

(* The machine of the start-up, for a step of the daemon's environment or  *)
(* of a slot.                                                              *)
LEMMA StartupKept ==
  ASSUME SystemInv, PrestarterStep, UNCHANGED startVars
  PROVE  StartupOK' /\ NothingKnownYet'
  BY DEF SystemInv, SystemTypeOK, StartupOK, NothingKnownYet, PrestarterStep,
         StartupOrder, startVars

(* Processes that end do not disturb the type of the rest.                 *)
LEMMA AliveShrinks ==
  ASSUME SystemInv, PrestarterStep, HandlerOK', UNCHANGED startVars, alive' \subseteq alive,
         UNCHANGED <<program, onBus, windows, mapped, shown>>,
         bus' \in Seq(BusMessage), xEvents' \in Seq(XEvent),
         \A i \in 1..Len(xEvents') :
             \E j \in 1..Len(xEvents) : xEvents'[i].pid = xEvents[j].pid
  PROVE  SystemInv'
  <1>1. ProcessesOK'
    BY DEF SystemInv, SystemTypeOK, ProcessesOK
  <1>2. QueuesOK'
    BY DEF SystemInv, SystemTypeOK, QueuesOK
  <1>3. EventsOfProcesses'
    BY DEF SystemInv, EventsOfProcesses
  <1>4. QED
    BY <1>1, <1>2, <1>3, StartupKept DEF SystemInv, SystemTypeOK

LEMMA NothingMoves ==
  ASSUME SystemInv, PrestarterStep, HandlerOK', UNCHANGED startVars, alive' \subseteq alive,
         UNCHANGED <<program, onBus, windows, mapped, shown, bus, xEvents>>
  PROVE  SystemInv'
  BY AliveShrinks DEF SystemInv, SystemTypeOK, QueuesOK

(* A window event bears the pid of a process.                              *)
LEMMA EventPids ==
  ASSUME QueuesOK, NEW i \in 1..Len(xEvents)
  PROVE  xEvents[i].pid \in Pids
  <1>1. xEvents[i] \in XEvent
    BY ElementOfSeq DEF QueuesOK
  <1>2. QED
    BY <1>1 DEF XEvent

LEMMA StartProcessInv ==
  ASSUME SystemInv, PrestarterStep, HandlerOK', NEW p \in Pids, NEW prog \in Programs,
         StartProcess(p, prog)
  PROVE  SystemInv'
  <1>1. p \notin onBus
    BY ProgramsAssumption DEF StartProcess, Free, SystemInv, SystemTypeOK, ProcessesOK
  <1>2. \A i \in 1..Len(xEvents) : xEvents[i].pid # p
    BY DEF StartProcess, Free, SystemInv, EventsOfProcesses
  <1>3. ProcessesOK'
    BY <1>1 DEF StartProcess, SystemInv, SystemTypeOK, ProcessesOK
  <1>4. \A i \in 1..Len(xEvents) : xEvents[i].pid \in Pids
    BY EventPids DEF SystemInv, SystemTypeOK
  <1>5. QueuesOK'
    BY <1>2 DEF StartProcess, SystemInv, SystemTypeOK, QueuesOK
  <1>6. EventsOfProcesses'
    BY <1>2, <1>4 DEF StartProcess, SystemInv, SystemTypeOK, ProcessesOK, EventsOfProcesses
  <1>7. QED
    BY <1>3, <1>5, <1>6, StartupKept DEF StartProcess, daemonVars, SystemInv, SystemTypeOK

LEMMA JoinBusInv ==
  ASSUME SystemInv, PrestarterStep, HandlerOK', NEW p \in Pids, JoinBus(p)
  PROVE  SystemInv'
  <1>1. program[p] \in Apps /\ \A q \in onBus : program[q] # program[p]
    BY OwnerPidType DEF JoinBus, SystemInv, SystemTypeOK
  <1>2. ProcessesOK'
    BY <1>1 DEF JoinBus, SystemInv, SystemTypeOK, ProcessesOK
  <1>3. bus' \in Seq(BusMessage)
    BY <1>1, NotifyType DEF JoinBus, SystemInv, SystemTypeOK, QueuesOK
  <1>4. QueuesOK' /\ EventsOfProcesses'
    BY <1>3 DEF JoinBus, SystemInv, SystemTypeOK, QueuesOK, EventsOfProcesses
  <1>5. QED
    BY <1>2, <1>4, StartupKept DEF JoinBus, daemonVars, SystemInv, SystemTypeOK

LEMMA BusNoticesDeathInv ==
  ASSUME SystemInv, PrestarterStep, HandlerOK', NEW p \in Pids, BusNoticesDeath(p)
  PROVE  SystemInv'
  <1>1. program[p] \in Apps
    BY DEF BusNoticesDeath, SystemInv, SystemTypeOK, ProcessesOK
  <1>2. ProcessesOK'
    BY DEF BusNoticesDeath, SystemInv, SystemTypeOK, ProcessesOK
  <1>3. (p \in shown) \in BOOLEAN
    OBVIOUS
  <1>4. bus' \in Seq(BusMessage)
    BY <1>1, <1>3, NotifyType DEF BusNoticesDeath, SystemInv, SystemTypeOK, QueuesOK
  <1>5. QueuesOK'
    BY <1>4 DEF BusNoticesDeath, SystemInv, SystemTypeOK, QueuesOK
  <1>6. EventsOfProcesses'
    BY DEF BusNoticesDeath, SystemInv, EventsOfProcesses
  <1>7. QED
    BY <1>2, <1>5, <1>6, StartupKept DEF BusNoticesDeath, daemonVars, SystemInv, SystemTypeOK

LEMMA XNoticesDeathInv ==
  ASSUME SystemInv, PrestarterStep, HandlerOK', NEW p \in Pids, XNoticesDeath(p)
  PROVE  SystemInv'
  <1>1. ProcessesOK'
    BY DEF XNoticesDeath, SystemInv, SystemTypeOK, ProcessesOK
  <1>2. QueuesOK'
    BY DEF XNoticesDeath, SystemInv, SystemTypeOK, QueuesOK
  <1>3. EventsOfProcesses'
    BY DEF XNoticesDeath, SystemInv, EventsOfProcesses
  <1>4. QED
    BY <1>1, <1>2, <1>3, StartupKept DEF XNoticesDeath, daemonVars, SystemInv, SystemTypeOK

(* A window is mapped or unmapped: its event is the last of the queue, and *)
(* it belongs to a process that shows or has shown its window.             *)
LEMMA WindowInv ==
  ASSUME SystemInv, PrestarterStep, HandlerOK', NEW p \in Pids, NEW event \in {"map", "unmap"},
         PostXEvent(p, event), program[p] # Nothing,
         p \in shown', shown \subseteq shown', shown' \subseteq Pids,
         mapped' \subseteq windows \cap shown',
         UNCHANGED <<program, alive, onBus, windows, bus, startVars>>
  PROVE  SystemInv'
  <1>1. xEvents' \in Seq(XEvent) /\ \A i \in 1..Len(xEvents') :
          \/ i \in 1..Len(xEvents) /\ xEvents'[i] = xEvents[i]
          \/ xEvents'[i].pid = p
    BY PostXEventType DEF SystemInv, SystemTypeOK, QueuesOK
  <1>2. ProcessesOK'
    BY DEF SystemInv, SystemTypeOK, ProcessesOK
  <1>3. QueuesOK'
    BY <1>1 DEF SystemInv, SystemTypeOK, QueuesOK
  <1>4. EventsOfProcesses'
    BY <1>1 DEF SystemInv, EventsOfProcesses
  <1>5. QED
    BY <1>2, <1>3, <1>4, StartupKept DEF SystemInv, SystemTypeOK

LEMMA ShowInv ==
  ASSUME SystemInv, PrestarterStep, HandlerOK', NEW p \in Pids, Show(p)
  PROVE  SystemInv'
  <1>1. program[p] # Nothing
    BY ProgramsAssumption DEF Show, Programs, SystemInv, SystemTypeOK, ProcessesOK
  <1>2. PostXEvent(p, "map")
    BY DEF Show
  <1>3. shown' = shown \cup {p} /\ mapped' \subseteq windows \cap shown'
    BY DEF Show, SystemInv, SystemTypeOK, ProcessesOK
  <1>4. shown \subseteq Pids
    BY DEF SystemInv, SystemTypeOK, ProcessesOK
  <1>5. UNCHANGED <<program, alive, onBus, windows, bus, startVars>>
    BY DEF Show, daemonVars
  <1>6. QED
    BY <1>1, <1>2, <1>3, <1>4, <1>5, WindowInv

LEMMA HideInv ==
  ASSUME SystemInv, PrestarterStep, HandlerOK', NEW p \in Pids, Hide(p)
  PROVE  SystemInv'
  <1>1. program[p] # Nothing
    BY ProgramsAssumption DEF Hide, Programs, SystemInv, SystemTypeOK, ProcessesOK
  <1>2. PostXEvent(p, "unmap")
    BY DEF Hide
  <1>3. p \in shown' /\ shown' = shown /\ mapped' \subseteq windows \cap shown'
    BY DEF Hide, SystemInv, SystemTypeOK, ProcessesOK
  <1>4. shown \subseteq Pids
    BY DEF SystemInv, SystemTypeOK, ProcessesOK
  <1>5. UNCHANGED <<program, alive, onBus, windows, bus, startVars>>
    BY DEF Hide
  <1>6. QED
    BY <1>1, <1>2, <1>3, <1>4, <1>5, WindowInv

(* The daemon takes the head of the bus queue.                             *)
LEMMA BusTailInv ==
  ASSUME SystemInv, PrestarterStep, HandlerOK', bus # <<>>, bus' = Tail(bus),
         UNCHANGED <<processVars, xEvents, startVars>>
  PROVE  SystemInv'
  <1>1. bus' \in Seq(BusMessage)
    BY HeadAndTail DEF SystemInv, SystemTypeOK, QueuesOK
  <1>2. QED
    BY <1>1, AliveShrinks DEF processVars, SystemInv, SystemTypeOK, QueuesOK

(* The daemon takes the head of the queue of window events.                *)
LEMMA XTailInv ==
  ASSUME SystemInv, PrestarterStep, HandlerOK', xEvents # <<>>, xEvents' = Tail(xEvents),
         alive' \subseteq alive,
         UNCHANGED <<program, onBus, windows, mapped, shown, bus, startVars>>
  PROVE  SystemInv'
  <1>1. /\ xEvents' \in Seq(XEvent)
        /\ \A i \in 1..Len(xEvents') : i + 1 \in 1..Len(xEvents) /\ xEvents'[i] = xEvents[i + 1]
    BY HeadAndTail DEF SystemInv, SystemTypeOK, QueuesOK
  <1>2. \A i \in 1..Len(xEvents') :
           \E j \in 1..Len(xEvents) : xEvents'[i].pid = xEvents[j].pid
    BY <1>1
  <1>3. bus' \in Seq(BusMessage)
    BY DEF SystemInv, SystemTypeOK, QueuesOK
  <1>4. QED
    BY <1>1, <1>2, <1>3, AliveShrinks

LEMMA AskBusInv ==
  ASSUME SystemInv, PrestarterStep, HandlerOK', NEW a \in Apps, AskBus(a)
  PROVE  SystemInv'
  <1> DEFINE answer == IF OwnerPid(a) = NoPid THEN NoOwner ELSE OwnerPid(a)
  <1>1. answer \in Pids \cup {NoOwner}
    BY OwnerPidType DEF SystemInv, SystemTypeOK
  <1>2. /\ answers' = [b \in DOMAIN answers \cup {a} |-> IF b = a THEN answer ELSE answers[b]]
        /\ seen' = seen \cup ({answer} \cap mapped)
    BY DEF AskBus
  <1> HIDE DEF answer
  <1>3. /\ answers' \in [DOMAIN answers' -> Pids \cup {NoOwner}]
        /\ DOMAIN answers' = DOMAIN answers \cup {a}
    BY <1>1, <1>2 DEF SystemInv, SystemTypeOK, StartupOK
  <1>4. seen' \subseteq Pids
    BY <1>2 DEF SystemInv, SystemTypeOK, StartupOK, ProcessesOK
  <1>5. state' = "Init" /\ NothingKnownYet' /\ watched' = watched
    BY DEF AskBus, SystemInv, NothingKnownYet, vars
  <1>6. StartupOK'
    BY <1>3, <1>4, <1>5 DEF SystemInv, SystemTypeOK, StartupOK
  <1>7. ProcessesOK' /\ QueuesOK' /\ EventsOfProcesses'
    BY DEF AskBus, processVars, SystemInv, SystemTypeOK, ProcessesOK, QueuesOK, EventsOfProcesses
  <1>8. QED
    BY <1>5, <1>6, <1>7 DEF SystemInv, SystemTypeOK

LEMMA WatchServiceInv ==
  ASSUME SystemInv, PrestarterStep, HandlerOK', NEW a \in Apps, WatchService(a)
  PROVE  SystemInv'
  <1>1. StartupOK' /\ NothingKnownYet'
    BY DEF WatchService, InStartupGap, SystemInv, SystemTypeOK, StartupOK, NothingKnownYet, vars
  <1>2. ProcessesOK' /\ QueuesOK' /\ EventsOfProcesses'
    BY DEF WatchService, processVars, SystemInv, SystemTypeOK, ProcessesOK, QueuesOK, EventsOfProcesses
  <1>3. QED
    BY <1>1, <1>2 DEF SystemInv, SystemTypeOK

LEMMA EnvironmentStepInv ==
  ASSUME SystemInv, PrestarterStep, HandlerOK', EnvironmentStep
  PROVE  SystemInv'
  <1>1. ASSUME NEW p \in Pids, NEW prog \in Programs, Launch(p, prog)
        PROVE  SystemInv'
    BY <1>1, StartProcessInv DEF Launch
  <1>2. ASSUME NEW p \in Pids, NEW a \in Apps, Activate(p, a)
        PROVE  SystemInv'
    BY <1>2, StartProcessInv DEF Activate, Programs
  <1>3. ASSUME NEW a \in Apps, PingWithoutStart(a)
        PROVE  SystemInv'
    BY <1>3, NothingMoves DEF PingWithoutStart, environmentVars, processVars, daemonVars
  <1>4. ASSUME NEW p \in Pids, Die(p)
        PROVE  SystemInv'
    BY <1>4, NothingMoves DEF Die, daemonVars
  <1>5. ASSUME NEW newState \in BOOLEAN, ScreenChanges(newState)
        PROVE  SystemInv'
    BY <1>5, NothingMoves DEF ScreenChanges, environmentVars, processVars, daemonVars
  <1>6. ASSUME NEW gone \in SUBSET (Pids \ alive), Terminate(gone)
        PROVE  SystemInv'
    BY <1>6, NothingMoves DEF Terminate, environmentVars, processVars, daemonVars
  <1>7. QED
    BY <1>1, <1>2, <1>3, <1>4, <1>5, <1>6, JoinBusInv, ShowInv, HideInv,
       BusNoticesDeathInv, XNoticesDeathInv DEF EnvironmentStep

LEMMA DaemonStepInv ==
  ASSUME SystemInv, PrestarterStep, HandlerOK', DaemonStep
  PROVE  SystemInv'
  <1>1. CASE StartPrestarts
    BY <1>1, NothingMoves DEF StartPrestarts, environmentVars, processVars, daemonVars
  <1>2. CASE HandleRegistered
    BY <1>2, BusTailInv DEF HandleRegistered, daemonVars
  <1>3. CASE HandleUnregistered
    BY <1>3, BusTailInv DEF HandleUnregistered, daemonVars
  <1>4. CASE HandleXMapEvent
    BY <1>4, XTailInv DEF HandleXMapEvent, processVars, daemonVars
  <1>5. CASE HandleXUnmapEvent
    BY <1>5, XTailInv DEF HandleXUnmapEvent, processVars
  <1>9. CASE UnmapEventGoesOn
    <2>1. /\ alive' \subseteq alive
          /\ UNCHANGED <<program, onBus, windows, mapped, shown, bus, xEvents, startVars>>
      BY <1>9 DEF UnmapEventGoesOn, CheckWindows, CheckFlag, CheckName, AskPidAgain,
         KillLazyProgram, OnlyHandlerMoves, processVars
    <2>2. UNCHANGED startVars /\ UNCHANGED <<program, onBus, windows, mapped, shown, bus, xEvents>>
      BY <2>1
    <2>3. QED
      BY <2>1, <2>2, NothingMoves
  <1>6. ASSUME NEW l \in Loads, Poll(l)
        PROVE  SystemInv'
    BY <1>6, NothingMoves DEF Poll, environmentVars, processVars, daemonVars
  <1>7. ASSUME NEW gone \in SUBSET (Pids \ alive), ForcedRePrestartTimeout(gone)
        PROVE  SystemInv'
    BY <1>7, NothingMoves DEF ForcedRePrestartTimeout, daemonVars
  <1>8. QED
    BY <1>1, <1>2, <1>3, <1>4, <1>5, <1>6, <1>7, <1>9, AskBusInv, WatchServiceInv
       DEF DaemonStep

(* What the handler of an unmap event has in hand changes in its own steps *)
(* only, but for the note that the window was hidden meanwhile.            *)
LEMMA UnmappingChange ==
  ASSUME [SystemNext]_systemVars
  PROVE  \/ unmapping' = unmapping
         \/ \E q \in Pids : Hide(q)
         \/ HandleXUnmapEvent
         \/ UnmapEventGoesOn
  <1>1. CASE EnvironmentStep
    BY <1>1 DEF EnvironmentStep, Launch, Activate, StartProcess, PingWithoutStart, JoinBus,
       Show, Die, BusNoticesDeath, XNoticesDeath, ScreenChanges, Terminate, environmentVars,
       daemonVars
  <1>2. CASE DaemonStep
    BY <1>2 DEF DaemonStep, AskBus, WatchService, StartPrestarts, HandleRegistered,
       HandleUnregistered, HandleXMapEvent, Poll, ForcedRePrestartTimeout, environmentVars,
       daemonVars
  <1>3. CASE UNCHANGED systemVars
    BY <1>3 DEF systemVars, environmentVars, daemonVars
  <1>4. QED
    BY <1>1, <1>2, <1>3 DEF SystemNext

(* The steps of the handler by what they leave in hand. *)
Steps == {"windows", "flag", "name", "pid", "kill"}

LEMMA HandlerStepInv ==
  ASSUME SystemInv, PrestarterStep, [SystemNext]_systemVars
  PROVE  HandlerOK'
  <1> DEFINE Shape == [step : Steps, pid : Pids, wasHidden : BOOLEAN]
  <1>1. Idle \/ (Listening /\ unmapping \in Shape)
    BY DEF SystemInv, SystemTypeOK, HandlerOK, Steps
  <1>2. SUFFICES Idle' \/ (Listening' /\ unmapping' \in Shape)
    BY DEF HandlerOK, Steps
  <1>3. Idle \/ Idle' \/ Listening'
    BY <1>1 DEF PrestarterStep, SlotOrder, Listening
  <1>4. CASE unmapping' = unmapping
    BY <1>1, <1>3, <1>4 DEF Idle
  <1>5. ASSUME NEW q \in Pids, Hide(q)
        PROVE  Idle' \/ (Listening' /\ unmapping' \in Shape)
    <2>1. CASE Idle
      BY <1>5, <2>1, NoPidAssumption DEF Hide, Idle, NoEvent
    <2>2. CASE unmapping \in Shape
      <3>1. ~Idle
        BY <2>2 DEF Idle, NoEvent, Steps
      <3>2. unmapping' \in Shape
        BY <1>5, <2>2 DEF Hide
      <3>3. QED
        BY <1>3, <3>1, <3>2
    <2>3. QED
      BY <1>1, <2>1, <2>2
  <1>6. CASE HandleXUnmapEvent
    <2>1. Head(xEvents) \in XEvent
      BY <1>6, HeadAndTail DEF HandleXUnmapEvent, SystemInv, SystemTypeOK, QueuesOK
    <2>2. Head(xEvents).pid \in Pids
      BY <2>1 DEF XEvent
    <2>3. Listening'
      BY <1>6 DEF HandleXUnmapEvent, Listening, vars
    <2>4. QED
      BY <1>6, <2>2, <2>3 DEF HandleXUnmapEvent, Idle, Steps
  <1>7. CASE UnmapEventGoesOn
    <2>1. unmapping.step \in Steps /\ unmapping.step # "none"
      BY <1>7 DEF UnmapEventGoesOn, CheckWindows, CheckFlag, CheckName, AskPidAgain,
         KillLazyProgram, Steps
    <2>2. unmapping \in Shape /\ ~Idle
      BY <1>1, <2>1 DEF Idle, NoEvent
    <2>3. Idle' \/ unmapping' = [unmapping EXCEPT !.step = "name"]
                \/ unmapping' = [unmapping EXCEPT !.step = "pid"]
                \/ unmapping' = [unmapping EXCEPT !.step = "kill"]
      BY <1>7 DEF UnmapEventGoesOn, CheckWindows, CheckFlag, CheckName, AskPidAgain,
         KillLazyProgram, ContinueWith, Return, Idle
    <2>4. QED
      BY <1>3, <2>2, <2>3 DEF Steps
  <1>8. QED
    BY <1>4, <1>5, <1>6, <1>7, UnmappingChange

LEMMA SystemStepInv == SystemInv /\ [SystemNext]_systemVars => SystemInv'
  <1> SUFFICES ASSUME SystemInv, [SystemNext]_systemVars
               PROVE  SystemInv'
    OBVIOUS
  <1>1. PrestarterStep /\ HandlerOK'
    BY SystemStepIsPrestarterStep, HandlerStepInv
  <1>2. CASE UNCHANGED systemVars
    BY <1>1, <1>2, NothingMoves DEF systemVars, environmentVars, processVars, daemonVars
  <1>3. CASE SystemNext
    BY <1>1, <1>3, EnvironmentStepInv, DaemonStepInv DEF SystemNext
  <1>4. QED
    BY <1>2, <1>3

LEMMA SystemInvAlways == SystemSpec => []SystemInv
  BY SystemInitInv, SystemStepInv, PTL DEF SystemSpec

(* The environment keeps its shape, the queues hold what their servers     *)
(* send, and the daemon starts up in order, for every set of applications, *)
(* programs and pids.                                                      *)
THEOREM SystemTypeCorrect == SystemSpec => []SystemTypeOK
  <1>1. SystemInv => SystemTypeOK
    BY DEF SystemInv
  <1>2. QED
    BY <1>1, SystemInvAlways, PTL

(* The composed system implements the open module: whatever the bus, the X *)
(* server and the processes do, they call the daemon in a way that module  *)
(* Prestarter allows.                                                      *)
THEOREM SystemRefinesPrestarter == SystemSpec => PrestarterSpec
  <1>1. SystemInit => Init
    BY DEF SystemInit
  <1>2. SystemInv /\ [SystemNext]_systemVars => [Next]_vars
    BY SystemStepIsPrestarterStep
  <1>3. QED
    BY <1>1, <1>2, SystemInvAlways, PTL DEF SystemSpec, PrestarterSpec, Spec

(* The state invariants of the core. *)
CoreSafe == QueueServed /\ RePrestartJustified /\ SignalsAccounted /\ TimerOnlyWhileBlank

(* So the promises of the core hold among real processes: nothing waits in *)
(* the queue unserved, forced re-prestarts are justified, signals escalate *)
(* in order and the timer runs behind a blank screen only; the queue is    *)
(* served in its order, a signal is sent behind a blank screen only and    *)
(* only applications that were shown come back into the queue.             *)
THEOREM SystemKeepsCoreSafe ==
  SystemSpec => /\ []CoreSafe
                /\ ServedInTurn
                /\ SignalledOnlyBehindBlankScreen
                /\ OnlyShownAppsComeBack
  <1>1. Spec => []CoreSafe
    BY QueueAlwaysServed, RePrestartAlwaysJustified, SignalsAlwaysAccounted,
       TimerAlwaysBehindBlankScreen, PTL DEF CoreSafe
  <1>2. SystemSpec => Spec
    BY SystemRefinesPrestarter, PTL DEF PrestarterSpec
  <1>3. QED
    BY <1>1, <1>2, AlwaysServedInTurn, SignalsOnlyBehindBlankScreen, ShownAppsComeBack, PTL

(***************************************************************************)
(* Whose pid a record holds.                                               *)
(***************************************************************************)

(* Of the setters only setPid and a request touch the pid.                 *)
LEMMA SettersKeepPid ==
  ASSUME NEW app \in AppRecord
  PROVE  /\ \A b \in BOOLEAN : SetReleased(app, b).pid = app.pid
         /\ SetPrestarted(app, FALSE).pid = app.pid
         /\ \A a : Restored(a, app).pid = app.pid
         /\ \A gone : /\ KillApp(app, gone).pid = app.pid
                      /\ KillApp(SetRePrestarting(app, FALSE), gone).pid = app.pid
         /\ Requested(app).pid = NoPid
  <1>1. ASSUME NEW r \in AppRecord, NEW b \in BOOLEAN
        PROVE  SetRePrestarting(r, b).pid = r.pid
    BY DEF SetRePrestarting, AppRecord
  <1>2. ASSUME NEW r \in AppRecord, NEW gone
        PROVE  KillApp(r, gone).pid = r.pid
    BY DEF KillApp, SetRePrestarting, AppRecord
  <1>3. /\ \A b \in BOOLEAN : SetReleased(app, b).pid = app.pid
        /\ SetReleased(app, FALSE) \in AppRecord
        /\ SetRePrestarting(app, FALSE) \in AppRecord
    BY SetterTypes, SetReleasedFields
  <1>4. SetPrestarted(app, FALSE).pid = app.pid
    BY DEF SetPrestarted, SetReleased, ResetReleasedCount, SetRePrestarting, AppRecord
  <1>5. ASSUME NEW a PROVE Restored(a, app).pid = app.pid
    <2>1. \/ Restored(a, app) = SetReleased(app, FALSE)
          \/ Restored(a, app) = SetRePrestarting(SetReleased(app, FALSE), TRUE)
      BY DEF Restored
    <2>2. SetReleased(app, FALSE).pid = app.pid
      BY <1>3
    <2>3. SetRePrestarting(SetReleased(app, FALSE), TRUE).pid = SetReleased(app, FALSE).pid
      BY <1>1, <1>3
    <2>4. QED
      BY <2>1, <2>2, <2>3
  <1>6. Requested(app).pid = NoPid
    <2>1. SetReleased(SetPrestarted(app, FALSE), FALSE) \in AppRecord
      BY SetPrestartedType, SetterTypes
    <2>2. QED
      BY <2>1 DEF Requested, SetPid, AppRecord
  <1>7. ASSUME NEW gone
        PROVE  /\ KillApp(app, gone).pid = app.pid
               /\ KillApp(SetRePrestarting(app, FALSE), gone).pid = app.pid
    <2>1. SetRePrestarting(app, FALSE).pid = app.pid
      BY <1>1
    <2>2. QED
      BY <1>2, <1>3, <2>1
  <1>8. QED
    BY <1>3, <1>4, <1>5, <1>6, <1>7

(* addPrestartApp stores the answer of the bus, if there is an owner.      *)
LEMMA AddPrestartAppPid ==
  ASSUME NEW a, NEW ans, NEW s, ans[a] \in Pids \cup {NoOwner}
  PROVE  AddPrestartApp(a, ans, s).pid = IF ans[a] = NoOwner THEN NoPid ELSE ans[a]
  <1>1. CASE ans[a] = NoOwner
    BY <1>1 DEF AddPrestartApp, NewApp
  <1>2. CASE ans[a] # NoOwner
    <2> DEFINE known == SetPrestarted(SetPid(NewApp, ans[a]), TRUE)
               hidden == SetReleased(known, FALSE)
    <2>1. known \in AppRecord /\ known.pid = ans[a]
      BY <1>2 DEF SetPrestarted, SetPid, NewApp, AppRecord
    <2> HIDE DEF known
    <2>2. hidden \in AppRecord /\ hidden.pid = ans[a]
      BY <2>1, SetterTypes, SetReleasedFields
    <2> HIDE DEF hidden
    <2>3. SetReleased(hidden, TRUE).pid = ans[a]
      BY <2>2, SetReleasedFields
    <2>4. AddPrestartApp(a, ans, s) = IF ans[a] \in s THEN SetReleased(hidden, TRUE) ELSE hidden
      BY <1>2 DEF AddPrestartApp, known, hidden
    <2>5. QED
      BY <1>2, <2>2, <2>3, <2>4
  <1>3. QED
    BY <1>1, <1>2

(* A record keeps its pid, forgets it, or takes the one the bus names.     *)
PidStep(a) ==
    \/ apps'[a].pid \in {apps[a].pid, NoPid, OwnerPid(a)}
    \/ a \in DOMAIN answers /\ answers[a] # NoOwner /\ apps'[a].pid = answers[a]

LEMMA RunStatePid ==
  ASSUME NEW ap, NEW q, NEW ld, NEW vect, Handed(ap, q, vect), RunState(ap, q, ld),
         NEW a \in Apps, ap[a].pid = apps[a].pid
  PROVE  PidStep(a)
  <1>1. ap[a] \in AppRecord
    BY DEF Handed
  <1>2. apps'[a] = ap[a] \/ apps'[a] = Requested(ap[a])
    BY RunStateRecords
  <1>3. QED
    BY <1>1, <1>2, SettersKeepPid DEF PidStep

(* The slots of the bus.                                                   *)
LEMMA BusSlotPid ==
  ASSUME IInv, SystemInv, HandleRegistered \/ HandleUnregistered, NEW a \in Apps
  PROVE  PidStep(a)
  <1> DEFINE b == Head(bus).app
  <1>1. apps \in [Apps -> AppRecord] /\ apps[a] \in AppRecord
    BY DEF IInv, TypeOK
  <1>2. b \in Apps
    <2>1. Head(bus) \in BusMessage
      BY HeadAndTail DEF HandleRegistered, HandleUnregistered, SystemInv, SystemTypeOK, QueuesOK
    <2>2. QED
      BY <2>1 DEF BusMessage
  <1>3. CASE HandleRegistered
    <2>1. HandleRegisteredService(b, OwnerPid(b))
      BY <1>3 DEF HandleRegistered
    <2>2. OwnerPid(b) \in Pids \cup {NoPid}
      BY OwnerPidType DEF SystemInv, SystemTypeOK
    <2> HIDE DEF b
    <2>3. CASE a = b
      <3>1. SetPrestarted(SetPid(apps[a], OwnerPid(a)), TRUE).pid = OwnerPid(a)
        BY <1>1, <2>2, <2>3 DEF SetPrestarted, SetPid, AppRecord
      <3>2. \/ apps'[a] = apps[a]
            \/ apps'[a] = SetPrestarted(SetPid(apps[a], OwnerPid(a)), TRUE)
        BY <1>1, <2>1, <2>3 DEF HandleRegisteredService
      <3>3. apps'[a].pid = apps[a].pid \/ apps'[a].pid = OwnerPid(a)
        BY <3>1, <3>2, Zenon
      <3>4. QED
        BY <3>3 DEF PidStep
    <2>4. CASE a # b
      <3>1. apps'[a] = apps[a]
        BY <1>1, <1>2, <2>1, <2>4 DEF HandleRegisteredService
      <3>2. QED
        BY <3>1 DEF PidStep
    <2>5. QED
      BY <2>3, <2>4
  <1>4. CASE HandleUnregistered
    <2>1. HandleUnregisteredService(b)
      BY <1>4 DEF HandleUnregistered
    <2> HIDE DEF b
    <2>2. CASE ~apps[b].prestarted
      <3>1. apps' = apps
        BY <2>1, <2>2 DEF HandleUnregisteredService
      <3>2. QED
        BY <3>1 DEF PidStep
    <2>3. CASE apps[b].prestarted
      <3>1. /\ RunState(UnregisteredRecords(b), UnregisteredQueue(b), load)
            /\ running /\ b \in vectApps
        BY <2>1, <2>3 DEF HandleUnregisteredService, Listening, UnregisteredRecords,
           UnregisteredQueue, Unregistered
      <3>2. /\ Handed(UnregisteredRecords(b), UnregisteredQueue(b), vectApps)
            /\ \A c \in Apps \ {b} : UnregisteredRecords(b)[c] = apps[c]
        BY <1>2, <3>1, UnregisteredHanded
      <3>3. UnregisteredRecords(b)[b].pid = apps[b].pid
        <4>1. Unregistered(b) \in AppRecord /\ Unregistered(b).pid = apps[b].pid
          BY <1>1, <1>2, SetterTypes, SettersKeepPid DEF Unregistered
        <4>2. UnregisteredRecords(b)[b] = SetPrestarted(Unregistered(b), FALSE)
          BY <1>1, <1>2 DEF UnregisteredRecords
        <4>3. QED
          BY <4>1, <4>2, SettersKeepPid
      <3>4. UnregisteredRecords(b)[a].pid = apps[a].pid
        BY <3>2, <3>3
      <3>5. QED
        BY <3>1, <3>2, <3>4, RunStatePid
    <2>4. QED
      BY <2>2, <2>3
  <1>5. QED
    BY <1>3, <1>4

LEMMA RecordPids ==
  ASSUME IInv, SystemInv, [SystemNext]_systemVars, NEW a \in Apps
  PROVE  PidStep(a)
  <1>1. apps[a] \in AppRecord
    BY DEF IInv, TypeOK
  <1>2. ASSUME apps'[a].pid = apps[a].pid
        PROVE  PidStep(a)
    BY <1>2 DEF PidStep
  <1>3. ASSUME apps' = apps
        PROVE  PidStep(a)
    BY <1>2, <1>3
  <1>4. ASSUME NEW l \in Loads, Poll(l)
        PROVE  PidStep(a)
    <2>1. Handed(apps, queue, vectApps) /\ RunState(apps, queue, l)
      BY <1>4, RunningIInv DEF Poll, UpdateCPULoad, Listening
    <2>2. QED
      BY <2>1, RunStatePid
  <1>5. ASSUME NEW pid, ReleasedPrestart(pid)
        PROVE  PidStep(a)
    <2>1. apps'[a] = apps[a] \/ apps'[a] = SetReleased(apps[a], TRUE)
      BY <1>5 DEF ReleasedPrestart
    <2>2. QED
      BY <1>1, <1>2, <2>1, SettersKeepPid
  <1>6. ASSUME NEW pid, RestoredPrestart(pid)
        PROVE  PidStep(a)
    <2>1. apps'[a] = apps[a] \/ apps'[a] = Restored(a, apps[a])
      BY <1>6 DEF RestoredPrestart
    <2>2. Restored(a, apps[a]).pid = apps[a].pid
      BY <1>1, SettersKeepPid, Zenon
    <2>3. QED
      BY <1>2, <2>1, <2>2, Zenon
  <1>7. ASSUME NEW gone, ForcedRePrestartTimeout(gone) \/ Terminate(gone)
        PROVE  PidStep(a)
    <2>1. \/ apps'[a] = apps[a] \/ apps'[a] = KillApp(apps[a], gone)
          \/ apps'[a] = KillApp(SetRePrestarting(apps[a], FALSE), gone)
      BY <1>7 DEF ForcedRePrestartTimeout, Terminate, TriggerForcedRePrestarts,
         KillPrestartedApplications
    <2>2. /\ KillApp(apps[a], gone).pid = apps[a].pid
          /\ KillApp(SetRePrestarting(apps[a], FALSE), gone).pid = apps[a].pid
      BY <1>1, SettersKeepPid, Zenon
    <2>3. QED
      BY <1>2, <2>1, <2>2, Zenon
  <1>8. CASE StartPrestarts
    <2>1. /\ state = "Init" /\ watched = Apps /\ vectApps = {}
          /\ RunPrestarts(Apps, answers, seen)
      BY <1>8, ProgramsAssumption DEF StartPrestarts, RunPrestarts, SystemInv, NothingKnownYet
    <2>2. a \in DOMAIN answers /\ answers[a] \in Pids \cup {NoOwner}
      BY <2>1 DEF SystemInv, SystemTypeOK, StartupOK
    <2>3. apps'[a] = AddPrestartApp(a, answers, seen)
      BY <2>1 DEF RunPrestarts, StateInit, StateWaitForPrestart, ReadConfiguration
    <2>4. apps'[a].pid = IF answers[a] = NoOwner THEN NoPid ELSE answers[a]
      <3>1. AddPrestartApp(a, answers, seen).pid =
              IF answers[a] = NoOwner THEN NoPid ELSE answers[a]
        BY <2>2, AddPrestartAppPid
      <3>2. QED
        BY <2>3, <3>1
    <2>5. QED
      BY <2>2, <2>4 DEF PidStep
  <1>9. CASE HandleXMapEvent \/ HandleXUnmapEvent \/ UnmapEventGoesOn
    <2>1. UNCHANGED vars \/ \E pid : ReleasedPrestart(pid) \/ RestoredPrestart(pid)
      BY <1>9, Zenon DEF HandleXMapEvent, HandleXUnmapEvent, UnmapEventGoesOn, CheckWindows,
         CheckFlag, CheckName, AskPidAgain, KillLazyProgram, OnlyHandlerMoves
    <2>2. QED
      BY <1>3, <1>5, <1>6, <2>1 DEF vars
  <1>10. ASSUME NEW p, NEW b, Activate(p, b) \/ PingWithoutStart(b)
         PROVE  PidStep(a)
    BY <1>3, <1>10 DEF Activate, PingWithoutStart, AnswerPing
  <1>11. ASSUME NEW p, NEW prog, Launch(p, prog)
         PROVE  PidStep(a)
    BY <1>3, <1>11 DEF Launch, vars
  <1>12. ASSUME NEW p, \/ JoinBus(p) \/ Show(p) \/ Hide(p) \/ Die(p)
                       \/ BusNoticesDeath(p) \/ XNoticesDeath(p)
         PROVE  PidStep(a)
    BY <1>3, <1>12 DEF JoinBus, Show, Hide, Die, BusNoticesDeath, XNoticesDeath, vars
  <1>13. ASSUME NEW newState, ScreenChanges(newState)
         PROVE  PidStep(a)
    BY <1>3, <1>13 DEF ScreenChanges, HandleScreenBlanked
  <1>14. ASSUME NEW b, AskBus(b) \/ WatchService(b)
         PROVE  PidStep(a)
    BY <1>3, <1>14 DEF AskBus, WatchService, vars
  <1>15. CASE UNCHANGED systemVars
    BY <1>3, <1>15 DEF systemVars, vars
  <1>16. CASE EnvironmentStep
    BY <1>7, <1>10, <1>11, <1>12, <1>13, <1>16 DEF EnvironmentStep
  <1>17. CASE DaemonStep
    BY <1>4, <1>7, <1>8, <1>9, <1>14, <1>17, BusSlotPid DEF DaemonStep
  <1>18. QED
    BY <1>15, <1>16, <1>17 DEF SystemNext

(***************************************************************************)
(* Lazy shutdowns are reported.  As long as no pid comes back for another  *)
(* process, a pid the daemon has on record, or has been told at the start, *)
(* is one of a process of that application; so a program that is not       *)
(* managed is never taken for one that is.                                 *)
(***************************************************************************)
ProcessesHaveWindows ==
    /\ alive \subseteq windows
    /\ \A p \in windows \cup shown : program[p] # Nothing

PidsTrue ==
    /\ \A a \in Apps : apps[a].pid # NoPid => program[apps[a].pid] = a
    /\ \A a \in DOMAIN answers : answers[a] # NoOwner => program[answers[a]] = a

LazyInv == ProcessesHaveWindows /\ PidsTrue /\ LazyShutdownReported

LEMMA InitLazyInv == SystemInit => LazyInv
  BY DEF SystemInit, Init, NewApp, LazyInv, ProcessesHaveWindows, PidsTrue,
         LazyShutdownReported, Lazy, LazilyShutDown

(* What a pid runs changes only when a process is started under it.        *)
LEMMA ProgramsChange ==
  ASSUME [SystemNext]_systemVars
  PROVE  program' = program \/ \E q \in Pids, prog \in Programs : StartProcess(q, prog)
  <1>1. CASE EnvironmentStep
    BY <1>1 DEF EnvironmentStep, Launch, Activate, PingWithoutStart, JoinBus, Show, Hide,
       Die, BusNoticesDeath, XNoticesDeath, ScreenChanges, Terminate, environmentVars,
       processVars, Programs
  <1>2. CASE DaemonStep
    BY <1>2 DEF DaemonStep, AskBus, WatchService, StartPrestarts, HandleRegistered,
       HandleUnregistered, HandleXMapEvent, HandleXUnmapEvent, UnmapEventGoesOn, CheckWindows,
       CheckFlag, CheckName, AskPidAgain, KillLazyProgram, OnlyHandlerMoves, Poll,
       ForcedRePrestartTimeout, environmentVars, processVars
  <1>3. CASE UNCHANGED systemVars
    BY <1>3 DEF systemVars, environmentVars, processVars
  <1>4. QED
    BY <1>1, <1>2, <1>3 DEF SystemNext

LEMMA UsedPidsKept ==
  ASSUME ~PidsReused, SystemInv, [SystemNext]_systemVars, NEW p \in Pids,
         program[p] # Nothing
  PROVE  program'[p] = program[p]
  BY ProgramsChange DEF StartProcess, Free, SystemInv, SystemTypeOK, ProcessesOK

(* The answers of the bus change only by asking.                           *)
LEMMA AnswersChange ==
  ASSUME [SystemNext]_systemVars
  PROVE  answers' = answers \/ \E a \in Apps : AskBus(a)
  <1>1. CASE EnvironmentStep
    BY <1>1 DEF EnvironmentStep, Launch, Activate, StartProcess, PingWithoutStart, JoinBus,
       Show, Hide, Die, BusNoticesDeath, XNoticesDeath, ScreenChanges, Terminate,
       environmentVars, daemonVars, startVars
  <1>2. CASE DaemonStep
    BY <1>2 DEF DaemonStep, WatchService, StartPrestarts, HandleRegistered,
       HandleUnregistered, HandleXMapEvent, HandleXUnmapEvent, UnmapEventGoesOn, CheckWindows,
       CheckFlag, CheckName, AskPidAgain, KillLazyProgram, OnlyHandlerMoves, Poll,
       ForcedRePrestartTimeout, environmentVars, daemonVars, startVars
  <1>3. CASE UNCHANGED systemVars
    BY <1>3 DEF systemVars, environmentVars, daemonVars, startVars
  <1>4. QED
    BY <1>1, <1>2, <1>3 DEF SystemNext

LEMMA StepPidsTrue ==
  ASSUME ~PidsReused, IInv, SystemInv, PidsTrue, [SystemNext]_systemVars
  PROVE  PidsTrue'
  <1>1. ASSUME NEW p \in Pids, NEW a \in Apps, program[p] = a
        PROVE  program'[p] = a
    BY <1>1, UsedPidsKept, ProgramsAssumption
  <1>2. ASSUME NEW a \in Apps, OwnerPid(a) # NoPid
        PROVE  OwnerPid(a) \in Pids /\ program'[OwnerPid(a)] = a
    BY <1>1, <1>2, OwnerPidType DEF SystemInv, SystemTypeOK
  <1>3. ASSUME NEW a \in DOMAIN answers, answers[a] # NoOwner
        PROVE  program'[answers[a]] = a
    <2>1. a \in Apps /\ answers[a] \in Pids
      BY <1>3 DEF SystemInv, SystemTypeOK, StartupOK
    <2>2. QED
      BY <1>1, <1>3, <2>1 DEF PidsTrue
  <1>4. ASSUME NEW a \in Apps, apps'[a].pid # NoPid
        PROVE  program'[apps'[a].pid] = a
    <2>1. CASE apps'[a].pid = apps[a].pid
      <3>1. apps[a].pid \in Pids
        BY <1>4, <2>1 DEF IInv, TypeOK, AppRecord
      <3>2. QED
        BY <1>1, <1>4, <2>1, <3>1 DEF PidsTrue
    <2>2. CASE apps'[a].pid = OwnerPid(a)
      BY <1>2, <1>4, <2>2
    <2>3. CASE a \in DOMAIN answers /\ answers[a] # NoOwner /\ apps'[a].pid = answers[a]
      BY <1>3, <2>3
    <2>4. QED
      BY <1>4, <2>1, <2>2, <2>3, RecordPids DEF PidStep
  <1>5. ASSUME NEW a \in DOMAIN answers', answers'[a] # NoOwner
        PROVE  program'[answers'[a]] = a
    <2>1. CASE answers' = answers
      BY <1>3, <1>5, <2>1
    <2>2. ASSUME NEW b \in Apps, AskBus(b)
          PROVE  program'[answers'[a]] = a
      <3>1. answers' = [c \in DOMAIN answers \cup {b} |->
                          IF c = b THEN IF OwnerPid(b) = NoPid THEN NoOwner ELSE OwnerPid(b)
                          ELSE answers[c]]
        BY <2>2 DEF AskBus
      <3>2. CASE a = b
        <4>1. answers'[b] = IF OwnerPid(b) = NoPid THEN NoOwner ELSE OwnerPid(b)
          BY <3>1
        <4>2. OwnerPid(b) # NoPid /\ answers'[b] = OwnerPid(b)
          BY <1>5, <3>2, <4>1
        <4>3. QED
          BY <1>2, <3>2, <4>2
      <3>3. CASE a # b
        <4>1. a \in DOMAIN answers /\ answers'[a] = answers[a]
          BY <1>5, <3>1, <3>3
        <4>2. QED
          BY <1>3, <1>5, <4>1
      <3>4. QED
        BY <3>2, <3>3
    <2>3. QED
      BY <2>1, <2>2, AnswersChange
  <1>6. QED
    BY <1>4, <1>5 DEF PidsTrue

(* What a step may do to processes, windows and their events.              *)
Unmapped(p) == [pid |-> p, event |-> "unmap"]
Queued(p) == \E i \in 1..Len(xEvents) : xEvents[i] = Unmapped(p)
Reported(p) == InHand(p) \/ Queued(p)

QuietForWindows ==
    alive' \subseteq alive /\ UNCHANGED <<program, windows, mapped, shown, xEvents, unmapping>>

LEMMA QuietLazyInv ==
  ASSUME ProcessesHaveWindows, LazyShutdownReported, QuietForWindows
  PROVE  ProcessesHaveWindows' /\ LazyShutdownReported'
  BY DEF QuietForWindows, ProcessesHaveWindows, LazyShutdownReported, Lazy, LazilyShutDown,
         InHand

LEMMA StartProcessLazyInv ==
  ASSUME ~PidsReused, SystemInv, ProcessesHaveWindows, LazyShutdownReported,
         NEW q \in Pids, NEW prog \in Programs, StartProcess(q, prog)
  PROVE  ProcessesHaveWindows' /\ LazyShutdownReported'
  <1>1. /\ program[q] = Nothing /\ q \notin shown /\ program' = [program EXCEPT ![q] = prog]
        /\ alive' = alive \cup {q} /\ windows' = windows \cup {q}
        /\ UNCHANGED <<mapped, shown, xEvents, unmapping>>
    BY DEF StartProcess, Free, ProcessesHaveWindows, daemonVars
  <1>2. prog # Nothing /\ program \in [Pids -> Programs \cup {Nothing}]
    BY ProgramsAssumption DEF Programs, SystemInv, SystemTypeOK, ProcessesOK
  <1>3. windows \subseteq Pids /\ shown \subseteq Pids /\ alive \subseteq Pids
    BY DEF SystemInv, SystemTypeOK, ProcessesOK
  <1>4. ProcessesHaveWindows'
    BY <1>1, <1>2, <1>3 DEF ProcessesHaveWindows
  <1>5. ASSUME NEW p \in Pids, Lazy(p)' PROVE Lazy(p)
    BY <1>1, <1>2, <1>3, <1>5 DEF Lazy, LazilyShutDown
  <1>6. LazyShutdownReported'
    BY <1>1, <1>5 DEF LazyShutdownReported, InHand
  <1>7. QED
    BY <1>4, <1>6

(* Posting an event loses none.                                            *)
LEMMA PostKeepsReports ==
  ASSUME xEvents \in Seq(XEvent), NEW q \in Pids, NEW event \in {"map", "unmap"},
         PostXEvent(q, event)
  PROVE  /\ \A p : Queued(p) => Queued(p)'
         /\ event = "unmap" => Queued(q)'
  <1> DEFINE e == [pid |-> q, event |-> event]
  <1>1. e \in XEvent
    BY DEF XEvent
  <1>2. xEvents' = Append(xEvents, e)
    BY DEF PostXEvent
  <1>3. /\ Len(xEvents') = Len(xEvents) + 1 /\ Len(xEvents) \in Nat
        /\ \A i \in 1..Len(xEvents) : xEvents'[i] = xEvents[i]
        /\ xEvents'[Len(xEvents) + 1] = e
    BY <1>1, <1>2, AppendProperties, LenProperties
  <1>4. event = "unmap" => e = Unmapped(q)
    BY DEF Unmapped
  <1> HIDE DEF e
  <1>5. \A i \in 1..Len(xEvents) : i \in 1..Len(xEvents')
    BY <1>3
  <1>6. Len(xEvents) + 1 \in 1..Len(xEvents')
    BY <1>3
  <1>7. QED
    BY <1>3, <1>4, <1>5, <1>6 DEF Queued

LEMMA WindowLazyInv ==
  ASSUME SystemInv, ProcessesHaveWindows, LazyShutdownReported, NEW q \in Pids,
         Show(q) \/ Hide(q)
  PROVE  ProcessesHaveWindows' /\ LazyShutdownReported'
  <1>1. /\ q \in alive /\ UNCHANGED <<program, alive, windows>>
        /\ shown' \subseteq shown \cup {q}
    BY DEF Show, Hide
  <1>2. program[q] # Nothing
    BY <1>1, ProgramsAssumption DEF Programs, SystemInv, SystemTypeOK, ProcessesOK
  <1>3. ProcessesHaveWindows'
    BY <1>1, <1>2 DEF ProcessesHaveWindows
  <1>4. xEvents \in Seq(XEvent)
    BY DEF SystemInv, SystemTypeOK, QueuesOK
  <1>5. \A p \in Pids : Lazy(p) => Reported(p)
    BY DEF LazyShutdownReported, Reported, Queued, Unmapped
  <1>9. ASSUME NEW p \in Pids, InHand(p) PROVE InHand(p)'
    <2>1. CASE unmapping' = unmapping
      BY <1>9, <2>1 DEF InHand
    <2>2. CASE unmapping' = [unmapping EXCEPT !.wasHidden = TRUE]
      <3>1. ~Idle
        BY <1>9, NoPidAssumption DEF InHand, Idle, NoEvent
      <3>2. unmapping \in [step : Steps, pid : Pids, wasHidden : BOOLEAN]
        BY <3>1 DEF SystemInv, SystemTypeOK, HandlerOK, Steps
      <3>3. QED
        BY <1>9, <2>2, <3>2 DEF InHand
    <2>3. QED
      BY <2>1, <2>2 DEF Show, Hide, daemonVars
  <1>6. ASSUME NEW p \in Pids, Lazy(p)' PROVE Reported(p)'
    <2>1. CASE Show(q)
      <3>1. p # q /\ Lazy(p)
        BY <1>6, <2>1 DEF Show, Lazy, LazilyShutDown
      <3>2. PostXEvent(q, "map")
        BY <2>1 DEF Show
      <3>3. QED
        BY <1>4, <1>5, <1>9, <3>1, <3>2, PostKeepsReports DEF Reported
    <2>2. CASE Hide(q)
      <3>1. p = q \/ Lazy(p)
        BY <1>6, <2>2 DEF Hide, Lazy, LazilyShutDown
      <3>2. PostXEvent(q, "unmap")
        BY <2>2 DEF Hide
      <3>3. QED
        BY <1>4, <1>5, <1>9, <3>1, <3>2, PostKeepsReports DEF Reported
    <2>3. QED
      BY <2>1, <2>2
  <1>7. LazyShutdownReported'
    BY <1>6 DEF LazyShutdownReported, Reported, Queued, Unmapped
  <1>8. QED
    BY <1>3, <1>7

LEMMA DeathLazyInv ==
  ASSUME SystemInv, ProcessesHaveWindows, LazyShutdownReported, NEW q \in Pids,
         BusNoticesDeath(q) \/ XNoticesDeath(q)
  PROVE  ProcessesHaveWindows' /\ LazyShutdownReported'
  <1>1. /\ UNCHANGED <<program, alive, xEvents, unmapping>> /\ q \notin alive
        /\ windows' \subseteq windows /\ shown' \subseteq shown
        /\ windows \ {q} \subseteq windows' /\ mapped \ {q} \subseteq mapped'
    BY DEF BusNoticesDeath, XNoticesDeath, daemonVars
  <1>2. ProcessesHaveWindows'
    BY <1>1 DEF ProcessesHaveWindows
  <1>3. ASSUME NEW p \in Pids, Lazy(p)' PROVE Lazy(p)
    BY <1>1, <1>3 DEF Lazy, LazilyShutDown
  <1>4. LazyShutdownReported'
    BY <1>1, <1>3 DEF LazyShutdownReported, InHand
  <1>5. QED
    BY <1>2, <1>4

(* A program that is lazily shut down and may not be is none the daemon    *)
(* manages.                                                                *)
LEMMA LazyNotManaged ==
  ASSUME IInv, PidsTrue, NEW p \in Pids, Lazy(p)
  PROVE  ~Managed(p)
  <1>1. p # NoPid /\ program[p] \notin Apps
    BY ProgramsAssumption, NoPidAssumption DEF Lazy
  <1>2. vectApps \subseteq Apps
    BY DEF IInv, TypeOK
  <1>3. QED
    BY <1>1, <1>2 DEF Managed, PidsTrue

(* The daemon takes an event out of the queue.  If it is the unmap event   *)
(* of a program that is lazily shut down, it goes on with it.              *)
LEMMA TakenLazyInv ==
  ASSUME IInv, SystemInv, LazyInv, HandleXMapEvent \/ HandleXUnmapEvent
  PROVE  ProcessesHaveWindows' /\ LazyShutdownReported'
  <1>1. /\ Idle /\ xEvents # <<>> /\ xEvents' = Tail(xEvents)
        /\ UNCHANGED <<program, alive, windows, mapped, shown>>
    BY DEF HandleXMapEvent, HandleXUnmapEvent, processVars
  <1>2. ProcessesHaveWindows'
    BY <1>1 DEF LazyInv, ProcessesHaveWindows
  <1>3. /\ Head(xEvents) = xEvents[1] /\ Len(xEvents) \in Nat
        /\ Len(Tail(xEvents)) = Len(xEvents) - 1
        /\ \A i \in 1..Len(Tail(xEvents)) : Tail(xEvents)[i] = xEvents[i + 1]
    <2>1. xEvents \in Seq(XEvent)
      BY DEF SystemInv, SystemTypeOK, QueuesOK
    <2>2. QED
      BY <1>1, <2>1, HeadTailProperties, LenProperties
  <1>4. ASSUME NEW p \in Pids, Lazy(p)' PROVE Reported(p)'
    <2>1. Lazy(p)
      BY <1>1, <1>4 DEF Lazy, LazilyShutDown
    <2>2. ~InHand(p)
      BY <1>1, NoPidAssumption DEF Idle, NoEvent, InHand
    <2>3. PICK i \in 1..Len(xEvents) : xEvents[i] = Unmapped(p)
      BY <2>1, <2>2 DEF LazyInv, LazyShutdownReported, Unmapped
    <2>4. CASE i # 1
      <3>1. i - 1 \in 1..Len(Tail(xEvents)) /\ Tail(xEvents)[i - 1] = xEvents[i]
        BY <1>3, <2>3, <2>4
      <3>2. QED
        BY <1>1, <2>3, <3>1 DEF Reported, Queued
    <2>5. CASE i = 1
      <3>1. Head(xEvents).pid = p /\ Head(xEvents).event = "unmap"
        BY <1>3, <2>3, <2>5 DEF Unmapped
      <3>2. HandleXUnmapEvent
        BY <3>1 DEF HandleXMapEvent
      <3>3. HasWindowPid(Head(xEvents))
        BY <2>1, <3>1 DEF Lazy, LazilyShutDown, HasWindowPid, LazyInv, ProcessesHaveWindows
      <3>4. ~Managed(p)
        BY <2>1, LazyNotManaged DEF LazyInv
      <3>5. unmapping' = [step |-> "flag", pid |-> p, wasHidden |-> p \notin mapped]
        BY <3>1, <3>2, <3>3, <3>4 DEF HandleXUnmapEvent
      <3>6. QED
        BY <3>5 DEF Reported, InHand
    <2>6. QED
      BY <2>4, <2>5
  <1>5. LazyShutdownReported'
    BY <1>4 DEF LazyShutdownReported, Reported, Queued, Unmapped
  <1>6. QED
    BY <1>2, <1>5

(* None of the questions that follow lets such a program go while it is    *)
(* lazily shut down, and the last step kills it.                           *)
LEMMA GoesOnLazyInv ==
  ASSUME SystemInv, LazyInv, UnmapEventGoesOn
  PROVE  ProcessesHaveWindows' /\ LazyShutdownReported'
  <1>1. /\ alive' \subseteq alive
        /\ UNCHANGED <<program, windows, mapped, shown, xEvents>>
    BY DEF UnmapEventGoesOn, CheckWindows, CheckFlag, CheckName, AskPidAgain,
       KillLazyProgram, OnlyHandlerMoves, processVars
  <1>2. ProcessesHaveWindows'
    BY <1>1 DEF LazyInv, ProcessesHaveWindows
  <1>3. ASSUME NEW p \in Pids, Lazy(p)' PROVE Reported(p)'
    <2>1. Lazy(p) /\ p \in alive'
      BY <1>1, <1>3 DEF Lazy, LazilyShutDown
    <2>2. CASE Queued(p)
      BY <1>1, <2>2 DEF Reported, Queued
    <2>3. CASE InHand(p)
      <3>1. unmapping.pid = p /\ ~Idle /\ unmapping.step # "windows"
        BY <2>3, NoPidAssumption DEF InHand, Idle, NoEvent
      <3>2. p \in windows \ mapped /\ program[p] \notin AllowedLazyShutdown \cup Protected
        BY <2>1 DEF Lazy, LazilyShutDown, LazyInv, ProcessesHaveWindows
      <3>3. ASSUME NEW step \in Steps \ {"windows"}, ContinueWith(step)
            PROVE  InHand(p)'
        <4>1. unmapping \in [step : Steps, pid : Pids, wasHidden : BOOLEAN]
          BY <3>1 DEF SystemInv, SystemTypeOK, HandlerOK, Steps
        <4>2. QED
          BY <3>1, <3>3, <4>1 DEF ContinueWith, InHand
      <3>4. ~CheckWindows
        BY <3>1 DEF CheckWindows
      <3>5. CASE CheckFlag
        <4>1. ContinueWith("name")
          BY <3>1, <3>2, <3>5 DEF CheckFlag, IsPrestarted
        <4>2. QED
          BY <3>3, <4>1 DEF Reported, Steps
      <3>6. CASE CheckName
        <4>1. ~LazyShutdownAllowed(ApplicationName(p))
          BY <3>2, ProgramsAssumption DEF LazyShutdownAllowed, ApplicationName
        <4>2. ContinueWith("pid")
          BY <3>1, <3>6, <4>1 DEF CheckName
        <4>3. QED
          BY <3>3, <4>2 DEF Reported, Steps
      <3>7. CASE AskPidAgain
        <4>1. ContinueWith("kill")
          BY <3>1, <3>2, <3>7 DEF AskPidAgain
        <4>2. QED
          BY <3>3, <4>1 DEF Reported, Steps
      <3>8. ~KillLazyProgram
        BY <2>1, <3>1, <3>2 DEF KillLazyProgram, MayKill
      <3>9. QED
        BY <3>4, <3>5, <3>6, <3>7, <3>8 DEF UnmapEventGoesOn
    <2>4. QED
      BY <2>1, <2>2, <2>3 DEF LazyInv, LazyShutdownReported, Queued, Unmapped
  <1>4. LazyShutdownReported'
    BY <1>3 DEF LazyShutdownReported, Reported, Queued, Unmapped
  <1>5. QED
    BY <1>2, <1>4

LEMMA StepLazyInv ==
  ASSUME ~PidsReused, IInv, SystemInv, LazyInv, [SystemNext]_systemVars
  PROVE  LazyInv'
  <1>1. PidsTrue'
    BY StepPidsTrue DEF LazyInv
  <1>2. ProcessesHaveWindows /\ LazyShutdownReported
    BY DEF LazyInv
  <1>3. QuietForWindows => ProcessesHaveWindows' /\ LazyShutdownReported'
    BY <1>2, QuietLazyInv
  <1>4. CASE UNCHANGED systemVars
    <2>1. QuietForWindows
      BY <1>4 DEF systemVars, environmentVars, processVars, daemonVars, QuietForWindows
    <2>2. QED
      BY <1>1, <1>3, <2>1 DEF LazyInv
  <1>5. CASE EnvironmentStep
    <2>1. ASSUME NEW q \in Pids, NEW prog \in Programs, StartProcess(q, prog)
          PROVE  ProcessesHaveWindows' /\ LazyShutdownReported'
      BY <1>2, <2>1, StartProcessLazyInv
    <2>2. \/ \E q \in Pids, prog \in Programs : StartProcess(q, prog)
          \/ \E q \in Pids : Show(q) \/ Hide(q) \/ BusNoticesDeath(q) \/ XNoticesDeath(q)
          \/ QuietForWindows
      <3>1. ASSUME NEW q \in Pids, JoinBus(q) \/ Die(q) PROVE QuietForWindows
        BY <3>1 DEF JoinBus, Die, daemonVars, QuietForWindows
      <3>2. ASSUME NEW a, PingWithoutStart(a) PROVE QuietForWindows
        BY <3>2 DEF PingWithoutStart, environmentVars, processVars, daemonVars, QuietForWindows
      <3>3. ASSUME NEW newState, ScreenChanges(newState) PROVE QuietForWindows
        BY <3>3 DEF ScreenChanges, environmentVars, processVars, daemonVars, QuietForWindows
      <3>4. ASSUME NEW gone, Terminate(gone) PROVE QuietForWindows
        BY <3>4 DEF Terminate, environmentVars, processVars, daemonVars, QuietForWindows
      <3>5. QED
        BY <1>5, <3>1, <3>2, <3>3, <3>4 DEF EnvironmentStep, Launch, Activate, Programs
    <2>3. QED
      BY <1>1, <1>2, <1>3, <2>1, <2>2, WindowLazyInv, DeathLazyInv DEF LazyInv
  <1>6. CASE DaemonStep
    <2>1. HandleXMapEvent \/ HandleXUnmapEvent \/ UnmapEventGoesOn \/ QuietForWindows
      <3>1. ASSUME NEW a, AskBus(a) \/ WatchService(a) PROVE QuietForWindows
        BY <3>1 DEF AskBus, WatchService, processVars, QuietForWindows
      <3>2. ASSUME StartPrestarts \/ HandleRegistered \/ HandleUnregistered
            PROVE  QuietForWindows
        BY <3>2 DEF StartPrestarts, HandleRegistered, HandleUnregistered, environmentVars,
           processVars, daemonVars, QuietForWindows
      <3>3. ASSUME NEW l, Poll(l) PROVE QuietForWindows
        BY <3>3 DEF Poll, environmentVars, processVars, daemonVars, QuietForWindows
      <3>4. ASSUME NEW gone, ForcedRePrestartTimeout(gone) PROVE QuietForWindows
        BY <3>4 DEF ForcedRePrestartTimeout, daemonVars, QuietForWindows
      <3>5. QED
        BY <1>6, <3>1, <3>2, <3>3, <3>4 DEF DaemonStep
    <2>2. QED
      BY <1>1, <1>3, <2>1, TakenLazyInv, GoesOnLazyInv DEF LazyInv
  <1>7. QED
    BY <1>4, <1>5, <1>6 DEF SystemNext

LEMMA CoreInvAlways == SystemSpec => []IInv
  BY SystemRefinesPrestarter, IInvAlways, PTL DEF PrestarterSpec

LEMMA LazyInvAlways ==
  ASSUME ~PidsReused
  PROVE  SystemSpec => []LazyInv
  <1>1. IInv /\ SystemInv /\ LazyInv /\ [SystemNext]_systemVars => LazyInv'
    BY StepLazyInv
  <1>2. QED
    BY <1>1, InitLazyInv, SystemInvAlways, CoreInvAlways, PTL DEF SystemSpec

(* No program that is neither managed nor white-listed, and that the       *)
(* daemon may signal, gets away with a lazy shutdown for want of an event: *)
(* as long as it lives with its window hidden, an unmap event of that      *)
(* window is on its way or being worked on, and no answer makes the        *)
(* handler drop it (handleXUnmapEvent).  It takes pids that do not come    *)
(* back: the daemon forgets the pid of a managed application only with the *)
(* next request.                                                           *)
THEOREM LazyShutdownAlwaysReported ==
  ASSUME ~PidsReused
  PROVE  SystemSpec => []LazyShutdownReported
  <1>1. LazyInv => LazyShutdownReported
    BY DEF LazyInv
  <1>2. QED
    BY <1>1, LazyInvAlways, PTL

(***************************************************************************)
(* Only programs that were lazily shut down are killed for it, although    *)
(* the handler waits for four answers between taking up the event and the  *)
(* kill.  What it has found out must not be undone in the meantime: that   *)
(* the pid is none the daemon knows, that the window was hidden, and that  *)
(* the program is not on the white list.                                   *)
(***************************************************************************)
PolicingInv ==
    ~Idle /\ unmapping.step # "windows" =>
        LET p == unmapping.pid
        IN  /\ program[p] # Nothing
            /\ ~Managed(p)
            /\ p \in windows => p \in shown
            /\ p \in windows \ mapped \/ unmapping.step # "flag" => unmapping.wasHidden
            /\ /\ unmapping.step \in {"pid", "kill"}
               /\ p \in windows
               /\ program[p] \in AllowedLazyShutdown
               => program[p] \in Nameless

(* The window of a process is the same one all its life, and its being     *)
(* hidden is noted.                                                        *)
LEMMA WindowSteps ==
  ASSUME ~PidsReused, SystemInv, [SystemNext]_systemVars, NEW p \in Pids,
         program[p] # Nothing
  PROVE  /\ p \in windows' => p \in windows
         /\ p \in windows' /\ p \in shown => p \in shown'
         /\ p \in windows' \ mapped' => p \notin mapped \/ Hide(p)
  <1>1. ASSUME NEW q \in Pids, NEW prog, StartProcess(q, prog)
        PROVE  p # q
    BY <1>1 DEF StartProcess, Free
  <1>2. CASE EnvironmentStep
    BY <1>1, <1>2 DEF EnvironmentStep, Launch, Activate, StartProcess, PingWithoutStart,
       JoinBus, Show, Hide, Die, BusNoticesDeath, XNoticesDeath, ScreenChanges, Terminate,
       environmentVars, processVars
  <1>3. CASE DaemonStep
    <2>1. UNCHANGED <<windows, mapped, shown>>
      BY <1>3 DEF DaemonStep, AskBus, WatchService, StartPrestarts, HandleRegistered,
         HandleUnregistered, HandleXMapEvent, HandleXUnmapEvent, UnmapEventGoesOn,
         CheckWindows, CheckFlag, CheckName, AskPidAgain, KillLazyProgram,
         OnlyHandlerMoves, Poll, ForcedRePrestartTimeout, environmentVars, processVars
    <2>2. QED
      BY <2>1
  <1>4. CASE UNCHANGED systemVars
    BY <1>4 DEF systemVars, environmentVars, processVars
  <1>5. QED
    BY <1>2, <1>3, <1>4 DEF SystemNext

LEMMA InitPolicingInv == SystemInit => PolicingInv
  BY DEF SystemInit, PolicingInv, Idle

(* While the handler waits, others go on. *)
LEMMA WaitingPolicingInv ==
  ASSUME ~PidsReused, SystemInv, PolicingInv, [SystemNext]_systemVars, ~Idle,
         unmapping.step # "windows",
         unmapping'.step = unmapping.step, unmapping'.pid = unmapping.pid,
         \/ unmapping' = unmapping
         \/ Hide(unmapping.pid) /\ unmapping'.wasHidden,
         Idle' \/ UNCHANGED <<apps, vectApps>>
  PROVE  PolicingInv'
  <1> DEFINE p == unmapping.pid
  <1>1. p \in Pids
    BY DEF SystemInv, SystemTypeOK, HandlerOK
  <1>2. /\ program[p] # Nothing /\ ~Managed(p)
        /\ p \in windows => p \in shown
        /\ p \in windows \ mapped \/ unmapping.step # "flag" => unmapping.wasHidden
        /\ /\ unmapping.step \in {"pid", "kill"}
           /\ p \in windows
           /\ program[p] \in AllowedLazyShutdown
           => program[p] \in Nameless
    BY DEF PolicingInv
  <1>3. program'[p] = program[p]
    BY <1>1, <1>2, UsedPidsKept
  <1>4. /\ p \in windows' => p \in windows
        /\ p \in windows' /\ p \in shown => p \in shown'
        /\ p \in windows' \ mapped' => p \notin mapped \/ Hide(p)
    BY <1>1, <1>2, WindowSteps
  <1>5. unmapping' = unmapping /\ Hide(p) => unmapping'.wasHidden
    <2>1. unmapping \in [step : Steps, pid : Pids, wasHidden : BOOLEAN]
      BY DEF SystemInv, SystemTypeOK, HandlerOK, Steps
    <2>2. QED
      BY <2>1 DEF Hide
  <1>6. ~Idle' => ~Managed(p)'
    BY <1>2 DEF Managed
  <1> HIDE DEF p
  <1>7. unmapping'.pid = p
    BY DEF p
  <1>8. p \in windows' \ mapped' \/ unmapping'.step # "flag" => unmapping'.wasHidden
    <2>1. Hide(p) => unmapping'.wasHidden
      BY <1>5 DEF p
    <2>2. ~Hide(p) => unmapping' = unmapping
      BY DEF p
    <2>3. QED
      BY <1>2, <1>4, <2>1, <2>2
  <1>9. QED
    BY <1>2, <1>3, <1>4, <1>6, <1>7, <1>8 DEF PolicingInv, Managed

(* The handler takes up an event, or gets its next answer. *)
LEMMA TakenPolicingInv ==
  ASSUME SystemInv, HandleXUnmapEvent
  PROVE  PolicingInv'
  <1> DEFINE p == Head(xEvents).pid
  <1>1. xEvents # <<>> /\ UNCHANGED <<vars, program, windows, mapped, shown>>
    BY DEF HandleXUnmapEvent, processVars
  <1>2. /\ program[p] # Nothing
        /\ p \in windows => p \in shown
    <2>1. 1 \in 1..Len(xEvents) /\ Head(xEvents) = xEvents[1]
      BY <1>1, HeadAndTail DEF SystemInv, SystemTypeOK, QueuesOK
    <2>2. QED
      BY <2>1 DEF SystemInv, SystemTypeOK, QueuesOK, EventsOfProcesses
  <1>3. CASE unmapping' = NoEvent
    BY <1>3 DEF PolicingInv, Idle
  <1>4. CASE unmapping' = [step |-> "windows", pid |-> p, wasHidden |-> p \notin mapped]
    BY <1>4 DEF PolicingInv
  <1>5. CASE /\ unmapping' = [step |-> "flag", pid |-> p, wasHidden |-> p \notin mapped]
             /\ ~Managed(p)
    BY <1>1, <1>2, <1>5 DEF PolicingInv, Managed, vars
  <1>6. QED
    BY <1>3, <1>4, <1>5 DEF HandleXUnmapEvent

LEMMA AnsweredPolicingInv ==
  ASSUME SystemInv, PolicingInv, UnmapEventGoesOn
  PROVE  PolicingInv'
  <1> DEFINE p == unmapping.pid
  <1>1. CASE Idle'
    BY <1>1 DEF PolicingInv
  <1>2. ASSUME NEW step \in Steps, ContinueWith(step), unmapping.step \in Steps \ {"windows"},
               OnlyHandlerMoves,
               step # "flag", unmapping.step = "flag" => p \in windows \ mapped,
               step \in {"pid", "kill"} /\ p \in windows
                   /\ program[p] \in AllowedLazyShutdown => program[p] \in Nameless
        PROVE  PolicingInv'
    <2>1. unmapping.step # "none" /\ unmapping.step # "windows"
      BY <1>2 DEF Steps
    <2>2. unmapping \in [step : Steps, pid : Pids, wasHidden : BOOLEAN] /\ ~Idle
      BY <2>1 DEF Idle, NoEvent, SystemInv, SystemTypeOK, HandlerOK, Steps
    <2>3. /\ program[p] # Nothing /\ ~Managed(p)
          /\ p \in windows => p \in shown
          /\ unmapping.wasHidden
      BY <1>2, <2>1, <2>2 DEF PolicingInv
    <2>4. /\ unmapping'.pid = p /\ unmapping'.step = step
          /\ unmapping'.wasHidden = unmapping.wasHidden
      BY <1>2, <2>2 DEF ContinueWith
    <2>5. UNCHANGED <<apps, vectApps, program, windows, mapped, shown>>
      BY <1>2 DEF OnlyHandlerMoves, vars, processVars
    <2> HIDE DEF p
    <2>6. QED
      BY <1>2, <2>3, <2>4, <2>5 DEF PolicingInv, Managed
  <1>3. CASE CheckFlag
    BY <1>1, <1>2, <1>3 DEF CheckFlag, IsPrestarted, Return, Idle, Steps
  <1>4. CASE CheckName
    <2>1. CASE Return
      BY <1>1, <2>1 DEF Return, Idle
    <2>2. CASE ContinueWith("pid") /\ ~LazyShutdownAllowed(ApplicationName(p))
      <3>1. p \in windows /\ program[p] \in AllowedLazyShutdown => program[p] \in Nameless
        BY <2>2 DEF LazyShutdownAllowed, ApplicationName
      <3>2. QED
        BY <1>2, <1>4, <2>2, <3>1 DEF CheckName, Steps
    <2>3. QED
      BY <1>4, <2>1, <2>2 DEF CheckName
  <1>5. CASE AskPidAgain
    <2>1. CASE Return
      BY <1>1, <2>1 DEF Return, Idle
    <2>2. CASE ContinueWith("kill")
      <3>1. unmapping.step = "pid" /\ ~Idle
        BY <1>5 DEF AskPidAgain, Idle, NoEvent
      <3>2. p \in windows /\ program[p] \in AllowedLazyShutdown => program[p] \in Nameless
        BY <3>1 DEF PolicingInv
      <3>3. QED
        BY <1>2, <1>5, <2>2, <3>1, <3>2 DEF AskPidAgain, Steps
    <2>3. QED
      BY <1>5, <2>1, <2>2 DEF AskPidAgain
  <1>6. CASE CheckWindows \/ KillLazyProgram
    BY <1>1, <1>6 DEF CheckWindows, KillLazyProgram, Return, Idle
  <1>7. QED
    BY <1>3, <1>4, <1>5, <1>6 DEF UnmapEventGoesOn

LEMMA StepPolicingInv ==
  ASSUME ~PidsReused, SystemInv, PolicingInv, [SystemNext]_systemVars
  PROVE  PolicingInv'
  <1>1. Idle \/ Idle' \/ UNCHANGED <<apps, vectApps>>
    BY SystemStepIsPrestarterStep DEF PrestarterStep, SlotOrder
  <1>2. ~Idle => unmapping \in [step : Steps, pid : Pids, wasHidden : BOOLEAN]
    BY DEF SystemInv, SystemTypeOK, HandlerOK, Steps
  <1>3. CASE unmapping' = unmapping
    <2>1. CASE Idle \/ unmapping.step = "windows"
      BY <1>3, <2>1 DEF PolicingInv, Idle
    <2>2. CASE ~Idle /\ unmapping.step # "windows"
      BY <1>1, <1>3, <2>2, WaitingPolicingInv
    <2>3. QED
      BY <2>1, <2>2
  <1>4. ASSUME NEW q \in Pids, Hide(q), unmapping' # unmapping
        PROVE  PolicingInv'
    <2>1. unmapping.pid = q /\ unmapping' = [unmapping EXCEPT !.wasHidden = TRUE]
      BY <1>4 DEF Hide
    <2>2. ~Idle
      BY <2>1, NoPidAssumption DEF Idle, NoEvent
    <2>3. unmapping'.step = unmapping.step /\ unmapping'.pid = q /\ unmapping'.wasHidden
      BY <1>2, <2>1, <2>2
    <2>4. CASE unmapping.step = "windows"
      BY <2>3, <2>4 DEF PolicingInv
    <2>5. CASE unmapping.step # "windows"
      BY <1>1, <1>4, <2>1, <2>2, <2>3, <2>5, WaitingPolicingInv
    <2>6. QED
      BY <2>4, <2>5
  <1>5. QED
    BY <1>3, <1>4, UnmappingChange, TakenPolicingInv, AnsweredPolicingInv

(* The last step of the handler is the only one that kills for a lazy      *)
(* shutdown.                                                               *)
LEMMA OnlyHandlerPolices ==
  ASSUME [SystemNext]_systemVars, NEW p, Policed(p)
  PROVE  KillLazyProgram /\ p = unmapping.pid
  <1>1. alive' # alive /\ ~(alive \subseteq alive')
    BY DEF Policed
  <1>2. ~(\E q \in Pids : Hide(q)) /\ ~HandleXUnmapEvent
    BY <1>1 DEF Hide, HandleXUnmapEvent, processVars
  <1>3. UnmapEventGoesOn
    BY <1>2, UnmappingChange DEF Policed
  <1>4. KillLazyProgram
    BY <1>1, <1>3 DEF UnmapEventGoesOn, CheckWindows, CheckFlag, CheckName, AskPidAgain,
       OnlyHandlerMoves, processVars
  <1>5. QED
    BY <1>4 DEF KillLazyProgram, Policed

(* A process killed for a lazy shutdown had hidden its window while the    *)
(* daemon was at its event, is not known to be managed, and is white-listed *)
(* only if its window has no name, whatever processes do between the four  *)
(* answers the handler waits for (handleXUnmapEvent).  It takes pids that  *)
(* do not come back: the kill goes by the pid.                             *)
THEOREM OnlyLazyProgramsEverPoliced ==
  ASSUME ~PidsReused
  PROVE  SystemSpec => OnlyLazyProgramsPoliced
  <1>1. SystemInv /\ PolicingInv /\ [SystemNext]_systemVars => PolicingInv'
    BY StepPolicingInv
  <1>2. SystemInv /\ LazyInv /\ PolicingInv /\ [SystemNext]_systemVars =>
          [\A p \in Pids : Policed(p) =>
              /\ p \in shown /\ unmapping.wasHidden
              /\ ~Managed(p)
              /\ program[p] \in AllowedLazyShutdown => program[p] \in Nameless]_systemVars
    <2> SUFFICES ASSUME SystemInv, LazyInv, PolicingInv, [SystemNext]_systemVars,
                        NEW p \in Pids, Policed(p)
                 PROVE  /\ p \in shown /\ unmapping.wasHidden
                        /\ ~Managed(p)
                        /\ program[p] \in AllowedLazyShutdown => program[p] \in Nameless
      OBVIOUS
    <2>1. KillLazyProgram /\ p = unmapping.pid
      BY OnlyHandlerPolices
    <2>2. unmapping.step = "kill" /\ ~Idle
      BY <2>1 DEF KillLazyProgram, Idle, NoEvent
    <2>3. p \in windows
      BY DEF Policed, LazyInv, ProcessesHaveWindows
    <2>4. QED
      BY <2>1, <2>2, <2>3 DEF PolicingInv
  <1>3. SystemSpec => []LazyInv
    BY LazyInvAlways
  <1>4. QED
    BY <1>1, <1>2, <1>3, InitPolicingInv, SystemInvAlways, PTL
       DEF SystemSpec, OnlyLazyProgramsPoliced
=============================================================================
