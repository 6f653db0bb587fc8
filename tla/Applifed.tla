------------------------------ MODULE Applifed ------------------------------
(***************************************************************************)
(* The daemon (src/daemon.cpp around Prestarter) among the processes it    *)
(* manages, the session bus and the X server.  Module Prestarter lets its  *)
(* handlers be called at any time with anything; here they are called with *)
(* what the bus and the X server report:                                   *)
(*                                                                         *)
(*  - a process loses its bus name and its window when it ends, in either  *)
(*    order, because two servers notice it independently;                  *)
(*  - bus notifications and window events reach the daemon over two        *)
(*    connections, each in order, but in no order between them;            *)
(*  - the pid that owns a service, the pid of a window and the windows of  *)
(*    a pid are asked for when the notification is handled, not when it    *)
(*    was sent;                                                            *)
(*  - the handler of an unmap event asks the X server several questions,   *)
(*    and what one answer said may be over when the next one comes;        *)
(*  - while the daemon reads its configuration, it asks the bus about a    *)
(*    service before it watches that service.                              *)
(*                                                                         *)
(* The daemon is not in the test mode here.                                *)
(***************************************************************************)
EXTENDS Prestarter, Sequences, FiniteSets

CONSTANTS
    Outsiders,             \* programs the configuration does not manage
    AllowedLazyShutdown,   \* the white list: programs with allow_lazy_shutdown
    Nameless,              \* programs whose windows have no WM_COMMAND
    Protected,             \* programs the daemon has no permission to signal
    QuietStartup,          \* no service changes between being asked for and watched
    PidsReused,            \* a pid may come back for another process
    MaxPending             \* bound on the length of each event queue

Nothing == "nothing"   \* what a pid runs that was never used

ASSUME ProgramsAssumption ==
    /\ Outsiders \cap Apps = {}
    /\ Nothing \notin Apps \cup Outsiders
    /\ AllowedLazyShutdown \subseteq Outsiders
    /\ Nameless \subseteq Apps \cup Outsiders
    /\ Protected \subseteq Apps \cup Outsiders
    /\ QuietStartup \in BOOLEAN
    /\ PidsReused \in BOOLEAN
    /\ TestMode = FALSE

VARIABLES
    program,   \* what each pid runs, or ran last
    alive,     \* pids of running processes
    onBus,     \* pids that own the service name of their program
    windows,   \* pids whose window exists in the X server
    mapped,    \* pids whose window is mapped
    shown,     \* history: pids whose window was mapped since they started
    bus,       \* bus notifications not handled yet
    xEvents,   \* window events not handled yet
    answers,   \* start-up: what the bus said about each service asked for
    seen,      \* start-up: pids found to have windows
    watched,   \* services added to m_serviceWatcher
    unmapping  \* the unmap event handleXUnmapEvent is busy with, and its next step

processVars == <<program, alive, onBus, windows, mapped, shown>>
startVars == <<answers, seen, watched>>
daemonVars == <<startVars, unmapping>>
environmentVars == <<processVars, bus, xEvents, daemonVars>>
systemVars == <<vars, environmentVars>>

Programs == Apps \cup Outsiders

(* wasHidden is history: the window was unmapped at some moment since the  *)
(* event was taken in hand.                                                *)
NoEvent == [step |-> "none", pid |-> NoPid, wasHidden |-> FALSE]

(* One thread runs all slots: none starts while another waits for the X    *)
(* server.                                                                 *)
Idle == unmapping = NoEvent

(* m_connection.interface()->servicePid(): 0 if nobody owns the service. *)
OwnerPid(a) ==
    IF \E p \in onBus : program[p] = a
    THEN CHOOSE p \in onBus : program[p] = a
    ELSE NoPid

SystemInit ==
    /\ Init
    /\ program = [p \in Pids |-> Nothing]
    /\ alive = {}
    /\ onBus = {}
    /\ windows = {}
    /\ mapped = {}
    /\ shown = {}
    /\ bus = <<>>
    /\ xEvents = <<>>
    /\ answers = [a \in {} |-> NoOwner]
    /\ seen = {}
    /\ watched = {}
    /\ unmapping = NoEvent

-----------------------------------------------------------------------------
(***************************************************************************)
(* Processes.                                                              *)
(***************************************************************************)
(* The steps of handleXUnmapEvent that go by the window, not by the pid.   *)
WindowInHand(p) == unmapping.pid = p /\ unmapping.step \in {"flag", "name", "pid"}

(* A pid comes back only when nothing is left of its last process. *)
Free(p) == IF PidsReused
           THEN /\ p \notin alive \cup onBus \cup windows
                /\ ~WindowInHand(p)
                /\ \A i \in 1..Len(xEvents) : xEvents[i].pid # p
           ELSE program[p] = Nothing
Runs(prog) == \E p \in alive : program[p] = prog

(* The daemon has asked about a and does not watch it yet. *)
InStartupGap(a) == a \in DOMAIN answers /\ a \notin watched
MayChangeBus(a) == QuietStartup => ~InStartupGap(a)

StartProcess(p, prog) ==
    /\ Free(p)
    /\ ~Runs(prog)
    /\ program' = [program EXCEPT ![p] = prog]
    /\ alive' = alive \cup {p}
    /\ windows' = windows \cup {p}
    /\ UNCHANGED <<onBus, mapped, shown, bus, xEvents, daemonVars>>

(* The user, or another program, starts a program. *)
Launch(p, prog) == running /\ StartProcess(p, prog) /\ UNCHANGED vars

(* The bus activates a service that was pinged. *)
Activate(p, a) == AnswerPing(a) /\ OwnerPid(a) = NoPid /\ StartProcess(p, a)

(* The service is there already, or its activation fails. *)
PingWithoutStart(a) == AnswerPing(a) /\ UNCHANGED environmentVars

Notify(a, event, wasShown) ==
    /\ Len(bus) < MaxPending
    /\ bus' = IF a \in watched
              THEN Append(bus, [app |-> a, event |-> event, wasShown |-> wasShown])
              ELSE bus

JoinBus(p) ==
    /\ running
    /\ p \in alive \ onBus
    /\ program[p] \in Apps
    /\ OwnerPid(program[p]) = NoPid
    /\ MayChangeBus(program[p])
    /\ onBus' = onBus \cup {p}
    /\ Notify(program[p], "registered", FALSE)
    /\ UNCHANGED <<vars, program, alive, windows, mapped, shown, xEvents, daemonVars>>

PostXEvent(p, event) ==
    /\ Len(xEvents) < MaxPending
    /\ xEvents' = Append(xEvents, [pid |-> p, event |-> event])

(* Bound: a window is mapped only if the daemon can count the release      *)
(* within MaxReleases, so that the bound never holds up the event queue.   *)
RoomToShow(p) ==
    \A a \in Apps : program[p] = a =>
        apps[a].releasedCount + Cardinality({i \in DOMAIN xEvents :
            xEvents[i] = [pid |-> p, event |-> "map"]})
          < IF state = "Init" /\ p \in seen THEN MaxReleases[a] - 1 ELSE MaxReleases[a]

Show(p) ==
    /\ running
    /\ p \in alive \ mapped
    /\ RoomToShow(p)
    /\ mapped' = mapped \cup {p}
    /\ shown' = shown \cup {p}
    /\ PostXEvent(p, "map")
    /\ UNCHANGED <<vars, program, alive, onBus, windows, bus, daemonVars>>

(* The lazy shutdown: the window goes, the process stays. *)
Hide(p) ==
    /\ running
    /\ p \in alive \cap mapped
    /\ mapped' = mapped \ {p}
    /\ PostXEvent(p, "unmap")
    /\ unmapping' = IF unmapping.pid = p THEN [unmapping EXCEPT !.wasHidden = TRUE]
                    ELSE unmapping
    /\ UNCHANGED <<vars, program, alive, onBus, windows, shown, bus, startVars>>

(* A process exits, crashes or obeys a SIGTERM. *)
Die(p) ==
    /\ running
    /\ p \in alive
    /\ alive' = alive \ {p}
    /\ UNCHANGED <<vars, program, onBus, windows, mapped, shown, bus, xEvents, daemonVars>>

BusNoticesDeath(p) ==
    /\ running
    /\ p \in onBus \ alive
    /\ MayChangeBus(program[p])
    /\ onBus' = onBus \ {p}
    /\ Notify(program[p], "unregistered", p \in shown)
    /\ shown' = IF p \in windows THEN shown ELSE shown \ {p}
    /\ UNCHANGED <<vars, program, alive, windows, mapped, xEvents, daemonVars>>

XNoticesDeath(p) ==
    /\ running
    /\ p \in windows \ alive
    /\ windows' = windows \ {p}
    /\ mapped' = mapped \ {p}
    /\ shown' = IF p \in onBus THEN shown ELSE shown \ {p}
    /\ UNCHANGED <<vars, program, alive, onBus, bus, xEvents, daemonVars>>

-----------------------------------------------------------------------------
(***************************************************************************)
(* The start of the daemon: addPrestartApp for one service after the       *)
(* other, each in two steps, then startPrestartActions.                    *)
(***************************************************************************)
AskBus(a) ==
    /\ running
    /\ state = "Init"
    /\ a \notin DOMAIN answers
    /\ DOMAIN answers \subseteq watched
    /\ LET answer == IF OwnerPid(a) = NoPid THEN NoOwner ELSE OwnerPid(a)
       IN  /\ answers' = [b \in DOMAIN answers \cup {a} |->
                            IF b = a THEN answer ELSE answers[b]]
           /\ seen' = seen \cup ({answer} \cap mapped)
    /\ UNCHANGED <<vars, processVars, bus, xEvents, watched, unmapping>>

WatchService(a) ==
    /\ running
    /\ InStartupGap(a)
    /\ watched' = watched \cup {a}
    /\ UNCHANGED <<vars, processVars, bus, xEvents, answers, seen, unmapping>>

(* Mutant: the prestarts start before the last service is watched. *)
StartPrestartsEarly ==
    /\ DOMAIN answers = Apps
    /\ RunPrestarts(Apps, answers, seen)
    /\ UNCHANGED environmentVars

StartPrestarts ==
    /\ watched = Apps
    /\ RunPrestarts(Apps, answers, seen)
    /\ UNCHANGED environmentVars

-----------------------------------------------------------------------------
(***************************************************************************)
(* The event loop of the daemon.                                           *)
(***************************************************************************)
HandleRegistered ==
    /\ Idle
    /\ bus # <<>>
    /\ Head(bus).event = "registered"
    /\ bus' = Tail(bus)
    /\ HandleRegisteredService(Head(bus).app, OwnerPid(Head(bus).app))
    /\ UNCHANGED <<processVars, xEvents, daemonVars>>

HandleUnregistered ==
    /\ Idle
    /\ bus # <<>>
    /\ Head(bus).event = "unregistered"
    /\ bus' = Tail(bus)
    /\ HandleUnregisteredService(Head(bus).app)
    /\ UNCHANGED <<processVars, xEvents, daemonVars>>

(* X11Util::windowPid: it fails for a window that is gone. *)
HasWindowPid(xEvent) == xEvent.pid \in windows

HandleXMapEvent ==
    /\ Idle
    /\ Listening
    /\ xEvents # <<>>
    /\ Head(xEvents).event = "map"
    /\ xEvents' = Tail(xEvents)
    /\ IF HasWindowPid(Head(xEvents))
       THEN ReleasedPrestart(Head(xEvents).pid)
       ELSE UNCHANGED vars
    /\ UNCHANGED <<processVars, bus, daemonVars>>

Managed(pid) == \E a \in vectApps : apps[a].pid = pid

(* handleXUnmapEvent asks the X server up to four questions and the kernel *)
(* for a kill.  Processes run while it waits for an answer.                *)
ContinueWith(step) == unmapping' = [unmapping EXCEPT !.step = step]
Return == unmapping' = NoEvent
OnlyHandlerMoves == UNCHANGED <<vars, processVars, bus, xEvents, startVars>>

(* The pid of the window: is it that of a known application?               *)
HandleXUnmapEvent ==
    /\ Idle
    /\ Listening
    /\ xEvents # <<>>
    /\ Head(xEvents).event = "unmap"
    /\ xEvents' = Tail(xEvents)
    /\ LET pid == Head(xEvents).pid
       IN  unmapping' =
             IF ~HasWindowPid(Head(xEvents)) THEN NoEvent
             ELSE [step |-> IF Managed(pid) THEN "windows" ELSE "flag", pid |-> pid,
                   wasHidden |-> pid \notin mapped]
    /\ UNCHANGED <<vars, processVars, bus, startVars>>

WindowsForPid(pid) == {pid} \cap mapped

(* A known application without mapped windows is back in its prestart.     *)
CheckWindows ==
    /\ unmapping.step = "windows"
    /\ IF WindowsForPid(unmapping.pid) = {}
       THEN RestoredPrestart(unmapping.pid)
       ELSE UNCHANGED vars
    /\ Return
    /\ UNCHANGED <<processVars, bus, xEvents, startVars>>

(* The toolkit sets a flag on a window in the prestarted state.            *)
IsPrestarted(pid) == pid \in windows \ mapped

(* Mutant: the toolkit's flag is not checked. *)
CheckFlagIgnored ==
    /\ unmapping.step = "flag"
    /\ ContinueWith("name")
    /\ OnlyHandlerMoves

CheckFlag ==
    /\ unmapping.step = "flag"
    /\ IF IsPrestarted(unmapping.pid) THEN ContinueWith("name") ELSE Return
    /\ OnlyHandlerMoves

(* Mutant: the white list is read the wrong way round. *)
LazyShutdownAllowedInverted(prog) == prog \notin AllowedLazyShutdown

LazyShutdownAllowed(prog) == prog \in AllowedLazyShutdown

(* The empty name, Nothing, if the window has no WM_COMMAND or is gone.    *)
ApplicationName(pid) ==
    IF pid \in windows /\ program[pid] \notin Nameless THEN program[pid] ELSE Nothing

CheckName ==
    /\ unmapping.step = "name"
    /\ IF LazyShutdownAllowed(ApplicationName(unmapping.pid))
       THEN Return
       ELSE ContinueWith("pid")
    /\ OnlyHandlerMoves

(* The pid of the window is asked for once more.                           *)
AskPidAgain ==
    /\ unmapping.step = "pid"
    /\ IF unmapping.pid \in windows THEN ContinueWith("kill") ELSE Return
    /\ OnlyHandlerMoves

(* kill() fails with ESRCH for a process that is gone, and with EPERM for  *)
(* one the daemon may not signal; both are logged and nothing more.        *)
MayKill(pid) == program[pid] \notin Protected

KillLazyProgram ==
    /\ unmapping.step = "kill"
    /\ alive' = IF MayKill(unmapping.pid) THEN alive \ {unmapping.pid} ELSE alive
    /\ Return
    /\ UNCHANGED <<vars, program, onBus, windows, mapped, shown, bus, xEvents, startVars>>

(* What handleXUnmapEvent does after the first answer.                     *)
UnmapEventGoesOn ==
    CheckWindows \/ CheckFlag \/ CheckName \/ AskPidAgain \/ KillLazyProgram

Poll(l) == Idle /\ UpdateCPULoad(l) /\ UNCHANGED environmentVars

ScreenChanges(newState) ==
    Idle /\ HandleScreenBlanked(newState) /\ UNCHANGED environmentVars

(* SIGKILL ends a process at once, unless it is refused with EPERM; after  *)
(* SIGTERM a process ends if it likes (Die).  A process that is dead but   *)
(* not reaped yet still takes the signal.                                  *)
Escalated == {apps[a].pid : a \in {b \in vectApps :
    apps[b].rePrestarting /\ ~apps[b].released /\ apps[b].sigTermSent}}

ForcedRePrestartTimeout(gone) ==
    /\ Idle
    /\ TriggerForcedRePrestarts(gone)
    /\ alive' = alive \ {p \in alive \cap Escalated : MayKill(p)}
    /\ UNCHANGED <<program, onBus, windows, mapped, shown, bus, xEvents, daemonVars>>

(* Mutant: the daemon quits without signalling its applications. *)
TerminateWithoutKilling(gone) ==
    /\ Idle
    /\ Listening
    /\ running' = FALSE
    /\ UNCHANGED <<apps, vectApps, machineVars, forcedTimer, blanked, environmentVars>>

Terminate(gone) ==
    Idle /\ KillPrestartedApplications(gone) /\ UNCHANGED environmentVars

-----------------------------------------------------------------------------
EnvironmentStep ==
    \/ \E p \in Pids, prog \in Programs : Launch(p, prog)
    \/ \E p \in Pids, a \in Apps : Activate(p, a)
    \/ \E a \in Apps : PingWithoutStart(a)
    \/ \E p \in Pids : \/ JoinBus(p)
                       \/ Show(p)
                       \/ Hide(p)
                       \/ Die(p)
                       \/ BusNoticesDeath(p)
                       \/ XNoticesDeath(p)
    \/ \E newState \in BOOLEAN : ScreenChanges(newState)
    \/ \E gone \in SUBSET (Pids \ alive) : Terminate(gone)

DaemonStep ==
    \/ \E a \in Apps : AskBus(a) \/ WatchService(a)
    \/ StartPrestarts
    \/ HandleRegistered
    \/ HandleUnregistered
    \/ HandleXMapEvent
    \/ HandleXUnmapEvent
    \/ UnmapEventGoesOn
    \/ \E l \in Loads : Poll(l)
    \/ \E gone \in SUBSET (Pids \ alive) : ForcedRePrestartTimeout(gone)

SystemNext == (EnvironmentStep \/ DaemonStep) /\ WithinBounds'

SystemSpec == SystemInit /\ [][SystemNext]_systemVars

(* The event loop comes round to every source that has something to say,   *)
(* however often another slot keeps it busy in between; a slot that waits  *)
(* for the X server gets its answer; and quiet polls come back.            *)
Startup == (\E a \in Apps : AskBus(a) \/ WatchService(a)) \/ StartPrestarts

FairSystemSpec ==
    /\ SystemSpec
    /\ WF_systemVars(Startup /\ WithinBounds')
    /\ SF_systemVars((HandleRegistered \/ HandleUnregistered) /\ WithinBounds')
    /\ WF_systemVars((HandleXMapEvent \/ HandleXUnmapEvent) /\ WithinBounds')
    /\ WF_systemVars(UnmapEventGoesOn /\ WithinBounds')
    /\ SF_systemVars((\E l \in QuietLoads : Poll(l)) /\ WithinBounds')

-----------------------------------------------------------------------------
(* The environment keeps its shape, and the daemon starts up in order: the *)
(* bus is asked about every service before that service is watched, and    *)
(* every service is watched before the first prestart (addPrestartApp,     *)
(* runPrestarts).                                                          *)
BusMessage == [app : Apps, event : {"registered", "unregistered"}, wasShown : BOOLEAN]
XEvent == [pid : Pids, event : {"map", "unmap"}]

ProcessesOK ==
    /\ program \in [Pids -> Programs \cup {Nothing}]
    /\ alive \subseteq Pids /\ onBus \subseteq Pids
    /\ mapped \subseteq windows \cap shown /\ windows \subseteq Pids /\ shown \subseteq Pids
    /\ \A p \in alive : program[p] \in Programs
    /\ \A p \in onBus : program[p] \in Apps
    /\ \A p, q \in onBus : program[p] = program[q] => p = q

QueuesOK ==
    /\ bus \in Seq(BusMessage)
    /\ xEvents \in Seq(XEvent)
    /\ \A i \in 1..Len(xEvents) : xEvents[i].pid \in windows => xEvents[i].pid \in shown

StartupOK ==
    /\ answers \in [DOMAIN answers -> Pids \cup {NoOwner}]
    /\ watched \subseteq DOMAIN answers /\ DOMAIN answers \subseteq Apps
    /\ seen \subseteq Pids
    /\ state # "Init" => watched = Apps

HandlerOK ==
    \/ Idle
    \/ /\ Listening
       /\ unmapping \in [step : {"windows", "flag", "name", "pid", "kill"}, pid : Pids,
                         wasHidden : BOOLEAN]

SystemTypeOK == ProcessesOK /\ QueuesOK /\ StartupOK /\ HandlerOK

(* The composed daemon takes only steps that module Prestarter allows, so  *)
(* every safety property of Prestarter holds here too.                     *)
PrestarterSpec == Spec

Settled(a) == Listening /\ \A i \in 1..Len(bus) : bus[i].app # a

(* When no notification about a service is under way, the daemon knows     *)
(* whether it is on the bus and which process owns it, whatever is under   *)
(* way about other services (addPrestartApp, handleRegisteredService,      *)
(* handleUnregisteredService).                                             *)
BusViewConverges ==
    \A a \in Apps : Settled(a) =>
        /\ apps[a].prestarted <=> OwnerPid(a) # NoPid
        /\ apps[a].prestarted => apps[a].pid = OwnerPid(a)

(* A service cannot be re-prestarted without showing its UI: when the end  *)
(* of a process that never had a mapped window is handled, its application *)
(* is not owed a prestart (handleUnregisteredService; class comment of     *)
(* Prestarter, item 4).                                                    *)
CrashLoopGuard ==
    Listening /\ bus # <<>> =>
        LET app == apps[Head(bus).app]
        IN  Head(bus).event = "unregistered" /\ ~Head(bus).wasShown /\ app.prestarted
                => app.releasedCount = 0

(* A process that handleXUnmapEvent kills; no other step of the handler    *)
(* and nobody else who ends a process touches what the handler has in hand.*)
Policed(p) == p \in alive \ alive' /\ unmapping' # unmapping

(* A process that owns a managed service is never killed for a lazy        *)
(* shutdown: its application is white-listed by being configured           *)
(* (handleXUnmapEvent; README, allow_lazy_shutdown).                       *)
ManagedServicesNotPoliced ==
    [][\A p \in Pids : Policed(p) => p \notin onBus]_systemVars

(* A program that is neither managed nor white-listed, and that the daemon *)
(* may signal, does not get away with a lazy shutdown (handleXUnmapEvent). *)
LazilyShutDown(p) == p \in (alive \cap shown) \ mapped

Lazy(p) ==
    /\ LazilyShutDown(p)
    /\ program[p] \in Outsiders \ (AllowedLazyShutdown \cup Protected)

LazyShutdownPoliced ==
    \A p \in Pids :
        Lazy(p) ~> ~LazilyShutDown(p) \/ ~running

(* As long as such a program lives with its window hidden, an unmap event  *)
(* of that window is on its way to the daemon or being worked on: the      *)
(* handler never drops the last one, whatever this window and those of     *)
(* others do between its questions (handleXUnmapEvent, isPrestarted).      *)
InHand(p) == unmapping.pid = p /\ unmapping.step # "windows"

LazyShutdownReported ==
    \A p \in Pids : Lazy(p) =>
        \/ InHand(p)
        \/ \E i \in 1..Len(xEvents) : xEvents[i] = [pid |-> p, event |-> "unmap"]

(* A process killed for a lazy shutdown was lazily shut down: its window   *)
(* was unmapped at some moment since the daemon took up the event, though  *)
(* it may be mapped again by now; it is not a process the daemon knows to  *)
(* manage; and it is on the white list only if its window has no name to   *)
(* look up.  All this although the handler finds it out by four separate   *)
(* questions (handleXUnmapEvent).                                          *)
OnlyLazyProgramsPoliced ==
    [][\A p \in Pids : Policed(p) =>
           /\ p \in shown /\ unmapping.wasHidden
           /\ ~Managed(p)
           /\ program[p] \in AllowedLazyShutdown => program[p] \in Nameless]_systemVars

(* The daemon ends by sending SIGTERM, and nothing harder, to every        *)
(* process that owns a managed service about which no notification is      *)
(* under way, whether or not the application was released or already       *)
(* scheduled (killPrestartedApplications).                                 *)
TerminationReachesAll ==
    [][~running' => \A p \in alive \cap onBus : Settled(program[p]) =>
           /\ apps'[program[p]].pid = p
           /\ apps'[program[p]].sigTermSent
           /\ ~apps'[program[p]].sigKillSent]_systemVars

(* An application that was released and whose process is gone from the bus *)
(* is started again in the end (handleUnregisteredService, the queue and   *)
(* the polling together).                                                  *)
ReleasedAppComesBack ==
    \A a \in Apps :
        apps[a].prestarted /\ apps[a].releasedCount > 0 /\ OwnerPid(a) = NoPid
            ~> a \in pings \/ OwnerPid(a) # NoPid \/ ~running
=============================================================================
