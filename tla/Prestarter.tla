----------------------------- MODULE Prestarter -----------------------------
(***************************************************************************)
(* The decision core of applifed (class Prestarter, src/prestarter.cpp):   *)
(* which applications are started in advance, when, and which are killed   *)
(* and started again.                                                      *)
(*                                                                         *)
(* The daemon is a single-threaded event loop.  Every slot runs to         *)
(* completion, so one handler is one action here, with everything it calls *)
(* included.  The module is open: the bus, the X server, the screen, the   *)
(* CPU meter and the other processes may call any handler at any time with *)
(* any arguments.  Module Applifed closes it with processes, a session bus *)
(* and event queues.                                                       *)
(***************************************************************************)
EXTENDS PrestartApp, Integers

CONSTANTS
    Apps,                       \* the applications a configuration can name
    Priority,                   \* smaller value means greater importance
    CpuLoadThreshold,
    RePrestartTrigger,
    ForcedRePrestartNotAllowed,
    Loads,                      \* values the CPU meter can deliver
    TestMode,                   \* --test: the configuration is read on request
    MaxReleases,                \* bound on releasedCount, for each application
    MaxQueued                   \* bound on its queue entries

ASSUME ConfigAssumption ==
    /\ Priority \in [Apps -> Int]
    /\ CpuLoadThreshold \in [Apps -> Int]
    /\ RePrestartTrigger \in [Apps -> Nat]
    /\ ForcedRePrestartNotAllowed \in [Apps -> BOOLEAN]
    /\ TestMode \in BOOLEAN

ASSUME LoadsAssumption == Loads \subseteq Int

InitialLoad == 100
NoOwner == "no owner"   \* what the bus answers for a service nobody owns

ASSUME NoOwnerAssumption == NoOwner \notin Pids \cup {NoPid}

VARIABLES
    apps,         \* the records of the applications
    vectApps,     \* m_vectApps: the applications added so far
    queue,        \* m_queue: how often each application is in the queue
    state,        \* m_state
    load,         \* m_load
    polling,      \* m_cpuLoadPollingEnabled
    forcedTimer,  \* m_forcedRePrestartTimer.isActive()
    blanked,      \* the last screen notification said "blanked"
    pings,        \* services whose "ping" call has not been answered
    running       \* the event loop (or the code before it) runs

vars == <<apps, vectApps, queue, state, load, polling, forcedTimer, blanked,
          pings, running>>

(* What the state machine of runState reads and writes. *)
machineVars == <<queue, state, load, polling, pings>>

(***************************************************************************)
(* The priority queue: a bag, whose top is any entry of least priority.    *)
(* std::priority_queue leaves the order of equal entries unspecified.      *)
(***************************************************************************)
IsQueued(q, a) == q[a] > 0
IsEmpty(q) == \A a \in Apps : ~IsQueued(q, a)
(* Mutant: the comparison of the queue is turned round. *)
TopsTurnedRound(q) ==
    {a \in Apps : /\ IsQueued(q, a)
                  /\ \A b \in Apps : IsQueued(q, b) => Priority[a] >= Priority[b]}
Tops(q) == {a \in Apps : /\ IsQueued(q, a)
                         /\ \A b \in Apps : IsQueued(q, b) => Priority[a] <= Priority[b]}
Push(q, a) == [q EXCEPT ![a] = @ + 1]
Pop(q, a)  == [q EXCEPT ![a] = @ - 1]

Init ==
    /\ apps = [a \in Apps |-> NewApp]
    /\ vectApps = {}
    /\ queue = [a \in Apps |-> 0]
    /\ state = "Init"
    /\ load = InitialLoad
    /\ polling = FALSE
    /\ forcedTimer = FALSE
    /\ blanked = FALSE
    /\ pings = {}
    /\ running = TRUE

(* Slots are called once exec() runs; outside the test mode run() reads    *)
(* the configuration before that.                                          *)
Listening == running /\ (TestMode \/ state # "Init")

-----------------------------------------------------------------------------
(***************************************************************************)
(* The state machine.  ap and q are the records and the queue as the       *)
(* calling handler has left them, ld the load it has stored.               *)
(***************************************************************************)

(* A request forgets the process of the application. *)
Requested(app) == SetPid(SetReleased(SetPrestarted(app, FALSE), FALSE), NoPid)

(* The "ping" starts the service through bus activation.  The call does    *)
(* not wait for the answer.                                                *)
SendPrestartRequest(ap, a) ==
    IF ap[a].prestarted
    THEN /\ apps' = ap
         /\ UNCHANGED pings
    ELSE /\ apps' = [ap EXCEPT ![a] = Requested(@)]
         /\ pings' = pings \cup {a}

StateWaitForPrestart(ap, q) ==
    /\ apps' = ap
    /\ queue' = q
    /\ IF IsEmpty(q)
       THEN state' = "WaitForPrestart" /\ UNCHANGED polling
       ELSE state' = "WaitForCPU" /\ polling' = TRUE
    /\ UNCHANGED pings

(* Mutant: an empty queue does not stop the polling. *)
StateWaitForCPUWithoutStop(ap, q, ld) ==
    /\ \/ IsEmpty(q) /\ queue' = q /\ apps' = ap /\ UNCHANGED pings
       \/ \E top \in Tops(q) :
            IF ld < CpuLoadThreshold[top]
            THEN queue' = Pop(q, top) /\ SendPrestartRequest(ap, top)
            ELSE queue' = q /\ apps' = ap /\ UNCHANGED pings
    /\ UNCHANGED <<state, polling>>

StateWaitForCPU(ap, q, ld) ==
    \/ /\ IsEmpty(q)
       /\ apps' = ap
       /\ queue' = q
       /\ state' = "WaitForPrestart"
       /\ polling' = FALSE
       /\ UNCHANGED pings
    \/ /\ \E top \in Tops(q) :
            IF ld < CpuLoadThreshold[top]
            THEN queue' = Pop(q, top) /\ SendPrestartRequest(ap, top)
            ELSE queue' = q /\ apps' = ap /\ UNCHANGED pings
       /\ UNCHANGED <<state, polling>>

PushAll(q, vect) == [a \in Apps |-> IF a \in vect THEN q[a] + 1 ELSE q[a]]

StateInit(ap, vect) == StateWaitForPrestart(ap, PushAll(queue, vect))

(* StateInit leaves "Init" in the step that enters it, so no later handler *)
(* finds the machine there.                                                *)
RunState(ap, q, ld) ==
    \/ state = "WaitForPrestart" /\ StateWaitForPrestart(ap, q)
    \/ state = "WaitForCPU" /\ StateWaitForCPU(ap, q, ld)

-----------------------------------------------------------------------------
(***************************************************************************)
(* Reading the configuration and starting the prestarts.                   *)
(***************************************************************************)

(* bus is what the session bus answers about a service: NoOwner, or the    *)
(* pid of its owner (NoPid when the owner goes between the two questions); *)
(* it is asked about the services that are not known yet only.             *)
(* windowed is the set of pids that have a window in the client list.      *)
AddPrestartApp(a, bus, windowed) ==
    IF bus[a] = NoOwner
    THEN NewApp
    ELSE LET known == SetReleased(SetPrestarted(SetPid(NewApp, bus[a]), TRUE), FALSE)
         IN  IF bus[a] \in windowed THEN SetReleased(known, TRUE) ELSE known

ReadConfiguration(listed, bus, windowed) ==
    [a \in Apps |-> IF a \in listed \ vectApps
                    THEN AddPrestartApp(a, bus, windowed)
                    ELSE apps[a]]

(* Outside the test mode the configuration is read once, before the event  *)
(* loop starts; in the test mode whenever a PRESTART= line arrives.        *)
RunPrestarts(listed, bus, windowed) ==
    /\ running
    /\ TestMode \/ state = "Init"
    /\ vectApps' = vectApps \cup listed
    /\ StateInit(ReadConfiguration(listed, bus, windowed), vectApps \cup listed)
    /\ UNCHANGED <<load, forcedTimer, blanked, running>>

(* A missing or malformed configuration ends the daemon. *)
RunPrestartsFails ==
    /\ running
    /\ TestMode \/ state = "Init"
    /\ running' = FALSE
    /\ UNCHANGED <<apps, vectApps, machineVars, forcedTimer, blanked>>

-----------------------------------------------------------------------------
(***************************************************************************)
(* Notifications of the session bus about a watched service.               *)
(***************************************************************************)

(* Mutant: the result of findAppWithService is not checked. *)
HandleRegisteredServiceUnchecked(a, pid) ==
    /\ Listening
    /\ apps' = IF apps[a].prestarted
               THEN apps
               ELSE [apps EXCEPT ![a] = SetPrestarted(SetPid(@, pid), TRUE)]
    /\ UNCHANGED <<vectApps, machineVars, forcedTimer, blanked, running>>

(* Mutant: the pid of the new owner is not asked for. *)
HandleRegisteredServiceKeepingPid(a, pid) ==
    /\ Listening
    /\ a \in vectApps
    /\ apps' = [apps EXCEPT ![a] = IF @.prestarted THEN @ ELSE SetPrestarted(@, TRUE)]
    /\ UNCHANGED <<vectApps, machineVars, forcedTimer, blanked, running>>

HandleRegisteredService(a, pid) ==
    /\ Listening
    /\ a \in vectApps
    /\ apps' = IF apps[a].prestarted
               THEN apps
               ELSE [apps EXCEPT ![a] = SetPrestarted(SetPid(@, pid), TRUE)]
    /\ UNCHANGED <<vectApps, machineVars, forcedTimer, blanked, running>>

(* Mutant: the application is pushed but the state machine is not run. *)
HandleUnregisteredServiceWithoutRun(a) ==
    /\ Listening
    /\ a \in vectApps
    /\ IF apps[a].prestarted
       THEN /\ apps' = [apps EXCEPT ![a] = SetPrestarted(@, FALSE)]
            /\ queue' = IF apps[a].rePrestarting \/ apps[a].releasedCount > 0
                        THEN Push(queue, a) ELSE queue
            /\ UNCHANGED <<state, load, polling, pings>>
       ELSE UNCHANGED <<apps, machineVars>>
    /\ UNCHANGED <<vectApps, forcedTimer, blanked, running>>

(* Mutant: the record is reset before the count of releases is read. *)
HandleUnregisteredServiceResetFirst(a) ==
    /\ Listening
    /\ a \in vectApps
    /\ IF apps[a].prestarted
       THEN LET app == SetPrestarted(apps[a], FALSE)
                q   == IF app.rePrestarting \/ app.releasedCount > 0
                       THEN Push(queue, a) ELSE queue
            IN  /\ RunState([apps EXCEPT ![a] = app], q, load)
                /\ UNCHANGED load
       ELSE UNCHANGED <<apps, machineVars>>
    /\ UNCHANGED <<vectApps, forcedTimer, blanked, running>>

(* Mutant: every application that leaves the bus is pushed. *)
HandleUnregisteredServiceAlways(a) ==
    /\ Listening
    /\ a \in vectApps
    /\ IF apps[a].prestarted
       THEN /\ RunState([apps EXCEPT ![a] = SetPrestarted(SetReleased(@, FALSE), FALSE)],
                        Push(queue, a), load)
            /\ UNCHANGED load
       ELSE UNCHANGED <<apps, machineVars>>
    /\ UNCHANGED <<vectApps, forcedTimer, blanked, running>>

(* An application comes back if it was scheduled for that or ever showed a *)
(* window; the state machine runs at once, with the load last stored.      *)
HandleUnregisteredService(a) ==
    /\ Listening
    /\ a \in vectApps
    /\ IF apps[a].prestarted
       THEN LET app == SetReleased(apps[a], FALSE)
                q   == IF app.rePrestarting \/ app.releasedCount > 0
                       THEN Push(queue, a) ELSE queue
            IN  /\ RunState([apps EXCEPT ![a] = SetPrestarted(app, FALSE)], q, load)
                /\ UNCHANGED load
       ELSE UNCHANGED <<apps, machineVars>>
    /\ UNCHANGED <<vectApps, forcedTimer, blanked, running>>

(* The watcher reports a registration and an unregistration as a change of *)
(* owner too.  Both reports end in the two handlers above, and the second  *)
(* one finds its work done, so Next has the change of owner only.  A       *)
(* service that passes from one owner to the next is neither registered    *)
(* nor unregistered.                                                       *)
HandleServiceOwnerChange(a, hadOwner, hasOwner, pid) ==
    \/ ~hasOwner /\ HandleUnregisteredService(a)
    \/ hasOwner /\ ~hadOwner /\ HandleRegisteredService(a, pid)
    \/ hasOwner /\ hadOwner /\ Listening /\ UNCHANGED vars

-----------------------------------------------------------------------------
(***************************************************************************)
(* The CPU meter: it delivers values only while polling is on.             *)
(***************************************************************************)
UpdateCPULoad(l) ==
    /\ Listening
    /\ polling
    /\ load' = l
    /\ RunState(apps, queue, l)
    /\ UNCHANGED <<vectApps, forcedTimer, blanked, running>>

-----------------------------------------------------------------------------
(***************************************************************************)
(* Windows.  NoPid stands for every application.                           *)
(***************************************************************************)
Concerns(app, pid) == pid = NoPid \/ app.pid = pid

ReleasedPrestart(pid) ==
    /\ Listening
    /\ apps' = [a \in Apps |->
                  IF a \in vectApps /\ ~apps[a].released /\ Concerns(apps[a], pid)
                  THEN SetReleased(apps[a], TRUE)
                  ELSE apps[a]]
    /\ UNCHANGED <<vectApps, machineVars, forcedTimer, blanked, running>>

Restored(a, app) ==
    LET back == SetReleased(app, FALSE)
    IN  IF ~ForcedRePrestartNotAllowed[a] /\ back.releasedCount > RePrestartTrigger[a]
        THEN SetRePrestarting(back, TRUE)
        ELSE back

RestoredPrestart(pid) ==
    /\ Listening
    /\ apps' = [a \in Apps |->
                  IF a \in vectApps /\ apps[a].released /\ Concerns(apps[a], pid)
                  THEN Restored(a, apps[a])
                  ELSE apps[a]]
    /\ UNCHANGED <<vectApps, machineVars, forcedTimer, blanked, running>>

-----------------------------------------------------------------------------
(***************************************************************************)
(* Forced re-prestarts and termination.                                    *)
(***************************************************************************)
SomethingToRePrestart == \E a \in vectApps : apps[a].rePrestarting

(* Mutant: the timer survives the end of the blank screen. *)
HandleScreenBlankedKeepingTimer(newState) ==
    /\ Listening
    /\ blanked' = newState
    /\ forcedTimer' = (forcedTimer \/ (newState /\ SomethingToRePrestart))
    /\ UNCHANGED <<apps, vectApps, machineVars, running>>

HandleScreenBlanked(newState) ==
    /\ Listening
    /\ blanked' = newState
    /\ forcedTimer' = (newState /\ (forcedTimer \/ SomethingToRePrestart))
    /\ UNCHANGED <<apps, vectApps, machineVars, running>>

(* Mutant: SIGTERM is sent again and again. *)
KillAppWithoutEscalation(app, gone) ==
    LET tried == [app EXCEPT !.sigTermSent = TRUE]
    IN  IF app.pid \in gone THEN SetRePrestarting(tried, FALSE) ELSE tried

(* Signals the process of app: SIGTERM first, SIGKILL from then on.  gone  *)
(* is the set of pids for which kill() answers ESRCH; EPERM changes        *)
(* nothing, and NoPid is never signalled.                                  *)
KillApp(app, gone) ==
    LET tried == IF app.sigTermSent
                 THEN [app EXCEPT !.sigKillSent = TRUE]
                 ELSE [app EXCEPT !.sigTermSent = TRUE]
    IN  IF app.pid \in gone THEN SetRePrestarting(tried, FALSE) ELSE tried

(* Mutant: released applications are killed too. *)
TriggerForcedRePrestartsOnReleased(gone) ==
    /\ Listening
    /\ forcedTimer
    /\ forcedTimer' = FALSE
    /\ apps' = [a \in Apps |-> IF a \in vectApps /\ apps[a].rePrestarting
                               THEN KillApp(apps[a], gone)
                               ELSE apps[a]]
    /\ UNCHANGED <<vectApps, machineVars, blanked, running>>

TriggerForcedRePrestarts(gone) ==
    /\ Listening
    /\ forcedTimer
    /\ forcedTimer' = FALSE
    /\ apps' = [a \in Apps |->
                  IF a \in vectApps /\ apps[a].rePrestarting /\ ~apps[a].released
                  THEN KillApp(apps[a], gone)
                  ELSE apps[a]]
    /\ UNCHANGED <<vectApps, machineVars, blanked, running>>

(* Mutant: the signals of an earlier schedule are not forgotten. *)
KillPrestartedApplicationsEscalating(gone) ==
    /\ Listening
    /\ apps' = [a \in Apps |->
                  IF a \in vectApps THEN KillApp(apps[a], gone) ELSE apps[a]]
    /\ running' = FALSE
    /\ UNCHANGED <<vectApps, machineVars, forcedTimer, blanked>>

(* SIGTERM to the daemon: signal every application, then leave the loop. *)
KillPrestartedApplications(gone) ==
    /\ Listening
    /\ apps' = [a \in Apps |->
                  IF a \in vectApps
                  THEN KillApp(SetRePrestarting(apps[a], FALSE), gone)
                  ELSE apps[a]]
    /\ running' = FALSE
    /\ UNCHANGED <<vectApps, machineVars, forcedTimer, blanked>>

(* EXIT or the end of the input in the test mode: the applications stay. *)
ExitTestMode ==
    /\ Listening
    /\ TestMode
    /\ running' = FALSE
    /\ UNCHANGED <<apps, vectApps, machineVars, forcedTimer, blanked>>

(* The bus takes a ping: the service is there or its activation ended. *)
AnswerPing(a) ==
    /\ running
    /\ a \in pings
    /\ pings' = pings \ {a}
    /\ UNCHANGED <<apps, vectApps, queue, state, load, polling, forcedTimer,
                   blanked, running>>

-----------------------------------------------------------------------------
BusAnswers(services) == [services -> Pids \cup {NoPid, NoOwner}]

WithinBounds ==
    \A a \in Apps : apps[a].releasedCount <= MaxReleases[a] /\ queue[a] <= MaxQueued[a]

(* A configuration that names known applications again does with them what *)
(* one that leaves them out does, and the old and the new owner of a       *)
(* service differ.                                                         *)
Step ==
    \/ \E listed \in SUBSET (Apps \ vectApps) :
          \E bus \in BusAnswers(listed), windowed \in SUBSET Pids :
             RunPrestarts(listed, bus, windowed)
    \/ RunPrestartsFails
    \/ \E a \in Apps : HandleServiceOwnerChange(a, TRUE, FALSE, NoPid)
    \/ \E a \in Apps, hadOwner \in BOOLEAN, pid \in Pids \cup {NoPid} :
          HandleServiceOwnerChange(a, hadOwner, TRUE, pid)
    \/ \E l \in Loads : UpdateCPULoad(l)
    \/ \E pid \in Pids \cup {NoPid} : ReleasedPrestart(pid)
    \/ \E pid \in Pids \cup {NoPid} : RestoredPrestart(pid)
    \/ \E newState \in BOOLEAN : HandleScreenBlanked(newState)
    \/ \E gone \in SUBSET Pids : TriggerForcedRePrestarts(gone)
    \/ \E gone \in SUBSET Pids : KillPrestartedApplications(gone)
    \/ ExitTestMode
    \/ \E a \in Apps : AnswerPing(a)

Next == Step /\ WithinBounds'

Spec == Init /\ [][Next]_vars

(* The poll timer is periodic, and sooner or later a poll finds the system *)
(* idle enough for every application.                                      *)
QuietLoads == {l \in Loads : \A a \in Apps : l < CpuLoadThreshold[a]}
QuietPoll == (\E l \in QuietLoads : UpdateCPULoad(l)) /\ WithinBounds'

(* A timer that is not stopped fires. *)
ForcedTimeout == (\E gone \in SUBSET Pids : TriggerForcedRePrestarts(gone)) /\ WithinBounds'

FairSpec == Spec /\ WF_vars(QuietPoll) /\ WF_vars(ForcedTimeout)

-----------------------------------------------------------------------------
(* Every variable keeps its type; a queued or recorded application was     *)
(* added to m_vectApps before (findAppWithService guards every handler).   *)
TypeOK ==
    /\ apps \in [Apps -> AppRecord]
    /\ vectApps \subseteq Apps
    /\ queue \in [Apps -> Nat]
    /\ state \in {"Init", "WaitForPrestart", "WaitForCPU"}
    /\ load \in Int
    /\ polling \in BOOLEAN
    /\ forcedTimer \in BOOLEAN
    /\ blanked \in BOOLEAN
    /\ pings \subseteq Apps
    /\ running \in BOOLEAN
    /\ \A a \in Apps \ vectApps : apps[a] = NewApp /\ queue[a] = 0

(* The CPU is polled exactly while the machine waits for it, and it waits  *)
(* whenever something is queued: no push by startPrestartActions or        *)
(* handleUnregisteredService is left without a timer to serve it           *)
(* (stateWaitForPrestart, stateWaitForCPU).                                *)
QueueServed ==
    /\ polling <=> state = "WaitForCPU"
    /\ ~IsEmpty(queue) => polling

(* An application is scheduled for a forced re-prestart only while its     *)
(* configuration allows that and its count exceeds the trigger: no setter  *)
(* resets the one without the other (restoredPrestart, setPrestarted).     *)
RePrestartJustified ==
    \A a \in Apps : apps[a].rePrestarting =>
        /\ ~ForcedRePrestartNotAllowed[a]
        /\ apps[a].releasedCount > RePrestartTrigger[a]

(* A recorded signal belongs to a schedule that is still on, or to the     *)
(* termination of the daemon, which sends SIGTERM only; SIGKILL is on      *)
(* record only after SIGTERM (killApp, setRePrestarting).                  *)
SignalsAccounted ==
    \A a \in Apps :
        /\ apps[a].sigTermSent => apps[a].rePrestarting \/ ~running
        /\ apps[a].sigKillSent => apps[a].rePrestarting /\ apps[a].sigTermSent

(* The timer of forced re-prestarts runs only while the last notification  *)
(* of the screen was "blanked" (handleScreenBlanked).                      *)
TimerOnlyWhileBlank == forcedTimer => blanked

Signalled(a) == \/ ~apps[a].sigTermSent /\ apps'[a].sigTermSent
                \/ ~apps[a].sigKillSent /\ apps'[a].sigKillSent

(* While the daemon goes on, an application is signalled only behind a     *)
(* blank screen, only with no window shown, and only when it returned more *)
(* often than its trigger allows (triggerForcedRePrestarts, class comment  *)
(* of Prestarter, item 5).                                                 *)
SignalledOnlyBehindBlankScreen ==
    [][\A a \in Apps : Signalled(a) /\ running' =>
           /\ blanked
           /\ ~apps[a].released
           /\ apps[a].releasedCount > RePrestartTrigger[a]]_vars

LeavesBus(a) == apps[a].prestarted /\ ~apps'[a].prestarted

(* When an application leaves the bus, it is owed a prestart exactly if it *)
(* was released at least once: it is then in the queue or already pinged,  *)
(* whatever the state machine did with the rest of the queue in the same   *)
(* step; otherwise the queue gains nothing (handleUnregisteredService).    *)
OnlyShownAppsComeBack ==
    [][\A a \in Apps : LeavesBus(a) =>
           IF apps[a].releasedCount > 0
           THEN IsQueued(queue', a) \/ a \in pings'
           ELSE queue'[a] <= queue[a]]_vars

(* Nothing leaves the queue unserved or out of turn: an entry goes, and an *)
(* application is pinged, only when the load last delivered allows this    *)
(* application its start and nothing more important stays behind; an entry *)
(* goes with the ping, or because the application is there already         *)
(* (stateWaitForCPU, ComparePriority, sendPrestartRequest).                *)
Served(a) == queue'[a] < queue[a] \/ a \in pings' \ pings

ServedInTurn ==
    [][\A a \in Apps : Served(a) =>
           /\ a \in pings' \/ apps'[a].prestarted
           /\ load' < CpuLoadThreshold[a]
           /\ \A b \in Apps : IsQueued(queue', b) => Priority[a] <= Priority[b]]_vars

(* The most important application does not wait for ever: once queued, it  *)
(* is pinged, or turns out to be there already, or the daemon ends         *)
(* (stateWaitForCPU, ComparePriority).                                     *)
MostImportant == {a \in Apps : \A b \in Apps \ {a} : Priority[a] < Priority[b]}
MostImportantServed ==
    \A a \in MostImportant :
        IsQueued(queue, a) ~> (a \in pings \/ apps[a].prestarted \/ ~running)

(* When nothing is pushed any more the queue drains, however its entries   *)
(* block each other, and polling stops, so an idle device is not woken up  *)
(* for ever (stateWaitForCPU, class comment of Prestarter, item 3).        *)
QueueDrains ==
    <>[][\A a \in Apps : queue'[a] <= queue[a]]_vars => <>[](~running \/ ~polling)

(* An application that is still there at the timeout after its SIGTERM is  *)
(* sent SIGKILL, unless the user looks at the device or at the application *)
(* first, or its process turns out to be gone (handleScreenBlanked,        *)
(* triggerForcedRePrestarts, killApp).                                     *)
SurvivedSigterm(a) == /\ forcedTimer /\ apps[a].sigTermSent
                      /\ apps[a].rePrestarting /\ ~apps[a].released

ForcedRePrestartCarriedOut ==
    \A a \in Apps :
        SurvivedSigterm(a) ~> \/ apps[a].sigKillSent
                              \/ apps[a].released \/ ~apps[a].rePrestarting
                              \/ ~blanked \/ ~running

(* Where Lifecycle sees the application of a record. *)
StageOf(app) == IF ~app.prestarted THEN "away"
                ELSE IF app.released THEN "shown" ELSE "ready"

Life == INSTANCE Lifecycle WITH
    stage <- [a \in Apps |-> StageOf(apps[a])],
    credited <- {a \in Apps : apps[a].releasedCount > 0},
    condemned <- {a \in Apps : apps[a].rePrestarting},
    warned <- {a \in Apps : apps[a].sigTermSent},
    killed <- {a \in Apps : apps[a].sigKillSent},
    owed <- {a \in Apps : IsQueued(queue, a)},
    dark <- blanked,
    up <- running

(* The core implements the life cycle that module Lifecycle promises the   *)
(* applications, whatever the queue, the state machine and the CPU load do *)
(* in between (all handlers together).                                     *)
LifecycleSpec == Life!Spec
=============================================================================
