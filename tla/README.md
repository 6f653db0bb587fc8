# A verification of applifed

applifed is the application life-cycle daemon of MeeGo. It starts configured
applications in advance, behind the scenes, when the CPU is idle; notices when
they show and hide their windows; starts them again when they end; kills and
restarts, behind a blank screen, those that came back too often; and kills other
programs that stay alive with a hidden window without being allowed to.

The program is about 2200 lines of C++ in `src/src`. It is one process with one
Qt event loop and no threads, so a slot is never interrupted by another slot. What
makes it hard is the world around the loop: two servers (the session bus and the
X server) report what other processes did, each in its own order, and the daemon
asks both of them questions whose answers are about *now* and not about the moment of
the report.

This directory holds TLA+ modules translated from that code, small instances that
TLC checks, and theorems that TLAPS proves for every instance.

## 1. The system and its parts

| Part | State | Operations | Talks to |
|---|---|---|---|
| `Prestarter` | applications, prestart queue, state machine (`Init`, `WaitForPrestart`, `WaitForCPU`), last load, forced re-prestart timer | read configuration, bus notifications, load values, window events, screen, timer, termination | session bus (ping, owner of a service), `SystemState`, the processes it signals |
| `PrestartApp` | released, count of releases, prestarted, scheduled, pid, signals tried | setters | called by `Prestarter` |
| `Daemon` | none of its own that decides anything | `run`, X event filter, SIGTERM, daemonize, lock | X server, `Prestarter` |
| `SystemState` | polling on/off, poll timer | enable polling, timer tick, screen state, test console | `CPULoad`, context framework, stdin |
| `CPULoad` | last reading of `/proc/stat`, load, forced load (static) | update, get, force | kernel |
| `ConfigParser`, `ConfigData` | defaults, list of applications, white list | one callback per XML element | `Prestarter` reads the result |
| `X11Util` | none | pid of a window, windows of a pid, prestarted flag, program name | X server |
| `main`, lock, `daemonize` | lock file | two locks around two forks | other instances |
| `Logger` | a file | log lines | - |

What flows between them:

* the session bus reports that a watched service appeared or disappeared
  (`handleRegisteredService`, `handleUnregisteredService`, `handleServiceOwnerChange`);
  the daemon asks it for the pid of the owner;
* the X server reports that a window was mapped or unmapped (`handleXMapEvent`,
  `handleXUnmapEvent`); the daemon asks for the pid of the window, for the windows
  of a pid, and for the flag the toolkit sets on windows in the prestarted state;
* `SystemState` emits `cpuLoadUpdated` while polling is on and `screenBlanked`;
* the `Prestarter` pings services, and sends SIGTERM and SIGKILL.

What is hard, and what makes each part correct:

* **Prestarter.** Several handlers push into the queue, and only a running poll
  timer takes out again. Correct: nothing waits in the queue without a timer; the
  queue drains; exactly the applications that were shown come back; a kill is
  justified by configuration and count and happens behind a blank screen only;
  signals escalate from SIGTERM to SIGKILL for one process and never carry over
  to the next.
* **Daemon among processes.** Reports from two servers arrive out of order with
  each other and late. Correct: the daemon's idea of who is on the bus converges;
  its end reaches every managed process and no other; a program is killed for a
  lazy shutdown if and only if it may not do that, although the handler asks the X server
  several times and programs go on between the answers; crashing applications are
  not restarted in a loop.
* **CPU meter.** Ints, a division, a reading kept between sessions, a Qt
  connection that would double. Correct: one connected timeout while polling is on; a
  delivered value is the load of the last interval, or the forced one while one is
  forced; it is a percentage.
* **Start-up.** A lock that forks do not inherit; a signal before its socket
  exists. Correct: at most one process becomes the daemon, and a SIGTERM that is
  not lost ends it.
* **Configuration.** Defaults and overrides. Correct: what is written wins, what
  is not written is the default in force at that element, and a rejected file
  changes nothing.
* **Test console.** Lines that arrive in any rhythm, a buffer the event loop does not
  see, and an end of input that ends the program now or later. Correct: no line is lost
  at the end, and the end comes.

`PROJECT.json` lists the hazards line by line, with the property that covers each.

## 2. The modules

```
PrestartApp          record of one application, setters as operators
  Prestarter         the decision core, open: any handler, any time, any argument;
                     implements Lifecycle under a refinement mapping
    MCPrestarter
    PrestarterProofs   invariants, order of service, forced re-prestarts
    Applifed         the core among processes, bus, X server and event queues
      MCApplifed
      ApplifedProofs   shape, refinement, policing
        BusViewProofs  the bus view converges, termination reaches everybody
        LifecycleProofs  Prestarter, and so Applifed, implements Lifecycle
Lifecycle            abstract: what happens to each application
SystemState          the CPU meter (SystemState and CPULoad), open
  MCSystemState
  SystemStateProofs
ConfigParser         what a configuration file means (operators, no variables)
  TestConsole        the commands on the standard input of --test
    MCTestConsole
    ConfigProofs       what is read from a configuration file of any length
      ConsoleProofs
Startup              arguments, lock, forks, construction, SIGTERM
  MCStartup
  StartupProofs
```

### Prestarter

One action per slot, with everything the slot calls. `runState` is called
from three places with a changed record, queue or load, so the state machine is a
set of operators that take those as parameters (`RunState(ap, q, ld)`) and set
the primed variables; a handler is one atomic step because the event loop never
interrupts it.

| Code | TLA+ |
|---|---|
| `m_vectApps`, the `PrestartApp` objects | `vectApps`, `apps` (a record per name; untouched until added) |
| `m_queue`, a `std::priority_queue` | `queue`, a bag; `Tops` is the set of entries of least priority value, any of which may be popped, as the standard leaves ties open |
| `m_state`, `m_load`, `m_cpuLoadPollingEnabled` | `state`, `load`, `polling` |
| `m_forcedRePrestartTimer.isActive()` | `forcedTimer` |
| the `ping` calls in flight | `pings` |
| the process is alive | `running` |
| - (history) | `blanked`: last screen notification |

`readConfiguration` and `startPrestartActions` are one action `RunPrestarts`: they run
in one slot, or before the event loop starts. In the test mode it can happen again at
any time. The answers of the bus and the X server during that action are chosen
freely.

The watcher delivers a change of owner in addition to the registration or
unregistration (`HandleServiceOwnerChange`), before or after them; both end in the same
two handlers. A service passed on directly from one owner to another is a change of owner
alone, which the code does not act on.

### Lifecycle

The abstract specification of what the core promises each application, without queue, state
machine, load, polling or counters: where it is (`away`, `ready`, `shown`), whether it has
shown a window (`credited`), is to be re-prestarted by force (`condemned`), has been signalled
(`warned`, `killed`), and is to be started (`owed`). One that leaves the bus is owed a new start
exactly if it was credited; a start makes a clean sheet; only a condemned application that
shows no window is signalled, behind a dark screen, and warned before it is killed.

The refinement mapping is the substitution of `Life == INSTANCE Lifecycle WITH ...` in
`Prestarter` (`StageOf` reads the stage off the record; owed is what is in the queue).
`LifecycleSpec == Life!Spec` is checked in the run `prestarter` and proved in `LifecycleProofs`.

### Applifed

Extends `Prestarter` and calls its handlers with what the world offers. New state: what
each pid runs, which pids are alive, which own their service name, which have a
window and whether it is mapped; two queues of unhandled reports; and the progress
of the start-up, which is split in two steps for every service (`AskBus`,
`WatchService`), because the bus can change between `isServiceRegistered` and
`addWatchedService`.

A process ends in one step (`Die`); the bus and the X server notice in later steps of their
own. The pid that owns a service is read from the current state when the
registration is handled, and so are the windows of a pid and the flag of a window
(`OwnerPid`, `WindowsForPid`, `IsPrestarted`, `HasWindowPid`). The toolkit's flag is
set on a window exactly while it is hidden. Every process has one window; an
event of a window that is gone when it is handled is dropped, because `windowPid`
fails.

`handleXUnmapEvent` waits for the X server several times, and processes run meanwhile. It is
therefore not one action but one for each answer; `unmapping` is the event in hand and the next
step, and every other slot waits until it is `Idle` again, for there is one thread:

| Step | Question, and what becomes of the event |
|---|---|
| `HandleXUnmapEvent` | first `windowPid`: dropped if the window is gone; the pid is that of a known application or not |
| `CheckWindows` | known: `windowsForPid`; if there are none, `restoredPrestart` |
| `CheckFlag` | unknown: `isPrestarted`; dropped if the flag is not set (any more) |
| `CheckName` | `applicationName` and the white list; the name is empty if the window has no `WM_COMMAND` (`Nameless`) or is gone, and the empty name is on no white list |
| `AskPidAgain` | second `windowPid`: dropped if the window is gone by now |
| `KillLazyProgram` | `kill`: no effect on a process that is gone (ESRCH) or that the daemon may not signal (`Protected`, EPERM); the event is done with all the same |

The other handlers stay one action each: `handleXMapEvent` asks one question before it acts, and
the answer of the bus about an owner is not read again.

Start-up of the daemon, with `QuietStartup = TRUE`, assumes that no service changes in
the gap of its own registration. `FALSE` drops the assumption.
With `PidsReused = TRUE` a pid comes back for another process when nothing is left
of the last one.

### SystemState

`enableCPULoadPolling`, the timeout, `forceValue`, and the kernel that counts ticks.
A forced load counts from 0 upwards, and a negative one takes it back (`GetValue`); `forcedThen` is
history, the forced load at the last delivery. The load is computed in the arithmetic of the code: `toInt()` gives 0 for a number
that is too large, int differences wrap, a double that is not representable
becomes any of the values the platforms produce. `busy` stands for the fields user,
nice and system, which the code adds up; ticks in other fields appear in neither counter.
Reading an empty list (`/proc/stat` not readable) is undefined in the
code; here it crashes the program or yields any unrepresentable value.

### ConfigParser and TestConsole

`ConfigParser` has no variables: a document is the sequence of its start tags, `Parse` folds
`StartElement` over it, and `ReadConfiguration` is what the prestarter keeps of a reading.
A fold of the community modules and no recursive operator, so that `TestConsole` can be proved
about. Numbers are those of `QString::toInt` (no number is 0) and the trigger is stored unsigned. The reference
it is checked against (`TakesSettings`) is read off the document as a whole; it leaves a trigger
that is written as 0 open, because there the code and its documentation part (`TriggerOverrides`).

`TestConsole` puts it to use. The text before the first `=` of a line is its `word`, the pieces
after it are its `args`; the order in which `parseLine` tries its prefixes decides what
becomes of `SCREEN_BLANKED_WITH_DELAY` without `=` (it blanks at once). `ReadTestData` is the whole
slot: one line, then the question for the end of the stream. The stream is modelled from how
`QTextStream` reads a pipe: it moves everything readable to its buffer, and the notifier of the event
loop sees the pipe and not the buffer. `m_exitTimer` does not start with a negative
interval, which a negative delay and one above INT_MAX / 1000 give. `MEMORY_LOW` is connected to
nothing and has no effect. A file is read when its line is handled and may hold anything then.

### Startup

Every launch is three processes, `first`, `child` and `grandchild`, of which the last two exist with
`--fork` only; `place` is where each is in the code, and an action takes one process one place
further. `CheckForLock` is `F_SETLK`: it belongs to a process, is not inherited, and goes with the
process. `first` keeps it until it has left, `grandchild` asks for it anew; in between it is free, or
still taken by `first`, in which case no daemon comes up (`CheckForLockFails`). `Install` leaves open
whether SA_RESETHAND is among the uninitialised flags. `ClosedStdio` says whether the program is
launched with a standard descriptor closed, in which case `dup2` closes the lock file.
The socket pair is the last thing the constructor makes; earlier signals are lost.
What a running daemon does is in `Applifed`; here it only reads its configuration and waits for SIGTERM.

## 3. What the runs check

Passing runs (`PROJECT.json` has the mutant that breaks each property):

| Run | Module / cfg | What it shows |
|---|---|---|
| `prestarter` | `MCPrestarter.cfg` | `TypeOK`; `QueueServed`: whatever is queued has the poll timer behind it; `RePrestartJustified`; `SignalsAccounted`; `TimerOnlyWhileBlank`; `SignalledOnlyBehindBlankScreen`; `OnlyShownAppsComeBack`; `ServedInTurn`: an entry leaves the queue only below its threshold, for a ping or a process that is there, and leaves nothing more important behind; `LifecycleSpec`: the core implements `Lifecycle`; `MostImportantServed`: the most important queued application is pinged in the end; `QueueDrains`: the queue drains and polling stops when pushes stop; `ForcedRePrestartCarriedOut`: an application that survived its SIGTERM gets SIGKILL at the timeout, unless it is looked at or gone first |
| `system_safety` | `MCApplifedSafety.cfg` | `SystemTypeOK`; `BusViewConverges`: a service none of whose notifications is under way is known as it is; `TerminationReachesAll`: the end of the daemon reaches every such service that lives |
| `lazy_shutdown` | `MCApplifedLazyShutdown.cfg` | `LazyShutdownReported`: a lazy shutdown that is not allowed and can be punished has its event on the way or in hand, whatever happens between the questions; `OnlyLazyProgramsPoliced`: what is killed was hidden at some moment since the event was taken up, is not known to be managed, and is on the white list only if it has no name; `LazyShutdownPoliced`: such a program does not get away with it |
| `system_liveness` | `MCApplifedLiveness.cfg` | `ReleasedAppComesBack`; `PrestarterSpec`: the composed system implements the open module |
| `cpu_meter` | `MCSystemStateMeter.cfg` | `MeterTypeOK` (with: one connected timeout exactly while polling is on); `LoadOfLastInterval`: also for the first load after a forced one was taken back |
| `console` | `MCTestConsole.cfg` | `ConsoleTypeOK`; `EndOnlyAfterLastLine`; `NeverDeaf`: a daemon that goes on listens or has the timer of its end running; `EndOfInputEndsDaemon`; `ConfigurationTakenOver`: a reading against a declarative reference of what the document says (thresholds, priorities, triggers other than 0, permissions, delays, white list) |
| `boot` | `MCStartup.cfg` | `StartupTypeOK`; `AtMostOneDaemon`; `TermHonoured` |

Violated properties, each what a doc or comment of the repository says and the code
does not do:

| Run | Property | What happens |
|---|---|---|
| `startup_race` | `BusViewConverges`, without `QuietStartup` | a service registers between the question and the watch; the daemon never learns of it (`prestarter.cpp:372-391`) |
| `policing` | `ManagedServicesNotPoliced` | a managed service maps and hides its window before its registration is handled; it is not known by its pid and is killed (`daemon.cpp:182-211`) |
| `crash_loop` | `CrashLoopGuard` | a late MapNotify of the last process is credited to the next one, which is re-prestarted though it never showed its UI (`prestarter.cpp:526-541`) |
| `trigger_zero` | `TriggerOverrides` | `re-prestart_trigger="0"` does not override the default, though the README and the comment at the line say that what is written does (`configparser.cpp:146-152`) |
| `load_range` | `LoadInRange` | an interval of pure iowait makes the divisor zero (`cpuload.cpp:56`) |

### Bounds

* `prestarter`: two applications with different priorities and
  thresholds; one pid and "no pid"; loads below both thresholds, between them, and above both (100, also
  the load before the first measurement). `mail` is the important application and the one with the stricter
  threshold, so it can block the other, and the one that may be force-restarted. It gets two releases, one more than
  its trigger asks for, so that it can be shown again while it is scheduled, and two queue entries, which is
  what a duplicate needs. `maps` may not be force-restarted, so its count is compared with 0 only and one release is
  enough; it gets one queue entry. The test mode, in which the configuration can be read again. Every
  reading pushes every application, so with these bounds a reading meets `mail` while it waits in the queue or is
  pinged, and `maps` in every state but queued; with two entries of `maps` as well, TLC found the safety properties
  to hold too (too many states for the liveness properties in the time of a run, which has 330 000). That, and a third
  entry, is left to the theorems, which have no bound. Production is the special case with
  a single reading; it is the mode of all runs of `Applifed`.
* `system_safety`: one managed application, two pids that come back, event queues of
  length two. Two notifications under way are a registration and
  an unregistration that overtake the answer about the owner; two pids are an old and a new
  process of the same service; one release is enough for a forced re-prestart, so that
  termination meets applications that were signalled before. The inductive invariant behind the proofs was also
  checked with two services.
* `lazy_shutdown`: one managed application and four outsiders, one of each kind that the handler
  tells apart (ordinary; white-listed; white-listed without a name; not to be signalled), of which any
  two processes run, two of the same program or of two; event queues of length two, so that an unmap event waits
  behind a map event of the same or of the other window. Pids are not reused: see section 5.
  `Loads = {}`: the CPU is never polled; the policing shares nothing but the thread with the polls, which
  `system_liveness` has.
* `system_liveness`: one managed application and no outsider; its own unmap events take the handler
  through its steps. One release is enough for a forced re-prestart, so that the refinement sees one.
* `console`: three lines out of ten commands, so that a line waits behind another, an accepted
  command follows a dropped one, and two readings follow each other; documents with every
  kind of element, each kind of override (threshold 0, trigger 0 and 7, priority -1) with each default before it; 16-bit ints, the least
  width that holds the default delay and overflows by one of the delays.
* `boot`: two instances of three processes; `AtMostOneDaemon` speaks of pairs, and a restart
  is the launch of the second after the end of the first.
* `cpu_meter`: 8-bit ints, the least width that holds every percentage; counters that advance
  in strides of 20 and 50 and outgrow the int; forced loads 50, -1 (what the tests take a load back with)
  and -5.
* `MaxReleases`, `MaxQueued`, `MaxPending`, `MaxTicks`, `MaxLines` are bounds of the model
  and not of the code; they appear as guards. A window is shown only
  if its release can still be counted (`RoomToShow`), so that the bound never blocks the
  event loop and fairness is not bought with it.

`CHECK_DEADLOCK FALSE` is set everywhere: the daemon ends, and at the bounds the model stops.

### Fairness

* `FairSpec` (Prestarter): weak fairness of a poll with a load below every threshold, and of the
  timeout of the forced re-prestarts (a running QTimer fires).
  The poll timer is periodic and is on whenever the machine waits; that an idle moment
  comes is an assumption about the device, without which the program promises nothing.
  No fairness is assumed of the bus, the windows, the screen or the user.
* `FairSystemSpec` (Applifed): weak fairness of the start-up, of the handlers of window events, and of
  the steps of a handler that waits for the X server, which answers. Strong fairness of the handlers of bus
  notifications and of quiet polls: a slot that waits for the X server makes all others wait, again and
  again if windows keep coming and going, so that none of them is enabled for good; the event loop of Qt
  comes round to each of its sources in turn, and a notification that is pending whenever the loop is free
  gets its turn. For polls it is the assumption of `FairSpec` again. Nothing is assumed of
  processes: they may never end, never join the bus, and a ping may go unanswered or fail.
* `ConsoleFairSpec`: the event loop serves the notifier of the standard input and the exit timer. The
  writer need not close its pipe.
* `StartupFairSpec`: the kernel schedules every process. Nobody need send a signal.

## 4. What is proved

TLAPS checks these for every set of applications, pids and programs and
every configuration; the assumptions are the named `ASSUME`s of the modules, and
those a theorem states. Every invariant and action property of a passing run is among them.

| Module | Theorems | Argument |
|---|---|---|
| `PrestarterProofs` | `TypeCorrect`, `QueueAlwaysServed`, `RePrestartAlwaysJustified`, `SignalsAlwaysAccounted`, `TimerAlwaysBehindBlankScreen`, `SignalsOnlyBehindBlankScreen`, `ShownAppsComeBack`, `AlwaysServedInTurn`, `QueueNeverStuck`, `QuietPollsDrain`, `SurvivorsStayScheduled` | one inductive invariant `IInv`: the state invariants of the run plus facts no property states, such as that polling implies that an application was configured. The action properties follow from it step by step; two handlers run the state machine, so what they find is described once (`Handed`) and the lemmas about `RunState` are cited for both. `QueueNeverStuck` assumes that finitely many applications are configured. |
| `ApplifedProofs` | `SystemTypeCorrect`, `SystemRefinesPrestarter`, `SystemKeepsCoreSafe`, `OnlyLazyProgramsEverPoliced`, `LazyShutdownAlwaysReported` | `SystemInv`: the shape of processes, queues and start-up, together with `IInv`. Refinement: every action of `Applifed` is a step of `Prestarter` or leaves its variables alone; the bus answers gathered one by one at start-up are a legal choice of `RunPrestarts`. With it the theorems of `PrestarterProofs` hold of the composed system; `SystemKeepsCoreSafe` collects them. `LazyShutdownAlwaysReported` and `OnlyLazyProgramsEverPoliced` speak of a handler that other actions interrupt, so both need what stays true between its steps. `LazyInv`: a pid the daemon knows, or was told at the start, runs that application, and a hidden window of a program that may not hide has its event queued or in hand, before the step that would lose it. `PolicingInv`: once the flag was found set, the window has been hidden since the event was taken up; once the name was found missing on the white list, the program is not on it or has no name, as long as its window exists; and the pid in hand stays that of no known application, because no slot runs that could change the record. Both assume `~PidsReused` (see section 5); neither says anything of a program the daemon may not signal. |
| `BusViewProofs` | `BusViewAlwaysConverges`, `TerminationAlwaysReachesAll`, `DifferencesAlwaysReported` | `BusInv`: for every watched service the unhandled notifications alternate, the first contradicts the record, the last agrees with the bus. "None of the service is in the queue" then gives the properties; they are not inductive. Assumes `QuietStartup`; `startup_race` shows that it is needed. |
| `LifecycleProofs` | `PrestarterImplementsLifecycle`, `SystemImplementsLifecycle` | `IInv` and, for every handler, which stages it moves an application between; applications a handler does not touch stay where they are, and a step that touches none is a stutter of `Lifecycle`. The composed system follows by its refinement. |
| `StartupProofs` | `StartupTypeCorrect`, `OneDaemonAtMost`, `SigTermNeverForgotten` | `StartupInv`: every process past its check and outside the test mode holds the lock, which has one owner; no process of an instance exists before its arguments are read. Only `OneDaemonAtMost` assumes `~ClosedStdio`; with a closed descriptor TLC finds two daemons. |
| `ConfigProofs`, `ConsoleProofs` | `ConsoleTypeCorrect`, `ConfigurationAlwaysTakenOver`, `ConsoleReadsToTheEnd`, `ConsoleNeverDeaf` | what the parser has after the first *k* elements, by induction over *k*: the default in force is that of the last `<default>` before, an application carries the last value written for it, a rejected element ends the reading. The end of the file is met in a closed and empty pipe only, and nothing is written to it after that. `WaitingInv`: the notifier goes off only once a line has set the flag, the delay and the timer together. All that is assumed of a document is its shape: it exists or not, is well formed or not, and has a finite sequence of start tags. |
| `SystemStateProofs` | `MeterTypeCorrect`, `MeterMeasuresLastInterval`, `LoadStaysInRange` | `MeterMeasuresLastInterval` holds for all forced loads that are ints, negative ones included: readings go on while a load is forced. Readings lie below the counters, differences that fit are not wrapped, a share of a sum is between 0 and 100. `LoadStaysInRange` names the three conditions (counted intervals, a readable `/proc/stat`, counters that fit) that the doc's claim needs and the code does not check. |

The induction theorems of the library take a predicate as parameter, which the
provers cannot instantiate. `ConfigProofs` states induction for sets of numbers instead, from the
fact that the natural numbers are well founded (`LeastNatural`, `Induction`), and unfolds
the folds of `ConfigParser` through the function they are defined by, which it shows
to exist (`Walk`, `WalkGrows`). The same fact gives the top of a queue over any finite set of applications
(`QueueHasTop`) and the last notification of a service (`LastNotice`).

Only model-checked is what needs fairness, because liveness and ENABLED are out of the
prover's reach. For each of these properties the steps it is made of are proved, so that what is left to
TLC is that they are taken:

| Model-checked | Proved safety half |
|---|---|
| `QueueDrains`, `MostImportantServed` | `QueueNeverStuck`: whatever is queued has the timer and a top; `QuietPollsDrain`: a quiet poll takes an entry or stops the polling, and the most important application keeps its place until it is served, by the first quiet poll |
| `ForcedRePrestartCarriedOut` | `SurvivorsStayScheduled`: an application that survived its SIGTERM keeps its schedule, and the timer runs, until it is signalled, looked at or gone |
| `LazyShutdownPoliced` | `LazyShutdownAlwaysReported`: the event that will have it killed is on its way or in hand |
| `ReleasedAppComesBack` | `DifferencesAlwaysReported`: a service that left without the daemon's knowledge has its notification on the way; `ShownAppsComeBack`, `QueueAlwaysServed`: with it, the service is queued or pinged, and the timer runs |
| `EndOfInputEndsDaemon` | `ConsoleNeverDeaf` |
| `TermHonoured` | `SigTermNeverForgotten`: the byte stays in the socket pair until the process handles it or is gone |

## 5. Observations without a run

Behaviour met while modelling that no run is kept for; where a document says otherwise, it is quoted:

* The grandchild may be refused the lock by its own launching process, which has not left yet, and then
  no daemon runs at all (`daemon.cpp:272`; `CheckForLockFails` in `Startup`).
* A prestart may be decided on the load of an earlier polling session (`prestarter.cpp:175`).
* The pid of a service that left the bus is kept, and signalled at the end of the daemon even if it
  belongs to another process by then (`prestarter.cpp:577`).
* The pid of an application is forgotten with the next request for it only. If the pid comes back for a
  program that the daemon does not manage, that program counts as managed, and its lazy shutdown goes
  unpunished (`prestarter.cpp:419-430`); `LazyShutdownAlwaysReported` assumes that pids do not come back.
* A program that maps its window again after `isPrestarted` was answered is killed all the same, with its
  window in front of the user (`daemon.cpp:201-211`). `OnlyLazyProgramsPoliced` therefore says that
  the window was hidden at some moment since the event was taken up, and not that it is hidden when the program is killed.
* A program that the daemon may not signal (EPERM, `daemon.cpp:217-220`) gets away with its lazy shutdown:
  the event is consumed and nothing tries again. `LazyShutdownPoliced` and `LazyShutdownReported` are
  about programs that may be signalled.
* A white-listed program whose window has no `WM_COMMAND` is looked up under the empty name and killed
  (`x11util.cpp:62-90`, `daemon.cpp:203-211`), though the repository's README (line 84) says that a program whose binary path
  is listed is not. No run is kept for it: it is the exception that `OnlyLazyProgramsPoliced` states, and
  `clock` of `lazy_shutdown` is such a program. An ordinary program without a name is killed as it should be.
* Between the second `windowPid` and the `kill` the process may end, and its pid may come back for another
  one, which is killed in its place. In the model this needs `PidsReused`; no document promises otherwise.
* `EXIT_WITH_DELAY` with a negative or very large delay sets the flag without starting the timer: the end
  of the input then ends nothing.
* `--version` is announced by `--help` (`main.cpp:41`) and not handled.
* In the echo mode the logger uses a `va_list` twice (`logger.cpp:94`).

## 6. What is not modelled

* The lag of `_NET_CLIENT_LIST` behind the map state, and more than one window per
  process. With one window the question "are all windows of this pid closed" is the question
  about that window.
* A service handed over from one owner to another on the bus: in `Prestarter` (it changes
  nothing), not in `Applifed`.
* Lost X or bus connections, which the code does not handle.
* `Logger`: it keeps no state that a decision reads. `old/` is not built. Packaging, boot scripts and
  the test applications have no state of the program.
* The composition of the console with the core: `Prestarter` has the reading of configurations, the loads
  and the screen as free inputs, so anything the console can order is among them. Likewise for the
  meter: the loads of `Prestarter` are arbitrary.
* Partial lines on the console, and more input at once than one read of the stream takes (16 KB).
