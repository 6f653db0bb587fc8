------------------------------- MODULE Startup -------------------------------
(***************************************************************************)
(* How an instance of applifed comes up and goes down: main()              *)
(* (src/main.cpp), the lock file, daemonize(), the construction of Daemon  *)
(* and the handling of SIGTERM (src/daemon.cpp).                           *)
(*                                                                         *)
(* A launch of the program is an instance.  With --fork it becomes three   *)
(* processes: the one launched, its child, and the child's child, which is *)
(* the daemon.  Each process is at a place of the code and every action    *)
(* takes one process from a place to the next, so that the processes of    *)
(* all instances, the signals and the kills interleave freely.             *)
(***************************************************************************)
EXTENDS Integers, Sequences

CONSTANTS
    Instances,    \* the launches of the program
    Arguments,    \* the argument lists it may be launched with
    NoProcess,    \* nobody holds the lock
    ClosedStdio   \* launched with a standard descriptor closed

Generations == {"first", "child", "grandchild"}
Processes == Instances \X Generations

ASSUME StartupAssumption ==
    /\ NoProcess \notin Processes
    /\ ClosedStdio \in BOOLEAN

VARIABLES
    place,      \* where each process is in the code
    options,    \* what parseArgs made of the arguments of each instance
    handler,    \* the processes that have the handler of SIGTERM
    oneShot,    \* the instances whose handler serves one signal only
    termByte,   \* the processes with a byte waiting in the socket pair
    lockOwner,  \* the process that holds the lock on LOCK_FILE
    sockets     \* the processes that have created their socket pair

startupVars == <<place, options, handler, oneShot, termByte, lockOwner, sockets>>

Places == {"unborn", "parseArgs", "install", "checkForLock", "fork", "detach",
           "construct", "readConfiguration", "exec", "leave", "gone"}

-----------------------------------------------------------------------------
(* parseArgs *)

NoOptions == [daemonize |-> FALSE, testMode |-> FALSE, help |-> FALSE]

OptionSets == [daemonize : BOOLEAN, testMode : BOOLEAN, help : BOOLEAN]

(* "--log" takes the argument after it for its file, whatever that is. *)
IsValue(args, n) ==
    LET isValue[i \in 1..Len(args)] ==
            i > 1 /\ args[i - 1] = "--log" /\ ~isValue[i - 1]
    IN  isValue[n]

Said(args, option) ==
    \E n \in DOMAIN args : args[n] = option /\ ~IsValue(args, n)

ParseArgs(args) ==
    [daemonize |-> Said(args, "--fork"),
     testMode  |-> Said(args, "--test"),
     help      |-> Said(args, "--help")]

StartupInit ==
    /\ place = [p \in Processes |-> "unborn"]
    /\ options = [i \in Instances |-> NoOptions]
    /\ handler = {} /\ oneShot = {} /\ termByte = {} /\ sockets = {}
    /\ lockOwner = NoProcess

-----------------------------------------------------------------------------
TestMode(p) == options[p[1]].testMode

Alive(p) == place[p] \notin {"unborn", "gone"}

Go(p, next) == place' = [place EXCEPT ![p] = next]

(* The kernel drops the lock of a process that ends, and all it has. *)
End(p) ==
    /\ Go(p, "gone")
    /\ lockOwner' = IF lockOwner = p THEN NoProcess ELSE lockOwner
    /\ handler' = handler \ {p}
    /\ sockets' = sockets \ {p}
    /\ termByte' = termByte \ {p}

Launch(i, args) ==
    /\ place[<<i, "first">>] = "unborn"
    /\ Go(<<i, "first">>, "parseArgs")
    /\ options' = [options EXCEPT ![i] = ParseArgs(args)]
    /\ UNCHANGED <<handler, oneShot, termByte, lockOwner, sockets>>

(* --help ends the program in parseArgs. *)
ParseDone(p) ==
    /\ place[p] = "parseArgs"
    /\ Go(p, IF options[p[1]].help THEN "leave" ELSE "install")
    /\ UNCHANGED <<options, handler, oneShot, termByte, lockOwner, sockets>>

(* setupUnixSignalHandlers: sigaction() reports an error as -1, which the  *)
(* code does not look for.  sa_flags is not initialised, so SA_RESETHAND   *)
(* may be among the flags.                                                 *)
Install(p) ==
    /\ place[p] = "install"
    /\ handler' = handler \cup {p}
    /\ oneShot' \in {oneShot, oneShot \cup {p[1]}}
    /\ Go(p, "checkForLock")
    /\ UNCHANGED <<options, termByte, lockOwner, sockets>>

(* main() goes on to daemonize() or to the Daemon, the grandchild to the   *)
(* rest of daemonize().                                                    *)
AfterCheckForking(p) == IF p[2] = "first" THEN "fork" ELSE "detach"

AfterCheck(p) ==
    IF p[2] # "first" THEN "detach"
    ELSE IF options[p[1]].daemonize THEN "fork"
    ELSE "construct"

(* F_SETLK succeeds for the process that has the lock already. *)
CheckForLock(p) ==
    /\ place[p] = "checkForLock"
    /\ TestMode(p) \/ lockOwner \in {p, NoProcess}
    /\ lockOwner' = IF TestMode(p) THEN lockOwner ELSE p
    /\ Go(p, AfterCheck(p))
    /\ UNCHANGED <<options, handler, oneShot, termByte, sockets>>

(* "Only one instance can be running", or LOCK_FILE cannot be opened. *)
CheckForLockFails(p) ==
    /\ place[p] = "checkForLock"
    /\ ~TestMode(p)
    /\ End(p)
    /\ UNCHANGED <<options, oneShot>>

-----------------------------------------------------------------------------
(* daemonize *)

Child(p) == <<p[1], IF p[2] = "first" THEN "child" ELSE "grandchild">>

(* Locks are not inherited: the grandchild must take it for itself. *)
BirthplaceUnchecked(p) == IF p[2] = "child" THEN "fork" ELSE "detach"

Birthplace(p) == IF p[2] = "child" THEN "fork" ELSE "checkForLock"

(* The child inherits the handler; the parent is about to exit. *)
Fork(p) ==
    /\ place[p] = "fork"
    /\ place' = [place EXCEPT ![p] = "leave", ![Child(p)] = Birthplace(Child(p))]
    /\ handler' = IF p \in handler THEN handler \cup {Child(p)} ELSE handler
    /\ UNCHANGED <<options, oneShot, termByte, lockOwner, sockets>>

(* umask, setsid, chdir and the standard descriptors.  dup2() closes what  *)
(* they were: the lock file, if one of them was free when main() opened    *)
(* it, and closing any descriptor of the file drops the lock.              *)
Detach(p) ==
    /\ place[p] = "detach"
    /\ lockOwner' = IF ClosedStdio /\ lockOwner = p THEN NoProcess ELSE lockOwner
    /\ Go(p, "construct")
    /\ UNCHANGED <<options, handler, oneShot, termByte, sockets>>

(* Daemon::Daemon: the socket pair comes last. *)
Construct(p) ==
    /\ place[p] = "construct"
    /\ sockets' = sockets \cup {p}
    /\ Go(p, IF TestMode(p) THEN "exec" ELSE "readConfiguration")
    /\ UNCHANGED <<options, handler, oneShot, termByte, lockOwner>>

(* Daemon::run *)
ReadConfiguration(p) ==
    /\ place[p] = "readConfiguration"
    /\ Go(p, "exec")
    /\ UNCHANGED <<options, handler, oneShot, termByte, lockOwner, sockets>>

(* fork(), setsid(), chdir(), QApplication, socketpair() and the reading   *)
(* of the configuration may fail; each failure is an ::exit.               *)
Fails(p) ==
    /\ place[p] \in {"fork", "detach", "construct", "readConfiguration"}
    /\ End(p)
    /\ UNCHANGED <<options, oneShot>>

Leave(p) ==
    /\ place[p] = "leave"
    /\ End(p)
    /\ UNCHANGED <<options, oneShot>>

-----------------------------------------------------------------------------
(* Signals.  Without the handler SIGTERM kills; the handler writes a byte  *)
(* to the socket pair, and as long as there is none, to descriptor 0,      *)
(* where nobody reads it.                                                  *)
SendSigTerm(p) ==
    /\ Alive(p)
    /\ IF p \in handler
       THEN /\ termByte' = termByte \cup ({p} \cap sockets)
            /\ handler' = IF p[1] \in oneShot THEN handler \ {p} ELSE handler
            /\ UNCHANGED <<place, lockOwner, sockets>>
       ELSE End(p)
    /\ UNCHANGED <<options, oneShot>>

(* handleSigTerm: Daemon::terminate() kills the prestarted applications    *)
(* (module Applifed) and quits the main loop.                              *)
HandleSigTermKillingOnly(p) ==
    /\ place[p] = "exec" /\ p \in termByte
    /\ termByte' = termByte \ {p}
    /\ UNCHANGED <<place, options, handler, oneShot, lockOwner, sockets>>

HandleSigTerm(p) ==
    /\ place[p] = "exec" /\ p \in termByte
    /\ termByte' = termByte \ {p}
    /\ Go(p, "leave")
    /\ UNCHANGED <<options, handler, oneShot, lockOwner, sockets>>

Kill(p) ==
    /\ Alive(p)
    /\ End(p)
    /\ UNCHANGED <<options, oneShot>>

-----------------------------------------------------------------------------
(* What a process does by itself. *)
ProcessStep(p) ==
    \/ ParseDone(p)
    \/ Install(p)
    \/ CheckForLock(p)
    \/ CheckForLockFails(p)
    \/ Fork(p)
    \/ Detach(p)
    \/ Construct(p)
    \/ ReadConfiguration(p)
    \/ Fails(p)
    \/ HandleSigTerm(p)
    \/ Leave(p)

StartupNext ==
    \/ \E i \in Instances, args \in Arguments : Launch(i, args)
    \/ \E p \in Processes : ProcessStep(p) \/ SendSigTerm(p) \/ Kill(p)

StartupSpec == StartupInit /\ [][StartupNext]_startupVars

(* The kernel schedules every process. *)
StartupFairSpec ==
    StartupSpec /\ \A p \in Processes : WF_startupVars(ProcessStep(p))

-----------------------------------------------------------------------------
(* Every variable stays in its type, and only an instance told to fork has *)
(* more than one process.                                                  *)
StartupTypeOK ==
    /\ place \in [Processes -> Places]
    /\ options \in [Instances -> OptionSets]
    /\ handler \subseteq Processes /\ oneShot \subseteq Instances
    /\ termByte \subseteq sockets
    /\ sockets \subseteq Processes
    /\ lockOwner \in Processes \cup {NoProcess}
    /\ \A p \in Processes :
          place[p] # "unborn" => p[2] = "first" \/ options[p[1]].daemonize

(* A process that is past checkForLock for good, outside the test mode:    *)
(* it has, or is about to have, the name of the daemon on its windows, its *)
(* bus and its applications.                                               *)
Daemons ==
    {p \in Processes :
        /\ ~TestMode(p)
        /\ place[p] \in {"construct", "readConfiguration", "exec"}}

(* "Only one instance of applifed can be running": whatever the order in   *)
(* which the processes of several instances take their steps, fork, fail   *)
(* or are killed, at most one of them becomes the daemon (daemonize hands  *)
(* the lock from the first process to the grandchild, and it is free in    *)
(* between).                                                               *)
AtMostOneDaemon == \A p, q \in Daemons : p = q

(* A SIGTERM that reaches the socket pair, even while the configuration is *)
(* still being read, ends the process.                                     *)
TermHonoured == \A p \in Processes : p \in termByte ~> place[p] = "gone"
=============================================================================
