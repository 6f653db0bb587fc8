---------------------------- MODULE PrestartApp ----------------------------
(***************************************************************************)
(* The book-keeping record of one managed application (class PrestartApp,  *)
(* src/prestartapp.cpp).  The record keeps the fields that change while    *)
(* the daemon runs; the fields that the configuration fixes (priority,     *)
(* CPU load threshold, re-prestart trigger and the permission for forced   *)
(* re-prestarts) are constants of module Prestarter.                       *)
(*                                                                         *)
(* The setters are operators from a record to the changed record, because  *)
(* the daemon's handlers call several of them on one record in a row.  A   *)
(* definition marked "Mutant" is a faulty variant of the one below it: no  *)
(* model uses it, it shows that a property would notice the fault.         *)
(***************************************************************************)
EXTENDS Naturals

CONSTANTS
    Pids,   \* process identifiers that a service or a window can belong to
    NoPid   \* the value 0 of m_pid: no process is known

ASSUME NoPidAssumption == NoPid \notin Pids

AppRecord ==
    [released      : BOOLEAN,        \* some window of the application was mapped
     releasedCount : Nat,            \* how many times that became true
     prestarted    : BOOLEAN,        \* its service is on the session bus
     rePrestarting : BOOLEAN,        \* scheduled for a forced re-prestart
     pid           : Pids \cup {NoPid},
     sigTermSent   : BOOLEAN,
     sigKillSent   : BOOLEAN]

(* The state given by the constructor. *)
NewApp ==
    [released |-> FALSE, releasedCount |-> 0, prestarted |-> FALSE,
     rePrestarting |-> FALSE, pid |-> NoPid,
     sigTermSent |-> FALSE, sigKillSent |-> FALSE]

SetPid(app, pid) == [app EXCEPT !.pid = pid]

(* Only the change from "not released" to "released" is counted. *)
SetReleased(app, newReleased) ==
    [app EXCEPT
        !.releasedCount = IF newReleased /\ ~app.released THEN @ + 1 ELSE @,
        !.released = newReleased]

ResetReleasedCount(app) == [app EXCEPT !.releasedCount = 0]

(* Mutant: leaving the schedule keeps the signal flags. *)
SetRePrestartingKeepingSignals(app, state) == [app EXCEPT !.rePrestarting = state]

(* Leaving the schedule also forgets which signals were tried. *)
SetRePrestarting(app, state) ==
    [app EXCEPT
        !.rePrestarting = state,
        !.sigTermSent = state /\ @,
        !.sigKillSent = state /\ @]

(* Mutant: the schedule survives the loss of the process. *)
SetPrestartedKeepingSchedule(app, newPrestarted) ==
    IF newPrestarted
    THEN [app EXCEPT !.prestarted = TRUE]
    ELSE [SetReleased(ResetReleasedCount(app), FALSE) EXCEPT !.prestarted = FALSE]

(* Losing the prestarted state resets everything but the pid. *)
SetPrestarted(app, newPrestarted) ==
    IF newPrestarted
    THEN [app EXCEPT !.prestarted = TRUE]
    ELSE [SetReleased(ResetReleasedCount(SetRePrestarting(app, FALSE)), FALSE)
            EXCEPT !.prestarted = FALSE]
=============================================================================
