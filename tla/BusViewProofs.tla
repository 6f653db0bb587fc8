--------------------------- MODULE BusViewProofs ----------------------------
(***************************************************************************)
(* The daemon's view of the session bus converges, for every set of        *)
(* applications, programs and pids, and any number of notifications under  *)
(* way, provided that no service changes between being asked for and being *)
(* watched (QuietStartup).                                                 *)
(*                                                                         *)
(* The notifications of one service under way alternate between            *)
(* "registered" and "unregistered"; the first one contradicts what the     *)
(* daemon knows and the last one agrees with the bus.                      *)
(***************************************************************************)
EXTENDS ApplifedProofs

(* The record of a, or what it will be when the prestarts start.           *)
View(a) == IF state = "Init" THEN AddPrestartApp(a, answers, seen) ELSE apps[a]

Present(a) == OwnerPid(a) # NoPid

InStep(a) ==
    /\ View(a).prestarted <=> Present(a)
    /\ View(a).prestarted => View(a).pid = OwnerPid(a)

NoNotices(a) == \A i \in 1..Len(bus) : bus[i].app # a

WatchedOnly == \A i \in 1..Len(bus) : bus[i].app \in watched

NoneBefore(i) == \A k \in 1..Len(bus) : k < i => bus[k].app # bus[i].app
NoneAfter(i) == \A k \in 1..Len(bus) : i < k => bus[k].app # bus[i].app
NoneBetween(i, j) == \A k \in 1..Len(bus) : i < k /\ k < j => bus[k].app # bus[i].app
SaysPresent(i) == bus[i].event = "registered"

FirstContradicts ==
    \A i \in 1..Len(bus) :
        NoneBefore(i) => (SaysPresent(i) <=> ~View(bus[i].app).prestarted)

LastAgrees ==
    \A i \in 1..Len(bus) : NoneAfter(i) => (SaysPresent(i) <=> Present(bus[i].app))

Alternating ==
    \A i, j \in 1..Len(bus) :
        i < j /\ bus[i].app = bus[j].app /\ NoneBetween(i, j)
            => (SaysPresent(i) <=> ~SaysPresent(j))

QuietInStep == \A a \in DOMAIN answers : NoNotices(a) => InStep(a)

BusInv == WatchedOnly /\ FirstContradicts /\ LastAgrees /\ Alternating /\ QuietInStep

-----------------------------------------------------------------------------
(***************************************************************************)
(* Owners of services.                                                     *)
(***************************************************************************)
Owns(p, a) == p \in onBus /\ program[p] = a

(* The bus names the one process that owns the service.                    *)
LEMMA OwnerPidIs ==
  ASSUME ProcessesOK, NEW a, NEW p, Owns(p, a)
  PROVE  OwnerPid(a) = p /\ p # NoPid /\ Present(a)
  BY NoPidAssumption DEF ProcessesOK, OwnerPid, Owns, Present

LEMMA OwnerPidIsNext ==
  ASSUME ProcessesOK', NEW a, NEW p, Owns(p, a)'
  PROVE  OwnerPid(a)' = p /\ p # NoPid /\ Present(a)'
  BY NoPidAssumption DEF ProcessesOK, OwnerPid, Owns, Present

LEMMA NoOwnerPid ==
  ASSUME NEW a, \A p : ~Owns(p, a)
  PROVE  OwnerPid(a) = NoPid /\ ~Present(a)
  BY DEF OwnerPid, Owns, Present

LEMMA NoOwnerPidNext ==
  ASSUME NEW a, \A p : ~Owns(p, a)'
  PROVE  OwnerPid(a)' = NoPid /\ ~Present(a)'
  BY DEF OwnerPid, Owns, Present

(* The owner changes only with the processes that own the service.         *)
LEMMA OwnerKept ==
  ASSUME ProcessesOK, ProcessesOK', NEW a, \A p : Owns(p, a)' <=> Owns(p, a)
  PROVE  OwnerPid(a)' = OwnerPid(a) /\ (Present(a)' <=> Present(a))
  <1>1. CASE \E p : Owns(p, a)
    <2>1. PICK p : Owns(p, a)
      BY <1>1
    <2>2. OwnerPid(a) = p
      BY <2>1, OwnerPidIs
    <2>3. OwnerPid(a)' = p
      BY <2>1, OwnerPidIsNext
    <2>4. QED
      BY <2>2, <2>3 DEF Present
  <1>2. CASE \A p : ~Owns(p, a)
    BY <1>2, NoOwnerPid, NoOwnerPidNext
  <1>3. QED
    BY <1>1, <1>2

-----------------------------------------------------------------------------
(***************************************************************************)
(* Steps that no notification comes with.                                  *)
(***************************************************************************)
Kept(r, s) ==
    /\ s.prestarted <=> r.prestarted
    /\ r.prestarted => s.pid = r.pid

(* If the queue, the view and the owners stay, so does the invariant.      *)
LEMMA NothingNoticed ==
  ASSUME BusInv, bus' = bus, answers' = answers, watched \subseteq watched',
         watched \subseteq DOMAIN answers,
         \A a \in DOMAIN answers : /\ OwnerPid(a)' = OwnerPid(a)
                                   /\ Kept(View(a), View(a)')
  PROVE  BusInv'
  <1>1. \A a \in DOMAIN answers : Present(a)' <=> Present(a)
    BY DEF Present
  <1>2. \A i \in 1..Len(bus) : bus[i].app \in DOMAIN answers
    BY DEF BusInv, WatchedOnly
  <1>3. WatchedOnly'
    BY DEF BusInv, WatchedOnly
  <1>4. FirstContradicts'
    BY <1>2 DEF BusInv, FirstContradicts, NoneBefore, SaysPresent, Kept
  <1>5. LastAgrees'
    BY <1>1, <1>2 DEF BusInv, LastAgrees, NoneAfter, SaysPresent
  <1>6. Alternating'
    BY DEF BusInv, Alternating, NoneBetween, SaysPresent
  <1>7. QuietInStep'
    BY <1>1 DEF BusInv, QuietInStep, NoNotices, InStep, Kept
  <1>8. QED
    BY <1>3, <1>4, <1>5, <1>6, <1>7 DEF BusInv

(* Neither the bus nor the daemon moves.                                   *)
LEMMA NobodyMoves ==
  ASSUME BusInv, SystemInv, SystemInv', UNCHANGED <<vars, onBus, bus, answers, seen>>,
         watched \subseteq watched', \A p \in onBus : program'[p] = program[p]
  PROVE  BusInv'
  <1>1. ASSUME NEW a \in DOMAIN answers
        PROVE  OwnerPid(a)' = OwnerPid(a)
    <2>1. \A p : Owns(p, a)' <=> Owns(p, a)
      BY DEF Owns
    <2>2. QED
      BY <2>1, OwnerKept DEF SystemInv, SystemTypeOK
  <1>2. ASSUME NEW a \in DOMAIN answers
        PROVE  Kept(View(a), View(a)')
    <2>1. View(a)' = View(a)
      BY DEF View, vars
    <2>2. QED
      BY <2>1 DEF Kept
  <1>3. QED
    BY <1>1, <1>2, NothingNoticed DEF SystemInv, SystemTypeOK, StartupOK

(* A slot keeps what the daemon knows about the bus.                       *)
LEMMA SlotKeepsView ==
  ASSUME BusInv, SystemInv, SystemInv', Listening, state' # "Init",
         \A a \in Apps : Kept(apps[a], apps'[a]),
         UNCHANGED <<program, onBus, bus, answers, watched>>
  PROVE  BusInv'
  <1>1. ASSUME NEW a \in DOMAIN answers
        PROVE  OwnerPid(a)' = OwnerPid(a)
    <2>1. \A p : Owns(p, a)' <=> Owns(p, a)
      BY DEF Owns
    <2>2. QED
      BY <2>1, OwnerKept DEF SystemInv, SystemTypeOK
  <1>2. state # "Init"
    BY ProgramsAssumption DEF Listening
  <1>3. \A a \in DOMAIN answers : Kept(View(a), View(a)')
    BY <1>2 DEF View, SystemInv, SystemTypeOK, StartupOK
  <1>4. QED
    BY <1>1, <1>3, NothingNoticed DEF SystemInv, SystemTypeOK, StartupOK

-----------------------------------------------------------------------------
(***************************************************************************)
(* What the slots do to a record.                                          *)
(***************************************************************************)
LEMMA SetReleasedKeeps ==
  ASSUME NEW app \in AppRecord, NEW b \in BOOLEAN
  PROVE  Kept(app, SetReleased(app, b))
  BY SetReleasedFields DEF Kept

LEMMA KillAppKeeps ==
  ASSUME NEW app \in AppRecord, NEW gone
  PROVE  Kept(app, KillApp(app, gone))
  BY DEF Kept, KillApp, SetRePrestarting, AppRecord

LEMMA SetRePrestartingKeeps ==
  ASSUME NEW app \in AppRecord, NEW b \in BOOLEAN
  PROVE  Kept(app, SetRePrestarting(app, b))
  BY DEF Kept, SetRePrestarting, AppRecord

LEMMA RestoredKeeps ==
  ASSUME NEW app \in AppRecord, NEW a
  PROVE  Kept(app, Restored(a, app))
  <1>1. SetReleased(app, FALSE) \in AppRecord /\ Kept(app, SetReleased(app, FALSE))
    BY SetterTypes, SetReleasedKeeps
  <1>2. Kept(SetReleased(app, FALSE), SetRePrestarting(SetReleased(app, FALSE), TRUE))
    BY <1>1, SetRePrestartingKeeps
  <1>3. QED
    BY <1>1, <1>2 DEF Restored, Kept

LEMMA TerminatedKeeps ==
  ASSUME NEW app \in AppRecord, NEW gone
  PROVE  Kept(app, KillApp(SetRePrestarting(app, FALSE), gone))
  <1>1. SetRePrestarting(app, FALSE) \in AppRecord /\ Kept(app, SetRePrestarting(app, FALSE))
    BY SetterTypes, SetRePrestartingKeeps
  <1>2. QED
    BY <1>1, KillAppKeeps DEF Kept

LEMMA RunStateKeeps ==
  ASSUME NEW ap, NEW q, NEW ld, NEW vect, Handed(ap, q, vect), RunState(ap, q, ld),
         NEW a \in Apps
  PROVE  Kept(ap[a], apps'[a])
  <1>1. ap[a] \in AppRecord
    BY DEF Handed
  <1>2. QED
    BY <1>1, RunStateRecords, RequestedFields DEF Kept

LEMMA RecordsTyped ==
  ASSUME IInv
  PROVE  apps \in [Apps -> AppRecord]
  BY DEF IInv, TypeOK

(* The slots that have nothing to do with the bus.                         *)
LEMMA OtherSlotsKeep ==
  ASSUME IInv, NEW a \in Apps,
         \/ \E l \in Loads : UpdateCPULoad(l)
         \/ \E pid : ReleasedPrestart(pid) \/ RestoredPrestart(pid)
         \/ \E newState \in BOOLEAN : HandleScreenBlanked(newState)
         \/ \E gone : TriggerForcedRePrestarts(gone) \/ KillPrestartedApplications(gone)
         \/ \E b \in Apps : AnswerPing(b)
  PROVE  Kept(apps[a], apps'[a])
  <1>1. apps[a] \in AppRecord
    BY RecordsTyped
  <1>2. ASSUME apps'[a] = apps[a]
        PROVE  Kept(apps[a], apps'[a])
    BY <1>2 DEF Kept
  <1>3. ASSUME NEW l \in Loads, UpdateCPULoad(l)
        PROVE  Kept(apps[a], apps'[a])
    <2>1. Handed(apps, queue, vectApps)
      BY <1>3, RunningIInv DEF UpdateCPULoad, Listening
    <2>2. QED
      BY <1>3, <2>1, RunStateKeeps DEF UpdateCPULoad
  <1>4. ASSUME NEW pid, ReleasedPrestart(pid)
        PROVE  Kept(apps[a], apps'[a])
    <2>1. apps'[a] = apps[a] \/ apps'[a] = SetReleased(apps[a], TRUE)
      BY <1>4 DEF ReleasedPrestart
    <2>2. QED
      BY <1>1, <1>2, <2>1, SetReleasedKeeps
  <1>5. ASSUME NEW pid, RestoredPrestart(pid)
        PROVE  Kept(apps[a], apps'[a])
    <2>1. apps'[a] = apps[a] \/ apps'[a] = Restored(a, apps[a])
      BY <1>5 DEF RestoredPrestart
    <2>2. QED
      BY <1>1, <1>2, <2>1, RestoredKeeps
  <1>6. ASSUME NEW newState \in BOOLEAN, HandleScreenBlanked(newState)
        PROVE  Kept(apps[a], apps'[a])
    BY <1>2, <1>6 DEF HandleScreenBlanked
  <1>7. ASSUME NEW gone, TriggerForcedRePrestarts(gone)
        PROVE  Kept(apps[a], apps'[a])
    <2>1. apps'[a] = apps[a] \/ apps'[a] = KillApp(apps[a], gone)
      BY <1>7 DEF TriggerForcedRePrestarts
    <2>2. QED
      BY <1>1, <1>2, <2>1, KillAppKeeps
  <1>8. ASSUME NEW gone, KillPrestartedApplications(gone)
        PROVE  Kept(apps[a], apps'[a])
    <2>1. apps'[a] = apps[a] \/ apps'[a] = KillApp(SetRePrestarting(apps[a], FALSE), gone)
      BY <1>8 DEF KillPrestartedApplications
    <2>2. QED
      BY <1>1, <1>2, <2>1, TerminatedKeeps
  <1>9. ASSUME NEW b \in Apps, AnswerPing(b)
        PROVE  Kept(apps[a], apps'[a])
    BY <1>2, <1>9 DEF AnswerPing
  <1>10. QED
    BY <1>3, <1>4, <1>5, <1>6, <1>7, <1>8, <1>9

-----------------------------------------------------------------------------
(***************************************************************************)
(* The start-up.                                                           *)
(***************************************************************************)

(* What addPrestartApp writes into the record.                             *)
LEMMA AddPrestartAppFields ==
  ASSUME NEW a, NEW ans, NEW s, ans[a] \in Pids \cup {NoOwner}
  PROVE  LET app == AddPrestartApp(a, ans, s)
         IN  /\ app.prestarted <=> ans[a] # NoOwner
             /\ app.prestarted => app.pid = ans[a]
  <1>1. CASE ans[a] = NoOwner
    BY <1>1 DEF AddPrestartApp, NewApp
  <1>2. CASE ans[a] # NoOwner
    <2> DEFINE known == SetPrestarted(SetPid(NewApp, ans[a]), TRUE)
               app1 == SetReleased(known, FALSE)
    <2>1. known \in AppRecord /\ known.prestarted = TRUE /\ known.pid = ans[a]
      BY <1>2 DEF SetPrestarted, SetPid, NewApp, AppRecord
    <2> HIDE DEF known
    <2>2. app1 \in AppRecord /\ Kept(known, app1)
      BY <2>1, SetterTypes, SetReleasedKeeps
    <2> HIDE DEF app1
    <2>3. Kept(app1, SetReleased(app1, TRUE))
      BY <2>2, SetReleasedKeeps
    <2>4. AddPrestartApp(a, ans, s) = IF ans[a] \in s THEN SetReleased(app1, TRUE) ELSE app1
      BY <1>2 DEF AddPrestartApp, known, app1
    <2>5. QED
      BY <1>2, <2>1, <2>2, <2>3, <2>4 DEF Kept
  <1>3. QED
    BY <1>1, <1>2

LEMMA AskBusView ==
  ASSUME BusInv, SystemInv, SystemInv', NEW a \in Apps, AskBus(a)
  PROVE  BusInv'
  <1>1. /\ state = "Init" /\ state' = "Init" /\ a \notin DOMAIN answers
        /\ UNCHANGED <<program, onBus, bus, watched>>
    BY DEF AskBus, vars, processVars
  <1>2. /\ answers' = [b \in DOMAIN answers \cup {a} |->
              IF b = a THEN IF OwnerPid(a) = NoPid THEN NoOwner ELSE OwnerPid(a)
              ELSE answers[b]]
        /\ \A b \in DOMAIN answers : answers[b] \in Pids \cup {NoOwner}
    BY DEF AskBus, SystemInv, SystemTypeOK, StartupOK
  <1>3. \A b : OwnerPid(b)' = OwnerPid(b) /\ (Present(b)' <=> Present(b))
    BY <1>1 DEF OwnerPid, Present
  <1>4. ASSUME NEW b \in DOMAIN answers
        PROVE  Kept(View(b), View(b)')
    <2>1. answers'[b] = answers[b] /\ answers[b] \in Pids \cup {NoOwner}
      BY <1>1, <1>2
    <2>2. /\ View(b) = AddPrestartApp(b, answers, seen)
          /\ View(b)' = AddPrestartApp(b, answers', seen')
      BY <1>1 DEF View
    <2>3. QED
      BY <2>1, <2>2, AddPrestartAppFields DEF Kept
  <1>5. InStep(a)'
    <2>1. answers'[a] = IF OwnerPid(a) = NoPid THEN NoOwner ELSE OwnerPid(a)
      BY <1>2
    <2>2. View(a)' = AddPrestartApp(a, answers', seen')
      BY <1>1 DEF View
    <2>3. OwnerPid(a) \in Pids \cup {NoPid}
      BY OwnerPidType DEF SystemInv, SystemTypeOK
    <2>4. /\ answers'[a] \in Pids \cup {NoOwner}
          /\ answers'[a] # NoOwner <=> OwnerPid(a) # NoPid
          /\ answers'[a] # NoOwner => answers'[a] = OwnerPid(a)
      BY <2>1, <2>3, NoOwnerAssumption
    <2>5. /\ View(a)'.prestarted <=> answers'[a] # NoOwner
          /\ View(a)'.prestarted => View(a)'.pid = answers'[a]
      BY <2>2, <2>4, AddPrestartAppFields
    <2>6. QED
      BY <1>3, <2>4, <2>5 DEF InStep, Present
  <1>6. \A i \in 1..Len(bus) : bus[i].app \in DOMAIN answers
    BY DEF BusInv, WatchedOnly, SystemInv, SystemTypeOK, StartupOK
  <1>7. WatchedOnly' /\ Alternating'
    BY <1>1 DEF BusInv, WatchedOnly, Alternating, NoneBetween, SaysPresent
  <1>8. FirstContradicts'
    BY <1>1, <1>4, <1>6 DEF BusInv, FirstContradicts, NoneBefore, SaysPresent, Kept
  <1>9. LastAgrees'
    BY <1>1, <1>3 DEF BusInv, LastAgrees, NoneAfter, SaysPresent
  <1>10. QuietInStep'
    BY <1>1, <1>2, <1>3, <1>4, <1>5 DEF BusInv, QuietInStep, NoNotices, InStep, Kept
  <1>11. QED
    BY <1>7, <1>8, <1>9, <1>10 DEF BusInv

LEMMA StartPrestartsView ==
  ASSUME BusInv, SystemInv, SystemInv', StartPrestarts
  PROVE  BusInv'
  <1>1. /\ state = "Init" /\ vectApps = {}
        /\ UNCHANGED <<program, onBus, bus, answers, seen, watched>>
        /\ RunPrestarts(Apps, answers, seen)
    BY ProgramsAssumption DEF StartPrestarts, RunPrestarts, SystemInv, NothingKnownYet,
       environmentVars, processVars, startVars, daemonVars
  <1>2. state' # "Init" /\ apps' = ReadConfiguration(Apps, answers, seen)
    BY <1>1 DEF RunPrestarts, StateInit, StateWaitForPrestart
  <1>3. ASSUME NEW a \in DOMAIN answers
        PROVE  Kept(View(a), View(a)')
    <2>1. a \in Apps
      BY DEF SystemInv, SystemTypeOK, StartupOK
    <2>2. apps'[a] = AddPrestartApp(a, answers, seen)
      BY <1>1, <1>2, <2>1 DEF ReadConfiguration
    <2>3. View(a)' = View(a)
      BY <1>1, <1>2, <2>2 DEF View
    <2>4. QED
      BY <2>3 DEF Kept
  <1>4. \A a : OwnerPid(a)' = OwnerPid(a)
    BY <1>1 DEF OwnerPid
  <1>5. QED
    BY <1>1, <1>3, <1>4, NothingNoticed DEF SystemInv, SystemTypeOK, StartupOK

-----------------------------------------------------------------------------
(***************************************************************************)
(* A service joins or leaves the bus.                                      *)
(***************************************************************************)

(* The bus changes its mind about a alone, and says so in a notification   *)
(* if the daemon watches a; it does not happen in the start-up gap of a.   *)
LEMMA BusChangesItsMind ==
  ASSUME BusInv, SystemInv, NEW a \in Apps, NEW event, NEW wasShown \in BOOLEAN,
         event = IF Present(a) THEN "unregistered" ELSE "registered",
         Notify(a, event, wasShown), ~InStartupGap(a),
         Present(a)' <=> ~Present(a),
         \A b \in Apps \ {a} : OwnerPid(b)' = OwnerPid(b),
         UNCHANGED <<vars, answers, seen, watched>>
  PROVE  BusInv'
  <1>1. \A b : View(b)' = View(b)
    BY DEF View, vars
  <1>2. \A b \in Apps \ {a} : Present(b)' <=> Present(b)
    BY DEF Present
  <1>3. \A i \in 1..Len(bus) : bus[i].app \in watched /\ bus[i].app \in Apps
    BY DEF BusInv, WatchedOnly, SystemInv, SystemTypeOK, StartupOK
  <1>4. DOMAIN answers \subseteq Apps
    BY DEF SystemInv, SystemTypeOK, StartupOK
  <1>5. CASE a \notin watched
    <2>1. bus' = bus /\ a \notin DOMAIN answers
      BY <1>5 DEF Notify, InStartupGap
    <2>2. WatchedOnly' /\ Alternating' /\ FirstContradicts'
      BY <1>1, <2>1 DEF BusInv, WatchedOnly, Alternating, NoneBetween, SaysPresent,
         FirstContradicts, NoneBefore
    <2>3. LastAgrees'
      BY <1>2, <1>3, <1>5, <2>1 DEF BusInv, LastAgrees, NoneAfter, SaysPresent
    <2>4. QuietInStep'
      BY <1>1, <1>2, <1>4, <2>1 DEF BusInv, QuietInStep, NoNotices, InStep
    <2>5. QED
      BY <2>2, <2>3, <2>4 DEF BusInv
  <1>6. CASE a \in watched
    <2> DEFINE m == [app |-> a, event |-> event, wasShown |-> wasShown]
    <2>n. PICK n \in Nat : n = Len(bus) + 1
      BY LenProperties DEF SystemInv, SystemTypeOK, QueuesOK
    <2>1. m \in BusMessage /\ m.app = a /\ m.event = event
      BY DEF BusMessage
    <2>2. bus' = Append(bus, m) /\ bus \in Seq(BusMessage)
      BY <1>6 DEF Notify, SystemInv, SystemTypeOK, QueuesOK
    <2> HIDE DEF m
    <2>3. /\ Len(bus) \in Nat /\ Len(bus') = n
          /\ bus'[n] = m
          /\ \A i \in 1..Len(bus) : bus'[i] = bus[i]
      BY <2>n, <2>1, <2>2, AppendProperties, LenProperties
    <2>4. /\ n \in Nat /\ n \in 1..n /\ \A i \in 1..Len(bus) : i < n /\ i \in 1..n
          /\ \A i \in 1..n : i = n \/ i \in 1..Len(bus)
      BY <2>n, <2>3
    <2>5. SaysPresent(n)' <=> ~Present(a)
      BY <2>1, <2>3 DEF SaysPresent
    <2>6. \A i \in 1..Len(bus) : SaysPresent(i)' <=> SaysPresent(i)
      BY <2>3 DEF SaysPresent
    <2>7. WatchedOnly'
      BY <1>6, <2>1, <2>3, <2>4 DEF BusInv, WatchedOnly
    <2>8. FirstContradicts'
      <3> SUFFICES ASSUME NEW i \in 1..n, NoneBefore(i)'
                   PROVE  SaysPresent(i)' <=> ~View(bus[i].app)'.prestarted
        BY <2>3 DEF FirstContradicts
      <3>1. CASE i = n
        <4>1. NoNotices(a)
          BY <2>1, <2>3, <2>4, <3>1 DEF NoneBefore, NoNotices
        <4>2. InStep(a)
          BY <1>6, <4>1 DEF BusInv, QuietInStep, SystemInv, SystemTypeOK, StartupOK
        <4>3. QED
          BY <1>1, <2>1, <2>3, <2>5, <3>1, <4>2 DEF InStep, View
      <3>2. CASE i \in 1..Len(bus)
        <4>1. NoneBefore(i)
          BY <2>3, <2>4, <3>2 DEF NoneBefore
        <4>2. SaysPresent(i) <=> ~View(bus[i].app).prestarted
          BY <3>2, <4>1 DEF BusInv, FirstContradicts
        <4>3. QED
          BY <1>1, <2>3, <2>6, <3>2, <4>2 DEF View
      <3>3. QED
        BY <2>4, <3>1, <3>2
    <2>9. LastAgrees'
      <3> SUFFICES ASSUME NEW i \in 1..n, NoneAfter(i)'
                   PROVE  SaysPresent(i)' <=> Present(bus[i].app)'
        BY <2>3 DEF LastAgrees
      <3>1. CASE i = n
        BY <2>1, <2>3, <2>5, <3>1
      <3>2. CASE i \in 1..Len(bus)
        <4>1. bus[i].app # a /\ NoneAfter(i)
          BY <2>1, <2>3, <2>4, <3>2 DEF NoneAfter
        <4>2. SaysPresent(i) <=> Present(bus[i].app)
          BY <3>2, <4>1 DEF BusInv, LastAgrees
        <4>3. PICK b \in Apps \ {a} : b = bus[i].app
          BY <1>3, <3>2, <4>1
        <4>4. Present(b)' <=> Present(b)
          BY <1>2
        <4>5. bus'[i].app = b
          BY <2>3, <3>2, <4>3
        <4>6. QED
          BY <2>6, <3>2, <4>2, <4>3, <4>4, <4>5 DEF Present, OwnerPid
      <3>3. QED
        BY <2>4, <3>1, <3>2
    <2>10. Alternating'
      <3> SUFFICES ASSUME NEW i \in 1..n, NEW j \in 1..n, i < j,
                          bus'[i].app = bus'[j].app, NoneBetween(i, j)'
                   PROVE  SaysPresent(i)' <=> ~SaysPresent(j)'
        BY <2>3 DEF Alternating
      <3>1. i \in 1..Len(bus)
        BY <2>n, <2>3
      <3>2. CASE j = n
        <4>1. bus[i].app = a
          BY <2>1, <2>3, <3>1, <3>2
        <4>2. NoneAfter(i)
          BY <2>3, <2>4, <3>1, <3>2 DEF NoneBetween, NoneAfter
        <4>3. SaysPresent(i) <=> Present(a)
          BY <3>1, <4>1, <4>2 DEF BusInv, LastAgrees
        <4>4. QED
          BY <2>5, <2>6, <3>1, <3>2, <4>3
      <3>3. CASE j \in 1..Len(bus)
        <4>1. NoneBetween(i, j) /\ bus[i].app = bus[j].app
          BY <2>3, <2>4, <3>1, <3>3 DEF NoneBetween
        <4>2. QED
          BY <2>6, <3>1, <3>3, <4>1 DEF BusInv, Alternating
      <3>4. QED
        BY <2>4, <3>2, <3>3
    <2>11. QuietInStep'
      <3> SUFFICES ASSUME NEW b \in DOMAIN answers, NoNotices(b)'
                   PROVE  InStep(b)'
        BY DEF QuietInStep
      <3>1. b # a /\ NoNotices(b)
        BY <2>1, <2>3, <2>4 DEF NoNotices
      <3>2. InStep(b)
        BY <3>1 DEF BusInv, QuietInStep
      <3>3. QED
        BY <1>1, <1>2, <1>4, <3>1, <3>2 DEF InStep
    <2>12. QED
      BY <2>7, <2>8, <2>9, <2>10, <2>11 DEF BusInv
  <1>7. QED
    BY <1>5, <1>6

LEMMA JoinBusView ==
  ASSUME QuietStartup, BusInv, SystemInv, SystemInv', NEW p \in Pids, JoinBus(p)
  PROVE  BusInv'
  <1>a. PICK a \in Apps : a = program[p]
    BY DEF JoinBus
  <1>1. ~InStartupGap(a) /\ ~Present(a) /\ Notify(a, "registered", FALSE)
    BY <1>a DEF JoinBus, MayChangeBus, Present
  <1>2. onBus' = onBus \cup {p} /\ UNCHANGED <<vars, program, answers, seen, watched>>
    BY DEF JoinBus, startVars, daemonVars
  <1>3. ProcessesOK /\ ProcessesOK'
    BY DEF SystemInv, SystemTypeOK
  <1>4. Present(a)'
    <2>1. Owns(p, a)'
      BY <1>a, <1>2 DEF Owns
    <2>2. QED
      BY <1>3, <2>1, OwnerPidIsNext
  <1>5. ASSUME NEW b \in Apps \ {a}
        PROVE  OwnerPid(b)' = OwnerPid(b)
    <2>1. \A q : Owns(q, b)' <=> Owns(q, b)
      BY <1>a, <1>2 DEF Owns
    <2>2. QED
      BY <1>3, <2>1, OwnerKept
  <1>6. QED
    BY <1>1, <1>2, <1>4, <1>5, BusChangesItsMind

LEMMA BusNoticesDeathView ==
  ASSUME QuietStartup, BusInv, SystemInv, SystemInv', NEW p \in Pids, BusNoticesDeath(p)
  PROVE  BusInv'
  <1>a. PICK a \in Apps : a = program[p]
    BY DEF BusNoticesDeath, SystemInv, SystemTypeOK, ProcessesOK
  <1>w. PICK w \in BOOLEAN : Notify(a, "unregistered", w)
    <2>1. Notify(a, "unregistered", p \in shown)
      BY <1>a DEF BusNoticesDeath
    <2>2. (p \in shown) \in BOOLEAN
      OBVIOUS
    <2>3. QED
      BY <2>1, <2>2, Zenon
  <1>1. p \in onBus /\ ~InStartupGap(a) /\ Notify(a, "unregistered", w)
    BY <1>a, <1>w DEF BusNoticesDeath, MayChangeBus
  <1>2. onBus' = onBus \ {p} /\ UNCHANGED <<vars, program, answers, seen, watched>>
    BY DEF BusNoticesDeath, startVars, daemonVars
  <1>3. ProcessesOK /\ ProcessesOK'
    BY DEF SystemInv, SystemTypeOK
  <1>4. Present(a)
    <2>1. Owns(p, a)
      BY <1>a, <1>1 DEF Owns
    <2>2. QED
      BY <1>1, <1>3, <2>1, OwnerPidIs DEF ProcessesOK
  <1>5. ~Present(a)'
    <2>1. \A q : ~Owns(q, a)'
      BY <1>a, <1>1, <1>2, <1>3 DEF Owns, ProcessesOK
    <2>2. QED
      BY <2>1, NoOwnerPidNext
  <1>6. ASSUME NEW b \in Apps \ {a}
        PROVE  OwnerPid(b)' = OwnerPid(b)
    <2>1. \A q : Owns(q, b)' <=> Owns(q, b)
      BY <1>a, <1>2 DEF Owns
    <2>2. QED
      BY <1>3, <2>1, OwnerKept
  <1>7. QED
    BY <1>1, <1>2, <1>4, <1>5, <1>6, BusChangesItsMind

-----------------------------------------------------------------------------
(***************************************************************************)
(* The daemon handles the first notification.                              *)
(***************************************************************************)

(* After that it knows of the service what the notification said, and of   *)
(* the other services what it knew.                                        *)
LEMMA NoticeHandled ==
  ASSUME BusInv, SystemInv, SystemInv', NEW a \in Apps, bus # <<>>, bus' = Tail(bus),
         a = Head(bus).app, state # "Init", state' # "Init",
         UNCHANGED <<program, onBus, answers, watched>>,
         apps'[a].prestarted <=> Head(bus).event = "registered",
         apps'[a].prestarted => apps'[a].pid = OwnerPid(a),
         \A b \in Apps \ {a} : Kept(apps[b], apps'[b])
  PROVE  BusInv'
  <1>1. bus \in Seq(BusMessage) /\ DOMAIN answers \subseteq Apps /\ watched \subseteq DOMAIN answers
    BY DEF SystemInv, SystemTypeOK, QueuesOK, StartupOK
  <1>2. PICK n \in Nat : n = Len(bus')
    BY LenProperties DEF SystemInv, SystemTypeOK, QueuesOK
  <1>3. /\ Len(bus) = n + 1 /\ 1 \in 1..(n + 1)
        /\ bus[1].app = a /\ SaysPresent(1) <=> apps'[a].prestarted
    BY <1>1, <1>2, HeadTailProperties, EmptySeq, HeadAndTail DEF SaysPresent
  <1>4. \A i \in 1..n : i + 1 \in 1..(n + 1) /\ bus'[i] = bus[i + 1]
    BY <1>1, <1>2, <1>3, HeadTailProperties
  <1>5. \A i \in 1..(n + 1) : i = 1 \/ (i - 1 \in 1..n /\ (i - 1) + 1 = i)
    OBVIOUS
  <1>6. \A i \in 1..n : SaysPresent(i)' <=> SaysPresent(i + 1)
    BY <1>4 DEF SaysPresent
  <1>7. \A b : View(b) = apps[b] /\ View(b)' = apps'[b]
    BY DEF View
  <1>8. \A b : OwnerPid(b)' = OwnerPid(b) /\ (Present(b)' <=> Present(b))
    BY DEF OwnerPid, Present
  <1>9. \A i \in 1..(n + 1) : bus[i].app \in watched /\ bus[i].app \in Apps
    BY <1>1, <1>3 DEF BusInv, WatchedOnly
  <1>10. WatchedOnly'
    BY <1>2, <1>4, <1>9 DEF WatchedOnly
  <1>11. FirstContradicts'
    <2> SUFFICES ASSUME NEW i \in 1..n, NoneBefore(i)'
                 PROVE  SaysPresent(i + 1) <=> ~apps'[bus[i + 1].app].prestarted
      BY <1>2, <1>4, <1>6, <1>7 DEF FirstContradicts, View
    <2>1. i + 1 \in 1..(n + 1) /\ 1 < i + 1
      BY <1>4
    <2>2. \A k \in 1..(n + 1) : 1 < k /\ k < i + 1 => bus[k].app # bus[i + 1].app
      <3> SUFFICES ASSUME NEW k \in 1..(n + 1), 1 < k, k < i + 1
                   PROVE  bus[k].app # bus[i + 1].app
        OBVIOUS
      <3>1. k - 1 \in 1..n /\ k - 1 < i /\ (k - 1) + 1 = k
        OBVIOUS
      <3>2. bus'[k - 1].app # bus'[i].app
        BY <1>2, <3>1 DEF NoneBefore
      <3>3. QED
        BY <1>4, <3>1, <3>2
    <2>3. CASE bus[i + 1].app = a
      <3>1. SaysPresent(1) <=> ~SaysPresent(i + 1)
        BY <1>3, <2>1, <2>2, <2>3 DEF BusInv, Alternating, NoneBetween
      <3>2. QED
        BY <1>3, <2>3, <3>1
    <2>4. CASE bus[i + 1].app # a
      <3>1. NoneBefore(i + 1)
        BY <1>3, <1>5, <2>1, <2>2, <2>4 DEF NoneBefore
      <3>2. SaysPresent(i + 1) <=> ~apps[bus[i + 1].app].prestarted
        BY <1>3, <1>7, <2>1, <3>1 DEF BusInv, FirstContradicts
      <3>3. QED
        BY <1>9, <2>1, <2>4, <3>2 DEF Kept
    <2>5. QED
      BY <2>3, <2>4
  <1>12. LastAgrees'
    <2> SUFFICES ASSUME NEW i \in 1..n, NoneAfter(i)'
                 PROVE  SaysPresent(i + 1) <=> Present(bus[i + 1].app)
      BY <1>2, <1>4, <1>6, <1>8 DEF LastAgrees, Present, OwnerPid
    <2>1. NoneAfter(i + 1)
      <3> SUFFICES ASSUME NEW k \in 1..(n + 1), i + 1 < k
                   PROVE  bus[k].app # bus[i + 1].app
        BY <1>3 DEF NoneAfter
      <3>1. k - 1 \in 1..n /\ i < k - 1 /\ (k - 1) + 1 = k
        OBVIOUS
      <3>2. bus'[k - 1].app # bus'[i].app
        BY <1>2, <3>1 DEF NoneAfter
      <3>3. QED
        BY <1>4, <3>1, <3>2
    <2>2. QED
      BY <1>3, <1>4, <2>1 DEF BusInv, LastAgrees
  <1>13. Alternating'
    <2> SUFFICES ASSUME NEW i \in 1..n, NEW j \in 1..n, i < j,
                        bus[i + 1].app = bus[j + 1].app, NoneBetween(i, j)'
                 PROVE  SaysPresent(i + 1) <=> ~SaysPresent(j + 1)
      BY <1>2, <1>4, <1>6 DEF Alternating
    <2>1. NoneBetween(i + 1, j + 1)
      <3> SUFFICES ASSUME NEW k \in 1..(n + 1), i + 1 < k, k < j + 1
                   PROVE  bus[k].app # bus[i + 1].app
        BY <1>3 DEF NoneBetween
      <3>1. k - 1 \in 1..n /\ i < k - 1 /\ k - 1 < j /\ (k - 1) + 1 = k
        OBVIOUS
      <3>2. bus'[k - 1].app # bus'[i].app
        BY <1>2, <3>1 DEF NoneBetween
      <3>3. QED
        BY <1>4, <3>1, <3>2
    <2>2. i + 1 \in 1..(n + 1) /\ j + 1 \in 1..(n + 1) /\ i + 1 < j + 1
      BY <1>4
    <2>3. QED
      BY <1>3, <2>1, <2>2 DEF BusInv, Alternating
  <1>14. QuietInStep'
    <2> SUFFICES ASSUME NEW b \in DOMAIN answers, NoNotices(b)'
                 PROVE  InStep(b)'
      BY DEF QuietInStep
    <2>1. \A k \in 1..(n + 1) : 1 < k => bus[k].app # b
      <3> SUFFICES ASSUME NEW k \in 1..(n + 1), 1 < k
                   PROVE  bus[k].app # b
        OBVIOUS
      <3>1. k - 1 \in 1..n /\ (k - 1) + 1 = k
        OBVIOUS
      <3>2. bus'[k - 1].app # b
        BY <1>2, <3>1 DEF NoNotices
      <3>3. QED
        BY <1>4, <3>1, <3>2
    <2>2. CASE b = a
      <3>1. NoneAfter(1)
        BY <1>3, <2>1, <2>2 DEF NoneAfter
      <3>2. SaysPresent(1) <=> Present(a)
        BY <1>3, <3>1 DEF BusInv, LastAgrees
      <3>3. QED
        BY <1>3, <1>7, <1>8, <2>2, <3>2 DEF InStep
    <2>3. CASE b # a
      <3>1. NoNotices(b)
        BY <1>3, <1>5, <2>1, <2>3 DEF NoNotices
      <3>2. InStep(b)
        BY <3>1 DEF BusInv, QuietInStep
      <3>3. QED
        BY <1>1, <1>7, <1>8, <2>3, <3>2 DEF InStep, Kept
    <2>4. QED
      BY <2>2, <2>3
  <1>15. QED
    BY <1>10, <1>11, <1>12, <1>13, <1>14 DEF BusInv

LEMMA HandleRegisteredView ==
  ASSUME BusInv, SystemInv, SystemInv', IInv, HandleRegistered
  PROVE  BusInv'
  <1>1. bus \in Seq(BusMessage) /\ bus # <<>> /\ bus' = Tail(bus)
    BY DEF HandleRegistered, SystemInv, SystemTypeOK, QueuesOK
  <1>2. PICK a \in Apps : a = Head(bus).app
    <2>1. Head(bus) \in BusMessage
      BY <1>1, HeadAndTail
    <2>2. QED
      BY <2>1 DEF BusMessage
  <1>3. PICK pid \in Pids \cup {NoPid} : pid = OwnerPid(a)
    BY OwnerPidType DEF SystemInv, SystemTypeOK
  <1>4. /\ Head(bus).event = "registered"
        /\ HandleRegisteredService(a, pid)
        /\ UNCHANGED <<program, onBus, answers, watched>>
    BY <1>2, <1>3 DEF HandleRegistered, processVars, startVars, daemonVars
  <1>5. state # "Init" /\ state' # "Init"
    BY <1>4, ProgramsAssumption DEF HandleRegisteredService, Listening, machineVars
  <1>6. ~apps[a].prestarted
    <2>1. 1 \in 1..Len(bus) /\ bus[1] = Head(bus) /\ Len(bus) \in Nat
      BY <1>1, HeadAndTail, LenProperties
    <2>2. NoneBefore(1)
      BY <2>1 DEF NoneBefore
    <2>3. QED
      BY <1>2, <1>4, <1>5, <2>1, <2>2 DEF BusInv, FirstContradicts, SaysPresent, View
  <1>7. /\ apps[a] \in AppRecord
        /\ apps'[a] = SetPrestarted(SetPid(apps[a], pid), TRUE)
        /\ \A b \in Apps \ {a} : apps'[b] = apps[b]
    BY <1>4, <1>6, RecordsTyped DEF HandleRegisteredService
  <1>8. apps'[a].prestarted = TRUE /\ apps'[a].pid = pid
    BY <1>7 DEF SetPrestarted, SetPid, AppRecord
  <1>9. \A b \in Apps \ {a} : Kept(apps[b], apps'[b])
    BY <1>7 DEF Kept
  <1>10. QED
    BY <1>1, <1>2, <1>3, <1>4, <1>5, <1>8, <1>9, NoticeHandled

LEMMA HandleUnregisteredView ==
  ASSUME BusInv, SystemInv, SystemInv', IInv, HandleUnregistered
  PROVE  BusInv'
  <1>1. bus \in Seq(BusMessage) /\ bus # <<>> /\ bus' = Tail(bus)
    BY DEF HandleUnregistered, SystemInv, SystemTypeOK, QueuesOK
  <1>2. PICK a \in Apps : a = Head(bus).app
    <2>1. Head(bus) \in BusMessage
      BY <1>1, HeadAndTail
    <2>2. QED
      BY <2>1 DEF BusMessage
  <1>3. /\ Head(bus).event = "unregistered"
        /\ HandleUnregisteredService(a)
        /\ UNCHANGED <<program, onBus, answers, watched>>
    BY <1>2 DEF HandleUnregistered, processVars, startVars, daemonVars
  <1>4. a \in vectApps /\ running
    BY <1>3 DEF HandleUnregisteredService, Listening
  <1>5. state # "Init" /\ state' # "Init"
    BY <1>3, RunStateLeavesInit, ProgramsAssumption
       DEF HandleUnregisteredService, Listening, machineVars
  <1>6. apps[a].prestarted
    <2>1. 1 \in 1..Len(bus) /\ bus[1] = Head(bus) /\ Len(bus) \in Nat
      BY <1>1, HeadAndTail, LenProperties
    <2>2. NoneBefore(1)
      BY <2>1 DEF NoneBefore
    <2>3. QED
      BY <1>2, <1>3, <1>5, <2>1, <2>2 DEF BusInv, FirstContradicts, SaysPresent, View
  <1>7. RunState(UnregisteredRecords(a), UnregisteredQueue(a), load)
    BY <1>3, <1>6 DEF HandleUnregisteredService, UnregisteredRecords, UnregisteredQueue,
       Unregistered
  <1>8. /\ Handed(UnregisteredRecords(a), UnregisteredQueue(a), vectApps)
        /\ UnregisteredRecords(a)[a].prestarted = FALSE
        /\ \A b \in Apps \ {a} : UnregisteredRecords(a)[b] = apps[b]
    BY <1>4, UnregisteredHanded
  <1>9. \A b \in Apps : Kept(UnregisteredRecords(a)[b], apps'[b])
    BY <1>7, <1>8, RunStateKeeps
  <1>10. /\ ~apps'[a].prestarted
         /\ \A b \in Apps \ {a} : Kept(apps[b], apps'[b])
    BY <1>8, <1>9 DEF Kept
  <1>11. QED
    BY <1>1, <1>2, <1>3, <1>5, <1>10, NoticeHandled

-----------------------------------------------------------------------------
(***************************************************************************)
(* All steps together.                                                     *)
(***************************************************************************)
LEMMA EnvironmentStepView ==
  ASSUME QuietStartup, BusInv, SystemInv, SystemInv', IInv, EnvironmentStep
  PROVE  BusInv'
  <1>1. ASSUME NEW p \in Pids, NEW prog \in Programs, StartProcess(p, prog)
        PROVE  \A q \in onBus : program'[q] = program[q]
    <2>1. p \notin onBus
      BY <1>1, ProgramsAssumption DEF StartProcess, Free, SystemInv, SystemTypeOK, ProcessesOK
    <2>2. QED
      BY <1>1, <2>1 DEF StartProcess, SystemInv, SystemTypeOK, ProcessesOK
  <1>2. ASSUME NEW p \in Pids, NEW prog \in Programs, Launch(p, prog)
        PROVE  BusInv'
    BY <1>1, <1>2, NobodyMoves DEF Launch, StartProcess, startVars, daemonVars
  <1>3. ASSUME NEW a \in Apps, AnswerPing(a),
               UNCHANGED <<onBus, bus, answers, seen, watched>>,
               \A q \in onBus : program'[q] = program[q]
        PROVE  BusInv'
    <2>1. state' = state /\ apps' = apps
      BY <1>3 DEF AnswerPing
    <2>2. \A b \in DOMAIN answers : Kept(View(b), View(b)')
      BY <1>3, <2>1 DEF View, Kept
    <2>3. \A b \in DOMAIN answers : OwnerPid(b)' = OwnerPid(b)
      <3>1. \A b, p : Owns(p, b)' <=> Owns(p, b)
        BY <1>3 DEF Owns
      <3>2. QED
        BY <3>1, OwnerKept DEF SystemInv, SystemTypeOK
    <2>4. QED
      BY <1>3, <2>2, <2>3, NothingNoticed DEF SystemInv, SystemTypeOK, StartupOK
  <1>4. ASSUME NEW p \in Pids, NEW a \in Apps, Activate(p, a)
        PROVE  BusInv'
    BY <1>1, <1>3, <1>4 DEF Activate, StartProcess, startVars, daemonVars, Programs
  <1>5. ASSUME NEW a \in Apps, PingWithoutStart(a)
        PROVE  BusInv'
    BY <1>3, <1>5 DEF PingWithoutStart, environmentVars, processVars, startVars, daemonVars
  <1>6. ASSUME NEW p \in Pids, Show(p) \/ Hide(p) \/ Die(p) \/ XNoticesDeath(p)
        PROVE  BusInv'
    BY <1>6, NobodyMoves DEF Show, Hide, Die, XNoticesDeath, startVars, daemonVars
  <1>7. ASSUME NEW newState \in BOOLEAN, ScreenChanges(newState)
        PROVE  BusInv'
    <2>1. HandleScreenBlanked(newState)
      BY <1>7 DEF ScreenChanges
    <2>2. \A a \in Apps : Kept(apps[a], apps'[a])
      BY <2>1, OtherSlotsKeep
    <2>3. Listening /\ state' # "Init"
      BY <2>1, ProgramsAssumption DEF HandleScreenBlanked, Listening, machineVars
    <2>4. QED
      BY <1>7, <2>2, <2>3, SlotKeepsView
         DEF ScreenChanges, environmentVars, processVars, startVars, daemonVars
  <1>8. ASSUME NEW gone \in SUBSET (Pids \ alive), Terminate(gone)
        PROVE  BusInv'
    <2>1. KillPrestartedApplications(gone)
      BY <1>8 DEF Terminate
    <2>2. \A a \in Apps : Kept(apps[a], apps'[a])
      BY <2>1, OtherSlotsKeep
    <2>3. Listening /\ state' # "Init"
      BY <2>1, ProgramsAssumption DEF KillPrestartedApplications, Listening, machineVars
    <2>4. QED
      BY <1>8, <2>2, <2>3, SlotKeepsView
         DEF Terminate, environmentVars, processVars, startVars, daemonVars
  <1>9. QED
    BY <1>2, <1>4, <1>5, <1>6, <1>7, <1>8, JoinBusView, BusNoticesDeathView
       DEF EnvironmentStep

LEMMA DaemonStepView ==
  ASSUME BusInv, SystemInv, SystemInv', IInv, DaemonStep
  PROVE  BusInv'
  <1>1. ASSUME NEW a \in Apps, WatchService(a)
        PROVE  BusInv'
    BY <1>1, NobodyMoves DEF WatchService, processVars
  <1>2. CASE HandleXMapEvent \/ HandleXUnmapEvent \/ UnmapEventGoesOn
    <2>0. Listening
      BY <1>2, ProgramsAssumption DEF HandleXMapEvent, HandleXUnmapEvent, UnmapEventGoesOn,
         CheckWindows, CheckFlag, CheckName, AskPidAgain, KillLazyProgram, SystemInv,
         SystemTypeOK, HandlerOK, Idle, NoEvent
    <2>1. /\ UNCHANGED <<program, onBus, bus, answers, watched>>
          /\ \/ \E pid : ReleasedPrestart(pid) \/ RestoredPrestart(pid)
             \/ UNCHANGED vars
      BY <1>2 DEF HandleXMapEvent, HandleXUnmapEvent, UnmapEventGoesOn, CheckWindows, CheckFlag,
         CheckName, AskPidAgain, KillLazyProgram, OnlyHandlerMoves, processVars,
         startVars, daemonVars
    <2>2. state # "Init"
      BY <2>0, ProgramsAssumption DEF Listening
    <2>3. state' # "Init" /\ \A a \in Apps : Kept(apps[a], apps'[a])
      <3>1. CASE UNCHANGED vars
        BY <2>2, <3>1 DEF vars, Kept
      <3>2. CASE \E pid : ReleasedPrestart(pid) \/ RestoredPrestart(pid)
        <4>1. state' = state
          BY <3>2 DEF ReleasedPrestart, RestoredPrestart, machineVars
        <4>2. QED
          BY <2>2, <3>2, <4>1, OtherSlotsKeep
      <3>3. QED
        BY <2>1, <3>1, <3>2
    <2>4. QED
      BY <2>0, <2>1, <2>3, SlotKeepsView
  <1>3. ASSUME NEW l \in Loads, Poll(l)
        PROVE  BusInv'
    <2>1. UpdateCPULoad(l)
      BY <1>3 DEF Poll
    <2>2. \A a \in Apps : Kept(apps[a], apps'[a])
      BY <2>1, OtherSlotsKeep
    <2>3. Listening /\ state' # "Init"
      BY <2>1, RunStateLeavesInit DEF UpdateCPULoad
    <2>4. QED
      BY <1>3, <2>2, <2>3, SlotKeepsView DEF Poll, environmentVars, processVars, startVars, daemonVars
  <1>4. ASSUME NEW gone \in SUBSET (Pids \ alive), ForcedRePrestartTimeout(gone)
        PROVE  BusInv'
    <2>1. TriggerForcedRePrestarts(gone)
      BY <1>4 DEF ForcedRePrestartTimeout
    <2>2. \A a \in Apps : Kept(apps[a], apps'[a])
      BY <2>1, OtherSlotsKeep
    <2>3. Listening /\ state' # "Init"
      BY <2>1, ProgramsAssumption DEF TriggerForcedRePrestarts, Listening, machineVars
    <2>4. QED
      BY <1>4, <2>2, <2>3, SlotKeepsView DEF ForcedRePrestartTimeout, startVars, daemonVars
  <1>5. QED
    BY <1>1, <1>2, <1>3, <1>4, AskBusView, StartPrestartsView, HandleRegisteredView,
       HandleUnregisteredView DEF DaemonStep

LEMMA BusInitInv == SystemInit => BusInv
  <1> SUFFICES ASSUME SystemInit
               PROVE  BusInv
    OBVIOUS
  <1>1. Len(bus) = 0 /\ DOMAIN answers = {}
    BY EmptySeq DEF SystemInit
  <1>2. QED
    BY <1>1 DEF BusInv, WatchedOnly, FirstContradicts, LastAgrees, Alternating, QuietInStep

(* What is known of every state of the composed system.                    *)
KnownInv == SystemInv /\ IInv

LEMMA KnownInvAlways == SystemSpec => []KnownInv
  <1>1. SystemSpec => Spec
    BY SystemRefinesPrestarter DEF PrestarterSpec
  <1>2. KnownInv <=> SystemInv /\ IInv
    BY DEF KnownInv
  <1>3. QED
    BY <1>1, <1>2, SystemInvAlways, IInvAlways, PTL

LEMMA BusStepInv ==
  ASSUME QuietStartup
  PROVE  BusInv /\ KnownInv /\ KnownInv' /\ [SystemNext]_systemVars => BusInv'
  <1> SUFFICES ASSUME BusInv, KnownInv, KnownInv', [SystemNext]_systemVars
               PROVE  BusInv'
    OBVIOUS
  <1>1. CASE UNCHANGED systemVars
    BY <1>1, NobodyMoves DEF KnownInv, systemVars, environmentVars, processVars, startVars, daemonVars
  <1>2. CASE SystemNext
    BY <1>2, EnvironmentStepView, DaemonStepView DEF SystemNext, KnownInv
  <1>3. QED
    BY <1>1, <1>2

LEMMA BusInvAlways ==
  ASSUME QuietStartup
  PROVE  SystemSpec => []BusInv
  <1>1. SystemInit => BusInv
    BY BusInitInv
  <1>2. BusInv /\ KnownInv /\ KnownInv' /\ [SystemNext]_systemVars => BusInv'
    BY BusStepInv
  <1>3. QED
    BY <1>1, <1>2, KnownInvAlways, PTL DEF SystemSpec

LEMMA BusViewFromInv == BusInv /\ SystemInv => BusViewConverges
  <1> SUFFICES ASSUME BusInv, SystemInv, NEW a \in Apps, Settled(a)
               PROVE  /\ apps[a].prestarted <=> OwnerPid(a) # NoPid
                      /\ apps[a].prestarted => apps[a].pid = OwnerPid(a)
    BY DEF BusViewConverges
  <1>1. state # "Init" /\ NoNotices(a)
    BY ProgramsAssumption DEF Settled, Listening, NoNotices
  <1>2. a \in DOMAIN answers
    BY <1>1 DEF SystemInv, SystemTypeOK, StartupOK
  <1>3. InStep(a)
    BY <1>1, <1>2 DEF BusInv, QuietInStep
  <1>4. QED
    BY <1>1, <1>3 DEF InStep, View, Present

(* When no notification about a service is under way, the daemon knows     *)
(* whether it is on the bus and which process owns it, however many        *)
(* services there are and however many notifications about others queue up *)
(* (addPrestartApp, handleRegisteredService, handleUnregisteredService).   *)
THEOREM BusViewAlwaysConverges ==
  ASSUME QuietStartup
  PROVE  SystemSpec => []BusViewConverges
  <1>1. BusInv /\ KnownInv => BusViewConverges
    BY BusViewFromInv DEF KnownInv
  <1>2. QED
    BY <1>1, BusInvAlways, KnownInvAlways, PTL

(* The last notification about a service that is under way.                *)
LEMMA LastNotice ==
  ASSUME Len(bus) \in Nat, NEW a, ~NoNotices(a)
  PROVE  \E i \in 1..Len(bus) : bus[i].app = a /\ NoneAfter(i)
  <1> DEFINE Notices == {i \in 1..Len(bus) : bus[i].app = a}
             FromEnd == {Len(bus) - i : i \in Notices}
  <1>1. FromEnd \in SUBSET Nat /\ FromEnd # {}
    <2>1. \A i \in 1..Len(bus) : Len(bus) - i \in Nat
      OBVIOUS
    <2>2. QED
      BY <2>1 DEF NoNotices
  <1>2. PICK n \in FromEnd : \A m \in FromEnd : n <= m
    <2> HIDE DEF FromEnd
    <2>1. QED
      BY <1>1, LeastNatural
  <1>3. PICK i \in Notices : n = Len(bus) - i
    OBVIOUS
  <1>4. ASSUME NEW k \in Notices PROVE ~(i < k)
    <2>1. Len(bus) - k \in FromEnd /\ i \in Nat /\ k \in Nat
      OBVIOUS
    <2>2. n <= Len(bus) - k
      BY <1>2, <2>1
    <2>3. QED
      BY <1>3, <2>1, <2>2
  <1>5. QED
    BY <1>4 DEF NoneAfter

(* Wherever the daemon's view of a service differs from the bus, the       *)
(* notification that will correct it is under way: an owner that is gone   *)
(* is not forgotten, and neither is a new one.  This is the safety half of *)
(* ReleasedAppComesBack; its other half is that notifications are handled. *)
DifferencesReported ==
    Listening => \A a \in Apps :
        ~(apps[a].prestarted <=> OwnerPid(a) # NoPid) =>
            \E i \in 1..Len(bus) :
                /\ bus[i].app = a
                /\ bus[i].event = IF apps[a].prestarted THEN "unregistered"
                                  ELSE "registered"

LEMMA DifferencesFromInv == BusInv /\ KnownInv => DifferencesReported
  <1> SUFFICES ASSUME BusInv, KnownInv, Listening, NEW a \in Apps,
                      ~(apps[a].prestarted <=> OwnerPid(a) # NoPid)
               PROVE  \E i \in 1..Len(bus) :
                         /\ bus[i].app = a
                         /\ bus[i].event = IF apps[a].prestarted THEN "unregistered"
                                           ELSE "registered"
    BY DEF DifferencesReported
  <1>1. /\ Len(bus) \in Nat
        /\ \A i \in 1..Len(bus) : bus[i].event \in {"registered", "unregistered"}
    <2>1. bus \in Seq(BusMessage)
      BY DEF KnownInv, SystemInv, SystemTypeOK, QueuesOK
    <2>2. Len(bus) \in Nat /\ \A i \in 1..Len(bus) : bus[i] \in BusMessage
      BY <2>1
    <2>3. QED
      BY <2>2 DEF BusMessage
  <1>2. ~NoNotices(a)
    <2>1. BusViewConverges
      BY BusViewFromInv DEF KnownInv
    <2>2. QED
      BY <2>1 DEF BusViewConverges, Settled, NoNotices
  <1>3. PICK i \in 1..Len(bus) : bus[i].app = a /\ NoneAfter(i)
    BY <1>1, <1>2, LastNotice
  <1>4. SaysPresent(i) <=> Present(a)
    BY <1>3 DEF BusInv, LastAgrees
  <1>5. apps[a].prestarted \in BOOLEAN
    BY RecordsTyped DEF KnownInv, AppRecord
  <1>6. QED
    BY <1>1, <1>3, <1>4, <1>5 DEF SaysPresent, Present

(* The daemon never differs from the bus for good: whatever it has missed  *)
(* so far is in its queue (handleRegisteredService,                        *)
(* handleUnregisteredService).                                             *)
THEOREM DifferencesAlwaysReported ==
  ASSUME QuietStartup
  PROVE  SystemSpec => []DifferencesReported
  <1>1. BusInv /\ KnownInv => DifferencesReported
    BY DifferencesFromInv
  <1>2. QED
    BY <1>1, BusInvAlways, KnownInvAlways, PTL

-----------------------------------------------------------------------------
(***************************************************************************)
(* Termination.                                                            *)
(***************************************************************************)

(* Only SIGTERM to the daemon ends it.                                     *)
LEMMA OnlyTerminateEnds ==
  ASSUME [SystemNext]_systemVars, running, ~running'
  PROVE  \E gone \in SUBSET (Pids \ alive) : Terminate(gone)
  <1>1. ~UNCHANGED vars
    BY DEF vars
  <1>2. SystemNext
    BY <1>1 DEF systemVars
  <1>3. CASE EnvironmentStep
    BY <1>1, <1>3 DEF EnvironmentStep, Launch, Activate, PingWithoutStart, AnswerPing, JoinBus,
       Show, Hide, Die, BusNoticesDeath, XNoticesDeath, ScreenChanges, HandleScreenBlanked
  <1>4. CASE DaemonStep
    <2>1. ASSUME NEW a \in Apps, AskBus(a) \/ WatchService(a)
          PROVE  FALSE
      BY <1>1, <2>1 DEF AskBus, WatchService
    <2>2. CASE StartPrestarts
      BY <2>2 DEF StartPrestarts, RunPrestarts
    <2>3. CASE HandleRegistered
      BY <2>3 DEF HandleRegistered, HandleRegisteredService
    <2>4. CASE HandleUnregistered
      BY <2>4 DEF HandleUnregistered, HandleUnregisteredService
    <2>5. CASE HandleXMapEvent \/ HandleXUnmapEvent \/ UnmapEventGoesOn
      BY <1>1, <2>5 DEF HandleXMapEvent, HandleXUnmapEvent, UnmapEventGoesOn, CheckWindows, CheckFlag,
         CheckName, AskPidAgain, KillLazyProgram, OnlyHandlerMoves, vars,
         ReleasedPrestart, RestoredPrestart
    <2>6. ASSUME NEW l \in Loads, Poll(l)
          PROVE  FALSE
      BY <2>6 DEF Poll, UpdateCPULoad
    <2>7. ASSUME NEW gone \in SUBSET (Pids \ alive), ForcedRePrestartTimeout(gone)
          PROVE  FALSE
      BY <2>7 DEF ForcedRePrestartTimeout, TriggerForcedRePrestarts
    <2>8. QED
      BY <1>4, <2>1, <2>2, <2>3, <2>4, <2>5, <2>6, <2>7 DEF DaemonStep
  <1>5. QED
    BY <1>2, <1>3, <1>4 DEF SystemNext

(* What termination does to the record of a process that is there.         *)
LEMMA TerminationSignals ==
  ASSUME NEW app \in AppRecord, NEW gone, app.pid \notin gone
  PROVE  LET new == KillApp(SetRePrestarting(app, FALSE), gone)
         IN  new.pid = app.pid /\ new.sigTermSent /\ ~new.sigKillSent
  BY DEF KillApp, SetRePrestarting, AppRecord

LEMMA TerminationStep ==
  ASSUME BusInv, KnownInv, [SystemNext]_systemVars, ~running',
         NEW p \in alive \cap onBus, Settled(program[p])
  PROVE  /\ apps'[program[p]].pid = p
         /\ apps'[program[p]].sigTermSent
         /\ ~apps'[program[p]].sigKillSent
  <1>1. PICK gone \in SUBSET (Pids \ alive) : Terminate(gone)
    BY OnlyTerminateEnds DEF Settled, Listening
  <1>2. PICK a \in Apps : a = program[p]
    BY DEF KnownInv, SystemInv, SystemTypeOK, ProcessesOK
  <1>3. OwnerPid(a) = p /\ p # NoPid
    BY <1>2, OwnerPidIs DEF Owns, KnownInv, SystemInv, SystemTypeOK
  <1>4. apps[a].prestarted /\ apps[a].pid = p
    <2>1. BusViewConverges
      BY BusViewFromInv DEF KnownInv
    <2>2. QED
      BY <1>2, <1>3, <2>1 DEF BusViewConverges
  <1>5. apps[a] \in AppRecord
    BY RecordsTyped DEF KnownInv
  <1>6. a \in vectApps
    BY <1>4 DEF KnownInv, IInv, TypeOK, NewApp
  <1>7. apps'[a] = KillApp(SetRePrestarting(apps[a], FALSE), gone)
    BY <1>1, <1>6 DEF Terminate, KillPrestartedApplications
  <1>8. apps[a].pid \notin gone
    BY <1>4
  <1>9. LET new == KillApp(SetRePrestarting(apps[a], FALSE), gone)
        IN  new.pid = apps[a].pid /\ new.sigTermSent /\ ~new.sigKillSent
    BY <1>5, <1>8, TerminationSignals
  <1>10. apps'[a].pid = p /\ apps'[a].sigTermSent /\ ~apps'[a].sigKillSent
    BY <1>4, <1>7, <1>9
  <1>11. QED
    BY <1>2, <1>10

(* The daemon ends by sending SIGTERM, and nothing harder, to every        *)
(* process that owns a managed service about which no notification is      *)
(* under way (killPrestartedApplications).                                 *)
THEOREM TerminationAlwaysReachesAll ==
  ASSUME QuietStartup
  PROVE  SystemSpec => TerminationReachesAll
  <1>1. BusInv /\ KnownInv /\ [SystemNext]_systemVars =>
          [~running' => \A p \in alive \cap onBus : Settled(program[p]) =>
              /\ apps'[program[p]].pid = p
              /\ apps'[program[p]].sigTermSent
              /\ ~apps'[program[p]].sigKillSent]_systemVars
    BY TerminationStep
  <1>2. QED
    BY <1>1, BusInvAlways, KnownInvAlways, PTL DEF SystemSpec, TerminationReachesAll
=============================================================================
