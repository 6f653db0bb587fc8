---------------------------- MODULE StartupProofs ----------------------------
(***************************************************************************)
(* At most one process becomes the daemon, for any number of instances     *)
(* launched with any arguments, if they are launched with their standard   *)
(* descriptors open; and no SIGTERM that reached the daemon's socket pair  *)
(* is lost, however they are launched.                                     *)
(***************************************************************************)
EXTENDS Startup, TLAPS

(* The processes that have passed checkForLock for the last time or will   *)
(* run on in the same process.                                             *)
PastCheck == {"detach", "construct", "readConfiguration", "exec"}

(* Outside the test mode every process past its check holds the lock,      *)
(* unless it gave it up with a standard descriptor; the lock has one       *)
(* owner, so there is one such process.                                    *)
HoldersOnly ==
    ~ClosedStdio => \A p \in Processes :
        place[p] \in PastCheck /\ ~TestMode(p) => lockOwner = p

(* The arguments are read before any process of the instance runs. *)
UnbornLater ==
    \A p \in Processes : place[p] # "unborn" => place[<<p[1], "first">>] # "unborn"

(* Only an instance that is told to forks. *)
ForksWhenTold ==
    \A p \in Processes : place[p] = "fork" => options[p[1]].daemonize

StartupInv == StartupTypeOK /\ HoldersOnly /\ UnbornLater /\ ForksWhenTold

LEMMA ProcessesDef ==
    /\ \A i \in Instances : <<i, "first">> \in Processes
    /\ \A p \in Processes : /\ p[1] \in Instances /\ p[2] \in Generations
                            /\ p = <<p[1], p[2]>>
                            /\ Child(p) \in Processes /\ Child(p)[1] = p[1]
  BY DEF Processes, Generations, Child

LEMMA StartupInitInv == StartupInit => StartupInv
  BY DEF StartupInit, StartupInv, StartupTypeOK, HoldersOnly, UnbornLater,
         ForksWhenTold, Places, PastCheck, NoOptions, OptionSets

(* A process that goes on, with the lock where it was, keeps the invariant *)
(* if it enters neither the part after the check nor the fork.             *)
LEMMA MoveKeepsInv ==
  ASSUME StartupInv, NEW p \in Processes, NEW next \in Places,
         Alive(p), Go(p, next), UNCHANGED <<options, lockOwner>>,
         next \in PastCheck => place[p] \in PastCheck,
         next # "fork", next # "unborn",
         handler' \subseteq Processes, oneShot' \subseteq Instances, sockets' \subseteq Processes,
         termByte' \subseteq sockets'
  PROVE  StartupInv'
<1>1. place' = [place EXCEPT ![p] = next] /\ place \in [Processes -> Places]
  BY DEF Go, StartupInv, StartupTypeOK
<1>2. \A q \in Processes : place'[q] = IF q = p THEN next ELSE place[q]
  BY <1>1
<1>3. place[p] # "unborn"
  BY DEF Alive
<1>4. StartupTypeOK'
  BY <1>1, <1>2, <1>3 DEF StartupInv, StartupTypeOK
<1>5. HoldersOnly'
  BY <1>2 DEF StartupInv, HoldersOnly, TestMode
<1>6. UnbornLater'
  BY <1>2, <1>3, ProcessesDef DEF StartupInv, UnbornLater
<1>7. ForksWhenTold'
  BY <1>2 DEF StartupInv, ForksWhenTold
<1>8. QED  BY <1>4, <1>5, <1>6, <1>7 DEF StartupInv

(* So does a process that ends. *)
LEMMA EndKeepsInv ==
  ASSUME StartupInv, NEW p \in Processes, Alive(p), End(p),
         UNCHANGED <<options, oneShot>>
  PROVE  StartupInv'
<1>1. place' = [place EXCEPT ![p] = "gone"] /\ place \in [Processes -> Places]
  BY DEF End, Go, StartupInv, StartupTypeOK
<1>2. \A q \in Processes : place'[q] = IF q = p THEN "gone" ELSE place[q]
  BY <1>1
<1>3. place[p] # "unborn"
  BY DEF Alive
<1>4. lockOwner' = IF lockOwner = p THEN NoProcess ELSE lockOwner
  BY DEF End
<1>5. StartupTypeOK'
  BY <1>1, <1>2, <1>3, <1>4 DEF StartupInv, StartupTypeOK, Places, End
<1>6. HoldersOnly'
  BY <1>2, <1>4 DEF StartupInv, HoldersOnly, TestMode, PastCheck
<1>7. UnbornLater'
  BY <1>2, <1>3, ProcessesDef DEF StartupInv, UnbornLater
<1>8. ForksWhenTold'
  BY <1>2 DEF StartupInv, ForksWhenTold
<1>9. QED  BY <1>5, <1>6, <1>7, <1>8 DEF StartupInv

LEMMA LaunchKeepsInv ==
  ASSUME StartupInv, NEW i \in Instances, NEW args, Launch(i, args)
  PROVE  StartupInv'
<1> DEFINE first == <<i, "first">>
<1>1. first \in Processes /\ first[1] = i /\ first[2] = "first"
  BY ProcessesDef
<1>2. /\ \A q \in Processes : place'[q] = IF q = first THEN "parseArgs" ELSE place[q]
      /\ place' \in [Processes -> Places]
  BY <1>1 DEF Launch, Go, StartupInv, StartupTypeOK, Places
<1>3. /\ ParseArgs(args) \in OptionSets
      /\ options' = [options EXCEPT ![i] = ParseArgs(args)]
  BY DEF Launch, ParseArgs, OptionSets, Said
<1>4. \A q \in Processes : place'[q] # "unborn" /\ q # first => options'[q[1]] = options[q[1]]
  <2>1. SUFFICES ASSUME NEW q \in Processes, place[q] # "unborn"
                 PROVE  q[1] # i
    BY <1>2, <1>3, ProcessesDef DEF StartupInv, StartupTypeOK
  <2>2. place[<<q[1], "first">>] # "unborn"
    BY <2>1 DEF StartupInv, UnbornLater
  <2>3. QED  BY <2>2 DEF Launch
<1>5. StartupTypeOK'
  BY <1>1, <1>2, <1>3, <1>4 DEF StartupInv, StartupTypeOK, Launch
<1>6. HoldersOnly'
  <2>1. SUFFICES ASSUME ~ClosedStdio,
                        NEW q \in Processes, place'[q] \in PastCheck, ~TestMode(q)'
                 PROVE  lockOwner' = q
    BY DEF HoldersOnly
  <2>2. q # first
    BY <1>2, <2>1 DEF PastCheck
  <2>3. options'[q[1]] = options[q[1]] /\ place'[q] = place[q]
    BY <1>2, <1>4, <2>1, <2>2 DEF PastCheck
  <2>4. QED  BY <2>1, <2>3 DEF StartupInv, HoldersOnly, TestMode, Launch
<1>7. UnbornLater'
  BY <1>1, <1>2, ProcessesDef DEF StartupInv, UnbornLater
<1>8. ForksWhenTold'
  BY <1>2, <1>4 DEF StartupInv, ForksWhenTold
<1>9. QED  BY <1>5, <1>6, <1>7, <1>8 DEF StartupInv

(* The lock was free or the process had it already, so nobody else is past *)
(* its check outside the test mode.                                        *)
LEMMA CheckKeepsInv ==
  ASSUME StartupInv, NEW p \in Processes, CheckForLock(p)
  PROVE  StartupInv'
<1>1. AfterCheck(p) \in Places /\ AfterCheck(p) # "unborn"
  BY DEF AfterCheck, Places
<1>2. /\ \A q \in Processes : place'[q] = IF q = p THEN AfterCheck(p) ELSE place[q]
      /\ place' \in [Processes -> Places]
  BY <1>1 DEF CheckForLock, Go, StartupInv, StartupTypeOK
<1>3. place[p] = "checkForLock"
  BY DEF CheckForLock
<1>4. StartupTypeOK'
  BY <1>2, <1>3 DEF StartupInv, StartupTypeOK, CheckForLock
<1>5. HoldersOnly'
  <2>1. SUFFICES ASSUME ~ClosedStdio,
                        NEW q \in Processes, place'[q] \in PastCheck, ~TestMode(q)
                 PROVE  lockOwner' = q
    BY DEF HoldersOnly, TestMode, CheckForLock
  <2>2. CASE q = p
    BY <2>1, <2>2 DEF CheckForLock
  <2>3. CASE q # p
    <3>1. lockOwner = q
      BY <1>2, <2>1, <2>3 DEF StartupInv, HoldersOnly
    <3>2. TestMode(p) \/ lockOwner \in {p, NoProcess}
      BY DEF CheckForLock
    <3>3. QED  BY <2>3, <3>1, <3>2, StartupAssumption DEF CheckForLock
  <2>4. QED  BY <2>2, <2>3
<1>6. UnbornLater'
  BY <1>1, <1>2, <1>3, ProcessesDef DEF StartupInv, UnbornLater
<1>7. ForksWhenTold'
  BY <1>2 DEF StartupInv, ForksWhenTold, AfterCheck, CheckForLock
<1>8. QED  BY <1>4, <1>5, <1>6, <1>7 DEF StartupInv

(* Parent and child are both before or beside the check. *)
LEMMA ForkKeepsInv ==
  ASSUME StartupInv, NEW p \in Processes, Fork(p)
  PROVE  StartupInv'
<1>1. Child(p) \in Processes /\ Child(p)[1] = p[1]
  BY ProcessesDef
<1>2. Birthplace(Child(p)) \in {"fork", "checkForLock"}
  BY DEF Birthplace
<1>3. \A q \in Processes :
         place'[q] = IF q = Child(p) THEN Birthplace(Child(p))
                     ELSE IF q = p THEN "leave" ELSE place[q]
  BY <1>1 DEF Fork, StartupInv, StartupTypeOK
<1>4. place' \in [Processes -> Places]
  BY <1>1, <1>2 DEF Fork, StartupInv, StartupTypeOK, Places
<1>5. place[p] = "fork" /\ options[p[1]].daemonize
  BY DEF Fork, StartupInv, ForksWhenTold
<1>6. StartupTypeOK'
  BY <1>1, <1>3, <1>4, <1>5 DEF StartupInv, StartupTypeOK, Fork
<1>7. HoldersOnly'
  BY <1>2, <1>3 DEF StartupInv, HoldersOnly, TestMode, PastCheck, Fork
<1>8. UnbornLater'
  <2>1. SUFFICES ASSUME NEW q \in Processes, place'[q] # "unborn"
                 PROVE  place'[<<q[1], "first">>] # "unborn"
    BY DEF UnbornLater
  <2>2. place[<<q[1], "first">>] # "unborn"
    BY <1>1, <1>3, <1>5, <2>1 DEF StartupInv, UnbornLater
  <2>3. QED  BY <1>2, <1>3, <2>2, ProcessesDef
<1>9. ForksWhenTold'
  BY <1>1, <1>3, <1>5 DEF StartupInv, ForksWhenTold, Fork
<1>10. QED  BY <1>6, <1>7, <1>8, <1>9 DEF StartupInv

LEMMA ProcessStepKeepsInv ==
  ASSUME StartupInv, NEW p \in Processes, ProcessStep(p)
  PROVE  StartupInv'
<1> USE DEF Places, PastCheck, Alive
<1> p[1] \in Instances
  BY ProcessesDef
<1>0. /\ handler \subseteq Processes /\ oneShot \subseteq Instances
      /\ sockets \subseteq Processes /\ termByte \subseteq sockets
  BY DEF StartupInv, StartupTypeOK
<1>1. CASE ParseDone(p)
  BY <1>0, <1>1, MoveKeepsInv DEF ParseDone
<1>2. CASE Install(p)
  BY <1>0, <1>2, MoveKeepsInv DEF Install
<1>3. CASE CheckForLock(p)
  BY <1>3, CheckKeepsInv
<1>4. CASE CheckForLockFails(p)
  BY <1>4, EndKeepsInv DEF CheckForLockFails
<1>5. CASE Fork(p)
  BY <1>5, ForkKeepsInv
<1>6. CASE Detach(p)
  <2>1. CASE ClosedStdio
    <3>1. /\ place' = [place EXCEPT ![p] = "construct"] /\ place[p] = "detach"
          /\ lockOwner' \in {lockOwner, NoProcess}
          /\ UNCHANGED <<options, handler, oneShot, termByte, sockets>>
      BY <1>6 DEF Detach, Go
    <3>2. QED
      BY <2>1, <3>1 DEF StartupInv, StartupTypeOK, HoldersOnly, UnbornLater, ForksWhenTold
  <2>2. CASE ~ClosedStdio
    BY <1>0, <1>6, <2>2, MoveKeepsInv DEF Detach
  <2>3. QED  BY <2>1, <2>2
<1>7. CASE Construct(p)
  BY <1>0, <1>7, MoveKeepsInv DEF Construct
<1>8. CASE ReadConfiguration(p)
  BY <1>0, <1>8, MoveKeepsInv DEF ReadConfiguration
<1>9. CASE Fails(p)
  BY <1>9, EndKeepsInv DEF Fails
<1>10. CASE HandleSigTerm(p)
  BY <1>0, <1>10, MoveKeepsInv DEF HandleSigTerm
<1>11. CASE Leave(p)
  BY <1>11, EndKeepsInv DEF Leave
<1>12. QED
  BY <1>1, <1>2, <1>3, <1>4, <1>5, <1>6, <1>7, <1>8, <1>9, <1>10, <1>11
  DEF ProcessStep

LEMMA SignalKeepsInv ==
  ASSUME StartupInv, NEW p \in Processes, SendSigTerm(p)
  PROVE  StartupInv'
<1>1. CASE p \in handler
  <2>1. /\ UNCHANGED <<place, lockOwner, options, oneShot, sockets>>
        /\ handler' \subseteq handler
        /\ termByte' = termByte \cup ({p} \cap sockets)
    BY <1>1 DEF SendSigTerm
  <2>2. QED
    BY <2>1 DEF StartupInv, StartupTypeOK, HoldersOnly, UnbornLater,
                ForksWhenTold, TestMode
<1>2. CASE p \notin handler
  BY <1>2, EndKeepsInv DEF SendSigTerm
<1>3. QED  BY <1>1, <1>2

LEMMA StartupNextInv ==
  ASSUME StartupInv, [StartupNext]_startupVars
  PROVE  StartupInv'
<1>1. ASSUME NEW i \in Instances, NEW args \in Arguments, Launch(i, args)
      PROVE  StartupInv'
  BY <1>1, LaunchKeepsInv
<1>2. ASSUME NEW p \in Processes, ProcessStep(p) PROVE StartupInv'
  BY <1>2, ProcessStepKeepsInv
<1>3. ASSUME NEW p \in Processes, SendSigTerm(p) PROVE StartupInv'
  BY <1>3, SignalKeepsInv
<1>4. ASSUME NEW p \in Processes, Kill(p) PROVE StartupInv'
  BY <1>4, EndKeepsInv DEF Kill
<1>5. CASE UNCHANGED startupVars
  BY <1>5 DEF startupVars, StartupInv, StartupTypeOK, HoldersOnly, UnbornLater,
              ForksWhenTold, TestMode
<1>6. QED  BY <1>1, <1>2, <1>3, <1>4, <1>5 DEF StartupNext

LEMMA StartupInvariant == StartupSpec => []StartupInv
<1>1. StartupInv /\ [StartupNext]_startupVars => StartupInv'
  BY StartupNextInv
<1>2. QED  BY <1>1, StartupInitInv, PTL DEF StartupSpec

(* Every variable of the start-up stays in its type, and only an instance  *)
(* told to fork has more than one process.                                 *)
THEOREM StartupTypeCorrect == StartupSpec => []StartupTypeOK
<1>1. StartupInv => StartupTypeOK
  BY DEF StartupInv
<1>2. QED  BY <1>1, StartupInvariant, PTL

(* At most one process becomes the daemon, however many instances are      *)
(* started, signalled and killed (Daemon::checkForLock, daemonize).        *)
THEOREM OneDaemonAtMost ==
  ASSUME ~ClosedStdio PROVE StartupSpec => []AtMostOneDaemon
<1>1. StartupInv => AtMostOneDaemon
  BY DEF StartupInv, HoldersOnly, AtMostOneDaemon, Daemons, PastCheck
<1>2. QED  BY <1>1, StartupInvariant, PTL

(* A process with a socket pair is the daemon at work, not one that is     *)
(* still to be forked or locked out; nobody forks twice.                   *)
Serving == {"readConfiguration", "exec", "leave"}
BeforeFork == {"unborn", "parseArgs", "install", "checkForLock", "fork"}

SocketsServed == \A p \in sockets : place[p] \in Serving

ForkedOnce ==
    \A i \in Instances :
        /\ place[<<i, "first">>] \in BeforeFork => place[<<i, "child">>] = "unborn"
        /\ place[<<i, "child">>] \in BeforeFork => place[<<i, "grandchild">>] = "unborn"
        /\ place[<<i, "grandchild">>] # "fork"

(* One process goes on.                                                    *)
LEMMA MoveServed ==
  ASSUME StartupTypeOK, SocketsServed, ForkedOnce,
         NEW p \in Processes, NEW next, Go(p, next), place[p] # "unborn",
         next \in BeforeFork => place[p] \in BeforeFork,
         next = "fork" => p[2] = "first",
         sockets' \subseteq sockets \cup {p}, p \in sockets' => next \in Serving
  PROVE  SocketsServed' /\ ForkedOnce'
<1>1. place \in [Processes -> Places] /\ sockets \subseteq Processes
  BY DEF StartupTypeOK
<1>2. \A q \in Processes : place'[q] = IF q = p THEN next ELSE place[q]
  BY <1>1 DEF Go
<1>3. SocketsServed'
  BY <1>1, <1>2 DEF SocketsServed
<1>4. ASSUME NEW i \in Instances
      PROVE  /\ <<i, "first">> \in Processes /\ <<i, "child">> \in Processes
             /\ <<i, "grandchild">> \in Processes
  BY DEF Processes, Generations
<1>5. \/ p = <<p[1], "first">> \/ p = <<p[1], "child">> \/ p = <<p[1], "grandchild">>
  BY DEF Processes, Generations
<1>6. ASSUME NEW i \in Instances
      PROVE  /\ place'[<<i, "first">>] \in BeforeFork => place'[<<i, "child">>] = "unborn"
             /\ place'[<<i, "child">>] \in BeforeFork => place'[<<i, "grandchild">>] = "unborn"
             /\ place'[<<i, "grandchild">>] # "fork"
  BY <1>2, <1>4, <1>5 DEF ForkedOnce
<1>7. QED  BY <1>3, <1>6 DEF ForkedOnce

LEMMA ForkServed ==
  ASSUME StartupTypeOK, SocketsServed, ForkedOnce, NEW p \in Processes, Fork(p)
  PROVE  SocketsServed' /\ ForkedOnce'
<1>1. place \in [Processes -> Places] /\ sockets \subseteq Processes
  BY DEF StartupTypeOK
<1>2. place[p] = "fork" /\ sockets' = sockets
  BY DEF Fork
<1>3. PICK i \in Instances, g \in Generations : p = <<i, g>>
  BY DEF Processes
<1>4. g # "grandchild"
  BY <1>2, <1>3 DEF ForkedOnce
<1>5. /\ Child(p) = <<i, IF g = "first" THEN "child" ELSE "grandchild">>
      /\ Child(p) \in Processes
  BY <1>3, <1>4 DEF Child, Processes, Generations
<1>6. place[Child(p)] = "unborn"
  BY <1>2, <1>3, <1>4, <1>5 DEF ForkedOnce, BeforeFork, Generations
<1>7. Birthplace(Child(p)) = IF g = "first" THEN "fork" ELSE "checkForLock"
  BY <1>5 DEF Birthplace
<1>8. \A q \in Processes :
         place'[q] = IF q = Child(p) THEN Birthplace(Child(p))
                     ELSE IF q = p THEN "leave" ELSE place[q]
  BY <1>1, <1>5 DEF Fork
<1>9. SocketsServed'
  BY <1>1, <1>2, <1>6, <1>8 DEF SocketsServed, Serving
<1>10. ASSUME NEW j \in Instances
       PROVE  /\ place'[<<j, "first">>] \in BeforeFork => place'[<<j, "child">>] = "unborn"
              /\ place'[<<j, "child">>] \in BeforeFork => place'[<<j, "grandchild">>] = "unborn"
              /\ place'[<<j, "grandchild">>] # "fork"
  <2>1. /\ <<j, "first">> \in Processes /\ <<j, "child">> \in Processes
        /\ <<j, "grandchild">> \in Processes
    BY DEF Processes, Generations
  <2>2. CASE j # i
    <3>1. \A h : <<j, h>> # p /\ <<j, h>> # Child(p)
      BY <1>3, <1>5, <2>2
    <3>2. QED  BY <1>8, <2>1, <3>1 DEF ForkedOnce
  <2>3. CASE j = i
    <3>1. CASE g = "first"
      <4>1. /\ place'[<<i, "first">>] = "leave" /\ place'[<<i, "child">>] = "fork"
            /\ place'[<<i, "grandchild">>] = place[<<i, "grandchild">>]
        BY <1>3, <1>5, <1>7, <1>8, <2>1, <2>3, <3>1
      <4>2. place[<<i, "child">>] = "unborn"
        BY <1>5, <1>6, <3>1
      <4>3. QED  BY <2>3, <4>1, <4>2 DEF ForkedOnce, BeforeFork
    <3>2. CASE g = "child"
      <4>1. /\ place'[<<i, "first">>] = place[<<i, "first">>]
            /\ place'[<<i, "child">>] = "leave"
            /\ place'[<<i, "grandchild">>] = "checkForLock"
        BY <1>3, <1>5, <1>7, <1>8, <2>1, <2>3, <3>2
      <4>2. place[<<i, "child">>] = "fork"
        BY <1>2, <1>3, <3>2
      <4>3. QED  BY <2>3, <4>1, <4>2 DEF ForkedOnce, BeforeFork
    <3>3. QED  BY <1>4, <3>1, <3>2 DEF Generations
  <2>4. QED  BY <2>2, <2>3
<1>11. QED  BY <1>9, <1>10 DEF ForkedOnce

LEMMA ServedStep ==
  ASSUME StartupTypeOK, SocketsServed, ForkedOnce, [StartupNext]_startupVars
  PROVE  SocketsServed' /\ ForkedOnce'
<1> USE DEF Serving, BeforeFork
<1>1. ASSUME NEW p \in Processes, place[p] # "unborn", End(p)
      PROVE  SocketsServed' /\ ForkedOnce'
  BY <1>1, MoveServed DEF End
<1>2. ASSUME NEW i \in Instances, NEW args, Launch(i, args)
      PROVE  SocketsServed' /\ ForkedOnce'
  <2>1. /\ place[<<i, "first">>] = "unborn" /\ sockets' = sockets
        /\ place' = [place EXCEPT ![<<i, "first">>] = "parseArgs"]
    BY <1>2 DEF Launch, Go
  <2>2. /\ place \in [Processes -> Places] /\ sockets \subseteq Processes
        /\ \A j \in Instances, g \in Generations : <<j, g>> \in Processes
    BY DEF StartupTypeOK, Processes
  <2>3. \A q \in Processes : place'[q] = IF q = <<i, "first">> THEN "parseArgs" ELSE place[q]
    BY <2>1, <2>2
  <2>4. QED
    BY <2>1, <2>2, <2>3 DEF SocketsServed, ForkedOnce, Generations
<1>3. ASSUME NEW p \in Processes, ProcessStep(p)
      PROVE  SocketsServed' /\ ForkedOnce'
  <2>1. CASE ParseDone(p)
    BY <2>1, MoveServed DEF ParseDone, SocketsServed
  <2>2. CASE Install(p)
    BY <2>2, MoveServed DEF Install, SocketsServed
  <2>3. CASE CheckForLock(p)
    BY <2>3, MoveServed DEF CheckForLock, AfterCheck, SocketsServed
  <2>4. CASE Detach(p)
    BY <2>4, MoveServed DEF Detach, SocketsServed
  <2>5. CASE Construct(p)
    BY <2>5, MoveServed DEF Construct
  <2>6. CASE ReadConfiguration(p) \/ HandleSigTerm(p)
    BY <2>6, MoveServed DEF ReadConfiguration, HandleSigTerm
  <2>7. CASE CheckForLockFails(p) \/ Fails(p) \/ Leave(p)
    BY <1>1, <2>7 DEF CheckForLockFails, Fails, Leave
  <2>8. QED
    BY <1>3, <2>1, <2>2, <2>3, <2>4, <2>5, <2>6, <2>7, ForkServed DEF ProcessStep
<1>4. ASSUME NEW p \in Processes, SendSigTerm(p) \/ Kill(p)
      PROVE  SocketsServed' /\ ForkedOnce'
  <2>1. CASE UNCHANGED <<place, sockets>>
    BY <2>1 DEF SocketsServed, ForkedOnce
  <2>2. CASE End(p)
    BY <1>1, <1>4, <2>2 DEF SendSigTerm, Kill, Alive
  <2>3. QED
    BY <1>4, <2>1, <2>2 DEF SendSigTerm, Kill
<1>5. CASE UNCHANGED startupVars
  BY <1>5 DEF startupVars, SocketsServed, ForkedOnce
<1>6. QED  BY <1>2, <1>3, <1>4, <1>5 DEF StartupNext

(* The byte of a SIGTERM waits in a process that will read it. *)
TermPending(p) == p \in termByte /\ place[p] \in Serving

(* A SIGTERM that reached the socket pair waits in a process that is at    *)
(* its main loop or about to enter it, and is forgotten only by a process  *)
(* that leaves the loop or is gone: the safety half of TermHonoured        *)
(* (Daemon::Daemon, handleSigTerm, daemonize).                             *)
THEOREM SigTermNeverForgotten ==
  StartupSpec => [][\A p \in termByte :
                       TermPending(p)' \/ place'[p] \in {"leave", "gone"}]_startupVars
<1> DEFINE Inv == StartupTypeOK /\ SocketsServed /\ ForkedOnce
<1>1. StartupInit => SocketsServed /\ ForkedOnce
  BY DEF StartupInit, SocketsServed, ForkedOnce, Processes, Generations
<1>2. ASSUME Inv, [StartupNext]_startupVars, NEW p \in termByte, SocketsServed',
             StartupTypeOK'
      PROVE  TermPending(p)' \/ place'[p] \in {"leave", "gone"}
  <2>1. p \in Processes /\ place \in [Processes -> Places] /\ termByte' \subseteq sockets'
    BY <1>2 DEF StartupTypeOK
  <2>2. ASSUME p \in termByte' PROVE TermPending(p)'
    BY <1>2, <2>1, <2>2 DEF TermPending, SocketsServed
  <2>3. ASSUME NEW q \in Processes, End(q), p \notin termByte' PROVE place'[p] = "gone"
    BY <2>1, <2>3 DEF End, Go
  <2>4. ASSUME NEW q \in Processes, ProcessStep(q), p \notin termByte'
        PROVE  place'[p] \in {"leave", "gone"}
    BY <2>1, <2>3, <2>4 DEF ProcessStep, ParseDone, Install, CheckForLock, CheckForLockFails,
       Fork, Detach, Construct, ReadConfiguration, Fails, HandleSigTerm, Leave, Go
  <2>5. ASSUME NEW q \in Processes, SendSigTerm(q) \/ Kill(q), p \notin termByte'
        PROVE  place'[p] = "gone"
    BY <2>1, <2>3, <2>5 DEF SendSigTerm, Kill
  <2>6. ASSUME NEW i \in Instances, NEW args, Launch(i, args) PROVE p \in termByte'
    BY <2>6 DEF Launch
  <2>7. CASE UNCHANGED startupVars
    BY <2>2, <2>7 DEF startupVars
  <2>8. QED
    BY <1>2, <2>2, <2>4, <2>5, <2>6, <2>7 DEF StartupNext
<1>3. Inv /\ StartupTypeOK' /\ [StartupNext]_startupVars => SocketsServed' /\ ForkedOnce'
  BY ServedStep
<1>4. Inv /\ StartupTypeOK' /\ SocketsServed' /\ [StartupNext]_startupVars =>
        [\A p \in termByte : TermPending(p)' \/ place'[p] \in {"leave", "gone"}]_startupVars
  BY <1>2
<1>5. QED
  BY <1>1, <1>3, <1>4, StartupTypeCorrect, PTL DEF StartupSpec
=============================================================================
