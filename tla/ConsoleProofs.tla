---------------------------- MODULE ConsoleProofs ----------------------------
(***************************************************************************)
(* The test console, for any lines and any configuration files: a daemon   *)
(* that ends with its input has handled all of it, and a configuration it  *)
(* reads is taken over as a whole or not at all.                           *)
(***************************************************************************)
EXTENDS ConfigProofs

(* The stream meets the end of the file only in a pipe that is closed and  *)
(* empty, and nothing is written to it from then on; a daemon that has     *)
(* ended with its input had an empty buffer and had met that end.          *)
EofFinal == eof => closed /\ pipe = <<>>
EndFinal == status = "end" => buffer = <<>> /\ eof
ConsoleInv == EofFinal /\ EndFinal

LEMMA ConsoleInitInv == ConsoleInit => ConsoleInv
  BY DEF ConsoleInit, ConsoleInv, EofFinal, EndFinal

LEMMA ReadKeepsInv ==
  ASSUME ConsoleInv, NEW document, ReadTestData(document)
  PROVE  ConsoleInv'
<1>1. EofFinal'
  <2>1. eof' = (eof \/ (buffer = <<>> /\ closed))
    BY DEF ReadTestData, ReadLine
  <2>2. closed' = closed
    BY DEF ReadTestData
  <2>3. pipe' = IF buffer = <<>> THEN <<>> ELSE pipe
    BY DEF ReadTestData, ReadLine
  <2>4. QED  BY <2>1, <2>2, <2>3 DEF ConsoleInv, EofFinal
<1>2. EndFinal'
  <2>1. SUFFICES ASSUME status' = "end" PROVE AtEnd(buffer', eof')
    BY DEF EndFinal, AtEnd
  <2>2. QED  BY <2>1 DEF ReadTestData
<1>3. QED  BY <1>1, <1>2 DEF ConsoleInv

(* No step of the writer, of the notifier or of a timer breaks it. *)
LEMMA ConsoleNextInv == ConsoleInv /\ [ConsoleNext]_consoleVars => ConsoleInv'
<1>1. SUFFICES ASSUME ConsoleInv, [ConsoleNext]_consoleVars PROVE ConsoleInv'
  OBVIOUS
<1>2. ASSUME NEW line \in Lines, SendLine(line) PROVE ConsoleInv'
  BY <1>1, <1>2 DEF SendLine, ConsoleInv, EofFinal, EndFinal, streamVars
<1>3. CASE CloseInput
  BY <1>1, <1>3 DEF CloseInput, ConsoleInv, EofFinal, EndFinal, streamVars
<1>4. CASE Read
  BY <1>1, <1>4, ReadKeepsInv DEF Read
<1>5. CASE ExitTimeout
  BY <1>1, <1>5 DEF ExitTimeout, ConsoleInv, EofFinal, EndFinal, inputVars, streamVars
<1>6. CASE BlankTimeout
  BY <1>1, <1>6 DEF BlankTimeout, ConsoleInv, EofFinal, EndFinal, inputVars, streamVars
<1>7. CASE UNCHANGED consoleVars
  BY <1>1, <1>7 DEF consoleVars, inputVars, streamVars, ConsoleInv, EofFinal, EndFinal
<1>8. QED  BY <1>1, <1>2, <1>3, <1>4, <1>5, <1>6, <1>7 DEF ConsoleNext

(* A daemon that ends with its input leaves no line unhandled              *)
(* (SystemState::readTestData).                                            *)
THEOREM ConsoleReadsToTheEnd == ConsoleSpec => []EndOnlyAfterLastLine
<1>1. ConsoleInv => EndOnlyAfterLastLine
  BY DEF ConsoleInv, EofFinal, EndFinal, EndOnlyAfterLastLine
<1>2. QED  BY <1>1, ConsoleInitInv, ConsoleNextInv, PTL DEF ConsoleSpec

-----------------------------------------------------------------------------
(* Types.  What a file held is remembered, so that every reading is of a   *)
(* document.                                                               *)

ReadsDocuments == lastRead \in Documents \cup {NoDocument}

ConsoleTypeInv == ConsoleTypeOK /\ ReadsDocuments

LEMMA DocumentsAre ==
  ASSUME NEW document \in Documents \cup {NoDocument}
  PROVE  IsDocument(document)
<1>1. CASE document = NoDocument
  <2>1. document.elements = <<>> /\ document.exists = FALSE
        /\ document.wellFormed = FALSE
    BY <1>1 DEF NoDocument
  <2>2. Len(<<>>) = 0 /\ DOMAIN <<>> = 1..0
    OBVIOUS
  <2>3. QED  BY <2>1, <2>2 DEF IsDocument, IsList
<1>2. CASE document \in Documents
  <2>1. document \in [exists : BOOLEAN, wellFormed : BOOLEAN,
                      elements : Seq(Range(document.elements))]
    BY <1>2, ConsoleAssumption
  <2>2. document.elements \in Seq(Range(document.elements))
    BY <2>1
  <2>3. Len(document.elements) \in Nat
        /\ DOMAIN document.elements = 1..Len(document.elements)
    BY <2>2
  <2>4. QED  BY <2>1, <2>3 DEF IsDocument, IsList
<1>3. QED  BY <1>1, <1>2

(* The conversions and the product with 1000 stay within an int. *)
LEMMA ConvertedFits == \A text : ToInt(text) \in Ints
  BY IntsFit DEF ToInt

LEMMA IntervalFits == \A seconds : Interval(seconds) \in Ints
<1> SUFFICES ASSUME NEW seconds PROVE Interval(seconds) \in Ints
  OBVIOUS
<1> DEFINE w == 2 * (IntMax + 1)
           n == ToInt(seconds) * 1000 - IntMin
           r == n % w
<1>1. IntMax \in Nat /\ w \in Nat /\ w > 0
  BY ConfigAssumption
<1>2. n \in Int
  <2>1. ToInt(seconds) \in Int
    <3>1. ToInt(seconds) \in Ints /\ Ints \subseteq Int
      BY IntsFit, ConvertedFits
    <3>2. QED  BY <3>1
  <2>2. QED  BY <1>1, <2>1 DEF IntMin
<1>3. r \in Int /\ 0 <= r /\ r < w
  <2> HIDE DEF n, w
  <2>1. QED  BY <1>1, <1>2
<1>4. Interval(seconds) = r + IntMin
  BY DEF Interval, Wrapped
<1> HIDE DEF r, n
<1>5. r + IntMin \in Ints
  BY <1>1, <1>3 DEF IntMin, Ints
<1>6. QED  BY <1>4, <1>5

LEMMA ConsoleTypeAsConfiguration ==
  ConsoleTypeOK <=>
    /\ pipe \in Seq(Lines) /\ buffer \in Seq(Lines) /\ sent \in 0..MaxLines
    /\ {closed, eof, notifier, exitWithDelay, exitTimer, blankTimer, blanked}
          \subseteq BOOLEAN
    /\ exitDelay \in Ints /\ forcedLoad \in Ints
    /\ ConfigurationTyped(config)
    /\ status \in {"running", "exit", "end", "failed"}
  BY DEF ConsoleTypeOK, ConfigurationTyped

LEMMA ConsoleInitTyped == ConsoleInit => ConsoleTypeInv
<1>1. SUFFICES ASSUME ConsoleInit PROVE ConsoleTypeInv
  OBVIOUS
<1>2. sent \in 0..MaxLines
  BY <1>1, ConsoleAssumption DEF ConsoleInit
<1>3. exitDelay \in Ints /\ forcedLoad \in Ints
  BY <1>1, IntsFit DEF ConsoleInit
<1>4. ConfigurationTyped(config)
  BY <1>1, IntsFit DEF ConsoleInit, ConfigurationTyped, NoConfiguration
<1>5. /\ pipe \in Seq(Lines) /\ buffer \in Seq(Lines) /\ ReadsDocuments
      /\ status \in {"running", "exit", "end", "failed"}
      /\ {closed, eof, notifier, exitWithDelay, exitTimer, blankTimer, blanked}
            \subseteq BOOLEAN
  <2>1. pipe \in Seq(Lines) /\ buffer \in Seq(Lines)
    BY <1>1 DEF ConsoleInit
  <2>2. ReadsDocuments
    BY <1>1 DEF ConsoleInit, ReadsDocuments
  <2>3. QED  BY <1>1, <2>1, <2>2 DEF ConsoleInit
<1>6. ConsoleTypeOK
  BY <1>2, <1>3, <1>4, <1>5, ConsoleTypeAsConfiguration
<1>7. QED  BY <1>5, <1>6 DEF ConsoleTypeInv

LEMMA ReadKeepsTyped ==
  ASSUME ConsoleTypeInv, NEW document \in Contents, ReadTestData(document)
  PROVE  ConsoleTypeInv'
<1>1. IsDocument(document) /\ ReadsDocuments'
  <2>1. document \in Documents \cup {NoDocument}
    BY DEF Contents, ConsoleTypeInv, ReadsDocuments
  <2>2. lastRead' = document \/ lastRead' = lastRead
    BY DEF ReadTestData, RunPrestarts
  <2>3. QED  BY <2>1, <2>2, DocumentsAre DEF ConsoleTypeInv, ReadsDocuments
<1>2. pipe' \in Seq(Lines) /\ buffer' \in Seq(Lines) /\ eof' \in BOOLEAN
  <2>1. pipe \in Seq(Lines) /\ Unread \in Seq(Lines)
    BY DEF ConsoleTypeInv, ConsoleTypeOK, Unread
  <2>2. Unread # <<>> => Tail(Unread) \in Seq(Lines)
    <3> HIDE DEF Unread
    <3>1. QED  BY <2>1
  <2>3. pipe' \in Seq(Lines)
    BY <2>1 DEF ReadTestData, ReadLine
  <2>4. buffer' \in Seq(Lines)
    <3>1. buffer' = IF Unread = <<>> THEN <<>> ELSE Tail(Unread)
      BY DEF ReadTestData, ReadLine
    <3>2. QED  BY <2>2, <3>1
  <2>5. eof' \in BOOLEAN
    BY DEF ReadTestData, ReadLine
  <2>6. QED  BY <2>3, <2>4, <2>5
<1>3. /\ exitWithDelay' \in BOOLEAN /\ exitTimer' \in BOOLEAN
      /\ exitDelay' \in Ints
  <2>1. /\ exitWithDelay \in BOOLEAN /\ exitTimer \in BOOLEAN
        /\ exitDelay \in Ints /\ SetExitDelay(NextLine)
    BY DEF ReadTestData, ConsoleTypeInv, ConsoleTypeOK
  <2>2. CASE Given(NextLine, "EXIT_WITH_DELAY")
    <3>1. /\ exitWithDelay' = TRUE /\ exitTimer' = (exitDelay' >= 0)
          /\ exitDelay' = Interval(NextLine.args[1])
      BY <2>1, <2>2, Zenon DEF SetExitDelay
    <3>2. (exitDelay' >= 0) \in BOOLEAN
      OBVIOUS
    <3>3. exitDelay' \in Ints
      BY <3>1, IntervalFits
    <3>4. QED  BY <3>1, <3>2, <3>3
  <2>3. CASE ~Given(NextLine, "EXIT_WITH_DELAY")
    BY <2>1, <2>3, Zenon DEF SetExitDelay, exitVars
  <2>4. QED  BY <2>2, <2>3
<1>4. blanked' \in BOOLEAN /\ blankTimer' \in BOOLEAN
  <2>1. blanked \in BOOLEAN /\ blankTimer \in BOOLEAN /\ SetScreen(NextLine)
    BY DEF ReadTestData, ConsoleTypeInv, ConsoleTypeOK
  <2>2. blankTimer' \in BOOLEAN
    <3>1. (Interval(NextLine.args[1]) >= 0) \in BOOLEAN
      OBVIOUS
    <3>2. blankTimer' = (Interval(NextLine.args[1]) >= 0) \/ blankTimer' = blankTimer
      BY <2>1, Zenon DEF SetScreen
    <3>3. QED  BY <2>1, <3>1, <3>2
  <2>3. blanked' \in BOOLEAN
    BY <2>1, Zenon DEF SetScreen
  <2>4. QED  BY <2>2, <2>3
<1>5. forcedLoad' \in Ints
  BY ConvertedFits DEF ReadTestData, ForceValue, ConsoleTypeInv, ConsoleTypeOK
<1>6. ConfigurationTyped(config')
  <2>1. ConfigurationTyped(config)
    BY ConsoleTypeAsConfiguration DEF ConsoleTypeInv
  <2>2. config' = ReadConfiguration(config, document) \/ config' = config
    BY DEF ReadTestData, RunPrestarts
  <2>3. ConfigurationTyped(ReadConfiguration(config, document))
    BY <1>1, <2>1, ReadingTyped
  <2>4. QED  BY <2>1, <2>2, <2>3
<1>7. /\ notifier' \in BOOLEAN /\ status' \in {"running", "exit", "end", "failed"}
      /\ sent' = sent /\ closed' = closed
  BY DEF ReadTestData, AtEnd
<1>8. ConsoleTypeOK'
  <2>1. sent' \in 0..MaxLines /\ closed' \in BOOLEAN
    BY <1>7 DEF ConsoleTypeInv, ConsoleTypeOK
  <2>2. QED
    BY <1>2, <1>3, <1>4, <1>5, <1>6, <1>7, <2>1 DEF ConsoleTypeOK, ConfigurationTyped
<1>9. QED  BY <1>1, <1>8 DEF ConsoleTypeInv

LEMMA ConsoleNextTyped ==
  ConsoleTypeInv /\ [ConsoleNext]_consoleVars => ConsoleTypeInv'
<1>1. SUFFICES ASSUME ConsoleTypeInv, [ConsoleNext]_consoleVars PROVE ConsoleTypeInv'
  OBVIOUS
<1> USE DEF ConsoleTypeInv, ConsoleTypeOK, ReadsDocuments
<1>2. ASSUME NEW line \in Lines, SendLine(line) PROVE ConsoleTypeInv'
  <2>1. pipe' \in Seq(Lines) /\ sent' \in 0..MaxLines
    BY <1>1, <1>2, ConsoleAssumption DEF SendLine
  <2>2. QED
    BY <1>1, <1>2, <2>1 DEF SendLine, streamVars, exitVars, effectVars
<1>3. CASE CloseInput
  BY <1>1, <1>3 DEF CloseInput, streamVars, exitVars, effectVars
<1>4. CASE Read
  BY <1>1, <1>4, ReadKeepsTyped DEF Read
<1>5. CASE ExitTimeout
  BY <1>1, <1>5 DEF ExitTimeout, inputVars, streamVars, effectVars
<1>6. CASE BlankTimeout
  BY <1>1, <1>6 DEF BlankTimeout, inputVars, streamVars, exitVars
<1>7. CASE UNCHANGED consoleVars
  BY <1>1, <1>7 DEF consoleVars, inputVars, streamVars, exitVars, effectVars
<1>8. QED  BY <1>1, <1>2, <1>3, <1>4, <1>5, <1>6, <1>7 DEF ConsoleNext

(* Whatever the lines and the files are, every variable stays in its type: *)
(* the numbers fit an int after every conversion and product, a stored     *)
(* trigger fits an unsigned int, and a known application keeps its service *)
(* (SystemState::parseLine, ConfigParser::startElement,                    *)
(* Prestarter::addPrestartApp).                                            *)
THEOREM ConsoleTypeCorrect == ConsoleSpec => []ConsoleTypeOK
<1>1. ConsoleTypeInv => ConsoleTypeOK
  BY DEF ConsoleTypeInv
<1>2. QED  BY <1>1, ConsoleInitTyped, ConsoleNextTyped, PTL DEF ConsoleSpec

-----------------------------------------------------------------------------
(* The step that reads a configuration. *)

LEMMA ReadTakesOver ==
  ASSUME ReadsDocuments', ReadTestData(lastRead'), Given(NextLine, "PRESTART")
  PROVE  IF WellBehaved(lastRead')
         THEN status' # "failed" /\ TakenOver(lastRead')
         ELSE status' = "failed" /\ config' = config
<1> DEFINE document == lastRead'
<1>1. IsDocument(document)
  BY DocumentsAre DEF ReadsDocuments
<1>2. config' = ReadConfiguration(config, document)
  BY DEF ReadTestData, RunPrestarts
<1>3. status' = "failed" <=> ~CanRead(document)
  BY DEF ReadTestData, RunPrestartsFails
<1>4. CanRead(document) <=> WellBehaved(document)
  BY <1>1, AcceptedIffWellBehaved
<1> HIDE DEF document
<1>5. CASE WellBehaved(document)
  <2>1. TakenOver(document)
    BY <1>1, <1>2, <1>5, ReadingTakenOver
  <2>2. QED  BY <1>3, <1>4, <1>5, <2>1 DEF document
<1>6. CASE ~WellBehaved(document)
  <2>1. config' = config
    BY <1>2, <1>4, <1>6 DEF ReadConfiguration
  <2>2. QED  BY <1>3, <1>4, <1>6, <2>1 DEF document
<1>7. QED  BY <1>5, <1>6

(* A PRESTART takes a configuration over as a whole or not at all, for     *)
(* documents of any length and any content: it succeeds exactly if the     *)
(* file is there, well formed, and every application has a name and a      *)
(* service; then the known applications keep their settings, a new one has *)
(* those of its first element with the defaults in force there, and the    *)
(* delays and the white list are those of this document alone              *)
(* (ConfigParser::startElement, Prestarter::addPrestartApp,                *)
(* Daemon::runPrestarts).                                                  *)
THEOREM ConfigurationAlwaysTakenOver == ConsoleSpec => ConfigurationTakenOver
<1>1. ConsoleTypeInv' =>
        (ReadTestData(lastRead') /\ Given(NextLine, "PRESTART") =>
          IF WellBehaved(lastRead')
          THEN status' # "failed" /\ TakenOver(lastRead')
          ELSE status' = "failed" /\ config' = config)
  BY ReadTakesOver DEF ConsoleTypeInv
<1>2. QED
  BY <1>1, ConsoleInitTyped, ConsoleNextTyped, PTL DEF ConsoleSpec, ConfigurationTakenOver

-----------------------------------------------------------------------------
(***************************************************************************)
(* What a daemon that goes on waits for.                                   *)
(***************************************************************************)

(* It closes its ears only for a delayed exit, and an exit whose delay the *)
(* timer takes has its timer running: every EXIT_WITH_DELAY sets flag,     *)
(* delay and timer together, and the timeout ends the daemon.              *)
WaitingInv ==
    status = "running" =>
        /\ ~notifier => exitWithDelay
        /\ exitWithDelay /\ exitDelay >= 0 => exitTimer

LEMMA ConsoleInitWaiting == ConsoleInit => WaitingInv
BY DEF ConsoleInit, WaitingInv

(* A line leaves flag, delay and timer alone or sets the three of them.    *)
LEMMA ReadKeepsWaiting ==
  ASSUME WaitingInv, NEW document, ReadTestData(document)
  PROVE  WaitingInv'
<1>1. /\ status = "running" /\ notifier
      /\ notifier' = ~AtEnd(buffer', eof')
      /\ SetExitDelay(NextLine)
  BY DEF ReadTestData
<1>2. status' = "running" => ~(AtEnd(buffer', eof') /\ ~exitWithDelay')
  BY DEF ReadTestData
<1>3. exitWithDelay' /\ exitDelay' >= 0 => exitTimer'
  <2>1. CASE Given(NextLine, "EXIT_WITH_DELAY")
    BY <1>1, <2>1, Zenon DEF SetExitDelay
  <2>2. CASE ~Given(NextLine, "EXIT_WITH_DELAY")
    BY <1>1, <2>2 DEF SetExitDelay, exitVars, WaitingInv
  <2>3. QED  BY <2>1, <2>2
<1>4. QED  BY <1>1, <1>2, <1>3, Zenon DEF WaitingInv

LEMMA ConsoleNextWaiting ==
  WaitingInv /\ [ConsoleNext]_consoleVars => WaitingInv'
<1>1. SUFFICES ASSUME WaitingInv, [ConsoleNext]_consoleVars PROVE WaitingInv'
  OBVIOUS
<1>2. CASE Read
  BY <1>1, <1>2, ReadKeepsWaiting DEF Read
<1>3. CASE ExitTimeout
  BY <1>3 DEF ExitTimeout, WaitingInv
<1>4. CASE (\E line \in Lines : SendLine(line)) \/ CloseInput \/ BlankTimeout
  BY <1>1, <1>4 DEF SendLine, CloseInput, BlankTimeout, WaitingInv, streamVars, exitVars
<1>5. CASE UNCHANGED consoleVars
  BY <1>1, <1>5 DEF consoleVars, streamVars, exitVars, WaitingInv
<1>6. QED  BY <1>1, <1>2, <1>3, <1>4, <1>5 DEF ConsoleNext

(* A daemon that goes on listens to its input or has the timer of its end  *)
(* running, except after a delay the timer does not take                   *)
(* (SystemState::readTestData, parseLine, exitSlot).  This is the safety   *)
(* half of EndOfInputEndsDaemon.                                           *)
THEOREM ConsoleNeverDeaf == ConsoleSpec => []NeverDeaf
<1>1. WaitingInv => NeverDeaf
  BY DEF WaitingInv, NeverDeaf
<1>2. QED  BY <1>1, ConsoleInitWaiting, ConsoleNextWaiting, PTL DEF ConsoleSpec
=============================================================================
