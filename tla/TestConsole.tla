----------------------------- MODULE TestConsole -----------------------------
(***************************************************************************)
(* The test console: a daemon started with --test takes commands from its  *)
(* standard input (SystemState::readTestData and parseLine in              *)
(* src/systemstate.cpp), one of which reads a configuration                *)
(* (Daemon::runPrestarts, module ConfigParser).                            *)
(*                                                                         *)
(* A writer puts whole lines into a pipe and closes it some time.  The     *)
(* notifier of the main loop fires when the pipe holds data or its writer  *)
(* is gone; QTextStream::readLine() then takes a line from its own buffer  *)
(* or, if that is empty, first moves all that is in the pipe to it, and    *)
(* meets the end of the file only when it reads from a closed pipe.        *)
(*                                                                         *)
(* A line is a record [word, args]: the text up to the first '=', and the  *)
(* pieces between the further ones; args is <<>> for a line without '='.   *)
(***************************************************************************)
EXTENDS ConfigParser

CONSTANTS
    Lines,       \* the lines that may be written
    Documents,   \* what a file may hold when it is read
    MaxLines     \* bound on the lines that are written

ASSUME ConsoleAssumption ==
    /\ Lines \subseteq [word : STRING, args : Seq(Int \cup {NotANumber})]
    /\ \A document \in Documents :
          document \in [exists : BOOLEAN, wellFormed : BOOLEAN,
                        elements : Seq(Range(document.elements))]
    /\ MaxLines \in Nat

VARIABLES
    pipe,           \* lines written and not read
    sent,           \* number of lines written
    closed,         \* the writer has closed the pipe
    buffer,         \* lines in the buffer of m_stdin
    eof,            \* m_stdin has met the end of the file
    notifier,       \* m_notifier.isEnabled()
    exitWithDelay,  \* m_exitWithDelay
    exitDelay,      \* interval of m_exitTimer
    exitTimer,      \* m_exitTimer.isActive()
    blankTimer,     \* m_screenBlankWithDelayTimer.isActive()
    blanked,        \* the last screenBlanked signal
    forcedLoad,     \* m_forcedLoad of CPULoad
    config,         \* what the prestarter keeps of the configuration files
    lastRead,       \* history: the document of the last PRESTART
    status          \* running, exit (told to), end (of input), failed

inputVars == <<pipe, sent, closed>>
streamVars == <<buffer, eof, notifier>>
exitVars == <<exitWithDelay, exitDelay, exitTimer>>
effectVars == <<blankTimer, blanked, forcedLoad, config, lastRead>>
consoleVars == <<inputVars, streamVars, exitVars, effectVars, status>>

NoDocument == [exists |-> FALSE, wellFormed |-> FALSE, elements |-> <<>>]

ConsoleInit ==
    /\ pipe = <<>> /\ sent = 0 /\ closed = FALSE
    /\ buffer = <<>> /\ eof = FALSE /\ notifier = TRUE
    /\ exitWithDelay = FALSE /\ exitDelay = 0 /\ exitTimer = FALSE
    /\ blankTimer = FALSE /\ blanked = FALSE /\ forcedLoad = -1
    /\ config = NoConfiguration /\ lastRead = NoDocument
    /\ status = "running"

-----------------------------------------------------------------------------
(* The writer. *)

SendLine(line) ==
    /\ ~closed /\ sent < MaxLines
    /\ pipe' = Append(pipe, line)
    /\ sent' = sent + 1
    /\ UNCHANGED <<closed, streamVars, exitVars, effectVars, status>>

CloseInput ==
    /\ ~closed
    /\ closed' = TRUE
    /\ UNCHANGED <<pipe, sent, streamVars, exitVars, effectVars, status>>

-----------------------------------------------------------------------------
(* parseLine: every line is recognised by its beginning, in the order of   *)
(* the code.  A command with '=' needs exactly one argument, or is         *)
(* dropped.                                                                *)

Given(line, word) == line.word = word /\ Len(line.args) = 1

IsExit(line) == line.word = "EXIT" /\ line.args = <<>>

(* "SCREEN_BLANKED_WITH_DELAY" without '=' begins with "SCREEN_BLANKED". *)
BlanksAtOnce(line) ==
    \/ line.word = "SCREEN_BLANKED"
    \/ line.word = "SCREEN_BLANKED_WITH_DELAY" /\ line.args = <<>>

(* int arithmetic; QTimer::start() takes no negative interval. *)
Wrapped(n) == ((n - IntMin) % (2 * (IntMax + 1))) + IntMin
Interval(seconds) == Wrapped(ToInt(seconds) * 1000)

(* A plausible slip: the flag is set before the length is looked at. *)
SetExitDelayUnchecked(line) ==
    IF line.word = "EXIT_WITH_DELAY" /\ line.args # <<>>
    THEN /\ exitWithDelay' = TRUE
         /\ IF Len(line.args) = 1
            THEN /\ exitDelay' = Interval(line.args[1])
                 /\ exitTimer' = (exitDelay' >= 0)
            ELSE UNCHANGED <<exitDelay, exitTimer>>
    ELSE UNCHANGED exitVars

SetExitDelay(line) ==
    IF Given(line, "EXIT_WITH_DELAY")
    THEN /\ exitWithDelay' = TRUE
         /\ exitDelay' = Interval(line.args[1])
         /\ exitTimer' = (exitDelay' >= 0)
    ELSE UNCHANGED exitVars

SetScreen(line) ==
    /\ blanked' = CASE BlanksAtOnce(line)              -> TRUE
                     [] line.word = "SCREEN_UNBLANKED" -> FALSE
                     [] OTHER                          -> blanked
    /\ blankTimer' = IF Given(line, "SCREEN_BLANKED_WITH_DELAY")
                     THEN Interval(line.args[1]) >= 0
                     ELSE blankTimer

ForceValue(line) ==
    forcedLoad' = IF Given(line, "CPU_LOAD") THEN ToInt(line.args[1]) ELSE forcedLoad

(* PRESTART: emitted to Daemon::runPrestarts, which ends the program when  *)
(* the configuration cannot be read.                                       *)
RunPrestarts(line, document) ==
    IF Given(line, "PRESTART")
    THEN lastRead' = document /\ config' = ReadConfiguration(config, document)
    ELSE UNCHANGED <<config, lastRead>>

RunPrestartsFails(line, document) == Given(line, "PRESTART") /\ ~CanRead(document)

-----------------------------------------------------------------------------
(* QTextStream *)

Readable == pipe # <<>> \/ closed

Unread == IF buffer = <<>> THEN pipe ELSE buffer

ReadLine ==
    /\ pipe' = IF buffer = <<>> THEN <<>> ELSE pipe
    /\ buffer' = IF Unread = <<>> THEN <<>> ELSE Tail(Unread)
    /\ eof' = (eof \/ (buffer = <<>> /\ closed))

(* A plausible slip: the end of the stream is the end of the device. *)
AtEndOfDevice(unread, met) == met

AtEnd(unread, met) == unread = <<>> /\ met

(* readLine() at the end of the file returns an empty line, which no       *)
(* command matches.                                                        *)
EmptyLine == [word |-> "", args |-> <<>>]
NextLine == IF Unread = <<>> THEN EmptyLine ELSE Head(Unread)

(* readTestData, all of it: one line, then the question for the end. *)
ReadTestData(document) ==
    /\ status = "running" /\ notifier /\ Readable
    /\ RunPrestarts(NextLine, document)
    /\ ReadLine
    /\ SetExitDelay(NextLine)
    /\ SetScreen(NextLine)
    /\ ForceValue(NextLine)
    /\ LET atEnd == AtEnd(buffer', eof')
       IN  /\ notifier' = ~atEnd
           /\ status' = IF RunPrestartsFails(NextLine, document) THEN "failed"
                        ELSE IF IsExit(NextLine) THEN "exit"
                        ELSE IF atEnd /\ ~exitWithDelay' THEN "end"
                        ELSE "running"
    /\ UNCHANGED <<sent, closed>>

(* exitSlot *)
ExitTimeout ==
    /\ status = "running" /\ exitTimer
    /\ exitTimer' = FALSE
    /\ status' = "exit"
    /\ UNCHANGED <<inputVars, streamVars, exitWithDelay, exitDelay, effectVars>>

(* screenBlankWithDelaySlot *)
BlankTimeout ==
    /\ status = "running" /\ blankTimer
    /\ blankTimer' = FALSE
    /\ blanked' = TRUE
    /\ UNCHANGED <<inputVars, streamVars, exitVars, forcedLoad, config, lastRead, status>>

(* The file may hold anything when PRESTART reads it. *)
Contents == IF Given(NextLine, "PRESTART") THEN Documents ELSE {lastRead}

Read == \E document \in Contents : ReadTestData(document)

ConsoleNext ==
    \/ \E line \in Lines : SendLine(line)
    \/ CloseInput
    \/ Read
    \/ ExitTimeout
    \/ BlankTimeout

ConsoleSpec == ConsoleInit /\ [][ConsoleNext]_consoleVars

(* The main loop serves its notifiers and its timers. *)
ConsoleFairSpec ==
    /\ ConsoleSpec
    /\ WF_consoleVars(Read)
    /\ WF_consoleVars(ExitTimeout)

-----------------------------------------------------------------------------
(* Every variable stays in its type. *)
ConsoleTypeOK ==
    /\ pipe \in Seq(Lines) /\ buffer \in Seq(Lines) /\ sent \in 0..MaxLines
    /\ {closed, eof, notifier, exitWithDelay, exitTimer, blankTimer, blanked}
          \subseteq BOOLEAN
    /\ exitDelay \in Ints /\ forcedLoad \in Ints
    /\ config.cpuLoadPollingDelay \in Ints /\ config.rePrestartDelay \in Ints
    /\ \A s \in DOMAIN config.known :
          /\ config.known[s].service = s
          /\ config.known[s].cpuLoadThreshold \in Ints
          /\ config.known[s].rePrestartTrigger \in 0..(2 * IntMax + 1)
          /\ config.known[s].forcedRePrestartNotAllowed \in BOOLEAN
    /\ status \in {"running", "exit", "end", "failed"}

(* A daemon that ends because its input ended has handled every line that  *)
(* was written: none is left in the pipe or in the buffer of the stream    *)
(* (readTestData asks the stream, whose lines may have been read long      *)
(* before, and not the device).                                            *)
EndOnlyAfterLastLine == status = "end" => buffer = <<>> /\ pipe = <<>>

(* The end of the input ends the daemon, at once or when the delay of the  *)
(* last EXIT_WITH_DELAY is over; the exception is a delay the timer does   *)
(* not take, a negative one or one that overflows to it.                   *)
EndOfInputEndsDaemon == closed ~> (status # "running" \/ exitDelay < 0)

(* A daemon that goes on has something to wait for: it listens to its      *)
(* input, or the delay of its end is running.  Only a delay that the timer *)
(* does not take leaves it without either (readTestData, parseLine).       *)
NeverDeaf == status = "running" /\ exitDelay >= 0 => notifier \/ exitTimer

-----------------------------------------------------------------------------
(* What a document says of a service, read off the document as a whole. *)

ElementsOf(document, qName) ==
    {i \in DOMAIN document.elements : document.elements[i].qName = qName}

WellBehaved(document) ==
    /\ document.exists /\ document.wellFormed
    /\ \A i \in ElementsOf(document, "application") :
          {"name", "service"} \subseteq DOMAIN document.elements[i].atts

(* The value of a daemon-wide attribute for what comes before place i. *)
InForce(document, attribute, i, default) ==
    LET places == {j \in ElementsOf(document, "applifed") :
                      j < i /\ Written(document.elements[j].atts, attribute)}
    IN  IF places = {} THEN default
        ELSE ToInt(document.elements[
                CHOOSE j \in places : \A k \in places : k <= j].atts[attribute])

FirstOf(document, service) ==
    CHOOSE i \in ElementsOf(document, "application") :
        /\ document.elements[i].atts["service"] = service
        /\ \A j \in ElementsOf(document, "application") :
              document.elements[j].atts["service"] = service => i <= j

ServicesOf(document) ==
    {document.elements[i].atts["service"] : i \in ElementsOf(document, "application")}

(* The settings of a new application: its own threshold or trigger if it   *)
(* writes one that the code accepts, else the default in force at its      *)
(* element.  A trigger of 0 is left open here: the documentation lets it   *)
(* override (TriggerOverrides below), the code does not.                   *)
WritesZeroTrigger(atts) ==
    Written(atts, "re-prestart_trigger") /\ atts["re-prestart_trigger"] = 0

TakesSettings(app, document) ==
    LET i    == FirstOf(document, app.service)
        atts == document.elements[i].atts
        Effective(attribute, accepted, attributeOfAll, default) ==
            IF Written(atts, attribute) /\ ToInt(atts[attribute]) \in accepted
            THEN ToInt(atts[attribute])
            ELSE InForce(document, attributeOfAll, i, default)
        trigger  == Effective("re-prestart_trigger", 1..IntMax,
                              "default_re-prestart_trigger", 3)
    IN  /\ app.cpuLoadThreshold = Effective("cpu_load_threshold", 0..IntMax,
                                            "default_cpu_load_threshold", 25)
        /\ app.priority = IF Written(atts, "priority") THEN ToInt(atts["priority"]) ELSE 0
        /\ \/ WritesZeroTrigger(atts)
           \/ app.rePrestartTrigger =
                 IF trigger >= 0 THEN trigger ELSE trigger + 2 * (IntMax + 1)
        /\ app.forcedRePrestartNotAllowed <=>
              /\ Written(atts, "forced_re-prestart_not_allowed")
              /\ ToInt(atts["forced_re-prestart_not_allowed"]) > 0

(* A reading takes the document over as a whole or not at all.  The        *)
(* applications known before keep their settings; a new one has those of   *)
(* its first element, each number its own or the default in force there;   *)
(* the delays and the white list become those of this document alone.      *)
TakenOver(document) ==
    /\ \A s \in DOMAIN config.known : config'.known[s] = config.known[s]
    /\ DOMAIN config'.known = DOMAIN config.known \cup ServicesOf(document)
    /\ \A s \in ServicesOf(document) \ DOMAIN config.known :
          TakesSettings(config'.known[s], document)
    /\ LET end == Len(document.elements) + 1
       IN  /\ config'.cpuLoadPollingDelay =
                 InForce(document, "cpu_load_polling_delay", end, 1)
           /\ config'.rePrestartDelay =
                 InForce(document, "re-prestart_delay", end, 10800)
    /\ config'.allowed =
          {document.elements[i].atts["binary_path"] :
              i \in {j \in ElementsOf(document, "allow_lazy_shutdown") :
                        Written(document.elements[j].atts, "binary_path")}}

(* A configuration file that is read in the test mode is taken over as a   *)
(* whole if it is there, well formed and complete, and leaves everything   *)
(* as it was, and ends the daemon, if not (readConfiguration, PRESTART).   *)
ConfigurationTakenOver ==
    [][ReadTestData(lastRead') /\ Given(NextLine, "PRESTART") =>
          IF WellBehaved(lastRead')
          THEN status' # "failed" /\ TakenOver(lastRead')
          ELSE status' = "failed" /\ config' = config]_consoleVars

(* "re-prestart_trigger: Override global default_re-prestart_trigger"      *)
(* (src/README) and "override with custom value if it was set"             *)
(* (startElement): the trigger that an application writes, be it 0, is the *)
(* one in force for it.                                                    *)
TriggerOverrides ==
    [][ReadTestData(lastRead') /\ Given(NextLine, "PRESTART") /\ WellBehaved(lastRead') =>
          \A s \in ServicesOf(lastRead') \ DOMAIN config.known :
             LET atts == lastRead'.elements[FirstOf(lastRead', s)].atts
             IN  Written(atts, "re-prestart_trigger")
                 /\ atts["re-prestart_trigger"] \in 0..IntMax =>
                    config'.known[s].rePrestartTrigger = atts["re-prestart_trigger"]]_consoleVars
=============================================================================
