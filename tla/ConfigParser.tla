---------------------------- MODULE ConfigParser ----------------------------
(***************************************************************************)
(* What a configuration file means: ConfigParser and ConfigData            *)
(* (src/configparser.cpp, src/configdata.cpp) and the take-over of their   *)
(* result by the prestarter (src/prestarter.cpp).                          *)
(*                                                                         *)
(* A document is what the XML reader makes of the file: the sequence of    *)
(* its start tags, and whether the text is well formed.  An element is a   *)
(* record [qName, atts]; the domain of atts is the set of the attributes   *)
(* that are written, a value is a string, an integer, or NotANumber for    *)
(* any text that is none.                                                  *)
(***************************************************************************)
EXTENDS Integers, SequencesExt

CONSTANTS
    IntMax,      \* largest int
    NotANumber   \* a text toInt() cannot convert

ASSUME ConfigAssumption ==
    /\ IntMax \in Nat /\ IntMax >= 10800
    /\ NotANumber \notin Int

IntMin == -IntMax - 1
Ints == IntMin..IntMax

-----------------------------------------------------------------------------
(* QString::toInt(): a text that is no number, or none that fits, is 0. *)
ToInt(text) == IF text \in Ints THEN text ELSE 0

(* A plausible slip: the member is an int as well. *)
KeptSigned(n) == n

(* An int assigned to an unsigned int. *)
ToUnsigned(n) == n % (2 * (IntMax + 1))

Written(atts, attribute) == attribute \in DOMAIN atts

Number(atts, attribute, default) ==
    IF Written(atts, attribute) THEN ToInt(atts[attribute]) ELSE default

-----------------------------------------------------------------------------
(* ConfigData; ok is FALSE once the handler has stopped the parser. *)
NewData ==
    [prestartApps              |-> <<>>,
     allowedApps               |-> {},
     defaultCPULoadThreshold   |-> 25,
     cpuLoadPollingDelay       |-> 1,
     rePrestartDelay           |-> 10800,
     defaultRePrestartTrigger  |-> 3,
     ok                        |-> TRUE]

Defaults(data, atts) ==
    [data EXCEPT
        !.defaultCPULoadThreshold  = Number(atts, "default_cpu_load_threshold", @),
        !.cpuLoadPollingDelay      = Number(atts, "cpu_load_polling_delay", @),
        !.rePrestartDelay          = Number(atts, "re-prestart_delay", @),
        !.defaultRePrestartTrigger = Number(atts, "default_re-prestart_trigger", @)]

AddAllowedLazyShutdownApp(data, atts) ==
    IF Written(atts, "binary_path")
    THEN [data EXCEPT !.allowedApps = @ \cup {atts["binary_path"]}]
    ELSE data

(* A plausible slip: the trigger is set without a look whether one was     *)
(* written, and 0 stays where none was.                                    *)
TriggerUnchecked(trigger, default) == trigger

Trigger(trigger, default) == IF trigger > 0 THEN trigger ELSE default

(* An application gets the defaults in force at its element, overridden by *)
(* what it writes itself.  A threshold of 0 overrides, a trigger of 0 does *)
(* not.                                                                    *)
Settings(data, atts) ==
    LET threshold == Number(atts, "cpu_load_threshold", -1)
        forced    == Number(atts, "forced_re-prestart_not_allowed", -1)
    IN  [service |-> atts["service"],
         priority |-> Number(atts, "priority", 0),
         cpuLoadThreshold |->
            IF threshold > -1 THEN threshold ELSE data.defaultCPULoadThreshold,
         forcedRePrestartNotAllowed |-> forced > 0,
         rePrestartTrigger |->
            ToUnsigned(Trigger(Number(atts, "re-prestart_trigger", 0),
                               data.defaultRePrestartTrigger))]

AddPrestartApp(data, atts) ==
    IF Written(atts, "name") /\ Written(atts, "service")
    THEN [data EXCEPT !.prestartApps = Append(@, Settings(data, atts))]
    ELSE [data EXCEPT !.ok = FALSE]

StartElement(data, element) ==
    IF ~data.ok THEN data
    ELSE CASE element.qName = "applifed"            -> Defaults(data, element.atts)
           [] element.qName = "allow_lazy_shutdown" ->
                 AddAllowedLazyShutdownApp(data, element.atts)
           [] element.qName = "application"         -> AddPrestartApp(data, element.atts)
           [] OTHER                                 -> data

(* The parser reports the elements one by one; text that is not well       *)
(* formed ends the parsing with fatalError.                                *)
Parse(document) ==
    LET data == FoldLeft(StartElement, NewData, document.elements)
    IN  [data EXCEPT !.ok = @ /\ document.wellFormed]

-----------------------------------------------------------------------------
(* What the prestarter keeps of the readings: the settings of the known    *)
(* applications, the two delays and the white list.                        *)
NoConfiguration ==
    [known |-> [s \in {} |-> NewData],
     cpuLoadPollingDelay |-> 0,
     rePrestartDelay |-> 0,
     allowed |-> {}]

(* addPrestartApp: the first application of a service stays. *)
AddKnown(known, app) ==
    IF app.service \in DOMAIN known
    THEN known
    ELSE [s \in DOMAIN known \cup {app.service} |->
            IF s = app.service THEN app ELSE known[s]]

TakeOver(config, data) ==
    [known |-> FoldLeft(AddKnown, config.known, data.prestartApps),
     cpuLoadPollingDelay |-> data.cpuLoadPollingDelay,
     rePrestartDelay |-> data.rePrestartDelay,
     allowed |-> data.allowedApps]

(* A missing file and a parse that fails leave the prestarter as it was. *)
CanRead(document) == document.exists /\ Parse(document).ok

(* A plausible slip: what was parsed until the error is kept. *)
ReadConfigurationPartly(config, document) ==
    IF document.exists THEN TakeOver(config, Parse(document)) ELSE config

ReadConfiguration(config, document) ==
    IF CanRead(document) THEN TakeOver(config, Parse(document)) ELSE config

=============================================================================
