---------------------------- MODULE MCTestConsole ----------------------------
(***************************************************************************)
(* A small instance of TestConsole: the commands of the console, right and *)
(* wrong, and documents of every kind of element that the parser tells     *)
(* apart.  int has 16 bits, so that a delay of 50 seconds is too long for  *)
(* it.                                                                     *)
(***************************************************************************)
EXTENDS TestConsole

Line(word, args) == [word |-> word, args |-> args]

MCLines ==
    {Line("EXIT", <<>>),
     Line("EXIT_WITH_DELAY", <<50>>), Line("EXIT_WITH_DELAY", <<2>>),
     Line("EXIT_WITH_DELAY", <<2, 2>>),
     Line("SCREEN_BLANKED", <<>>), Line("SCREEN_UNBLANKED", <<>>),
     Line("SCREEN_BLANKED_WITH_DELAY", <<>>),
     Line("SCREEN_BLANKED_WITH_DELAY", <<1>>),
     Line("CPU_LOAD", <<NotANumber>>),
     Line("PRESTART", <<NotANumber>>)}

Applifed(attribute, value) ==
    [qName |-> "applifed",
     atts |-> [a \in {attribute} |-> value]]

App(service, attribute, value) ==
    [qName |-> "application",
     atts |-> [a \in {"name", "service", attribute} |->
                  IF a = attribute THEN value ELSE service]]

Mail == App("mail", "name", "mail")

Applications ==
    {Mail,
     App("mail", "re-prestart_trigger", 0),
     App("mail", "re-prestart_trigger", 7),
     App("mail", "cpu_load_threshold", 0),
     App("mail", "priority", -1),
     App("maps", "forced_re-prestart_not_allowed", 1),
     [qName |-> "application", atts |-> [name |-> "mail"]]}

DefaultTrigger == Applifed("default_re-prestart_trigger", -1)
DefaultThreshold == Applifed("default_cpu_load_threshold", NotANumber)

OtherElements ==
    {DefaultTrigger, DefaultThreshold,
     Applifed("re-prestart_delay", 60),
     [qName |-> "allow_lazy_shutdown", atts |-> [binary_path |-> "/bin/a"]],
     [qName |-> "allow_lazy_shutdown", atts |-> <<>>]}

Document(elements) ==
    [exists |-> TRUE, wellFormed |-> TRUE, elements |-> elements]

MCDocuments ==
    {Document(<<e, a>>) : e \in OtherElements, a \in Applications}
    \cup {Document(<<Mail, DefaultTrigger>>),
          Document(<<Mail, App("mail", "cpu_load_threshold", 0)>>),
          Document(<<Applifed("default_re-prestart_trigger", 9), DefaultTrigger,
                     DefaultThreshold, Mail>>),
          Document(<<[qName |-> "config", atts |-> <<>>]>>),
          [Document(<<Mail>>) EXCEPT !.exists = FALSE],
          [Document(<<Mail>>) EXCEPT !.wellFormed = FALSE]}
=============================================================================
