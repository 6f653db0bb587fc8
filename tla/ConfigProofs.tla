---------------------------- MODULE ConfigProofs ----------------------------
(***************************************************************************)
(* What the parser and the prestarter make of a configuration file of any  *)
(* length, element by element (ConfigParser::startElement,                 *)
(* Prestarter::addPrestartApp).                                            *)
(*                                                                         *)
(* Both walk through a list, so both are folds, and what a fold computes   *)
(* needs induction.  The induction of the library takes a predicate as its *)
(* parameter; here it is restated for sets of numbers, from the fact that  *)
(* the natural numbers are well founded.                                   *)
(***************************************************************************)
EXTENDS TestConsole, WellFoundedInduction, TLAPS

-----------------------------------------------------------------------------
(* Induction over an interval. *)

Before == {p \in Nat \X Nat : p[1] < p[2]}

LEMMA LeastNatural ==
  ASSUME NEW T \in SUBSET Nat, T # {}
  PROVE  \E x \in T : \A y \in T : x <= y
<1>1. IsWellFoundedOn(Before, Nat)
  BY NatLessThanWellFounded, Zenon DEF OpToRel, Before
<1>2. PICK x \in T : \A y \in T : ~ (<<y, x>> \in Before)
  BY <1>1, WFMin
<1>3. ASSUME NEW y \in T PROVE x <= y
  <2>1. x \in Nat /\ y \in Nat
    OBVIOUS
  <2>2. <<y, x>> \in Nat \X Nat /\ <<y, x>>[1] = y /\ <<y, x>>[2] = x
    BY <2>1
  <2>3. ~(y < x)
    BY <1>2, <2>2 DEF Before
  <2>4. QED  BY <2>1, <2>3
<1>4. QED  BY <1>3

LEMMA Induction ==
  ASSUME NEW n \in Nat, NEW S, 0 \in S, \A k \in 0..(n - 1) : k \in S => k + 1 \in S
  PROVE  \A k \in 0..n : k \in S
<1> DEFINE T == {k \in 0..n : k \notin S}
<1>1. SUFFICES ASSUME T # {} PROVE FALSE
  OBVIOUS
<1>2. T \in SUBSET Nat
  OBVIOUS
<1>3. PICK k \in T : \A i \in T : k <= i
  <2> HIDE DEF T
  <2>1. QED  BY <1>1, <1>2, LeastNatural
<1>4. k \in 0..n /\ k # 0 /\ k \notin S
  OBVIOUS
<1>5. k - 1 \in 0..(n - 1) /\ k - 1 \in 0..n /\ ~(k <= k - 1)
  BY <1>4
<1>6. k - 1 \in S
  BY <1>3, <1>5
<1>7. (k - 1) + 1 \in S
  BY <1>5, <1>6
<1>8. (k - 1) + 1 = k
  BY <1>4
<1>9. QED  BY <1>4, <1>7, <1>8

LEMMA MaxOf ==
  ASSUME NEW s \in SUBSET Int, NEW m \in s, \A i \in s : i <= m
  PROVE  Max(s) = m
<1>1. \A y \in s : m >= y
  OBVIOUS
<1>2. Max(s) \in s /\ \A y \in s : Max(s) >= y
  BY <1>1, Zenon DEF Max
<1>3. Max(s) \in Int /\ m \in Int /\ Max(s) >= m /\ Max(s) <= m
  BY <1>2
<1>4. QED  BY <1>3

LEMMA MaxExists ==
  ASSUME NEW n \in Nat, NEW s \in SUBSET (1..n), s # {}
  PROVE  Max(s) \in s /\ \A i \in s : i <= Max(s)
<1> DEFINE T == {n - i : i \in s}
<1>1. T \in SUBSET Nat
  <2>1. \A i \in s : i \in 1..n
    OBVIOUS
  <2>2. \A i \in 1..n : n - i \in Nat
    OBVIOUS
  <2>3. QED  BY <2>1, <2>2
<1>2. T # {}
  OBVIOUS
<1>3. PICK x \in T : \A y \in T : x <= y
  <2> HIDE DEF T
  <2>1. QED  BY <1>1, <1>2, LeastNatural
<1>4. PICK m \in s : x = n - m
  OBVIOUS
<1>5. \A i \in s : i <= m
  <2>1. SUFFICES ASSUME NEW i \in s PROVE i <= m
    OBVIOUS
  <2>2. n - i \in T
    OBVIOUS
  <2>3. x <= n - i
    BY <1>3, <2>2
  <2>4. i \in Int /\ m \in Int
    OBVIOUS
  <2>5. QED  BY <1>4, <2>3, <2>4
<1>6. s \in SUBSET Int
  OBVIOUS
<1>7. Max(s) = m
  BY <1>5, <1>6, MaxOf
<1>8. QED  BY <1>5, <1>7

-----------------------------------------------------------------------------
(* The folds.  Put is the step of either of them.  FoldLeft is defined by  *)
(* a function on the sets of places; Walk says what that function          *)
(* satisfies, and it exists for every list.                                *)

Put(which, value, item) ==
    IF which = "element" THEN StartElement(value, item) ELSE AddKnown(value, item)

Walk(which, base, items, D, it) ==
    it = [s \in SUBSET D |->
            IF s = {} THEN base
            ELSE Put(which, it[s \ {Max(s)}], items[Max(s)])]

LEMMA WalkGrows ==
  ASSUME NEW which, NEW base, NEW items, NEW k \in Nat, NEW g,
         Walk(which, base, items, 1..k, g)
  PROVE  \E h : Walk(which, base, items, 1..(k + 1), h)
<1> DEFINE h == [s \in SUBSET (1..(k + 1)) |->
                   IF k + 1 \in s
                   THEN Put(which, g[s \ {k + 1}], items[k + 1])
                   ELSE g[s]]
<1>1. ASSUME NEW s \in SUBSET (1..(k + 1)), s # {}, k + 1 \in s
      PROVE  h[s] = Put(which, h[s \ {Max(s)}], items[Max(s)])
  <2>1. Max(s) = k + 1
    <3>1. s \in SUBSET Int /\ \A i \in s : i <= k + 1
      OBVIOUS
    <3>2. QED  BY <1>1, <3>1, MaxOf
  <2>2. s \ {k + 1} \in SUBSET (1..(k + 1)) /\ k + 1 \notin s \ {k + 1}
    OBVIOUS
  <2>3. h[s \ {k + 1}] = g[s \ {k + 1}]
    BY <2>2
  <2>4. h[s] = Put(which, g[s \ {k + 1}], items[k + 1])
    BY <1>1
  <2>5. QED  BY <2>1, <2>3, <2>4
<1>2. ASSUME NEW s \in SUBSET (1..(k + 1)), s # {}, k + 1 \notin s
      PROVE  h[s] = Put(which, h[s \ {Max(s)}], items[Max(s)])
  <2>1. s \in SUBSET (1..k)
    BY <1>2
  <2>2. Max(s) \in s
    BY <1>2, <2>1, MaxExists
  <2>3. g[s] = Put(which, g[s \ {Max(s)}], items[Max(s)])
    BY <1>2, <2>1, Zenon DEF Walk
  <2>4. s \ {Max(s)} \in SUBSET (1..(k + 1)) /\ k + 1 \notin s \ {Max(s)}
    BY <1>2
  <2>5. h[s] = g[s] /\ h[s \ {Max(s)}] = g[s \ {Max(s)}]
    BY <1>2, <2>4
  <2>6. QED  BY <2>3, <2>5
<1>3. h[{}] = base
  <2>1. {} \in SUBSET (1..(k + 1)) /\ k + 1 \notin {} /\ {} \in SUBSET (1..k)
    OBVIOUS
  <2>2. g[{}] = base
    BY <2>1, Zenon DEF Walk
  <2>3. QED  BY <2>1, <2>2
<1>4. h = [s \in SUBSET (1..(k + 1)) |->
              IF s = {} THEN base
              ELSE Put(which, h[s \ {Max(s)}], items[Max(s)])]
  <2>1. ASSUME NEW s \in SUBSET (1..(k + 1))
        PROVE  h[s] = IF s = {} THEN base
                      ELSE Put(which, h[s \ {Max(s)}], items[Max(s)])
    <3> HIDE DEF h
    <3>1. QED  BY <1>1, <1>2, <1>3, Zenon
  <2>2. h = [s \in SUBSET (1..(k + 1)) |-> h[s]]
    OBVIOUS
  <2> HIDE DEF h
  <2>3. QED  BY <2>1, <2>2, Zenon
<1>5. QED  BY <1>4, Zenon DEF Walk

LEMMA WalkExists ==
  ASSUME NEW which, NEW base, NEW items, NEW n \in Nat
  PROVE  \E it : Walk(which, base, items, 1..n, it)
<1> DEFINE S == {k \in 0..n : \E it : Walk(which, base, items, 1..k, it)}
<1>1. 0 \in S
  <2> DEFINE g == [s \in SUBSET (1..0) |-> base]
  <2>1. g = [s \in SUBSET (1..0) |->
              IF s = {} THEN base ELSE Put(which, g[s \ {Max(s)}], items[Max(s)])]
    <3>1. \A s \in SUBSET (1..0) : s = {}
      OBVIOUS
    <3>2. QED  BY <3>1, Zenon
  <2>2. \E it : Walk(which, base, items, 1..0, it)
    BY <2>1, Zenon DEF Walk
  <2>3. 0 \in 0..n
    OBVIOUS
  <2>4. QED  BY <2>2, <2>3
<1>2. ASSUME NEW k \in 0..(n - 1), k \in S PROVE k + 1 \in S
  <2>1. k \in Nat /\ k + 1 \in 0..n
    OBVIOUS
  <2>2. PICK g : Walk(which, base, items, 1..k, g)
    BY <1>2
  <2>3. \E h : Walk(which, base, items, 1..(k + 1), h)
    BY <2>1, <2>2, WalkGrows
  <2>4. QED  BY <2>1, <2>3
<1>3. \A k \in 0..n : k \in S
  <2> HIDE DEF S
  <2>1. QED  BY <1>1, <1>2, Induction
<1>4. n \in 0..n
  OBVIOUS
<1>5. QED  BY <1>3, <1>4

(* What the fold has computed after each item. *)
Folded(which, base, items, values) ==
    /\ values[0] = base
    /\ \A k \in 1..Len(items) : values[k] = Put(which, values[k - 1], items[k])

IsList(items) == Len(items) \in Nat /\ DOMAIN items = 1..Len(items)

LEMMA WalkSteps ==
  ASSUME NEW which, NEW base, NEW items, IsList(items), NEW it,
         Walk(which, base, items, DOMAIN items, it)
  PROVE  \E values : /\ Folded(which, base, items, values)
                     /\ it[DOMAIN items] = values[Len(items)]
<1> DEFINE n == Len(items)
           values == [k \in 0..n |-> it[1..k]]
<1>1. n \in Nat /\ DOMAIN items = 1..n
  BY DEF IsList
<1> HIDE DEF n
<1>2. values[0] = base
  <2>1. 0 \in 0..n /\ 1..0 = {} /\ {} \in SUBSET (1..n)
    BY <1>1
  <2>2. it[{}] = base
    BY <1>1, <2>1, Zenon DEF Walk
  <2>3. QED  BY <2>1, <2>2
<1>3. ASSUME NEW k \in 1..n
      PROVE  values[k] = Put(which, values[k - 1], items[k])
  <2>1. k \in 0..n /\ k - 1 \in 0..n /\ k \in Int /\ k \in 1..k
    BY <1>1
  <2>2. 1..k \in SUBSET (1..n) /\ 1..k # {}
    <3>1. 1..k # {}
      BY <2>1
    <3>2. \A i \in 1..k : i \in 1..n
      BY <1>1
    <3>3. QED  BY <3>1, <3>2
  <2>3. Max(1..k) = k
    <3>1. 1..k \in SUBSET Int /\ \A i \in 1..k : i <= k
      BY <2>1
    <3>2. QED  BY <2>1, <3>1, MaxOf
  <2>4. it[1..k] = Put(which, it[(1..k) \ {Max(1..k)}], items[Max(1..k)])
    BY <1>1, <2>2, Zenon DEF Walk
  <2>5. (1..k) \ {k} = 1..(k - 1)
    BY <2>1
  <2>6. it[1..k] = Put(which, it[1..(k - 1)], items[k])
    BY <2>3, <2>4, <2>5
  <2>7. values[k] = it[1..k] /\ values[k - 1] = it[1..(k - 1)]
    BY <2>1
  <2>8. QED  BY <2>6, <2>7
<1>4. values[n] = it[DOMAIN items]
  BY <1>1
<1>5. QED
  <2> HIDE DEF values
  <2>1. Folded(which, base, items, values)
    BY <1>2, <1>3 DEF Folded, n
  <2>2. QED  BY <1>4, <2>1 DEF n

(* The parser: what it has after each element. *)
LEMMA ElementsFolded ==
  ASSUME NEW elements, IsList(elements)
  PROVE  \E data : /\ Folded("element", NewData, elements, data)
                   /\ FoldLeft(StartElement, NewData, elements) = data[Len(elements)]
<1> DEFINE it == CHOOSE f : f = [s \in SUBSET DOMAIN elements |->
                                   IF s = {} THEN NewData
                                   ELSE StartElement(f[s \ {Max(s)}], elements[Max(s)])]
<1>1. \E f : Walk("element", NewData, elements, DOMAIN elements, f)
  BY WalkExists DEF IsList
<1>2. Walk("element", NewData, elements, DOMAIN elements, it)
  BY <1>1, Zenon DEF Walk, Put
<1>3. FoldLeft(StartElement, NewData, elements) = it[DOMAIN elements]
  BY Zenon DEF FoldLeft, MapThenFoldSet
<1> HIDE DEF it
<1>4. QED  BY <1>2, <1>3, WalkSteps

(* The prestarter: what it knows after each application. *)
LEMMA ApplicationsFolded ==
  ASSUME NEW known, NEW list, IsList(list)
  PROVE  \E after : /\ Folded("application", known, list, after)
                    /\ FoldLeft(AddKnown, known, list) = after[Len(list)]
<1> DEFINE it == CHOOSE f : f = [s \in SUBSET DOMAIN list |->
                                   IF s = {} THEN known
                                   ELSE AddKnown(f[s \ {Max(s)}], list[Max(s)])]
<1>1. \E f : Walk("application", known, list, DOMAIN list, f)
  BY WalkExists DEF IsList
<1>2. Walk("application", known, list, DOMAIN list, it)
  BY <1>1, Zenon DEF Walk, Put
<1>3. FoldLeft(AddKnown, known, list) = it[DOMAIN list]
  BY Zenon DEF FoldLeft, MapThenFoldSet
<1> HIDE DEF it
<1>4. QED  BY <1>2, <1>3, WalkSteps

-----------------------------------------------------------------------------
(* The types of what the parser collects. *)

ServicesNamed(elements) == {elements[i].atts["service"] : i \in DOMAIN elements}
PathsNamed(elements) == {elements[i].atts["binary_path"] : i \in DOMAIN elements}

SettingsOf(services) ==
    [service : services, priority : Ints, cpuLoadThreshold : Ints,
     forcedRePrestartNotAllowed : BOOLEAN, rePrestartTrigger : 0..(2 * IntMax + 1)]

DataOf(elements) ==
    [prestartApps : Seq(SettingsOf(ServicesNamed(elements))),
     allowedApps : SUBSET PathsNamed(elements),
     defaultCPULoadThreshold : Ints, cpuLoadPollingDelay : Ints,
     rePrestartDelay : Ints, defaultRePrestartTrigger : Ints, ok : BOOLEAN]

(* 0, the defaults and -1 fit an int, and so does every number that is read. *)
LEMMA IntsFit == {-1, 0, 1, 3, 25, 10800} \subseteq Ints /\ Ints \subseteq Int
  BY ConfigAssumption DEF Ints, IntMin

LEMMA NumberFits ==
  ASSUME NEW atts, NEW attribute, NEW default \in Ints
  PROVE  Number(atts, attribute, default) \in Ints
  BY IntsFit DEF Number, ToInt

(* What storing an int as unsigned does to it. *)
LEMMA Remainder ==
  ASSUME NEW n \in Int, NEW w \in Int, w > 0, -w < n, n < w
  PROVE  n % w = IF n >= 0 THEN n ELSE n + w
<1> DEFINE q == n \div w
           r == n % w
<1>1. q \in Int /\ r \in Int /\ n = w * q + r /\ 0 <= r /\ r < w
  OBVIOUS
<1> HIDE DEF q, r
<1>2. q < 1
  <2> SUFFICES ASSUME q >= 1 PROVE FALSE
    BY <1>1
  <2>1. w * q >= w
    BY <1>1
  <2>2. QED  BY <1>1, <2>1
<1>3. q > -2
  <2> SUFFICES ASSUME q <= -2 PROVE FALSE
    BY <1>1
  <2>1. w * q <= w * (-2)
    BY <1>1
  <2>2. QED  BY <1>1, <2>1
<1>4. q = 0 \/ q = -1
  BY <1>1, <1>2, <1>3
<1>5. r = IF n >= 0 THEN n ELSE n + w
  BY <1>1, <1>4
<1>6. QED  BY <1>5 DEF r

LEMMA Unsigned ==
  ASSUME NEW n \in Ints
  PROVE  /\ ToUnsigned(n) \in 0..(2 * IntMax + 1)
         /\ ToUnsigned(n) = IF n >= 0 THEN n ELSE n + 2 * (IntMax + 1)
<1> DEFINE w == 2 * (IntMax + 1)
<1>1. /\ IntMax \in Nat /\ n \in Int /\ -(IntMax + 1) <= n /\ n <= IntMax
      /\ w \in Int /\ w > 0 /\ -w < n /\ n < w
  BY ConfigAssumption DEF Ints, IntMin
<1>2. ToUnsigned(n) = IF n >= 0 THEN n ELSE n + w
  <2>1. ToUnsigned(n) = n % w
    BY DEF ToUnsigned
  <2> HIDE DEF w
  <2>2. QED  BY <1>1, <2>1, Remainder
<1>3. ToUnsigned(n) \in 0..(2 * IntMax + 1)
  <2>1. CASE n >= 0
    BY <1>1, <1>2, <2>1
  <2>2. CASE ~(n >= 0)
    BY <1>1, <1>2, <2>2
  <2>3. QED  BY <2>1, <2>2
<1>4. QED  BY <1>2, <1>3

LEMMA SettingsTyped ==
  ASSUME NEW elements, NEW k \in DOMAIN elements, NEW d \in DataOf(elements)
  PROVE  Settings(d, elements[k].atts) \in SettingsOf(ServicesNamed(elements))
<1> DEFINE atts == elements[k].atts
           threshold == Number(atts, "cpu_load_threshold", -1)
           trigger == Trigger(Number(atts, "re-prestart_trigger", 0),
                              d.defaultRePrestartTrigger)
<1>1. atts["service"] \in ServicesNamed(elements)
  BY DEF ServicesNamed
<1>2. Number(atts, "priority", 0) \in Ints /\ threshold \in Ints
      /\ Number(atts, "re-prestart_trigger", 0) \in Ints
      /\ Number(atts, "forced_re-prestart_not_allowed", -1) \in Ints
  BY NumberFits, IntsFit
<1>3. d.defaultCPULoadThreshold \in Ints /\ d.defaultRePrestartTrigger \in Ints
  BY DEF DataOf
<1>4. trigger \in Ints
  BY <1>2, <1>3 DEF Trigger
<1>5. ToUnsigned(trigger) \in 0..(2 * IntMax + 1)
  BY <1>4, Unsigned
<1>6. (IF threshold > -1 THEN threshold ELSE d.defaultCPULoadThreshold) \in Ints
  BY <1>2, <1>3
<1>7. (Number(atts, "forced_re-prestart_not_allowed", -1) > 0) \in BOOLEAN
  OBVIOUS
<1> HIDE DEF atts, threshold, trigger
<1>8. QED  BY <1>1, <1>2, <1>5, <1>6, <1>7 DEF Settings, SettingsOf, atts, threshold, trigger

LEMMA NewDataTyped == ASSUME NEW elements PROVE NewData \in DataOf(elements)
  BY IntsFit DEF NewData, DataOf

LEMMA StartElementTyped ==
  ASSUME NEW elements, NEW k \in DOMAIN elements, NEW d \in DataOf(elements)
  PROVE  StartElement(d, elements[k]) \in DataOf(elements)
<1> DEFINE atts == elements[k].atts
<1>1. Defaults(d, atts) \in DataOf(elements)
  <2>1. /\ Number(atts, "default_cpu_load_threshold", d.defaultCPULoadThreshold) \in Ints
        /\ Number(atts, "cpu_load_polling_delay", d.cpuLoadPollingDelay) \in Ints
        /\ Number(atts, "re-prestart_delay", d.rePrestartDelay) \in Ints
        /\ Number(atts, "default_re-prestart_trigger", d.defaultRePrestartTrigger) \in Ints
    BY NumberFits DEF DataOf
  <2>2. QED  BY <2>1 DEF Defaults, DataOf
<1>2. AddAllowedLazyShutdownApp(d, atts) \in DataOf(elements)
  <2>1. atts["binary_path"] \in PathsNamed(elements)
    BY DEF PathsNamed
  <2>2. QED  BY <2>1 DEF AddAllowedLazyShutdownApp, DataOf
<1>3. AddPrestartApp(d, atts) \in DataOf(elements)
  <2>1. Settings(d, atts) \in SettingsOf(ServicesNamed(elements))
    BY SettingsTyped
  <2>2. CASE Written(atts, "name") /\ Written(atts, "service")
    <3> HIDE DEF atts
    <3>1. Append(d.prestartApps, Settings(d, atts))
            \in Seq(SettingsOf(ServicesNamed(elements)))
      BY <2>1 DEF DataOf
    <3>2. AddPrestartApp(d, atts) =
            [d EXCEPT !.prestartApps = Append(d.prestartApps, Settings(d, atts))]
      BY <2>2 DEF AddPrestartApp
    <3>3. QED  BY <3>1, <3>2 DEF DataOf
  <2>3. CASE ~(Written(atts, "name") /\ Written(atts, "service"))
    BY <2>3 DEF AddPrestartApp, DataOf
  <2>4. QED  BY <2>2, <2>3
<1>4. QED  BY <1>1, <1>2, <1>3 DEF StartElement

-----------------------------------------------------------------------------
(* One element. *)

LEMMA StartElementOk ==
  ASSUME NEW elements, NEW k \in DOMAIN elements, NEW d \in DataOf(elements)
  PROVE  StartElement(d, elements[k]).ok
           <=> d.ok /\ (elements[k].qName = "application" =>
                          {"name", "service"} \subseteq DOMAIN elements[k].atts)
<1> DEFINE e == elements[k]
<1>1. CASE ~d.ok
  <2>1. StartElement(d, e) = d
    BY <1>1 DEF StartElement
  <2>2. QED  BY <1>1, <2>1
<1>2. CASE d.ok /\ e.qName = "application"
  <2>1. StartElement(d, e) = AddPrestartApp(d, e.atts)
    BY <1>2 DEF StartElement
  <2>2. CASE {"name", "service"} \subseteq DOMAIN e.atts
    BY <1>2, <2>1, <2>2 DEF AddPrestartApp, Written, DataOf
  <2>3. CASE ~({"name", "service"} \subseteq DOMAIN e.atts)
    <3>1. ~(Written(e.atts, "name") /\ Written(e.atts, "service"))
      BY <2>3 DEF Written
    <3>2. AddPrestartApp(d, e.atts) = [d EXCEPT !.ok = FALSE]
      BY <3>1 DEF AddPrestartApp
    <3>3. ~AddPrestartApp(d, e.atts).ok
      BY <3>2 DEF DataOf
    <3>4. QED  BY <1>2, <2>1, <2>3, <3>3
  <2>4. QED  BY <2>2, <2>3
<1>3. CASE d.ok /\ e.qName # "application"
  <2>1. Defaults(d, e.atts).ok = d.ok
    BY DEF Defaults, DataOf
  <2>2. AddAllowedLazyShutdownApp(d, e.atts).ok = d.ok
    BY DEF AddAllowedLazyShutdownApp, DataOf
  <2>3. QED  BY <1>3, <2>1, <2>2 DEF StartElement
<1>4. QED  BY <1>1, <1>2, <1>3

LEMMA StartElementApps ==
  ASSUME NEW elements, NEW k \in DOMAIN elements, NEW d \in DataOf(elements),
         StartElement(d, elements[k]).ok
  PROVE  StartElement(d, elements[k]).prestartApps =
           IF elements[k].qName = "application"
           THEN Append(d.prestartApps, Settings(d, elements[k].atts))
           ELSE d.prestartApps
<1> DEFINE e == elements[k]
<1>1. d.ok
  BY StartElementOk
<1>2. CASE e.qName = "application"
  <2>1. Written(e.atts, "name") /\ Written(e.atts, "service")
    BY <1>2, StartElementOk DEF Written
  <2>2. StartElement(d, e) = AddPrestartApp(d, e.atts)
    BY <1>1, <1>2 DEF StartElement
  <2>3. QED  BY <1>2, <2>1, <2>2 DEF AddPrestartApp, DataOf
<1>3. CASE e.qName # "application"
  <2>1. Defaults(d, e.atts).prestartApps = d.prestartApps
    BY DEF Defaults, DataOf
  <2>2. AddAllowedLazyShutdownApp(d, e.atts).prestartApps = d.prestartApps
    BY DEF AddAllowedLazyShutdownApp, DataOf
  <2>3. QED  BY <1>1, <1>3, <2>1, <2>2 DEF StartElement
<1>4. QED  BY <1>2, <1>3

(* The value an attribute of the whole daemon has after an element. *)
Latest(element, attribute, before) ==
    IF element.qName = "applifed" /\ Written(element.atts, attribute)
    THEN ToInt(element.atts[attribute])
    ELSE before

LEMMA StartElementDefaults ==
  ASSUME NEW elements, NEW k \in DOMAIN elements, NEW d \in DataOf(elements), d.ok
  PROVE  LET e == elements[k]
             after == StartElement(d, e)
         IN  /\ after.defaultCPULoadThreshold =
                   Latest(e, "default_cpu_load_threshold", d.defaultCPULoadThreshold)
             /\ after.cpuLoadPollingDelay =
                   Latest(e, "cpu_load_polling_delay", d.cpuLoadPollingDelay)
             /\ after.rePrestartDelay =
                   Latest(e, "re-prestart_delay", d.rePrestartDelay)
             /\ after.defaultRePrestartTrigger =
                   Latest(e, "default_re-prestart_trigger", d.defaultRePrestartTrigger)
<1> DEFINE e == elements[k]
<1>1. CASE e.qName = "applifed"
  <2>1. StartElement(d, e) = Defaults(d, e.atts)
    BY <1>1 DEF StartElement
  <2>2. QED  BY <1>1, <2>1 DEF Latest, Defaults, Number, DataOf
<1>2. CASE e.qName = "application"
  <2>1. StartElement(d, e) = AddPrestartApp(d, e.atts)
    BY <1>2 DEF StartElement
  <2>2. QED  BY <1>2, <2>1 DEF Latest, AddPrestartApp, DataOf
<1>3. CASE e.qName \notin {"applifed", "application"}
  <2>1. StartElement(d, e) = d \/ StartElement(d, e) = AddAllowedLazyShutdownApp(d, e.atts)
    BY <1>3 DEF StartElement
  <2>2. QED  BY <1>3, <2>1 DEF Latest, AddAllowedLazyShutdownApp, DataOf
<1>4. QED  BY <1>1, <1>2, <1>3

LEMMA StartElementAllowed ==
  ASSUME NEW elements, NEW k \in DOMAIN elements, NEW d \in DataOf(elements), d.ok
  PROVE  StartElement(d, elements[k]).allowedApps =
           IF elements[k].qName = "allow_lazy_shutdown"
              /\ Written(elements[k].atts, "binary_path")
           THEN d.allowedApps \cup {elements[k].atts["binary_path"]}
           ELSE d.allowedApps
<1> DEFINE e == elements[k]
<1>1. CASE e.qName = "allow_lazy_shutdown"
  <2>1. StartElement(d, e) = AddAllowedLazyShutdownApp(d, e.atts)
    BY <1>1 DEF StartElement
  <2>2. QED  BY <1>1, <2>1 DEF AddAllowedLazyShutdownApp, DataOf
<1>2. CASE e.qName # "allow_lazy_shutdown"
  <2>1. \/ StartElement(d, e) = d
        \/ StartElement(d, e) = Defaults(d, e.atts)
        \/ StartElement(d, e) = AddPrestartApp(d, e.atts)
    BY <1>2 DEF StartElement
  <2>2. QED  BY <1>2, <2>1 DEF Defaults, AddPrestartApp, DataOf
<1>3. QED  BY <1>1, <1>2

(* The latest element that writes an attribute of the whole daemon is the  *)
(* one in force.                                                           *)
LEMMA InForceAfter ==
  ASSUME NEW document, NEW attribute, NEW default,
         IsList(document.elements), NEW k \in DOMAIN document.elements
  PROVE  InForce(document, attribute, k + 1, default) =
           Latest(document.elements[k], attribute,
                  InForce(document, attribute, k, default))
<1> DEFINE elements == document.elements
           Places(i) == {j \in ElementsOf(document, "applifed") :
                           j < i /\ Written(elements[j].atts, attribute)}
<1>1. k \in Int /\ DOMAIN elements \subseteq Int
  BY DEF IsList
<1>2. CASE elements[k].qName = "applifed" /\ Written(elements[k].atts, attribute)
  <2>1. k \in Places(k + 1) /\ \A j \in Places(k + 1) : j \in Int /\ j <= k
    <3>1. k < k + 1 /\ \A j \in Int : j < k + 1 => j <= k
      BY <1>1
    <3>2. k \in Places(k + 1)
      BY <1>2, <3>1 DEF ElementsOf
    <3>3. ASSUME NEW j \in Places(k + 1) PROVE j \in Int /\ j <= k
      BY <1>1, <3>1 DEF ElementsOf
    <3>4. QED  BY <3>2, <3>3
  <2>2. (CHOOSE j \in Places(k + 1) : \A i \in Places(k + 1) : i <= j) = k
    <3> DEFINE P == Places(k + 1)
               m == CHOOSE j \in P : \A i \in P : i <= j
    <3>1. k \in P /\ \A i \in P : i \in Int /\ i <= k
      BY <2>1
    <3> HIDE DEF P
    <3>2. m \in P /\ \A i \in P : i <= m
      BY <3>1, Zenon
    <3>3. k <= m /\ m <= k /\ m \in Int
      BY <3>1, <3>2
    <3> HIDE DEF m
    <3>4. m = k
      BY <1>1, <3>3
    <3>5. QED  BY <3>4 DEF m, P
  <2>3. Places(k + 1) # {}
    BY <2>1
  <2>4. InForce(document, attribute, k + 1, default) = ToInt(elements[k].atts[attribute])
    BY <2>2, <2>3, Zenon DEF InForce
  <2>5. QED  BY <1>2, <2>4 DEF Latest
<1>3. CASE ~(elements[k].qName = "applifed" /\ Written(elements[k].atts, attribute))
  <2>1. Places(k + 1) = Places(k)
    <3>1. \A j \in Int : j < k + 1 <=> j < k \/ j = k
      BY <1>1
    <3>2. \A j \in ElementsOf(document, "applifed") : j \in Int
      BY <1>1 DEF ElementsOf
    <3>3. k \in ElementsOf(document, "applifed") => ~Written(elements[k].atts, attribute)
      BY <1>3 DEF ElementsOf
    <3>4. QED  BY <3>1, <3>2, <3>3
  <2> DEFINE Value(P) == IF P = {} THEN default
                         ELSE ToInt(elements[CHOOSE j \in P : \A i \in P : i <= j].atts[attribute])
  <2>2. InForce(document, attribute, k + 1, default) = InForce(document, attribute, k, default)
    <3>1. InForce(document, attribute, k + 1, default) = Value(Places(k + 1))
      BY Zenon DEF InForce
    <3>2. InForce(document, attribute, k, default) = Value(Places(k))
      BY Zenon DEF InForce
    <3> HIDE DEF Value, Places
    <3>3. QED  BY <2>1, <3>1, <3>2, Zenon
  <2>3. QED  BY <1>3, <2>2 DEF Latest
<1>4. QED  BY <1>2, <1>3

LEMMA InForceAtFirst ==
  ASSUME NEW document, NEW attribute, NEW default, IsList(document.elements)
  PROVE  InForce(document, attribute, 1, default) = default
<1>1. {j \in ElementsOf(document, "applifed") :
          j < 1 /\ Written(document.elements[j].atts, attribute)} = {}
  BY DEF ElementsOf, IsList
<1>2. QED  BY <1>1, Zenon DEF InForce

-----------------------------------------------------------------------------
(* All elements up to a place.  data[k] is what the parser has after the   *)
(* first k elements of the document.                                       *)

Parsing(document, data) ==
    /\ IsList(document.elements)
    /\ Folded("element", NewData, document.elements, data)

LEMMA ParsingStep ==
  ASSUME NEW document, NEW data, Parsing(document, data)
  PROVE  /\ data[0] = NewData
         /\ Len(document.elements) \in Nat
         /\ DOMAIN document.elements = 1..Len(document.elements)
         /\ \A k \in 0..(Len(document.elements) - 1) :
               /\ k + 1 \in DOMAIN document.elements
               /\ data[k + 1] = StartElement(data[k], document.elements[k + 1])
<1> DEFINE n == Len(document.elements)
<1>1. data[0] = NewData /\ n \in Nat /\ DOMAIN document.elements = 1..n
  BY DEF Parsing, Folded, IsList
<1>2. ASSUME NEW k \in 0..(n - 1)
      PROVE  /\ k + 1 \in DOMAIN document.elements
             /\ data[k + 1] = StartElement(data[k], document.elements[k + 1])
  <2>1. k + 1 \in 1..n /\ (k + 1) - 1 = k
    BY <1>1
  <2>2. data[k + 1] = Put("element", data[(k + 1) - 1], document.elements[k + 1])
    BY <2>1 DEF Parsing, Folded
  <2>3. QED  BY <1>1, <2>1, <2>2 DEF Put
<1>3. QED  BY <1>1, <1>2

LEMMA ParsingTyped ==
  ASSUME NEW document, NEW data, Parsing(document, data)
  PROVE  \A k \in 0..Len(document.elements) : data[k] \in DataOf(document.elements)
<1> DEFINE n == Len(document.elements)
           S == {k \in 0..n : data[k] \in DataOf(document.elements)}
<1>1. n \in Nat /\ 0 \in 0..n
  BY ParsingStep
<1>2. 0 \in S
  BY <1>1, ParsingStep, NewDataTyped
<1>3. ASSUME NEW k \in 0..(n - 1), k \in S PROVE k + 1 \in S
  <2>1. k + 1 \in 0..n
    BY <1>1
  <2>2. data[k + 1] \in DataOf(document.elements)
    BY <1>3, ParsingStep, StartElementTyped
  <2>3. QED  BY <2>1, <2>2
<1>4. \A k \in 0..n : k \in S
  <2> HIDE DEF S, n
  <2>1. QED  BY <1>1, <1>2, <1>3, Induction
<1>5. QED  BY <1>4

(* The parser goes on exactly as long as every application has its name    *)
(* and its service.                                                        *)
Complete(element) == {"name", "service"} \subseteq DOMAIN element.atts

LEMMA ParsingOk ==
  ASSUME NEW document, NEW data, Parsing(document, data)
  PROVE  \A k \in 0..Len(document.elements) :
           data[k].ok <=> \A i \in ElementsOf(document, "application") :
                             i <= k => Complete(document.elements[i])
<1> DEFINE elements == document.elements
           n == Len(elements)
           CompleteTo(k) == \A i \in ElementsOf(document, "application") :
                               i <= k => Complete(elements[i])
           S == {k \in 0..n : data[k].ok <=> CompleteTo(k)}
<1>1. n \in Nat /\ 0 \in 0..n /\ ElementsOf(document, "application") \subseteq 1..n
  BY ParsingStep DEF ElementsOf
<1>2. 0 \in S
  <2>1. \A i \in 1..n : ~(i <= 0)
    BY <1>1
  <2>2. CompleteTo(0)
    BY <1>1, <2>1
  <2>3. data[0].ok
    BY ParsingStep DEF NewData
  <2>4. QED  BY <1>1, <2>2, <2>3
<1>3. ASSUME NEW k \in 0..(n - 1), k \in S PROVE k + 1 \in S
  <2>1. k + 1 \in 0..n /\ k \in 0..n /\ \A i \in 1..n : i <= k + 1 <=> i <= k \/ i = k + 1
    BY <1>1
  <2>2. data[k] \in DataOf(elements) /\ k + 1 \in DOMAIN elements
    BY <2>1, ParsingTyped, ParsingStep
  <2>3. data[k + 1].ok <=> data[k].ok /\ (elements[k + 1].qName = "application"
                                            => Complete(elements[k + 1]))
    BY <2>2, ParsingStep, StartElementOk DEF Complete
  <2>4. CompleteTo(k + 1) <=> CompleteTo(k) /\ (elements[k + 1].qName = "application"
                                                 => Complete(elements[k + 1]))
    <3>1. k + 1 \in ElementsOf(document, "application")
            <=> elements[k + 1].qName = "application"
      BY <2>2 DEF ElementsOf
    <3>2. k + 1 \in 1..n
      BY <1>1
    <3>3. \A i \in ElementsOf(document, "application") : i <= k + 1 <=> i <= k \/ i = k + 1
      BY <1>1, <2>1
    <3>4. k + 1 \in ElementsOf(document, "application") => k + 1 <= k + 1
      BY <3>2
    <3>5. QED  BY <3>1, <3>3, <3>4
  <2>5. data[k].ok <=> CompleteTo(k)
    BY <1>3
  <2> HIDE DEF CompleteTo
  <2>6. QED  BY <2>1, <2>3, <2>4, <2>5
<1>4. \A k \in 0..n : k \in S
  <2> HIDE DEF S, n
  <2>1. QED  BY <1>1, <1>2, <1>3, Induction
<1>5. QED  BY <1>4

(* The numbers of the whole daemon are those in force at the place.        *)
NumbersInForce(document, d, place) ==
    /\ d.defaultCPULoadThreshold =
          InForce(document, "default_cpu_load_threshold", place, 25)
    /\ d.cpuLoadPollingDelay = InForce(document, "cpu_load_polling_delay", place, 1)
    /\ d.rePrestartDelay = InForce(document, "re-prestart_delay", place, 10800)
    /\ d.defaultRePrestartTrigger =
          InForce(document, "default_re-prestart_trigger", place, 3)

LEMMA ParsingInForce ==
  ASSUME NEW document, NEW data, Parsing(document, data)
  PROVE  \A k \in 0..Len(document.elements) :
           data[k].ok => NumbersInForce(document, data[k], k + 1)
<1> DEFINE elements == document.elements
           n == Len(elements)
           S == {k \in 0..n : data[k].ok => NumbersInForce(document, data[k], k + 1)}
<1>1. n \in Nat /\ 0 \in 0..n /\ IsList(elements)
  BY ParsingStep DEF Parsing
<1>2. 0 \in S
  <2>1. data[0] = NewData /\ 0 + 1 = 1
    BY ParsingStep
  <2>2. NumbersInForce(document, NewData, 1)
    BY <1>1, InForceAtFirst DEF NumbersInForce, NewData
  <2>3. QED  BY <1>1, <2>1, <2>2
<1>3. ASSUME NEW k \in 0..(n - 1), k \in S PROVE k + 1 \in S
  <2>1. k + 1 \in 0..n /\ k \in 0..n
    BY <1>1
  <2>2. data[k] \in DataOf(elements) /\ k + 1 \in DOMAIN elements
        /\ data[k + 1] = StartElement(data[k], elements[k + 1])
    BY <2>1, ParsingTyped, ParsingStep
  <2>3. SUFFICES ASSUME data[k + 1].ok
                 PROVE  NumbersInForce(document, data[k + 1], (k + 1) + 1)
    BY <2>1
  <2>4. data[k].ok
    BY <2>2, <2>3, StartElementOk
  <2>5. NumbersInForce(document, data[k], k + 1)
    BY <1>3, <2>4
  <2>6. ASSUME NEW attribute, NEW default
        PROVE  InForce(document, attribute, (k + 1) + 1, default) =
                 Latest(elements[k + 1], attribute,
                        InForce(document, attribute, k + 1, default))
    BY <1>1, <2>2, InForceAfter
  <2>7. QED  BY <2>2, <2>4, <2>5, <2>6, StartElementDefaults DEF NumbersInForce
<1>4. \A k \in 0..n : k \in S
  <2> HIDE DEF S, n
  <2>1. QED  BY <1>1, <1>2, <1>3, Induction
<1>5. QED  BY <1>4

(* The white list holds the paths that were named.                         *)
PathsTo(document, k) ==
    {document.elements[i].atts["binary_path"] :
        i \in {j \in ElementsOf(document, "allow_lazy_shutdown") :
                  j <= k /\ Written(document.elements[j].atts, "binary_path")}}

LEMMA ParsingAllowed ==
  ASSUME NEW document, NEW data, Parsing(document, data)
  PROVE  \A k \in 0..Len(document.elements) :
           data[k].ok => data[k].allowedApps = PathsTo(document, k)
<1> DEFINE elements == document.elements
           n == Len(elements)
           S == {k \in 0..n : data[k].ok => data[k].allowedApps = PathsTo(document, k)}
           Named(k) == {j \in ElementsOf(document, "allow_lazy_shutdown") :
                           j <= k /\ Written(elements[j].atts, "binary_path")}
<1>1. n \in Nat /\ 0 \in 0..n
      /\ ElementsOf(document, "allow_lazy_shutdown") \subseteq 1..n
  BY ParsingStep DEF ElementsOf
<1>2. 0 \in S
  <2>1. data[0].allowedApps = {}
    BY ParsingStep DEF NewData
  <2>2. \A i \in 1..n : ~(i <= 0)
    BY <1>1
  <2>3. Named(0) = {}
    BY <1>1, <2>2
  <2>4. PathsTo(document, 0) = {}
    BY <2>3 DEF PathsTo
  <2>5. QED  BY <1>1, <2>1, <2>4
<1>3. ASSUME NEW k \in 0..(n - 1), k \in S PROVE k + 1 \in S
  <2>1. k + 1 \in 0..n /\ k \in 0..n /\ \A i \in 1..n : i <= k + 1 <=> i <= k \/ i = k + 1
    BY <1>1
  <2>2. data[k] \in DataOf(elements) /\ k + 1 \in DOMAIN elements
        /\ data[k + 1] = StartElement(data[k], elements[k + 1])
    BY <2>1, ParsingTyped, ParsingStep
  <2>3. SUFFICES ASSUME data[k + 1].ok
                 PROVE  data[k + 1].allowedApps = PathsTo(document, k + 1)
    BY <2>1
  <2>4. data[k].ok
    BY <2>2, <2>3, StartElementOk
  <2>5. data[k].allowedApps = PathsTo(document, k)
    BY <1>3, <2>4
  <2>6. data[k + 1].allowedApps =
          IF elements[k + 1].qName = "allow_lazy_shutdown"
             /\ Written(elements[k + 1].atts, "binary_path")
          THEN data[k].allowedApps \cup {elements[k + 1].atts["binary_path"]}
          ELSE data[k].allowedApps
    <3> DEFINE d == data[k]
               j == k + 1
    <3>1. d \in DataOf(elements) /\ j \in DOMAIN elements /\ d.ok
          /\ data[j] = StartElement(d, elements[j])
      BY <2>2, <2>4
    <3> HIDE DEF d, j, elements
    <3>2. StartElement(d, elements[j]).allowedApps =
            IF elements[j].qName = "allow_lazy_shutdown"
               /\ Written(elements[j].atts, "binary_path")
            THEN d.allowedApps \cup {elements[j].atts["binary_path"]}
            ELSE d.allowedApps
      BY <3>1, StartElementAllowed
    <3>3. QED  BY <3>1, <3>2 DEF d, j
  <2>7. CASE elements[k + 1].qName = "allow_lazy_shutdown"
             /\ Written(elements[k + 1].atts, "binary_path")
    <3>1. k + 1 \in ElementsOf(document, "allow_lazy_shutdown")
      BY <2>2, <2>7 DEF ElementsOf
    <3>2. Named(k + 1) = Named(k) \cup {k + 1}
      BY <1>1, <2>1, <2>7, <3>1
    <3>3. PathsTo(document, k + 1) =
            PathsTo(document, k) \cup {elements[k + 1].atts["binary_path"]}
      BY <3>2 DEF PathsTo
    <3>4. QED  BY <2>5, <2>6, <2>7, <3>3
  <2>8. CASE ~(elements[k + 1].qName = "allow_lazy_shutdown"
               /\ Written(elements[k + 1].atts, "binary_path"))
    <3>1. k + 1 \in ElementsOf(document, "allow_lazy_shutdown")
             => ~Written(elements[k + 1].atts, "binary_path")
      BY <2>8 DEF ElementsOf
    <3>2. Named(k + 1) = Named(k)
      BY <1>1, <2>1, <3>1
    <3>3. PathsTo(document, k + 1) = PathsTo(document, k)
      BY <3>2 DEF PathsTo
    <3>4. QED  BY <2>5, <2>6, <2>8, <3>3
  <2>9. QED  BY <2>7, <2>8
<1>4. \A k \in 0..n : k \in S
  <2> HIDE DEF S, n
  <2>1. QED  BY <1>1, <1>2, <1>3, Induction
<1>5. QED  BY <1>4

(* The list of applications: every entry comes from an element up to here, *)
(* and the first element of a service is the first entry of that service,  *)
(* with the defaults in force at the element.                              *)
ServiceAt(document, i) == document.elements[i].atts["service"]

IsFirst(document, i) ==
    /\ i \in ElementsOf(document, "application")
    /\ \A j \in ElementsOf(document, "application") :
          ServiceAt(document, j) = ServiceAt(document, i) => i <= j

ComeFromElements(document, list, k) ==
    \A j \in 1..Len(list) : \E i \in ElementsOf(document, "application") :
        i <= k /\ list[j].service = ServiceAt(document, i)

FirstEntry(list, j, service) ==
    /\ j \in 1..Len(list)
    /\ list[j].service = service
    /\ \A m \in 1..(j - 1) : list[m].service # service

FirstsListed(document, data, list, k) ==
    \A i \in ElementsOf(document, "application") :
        i <= k /\ IsFirst(document, i) =>
            \E j \in 1..Len(list) :
                /\ FirstEntry(list, j, ServiceAt(document, i))
                /\ list[j] = Settings(data[i - 1], document.elements[i].atts)

AppsListed(document, data, k) ==
    /\ ComeFromElements(document, data[k].prestartApps, k)
    /\ FirstsListed(document, data, data[k].prestartApps, k)

LEMMA AppendedList ==
  ASSUME NEW S, NEW list \in Seq(S), NEW x \in S
  PROVE  /\ Len(Append(list, x)) = Len(list) + 1
         /\ Len(list) \in Nat
         /\ \A j \in 1..Len(list) : Append(list, x)[j] = list[j]
         /\ Append(list, x)[Len(list) + 1] = x
  OBVIOUS

LEMMA AppsListedAppend ==
  ASSUME NEW document, NEW data, NEW k \in Nat,
         ElementsOf(document, "application") \subseteq Int,
         data[k] \in DataOf(document.elements), AppsListed(document, data, k),
         k + 1 \in ElementsOf(document, "application"),
         data[k + 1].prestartApps =
            Append(data[k].prestartApps, Settings(data[k], document.elements[k + 1].atts)),
         Settings(data[k], document.elements[k + 1].atts)
            \in SettingsOf(ServicesNamed(document.elements))
  PROVE  AppsListed(document, data, k + 1)
<1> DEFINE list == data[k].prestartApps
           app == Settings(data[k], document.elements[k + 1].atts)
           longer == Append(list, app)
           n == Len(list)
           Elements == ElementsOf(document, "application")
<1>1. /\ n \in Nat /\ Len(longer) = n + 1 /\ longer[n + 1] = app
      /\ \A j \in 1..n : longer[j] = list[j]
      /\ data[k + 1].prestartApps = longer
  <2>1. list \in Seq(SettingsOf(ServicesNamed(document.elements)))
    BY DEF DataOf
  <2>2. QED  BY <2>1, AppendedList
<1>2. app.service = ServiceAt(document, k + 1)
  BY DEF Settings, ServiceAt
<1>3. ComeFromElements(document, list, k) /\ FirstsListed(document, data, list, k)
  BY DEF AppsListed
<1>4. k \in Int /\ (k + 1) - 1 = k /\ k + 1 \in Elements /\ Elements \subseteq Int
  OBVIOUS
<1> HIDE DEF list, app, longer, n, Elements
<1>5. ComeFromElements(document, longer, k + 1)
  <2>1. SUFFICES ASSUME NEW j \in 1..(n + 1)
                 PROVE  \E i \in Elements : i <= k + 1
                                            /\ longer[j].service = ServiceAt(document, i)
    BY <1>1 DEF ComeFromElements, Elements
  <2>2. CASE j = n + 1
    <3>1. longer[j].service = ServiceAt(document, k + 1) /\ k + 1 <= k + 1
      BY <1>1, <1>2, <1>4, <2>2
    <3>2. QED  BY <1>4, <3>1
  <2>3. CASE j # n + 1
    <3>1. j \in 1..n /\ longer[j] = list[j]
      BY <1>1, <2>3
    <3>2. PICK i \in Elements : i <= k /\ list[j].service = ServiceAt(document, i)
      BY <1>3, <3>1 DEF ComeFromElements, Elements, n
    <3>3. i <= k + 1
      BY <1>4, <3>2
    <3>4. QED  BY <3>1, <3>2, <3>3
  <2>4. QED  BY <2>2, <2>3
<1>6. FirstsListed(document, data, longer, k + 1)
  <2>1. SUFFICES ASSUME NEW i \in Elements, i <= k + 1, IsFirst(document, i)
                 PROVE  \E j \in 1..Len(longer) :
                          /\ FirstEntry(longer, j, ServiceAt(document, i))
                          /\ longer[j] = Settings(data[i - 1], document.elements[i].atts)
    BY DEF FirstsListed, Elements
  <2>2. CASE i = k + 1
    <3>1. longer[n + 1] = Settings(data[i - 1], document.elements[i].atts)
      BY <1>1, <1>4, <2>2 DEF app
    <3>2. ASSUME NEW m \in 1..n PROVE longer[m].service # ServiceAt(document, i)
      <4>1. PICK e \in Elements : e <= k /\ list[m].service = ServiceAt(document, e)
        BY <1>3, <3>2 DEF ComeFromElements, Elements, n
      <4>2. ServiceAt(document, e) = ServiceAt(document, i) => i <= e
        BY <2>1 DEF IsFirst, Elements
      <4>3. ~(i <= e)
        BY <1>4, <2>2, <4>1
      <4>4. longer[m] = list[m]
        BY <1>1
      <4>5. QED  BY <4>1, <4>2, <4>3, <4>4
    <3>3. n + 1 \in 1..Len(longer) /\ 1..((n + 1) - 1) = 1..n
      BY <1>1
    <3>4. longer[n + 1].service = ServiceAt(document, i)
      BY <1>1, <1>2, <2>2
    <3>5. FirstEntry(longer, n + 1, ServiceAt(document, i))
      BY <3>2, <3>3, <3>4 DEF FirstEntry
    <3>6. QED  BY <3>1, <3>3, <3>5
  <2>3. CASE i # k + 1
    <3>1. i <= k
      BY <1>4, <2>1, <2>3
    <3>2. PICK j \in 1..n : /\ FirstEntry(list, j, ServiceAt(document, i))
                            /\ list[j] = Settings(data[i - 1], document.elements[i].atts)
      BY <1>3, <2>1, <3>1 DEF FirstsListed, Elements, n
    <3>3. j \in 1..Len(longer) /\ longer[j] = list[j]
          /\ \A m \in 1..(j - 1) : m \in 1..n
      BY <1>1
    <3>4. \A m \in 1..(j - 1) : longer[m] = list[m]
      BY <1>1, <3>3
    <3>5. FirstEntry(longer, j, ServiceAt(document, i))
      BY <3>2, <3>3, <3>4 DEF FirstEntry
    <3>6. QED  BY <3>2, <3>3, <3>5
  <2>4. QED  BY <2>2, <2>3
<1>7. QED  BY <1>1, <1>5, <1>6 DEF AppsListed

LEMMA ParsingApps ==
  ASSUME NEW document, NEW data, Parsing(document, data)
  PROVE  \A k \in 0..Len(document.elements) :
           data[k].ok => AppsListed(document, data, k)
<1> DEFINE elements == document.elements
           n == Len(elements)
           S == {k \in 0..n : data[k].ok => AppsListed(document, data, k)}
<1>1. n \in Nat /\ 0 \in 0..n
      /\ ElementsOf(document, "application") \subseteq 1..n
  BY ParsingStep DEF ElementsOf
<1>2. 0 \in S
  <2>1. data[0].prestartApps = <<>> /\ Len(<<>>) = 0
    BY ParsingStep DEF NewData
  <2>2. \A i \in 1..n : ~(i <= 0)
    BY <1>1
  <2>3. ComeFromElements(document, <<>>, 0)
    BY <2>1 DEF ComeFromElements
  <2>4. FirstsListed(document, data, <<>>, 0)
    BY <1>1, <2>2 DEF FirstsListed
  <2>5. AppsListed(document, data, 0)
    BY <2>1, <2>3, <2>4 DEF AppsListed
  <2>6. QED  BY <1>1, <2>5
<1>3. ASSUME NEW k \in 0..(n - 1), k \in S PROVE k + 1 \in S
  <2>1. k + 1 \in 0..n /\ k \in 0..n /\ k \in Nat
        /\ \A i \in 1..n : i <= k + 1 <=> i <= k \/ i = k + 1
    BY <1>1
  <2>2. data[k] \in DataOf(elements) /\ k + 1 \in DOMAIN elements
        /\ data[k + 1] = StartElement(data[k], elements[k + 1])
    BY <2>1, ParsingTyped, ParsingStep
  <2>3. SUFFICES ASSUME data[k + 1].ok PROVE AppsListed(document, data, k + 1)
    BY <2>1
  <2>4. data[k].ok
    BY <2>2, <2>3, StartElementOk
  <2>5. AppsListed(document, data, k)
    BY <1>3, <2>4
  <2>6. data[k + 1].prestartApps =
          IF elements[k + 1].qName = "application"
          THEN Append(data[k].prestartApps, Settings(data[k], elements[k + 1].atts))
          ELSE data[k].prestartApps
    <3>1. StartElement(data[k], elements[k + 1]).ok
      BY <2>2, <2>3
    <3>2. StartElement(data[k], elements[k + 1]).prestartApps =
            IF elements[k + 1].qName = "application"
            THEN Append(data[k].prestartApps, Settings(data[k], elements[k + 1].atts))
            ELSE data[k].prestartApps
      BY <2>2, <3>1, StartElementApps
    <3>3. QED  BY <2>2, <3>2
  <2>7. CASE elements[k + 1].qName = "application"
    <3>1. k + 1 \in ElementsOf(document, "application")
      BY <2>2, <2>7 DEF ElementsOf
    <3>2. Settings(data[k], elements[k + 1].atts) \in SettingsOf(ServicesNamed(elements))
      BY <2>2, SettingsTyped
    <3>3. ElementsOf(document, "application") \subseteq Int
      BY <1>1
    <3>4. QED  BY <2>1, <2>2, <2>5, <2>6, <2>7, <3>1, <3>2, <3>3, AppsListedAppend
  <2>8. CASE elements[k + 1].qName # "application"
    <3>1. k + 1 \notin ElementsOf(document, "application")
      BY <2>8 DEF ElementsOf
    <3>2. \A i \in ElementsOf(document, "application") : i <= k + 1 <=> i <= k
      BY <1>1, <2>1, <3>1
    <3>3. data[k + 1].prestartApps = data[k].prestartApps
      BY <2>6, <2>8
    <3>4. ComeFromElements(document, data[k].prestartApps, k + 1)
      BY <2>5, <3>2 DEF AppsListed, ComeFromElements
    <3>5. FirstsListed(document, data, data[k].prestartApps, k + 1)
      BY <2>5, <3>2 DEF AppsListed, FirstsListed
    <3>6. QED  BY <3>3, <3>4, <3>5 DEF AppsListed
  <2>9. QED  BY <2>7, <2>8
<1>4. \A k \in 0..n : k \in S
  <2> HIDE DEF S, n
  <2>1. QED  BY <1>1, <1>2, <1>3, Induction
<1>5. QED  BY <1>4

-----------------------------------------------------------------------------
(* Prestarter::addPrestartApp for every application of the list: what was  *)
(* known stays, and of a new service the first entry of the list.          *)

Merged(known, list, k, result) ==
    /\ DOMAIN result = DOMAIN known \cup {list[j].service : j \in 1..k}
    /\ \A s \in DOMAIN known : result[s] = known[s]
    /\ \A s \in DOMAIN result \ DOMAIN known :
          \E j \in 1..k : FirstEntry(list, j, s) /\ result[s] = list[j]

LEMMA MergedOneMore ==
  ASSUME NEW known, NEW list, NEW k \in Nat, k + 1 \in 1..Len(list), NEW before,
         Merged(known, list, k, before)
  PROVE  Merged(known, list, k + 1, AddKnown(before, list[k + 1]))
<1> DEFINE app == list[k + 1]
           after == AddKnown(before, app)
<1>1. k \in Int /\ 1..(k + 1) = 1..k \cup {k + 1}
  OBVIOUS
<1>2. DOMAIN before = DOMAIN known \cup {list[j].service : j \in 1..k}
  BY DEF Merged
<1>3. CASE app.service \in DOMAIN before
  <2>1. after = before
    BY <1>3 DEF AddKnown
  <2>2. DOMAIN after = DOMAIN known \cup {list[j].service : j \in 1..(k + 1)}
    BY <1>1, <1>2, <1>3, <2>1
  <2>3. \A s \in DOMAIN after \ DOMAIN known :
          \E j \in 1..(k + 1) : FirstEntry(list, j, s) /\ after[s] = list[j]
    BY <1>1, <2>1 DEF Merged
  <2>4. QED  BY <2>1, <2>2, <2>3 DEF Merged
<1>4. CASE app.service \notin DOMAIN before
  <2>1. after = [s \in DOMAIN before \cup {app.service} |->
                   IF s = app.service THEN app ELSE before[s]]
    BY <1>4 DEF AddKnown
  <2> HIDE DEF after
  <2>2. DOMAIN after = DOMAIN known \cup {list[j].service : j \in 1..(k + 1)}
    BY <1>1, <1>2, <2>1
  <2>3. \A s \in DOMAIN before : after[s] = before[s]
    BY <1>4, <2>1
  <2>4. \A s \in DOMAIN known : after[s] = known[s]
    BY <1>2, <2>3 DEF Merged
  <2>5. ASSUME NEW s \in DOMAIN after \ DOMAIN known
        PROVE  \E j \in 1..(k + 1) : FirstEntry(list, j, s) /\ after[s] = list[j]
    <3>1. CASE s \in DOMAIN before
      <4>1. PICK j \in 1..k : FirstEntry(list, j, s) /\ before[s] = list[j]
        BY <3>1 DEF Merged
      <4>2. QED  BY <1>1, <2>3, <3>1, <4>1
    <3>2. CASE s \notin DOMAIN before
      <4>1. s = app.service /\ after[s] = app
        BY <2>1, <3>2
      <4>2. \A m \in 1..k : list[m].service # s
        BY <1>2, <3>2
      <4>3. 1..((k + 1) - 1) = 1..k
        BY <1>1
      <4>4. FirstEntry(list, k + 1, s)
        BY <4>1, <4>2, <4>3 DEF FirstEntry
      <4>5. QED  BY <1>1, <4>1, <4>4
    <3>3. QED  BY <3>1, <3>2
  <2>6. Merged(known, list, k + 1, after)
    BY <2>2, <2>4, <2>5 DEF Merged
  <2>7. QED  BY <2>6 DEF after
<1>5. QED  BY <1>3, <1>4

LEMMA KnownMerged ==
  ASSUME NEW known, NEW list, IsList(list)
  PROVE  Merged(known, list, Len(list), FoldLeft(AddKnown, known, list))
<1> DEFINE n == Len(list)
<1>1. PICK after : /\ Folded("application", known, list, after)
                   /\ FoldLeft(AddKnown, known, list) = after[n]
  BY ApplicationsFolded
<1> DEFINE S == {k \in 0..n : Merged(known, list, k, after[k])}
<1>2. n \in Nat /\ 0 \in 0..n /\ n \in 0..n
  BY DEF IsList
<1>3. 0 \in S
  <2>1. after[0] = known
    BY <1>1 DEF Folded
  <2>2. 1..0 = {}
    OBVIOUS
  <2>3. QED  BY <1>2, <2>1, <2>2 DEF Merged
<1>4. ASSUME NEW k \in 0..(n - 1), k \in S PROVE k + 1 \in S
  <2>1. k \in Nat /\ k + 1 \in 1..n /\ k + 1 \in 0..n /\ (k + 1) - 1 = k
    BY <1>2
  <2>2. after[k + 1] = Put("application", after[(k + 1) - 1], list[k + 1])
    BY <1>1, <2>1 DEF Folded
  <2>3. after[k + 1] = AddKnown(after[k], list[k + 1])
    BY <2>1, <2>2 DEF Put
  <2>4. Merged(known, list, k, after[k])
    BY <1>4
  <2>5. Merged(known, list, k + 1, after[k + 1])
    BY <2>1, <2>3, <2>4, MergedOneMore
  <2>6. QED  BY <2>1, <2>5
<1>5. \A k \in 0..n : k \in S
  <2> HIDE DEF S, n
  <2>1. QED  BY <1>2, <1>3, <1>4, Induction
<1>6. QED  BY <1>1, <1>2, <1>5

-----------------------------------------------------------------------------
(* The document as a whole. *)

IsDocument(document) ==
    /\ document.exists \in BOOLEAN /\ document.wellFormed \in BOOLEAN
    /\ IsList(document.elements)

LEMMA ParseResult ==
  ASSUME NEW document, IsDocument(document)
  PROVE  \E data :
           /\ Parsing(document, data)
           /\ data[Len(document.elements)] \in DataOf(document.elements)
           /\ Parse(document) = [data[Len(document.elements)] EXCEPT
                                    !.ok = @ /\ document.wellFormed]
<1> DEFINE n == Len(document.elements)
<1>1. IsList(document.elements) /\ n \in 0..n
  BY DEF IsDocument, IsList
<1>2. PICK data : /\ Folded("element", NewData, document.elements, data)
                  /\ FoldLeft(StartElement, NewData, document.elements) = data[n]
  BY <1>1, ElementsFolded
<1>3. Parsing(document, data)
  BY <1>1, <1>2 DEF Parsing
<1>4. data[n] \in DataOf(document.elements)
  BY <1>1, <1>3, ParsingTyped
<1>5. Parse(document) = [data[n] EXCEPT !.ok = @ /\ document.wellFormed]
  BY <1>2, Zenon DEF Parse
<1>6. QED  BY <1>3, <1>4, <1>5

(* A file is accepted exactly if it is there, well formed, and every       *)
(* application has its name and its service.                               *)
LEMMA AcceptedIffWellBehaved ==
  ASSUME NEW document, IsDocument(document)
  PROVE  CanRead(document) <=> WellBehaved(document)
<1> DEFINE n == Len(document.elements)
<1>1. PICK data : /\ Parsing(document, data)
                  /\ data[n] \in DataOf(document.elements)
                  /\ Parse(document) = [data[n] EXCEPT !.ok = @ /\ document.wellFormed]
  BY ParseResult
<1>2. n \in 0..n /\ \A i \in ElementsOf(document, "application") : i <= n
  BY <1>1, ParsingStep DEF ElementsOf
<1>3. data[n].ok <=> \A i \in ElementsOf(document, "application") :
                        Complete(document.elements[i])
  BY <1>1, <1>2, ParsingOk
<1>4. Parse(document).ok = (data[n].ok /\ document.wellFormed)
  BY <1>1 DEF DataOf
<1>5. QED  BY <1>3, <1>4 DEF CanRead, WellBehaved, Complete

(* The settings of the first element of a service are the documented ones. *)
LEMMA FirstOfIs ==
  ASSUME NEW document, IsList(document.elements), NEW i, IsFirst(document, i)
  PROVE  FirstOf(document, ServiceAt(document, i)) = i
<1> DEFINE Apps == ElementsOf(document, "application")
           First(j) == /\ document.elements[j].atts["service"] = ServiceAt(document, i)
                       /\ \A e \in Apps :
                             document.elements[e].atts["service"] = ServiceAt(document, i)
                               => j <= e
           f == CHOOSE j \in Apps : First(j)
<1>1. i \in Apps /\ First(i)
  BY DEF IsFirst, ServiceAt
<1>2. f \in Apps /\ First(f)
  BY <1>1, Zenon
<1>3. FirstOf(document, ServiceAt(document, i)) = f
  BY Zenon DEF FirstOf
<1>4. i <= f /\ f <= i
  <2> HIDE DEF f
  <2>1. QED  BY <1>1, <1>2 DEF ServiceAt
<1>5. i \in Int /\ f \in Int
  <2>1. Apps \subseteq Int
    BY DEF ElementsOf, IsList
  <2> HIDE DEF f, Apps
  <2>2. QED  BY <1>1, <1>2, <2>1
<1>6. i = f
  <2> HIDE DEF f
  <2>1. QED  BY <1>4, <1>5
<1>7. QED  BY <1>3, <1>6

LEMMA SettingsDocumented ==
  ASSUME NEW document, IsList(document.elements), NEW i, IsFirst(document, i),
         NEW d \in DataOf(document.elements), NumbersInForce(document, d, i)
  PROVE  TakesSettings(Settings(d, document.elements[i].atts), document)
<1> DEFINE atts == document.elements[i].atts
           app == Settings(d, atts)
           threshold == Number(atts, "cpu_load_threshold", -1)
           trigger == Number(atts, "re-prestart_trigger", 0)
           forced == Number(atts, "forced_re-prestart_not_allowed", -1)
           Effective(attribute, accepted, attributeOfAll, default) ==
              IF Written(atts, attribute) /\ ToInt(atts[attribute]) \in accepted
              THEN ToInt(atts[attribute])
              ELSE InForce(document, attributeOfAll, i, default)
<1>1. app.service = ServiceAt(document, i) /\ FirstOf(document, app.service) = i
  BY FirstOfIs DEF Settings, ServiceAt
<1>2. /\ IntMax \in Int /\ Ints \subseteq Int
      /\ \A x \in Ints : x \in 0..IntMax <=> x > -1
      /\ \A x \in Ints : x \in 1..IntMax <=> x > 0
      /\ 0 \in Ints /\ -1 \in Ints
  BY ConfigAssumption DEF Ints, IntMin
<1>3. \A x : ToInt(x) \in Ints
  BY <1>2 DEF ToInt
<1>4. d.defaultCPULoadThreshold = InForce(document, "default_cpu_load_threshold", i, 25)
      /\ d.defaultRePrestartTrigger = InForce(document, "default_re-prestart_trigger", i, 3)
      /\ d.defaultCPULoadThreshold \in Ints /\ d.defaultRePrestartTrigger \in Ints
  BY DEF NumbersInForce, DataOf
<1>5. app.cpuLoadThreshold = Effective("cpu_load_threshold", 0..IntMax,
                                       "default_cpu_load_threshold", 25)
  <2>1. app.cpuLoadThreshold =
          IF threshold > -1 THEN threshold ELSE d.defaultCPULoadThreshold
    BY DEF Settings
  <2>2. CASE Written(atts, "cpu_load_threshold")
    <3>1. threshold = ToInt(atts["cpu_load_threshold"]) /\ threshold \in Ints
      BY <1>3, <2>2 DEF Number
    <3> HIDE DEF threshold, atts, app
    <3>2. threshold \in 0..IntMax <=> threshold > -1
      BY <1>2, <3>1
    <3>3. QED  BY <1>4, <2>1, <2>2, <3>1, <3>2
  <2>3. CASE ~Written(atts, "cpu_load_threshold")
    <3>1. threshold = -1
      BY <2>3 DEF Number
    <3> HIDE DEF threshold, atts, app
    <3>2. QED  BY <1>4, <2>1, <2>3, <3>1
  <2>4. QED  BY <2>2, <2>3
<1>6. Trigger(trigger, d.defaultRePrestartTrigger)
        = Effective("re-prestart_trigger", 1..IntMax, "default_re-prestart_trigger", 3)
  <2>1. CASE Written(atts, "re-prestart_trigger")
    <3>1. trigger = ToInt(atts["re-prestart_trigger"]) /\ trigger \in Ints
      BY <1>3, <2>1 DEF Number
    <3> HIDE DEF trigger, atts
    <3>2. trigger \in 1..IntMax <=> trigger > 0
      BY <1>2, <3>1
    <3>3. QED  BY <1>4, <2>1, <3>1, <3>2 DEF Trigger
  <2>2. CASE ~Written(atts, "re-prestart_trigger")
    <3>1. trigger = 0
      BY <2>2 DEF Number
    <3> HIDE DEF trigger, atts
    <3>2. QED  BY <1>4, <2>2, <3>1 DEF Trigger
  <2>3. QED  BY <2>1, <2>2
<1>7. app.rePrestartTrigger =
        LET t == Effective("re-prestart_trigger", 1..IntMax, "default_re-prestart_trigger", 3)
        IN  IF t >= 0 THEN t ELSE t + 2 * (IntMax + 1)
  <2> DEFINE t == Trigger(trigger, d.defaultRePrestartTrigger)
  <2>1. trigger \in Ints /\ t \in Ints
    BY <1>2, <1>4, NumberFits DEF Trigger
  <2>2. app.rePrestartTrigger = ToUnsigned(t)
    BY DEF Settings
  <2> HIDE DEF t, app
  <2>3. app.rePrestartTrigger = IF t >= 0 THEN t ELSE t + 2 * (IntMax + 1)
    BY <2>1, <2>2, Unsigned
  <2>4. t = Effective("re-prestart_trigger", 1..IntMax, "default_re-prestart_trigger", 3)
    BY <1>6 DEF t
  <2> HIDE DEF Effective
  <2>5. QED  BY <2>3, <2>4
<1>8. app.forcedRePrestartNotAllowed <=>
        /\ Written(atts, "forced_re-prestart_not_allowed")
        /\ ToInt(atts["forced_re-prestart_not_allowed"]) > 0
  <2>1. app.forcedRePrestartNotAllowed = (forced > 0)
    BY DEF Settings
  <2>2. CASE Written(atts, "forced_re-prestart_not_allowed")
    <3>1. forced = ToInt(atts["forced_re-prestart_not_allowed"])
      BY <2>2 DEF Number
    <3> HIDE DEF forced, atts, app
    <3>2. QED  BY <2>1, <2>2, <3>1
  <2>3. CASE ~Written(atts, "forced_re-prestart_not_allowed")
    <3>1. forced = -1
      BY <2>3 DEF Number
    <3>2. ~(-1 > 0)
      OBVIOUS
    <3> HIDE DEF forced, atts, app
    <3>3. ~(forced > 0)
      BY <3>1, <3>2
    <3>4. QED  BY <2>1, <2>3, <3>3
  <2>4. QED  BY <2>2, <2>3
<1>9. app.priority =
        IF Written(atts, "priority") THEN ToInt(atts["priority"]) ELSE 0
  <2>1. app.priority = Number(atts, "priority", 0)
    BY DEF Settings
  <2> HIDE DEF app, atts
  <2>2. QED  BY <2>1, Zenon DEF Number
<1>10. QED
  <2> DEFINE Own(place, attribute, accepted, attributeOfAll, default) ==
               IF Written(document.elements[place].atts, attribute)
                  /\ ToInt(document.elements[place].atts[attribute]) \in accepted
               THEN ToInt(document.elements[place].atts[attribute])
               ELSE InForce(document, attributeOfAll, place, default)
             AsAt(place) ==
               /\ app.cpuLoadThreshold = Own(place, "cpu_load_threshold", 0..IntMax,
                                             "default_cpu_load_threshold", 25)
               /\ app.priority =
                    IF Written(document.elements[place].atts, "priority")
                    THEN ToInt(document.elements[place].atts["priority"]) ELSE 0
               /\ \/ WritesZeroTrigger(document.elements[place].atts)
                  \/ app.rePrestartTrigger =
                       LET t == Own(place, "re-prestart_trigger", 1..IntMax,
                                    "default_re-prestart_trigger", 3)
                       IN  IF t >= 0 THEN t ELSE t + 2 * (IntMax + 1)
               /\ app.forcedRePrestartNotAllowed <=>
                    /\ Written(document.elements[place].atts,
                               "forced_re-prestart_not_allowed")
                    /\ ToInt(document.elements[place]
                               .atts["forced_re-prestart_not_allowed"]) > 0
  <2>1. TakesSettings(app, document) <=> AsAt(FirstOf(document, app.service))
    <3> HIDE DEF app
    <3>1. QED  BY Zenon DEF TakesSettings
  <2>2. AsAt(i)
    <3> HIDE DEF app, threshold, trigger, forced
    <3>1. QED  BY <1>5, <1>7, <1>8, <1>9, Zenon
  <2>3. FirstOf(document, app.service) = i
    BY <1>1
  <2>4. TakesSettings(app, document)
    <3> HIDE DEF AsAt, app
    <3>1. QED  BY <2>1, <2>2, <2>3, Zenon
  <2>5. QED  BY <2>4

(* Every service of a document has a first element, and a service has one  *)
(* first entry of a list.                                                  *)
LEMMA FirstElementExists ==
  ASSUME NEW document, IsList(document.elements), NEW s \in ServicesOf(document)
  PROVE  \E i \in ElementsOf(document, "application") :
            IsFirst(document, i) /\ ServiceAt(document, i) = s
<1> DEFINE Places == {i \in ElementsOf(document, "application") :
                         ServiceAt(document, i) = s}
<1>1. Places \in SUBSET Nat
  BY DEF ElementsOf, IsList
<1>2. Places # {}
  BY DEF ServicesOf, ServiceAt
<1>3. PICK i \in Places : \A j \in Places : i <= j
  <2> HIDE DEF Places
  <2>1. QED  BY <1>1, <1>2, LeastNatural
<1>4. QED  BY <1>3 DEF IsFirst

LEMMA OneFirstEntry ==
  ASSUME NEW list, IsList(list), NEW s, NEW j, FirstEntry(list, j, s),
         NEW m, FirstEntry(list, m, s)
  PROVE  j = m
<1>1. j \in Int /\ m \in Int /\ j >= 1 /\ m >= 1
  BY DEF FirstEntry, IsList
<1>2. ~(j < m)
  BY <1>1 DEF FirstEntry
<1>3. ~(m < j)
  BY <1>1 DEF FirstEntry
<1>4. QED  BY <1>1, <1>2, <1>3

(* What an accepted document makes of the known applications: they stay,   *)
(* every other service of the document is added, and of it the first       *)
(* element, with the settings the document gives it.                       *)
ServicesAdded(document, known, after) ==
    /\ \A s \in DOMAIN known : after[s] = known[s]
    /\ DOMAIN after = DOMAIN known \cup ServicesOf(document)
    /\ \A s \in DOMAIN after \ DOMAIN known :
          /\ after[s] \in SettingsOf(ServicesNamed(document.elements))
          /\ after[s].service = s
          /\ TakesSettings(after[s], document)

LEMMA KnownTakenOver ==
  ASSUME NEW document, NEW data, Parsing(document, data),
         data[Len(document.elements)].ok, NEW known, NEW after,
         after = FoldLeft(AddKnown, known, data[Len(document.elements)].prestartApps)
  PROVE  ServicesAdded(document, known, after)
<1> DEFINE n == Len(document.elements)
           list == data[n].prestartApps
           Elements == ElementsOf(document, "application")
<1>1. /\ n \in Nat /\ n \in 0..n /\ IsList(document.elements)
      /\ Elements \subseteq 1..n
  BY ParsingStep DEF ElementsOf, Parsing
<1>2. /\ data[n] \in DataOf(document.elements)
      /\ list \in Seq(SettingsOf(ServicesNamed(document.elements)))
  <2>1. data[n] \in DataOf(document.elements)
    BY <1>1, ParsingTyped
  <2>2. QED  BY <2>1 DEF DataOf
<1>3. IsList(list) /\ \A j \in 1..Len(list) :
                        list[j] \in SettingsOf(ServicesNamed(document.elements))
  <2> HIDE DEF list
  <2>1. QED  BY <1>2 DEF IsList
<1>4. AppsListed(document, data, n)
  BY <1>1, ParsingApps
<1>5. ComeFromElements(document, list, n) /\ FirstsListed(document, data, list, n)
  BY <1>4 DEF AppsListed
<1>6. Merged(known, list, Len(list), after)
  <2> HIDE DEF list
  <2>1. after = FoldLeft(AddKnown, known, list)
    BY DEF list
  <2>2. QED  BY <1>3, <2>1, KnownMerged
<1> HIDE DEF list, n, Elements
<1>7. ASSUME NEW s \in ServicesOf(document)
      PROVE  \E i \in Elements : /\ IsFirst(document, i) /\ ServiceAt(document, i) = s
                                /\ i - 1 \in 0..n
                                /\ \E j \in 1..Len(list) :
                                      /\ FirstEntry(list, j, s)
                                      /\ list[j] = Settings(data[i - 1],
                                                            document.elements[i].atts)
  <2>1. PICK i \in Elements : IsFirst(document, i) /\ ServiceAt(document, i) = s
    BY <1>1, FirstElementExists DEF Elements
  <2>2. i <= n /\ i - 1 \in 0..n
    BY <1>1
  <2>3. QED  BY <1>5, <2>1, <2>2 DEF FirstsListed, Elements
<1>8. {list[j].service : j \in 1..Len(list)} = ServicesOf(document)
  <2>1. ASSUME NEW j \in 1..Len(list) PROVE list[j].service \in ServicesOf(document)
    BY <1>5 DEF ComeFromElements, ServicesOf, ServiceAt
  <2>2. ASSUME NEW s \in ServicesOf(document)
        PROVE  \E j \in 1..Len(list) : list[j].service = s
    BY <1>7, <2>2 DEF FirstEntry
  <2>3. QED  BY <2>1, <2>2
<1>9. DOMAIN after = DOMAIN known \cup ServicesOf(document)
  BY <1>6, <1>8 DEF Merged
<1>10. ASSUME NEW s \in DOMAIN after \ DOMAIN known
       PROVE  /\ after[s] \in SettingsOf(ServicesNamed(document.elements))
              /\ after[s].service = s
              /\ TakesSettings(after[s], document)
  <2>1. PICK j \in 1..Len(list) : FirstEntry(list, j, s) /\ after[s] = list[j]
    BY <1>6 DEF Merged
  <2>2. PICK i \in Elements :
           /\ IsFirst(document, i) /\ i - 1 \in 0..n
           /\ \E m \in 1..Len(list) :
                 /\ FirstEntry(list, m, s)
                 /\ list[m] = Settings(data[i - 1], document.elements[i].atts)
    BY <1>7, <1>9
  <2>3. PICK m \in 1..Len(list) :
           /\ FirstEntry(list, m, s)
           /\ list[m] = Settings(data[i - 1], document.elements[i].atts)
    BY <2>2
  <2>4. j = m
    BY <1>3, <2>1, <2>3, OneFirstEntry
  <2>5. after[s] = Settings(data[i - 1], document.elements[i].atts)
    BY <2>1, <2>3, <2>4
  <2>6. data[i - 1] \in DataOf(document.elements) /\ data[i - 1].ok
    <3>1. data[i - 1] \in DataOf(document.elements)
      BY <2>2, ParsingTyped DEF n
    <3>2. \A e \in Elements : Complete(document.elements[e])
      <4>1. \A e \in Elements : e <= n
        BY <1>1
      <4>2. data[n].ok /\ n \in 0..n
        BY <1>1 DEF n
      <4>3. QED  BY <4>1, <4>2, ParsingOk DEF n, Elements
    <3>3. data[i - 1].ok
      BY <2>2, <3>2, ParsingOk DEF n, Elements
    <3>4. QED  BY <3>1, <3>3
  <2>7. (i - 1) + 1 = i
    BY <1>1
  <2>8. NumbersInForce(document, data[i - 1], i)
    <3>1. NumbersInForce(document, data[i - 1], (i - 1) + 1)
      BY <2>2, <2>6, ParsingInForce DEF n
    <3>2. QED  BY <2>7, <3>1
  <2>9. TakesSettings(Settings(data[i - 1], document.elements[i].atts), document)
    BY <1>1, <2>2, <2>6, <2>8, SettingsDocumented
  <2>10. QED  BY <1>3, <2>1, <2>5, <2>9 DEF FirstEntry
<1>11. QED  BY <1>6, <1>9, <1>10 DEF Merged, ServicesAdded

(* A reading of a well behaved document takes it over as a whole, and what *)
(* is kept is typed again.                                                 *)
ConfigurationTyped(c) ==
    /\ c.cpuLoadPollingDelay \in Ints /\ c.rePrestartDelay \in Ints
    /\ \A s \in DOMAIN c.known :
          /\ c.known[s].service = s
          /\ c.known[s].cpuLoadThreshold \in Ints
          /\ c.known[s].rePrestartTrigger \in 0..(2 * IntMax + 1)
          /\ c.known[s].forcedRePrestartNotAllowed \in BOOLEAN

(* Reading is total: what is not accepted changes nothing. *)
LEMMA ReadingParsed ==
  ASSUME NEW document, IsDocument(document), CanRead(document), NEW before
  PROVE  \E data : LET n == Len(document.elements)
                       after == ReadConfiguration(before, document)
                   IN  /\ Parsing(document, data) /\ n \in 0..n
                       /\ data[n] \in DataOf(document.elements) /\ data[n].ok
                       /\ after.known = FoldLeft(AddKnown, before.known,
                                                 data[n].prestartApps)
                       /\ after.cpuLoadPollingDelay = data[n].cpuLoadPollingDelay
                       /\ after.rePrestartDelay = data[n].rePrestartDelay
                       /\ after.allowed = data[n].allowedApps
<1> DEFINE n == Len(document.elements)
           parsed == Parse(document)
<1>1. PICK data : /\ Parsing(document, data)
                  /\ data[n] \in DataOf(document.elements)
                  /\ parsed = [data[n] EXCEPT !.ok = @ /\ document.wellFormed]
  BY ParseResult
<1>2. n \in 0..n
  BY DEF IsDocument, IsList
<1>3. ReadConfiguration(before, document) = TakeOver(before, parsed)
  BY DEF ReadConfiguration
<1>4. parsed.ok
  BY DEF CanRead
<1> HIDE DEF parsed
<1>5. /\ parsed.prestartApps = data[n].prestartApps
      /\ parsed.cpuLoadPollingDelay = data[n].cpuLoadPollingDelay
      /\ parsed.rePrestartDelay = data[n].rePrestartDelay
      /\ parsed.allowedApps = data[n].allowedApps
      /\ data[n].ok
  BY <1>1, <1>4 DEF DataOf
<1>6. QED  BY <1>1, <1>2, <1>3, <1>5 DEF TakeOver

LEMMA ReadingTyped ==
  ASSUME NEW document, IsDocument(document), NEW before, ConfigurationTyped(before)
  PROVE  ConfigurationTyped(ReadConfiguration(before, document))
<1> DEFINE n == Len(document.elements)
           after == ReadConfiguration(before, document)
<1>1. CASE ~CanRead(document)
  BY <1>1 DEF ReadConfiguration
<1>2. CASE CanRead(document)
  <2>1. PICK data : /\ Parsing(document, data)
                    /\ data[n] \in DataOf(document.elements) /\ data[n].ok
                    /\ after.known = FoldLeft(AddKnown, before.known,
                                              data[n].prestartApps)
                    /\ after.cpuLoadPollingDelay = data[n].cpuLoadPollingDelay
                    /\ after.rePrestartDelay = data[n].rePrestartDelay
    BY <1>2, ReadingParsed
  <2> HIDE DEF after
  <2>2. ServicesAdded(document, before.known, after.known)
    BY <2>1, KnownTakenOver, Zenon
  <2>3. after.cpuLoadPollingDelay \in Ints /\ after.rePrestartDelay \in Ints
    BY <2>1 DEF DataOf
  <2>4. ASSUME NEW s \in DOMAIN after.known
        PROVE  /\ after.known[s].service = s
               /\ after.known[s].cpuLoadThreshold \in Ints
               /\ after.known[s].rePrestartTrigger \in 0..(2 * IntMax + 1)
               /\ after.known[s].forcedRePrestartNotAllowed \in BOOLEAN
    <3>1. CASE s \in DOMAIN before.known
      BY <2>2, <3>1, Zenon DEF ConfigurationTyped, ServicesAdded
    <3>2. CASE s \notin DOMAIN before.known
      <4>1. /\ after.known[s] \in SettingsOf(ServicesNamed(document.elements))
            /\ after.known[s].service = s
        BY <2>2, <3>2 DEF ServicesAdded
      <4>2. QED  BY <4>1 DEF SettingsOf
    <3>3. QED  BY <3>1, <3>2
  <2>5. ConfigurationTyped(after)
    BY <2>3, <2>4 DEF ConfigurationTyped
  <2>6. QED  BY <2>5 DEF after
<1>3. QED  BY <1>1, <1>2

LEMMA ReadingTakenOver ==
  ASSUME NEW document, IsDocument(document), WellBehaved(document),
         config' = ReadConfiguration(config, document)
  PROVE  TakenOver(document)
<1> DEFINE n == Len(document.elements)
<1>1. PICK data : /\ Parsing(document, data) /\ n \in 0..n
                  /\ data[n] \in DataOf(document.elements) /\ data[n].ok
                  /\ config'.known = FoldLeft(AddKnown, config.known,
                                              data[n].prestartApps)
                  /\ config'.cpuLoadPollingDelay = data[n].cpuLoadPollingDelay
                  /\ config'.rePrestartDelay = data[n].rePrestartDelay
                  /\ config'.allowed = data[n].allowedApps
  <2>1. CanRead(document)
    BY AcceptedIffWellBehaved
  <2>2. QED  BY <2>1, ReadingParsed
<1>2. ServicesAdded(document, config.known, config'.known)
  BY <1>1, KnownTakenOver, Zenon
<1>3. NumbersInForce(document, data[n], n + 1)
  BY <1>1, ParsingInForce
<1>4. config'.allowed = PathsTo(document, n)
  BY <1>1, ParsingAllowed
<1>5. ElementsOf(document, "allow_lazy_shutdown") \subseteq 1..n
  BY <1>1, ParsingStep DEF ElementsOf
<1>6. \A j \in ElementsOf(document, "allow_lazy_shutdown") : j <= n
  BY <1>5
<1>7. PathsTo(document, n) =
        {document.elements[i].atts["binary_path"] :
            i \in {j \in ElementsOf(document, "allow_lazy_shutdown") :
                      Written(document.elements[j].atts, "binary_path")}}
  <2> HIDE DEF n
  <2>1. QED  BY <1>6 DEF PathsTo
<1>8. /\ \A s \in DOMAIN config.known : config'.known[s] = config.known[s]
      /\ DOMAIN config'.known = DOMAIN config.known \cup ServicesOf(document)
      /\ \A s \in ServicesOf(document) \ DOMAIN config.known :
            TakesSettings(config'.known[s], document)
  BY <1>2 DEF ServicesAdded
<1>9. /\ config'.cpuLoadPollingDelay =
            InForce(document, "cpu_load_polling_delay", Len(document.elements) + 1, 1)
      /\ config'.rePrestartDelay =
            InForce(document, "re-prestart_delay", Len(document.elements) + 1, 10800)
  BY <1>1, <1>3 DEF NumbersInForce
<1>10. config'.allowed =
         {document.elements[i].atts["binary_path"] :
             i \in {j \in ElementsOf(document, "allow_lazy_shutdown") :
                       Written(document.elements[j].atts, "binary_path")}}
  BY <1>4, <1>7, Zenon
<1>11. QED  BY <1>8, <1>9, <1>10 DEF TakenOver
=============================================================================
