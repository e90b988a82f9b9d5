--------------------------- MODULE StartupProofs ---------------------------
(***************************************************************************)
(* The start of the simulator and its threads, for every command line,     *)
(* every sequence of packets and every number of exceptions.  A script is  *)
(* followed call by call: a mode is what the trace and the mutex look like *)
(* to a thread, a call is allowed in some modes and leads to another one,  *)
(* and a script leads from a mode to a mode if all its calls are allowed.  *)
(* First the search of debug.c, for every number of names: the array stays *)
(* sorted, and the name, if it is there, stays between from and to.        *)
(***************************************************************************)
EXTENDS Startup, SequenceTheorems, TLAPS

NotOverrun == nb_debugged_files <= MAX_FILES_NUMBER
Filled     == 0..(nb_debugged_files - 1)

DebugTyped ==
    /\ debugged_files \in [0..MAX_FILES_NUMBER -> Nat]
    /\ nb_debugged_files \in 0..(MAX_FILES_NUMBER + 1)
    /\ wanted \subseteq Nat
    /\ search \in [name : Nat, from : Int, to : Int, answer : {"none", "sought", "yes", "no"}]

Sorted == NotOverrun =>
    \A i, j \in Filled : i <= j => debugged_files[i] <= debugged_files[j]

Stored == NotOverrun => wanted = {debugged_files[i] : i \in Filled}

(* Nothing is dropped before the array is full.                            *)
Named ==
    /\ additions \in Nat /\ nb_debugged_files <= additions
    /\ additions <= MAX_FILES_NUMBER => wanted = named

(* The loop invariant of __is_debugged.                                    *)
Between == search.answer = "sought" =>
    /\ 0 <= search.from /\ search.to <= nb_debugged_files - 1
    /\ NotOverrun =>
        \A i \in Filled : debugged_files[i] = search.name => search.from <= i /\ i <= search.to

DebugInv == DebugTyped /\ Sorted /\ Stored /\ Named /\ Between /\ SearchIsRight

----------------------------------------------------------------------------
(* DebugInit: an empty array and no search.                                *)
LEMMA InitInv == DebugInit => DebugInv
BY DebugAssumption DEF DebugInit, DebugInv, DebugTyped, Sorted, Stored, Named, Between, SearchIsRight,
   NotOverrun, Filled, NoSearch

(* add_debug_to keeps the array sorted and adds its name.                  *)
LEMMA AddInv == ASSUME DebugInv, NEW name \in Names, search = NoSearch, add_debug_to(name)
                PROVE  DebugInv'
<1> USE DebugAssumption DEF DebugInv, NotOverrun, Filled
<1>1. PICK i \in 0..MAX_FILES_NUMBER :
        /\ IsPlace(name, i)
        /\ IF i >= MAX_FILES_NUMBER
           THEN UNCHANGED <<debugged_files, nb_debugged_files, wanted>>
           ELSE /\ debugged_files' = [j \in 0..MAX_FILES_NUMBER |->
                        IF j = i THEN name
                        ELSE IF i < j /\ j <= nb_debugged_files THEN debugged_files[j - 1]
                        ELSE debugged_files[j]]
                /\ nb_debugged_files' = nb_debugged_files + 1
                /\ wanted' = wanted \cup {name}
  BY DEF add_debug_to
<1>2. search' = search /\ named' = named \cup {name} /\ additions' = additions + 1
  BY DEF add_debug_to
<1>3. CASE i >= MAX_FILES_NUMBER
  <2>1. UNCHANGED <<debugged_files, nb_debugged_files, wanted, search>>
    BY <1>1, <1>2, <1>3
  <2>2. i \in Nat /\ i <= nb_debugged_files /\ nb_debugged_files \in Nat
    BY <1>1 DEF IsPlace, DebugTyped
  <2>3. additions' \in Nat /\ nb_debugged_files' <= additions' /\ ~(additions' <= MAX_FILES_NUMBER)
    BY <1>2, <1>3, <2>1, <2>2 DEF Named
  <2>4. DebugTyped' /\ Sorted' /\ Stored' /\ Between' /\ SearchIsRight'
    BY <2>1 DEF DebugTyped, Sorted, Stored, Between, SearchIsRight
  <2> QED BY <2>3, <2>4 DEF Named
<1>4. CASE i < MAX_FILES_NUMBER
  <2>1. nb_debugged_files <= MAX_FILES_NUMBER /\ nb_debugged_files \in Nat /\ i <= nb_debugged_files
    BY <1>1 DEF add_debug_to, IsPlace, DebugTyped
  <2>2. /\ debugged_files' = [j \in 0..MAX_FILES_NUMBER |->
                        IF j = i THEN name
                        ELSE IF i < j /\ j <= nb_debugged_files THEN debugged_files[j - 1]
                        ELSE debugged_files[j]]
        /\ nb_debugged_files' = nb_debugged_files + 1
        /\ wanted' = wanted \cup {name}
    BY <1>1, <1>4
  <2>0. 0..(nb_debugged_files' - 1) = 0..nb_debugged_files
    BY <2>1, <2>2
  <2>3. DebugTyped'
    BY <2>1, <2>2, <1>2 DEF DebugTyped
  <2>4. /\ \A k \in 0..(i - 1) : debugged_files[k] < name
        /\ \A k \in i..(nb_debugged_files - 1) : name <= debugged_files[k]
    <3>1. \A k \in 0..(i - 1) : debugged_files[k] < name
      BY <1>1 DEF IsPlace
    <3>2. ASSUME NEW k \in i..(nb_debugged_files - 1) PROVE name <= debugged_files[k]
      <4>1. i \in Filled /\ k \in Filled /\ i < nb_debugged_files
        BY <2>1
      <4>2. ~(debugged_files[i] < name)
        BY <1>1, <1>4, <4>1 DEF IsPlace
      <4>3. debugged_files[i] <= debugged_files[k]
        BY <2>1, <4>1 DEF Sorted
      <4>4. debugged_files[i] \in Nat /\ debugged_files[k] \in Nat /\ name \in Nat
        BY <2>1, <4>1 DEF DebugTyped
      <4> QED BY <4>2, <4>3, <4>4
    <3> QED BY <3>1, <3>2
  <2>5. Sorted'
    <3>1. SUFFICES ASSUME nb_debugged_files + 1 <= MAX_FILES_NUMBER,
                          NEW a \in 0..nb_debugged_files, NEW b \in 0..nb_debugged_files, a <= b
                   PROVE  debugged_files'[a] <= debugged_files'[b]
      BY <2>0, <2>1, <2>2 DEF Sorted
    <3>2. /\ \A k \in Filled : debugged_files[k] \in Nat
          /\ name \in Nat
      BY <2>1 DEF DebugTyped
    <3>3. debugged_files'[a] = IF a = i THEN name ELSE IF i < a THEN debugged_files[a - 1] ELSE debugged_files[a]
      BY <2>1, <2>2, <3>1
    <3>4. debugged_files'[b] = IF b = i THEN name ELSE IF i < b THEN debugged_files[b - 1] ELSE debugged_files[b]
      BY <2>1, <2>2, <3>1
    <3>5. \A k, l \in Filled : k <= l => debugged_files[k] <= debugged_files[l]
      BY <2>1 DEF Sorted
    <3>6. CASE a < i
      <4>1. a \in Filled /\ debugged_files'[a] = debugged_files[a] /\ debugged_files[a] < name
        BY <2>1, <2>4, <3>3, <3>6
      <4>2. CASE b < i
        BY <2>1, <3>1, <3>4, <3>5, <4>1, <4>2
      <4>3. CASE b = i
        BY <3>2, <3>4, <4>1, <4>3
      <4>4. CASE b > i
        <5>1. b - 1 \in Filled /\ a <= b - 1 /\ debugged_files'[b] = debugged_files[b - 1]
          BY <2>1, <3>1, <3>4, <3>6, <4>4
        <5> QED BY <3>5, <4>1, <5>1
      <4> QED BY <4>2, <4>3, <4>4
    <3>7. CASE a = i
      <4>1. CASE b = i
        BY <3>2, <3>3, <3>4, <3>7, <4>1
      <4>2. CASE b > i
        <5>1. b - 1 \in i..(nb_debugged_files - 1) /\ debugged_files'[b] = debugged_files[b - 1]
          BY <2>1, <3>1, <3>4, <4>2
        <5> QED BY <2>4, <3>3, <3>7, <5>1
      <4> QED BY <3>1, <3>7, <4>1, <4>2
    <3>8. CASE a > i
      <4>1. a - 1 \in Filled /\ b - 1 \in Filled /\ a - 1 <= b - 1 /\ b > i
        BY <2>1, <3>1, <3>8
      <4>2. debugged_files'[a] = debugged_files[a - 1] /\ debugged_files'[b] = debugged_files[b - 1]
        BY <3>3, <3>4, <3>8, <4>1
      <4> QED BY <3>5, <4>1, <4>2
    <3> QED BY <3>6, <3>7, <3>8
  <2>6. Stored'
    <3>1. SUFFICES ASSUME nb_debugged_files + 1 <= MAX_FILES_NUMBER
                   PROVE  wanted' = {debugged_files'[a] : a \in 0..nb_debugged_files}
      BY <2>0, <2>1, <2>2 DEF Stored
    <3>2. \A a \in 0..nb_debugged_files : debugged_files'[a] =
             IF a = i THEN name ELSE IF i < a THEN debugged_files[a - 1] ELSE debugged_files[a]
      BY <2>1, <2>2, <3>1
    <3>3. wanted = {debugged_files[a] : a \in Filled}
      BY <2>1 DEF Stored
    <3>4. ASSUME NEW a \in 0..nb_debugged_files PROVE debugged_files'[a] \in wanted'
      <4>1. CASE a = i
        BY <2>2, <3>2, <4>1
      <4>2. CASE i < a
        <5>1. a - 1 \in Filled /\ debugged_files'[a] = debugged_files[a - 1]
          BY <2>1, <3>2, <4>2
        <5>2. debugged_files[a - 1] \in wanted
          BY <3>3, <5>1, Zenon
        <5> QED BY <2>2, <5>1, <5>2
      <4>3. CASE a < i
        <5>1. a \in Filled /\ debugged_files'[a] = debugged_files[a]
          BY <2>1, <3>2, <4>3
        <5>2. debugged_files[a] \in wanted
          BY <3>3, <5>1, Zenon
        <5> QED BY <2>2, <5>1, <5>2
      <4> QED BY <2>1, <4>1, <4>2, <4>3
    <3>5. ASSUME NEW n \in wanted' PROVE \E a \in 0..nb_debugged_files : debugged_files'[a] = n
      <4>1. CASE n = name
        BY <2>1, <3>2, <4>1
      <4>2. CASE n \in wanted
        <5>1. PICK k \in Filled : debugged_files[k] = n
          BY <3>3, <4>2
        <5>2. CASE k < i
          <6>1. k \in 0..nb_debugged_files /\ debugged_files'[k] = n
            BY <2>1, <3>2, <5>1, <5>2
          <6> QED BY <6>1
        <5>3. CASE k >= i
          <6>1. k + 1 \in 0..nb_debugged_files /\ k + 1 # i /\ i < k + 1 /\ k + 1 - 1 = k
            BY <2>1, <5>3
          <6>2. debugged_files'[k + 1] = n
            BY <3>2, <5>1, <6>1
          <6> QED BY <6>1, <6>2
        <5> QED BY <2>1, <5>2, <5>3
      <4> QED BY <2>2, <3>5, <4>1, <4>2
    <3> QED BY <3>4, <3>5
  <2>7. Between' /\ SearchIsRight'
    BY <1>2 DEF Between, SearchIsRight, NoSearch
  <2>8. Named'
    BY <1>2, <2>1, <2>2 DEF Named
  <2> QED BY <2>3, <2>5, <2>6, <2>7, <2>8
<1> QED BY <1>1, <1>3, <1>4

(* __is_debugged starts with the whole array.                              *)
LEMMA StartInv == ASSUME DebugInv, NEW name \in Nat, is_debugged_starts(name)
                  PROVE  DebugInv'
BY DebugAssumption DEF DebugInv, DebugTyped, Sorted, Stored, Named, Between, SearchIsRight,
   NotOverrun, Filled, is_debugged_starts, filesVars

(* A turn of the loop leaves out only names smaller, or only names greater *)
(* than the one that is sought.                                            *)
LEMMA HalvesInv == ASSUME DebugInv, SearchHalves PROVE DebugInv'
<1> USE DebugAssumption DEF DebugInv, NotOverrun, Filled
<1>1. /\ UNCHANGED <<debugged_files, nb_debugged_files, wanted, named, additions>>
      /\ search.answer = "sought" /\ search.from < search.to
  BY DEF SearchHalves, filesVars
<1>2. /\ search.from \in Nat /\ search.to \in Int /\ search.to <= nb_debugged_files - 1
      /\ nb_debugged_files \in Nat /\ nb_debugged_files <= MAX_FILES_NUMBER + 1
      /\ search.name \in Nat
  BY <1>1 DEF DebugTyped, Between
<1>3. Middle \in Filled /\ search.from <= Middle /\ Middle <= search.to
  BY <1>1, <1>2 DEF Middle
<1>4. Middle \in 0..MAX_FILES_NUMBER /\ debugged_files[Middle] \in Nat
  BY <1>2, <1>3 DEF DebugTyped
<1>5. \A i \in Filled : NotOverrun => i \in 0..MAX_FILES_NUMBER /\ debugged_files[i] \in Nat
  BY <1>2 DEF DebugTyped
<1>6. CASE debugged_files[Middle] < search.name
  <2>1. search' = [search EXCEPT !.from = Middle + 1]
    BY <1>6 DEF SearchHalves
  <2>2. DebugTyped' /\ Sorted' /\ Stored' /\ Named' /\ SearchIsRight'
    BY <1>1, <1>2, <1>3, <2>1 DEF DebugTyped, Sorted, Stored, Named, SearchIsRight
  <2>3. ASSUME NotOverrun, NEW i \in Filled, debugged_files[i] = search.name
        PROVE  Middle + 1 <= i /\ i <= search.to
    <3>1. search.from <= i /\ i <= search.to
      BY <1>1, <2>3 DEF Between
    <3>2. ~(i <= Middle)
      BY <1>3, <1>4, <1>5, <1>6, <2>3 DEF Sorted
    <3> QED BY <1>2, <1>3, <3>1, <3>2
  <2>4. Between'
    BY <1>1, <1>2, <1>3, <2>1, <2>3 DEF Between, DebugTyped
  <2> QED BY <2>2, <2>4
<1>7. CASE debugged_files[Middle] > search.name
  <2>1. search' = [search EXCEPT !.to = Middle - 1]
    BY <1>4, <1>2, <1>7 DEF SearchHalves
  <2>2. DebugTyped' /\ Sorted' /\ Stored' /\ Named' /\ SearchIsRight'
    BY <1>1, <1>2, <1>3, <2>1 DEF DebugTyped, Sorted, Stored, Named, SearchIsRight
  <2>3. ASSUME NotOverrun, NEW i \in Filled, debugged_files[i] = search.name
        PROVE  search.from <= i /\ i <= Middle - 1
    <3>1. search.from <= i /\ i <= search.to
      BY <1>1, <2>3 DEF Between
    <3>2. ~(Middle <= i)
      BY <1>3, <1>4, <1>5, <1>7, <2>3 DEF Sorted
    <3> QED BY <1>2, <1>3, <3>1, <3>2
  <2>4. Between'
    BY <1>1, <1>2, <1>3, <2>1, <2>3 DEF Between, DebugTyped
  <2> QED BY <2>2, <2>4
<1>8. CASE debugged_files[Middle] = search.name
  <2>1. search' = [search EXCEPT !.answer = "yes"]
    BY <1>2, <1>4, <1>8 DEF SearchHalves
  <2>2. NotOverrun => search.name \in wanted
    BY <1>3, <1>8 DEF Stored
  <2> QED BY <1>1, <1>2, <2>1, <2>2 DEF DebugTyped, Sorted, Stored, Named, Between, SearchIsRight
<1> QED BY <1>2, <1>4, <1>6, <1>7, <1>8

(* When at most one name is left, it is the one that is sought, or none is.*)
LEMMA EndsInv == ASSUME DebugInv, SearchEnds PROVE DebugInv'
<1> USE DebugAssumption DEF DebugInv, NotOverrun, Filled
<1>1. /\ UNCHANGED <<debugged_files, nb_debugged_files, wanted, named, additions>>
      /\ search.answer = "sought" /\ search.from >= search.to
      /\ search' = [search EXCEPT !.answer =
                     IF search.from = search.to /\ debugged_files[search.from] = search.name
                     THEN "yes" ELSE "no"]
  BY DEF SearchEnds, filesVars
<1>2. /\ search.from \in Nat /\ search.to \in Int /\ search.to <= nb_debugged_files - 1
      /\ nb_debugged_files \in Nat
  BY <1>1 DEF DebugTyped, Between
<1>3. DebugTyped' /\ Sorted' /\ Stored' /\ Named' /\ Between'
  BY <1>1 DEF DebugTyped, Sorted, Stored, Named, Between
<1>4. ASSUME NotOverrun PROVE search'.answer = "yes" <=> search.name \in wanted
  <2>1. CASE search.from = search.to /\ debugged_files[search.from] = search.name
    BY <1>1, <1>2, <1>4, <2>1 DEF Stored, DebugTyped
  <2>2. CASE ~(search.from = search.to /\ debugged_files[search.from] = search.name)
    <3>1. ASSUME NEW i \in Filled, debugged_files[i] = search.name PROVE FALSE
      <4>1. search.from <= i /\ i <= search.to
        BY <1>1, <1>4, <3>1 DEF Between
      <4> QED BY <1>1, <1>2, <2>2, <3>1, <4>1
    <3>2. search.name \notin wanted
      BY <1>4, <3>1 DEF Stored
    <3>3. search'.answer = "no"
      BY <1>1, <2>2 DEF DebugTyped
    <3> QED BY <3>2, <3>3
  <2> QED BY <2>1, <2>2
<1>5. search'.name = search.name
  BY <1>1 DEF DebugTyped
<1> QED BY <1>1, <1>3, <1>4, <1>5 DEF SearchIsRight

----------------------------------------------------------------------------
(* debug.c: whatever names the options give and in whatever order, as long *)
(* as they do not overrun the array, __is_debugged finds exactly the names *)
(* that add_debug_to has taken.                                            *)
THEOREM DebugSearchCorrect == DebugSpec => []SearchIsRight
<1>1. DebugInit => DebugInv
  BY InitInv
<1>2. DebugInv /\ [DebugNext]_debugVars => DebugInv'
  <2>1. SUFFICES ASSUME DebugInv, [DebugNext]_debugVars PROVE DebugInv'
    OBVIOUS
  <2>2. ASSUME NEW name \in Names, search = NoSearch,
               add_debug_to(name) \/ is_debugged_starts(name)
        PROVE  DebugInv'
    BY <2>1, <2>2, AddInv, StartInv, DebugAssumption
  <2>3. CASE SearchHalves
    BY <2>1, <2>3, HalvesInv
  <2>4. CASE SearchEnds
    BY <2>1, <2>4, EndsInv
  <2>5. CASE SearchReturns
    BY <2>1, <2>5 DEF SearchReturns, filesVars, NoSearch, DebugInv, DebugTyped, Sorted, Stored, Named, Between,
                      SearchIsRight, NotOverrun, Filled
  <2>6. CASE UNCHANGED debugVars
    BY <2>1, <2>6 DEF debugVars, filesVars, DebugInv, DebugTyped, Sorted, Stored, Named, Between, SearchIsRight,
                      NotOverrun, Filled
  <2> QED BY <2>1, <2>2, <2>3, <2>4, <2>5, <2>6 DEF DebugNext
<1>3. DebugInv => SearchIsRight
  BY DEF DebugInv
<1> QED BY <1>1, <1>2, <1>3, PTL DEF DebugSpec

----------------------------------------------------------------------------
Places == Locations \cup {NoLocation}
Depths == 0..2

(* held: the thread has the mutex.  stage: its server is not bound, bound, *)
(* listening.  out: the trace goes to the file of the options.  en, depth, *)
(* outer and inner: the trace is on, and the locations entered.            *)
Mode == [held : BOOLEAN, stage : 0..2, out : BOOLEAN, en : BOOLEAN,
         depth : Depths, outer : Places, inner : Places]

Calls ==
    [op : {"options", "end", "disable", "enable", "set_trace_file", "state", "lock", "unlock",
           "threads", "bind", "listen"}]
    \cup [op : {"start"}, loc : Locations]
    \cup [op : {"debug"}, file : DebugFiles]
    \cup [op : {"access"}, flag : Flags, by : {"program", "gdb", "state"}, loc : Places]

Inner(m) == IF m.depth = 2 THEN m.inner ELSE m.outer

(* The mode after a call.                                                  *)
AtOuter(m, d, loc) == [m EXCEPT !.depth = d, !.outer = loc]
AtInner(m, d, loc) == [m EXCEPT !.depth = d, !.inner = loc]
Enter(m, loc) ==
    IF ~m.en THEN m
    ELSE IF m.depth = 0 THEN AtOuter(m, 1, loc)
    ELSE AtInner(m, 2, loc)
Leave(m) ==
    IF ~m.en THEN m
    ELSE IF m.depth = 2 THEN AtInner(m, 1, NoLocation)
    ELSE AtOuter(m, 0, NoLocation)

After(c, m) ==
    IF c.op = "start" THEN Enter(m, c.loc)
    ELSE IF c.op = "end" THEN Leave(m)
    ELSE IF c.op = "disable" THEN [m EXCEPT !.en = FALSE]
    ELSE IF c.op = "enable" THEN [m EXCEPT !.en = TRUE]
    ELSE IF c.op = "set_trace_file" THEN [m EXCEPT !.out = TRUE]
    ELSE IF c.op = "lock" THEN [m EXCEPT !.held = TRUE]
    ELSE IF c.op = "unlock" THEN [m EXCEPT !.held = FALSE]
    ELSE IF c.op = "bind" THEN [m EXCEPT !.stage = 1]
    ELSE IF c.op \in {"listen", "threads"} THEN [m EXCEPT !.stage = 2]
    ELSE m

(* A call in its place.  An access of the program is traced, at its own    *)
(* location; one of gdb is not; arm_print_state enters no location.        *)
Allowed(c, m) ==
    /\ c.op # "options"
    /\ c.op \in {"start", "end", "disable", "enable", "set_trace_file", "access", "state", "unlock",
                 "threads"} => m.held
    /\ c.op \in {"lock", "bind", "listen"} => ~m.held
    /\ c.op = "start" => m.depth < 2
    /\ c.op = "end" /\ m.en => m.depth > 0
    /\ c.op \in {"access", "state"} => m.out
    /\ c.op = "access" /\ c.by = "program" => m.en /\ m.depth > 0 /\ c.loc = Inner(m)
    /\ c.op = "access" /\ c.by = "gdb" => ~m.en
    /\ c.op = "access" /\ c.by = "state" => m.depth = 0 /\ c.loc = NoLocation
    /\ c.op = "state" => m.depth = 0
    /\ c.op \in {"unlock", "threads"} => m.en /\ m.depth = 0 /\ m.out
    /\ c.op \in {"lock", "unlock"} => m.stage = 2
    /\ c.op \in {"bind", "threads"} => m.stage = 0
    /\ c.op = "listen" => m.stage = 1

(* s is carried out from mode a to mode b.                                 *)
Leads(s, a, b) ==
    /\ s \in Seq(Calls)
    /\ \E f \in [0..Len(s) -> Mode] :
         /\ f[0] = a /\ f[Len(s)] = b
         /\ \A k \in 1..Len(s) : Allowed(s[k], f[k - 1]) /\ f[k] = After(s[k], f[k - 1])

----------------------------------------------------------------------------
(* Modes are equal if their parts are.                                     *)
Alike(m, n) == m.held = n.held /\ m.stage = n.stage /\ m.out = n.out /\ m.en = n.en

(* Two modes with the same parts are one mode.                             *)
LEMMA SameMode ==
    ASSUME NEW m \in Mode, NEW n \in Mode, Alike(m, n),
           m.depth = n.depth, m.outer = n.outer, m.inner = n.inner
    PROVE  m = n
BY DEF Mode, Alike

(* Entering and leaving change the depth and one location.                 *)
IsOuter(n, m, d, l) ==
    n \in Mode /\ Alike(n, m) /\ n.depth = d /\ n.outer = l /\ n.inner = m.inner
IsInner(n, m, d, l) ==
    n \in Mode /\ Alike(n, m) /\ n.depth = d /\ n.inner = l /\ n.outer = m.outer

(* The parts of a mode that has entered its first location.                *)
LEMMA OuterParts ==
    ASSUME NEW m \in Mode, NEW d \in Depths, NEW l \in Places
    PROVE  IsOuter(AtOuter(m, d, l), m, d, l)
BY DEF Mode, Alike, AtOuter, IsOuter

(* The parts of a mode that has entered its second location.               *)
LEMMA InnerParts ==
    ASSUME NEW m \in Mode, NEW d \in Depths, NEW l \in Places
    PROVE  IsInner(AtInner(m, d, l), m, d, l)
BY DEF Mode, Alike, AtInner, IsInner

(* END_LOCATION undoes START_LOCATION.                                     *)
LEMMA LeavesWhatItEntered ==
    ASSUME NEW m \in Mode, NEW loc \in Places, m.en, m.depth < 2,
           m.depth = 0 => m.outer = NoLocation, m.inner = NoLocation
    PROVE  LET n == Enter(m, loc)
           IN  Alike(n, m) /\ n.depth > 0 /\ Leave(n) = m
<1>1. m.depth \in Depths /\ 0 \in Depths /\ 1 \in Depths /\ 2 \in Depths /\ NoLocation \in Places
  BY DEF Mode, Depths, Places
<1>2. CASE m.depth = 0
  <2>1. PICK n : n = AtOuter(m, 1, loc)
    OBVIOUS
  <2>2. n \in Mode /\ Alike(n, m) /\ n.depth = 1 /\ n.inner = m.inner
    <3>1. IsOuter(AtOuter(m, 1, loc), m, 1, loc)
      BY <1>1, OuterParts, Zenon
    <3> QED
      BY <2>1, <3>1 DEF IsOuter
  <2>3. PICK q : q = AtOuter(n, 0, NoLocation)
    OBVIOUS
  <2>4. q \in Mode /\ Alike(q, n) /\ q.depth = 0 /\ q.outer = NoLocation /\ q.inner = n.inner
    <3>1. IsOuter(AtOuter(n, 0, NoLocation), n, 0, NoLocation)
      BY <1>1, <2>2, OuterParts, Zenon
    <3> QED
      BY <2>3, <3>1 DEF IsOuter
  <2>5. Alike(q, m)
    BY <2>2, <2>4 DEF Alike
  <2>6. q = m
    BY <1>2, <2>2, <2>4, <2>5, SameMode
  <2>7. Enter(m, loc) = n
    BY <1>2, <2>1 DEF Enter
  <2>8. Leave(n) = q
    BY <2>2, <2>3 DEF Leave, Alike
  <2> QED
    BY <2>2, <2>6, <2>7, <2>8
<1>3. CASE m.depth = 1
  <2>1. PICK n : n = AtInner(m, 2, loc)
    OBVIOUS
  <2>2. n \in Mode /\ Alike(n, m) /\ n.depth = 2 /\ n.outer = m.outer
    <3>1. IsInner(AtInner(m, 2, loc), m, 2, loc)
      BY <1>1, InnerParts, Zenon
    <3> QED
      BY <2>1, <3>1 DEF IsInner
  <2>3. PICK q : q = AtInner(n, 1, NoLocation)
    OBVIOUS
  <2>4. q \in Mode /\ Alike(q, n) /\ q.depth = 1 /\ q.outer = n.outer /\ q.inner = NoLocation
    <3>1. IsInner(AtInner(n, 1, NoLocation), n, 1, NoLocation)
      BY <1>1, <2>2, InnerParts, Zenon
    <3> QED
      BY <2>3, <3>1 DEF IsInner
  <2>5. Alike(q, m)
    BY <2>2, <2>4 DEF Alike
  <2>6. q = m
    BY <1>3, <2>2, <2>4, <2>5, SameMode
  <2>7. Enter(m, loc) = n
    BY <1>3, <2>1 DEF Enter
  <2>8. Leave(n) = q
    BY <2>2, <2>3 DEF Leave, Alike
  <2> QED
    BY <2>2, <2>6, <2>7, <2>8
<1> QED
  BY <1>1, <1>2, <1>3 DEF Depths

(* A call leads from a mode to a mode.                                     *)
LEMMA AfterIsMode ==
    ASSUME NEW c \in Calls, NEW m \in Mode
    PROVE  After(c, m) \in Mode
<1>1. c.op = "start" => c.loc \in Places
  BY DEF Calls, Places
<1>2. ASSUME NEW v \in BOOLEAN
      PROVE  /\ [m EXCEPT !.en = v] \in Mode /\ [m EXCEPT !.out = v] \in Mode
             /\ [m EXCEPT !.held = v] \in Mode
  BY DEF Mode
<1>3. ASSUME NEW v \in 0..2 PROVE [m EXCEPT !.stage = v] \in Mode
  BY DEF Mode
<1>4. ASSUME NEW v \in Depths, NEW l \in Places
      PROVE  /\ AtOuter(m, v, l) \in Mode
             /\ AtInner(m, v, l) \in Mode
  BY DEF Mode, AtOuter, AtInner
<1>5. NoLocation \in Places
  BY DEF Places
<1>6. ASSUME NEW l \in Places PROVE Enter(m, l) \in Mode
  <2>1. 1 \in Depths /\ 2 \in Depths
    BY DEF Depths
  <2> QED
    BY <1>4, <2>1, Zenon DEF Enter
<1>7. Leave(m) \in Mode
  <2>1. 0 \in Depths /\ 1 \in Depths
    BY DEF Depths
  <2> QED
    BY <1>4, <1>5, <2>1, Zenon DEF Leave
<1>8. TRUE \in BOOLEAN /\ FALSE \in BOOLEAN
  OBVIOUS
<1>9. /\ [m EXCEPT !.en = FALSE] \in Mode /\ [m EXCEPT !.en = TRUE] \in Mode
      /\ [m EXCEPT !.out = TRUE] \in Mode
      /\ [m EXCEPT !.held = TRUE] \in Mode /\ [m EXCEPT !.held = FALSE] \in Mode
  BY <1>2, <1>8, Zenon
<1>10. [m EXCEPT !.stage = 1] \in Mode /\ [m EXCEPT !.stage = 2] \in Mode
  BY <1>3
<1> QED
  BY <1>1, <1>6, <1>7, <1>9, <1>10 DEF After

(* The empty script leads nowhere else.                                    *)
LEMMA EmptyLeads ==
    ASSUME NEW a \in Mode, NEW b
    PROVE  Leads(<<>>, a, b) <=> a = b
<1>1. ASSUME a = b PROVE Leads(<<>>, a, b)
  <2> DEFINE f == [i \in 0..0 |-> a]
  <2>1. f \in [0..Len(<<>>) -> Mode] /\ f[0] = a /\ f[Len(<<>>)] = b
    BY <1>1, EmptySeq
  <2>2. <<>> \in Seq(Calls) /\ 1..Len(<<>>) = {}
    BY EmptySeq
  <2> HIDE DEF f
  <2> QED
    BY <2>1, <2>2 DEF Leads
<1>2. ASSUME Leads(<<>>, a, b) PROVE a = b
  BY <1>2, EmptySeq DEF Leads
<1> QED
  BY <1>1, <1>2

(* One call.                                                               *)
LEMMA OneLeads ==
    ASSUME NEW c \in Calls, NEW a \in Mode, Allowed(c, a)
    PROVE  Leads(<<c>>, a, After(c, a))
<1> DEFINE s == <<c>>
           f == [i \in 0..1 |-> IF i = 0 THEN a ELSE After(c, a)]
<1>1. s \in Seq(Calls) /\ Len(s) = 1 /\ s[1] = c
  OBVIOUS
<1>2. f \in [0..1 -> Mode] /\ f[0] = a /\ f[1] = After(c, a)
  BY AfterIsMode
<1> HIDE DEF s, f
<1>3. \A k \in 1..Len(s) : k = 1
  BY <1>1
<1>4. Leads(s, a, After(c, a))
  BY <1>1, <1>2, <1>3 DEF Leads
<1> QED
  BY <1>4 DEF s

(* One script after the other.                                             *)
LEMMA BothLead ==
    ASSUME NEW s, NEW t, NEW a, NEW b, NEW c, Leads(s, a, b), Leads(t, b, c)
    PROVE  Leads(s \o t, a, c)
<1>1. PICK f \in [0..Len(s) -> Mode] :
        /\ f[0] = a /\ f[Len(s)] = b
        /\ \A k \in 1..Len(s) : Allowed(s[k], f[k - 1]) /\ f[k] = After(s[k], f[k - 1])
  BY DEF Leads
<1>2. PICK g \in [0..Len(t) -> Mode] :
        /\ g[0] = b /\ g[Len(t)] = c
        /\ \A k \in 1..Len(t) : Allowed(t[k], g[k - 1]) /\ g[k] = After(t[k], g[k - 1])
  BY DEF Leads
<1>3. s \in Seq(Calls) /\ t \in Seq(Calls)
  BY DEF Leads
<1> DEFINE u == s \o t
<1>4. PICK m \in Nat, n \in Nat : m = Len(s) /\ n = Len(t)
  BY <1>3, LenProperties
<1>5. u \in Seq(Calls) /\ Len(u) = m + n
      /\ \A i \in 1..(m + n) : u[i] = IF i <= m THEN s[i] ELSE t[i - m]
  BY <1>3, <1>4, ConcatProperties
<1> HIDE DEF u
<1> DEFINE h == [i \in 0..(m + n) |-> IF i <= m THEN f[i] ELSE g[i - m]]
<1>6. h \in [0..(m + n) -> Mode] /\ h[0] = a /\ h[m + n] = c
  <2>1. ASSUME NEW i \in 0..(m + n) PROVE h[i] \in Mode
    BY <1>1, <1>2, <1>4
  <2>2. h[0] = a
    BY <1>1, <1>4
  <2>3. h[m + n] = c
    <3>1. CASE n = 0
      BY <1>1, <1>2, <1>4, <3>1
    <3>2. CASE n > 0
      BY <1>2, <1>4, <3>2
    <3> QED
      BY <3>1, <3>2
  <2> QED
    BY <2>1, <2>2, <2>3
<1>7. ASSUME NEW k \in 1..(m + n)
      PROVE  Allowed(u[k], h[k - 1]) /\ h[k] = After(u[k], h[k - 1])
  <2>1. CASE k <= m
    <3>1. u[k] = s[k] /\ h[k - 1] = f[k - 1] /\ h[k] = f[k]
      BY <1>5, <2>1
    <3> HIDE DEF h
    <3> QED
      BY <1>1, <1>4, <2>1, <3>1
  <2>2. CASE k > m
    <3>1. u[k] = t[k - m] /\ h[k] = g[k - m] /\ k - m \in 1..n
      BY <1>5, <2>2
    <3>2. h[k - 1] = g[(k - m) - 1]
      <4>1. CASE k = m + 1
        BY <1>1, <1>2, <1>4, <4>1
      <4>2. CASE k > m + 1
        BY <4>2
      <4> QED
        BY <2>2, <4>1, <4>2
    <3> HIDE DEF h
    <3> QED
      BY <1>2, <1>4, <3>1, <3>2
  <2> QED
    BY <2>1, <2>2
<1> HIDE DEF h
<1>8. Leads(u, a, c)
  BY <1>5, <1>6, <1>7 DEF Leads
<1> QED
  BY <1>8 DEF u

(* The first call of a script is allowed, and the rest leads on.           *)
LEMMA FirstLeads ==
    ASSUME NEW s, NEW a, NEW b, Leads(s, a, b), s # <<>>
    PROVE  /\ Head(s) \in Calls /\ Tail(s) \in Seq(Calls) /\ a \in Mode
           /\ Allowed(Head(s), a) /\ Leads(Tail(s), After(Head(s), a), b)
<1>1. PICK f \in [0..Len(s) -> Mode] :
        /\ f[0] = a /\ f[Len(s)] = b
        /\ \A k \in 1..Len(s) : Allowed(s[k], f[k - 1]) /\ f[k] = After(s[k], f[k - 1])
  BY DEF Leads
<1>2. s \in Seq(Calls)
  BY DEF Leads
<1> DEFINE t == Tail(s)
<1>3. PICK n \in Nat : n = Len(s) /\ n > 0
  BY <1>2, LenProperties, EmptySeq
<1>4. /\ Head(s) \in Calls /\ t \in Seq(Calls) /\ Len(t) = n - 1
      /\ \A i \in 1..(n - 1) : t[i] = s[i + 1]
  BY <1>2, <1>3, HeadTailProperties
<1>5. Head(s) = s[1]
  BY <1>2, <1>3
<1> HIDE DEF t
<1> DEFINE g == [i \in 0..(n - 1) |-> f[i + 1]]
<1>6. g \in [0..(n - 1) -> Mode] /\ g[0] = f[1] /\ g[n - 1] = b
  BY <1>1, <1>3
<1>7. f[1] = After(Head(s), a) /\ Allowed(Head(s), a) /\ a \in Mode
  BY <1>1, <1>3, <1>5
<1>8. ASSUME NEW k \in 1..(n - 1)
      PROVE  Allowed(t[k], g[k - 1]) /\ g[k] = After(t[k], g[k - 1])
  <2>1. t[k] = s[k + 1] /\ g[k - 1] = f[k] /\ g[k] = f[k + 1] /\ k + 1 \in 1..n
    BY <1>4
  <2> HIDE DEF g
  <2> QED
    BY <1>1, <1>3, <2>1
<1> HIDE DEF g
<1>9. Leads(t, After(Head(s), a), b)
  BY <1>4, <1>6, <1>7, <1>8 DEF Leads
<1> QED
  BY <1>4, <1>7, <1>9 DEF t

----------------------------------------------------------------------------
(* The scripts. *)

(* The mode in which a handler, an exception or an instruction starts: the *)
(* trace is on, goes to its file, and no location is entered.              *)
Fresh(m) ==
    /\ m \in Mode /\ m.held /\ m.out /\ m.en
    /\ m.depth = 0 /\ m.outer = NoLocation /\ m.inner = NoLocation

(* A call without arguments.                                               *)
LEMMA OpLeads ==
    ASSUME NEW name \in {"disable", "enable", "set_trace_file", "state", "lock", "unlock",
                         "threads", "bind", "listen"},
           NEW m \in Mode, Allowed([op |-> name], m)
    PROVE  Leads(Op(name), m, After([op |-> name], m))
<1>1. [op |-> name] \in Calls
  BY DEF Calls
<1> QED
  BY <1>1, OneLeads DEF Op

(* debug() is allowed everywhere, and leaves the trace alone.              *)
LEMMA DebugLeads ==
    ASSUME NEW file \in DebugFiles, NEW m \in Mode
    PROVE  Leads(DebugOp(file), m, m)
<1> DEFINE c == [op |-> "debug", file |-> file]
<1>1. c \in Calls /\ c.op = "debug"
  BY DEF Calls
<1> HIDE DEF c
<1>2. Allowed(c, m) /\ After(c, m) = m
  BY <1>1 DEF Allowed, After
<1>3. Leads(<<c>>, m, m)
  BY <1>1, <1>2, OneLeads
<1> QED
  BY <1>3 DEF c, DebugOp

(* An access of the program at the location entered last.                  *)
LEMMA AccessLeads ==
    ASSUME NEW flag \in Flags, NEW m \in Mode, m.held, m.out, m.en, m.depth > 0,
           NEW loc \in Places, loc = Inner(m)
    PROVE  Leads(Access(flag, "program", loc), m, m)
<1> DEFINE c == [op |-> "access", flag |-> flag, by |-> "program", loc |-> loc]
<1>1. c \in Calls /\ c.op = "access" /\ c.by = "program" /\ c.loc = loc
  BY DEF Calls
<1> HIDE DEF c
<1>2. Allowed(c, m) /\ After(c, m) = m
  BY <1>1 DEF Allowed, After
<1>3. Leads(<<c>>, m, m)
  BY <1>1, <1>2, OneLeads
<1> QED
  BY <1>3 DEF c, Access

(* An access of gdb while the trace is off.                                *)
LEMMA GdbAccessLeads ==
    ASSUME NEW flag \in Flags, NEW m \in Mode, m.held, m.out, ~m.en, m.depth = 0
    PROVE  Leads(GdbAccess(flag), m, m)
<1> DEFINE c == [op |-> "access", flag |-> flag, by |-> "gdb", loc |-> "gdb"]
           b == [op |-> "start", loc |-> "gdb"]
           e == [op |-> "end"]
<1>1. c \in Calls /\ c.op = "access" /\ c.by = "gdb"
  BY StartupAssumption DEF Calls, SourceLines, Places
<1>2. b \in Calls /\ b.op = "start" /\ e \in Calls /\ e.op = "end"
  BY StartupAssumption DEF Calls, SourceLines
<1> HIDE DEF b, c, e
<1>3. Allowed(c, m) /\ After(c, m) = m
  BY <1>1 DEF Allowed, After
<1>4. Allowed(b, m) /\ After(b, m) = m /\ Allowed(e, m) /\ After(e, m) = m
  BY <1>2 DEF Allowed, After, Enter, Leave
<1>5. Leads(<<b>>, m, m) /\ Leads(<<c>>, m, m) /\ Leads(<<e>>, m, m)
  BY <1>1, <1>2, <1>3, <1>4, OneLeads
<1>6. Leads(<<b>> \o <<c>> \o <<e>>, m, m)
  BY <1>5, BothLead
<1> QED
  BY <1>6 DEF b, c, e, GdbAccess, Located, Access, Op

(* A traced call: its location is entered and left.                        *)
LEMMA LocatedLeads ==
    ASSUME NEW loc \in Locations, NEW calls, NEW m \in Mode, m.held, m.en, m.depth < 2,
           m.depth = 0 => m.outer = NoLocation, m.inner = NoLocation,
           Leads(calls, Enter(m, loc), Enter(m, loc))
    PROVE  Leads(Located(loc, calls), m, m)
<1> DEFINE b == [op |-> "start", loc |-> loc]
           e == [op |-> "end"]
           n == Enter(m, loc)
<1>1. b \in Calls /\ b.op = "start" /\ b.loc = loc /\ e \in Calls /\ e.op = "end"
  BY DEF Calls
<1> HIDE DEF b, e
<1>2. Allowed(b, m) /\ After(b, m) = n
  BY <1>1 DEF Allowed, After
<1>3. n \in Mode /\ n.held /\ n.en /\ n.depth > 0 /\ Leave(n) = m
  <2>1. n \in Mode
    BY <1>1, <1>2, AfterIsMode
  <2>2. loc \in Places
    BY DEF Places
  <2> QED
    BY <2>1, <2>2, LeavesWhatItEntered DEF Alike
<1> HIDE DEF n
<1>4. Allowed(e, n) /\ After(e, n) = m
  BY <1>1, <1>3 DEF Allowed, After
<1>5. Leads(<<b>>, m, n) /\ Leads(<<e>>, n, m)
  BY <1>1, <1>2, <1>3, <1>4, OneLeads
<1>6. Leads(<<b>> \o calls \o <<e>>, m, m)
  BY <1>5, BothLead DEF n
<1> QED
  BY <1>6 DEF b, e, Located, Op

(* Where the outer location, and the inner one, has been entered.          *)
LEMMA EnteredOnce ==
    ASSUME NEW m, Fresh(m), NEW loc \in Locations
    PROVE  LET n == Enter(m, loc)
           IN  /\ n \in Mode /\ n.held /\ n.out /\ n.en /\ n.depth = 1
               /\ n.outer = loc /\ n.inner = NoLocation /\ Inner(n) = loc
<1>1. PICK n : n = AtOuter(m, 1, loc)
  OBVIOUS
<1>2. Enter(m, loc) = n
  BY <1>1 DEF Fresh, Enter
<1> QED
  BY <1>1, <1>2, OuterParts DEF Fresh, Inner, Depths, Places, Alike, IsOuter

(* A call that is traced inside another traced call.                       *)
LEMMA EnteredTwice ==
    ASSUME NEW m \in Mode, m.held, m.out, m.en, m.depth = 1, NEW loc \in Locations
    PROVE  LET n == Enter(m, loc)
           IN  n \in Mode /\ n.held /\ n.out /\ n.en /\ n.depth = 2 /\ Inner(n) = loc
<1>1. PICK n : n = AtInner(m, 2, loc)
  OBVIOUS
<1>2. Enter(m, loc) = n
  BY <1>1 DEF Enter
<1> QED
  BY <1>1, <1>2, InnerParts DEF Inner, Depths, Places, Alike, IsInner

(* arm_exception.                                                          *)
LEMMA ExceptionLeads == ASSUME NEW m, Fresh(m) PROVE Leads(ExceptionCalls, m, m)
<1>1. ASSUME NEW loc \in Locations
      PROVE  Leads(Located(loc, Access("registers", "program", loc)), m, m)
  BY EnteredOnce, AccessLeads, LocatedLeads DEF Fresh, Places, Flags
<1>2. "exception_cpsr" \in Locations /\ "exception_pc" \in Locations
  BY StartupAssumption DEF SourceLines
<1> QED
  BY <1>1, <1>2, BothLead DEF ExceptionCalls

(* arm_step: the fetch, then the instruction, whose calls nest once or     *)
(* twice, then the state.                                                  *)
LEMMA StepLeads ==
    ASSUME NEW m, Fresh(m), NEW instruction
    PROVE  Leads(StepCalls(instruction), m, m)
<1> USE DEF Flags
<1>1. m \in Mode /\ m.held /\ m.out /\ m.en /\ m.depth = 0 /\ m.outer = NoLocation
      /\ m.inner = NoLocation
  BY DEF Fresh
<1>2. /\ "fetch" \in Locations /\ "outer" \in Locations /\ "inner" \in Locations
      /\ "memory" \in Locations /\ \A l \in Locations : l \in Places
  BY StartupAssumption DEF SourceLines, Places
<1>3. ASSUME NEW loc \in Locations, NEW flag \in Flags
      PROVE  Leads(Access(flag, "program", loc), Enter(m, loc), Enter(m, loc))
  BY <1>2, EnteredOnce, AccessLeads
<1>4. Leads(FetchCalls, m, m)
  <2> DEFINE calls == Access("registers", "program", "fetch") \o
                      Access("memory", "program", "fetch") \o
                      Access("registers", "program", "fetch")
  <2>1. Leads(calls, Enter(m, "fetch"), Enter(m, "fetch"))
    BY <1>2, <1>3, BothLead
  <2> HIDE DEF calls
  <2>2. Leads(Located("fetch", calls), m, m)
    BY <1>1, <1>2, <2>1, LocatedLeads
  <2> QED
    BY <2>2 DEF calls, FetchCalls
<1>5. Leads(Located("memory", Access("memory", "program", "memory")), m, m)
  BY <1>1, <1>2, <1>3, LocatedLeads
<1>6. Leads(Located("outer", Located("inner", Access("registers", "program", "inner"))
                            \o Access("registers", "program", "outer")), m, m)
  <2> DEFINE within == Located("inner", Access("registers", "program", "inner"))
  <2>1. PICK n : n = Enter(m, "outer")
    OBVIOUS
  <2>2. n \in Mode /\ n.held /\ n.out /\ n.en /\ n.depth = 1 /\ n.inner = NoLocation
    BY <1>2, <2>1, EnteredOnce
  <2>3. PICK q : q = Enter(n, "inner")
    OBVIOUS
  <2>4. q \in Mode /\ q.held /\ q.out /\ q.en /\ q.depth = 2 /\ Inner(q) = "inner"
    BY <1>2, <2>2, <2>3, EnteredTwice
  <2>5. Leads(Access("registers", "program", "inner"), q, q)
    BY <1>2, <2>4, AccessLeads
  <2>6. Leads(within, n, n)
    BY <1>2, <2>2, <2>3, <2>5, LocatedLeads
  <2>7. Leads(Access("registers", "program", "outer"), n, n)
    BY <1>2, <1>3, <2>1
  <2> HIDE DEF within
  <2>8. Leads(within \o Access("registers", "program", "outer"), n, n)
    BY <2>6, <2>7, BothLead
  <2>9. Leads(Located("outer", within \o Access("registers", "program", "outer")), m, m)
    BY <1>1, <1>2, <2>1, <2>8, LocatedLeads
  <2> QED
    BY <2>9 DEF within
<1>7. Leads(Op("state"), m, m)
  <2>1. Allowed([op |-> "state"], m) /\ After([op |-> "state"], m) = m
    BY <1>1 DEF Allowed, After
  <2> QED
    BY <1>1, <2>1, OpLeads
<1> DEFINE data  == Located("outer", Located("inner", Access("registers", "program", "inner"))
                                     \o Access("registers", "program", "outer"))
           other == Located("memory", Access("memory", "program", "memory"))
           does  == IF instruction = "data" THEN data ELSE other
<1>8. Leads(data, m, m) /\ Leads(other, m, m)
  BY <1>5, <1>6
<1> HIDE DEF data, other
<1>9. Leads(does, m, m)
  BY <1>8
<1> HIDE DEF does
<1>10. Leads(FetchCalls \o does \o Op("state"), m, m)
  BY <1>4, <1>7, <1>9, BothLead
<1> QED
  BY <1>10 DEF does, data, other, StepCalls

(* arm_print_state, after which the script goes on.                        *)
LEMMA PrintStateLeads ==
    ASSUME NEW m \in Mode, m.held, m.out, m.depth = 0
    PROVE  Leads(PrintStateCalls, m, m)
<1> DEFINE c == [op |-> "access", flag |-> "registers", by |-> "state", loc |-> NoLocation]
<1>1. c \in Calls /\ c.op = "access" /\ c.by = "state" /\ c.loc = NoLocation
  BY DEF Calls, Places, Flags
<1> HIDE DEF c
<1>2. Allowed(c, m) /\ After(c, m) = m
  BY <1>1 DEF Allowed, After
<1>3. Leads(<<c>>, m, m)
  BY <1>1, <1>2, OneLeads
<1>4. Leads(<<c>> \o <<c>>, m, m)
  BY <1>3, BothLead
<1> QED
  BY <1>4 DEF c, PrintStateCalls, Access

(* g, p, G, P and the look of cont: the trace is off in between.           *)
LEMMA InspectLeads ==
    ASSUME NEW m, Fresh(m)
    PROVE  Leads(Inspect(GdbAccess("registers")), m, m) /\ Leads(ContLook, m, m)
<1>1. PICK off \in Mode : /\ off = After([op |-> "disable"], m)
                          /\ off.held /\ off.out /\ ~off.en /\ off.depth = 0
                          /\ After([op |-> "enable"], off) = m
  <2>1. /\ After([op |-> "disable"], m) = [m EXCEPT !.en = FALSE]
        /\ \A n : After([op |-> "enable"], n) = [n EXCEPT !.en = TRUE]
    BY DEF After
  <2>2. [op |-> "disable"] \in Calls
    BY DEF Calls
  <2>3. m \in Mode /\ m.held = TRUE /\ m.out = TRUE /\ m.en = TRUE /\ m.depth = 0
    BY DEF Fresh, Mode
  <2>4. PICK off : off = [m EXCEPT !.en = FALSE]
    OBVIOUS
  <2>5. off \in Mode
    BY <2>1, <2>2, <2>3, <2>4, AfterIsMode
  <2>6. off.held = m.held /\ off.out = m.out /\ off.depth = m.depth /\ off.en = FALSE
    BY <2>3, <2>4 DEF Mode
  <2>7. [off EXCEPT !.en = TRUE] = m
    BY <2>3, <2>4 DEF Mode
  <2> QED
    BY <2>1, <2>3, <2>4, <2>5, <2>6, <2>7
<1>2. Leads(Op("disable"), m, off) /\ Leads(Op("enable"), off, m)
  <2>1. Allowed([op |-> "disable"], m) /\ Allowed([op |-> "enable"], off)
    BY <1>1 DEF Fresh, Allowed
  <2> QED
    BY <1>1, <2>1, OpLeads DEF Fresh
<1>3. Leads(GdbAccess("registers"), off, off) /\ Leads(GdbAccess("memory"), off, off)
  BY <1>1, GdbAccessLeads DEF Flags
<1>4. Leads(GdbAccess("registers") \o GdbAccess("memory"), off, off)
  BY <1>3, BothLead
<1>5. ASSUME NEW calls, Leads(calls, off, off) PROVE Leads(Inspect(calls), m, m)
  BY <1>2, <1>5, BothLead DEF Inspect
<1> QED
  BY <1>3, <1>4, <1>5 DEF ContLook

(* Every handler of the gdb protocol.                                      *)
LEMMA HandlerLeads ==
    ASSUME NEW m, Fresh(m), NEW c
    PROVE  Leads(HandlerCalls(c), m, m)
<1>1. Leads(<<>>, m, m)
  BY EmptyLeads DEF Fresh
<1>2. Leads(ContLook \o StepCalls(c[2]) \o ContLook, m, m)
  BY InspectLeads, StepLeads, BothLead
<1> QED
  BY <1>1, <1>2, InspectLeads, StepLeads DEF HandlerCalls

(* A server thread before bind, and between two packets or exceptions; a   *)
(* thread in a handler; and main before and after pthread_create.          *)
Unbound  == [held |-> FALSE, stage |-> 0, out |-> TRUE, en |-> TRUE, depth |-> 0,
             outer |-> NoLocation, inner |-> NoLocation]
Done     == [held |-> FALSE, stage |-> 2, out |-> TRUE, en |-> TRUE, depth |-> 0,
             outer |-> NoLocation, inner |-> NoLocation]
Taken    == [held |-> TRUE, stage |-> 2, out |-> TRUE, en |-> TRUE, depth |-> 0,
             outer |-> NoLocation, inner |-> NoLocation]
Created  == [held |-> TRUE, stage |-> 0, out |-> TRUE, en |-> TRUE, depth |-> 0,
             outer |-> NoLocation, inner |-> NoLocation]

(* These are modes.                                                        *)
LEMMA ServerModes ==
    /\ Unbound \in Mode /\ Done \in Mode /\ Fresh(Taken) /\ Fresh(Created)
    /\ Taken \in Mode /\ Created \in Mode
<1>1. NoLocation \in Places /\ 0 \in Depths /\ 0 \in 0..2 /\ 2 \in 0..2
  BY DEF Places, Depths
<1>2. Unbound \in Mode /\ Done \in Mode
  BY <1>1 DEF Unbound, Done, Mode
<1>3. Taken \in Mode /\ Created \in Mode
  BY <1>1 DEF Taken, Created, Mode
<1>4. /\ Taken.held /\ Taken.out /\ Taken.en
      /\ Taken.depth = 0 /\ Taken.outer = NoLocation /\ Taken.inner = NoLocation
  BY DEF Taken
<1>5. /\ Created.held /\ Created.out /\ Created.en
      /\ Created.depth = 0 /\ Created.outer = NoLocation /\ Created.inner = NoLocation
  BY DEF Created
<1> QED
  BY <1>2, <1>3, <1>4, <1>5 DEF Fresh

(* The mutex, bind, listen and pthread_create.                             *)
LEMMA ServerCallsLead ==
    /\ Leads(Op("lock"), Done, Taken) /\ Leads(Op("unlock"), Taken, Done)
    /\ Leads(Op("bind") \o Op("listen"), Unbound, Done)
    /\ Leads(Op("threads"), Created, Taken)
<1>1. Leads(Op("lock"), Done, Taken)
  <2>1. Allowed([op |-> "lock"], Done)
    BY DEF Allowed, Done
  <2>2. After([op |-> "lock"], Done) = Taken
    BY DEF After, Done, Taken
  <2> QED
    BY <2>1, <2>2, ServerModes, OpLeads
<1>2. Leads(Op("unlock"), Taken, Done)
  <2>1. Allowed([op |-> "unlock"], Taken)
    BY DEF Allowed, Taken
  <2>2. After([op |-> "unlock"], Taken) = Done
    BY DEF After, Done, Taken
  <2> QED
    BY <2>1, <2>2, ServerModes, OpLeads
<1>3. Leads(Op("threads"), Created, Taken)
  <2>1. Allowed([op |-> "threads"], Created)
    BY DEF Allowed, Created
  <2>2. After([op |-> "threads"], Created) = Taken
    BY DEF After, Created, Taken
  <2> QED
    BY <2>1, <2>2, ServerModes, OpLeads
<1>4. Leads(Op("bind") \o Op("listen"), Unbound, Done)
  <2> DEFINE n == [Unbound EXCEPT !.stage = 1]
  <2>1. Allowed([op |-> "bind"], Unbound)
    BY DEF Allowed, Unbound
  <2>2. After([op |-> "bind"], Unbound) = n
    BY DEF After
  <2>3. Allowed([op |-> "listen"], n)
    BY DEF Allowed, Unbound
  <2>4. After([op |-> "listen"], n) = Done
    BY DEF After, Done, Unbound
  <2>5. [op |-> "bind"] \in Calls
    BY DEF Calls
  <2> HIDE DEF n
  <2>6. n \in Mode
    BY <2>2, <2>5, ServerModes, AfterIsMode
  <2>7. Leads(Op("bind"), Unbound, n) /\ Leads(Op("listen"), n, Done)
    BY <2>1, <2>2, <2>3, <2>4, <2>6, ServerModes, OpLeads
  <2> QED
    BY <2>7, BothLead
<1> QED
  BY <1>1, <1>2, <1>3, <1>4

(* A packet and an exception leave everything as they found it.            *)
LEMMA PacketLeads ==
    ASSUME NEW c
    PROVE  Leads(DebugOp(ScannerFile) \o DebugOp(GdbProtocolFile) \o Op("lock") \o
                 HandlerCalls(c) \o DebugOp(GdbProtocolFile) \o Op("unlock"), Done, Done)
<1>1. ASSUME NEW m \in Mode
      PROVE  Leads(DebugOp(ScannerFile), m, m) /\ Leads(DebugOp(GdbProtocolFile), m, m)
  BY DebugLeads DEF DebugFiles
<1>2. Leads(HandlerCalls(c), Taken, Taken)
  BY HandlerLeads, ServerModes
<1>3. Leads(DebugOp(ScannerFile) \o DebugOp(GdbProtocolFile), Done, Done)
  BY <1>1, ServerModes, BothLead
<1>4. Leads(DebugOp(GdbProtocolFile), Taken, Taken)
  BY <1>1, ServerModes
<1> QED
  BY <1>2, <1>3, <1>4, ServerCallsLead, BothLead

(* The irq thread: the exception, or none, between lock and unlock.        *)
LEMMA IrqLeads ==
    ASSUME NEW calls \in {<<>>, ExceptionCalls}
    PROVE  Leads(Op("lock") \o calls \o Op("unlock"), Done, Done)
<1>1. Leads(<<>>, Taken, Taken)
  BY EmptyLeads, ServerModes
<1>2. Leads(ExceptionCalls, Taken, Taken)
  BY ExceptionLeads, ServerModes
<1>3. Leads(calls, Taken, Taken)
  BY <1>1, <1>2
<1> QED
  BY <1>3, ServerCallsLead, BothLead

(* main: the trace file is set before the first traced call.               *)
LEMMA MainLeads ==
    ASSUME NEW m \in Mode, After([op |-> "set_trace_file"], m) = Created, m.held
    PROVE  Leads(MainCalls, m, Taken)
<1>1. Leads(DebugOp(GdbProtocolFile), m, m)
  BY DebugLeads DEF DebugFiles
<1>2. Leads(Op("set_trace_file"), m, Created)
  <2>1. Allowed([op |-> "set_trace_file"], m)
    BY DEF Allowed
  <2> QED
    BY <2>1, OpLeads
<1>3. Leads(ExceptionCalls, Created, Created)
  BY ExceptionLeads, ServerModes
<1> QED
  BY <1>1, <1>2, <1>3, ServerCallsLead, BothLead DEF MainCalls

----------------------------------------------------------------------------
(* The mode that a trace x stands for: View for the thread that may use    *)
(* the trace, Aside for the others.                                        *)
View(x, file, stage) ==
    [held |-> TRUE, stage |-> stage, out |-> x.output = file, en |-> x.enabled,
     depth |-> x.top + 1,
     outer |-> IF x.top >= 0 THEN x.stack[0] ELSE NoLocation,
     inner |-> IF x.top >= 1 THEN x.stack[1] ELSE NoLocation]
Aside(stage) ==
    [held |-> FALSE, stage |-> stage, out |-> TRUE, en |-> TRUE, depth |-> 0,
     outer |-> NoLocation, inner |-> NoLocation]

(* A view is a mode as long as at most two locations are entered.          *)
LEMMA ViewIsMode ==
    ASSUME NEW x \in TraceStates, NEW file, NEW stage \in 0..2
    PROVE  View(x, file, stage) \in Mode <=> x.top < 2
<1>1. ASSUME x.top < 2 PROVE View(x, file, stage) \in Mode
  <2>1. x.top \in Int /\ x.top >= -1 /\ x.top + 1 \in Depths
    BY <1>1 DEF TraceStates, Depths
  <2>2. (IF x.top >= 0 THEN x.stack[0] ELSE NoLocation) \in Places
    BY TraceAssumption DEF TraceStates, Places
  <2>3. (IF x.top >= 1 THEN x.stack[1] ELSE NoLocation) \in Places
    BY StartupAssumption, TraceAssumption DEF TraceStates, Places
  <2>4. x.enabled \in BOOLEAN
    BY DEF TraceStates
  <2> QED
    BY <2>1, <2>2, <2>3, <2>4 DEF View, Mode
<1>2. ASSUME View(x, file, stage) \in Mode PROVE x.top < 2
  <2>1. View(x, file, stage).depth = x.top + 1
    BY DEF View
  <2>2. View(x, file, stage).depth \in Depths
    BY <1>2 DEF Mode
  <2>3. x.top \in Int
    BY DEF TraceStates
  <2> QED
    BY <2>1, <2>2, <2>3 DEF Depths
<1> QED
  BY <1>1, <1>2

(* The parts of a trace whose stack, or whose switches, are changed.       *)
Stacked(x, n, st) == [x EXCEPT !.top = n, !.stack = st]
IsStacked(y, x, n, st) ==
    /\ y \in TraceStates /\ y.top = n /\ y.stack = st
    /\ y.output = x.output /\ y.enabled = x.enabled /\ y.flags = x.flags

(* The parts of a trace with another stack.                                *)
LEMMA StackParts ==
    ASSUME NEW x \in TraceStates, NEW n \in -1..(MAX_LOCATIONS - 1),
           NEW st \in [0..(MAX_LOCATIONS - 1) -> Places]
    PROVE  IsStacked(Stacked(x, n, st), x, n, st)
BY DEF TraceStates, Places, Stacked, IsStacked

Switched(x, b) == [x EXCEPT !.enabled = b]
IsSwitched(y, x, b) ==
    /\ y \in TraceStates /\ y.top = x.top /\ y.stack = x.stack
    /\ y.output = x.output /\ y.enabled = b /\ y.flags = x.flags
Sent(x, file) == [x EXCEPT !.output = file]
IsSent(y, x, file) ==
    /\ y \in TraceStates /\ y.top = x.top /\ y.stack = x.stack
    /\ y.output = file /\ y.enabled = x.enabled /\ y.flags = x.flags

(* The parts of a trace that is switched, or sent to a file.               *)
LEMMA SwitchParts ==
    ASSUME NEW x \in TraceStates, NEW b \in BOOLEAN, NEW file \in Outputs
    PROVE  IsSwitched(Switched(x, b), x, b) /\ IsSent(Sent(x, file), x, file)
BY DEF TraceStates, Switched, IsSwitched, Sent, IsSent

(* START_LOCATION.                                                         *)
LEMMA StartIsEnter ==
    ASSUME NEW x \in TraceStates, NEW file, NEW stage \in 0..2, NEW loc \in Locations, x.top < 1
    PROVE  /\ trace_start_location(x, loc) \in TraceStates
           /\ View(trace_start_location(x, loc), file, stage) = Enter(View(x, file, stage), loc)
<1>1. PICK y : y = trace_start_location(x, loc)
  OBVIOUS
<1>2. PICK v : v = View(x, file, stage)
  OBVIOUS
<1>3. v \in Mode /\ v.en = x.enabled /\ v.depth = x.top + 1 /\ loc \in Places
  <2>1. x.top < 2
    BY DEF TraceStates
  <2>2. v \in Mode
    BY <1>2, <2>1, ViewIsMode
  <2> QED
    BY <1>2, <2>2 DEF View, Places
<1>4. CASE ~x.enabled
  BY <1>1, <1>2, <1>3, <1>4 DEF trace_start_location, Enter
<1>5. CASE x.enabled
  <2>1. x.top \in Int /\ x.top >= -1 /\ MAX_LOCATIONS \in Nat /\ MAX_LOCATIONS >= 2
        /\ x.stack \in [0..(MAX_LOCATIONS - 1) -> Places]
    BY StartupAssumption, TraceAssumption DEF TraceStates, Places
  <2>2. y = [x EXCEPT !.top = x.top + 1,
                      !.stack = [i \in DOMAIN x.stack |->
                                   IF i = x.top + 1 THEN loc ELSE x.stack[i]]]
    BY <1>1, <1>5 DEF trace_start_location, TraceStates
  <2> DEFINE st == [i \in DOMAIN x.stack |-> IF i = x.top + 1 THEN loc ELSE x.stack[i]]
  <2>3. /\ st \in [0..(MAX_LOCATIONS - 1) -> Places]
        /\ st[x.top + 1] = loc /\ (x.top = 0 => st[0] = x.stack[0])
    BY <1>3, <2>1
  <2>11. y = [x EXCEPT !.top = x.top + 1, !.stack = st]
    BY <2>2
  <2> HIDE DEF st
  <2>4. /\ y \in TraceStates /\ y.top = x.top + 1 /\ y.stack = st
        /\ y.output = x.output /\ y.enabled = x.enabled
    <3>1. PICK n \in -1..(MAX_LOCATIONS - 1) : n = x.top + 1
      BY <2>1
    <3>2. y = Stacked(x, n, st)
      BY <2>11, <3>1 DEF Stacked
    <3>3. IsStacked(y, x, n, st)
      BY <2>3, <3>2, StackParts, Zenon
    <3> QED
      BY <3>1, <3>3 DEF IsStacked
  <2>5. PICK w : w = View(y, file, stage)
    OBVIOUS
  <2>6. w \in Mode /\ Alike(w, v) /\ w.depth = x.top + 2
        /\ w.outer = st[0] /\ w.inner = IF x.top = 0 THEN loc ELSE NoLocation
    <3>1. w \in Mode
      BY <2>1, <2>4, <2>5, ViewIsMode
    <3>2. Alike(w, v)
      BY <1>2, <2>4, <2>5 DEF View, Alike
    <3>3. w.depth = y.top + 1 /\ w.outer = (IF y.top >= 0 THEN y.stack[0] ELSE NoLocation)
          /\ w.inner = IF y.top >= 1 THEN y.stack[1] ELSE NoLocation
      BY <2>5 DEF View
    <3> QED
      BY <2>1, <2>3, <2>4, <3>1, <3>2, <3>3
  <2>7. v.outer = (IF x.top >= 0 THEN x.stack[0] ELSE NoLocation) /\ v.inner = NoLocation
    BY <1>2, <2>1 DEF View
  <2>8. 1 \in Depths /\ 2 \in Depths
    BY DEF Depths
  <2>9. CASE x.top = -1
    <3>1. PICK q : q = AtOuter(v, 1, loc)
      OBVIOUS
    <3>2. IsOuter(AtOuter(v, 1, loc), v, 1, loc)
      BY <1>3, <2>8, OuterParts, Zenon
    <3>3. q \in Mode /\ Alike(q, v) /\ q.depth = 1 /\ q.outer = loc /\ q.inner = v.inner
      BY <3>1, <3>2 DEF IsOuter
    <3>4. Alike(w, q)
      BY <2>6, <3>3 DEF Alike
    <3>5. w = q
      BY <2>3, <2>6, <2>7, <2>9, <3>3, <3>4, SameMode
    <3>6. Enter(v, loc) = q
      BY <1>3, <1>5, <2>9, <3>1 DEF Enter
    <3> QED
      BY <1>1, <1>2, <2>4, <2>5, <3>5, <3>6
  <2>10. CASE x.top = 0
    <3>1. PICK q : q = AtInner(v, 2, loc)
      OBVIOUS
    <3>2. IsInner(AtInner(v, 2, loc), v, 2, loc)
      BY <1>3, <2>8, InnerParts, Zenon
    <3>3. q \in Mode /\ Alike(q, v) /\ q.depth = 2 /\ q.inner = loc /\ q.outer = v.outer
      BY <3>1, <3>2 DEF IsInner
    <3>4. Alike(w, q)
      BY <2>6, <3>3 DEF Alike
    <3>5. w = q
      BY <2>3, <2>6, <2>7, <2>10, <3>3, <3>4, SameMode
    <3>6. Enter(v, loc) = q
      BY <1>3, <1>5, <2>10, <3>1 DEF Enter
    <3> QED
      BY <1>1, <1>2, <2>4, <2>5, <3>5, <3>6
  <2> QED
    BY <2>1, <2>9, <2>10
<1> QED
  BY <1>4, <1>5

(* END_LOCATION.                                                           *)
LEMMA EndIsLeave ==
    ASSUME NEW x \in TraceStates, NEW file, NEW stage \in 0..2, x.top < 2,
           x.enabled => x.top >= 0
    PROVE  /\ trace_end_location(x) \in TraceStates
           /\ View(trace_end_location(x), file, stage) = Leave(View(x, file, stage))
<1>1. PICK y : y = trace_end_location(x)
  OBVIOUS
<1>2. PICK v : v = View(x, file, stage)
  OBVIOUS
<1>3. v \in Mode /\ v.en = x.enabled /\ v.depth = x.top + 1 /\ NoLocation \in Places
  BY <1>2, ViewIsMode DEF View, Places, TraceStates
<1>4. CASE ~x.enabled
  BY <1>1, <1>2, <1>3, <1>4 DEF trace_end_location, Leave
<1>5. CASE x.enabled
  <2>1. x.top \in Int /\ x.top >= 0
    BY <1>5 DEF TraceStates
  <2>2. y = [x EXCEPT !.top = x.top - 1]
    BY <1>1, <1>5 DEF trace_end_location
  <2>4. /\ y \in TraceStates /\ y.top = x.top - 1 /\ y.stack = x.stack
        /\ y.output = x.output /\ y.enabled = x.enabled
    <3>1. PICK n \in -1..(MAX_LOCATIONS - 1) : n = x.top - 1
      BY <2>1, TraceAssumption DEF TraceStates
    <3>2. x.stack \in [0..(MAX_LOCATIONS - 1) -> Places]
      BY DEF TraceStates, Places
    <3>3. y = Stacked(x, n, x.stack)
      BY <2>2, <3>1 DEF TraceStates, Stacked
    <3>4. IsStacked(y, x, n, x.stack)
      BY <3>2, <3>3, StackParts, Zenon
    <3> QED
      BY <3>1, <3>4 DEF IsStacked
  <2>5. PICK w : w = View(y, file, stage)
    OBVIOUS
  <2>6. w \in Mode /\ Alike(w, v) /\ w.depth = x.top
        /\ w.outer = (IF x.top >= 1 THEN x.stack[0] ELSE NoLocation) /\ w.inner = NoLocation
    <3>1. w \in Mode
      BY <2>1, <2>4, <2>5, ViewIsMode
    <3>2. Alike(w, v)
      BY <1>2, <2>4, <2>5 DEF View, Alike
    <3>3. w.depth = y.top + 1 /\ w.outer = (IF y.top >= 0 THEN y.stack[0] ELSE NoLocation)
          /\ w.inner = IF y.top >= 1 THEN y.stack[1] ELSE NoLocation
      BY <2>5 DEF View
    <3> QED
      BY <2>1, <2>4, <3>1, <3>2, <3>3
  <2>7. v.outer = x.stack[0] /\ (x.top = 0 => v.inner = NoLocation)
    BY <1>2, <2>1 DEF View
  <2>8. 0 \in Depths /\ 1 \in Depths
    BY DEF Depths
  <2>9. CASE x.top = 0
    <3>1. PICK q : q = AtOuter(v, 0, NoLocation)
      OBVIOUS
    <3>2. IsOuter(AtOuter(v, 0, NoLocation), v, 0, NoLocation)
      BY <1>3, <2>8, OuterParts, Zenon
    <3>3. q \in Mode /\ Alike(q, v) /\ q.depth = 0 /\ q.outer = NoLocation /\ q.inner = v.inner
      BY <3>1, <3>2 DEF IsOuter
    <3>4. Alike(w, q)
      BY <2>6, <3>3 DEF Alike
    <3>5. w = q
      BY <2>6, <2>7, <2>9, <3>3, <3>4, SameMode
    <3>6. Leave(v) = q
      BY <1>3, <1>5, <2>9, <3>1 DEF Leave
    <3> QED
      BY <1>1, <1>2, <2>4, <2>5, <3>5, <3>6
  <2>10. CASE x.top = 1
    <3>1. PICK q : q = AtInner(v, 1, NoLocation)
      OBVIOUS
    <3>2. IsInner(AtInner(v, 1, NoLocation), v, 1, NoLocation)
      BY <1>3, <2>8, InnerParts, Zenon
    <3>3. q \in Mode /\ Alike(q, v) /\ q.depth = 1 /\ q.inner = NoLocation /\ q.outer = v.outer
      BY <3>1, <3>2 DEF IsInner
    <3>4. Alike(w, q)
      BY <2>6, <3>3 DEF Alike
    <3>5. w = q
      BY <2>6, <2>7, <2>10, <3>3, <3>4, SameMode
    <3>6. Leave(v) = q
      BY <1>3, <1>5, <2>10, <3>1 DEF Leave
    <3> QED
      BY <1>1, <1>2, <2>4, <2>5, <3>5, <3>6
  <2> QED
    BY <2>1, <2>9, <2>10
<1> QED
  BY <1>4, <1>5

(* trace_disable, trace_enable and set_trace_file.                         *)
SwitchesAre(v, x, file, stage) ==
    /\ trace_disable(x) \in TraceStates /\ trace_enable(x) \in TraceStates
    /\ set_trace_file(x, file) \in TraceStates
    /\ View(trace_disable(x), file, stage) = [v EXCEPT !.en = FALSE]
    /\ View(trace_enable(x), file, stage) = [v EXCEPT !.en = TRUE]
    /\ View(set_trace_file(x, file), file, stage) = [v EXCEPT !.out = TRUE]

(* The switches of trace.c are those of the mode.                          *)
LEMMA SwitchesView ==
    ASSUME NEW x \in TraceStates, NEW file \in Outputs, NEW stage \in 0..2, x.top < 2
    PROVE  SwitchesAre(View(x, file, stage), x, file, stage)
<1>1. PICK v : v = View(x, file, stage)
  OBVIOUS
<1>2. v \in Mode
  BY <1>1, ViewIsMode
<1>3. ASSUME NEW b \in BOOLEAN
      PROVE  Switched(x, b) \in TraceStates /\ View(Switched(x, b), file, stage) = [v EXCEPT !.en = b]
  <2>1. PICK y : y = Switched(x, b)
    OBVIOUS
  <2>2. IsSwitched(y, x, b)
    BY <2>1, SwitchParts, Zenon
  <2>3. PICK w : w = View(y, file, stage)
    OBVIOUS
  <2>4. w \in Mode
    BY <2>2, <2>3, ViewIsMode DEF IsSwitched
  <2>5. PICK n : n = [v EXCEPT !.en = b]
    OBVIOUS
  <2>6. /\ n \in Mode /\ n.held = v.held /\ n.stage = v.stage /\ n.out = v.out /\ n.en = b
        /\ n.depth = v.depth /\ n.outer = v.outer /\ n.inner = v.inner
    BY <1>2, <2>5 DEF Mode
  <2>7. /\ w.held = v.held /\ w.stage = v.stage /\ w.out = v.out /\ w.en = b
        /\ w.depth = v.depth /\ w.outer = v.outer /\ w.inner = v.inner
    BY <1>1, <2>2, <2>3 DEF IsSwitched, View
  <2>8. w = n
    BY <2>4, <2>6, <2>7, SameMode DEF Alike
  <2> QED
    BY <2>1, <2>2, <2>3, <2>5, <2>8 DEF IsSwitched
<1>4. Sent(x, file) \in TraceStates /\ View(Sent(x, file), file, stage) = [v EXCEPT !.out = TRUE]
  <2>1. PICK y : y = Sent(x, file)
    OBVIOUS
  <2>2. IsSent(y, x, file)
    <3>1. TRUE \in BOOLEAN
      OBVIOUS
    <3> QED
      BY <2>1, <3>1, SwitchParts, Zenon
  <2>3. PICK w : w = View(y, file, stage)
    OBVIOUS
  <2>4. w \in Mode
    BY <2>2, <2>3, ViewIsMode DEF IsSent
  <2>5. PICK n : n = [v EXCEPT !.out = TRUE]
    OBVIOUS
  <2>6. /\ n \in Mode /\ n.held = v.held /\ n.stage = v.stage /\ n.out = TRUE /\ n.en = v.en
        /\ n.depth = v.depth /\ n.outer = v.outer /\ n.inner = v.inner
    BY <1>2, <2>5 DEF Mode
  <2>7. /\ w.held = v.held /\ w.stage = v.stage /\ w.out = TRUE /\ w.en = v.en
        /\ w.depth = v.depth /\ w.outer = v.outer /\ w.inner = v.inner
    BY <1>1, <2>2, <2>3 DEF IsSent, View
  <2>8. w = n
    BY <2>4, <2>6, <2>7, SameMode DEF Alike
  <2> QED
    BY <2>1, <2>2, <2>3, <2>5, <2>8 DEF IsSent
<1>5. TRUE \in BOOLEAN /\ FALSE \in BOOLEAN
  OBVIOUS
<1>6. /\ trace_disable(x) = Switched(x, FALSE) /\ trace_enable(x) = Switched(x, TRUE)
      /\ set_trace_file(x, file) = Sent(x, file)
  BY Zenon DEF trace_disable, trace_enable, set_trace_file, Switched, Sent
<1> QED
  BY <1>1, <1>3, <1>4, <1>5, <1>6, Zenon DEF SwitchesAre

----------------------------------------------------------------------------
(* The inductive invariant.  A thread that has work to do is in a mode     *)
(* from which its script leads to the end, with everything given back.     *)

Servers == {"gdb", "irq"}

StageOf(t, b, l) == IF t = "main" THEN 0 ELSE IF t \in l THEN 2 ELSE IF b[t] # 0 THEN 1 ELSE 0
CurOf(t, lk, x, file, stage) ==
    IF t = lk \/ t = "main" THEN View(x, file, stage) ELSE Aside(stage)
Cur(t)  == CurOf(t, lock, tr, trace_file, StageOf(t, bound, listening))
Goal(t) == IF t = "main" THEN Taken ELSE Done

Active(t) == IF t = "main" THEN script["main"] # <<>> /\ script["main"] # Op("options")
             ELSE script["main"] = <<>>

Followed == exit = "no" => \A t \in Threads : Active(t) => Leads(script[t], Cur(t), Goal(t))

(* The rest of the state is typed, a server is bound where it was told to, *)
(* and only one that listens takes the mutex.                              *)
Typed ==
    /\ argv \in Seq(Arguments) /\ trace_file \in Outputs
    /\ port \in [Servers -> Nat] /\ bound \in [Servers -> Nat] /\ listening \subseteq Servers
    /\ script \in [Threads -> Seq(Calls)]
    /\ lock # "free" => lock \in listening
    /\ \A t \in Servers : bound[t] # 0 /\ port[t] # 0 => bound[t] = port[t]

(* main alone before pthread_create, and its options before all.           *)
MainAlone == script["main"] # <<>> =>
    /\ lock = "free" /\ listening = {} /\ bound = [t \in Servers |-> 0]
    /\ \A t \in Servers : script[t] = <<>>
OptionsFirst == script["main"] = Op("options") =>
    /\ line = NoLine /\ search = NoSearch /\ cache = [f \in DebugFiles |-> "unset"]
    /\ tr.enabled /\ tr.top = -1

FileSet  == script["main"] = <<>> => tr.output = trace_file
Searched == search.answer # "none" => search.name \in DebugFiles

StartupInv ==
    /\ StartTypeOK /\ Typed /\ MainAlone /\ OptionsFirst /\ Followed
    /\ FileSet /\ TraceIsHandedOver /\ TraceIsFaithful /\ ServersApart
    /\ DebugInv /\ Searched /\ DebugSelects

(* The options are neither nothing nor followed by anything.               *)
LEMMA OptionsScript ==
    /\ Op("options") # <<>> /\ Head(Op("options")).op = "options"
    /\ Op("options") \in Seq(Calls)
<1> DEFINE c == [op |-> "options"]
<1>1. c \in Calls /\ c.op = "options"
  BY DEF Calls
<1> HIDE DEF c
<1>2. <<c>> # <<>> /\ Head(<<c>>) = c /\ <<c>> \in Seq(Calls)
  BY <1>1
<1> QED
  BY <1>1, <1>2 DEF c, Op

(* Before pthread_create main has something to do.                         *)
LEMMA MainHasWork ==
    ASSUME NEW s, NEW m, Leads(s, m, Taken), m.stage = 0
    PROVE  s # <<>> /\ s # Op("options")
<1>1. m \in Mode
  BY DEF Leads
<1>2. Taken.stage = 2
  BY DEF Taken
<1>3. s # <<>>
  BY <1>1, <1>2, EmptyLeads
<1>4. Allowed(Head(s), m)
  BY <1>3, FirstLeads
<1> QED
  BY <1>3, <1>4, OptionsScript DEF Allowed

(* The next call of a script.                                              *)
LEMMA NextCall ==
    ASSUME StartupInv, NEW t \in Threads, NEW op, op # "options", Ready(t, op)
    PROVE  /\ Active(t) /\ exit = "no" /\ script[t] # <<>> /\ Cur(t) \in Mode
           /\ Leads(script[t], Cur(t), Goal(t))
           /\ Head(script[t]) \in Calls /\ Head(script[t]).op = op
           /\ Allowed(Head(script[t]), Cur(t))
           /\ Tail(script[t]) \in Seq(Calls)
           /\ Leads(Tail(script[t]), After(Head(script[t]), Cur(t)), Goal(t))
<1>1. exit = "no" /\ script[t] # <<>> /\ Head(script[t]).op = op
  BY DEF Ready
<1>2. Active(t)
  <2>1. CASE t = "main"
    BY <1>1, <2>1, OptionsScript DEF Active
  <2>2. CASE t # "main"
    BY <1>1, <2>2 DEF Active, StartupInv, MainAlone, Threads, Servers
  <2> QED
    BY <2>1, <2>2
<1>3. Leads(script[t], Cur(t), Goal(t))
  BY <1>1, <1>2 DEF StartupInv, Followed
<1> QED
  BY <1>1, <1>2, <1>3, FirstLeads

(* A stage is a stage, and is seen in the mode.                            *)
LEMMA CurStage ==
    ASSUME NEW t, NEW lk, NEW x, NEW file, NEW b, NEW l
    PROVE  /\ StageOf(t, b, l) \in 0..2
           /\ CurOf(t, lk, x, file, StageOf(t, b, l)).stage = StageOf(t, b, l)
           /\ CurOf("main", lk, x, file, StageOf("main", b, l)).stage = 0
<1>1. ASSUME NEW u, NEW n
      PROVE  CurOf(u, lk, x, file, n).stage = n
  BY DEF CurOf, View, Aside
<1> QED
  BY <1>1 DEF StageOf

(* Who has the mutex, or is main, looks at the trace itself; no server     *)
(* else does.                                                              *)
LEMMA Holder ==
    ASSUME StartupInv, NEW t \in Threads, Active(t), Cur(t).held
    PROVE  /\ Cur(t) = View(tr, trace_file, StageOf(t, bound, listening))
           /\ (t = lock \/ t = "main")
           /\ (t = "main" => lock = "free" /\ script["main"] # <<>>)
           /\ \A u \in Servers : u # t => u # lock
<1>1. t = lock \/ t = "main"
  BY DEF Cur, CurOf, Aside
<1>2. t = "main" => lock = "free" /\ script["main"] # <<>>
  BY DEF Active, StartupInv, MainAlone
<1> QED
  BY <1>1, <1>2 DEF Cur, CurOf, Servers

(* A thread that waits for the lock knows only its own stage.              *)
LEMMA NotHolder ==
    ASSUME NEW t, ~Cur(t).held
    PROVE  /\ Cur(t) = Aside(StageOf(t, bound, listening))
           /\ t # lock /\ t # "main"
BY DEF Cur, CurOf, View

(* A thread has made a call, and the others stay where they are.           *)
LEMMA GoesOn ==
    ASSUME StartupInv, NEW t \in Threads, Active(t), exit = "no",
           NEW s \in Seq(Calls), script' = [script EXCEPT ![t] = s],
           exit' = "no" => Leads(s, Cur(t)', Goal(t)),
           t = "main" => exit' = "no" /\ UNCHANGED <<lock, bound, listening>>,
           \A u \in Servers : u # t => Cur(u)' = Cur(u)
    PROVE  /\ script' \in [Threads -> Seq(Calls)]
           /\ Followed' /\ MainAlone' /\ OptionsFirst'
           /\ script'["main"] = <<>> <=> t # "main"
<1>1. script \in [Threads -> Seq(Calls)] /\ "main" \in Threads
  BY DEF StartupInv, Typed, Threads
<1>2. script' \in [Threads -> Seq(Calls)] /\ script'[t] = s
      /\ \A u \in Threads : u # t => script'[u] = script[u]
  BY <1>1
<1>3. CASE t = "main"
  <2>1. s # <<>> /\ s # Op("options")
    BY <1>3, CurStage, MainHasWork DEF Cur, Goal
  <2>2. MainAlone'
    BY <1>2, <1>3 DEF StartupInv, MainAlone, Active, Servers, Threads
  <2>3. OptionsFirst'
    BY <1>2, <1>3, <2>1 DEF OptionsFirst
  <2>4. Followed'
    BY <1>2, <1>3, <2>1 DEF Followed, Active, Threads
  <2> QED
    BY <1>2, <1>3, <2>1, <2>2, <2>3, <2>4
<1>4. CASE t # "main"
  <2>1. script["main"] = <<>> /\ script'["main"] = <<>>
    BY <1>1, <1>2, <1>4 DEF Active
  <2>2. MainAlone' /\ OptionsFirst'
    BY <2>1, OptionsScript DEF MainAlone, OptionsFirst
  <2>3. ASSUME exit' = "no", NEW u \in Servers PROVE Leads(script'[u], Cur(u)', Goal(u))
    <3>1. CASE u = t
      BY <1>2, <2>3, <3>1
    <3>2. CASE u # t
      <4>1. Leads(script[u], Cur(u), Goal(u))
        BY <2>1 DEF StartupInv, Followed, Active, Servers, Threads
      <4> QED
        BY <1>2, <3>2, <4>1 DEF Servers, Threads
    <3> QED
      BY <3>1, <3>2
  <2>4. Followed'
    BY <2>1, <2>3 DEF Followed, Active, Threads, Servers
  <2> QED
    BY <1>2, <1>4, <2>1, <2>2, <2>4
<1> QED
  BY <1>3, <1>4

----------------------------------------------------------------------------
(* main: the options. *)

(* An option leaves the scripts, the last line and the answers alone.      *)
LEMMA OptionState ==
    ASSUME StartupInv, NEW letter, Option(letter)
    PROVE  /\ exit = "no" /\ script["main"] = Op("options") /\ argv # <<>>
           /\ Head(argv) \in Arguments /\ Head(argv)[1] = letter
           /\ argv' \in Seq(Arguments)
           /\ line = NoLine /\ search = NoSearch /\ cache = [f \in DebugFiles |-> "unset"]
           /\ tr.enabled /\ tr.top = -1
           /\ UNCHANGED <<script, lock, bound, listening, line, cache>>
<1>1. /\ exit = "no" /\ script["main"] = Op("options") /\ argv # <<>>
      /\ Head(argv)[1] = letter /\ argv' = Tail(argv)
      /\ UNCHANGED <<script, lock, bound, listening, line, cache>>
  BY DEF Option, threadVars
<1>2. argv \in Seq(Arguments)
  BY DEF StartupInv, Typed
<1>3. Head(argv) \in Arguments /\ Tail(argv) \in Seq(Arguments)
  BY <1>1, <1>2, HeadTailProperties
<1> QED
  BY <1>1, <1>3 DEF StartupInv, OptionsFirst

(* What an option has to show: the rest of the invariant follows.          *)
LEMMA OptionKeeps ==
    ASSUME StartupInv, NEW letter, Option(letter),
           tr' \in TraceStates, tr'.enabled, tr'.top = -1, trace_file' \in Outputs,
           port' \in [Servers -> Nat], exit' \in {"no", "0", "1"},
           DebugInv', search' = NoSearch,
           debugged_files' \in [0..MAX_FILES_NUMBER -> Names \cup {0}]
    PROVE  StartupInv'
<1>1. /\ exit = "no" /\ script["main"] = Op("options") /\ argv' \in Seq(Arguments)
      /\ line = NoLine /\ cache = [f \in DebugFiles |-> "unset"]
      /\ UNCHANGED <<script, lock, bound, listening, line, cache>>
  BY OptionState
<1>2. script["main"] # <<>> /\ script'["main"] = Op("options") /\ script'["main"] # <<>>
  BY <1>1, OptionsScript
<1>3. StartTypeOK' /\ Typed'
  BY <1>1, <1>2 DEF StartupInv, StartTypeOK, Typed, MainAlone
<1>4. MainAlone' /\ OptionsFirst'
  BY <1>1, <1>2 DEF StartupInv, MainAlone, OptionsFirst
<1>5. Followed'
  BY <1>2 DEF Followed, Active
<1>6. FileSet' /\ TraceIsHandedOver'
  BY <1>2 DEF FileSet, TraceIsHandedOver
<1>7. TraceIsFaithful'
  BY <1>1 DEF TraceIsFaithful, NoLine
<1>8. ServersApart'
  BY <1>1, <1>2 DEF StartupInv, MainAlone, ServersApart
<1>9. Searched' /\ DebugSelects'
  BY <1>1 DEF Searched, DebugSelects, NoSearch
<1> QED
  BY <1>3, <1>4, <1>5, <1>6, <1>7, <1>8, <1>9 DEF StartupInv

(* A debug state that does not change.                                     *)
LEMMA DebugStays ==
    ASSUME StartupInv, UNCHANGED debugVars
    PROVE  /\ DebugInv' /\ search' = search
           /\ debugged_files' \in [0..MAX_FILES_NUMBER -> Names \cup {0}]
           /\ debugged_files' = debugged_files /\ wanted' = wanted
           /\ nb_debugged_files' = nb_debugged_files /\ named' = named /\ additions' = additions
BY DEF StartupInv, StartTypeOK, debugVars, filesVars, DebugInv, DebugTyped, Sorted, Stored, Named, Between,
       SearchIsRight, NotOverrun, Filled

(* The arguments of the options.                                           *)
LEMMA ArgumentTypes ==
    ASSUME NEW a \in Arguments
    PROVE  /\ a[1] \in {"g", "i"} => a[2] \in Nat
           /\ a[1] = "t" => a[2] \in Outputs
           /\ a[1] = "d" => a[2] \in Names
BY DEF Arguments, Outputs

(* The options of the command line, each in its turn.                      *)
LEMMA OptionsInv ==
    ASSUME StartupInv,
           \/ OptionPort \/ OptionHelp \/ OptionTraceFile \/ OptionTrace \/ OptionDebug
           \/ OptionUnknown
    PROVE  StartupInv'
<1>1. /\ tr \in TraceStates /\ trace_file \in Outputs /\ port \in [Servers -> Nat]
      /\ exit \in {"no", "0", "1"}
      /\ debugged_files \in [0..MAX_FILES_NUMBER -> Names \cup {0}] /\ DebugInv
  BY DEF StartupInv, StartTypeOK, Typed
<1>2. CASE OptionPort
  <2>1. PICK l \in {<<"g", "gdb">>, <<"i", "irq">>} :
           Option(l[1]) /\ port' = [port EXCEPT ![l[2]] = Head(argv)[2] % Ports]
    BY <1>2 DEF OptionPort
  <2>2. UNCHANGED <<debugVars, trace_file, tr, exit>>
    BY <1>2 DEF OptionPort
  <2>3. Head(argv)[2] \in Nat /\ l[2] \in Servers
    BY <2>1, OptionState, ArgumentTypes DEF Servers
  <2>4. Head(argv)[2] % Ports \in Nat
    BY <2>3, StartupAssumption
  <2>5. port' \in [Servers -> Nat]
    BY <1>1, <2>1, <2>3, <2>4
  <2> QED
    BY <1>1, <2>1, <2>2, <2>5, OptionState, DebugStays, OptionKeeps
<1>3. CASE OptionHelp
  BY <1>1, <1>3, OptionState, DebugStays, OptionKeeps DEF OptionHelp
<1>4. CASE OptionTraceFile
  <2>1. Option("t") /\ UNCHANGED <<debugVars, port, tr>>
    BY <1>4 DEF OptionTraceFile
  <2>2. trace_file' \in Outputs /\ exit' \in {"no", "0", "1"}
    BY <1>1, <1>4, <2>1, OptionState, ArgumentTypes DEF OptionTraceFile
  <2> QED
    BY <1>1, <2>1, <2>2, OptionState, DebugStays, OptionKeeps
<1>5. CASE OptionTrace
  <2>1. PICK l \in {<<"r", "registers">>, <<"m", "memory">>, <<"s", "state">>, <<"p", "position">>} :
           Option(l[1]) /\ tr' = trace_add(tr, l[2])
    BY <1>5 DEF OptionTrace
  <2>2. UNCHANGED <<debugVars, port, trace_file, exit>>
    BY <1>5 DEF OptionTrace
  <2>3. l[2] \in Flags
    BY DEF Flags
  <2>4. tr' \in TraceStates /\ tr'.enabled = tr.enabled /\ tr'.top = tr.top
    BY <1>1, <2>1, <2>3 DEF TraceStates, trace_add
  <2> QED
    BY <1>1, <2>1, <2>2, <2>4, OptionState, DebugStays, OptionKeeps
<1>6. CASE OptionDebug
  <2>1. Option("d") /\ add_debug_to(Head(argv)[2]) /\ UNCHANGED <<port, trace_file, tr, exit>>
    BY <1>6 DEF OptionDebug
  <2>2. PICK name \in Names : name = Head(argv)[2]
    BY <2>1, OptionState, ArgumentTypes
  <2>3. add_debug_to(name) /\ search = NoSearch
    BY <2>1, <2>2, OptionState
  <2>4. DebugInv' /\ search' = NoSearch
    BY <1>1, <2>3, AddInv DEF add_debug_to
  <2>5. debugged_files' \in [0..MAX_FILES_NUMBER -> Names \cup {0}]
    <3>1. CASE debugged_files' = debugged_files
      BY <1>1, <3>1
    <3>2. CASE \E i \in 0..MAX_FILES_NUMBER :
                 debugged_files' = [j \in 0..MAX_FILES_NUMBER |->
                        IF j = i THEN name
                        ELSE IF i < j /\ j <= nb_debugged_files THEN debugged_files[j - 1]
                        ELSE debugged_files[j]]
      BY <1>1, <3>2, DebugAssumption
    <3> QED
      BY <2>3, <3>1, <3>2 DEF add_debug_to
  <2> QED
    BY <1>1, <2>1, <2>4, <2>5, OptionState, OptionKeeps
<1>7. CASE OptionUnknown
  BY <1>1, <1>7, OptionState, DebugStays, OptionKeeps DEF OptionUnknown
<1> QED
  BY <1>2, <1>3, <1>4, <1>5, <1>6, <1>7

(* The options are over.                                                   *)
LEMMA OptionsEndInv == ASSUME StartupInv, OptionsEnd PROVE StartupInv'
<1>1. /\ exit = "no" /\ script["main"] = Op("options")
      /\ script' = [script EXCEPT !["main"] = MainCalls]
      /\ UNCHANGED <<debugVars, argv, port, trace_file, tr, cache, lock, bound, listening, line, exit>>
  BY DEF OptionsEnd, mainVars
<1>2. script["main"] # <<>> /\ tr.enabled /\ tr.top = -1 /\ tr \in TraceStates
      /\ trace_file \in Outputs /\ script \in [Threads -> Seq(Calls)]
  BY <1>1, OptionsScript DEF StartupInv, OptionsFirst, StartTypeOK, Typed
<1>3. Leads(MainCalls, Cur("main"), Taken)
  <2>1. PICK m : m = View(tr, trace_file, 0)
    OBVIOUS
  <2>2. Cur("main") = m
    BY <2>1 DEF Cur, CurOf, StageOf
  <2>3. m \in Mode
    BY <1>2, <2>1, ViewIsMode
  <2>4. /\ m.held = TRUE /\ m.stage = 0 /\ m.en = TRUE /\ m.depth = 0
        /\ m.outer = NoLocation /\ m.inner = NoLocation
    BY <1>2, <2>1 DEF View, TraceStates
  <2>5. PICK n : n = [m EXCEPT !.out = TRUE]
    OBVIOUS
  <2>6. After([op |-> "set_trace_file"], m) = n
    BY <2>5 DEF After
  <2>7. n = Created
    BY <2>3, <2>4, <2>5 DEF Mode, Created
  <2> QED
    BY <2>2, <2>3, <2>4, <2>6, <2>7, MainLeads
<1>4. MainCalls # <<>> /\ MainCalls # Op("options") /\ MainCalls \in Seq(Calls)
  <2>1. PICK m : m = Cur("main")
    OBVIOUS
  <2>2. m.stage = 0
    BY <2>1 DEF Cur, CurOf, StageOf, View
  <2>3. Leads(MainCalls, m, Taken)
    BY <1>3, <2>1
  <2>4. MainCalls \in Seq(Calls)
    BY <2>3 DEF Leads
  <2> QED
    BY <2>2, <2>3, <2>4, MainHasWork, Zenon
<1>5. script' \in [Threads -> Seq(Calls)] /\ script'["main"] = MainCalls
      /\ \A u \in Servers : script'[u] = script[u]
  BY <1>1, <1>2, <1>4 DEF Threads, Servers
<1>6. StartTypeOK' /\ Typed'
  BY <1>1, <1>5, DebugStays DEF StartupInv, StartTypeOK, Typed
<1>7. MainAlone' /\ OptionsFirst'
  BY <1>1, <1>2, <1>4, <1>5 DEF StartupInv, MainAlone, OptionsFirst
<1>8. Followed'
  <2>1. Cur("main")' = Cur("main") /\ Goal("main") = Taken
    BY <1>1 DEF Cur, Goal
  <2> QED
    BY <1>3, <1>4, <1>5, <2>1 DEF Followed, Active, Threads
<1>9. FileSet' /\ TraceIsHandedOver'
  BY <1>4, <1>5 DEF FileSet, TraceIsHandedOver
<1>10. TraceIsFaithful' /\ ServersApart'
  BY <1>1 DEF StartupInv, TraceIsFaithful, ServersApart
<1>11. Searched' /\ DebugSelects' /\ DebugInv'
  BY <1>1, DebugStays DEF StartupInv, Searched, DebugSelects
<1> QED
  BY <1>6, <1>7, <1>8, <1>9, <1>10, <1>11 DEF StartupInv

----------------------------------------------------------------------------
(* The calls of the threads. *)

(* A call of the thread that may use the trace.                            *)
LEMMA TraceCallKeeps ==
    ASSUME StartupInv, NEW t \in Threads, Active(t), exit = "no", Cur(t).held,
           NEW s \in Seq(Calls), script' = [script EXCEPT ![t] = s],
           tr' \in TraceStates, tr'.flags = tr.flags,
           tr'.output = tr.output \/ tr'.output = trace_file,
           Leads(s, View(tr', trace_file, StageOf(t, bound, listening)), Goal(t)),
           UNCHANGED OtherVars, UNCHANGED lock, TraceIsFaithful'
    PROVE  StartupInv'
<1>1. UNCHANGED <<debugVars, argv, port, trace_file, cache, bound, listening, exit, lock>>
  BY DEF OtherVars, mainVars
<1>2. /\ t = lock \/ t = "main"
      /\ t = "main" => lock = "free" /\ script["main"] # <<>>
      /\ \A u \in Servers : u # t => u # lock
  BY Holder
<1>3. Cur(t)' = View(tr', trace_file, StageOf(t, bound, listening))
  BY <1>1, <1>2 DEF Cur, CurOf
<1>4. ASSUME NEW u \in Servers, u # t PROVE Cur(u)' = Cur(u)
  BY <1>1, <1>2, <1>4 DEF Cur, CurOf, Servers
<1>5. /\ script' \in [Threads -> Seq(Calls)]
      /\ Followed' /\ MainAlone' /\ OptionsFirst'
      /\ script'["main"] = <<>> <=> t # "main"
  BY <1>1, <1>3, <1>4, GoesOn
<1>6. StartTypeOK' /\ Typed'
  BY <1>1, <1>5, DebugStays DEF StartupInv, StartTypeOK, Typed
<1>7. TraceIsHandedOver'
  BY <1>1, <1>2, <1>5 DEF TraceIsHandedOver, Threads
<1>8. FileSet'
  <2>1. t # "main" => script["main"] = <<>>
    BY DEF Active
  <2> QED
    BY <1>1, <1>5, <2>1 DEF StartupInv, FileSet
<1>9. ServersApart' /\ Searched' /\ DebugSelects' /\ DebugInv'
  BY <1>1, DebugStays DEF StartupInv, ServersApart, Searched, DebugSelects
<1> QED
  BY <1>5, <1>6, <1>7, <1>8, <1>9 DEF StartupInv

(* Nothing of what TraceIsFaithful speaks of has changed.                  *)
LEMMA FaithfulStays ==
    ASSUME TraceIsFaithful, line' = line, tr'.flags = tr.flags, trace_file' = trace_file
    PROVE  TraceIsFaithful'
BY DEF TraceIsFaithful

(* The flags of a trace are those of the options.                          *)
LEMMA FlagsStay ==
    ASSUME NEW x \in TraceStates, NEW loc, NEW file
    PROVE  /\ trace_start_location(x, loc).flags = x.flags
           /\ trace_end_location(x).flags = x.flags
           /\ trace_disable(x).flags = x.flags /\ trace_enable(x).flags = x.flags
           /\ set_trace_file(x, file).flags = x.flags
           /\ trace_start_location(x, loc).output = x.output
           /\ trace_end_location(x).output = x.output
           /\ trace_disable(x).output = x.output /\ trace_enable(x).output = x.output
           /\ set_trace_file(x, file).output = file
BY DEF TraceStates, trace_start_location, trace_end_location, trace_disable, trace_enable,
       set_trace_file

(* The trace of the thread that holds it.                                  *)
LEMMA HeldTrace ==
    ASSUME StartupInv, NEW t \in Threads, Active(t), Cur(t).held, Cur(t) \in Mode
    PROVE  LET n == StageOf(t, bound, listening)
           IN  /\ tr \in TraceStates /\ trace_file \in Outputs /\ n \in 0..2
               /\ Cur(t) = View(tr, trace_file, n)
               /\ tr.top \in Int /\ tr.top >= -1 /\ tr.top < 2
               /\ Cur(t).depth = tr.top + 1 /\ Cur(t).en = tr.enabled
               /\ Cur(t).out = (tr.output = trace_file)
<1>1. tr \in TraceStates /\ trace_file \in Outputs
  BY DEF StartupInv, StartTypeOK, Typed
<1>2. PICK n \in 0..2 : n = StageOf(t, bound, listening)
  BY CurStage
<1>3. Cur(t) = View(tr, trace_file, n)
  BY <1>2, Holder
<1>4. tr.top < 2
  BY <1>1, <1>3, ViewIsMode
<1>5. tr.top \in Int /\ tr.top >= -1
  BY <1>1 DEF TraceStates
<1>6. /\ Cur(t).depth = tr.top + 1 /\ Cur(t).en = tr.enabled
      /\ Cur(t).out = (tr.output = trace_file)
  BY <1>3 DEF View
<1> QED
  BY <1>1, <1>2, <1>3, <1>4, <1>5, <1>6

(* Where the mode is fresh the trace is on, its stack is empty and its file set.*)
LEMMA FreshTrace ==
    ASSUME StartupInv, NEW t \in Threads, Active(t), Cur(t).held, Cur(t) \in Mode,
           Cur(t).en, Cur(t).depth = 0, Cur(t).out
    PROVE  /\ tr \in TraceStates /\ Cur(t) = View(tr, trace_file, StageOf(t, bound, listening))
           /\ tr.enabled /\ tr.top = -1 /\ tr.output = trace_file
<1>1. /\ tr \in TraceStates /\ Cur(t) = View(tr, trace_file, StageOf(t, bound, listening))
      /\ tr.top \in Int /\ Cur(t).depth = tr.top + 1 /\ Cur(t).en = tr.enabled
      /\ Cur(t).out = (tr.output = trace_file)
  BY HeldTrace, Zenon
<1>2. tr.top = -1
  BY <1>1
<1>3. tr.enabled /\ tr.output = trace_file
  BY <1>1, Zenon
<1> QED
  BY <1>1, <1>2, <1>3

(* START_LOCATION keeps the invariant.                                     *)
LEMMA StartLocationInv ==
    ASSUME StartupInv, NEW t \in Threads, StartLocation(t) PROVE StartupInv'
<1> DEFINE h == Head(script[t])
<1>1. /\ Ready(t, "start") /\ script' = [script EXCEPT ![t] = Tail(@)]
      /\ tr' = trace_start_location(tr, h.loc)
      /\ UNCHANGED OtherVars /\ UNCHANGED <<lock, line>>
  BY DEF StartLocation, Call, Pop
<1>2. /\ Active(t) /\ exit = "no" /\ Cur(t) \in Mode /\ h \in Calls /\ h.op = "start"
      /\ Allowed(h, Cur(t)) /\ Tail(script[t]) \in Seq(Calls)
      /\ Leads(Tail(script[t]), After(h, Cur(t)), Goal(t))
  BY <1>1, NextCall
<1>3. Cur(t).held /\ Cur(t).depth < 2 /\ After(h, Cur(t)) = Enter(Cur(t), h.loc)
  BY <1>2 DEF Allowed, After
<1>4. h.loc \in Locations
  BY <1>2 DEF Calls
<1> HIDE DEF h
<1>5. PICK n \in 0..2 :
        /\ n = StageOf(t, bound, listening)
        /\ tr \in TraceStates /\ trace_file \in Outputs
        /\ Cur(t) = View(tr, trace_file, n) /\ tr.top < 1
  BY <1>2, <1>3, HeldTrace
<1>6. tr' \in TraceStates /\ View(tr', trace_file, n) = Enter(Cur(t), h.loc)
  BY <1>1, <1>4, <1>5, StartIsEnter
<1>7. tr'.flags = tr.flags /\ tr'.output = tr.output
  BY <1>1, <1>5, FlagsStay
<1>8. TraceIsFaithful'
  BY <1>1, <1>7, FaithfulStays DEF StartupInv, OtherVars, mainVars
<1> QED
  BY <1>1, <1>2, <1>3, <1>5, <1>6, <1>7, <1>8, TraceCallKeeps

(* END_LOCATION keeps the invariant.                                       *)
LEMMA EndLocationInv ==
    ASSUME StartupInv, NEW t \in Threads, EndLocation(t) PROVE StartupInv'
<1> DEFINE h == Head(script[t])
<1>1. /\ Ready(t, "end") /\ script' = [script EXCEPT ![t] = Tail(@)]
      /\ tr' = trace_end_location(tr)
      /\ UNCHANGED OtherVars /\ UNCHANGED <<lock, line>>
  BY DEF EndLocation, Call, Pop
<1>2. /\ Active(t) /\ exit = "no" /\ Cur(t) \in Mode /\ h \in Calls /\ h.op = "end"
      /\ Allowed(h, Cur(t)) /\ Tail(script[t]) \in Seq(Calls)
      /\ Leads(Tail(script[t]), After(h, Cur(t)), Goal(t))
  BY <1>1, NextCall
<1>3. Cur(t).held /\ (Cur(t).en => Cur(t).depth > 0) /\ After(h, Cur(t)) = Leave(Cur(t))
  BY <1>2 DEF Allowed, After
<1> HIDE DEF h
<1>5. PICK n \in 0..2 :
        /\ n = StageOf(t, bound, listening)
        /\ tr \in TraceStates /\ trace_file \in Outputs
        /\ Cur(t) = View(tr, trace_file, n) /\ tr.top < 2 /\ (tr.enabled => tr.top >= 0)
  BY <1>2, <1>3, HeldTrace
<1>6. tr' \in TraceStates /\ View(tr', trace_file, n) = Leave(Cur(t))
  BY <1>1, <1>5, EndIsLeave
<1>7. tr'.flags = tr.flags /\ tr'.output = tr.output
  BY <1>1, <1>5, FlagsStay
<1>8. TraceIsFaithful'
  BY <1>1, <1>7, FaithfulStays DEF StartupInv, OtherVars, mainVars
<1> QED
  BY <1>1, <1>2, <1>3, <1>5, <1>6, <1>7, <1>8, TraceCallKeeps

(* trace_disable, trace_enable and set_trace_file.                         *)
LEMMA TraceSwitchInv ==
    ASSUME StartupInv, NEW t \in Threads, TraceSwitch(t) PROVE StartupInv'
<1> DEFINE h == Head(script[t])
<1>1. PICK op \in {"disable", "enable", "set_trace_file"} :
        /\ Ready(t, op) /\ script' = [script EXCEPT ![t] = Tail(@)]
        /\ op = "disable" => tr' = trace_disable(tr)
        /\ op = "enable" => tr' = trace_enable(tr)
        /\ op = "set_trace_file" => tr' = set_trace_file(tr, trace_file)
        /\ UNCHANGED OtherVars /\ UNCHANGED <<lock, line>>
  BY DEF TraceSwitch, Call, Pop
<1>2. /\ Active(t) /\ exit = "no" /\ Cur(t) \in Mode /\ h \in Calls /\ h.op = op
      /\ Allowed(h, Cur(t)) /\ Tail(script[t]) \in Seq(Calls)
      /\ Leads(Tail(script[t]), After(h, Cur(t)), Goal(t))
  BY <1>1, NextCall
<1>3. /\ Cur(t).held
      /\ op = "disable" => After(h, Cur(t)) = [Cur(t) EXCEPT !.en = FALSE]
      /\ op = "enable" => After(h, Cur(t)) = [Cur(t) EXCEPT !.en = TRUE]
      /\ op = "set_trace_file" => After(h, Cur(t)) = [Cur(t) EXCEPT !.out = TRUE]
  BY <1>2 DEF Allowed, After
<1> HIDE DEF h
<1>5. PICK n \in 0..2 :
        /\ n = StageOf(t, bound, listening)
        /\ tr \in TraceStates /\ trace_file \in Outputs
        /\ Cur(t) = View(tr, trace_file, n) /\ tr.top < 2
  BY <1>2, <1>3, HeldTrace
<1>6. tr' \in TraceStates /\ View(tr', trace_file, n) = After(h, Cur(t))
  <2>4. /\ trace_disable(tr) \in TraceStates /\ trace_enable(tr) \in TraceStates
        /\ set_trace_file(tr, trace_file) \in TraceStates
        /\ View(trace_disable(tr), trace_file, n) = [Cur(t) EXCEPT !.en = FALSE]
        /\ View(trace_enable(tr), trace_file, n) = [Cur(t) EXCEPT !.en = TRUE]
        /\ View(set_trace_file(tr, trace_file), trace_file, n) = [Cur(t) EXCEPT !.out = TRUE]
    <3>1. tr \in TraceStates /\ trace_file \in Outputs /\ tr.top < 2
      BY <1>5
    <3>2. SwitchesAre(Cur(t), tr, trace_file, n)
      BY <1>5, <3>1, SwitchesView
    <3> QED
      BY <3>2, Zenon DEF SwitchesAre
  <2>1. CASE op = "disable"
    BY <1>1, <1>3, <2>1, <2>4, Zenon
  <2>2. CASE op = "enable"
    BY <1>1, <1>3, <2>2, <2>4, Zenon
  <2>3. CASE op = "set_trace_file"
    BY <1>1, <1>3, <2>3, <2>4, Zenon
  <2> QED
    BY <2>1, <2>2, <2>3
<1>7. tr'.flags = tr.flags /\ (tr'.output = tr.output \/ tr'.output = trace_file)
  BY <1>1, <1>5, FlagsStay
<1>8. TraceIsFaithful'
  BY <1>1, <1>7, FaithfulStays DEF StartupInv, OtherVars, mainVars
<1> QED
  BY <1>1, <1>2, <1>3, <1>5, <1>6, <1>7, <1>8, TraceCallKeeps

(* An access, and the line that it prints.                                 *)
LEMMA TraceAccessInv ==
    ASSUME StartupInv, NEW t \in Threads, TraceAccess(t) PROVE StartupInv'
<1> DEFINE a == Head(script[t])
           printed == trace_prints(tr, a.flag)
<1>1. /\ Ready(t, "access") /\ script' = [script EXCEPT ![t] = Tail(@)]
      /\ line' = [printed |-> printed, flag |-> a.flag, by |-> a.by, loc |-> a.loc,
                  shown |-> IF printed THEN trace_print_location(tr) ELSE NoLocation,
                  file |-> IF printed THEN tr.output ELSE NoFile]
      /\ UNCHANGED OtherVars /\ UNCHANGED <<tr, lock>>
  BY DEF TraceAccess, Call, Pop
<1>2. /\ Active(t) /\ exit = "no" /\ Cur(t) \in Mode /\ a \in Calls /\ a.op = "access"
      /\ Allowed(a, Cur(t)) /\ Tail(script[t]) \in Seq(Calls)
      /\ Leads(Tail(script[t]), After(a, Cur(t)), Goal(t))
  BY <1>1, NextCall
<1>3. /\ Cur(t).held /\ Cur(t).out /\ After(a, Cur(t)) = Cur(t)
      /\ a.by = "program" => Cur(t).en /\ Cur(t).depth > 0 /\ a.loc = Inner(Cur(t))
      /\ a.by = "gdb" => ~Cur(t).en
      /\ a.by = "state" => Cur(t).depth = 0 /\ a.loc = NoLocation
  BY <1>2 DEF Allowed, After
<1>4. a.by \in {"program", "gdb", "state"}
  BY <1>2 DEF Calls
<1> HIDE DEF a, printed
<1>5. PICK n \in 0..2 :
        /\ n = StageOf(t, bound, listening)
        /\ tr \in TraceStates /\ trace_file \in Outputs
        /\ Cur(t) = View(tr, trace_file, n)
        /\ tr.top \in Int /\ tr.top >= -1 /\ tr.top < 2
        /\ Cur(t).depth = tr.top + 1 /\ Cur(t).en = tr.enabled
        /\ tr.output = trace_file
  BY <1>2, <1>3, HeldTrace
<1>6. tr.top >= 0 => Inner(Cur(t)) = tr.stack[tr.top]
  <2>1. /\ tr.top >= 0 => Cur(t).outer = tr.stack[0]
        /\ tr.top >= 1 => Cur(t).inner = tr.stack[1]
    BY <1>5 DEF View
  <2> QED
    BY <1>5, <2>1 DEF Inner
<1>7. /\ printed <=> tr.enabled /\ a.flag \in tr.flags
      /\ printed \in BOOLEAN
  BY <1>5 DEF printed, trace_prints, TraceStates
<1>8. "position" \in tr.flags /\ tr.top >= 0 => trace_print_location(tr) = tr.stack[tr.top]
  BY DEF trace_print_location
<1>9. tr.top = -1 => trace_print_location(tr) = NoLocation
  BY DEF trace_print_location
<1>10. /\ line'.by = a.by /\ line'.printed = printed /\ line'.flag = a.flag /\ line'.loc = a.loc
       /\ printed => line'.shown = trace_print_location(tr) /\ line'.file = tr.output
  BY <1>1
<1>11. TraceIsFaithful'
  <2>1. line'.by = "program" => line'.printed = (line'.flag \in tr.flags)
    BY <1>3, <1>5, <1>7, <1>10
  <2>2. line'.by = "gdb" => ~line'.printed
    BY <1>3, <1>5, <1>7, <1>10
  <2>3. line'.printed => line'.file = trace_file
    BY <1>5, <1>7, <1>10
  <2>4. ASSUME line'.printed, "position" \in tr.flags PROVE line'.shown = line'.loc
    <3>1. CASE a.by = "program"
      BY <1>3, <1>5, <1>6, <1>7, <1>8, <1>10, <2>4, <3>1
    <3>2. CASE a.by = "gdb"
      BY <1>3, <1>5, <1>7, <1>10, <2>4, <3>2
    <3>3. CASE a.by = "state"
      BY <1>3, <1>5, <1>7, <1>9, <1>10, <2>4, <3>3
    <3> QED
      BY <1>4, <3>1, <3>2, <3>3
  <2>5. tr' = tr /\ trace_file' = trace_file
    BY <1>1 DEF OtherVars, mainVars
  <2> QED
    BY <2>1, <2>2, <2>3, <2>4, <2>5 DEF TraceIsFaithful
<1>12. Leads(Tail(script[t]), View(tr', trace_file, n), Goal(t))
  BY <1>1, <1>2, <1>3, <1>5
<1> QED
  BY <1>1, <1>2, <1>3, <1>5, <1>11, <1>12, TraceCallKeeps

(* trace_arm_state: the calls of arm_print_state come first.               *)
LEMMA TraceStateInv ==
    ASSUME StartupInv, NEW t \in Threads, trace_arm_state(t) PROVE StartupInv'
<1> DEFINE h == Head(script[t])
           more == IF trace_prints(tr, "state") THEN PrintStateCalls ELSE <<>>
           s == more \o Tail(script[t])
<1>1. /\ Ready(t, "state") /\ script' = [script EXCEPT ![t] = s]
      /\ UNCHANGED OtherVars /\ UNCHANGED <<tr, lock, line>>
  BY DEF trace_arm_state
<1>2. /\ Active(t) /\ exit = "no" /\ Cur(t) \in Mode /\ h \in Calls /\ h.op = "state"
      /\ Allowed(h, Cur(t)) /\ Tail(script[t]) \in Seq(Calls)
      /\ Leads(Tail(script[t]), After(h, Cur(t)), Goal(t))
  BY <1>1, NextCall
<1>3. /\ Cur(t).held /\ Cur(t).out /\ Cur(t).depth = 0 /\ After(h, Cur(t)) = Cur(t)
  BY <1>2 DEF Allowed, After
<1> HIDE DEF h
<1>4. Leads(more, Cur(t), Cur(t))
  BY <1>2, <1>3, PrintStateLeads, EmptyLeads
<1> HIDE DEF more
<1>5. Leads(s, Cur(t), Goal(t))
  BY <1>2, <1>3, <1>4, BothLead
<1> HIDE DEF s
<1>8. s \in Seq(Calls)
  BY <1>5 DEF Leads
<1>6. PICK n \in 0..2 :
        /\ n = StageOf(t, bound, listening) /\ tr \in TraceStates
        /\ Cur(t) = View(tr, trace_file, n)
  BY <1>2, <1>3, HeldTrace
<1>7. TraceIsFaithful'
  BY <1>1, FaithfulStays DEF StartupInv, OtherVars, mainVars
<1> QED
  BY <1>1, <1>2, <1>3, <1>5, <1>6, <1>7, <1>8, TraceCallKeeps

(* debug(): the search goes on, or ends with an answer in the cache.       *)
LEMMA SearchInv ==
    ASSUME StartupInv, NEW t \in Threads, DebugSearches(t) \/ DebugLoops(t)
    PROVE  StartupInv'
<1>1. /\ Ready(t, "debug")
      /\ UNCHANGED <<argv, port, trace_file, tr, cache, script, lock, bound, listening, line, exit>>
  BY DEF DebugSearches, DebugLoops, mainVars, threadVars
<1>2. /\ Active(t) /\ script[t] # <<>> /\ Head(script[t]) \in Calls
      /\ Head(script[t]).op = "debug"
  BY <1>1, NextCall
<1>3. Head(script[t]).file \in DebugFiles
  BY <1>2 DEF Calls
<1>4. script["main"] # Op("options")
  BY <1>2, OptionsScript DEF Active
<1>5. /\ DebugInv' /\ Searched'
      /\ UNCHANGED <<debugged_files, nb_debugged_files, wanted, named, additions>>
  <2>1. CASE DebugSearches(t)
    <3>1. PICK name \in Nat : name = Head(script[t]).file /\ name \in DebugFiles
      BY <1>3 DEF DebugFiles, GdbProtocolFile, ScannerFile
    <3>2. is_debugged_starts(name)
      BY <2>1, <3>1 DEF DebugSearches
    <3>3. DebugInv'
      BY <3>2, StartInv DEF StartupInv
    <3> QED
      BY <3>1, <3>2, <3>3 DEF is_debugged_starts, filesVars, Searched
  <2>2. CASE DebugLoops(t)
    <3>1. SearchHalves \/ SearchEnds
      BY <2>2 DEF DebugLoops
    <3>2. DebugInv'
      BY <3>1, HalvesInv, EndsInv DEF StartupInv
    <3>3. search \in [name : Nat, from : Int, to : Int, answer : {"none", "sought", "yes", "no"}]
      BY DEF StartupInv, DebugInv, DebugTyped
    <3>4. search'.name = search.name /\ search.answer = "sought"
      <4>1. CASE SearchHalves
        BY <3>3, <4>1 DEF SearchHalves
      <4>2. CASE SearchEnds
        BY <3>3, <4>2 DEF SearchEnds
      <4> QED
        BY <3>1, <4>1, <4>2
    <3>5. Searched'
      BY <3>4 DEF StartupInv, Searched
    <3> QED
      BY <3>1, <3>2, <3>5 DEF SearchHalves, SearchEnds, filesVars
  <2> QED
    BY <2>1, <2>2
<1>6. StartTypeOK' /\ Typed' /\ MainAlone' /\ OptionsFirst' /\ FileSet'
  BY <1>1, <1>4, <1>5 DEF StartupInv, StartTypeOK, Typed, MainAlone, OptionsFirst, FileSet
<1>7. Followed'
  BY <1>1 DEF StartupInv, Followed, Active, Cur
<1>8. TraceIsHandedOver' /\ TraceIsFaithful' /\ ServersApart' /\ DebugSelects'
  BY <1>1, <1>5 DEF StartupInv, TraceIsHandedOver, TraceIsFaithful, ServersApart, DebugSelects
<1> QED
  BY <1>5, <1>6, <1>7, <1>8 DEF StartupInv

(* The answer of the search, or of the cached flag, keeps the invariant.   *)
LEMMA AnswerInv ==
    ASSUME StartupInv, NEW t \in Threads, DebugReturns(t) \/ DebugCached(t)
    PROVE  StartupInv'
<1>1. /\ Ready(t, "debug") /\ script' = [script EXCEPT ![t] = Tail(@)]
      /\ UNCHANGED <<argv, port, trace_file, tr, lock, bound, listening, line, exit,
                     debugged_files, nb_debugged_files, wanted, named, additions>>
  BY DEF DebugReturns, DebugCached, Call, Pop, OtherVars, mainVars, debugVars, filesVars, SearchReturns
<1>2. /\ Active(t) /\ exit = "no" /\ Head(script[t]).op = "debug"
      /\ Tail(script[t]) \in Seq(Calls)
      /\ Leads(Tail(script[t]), After(Head(script[t]), Cur(t)), Goal(t))
  BY <1>1, NextCall
<1>3. After(Head(script[t]), Cur(t)) = Cur(t)
  BY <1>2 DEF After
<1>4. \A u \in Threads : Cur(u)' = Cur(u)
  BY <1>1 DEF Cur
<1>5. /\ script' \in [Threads -> Seq(Calls)]
      /\ Followed' /\ MainAlone' /\ OptionsFirst'
      /\ script'["main"] = <<>> <=> t # "main"
  BY <1>1, <1>2, <1>3, <1>4, GoesOn DEF Servers, Threads
<1>6. DebugInv' /\ Searched' /\ DebugSelects'
      /\ cache' \in [DebugFiles -> {"unset", "yes", "no"}]
  <2>1. cache \in [DebugFiles -> {"unset", "yes", "no"}]
    BY DEF StartupInv, StartTypeOK
  <2>2. CASE DebugReturns(t)
    <3>1. /\ search.answer \in {"yes", "no"} /\ search' = NoSearch
          /\ cache' = [cache EXCEPT ![search.name] = search.answer]
      BY <2>2 DEF DebugReturns, SearchReturns
    <3>2. search.name \in DebugFiles
      BY <3>1 DEF StartupInv, Searched
    <3>3. cache' \in [DebugFiles -> {"unset", "yes", "no"}]
      BY <2>1, <3>1, <3>2
    <3>4. DebugSelects'
      <4>1. additions <= MAX_FILES_NUMBER => nb_debugged_files <= MAX_FILES_NUMBER /\ wanted = named
        <5>1. DebugInv
          BY DEF StartupInv
        <5> QED
          BY <5>1, DebugAssumption DEF DebugInv, Named, DebugTyped
      <4> QED
        BY <1>1, <2>1, <3>1, <3>2, <4>1 DEF StartupInv, DebugSelects, DebugInv, SearchIsRight
    <3>5. DebugInv' /\ Searched'
      <4>1. DebugInv
        BY DEF StartupInv
      <4>2. DebugTyped' /\ Named'
        BY <1>1, <3>1, <4>1 DEF DebugInv, DebugTyped, Named, NoSearch
      <4>3. Sorted' /\ Stored' /\ Between' /\ SearchIsRight' /\ Searched'
        BY <1>1, <3>1, <4>1 DEF DebugInv, Sorted, Stored, Between, SearchIsRight, NotOverrun, Filled,
                                NoSearch, Searched
      <4> QED
        BY <4>2, <4>3 DEF DebugInv
    <3> QED
      BY <3>3, <3>4, <3>5
  <2>3. CASE DebugCached(t)
    <3>1. UNCHANGED debugVars /\ cache' = cache
      BY <2>3 DEF DebugCached, OtherVars
    <3> QED
      BY <2>1, <3>1, DebugStays DEF StartupInv, Searched, DebugSelects
  <2> QED
    BY <2>2, <2>3
<1>7. StartTypeOK' /\ Typed'
  BY <1>1, <1>5, <1>6 DEF StartupInv, StartTypeOK, Typed
<1>8. FileSet' /\ TraceIsHandedOver'
  BY <1>1, <1>2, <1>5 DEF StartupInv, FileSet, TraceIsHandedOver, Active
<1>9. TraceIsFaithful' /\ ServersApart'
  BY <1>1 DEF StartupInv, TraceIsFaithful, ServersApart
<1> QED
  BY <1>5, <1>6, <1>7, <1>8, <1>9 DEF StartupInv

(* Taking and giving back the mutex changes nothing else in the mode.      *)
LEMMA LockedMode ==
    ASSUME NEW x \in TraceStates, NEW file, NEW stage \in 0..2,
           x.enabled, x.top = -1, x.output = file
    PROVE  /\ [Aside(stage) EXCEPT !.held = TRUE] = View(x, file, stage)
           /\ [View(x, file, stage) EXCEPT !.held = FALSE] = Aside(stage)
<1>1. PICK v, a : v = View(x, file, stage) /\ a = Aside(stage)
  OBVIOUS
<1>2. v \in Mode
  BY <1>1, ViewIsMode
<1>3. NoLocation \in Places /\ 0 \in Depths
  BY DEF Places, Depths
<1>4. a \in Mode
  BY <1>1, <1>3 DEF Aside, Mode
<1>5. x.enabled = TRUE
  BY DEF TraceStates
<1>6. /\ v.held = TRUE /\ v.stage = stage /\ v.out = TRUE /\ v.en = TRUE /\ v.depth = 0
      /\ v.outer = NoLocation /\ v.inner = NoLocation
  <2>1. v.held = TRUE /\ v.stage = stage /\ v.out = (x.output = file) /\ v.en = x.enabled
    BY <1>1 DEF View
  <2>2. v.depth = 0 /\ v.outer = NoLocation /\ v.inner = NoLocation
    BY <1>1 DEF View
  <2>3. (x.output = file) = TRUE
    OBVIOUS
  <2> QED
    BY <1>5, <2>1, <2>2, <2>3
<1>7. /\ a.held = FALSE /\ a.stage = stage /\ a.out = TRUE /\ a.en = TRUE /\ a.depth = 0
      /\ a.outer = NoLocation /\ a.inner = NoLocation
  BY <1>1 DEF Aside
<1>8. PICK n, q : n = [a EXCEPT !.held = TRUE] /\ q = [v EXCEPT !.held = FALSE]
  OBVIOUS
<1>9. /\ n \in Mode /\ n.held = TRUE /\ n.stage = a.stage /\ n.out = a.out /\ n.en = a.en
      /\ n.depth = a.depth /\ n.outer = a.outer /\ n.inner = a.inner
  BY <1>4, <1>8 DEF Mode
<1>10. /\ q \in Mode /\ q.held = FALSE /\ q.stage = v.stage /\ q.out = v.out /\ q.en = v.en
       /\ q.depth = v.depth /\ q.outer = v.outer /\ q.inner = v.inner
  BY <1>2, <1>8 DEF Mode
<1>11. n = v
  BY <1>2, <1>6, <1>7, <1>9, SameMode DEF Alike
<1>12. q = a
  BY <1>4, <1>6, <1>7, <1>10, SameMode DEF Alike
<1> QED
  BY <1>1, <1>8, <1>11, <1>12

(* The mutex is taken while nobody has it, and given back in order.        *)
LEMMA LockInv ==
    ASSUME StartupInv, NEW t \in Threads, Lock(t) PROVE StartupInv'
<1>1. /\ Ready(t, "lock") /\ script' = [script EXCEPT ![t] = Tail(@)]
      /\ lock = "free" /\ lock' = t
      /\ UNCHANGED <<debugVars, argv, port, trace_file, tr, cache, bound, listening, line, exit>>
  BY DEF Lock, Call, Pop, OtherVars, mainVars
<1>2. /\ Active(t) /\ exit = "no" /\ Cur(t) \in Mode /\ Head(script[t]).op = "lock"
      /\ Allowed(Head(script[t]), Cur(t)) /\ Tail(script[t]) \in Seq(Calls)
      /\ Leads(Tail(script[t]), After(Head(script[t]), Cur(t)), Goal(t))
  BY <1>1, NextCall
<1>3. ~Cur(t).held /\ Cur(t).stage = 2 /\ After(Head(script[t]), Cur(t)) = [Cur(t) EXCEPT !.held = TRUE]
  BY <1>2 DEF Allowed, After
<1>4. t # "main" /\ t \in Servers /\ Cur(t) = Aside(StageOf(t, bound, listening))
  BY <1>3, NotHolder DEF Servers, Threads
<1>5. script["main"] = <<>> /\ tr.enabled /\ tr.top = -1 /\ tr.output = trace_file
      /\ tr \in TraceStates
  BY <1>1, <1>2, <1>4 DEF Active, StartupInv, TraceIsHandedOver, FileSet, StartTypeOK
<1>6. Cur(t)' = After(Head(script[t]), Cur(t))
  <2>1. PICK n : n = StageOf(t, bound, listening)
    OBVIOUS
  <2>2. Cur(t)' = View(tr, trace_file, n)
    BY <1>1, <2>1 DEF Cur, CurOf
  <2>3. n \in 0..2
    BY <2>1, CurStage
  <2>4. [Aside(n) EXCEPT !.held = TRUE] = View(tr, trace_file, n)
    BY <1>5, <2>3, LockedMode
  <2> QED
    BY <1>3, <1>4, <2>1, <2>2, <2>4
<1>7. \A u \in Servers : u # t => Cur(u)' = Cur(u)
  BY <1>1 DEF Cur, CurOf, Servers
<1>8. /\ script' \in [Threads -> Seq(Calls)]
      /\ Followed' /\ MainAlone' /\ OptionsFirst'
      /\ script'["main"] = <<>> <=> t # "main"
  BY <1>1, <1>2, <1>4, <1>6, <1>7, GoesOn
<1>9. StartTypeOK' /\ Typed'
  <2>1. StageOf(t, bound, listening) = 2
    BY <1>3, CurStage DEF Cur
  <2>2. t \in listening
    BY <1>4, <2>1 DEF StageOf
  <2> QED
    BY <1>1, <1>4, <1>8, <2>2, DebugStays DEF StartupInv, StartTypeOK, Typed, Servers
<1>10. FileSet' /\ TraceIsHandedOver'
  BY <1>1, <1>4, <1>5 DEF FileSet, TraceIsHandedOver, Servers
<1>11. TraceIsFaithful' /\ ServersApart' /\ Searched' /\ DebugSelects' /\ DebugInv'
  BY <1>1, DebugStays DEF StartupInv, TraceIsFaithful, ServersApart, Searched, DebugSelects
<1> QED
  BY <1>8, <1>9, <1>10, <1>11 DEF StartupInv

(* Unlock hands the trace over as it was found.                            *)
LEMMA UnlockInv ==
    ASSUME StartupInv, NEW t \in Threads, Unlock(t) PROVE StartupInv'
<1>1. /\ Ready(t, "unlock") /\ script' = [script EXCEPT ![t] = Tail(@)]
      /\ lock' = "free"
      /\ UNCHANGED <<debugVars, argv, port, trace_file, tr, cache, bound, listening, line, exit>>
  BY DEF Unlock, Call, Pop, OtherVars, mainVars
<1>2. /\ Active(t) /\ exit = "no" /\ Cur(t) \in Mode /\ Head(script[t]).op = "unlock"
      /\ Allowed(Head(script[t]), Cur(t)) /\ Tail(script[t]) \in Seq(Calls)
      /\ Leads(Tail(script[t]), After(Head(script[t]), Cur(t)), Goal(t))
  BY <1>1, NextCall
<1>3. /\ Cur(t).held /\ Cur(t).stage = 2 /\ Cur(t).en /\ Cur(t).depth = 0 /\ Cur(t).out
      /\ After(Head(script[t]), Cur(t)) = [Cur(t) EXCEPT !.held = FALSE]
  BY <1>2 DEF Allowed, After
<1>4. t # "main"
  BY <1>3, CurStage DEF Cur
<1>5. t = lock /\ \A u \in Servers : u # t => u # lock
  BY <1>2, <1>3, <1>4, Holder
<1>6. /\ tr \in TraceStates /\ Cur(t) = View(tr, trace_file, StageOf(t, bound, listening))
      /\ tr.enabled /\ tr.top = -1 /\ tr.output = trace_file
  BY <1>2, <1>3, FreshTrace
<1>7. Cur(t)' = After(Head(script[t]), Cur(t))
  <2>1. PICK n : n = StageOf(t, bound, listening)
    OBVIOUS
  <2>2. Cur(t)' = Aside(n)
    BY <1>1, <1>4, <2>1 DEF Cur, CurOf, Threads
  <2>3. n \in 0..2
    BY <2>1, CurStage
  <2>4. [View(tr, trace_file, n) EXCEPT !.held = FALSE] = Aside(n)
    BY <1>6, <2>3, LockedMode
  <2> QED
    BY <1>3, <1>6, <2>1, <2>2, <2>4
<1>8. \A u \in Servers : u # t => Cur(u)' = Cur(u)
  BY <1>1, <1>5 DEF Cur, CurOf, Servers
<1>9. /\ script' \in [Threads -> Seq(Calls)]
      /\ Followed' /\ MainAlone' /\ OptionsFirst'
      /\ script'["main"] = <<>> <=> t # "main"
  BY <1>1, <1>2, <1>4, <1>7, <1>8, GoesOn
<1>10. StartTypeOK' /\ Typed'
  BY <1>1, <1>9, DebugStays DEF StartupInv, StartTypeOK, Typed
<1>11. FileSet' /\ TraceIsHandedOver'
  BY <1>1, <1>6 DEF FileSet, TraceIsHandedOver
<1>12. TraceIsFaithful' /\ ServersApart' /\ Searched' /\ DebugSelects' /\ DebugInv'
  BY <1>1, DebugStays DEF StartupInv, TraceIsFaithful, ServersApart, Searched, DebugSelects
<1> QED
  BY <1>9, <1>10, <1>11, <1>12 DEF StartupInv

(* pthread_create: main has set the trace file and left the trace on.      *)
LEMMA StartThreadsInv ==
    ASSUME StartupInv, NEW t \in Threads, StartThreads(t) PROVE StartupInv'
<1> DEFINE first == Op("bind") \o Op("listen")
<1>1. /\ Ready(t, "threads")
      /\ script' = [t2 \in Threads |-> IF t2 = "main" THEN <<>> ELSE first]
      /\ UNCHANGED <<debugVars, argv, port, trace_file, tr, cache, lock, bound, listening, line, exit>>
  BY DEF StartThreads, OtherVars, mainVars
<1>2. /\ Active(t) /\ exit = "no" /\ Cur(t) \in Mode /\ Head(script[t]).op = "threads"
      /\ Allowed(Head(script[t]), Cur(t)) /\ Leads(script[t], Cur(t), Goal(t))
  BY <1>1, NextCall
<1>3. Cur(t).held /\ Cur(t).stage = 0 /\ Cur(t).en /\ Cur(t).depth = 0 /\ Cur(t).out
  BY <1>2 DEF Allowed
<1>4. Leads(first, Unbound, Done) /\ first \in Seq(Calls)
  BY ServerCallsLead DEF Leads
<1> HIDE DEF first
<1>5. /\ tr \in TraceStates /\ tr.enabled /\ tr.top = -1 /\ tr.output = trace_file
  BY <1>2, <1>3, FreshTrace
<1>6. /\ script'["main"] = <<>> /\ \A u \in Servers : script'[u] = first
      /\ script' \in [Threads -> Seq(Calls)]
  BY <1>1, <1>4 DEF Threads, Servers
<1>7. MainAlone' /\ OptionsFirst'
  BY <1>6, OptionsScript DEF MainAlone, OptionsFirst
<1>8. Followed'
  <2>1. ASSUME NEW u \in Servers PROVE lock # u /\ StageOf(u, bound, listening) = 0
    <3>1. CASE t = "main"
      BY <1>2, <3>1 DEF Active, StartupInv, MainAlone, StageOf, Servers
    <3>2. CASE t # "main"
      <4>1. t = lock /\ t \in listening
        BY <1>2, <1>3, <3>2, Holder DEF StartupInv, StartTypeOK, Typed, Threads
      <4>2. StageOf(t, bound, listening) = 0
        BY <1>3, CurStage DEF Cur
      <4> QED
        BY <3>2, <4>1, <4>2 DEF StageOf
    <3> QED
      BY <3>1, <3>2
  <2>2. ASSUME NEW u \in Servers PROVE Cur(u)' = Unbound /\ Goal(u) = Done
    BY <1>1, <2>1 DEF Cur, CurOf, Aside, Unbound, Goal, Servers
  <2> QED
    BY <1>4, <1>6, <2>2 DEF Followed, Active, Threads, Servers
<1>9. StartTypeOK' /\ Typed'
  BY <1>1, <1>6, DebugStays DEF StartupInv, StartTypeOK, Typed
<1>10. FileSet' /\ TraceIsHandedOver'
  BY <1>1, <1>5 DEF FileSet, TraceIsHandedOver
<1>11. TraceIsFaithful' /\ ServersApart' /\ Searched' /\ DebugSelects' /\ DebugInv'
  BY <1>1, DebugStays DEF StartupInv, TraceIsFaithful, ServersApart, Searched, DebugSelects
<1> QED
  BY <1>6, <1>7, <1>8, <1>9, <1>10, <1>11 DEF StartupInv

(* A thread that binds or listens is aside.                                *)
LEMMA ServerCall ==
    ASSUME StartupInv, NEW t \in Threads, NEW op \in {"bind", "listen"}, Ready(t, op)
    PROVE  /\ Active(t) /\ exit = "no" /\ t \in Servers /\ t # lock /\ t \notin listening
           /\ script["main"] = <<>>
           /\ op = "bind" => bound[t] = 0
           /\ op = "listen" => bound[t] # 0
           /\ Tail(script[t]) \in Seq(Calls)
           /\ op = "bind" => Leads(Tail(script[t]), Aside(1), Done)
           /\ op = "listen" => Leads(Tail(script[t]), Aside(2), Done)
<1>1. /\ Active(t) /\ exit = "no" /\ Cur(t) \in Mode /\ Head(script[t]).op = op
      /\ Allowed(Head(script[t]), Cur(t)) /\ Tail(script[t]) \in Seq(Calls)
      /\ Leads(Tail(script[t]), After(Head(script[t]), Cur(t)), Goal(t))
  BY NextCall
<1>2. /\ ~Cur(t).held
      /\ op = "bind" => Cur(t).stage = 0 /\ After(Head(script[t]), Cur(t)) = [Cur(t) EXCEPT !.stage = 1]
      /\ op = "listen" => Cur(t).stage = 1 /\ After(Head(script[t]), Cur(t)) = [Cur(t) EXCEPT !.stage = 2]
  BY <1>1 DEF Allowed, After
<1>3. t # lock /\ t \in Servers /\ Cur(t) = Aside(StageOf(t, bound, listening)) /\ Goal(t) = Done
  BY <1>2, NotHolder DEF Threads, Servers, Goal
<1>4. Cur(t).stage = StageOf(t, bound, listening)
  BY CurStage DEF Cur
<1>5. [Aside(0) EXCEPT !.stage = 1] = Aside(1) /\ [Aside(1) EXCEPT !.stage = 2] = Aside(2)
  <2>2. NoLocation \in Places /\ 0 \in Depths /\ 0 \in 0..2 /\ 1 \in 0..2 /\ 2 \in 0..2
    BY DEF Places, Depths
  <2>3. ASSUME NEW i \in 0..2, NEW k \in 0..2 PROVE [Aside(i) EXCEPT !.stage = k] = Aside(k)
    <3>1. PICK x, y, z : x = Aside(i) /\ y = Aside(k) /\ z = [x EXCEPT !.stage = k]
      OBVIOUS
    <3>2. x \in Mode /\ y \in Mode
      BY <2>2, <3>1 DEF Aside, Mode
    <3>3. /\ z \in Mode /\ z.held = x.held /\ z.stage = k /\ z.out = x.out /\ z.en = x.en
          /\ z.depth = x.depth /\ z.outer = x.outer /\ z.inner = x.inner
      BY <3>1, <3>2 DEF Mode
    <3>4. /\ y.held = x.held /\ y.stage = k /\ y.out = x.out /\ y.en = x.en
          /\ y.depth = x.depth /\ y.outer = x.outer /\ y.inner = x.inner
      BY <3>1 DEF Aside
    <3>5. z = y
      BY <3>2, <3>3, <3>4, SameMode DEF Alike
    <3> QED
      BY <3>1, <3>5
  <2> QED
    BY <2>2, <2>3, Zenon
<1>6. t # "main" /\ script["main"] = <<>>
  BY <1>1, <1>3 DEF Servers, Active
<1>7. CASE op = "bind"
  <2>1. StageOf(t, bound, listening) = 0
    BY <1>2, <1>4, <1>7
  <2>2. t \notin listening /\ bound[t] = 0
    BY <1>6, <2>1 DEF StageOf
  <2>3. After(Head(script[t]), Cur(t)) = Aside(1)
    BY <1>2, <1>3, <1>5, <1>7, <2>1
  <2> QED
    BY <1>1, <1>3, <1>6, <1>7, <2>2, <2>3
<1>8. CASE op = "listen"
  <2>1. StageOf(t, bound, listening) = 1
    BY <1>2, <1>4, <1>8
  <2>2. t \notin listening /\ bound[t] # 0
    BY <1>6, <2>1 DEF StageOf
  <2>3. After(Head(script[t]), Cur(t)) = Aside(2)
    BY <1>2, <1>3, <1>5, <1>8, <2>1
  <2> QED
    BY <1>1, <1>3, <1>6, <1>8, <2>2, <2>3
<1> QED
  BY <1>7, <1>8

(* create_server up to bind: the other server keeps its port.              *)
LEMMA CreateServerInv ==
    ASSUME StartupInv, NEW t \in Threads, create_server(t) PROVE StartupInv'
<1>1. /\ Ready(t, "bind") /\ script' = [script EXCEPT ![t] = Tail(@)]
      /\ UNCHANGED <<debugVars, argv, port, trace_file, tr, cache, lock, line>>
  BY DEF create_server, Call, Pop, mainVars
<1>2. /\ Active(t) /\ exit = "no" /\ t \in Servers /\ t # lock /\ t \notin listening
      /\ bound[t] = 0 /\ script["main"] = <<>>
      /\ Tail(script[t]) \in Seq(Calls) /\ Leads(Tail(script[t]), Aside(1), Done)
  BY <1>1, ServerCall
<1>3. /\ listening' = listening
      /\ \/ exit' = "0" /\ bound' = bound
         \/ exit' = "no" /\ \E p \in Nat \ {0} : bound' = [bound EXCEPT ![t] = p]
                                                 /\ (port[t] # 0 => p = port[t])
  <2>1. CASE exit' = "0" /\ UNCHANGED <<bound, listening>>
    BY <2>1
  <2>2. CASE /\ \E p \in IF port[t] = 0 THEN Ephemeral \ {bound["gdb"], bound["irq"]}
                          ELSE {port[t]} \ InUse : bound' = [bound EXCEPT ![t] = p]
             /\ UNCHANGED listening /\ exit' = exit
    <3>1. port[t] \in Nat
      BY <1>2 DEF StartupInv, Typed
    <3>2. Ephemeral \subseteq Nat \ {0}
      BY StartupAssumption
    <3>3. CASE port[t] = 0
      BY <1>2, <2>2, <3>2, <3>3
    <3>4. CASE port[t] # 0
      BY <1>2, <2>2, <3>1, <3>4
    <3> QED
      BY <3>3, <3>4
  <2> QED
    BY <2>1, <2>2 DEF create_server, ExitsOr
<1>4. /\ bound \in [Servers -> Nat] /\ bound' \in [Servers -> Nat]
      /\ \A u \in Servers : u # t => bound'[u] = bound[u]
      /\ exit' = "no" => bound'[t] # 0 /\ (port[t] # 0 => bound'[t] = port[t])
  <2>1. bound \in [Servers -> Nat]
    BY DEF StartupInv, Typed
  <2>2. CASE exit' = "0" /\ bound' = bound
    BY <2>1, <2>2
  <2>3. ASSUME NEW p \in Nat \ {0}, bound' = [bound EXCEPT ![t] = p], port[t] # 0 => p = port[t]
        PROVE  /\ bound' \in [Servers -> Nat]
               /\ \A u \in Servers : u # t => bound'[u] = bound[u]
               /\ bound'[t] # 0 /\ (port[t] # 0 => bound'[t] = port[t])
    BY <1>2, <2>1, <2>3
  <2>4. CASE exit' = "no"
    <3>1. PICK p \in Nat \ {0} : bound' = [bound EXCEPT ![t] = p] /\ (port[t] # 0 => p = port[t])
      <4>1. ~(exit' = "0" /\ bound' = bound)
        BY <2>4
      <4> QED
        BY <1>3, <4>1, Zenon
    <3> QED
      BY <2>1, <2>3, <3>1
  <2> QED
    BY <1>3, <2>1, <2>2, <2>4
<1>5. exit' = "no" => bound'[t] # 0 /\ (port[t] # 0 => bound'[t] = port[t])
  BY <1>4
<1>6. exit' = "no" => Cur(t)' = Aside(1)
  BY <1>1, <1>2, <1>3, <1>5 DEF Cur, CurOf, StageOf, Servers
<1>7. \A u \in Servers : u # t => Cur(u)' = Cur(u)
  BY <1>1, <1>3, <1>4 DEF Cur, CurOf, StageOf
<1>8. /\ script' \in [Threads -> Seq(Calls)]
      /\ Followed' /\ MainAlone' /\ OptionsFirst'
      /\ script'["main"] = <<>> <=> t # "main"
  BY <1>1, <1>2, <1>6, <1>7, GoesOn DEF Goal, Servers
<1>9. StartTypeOK'
  BY <1>1, <1>3, DebugStays DEF StartupInv, StartTypeOK
<1>10. Typed'
  BY <1>1, <1>2, <1>3, <1>4, <1>5, <1>8 DEF StartupInv, Typed
<1>11. FileSet' /\ TraceIsHandedOver'
  BY <1>1, <1>2 DEF StartupInv, FileSet, TraceIsHandedOver
<1>12. ServersApart'
  BY <1>1, <1>2, <1>3, <1>4 DEF StartupInv, Typed, ServersApart, Servers
<1>13. TraceIsFaithful' /\ Searched' /\ DebugSelects' /\ DebugInv'
  BY <1>1, DebugStays DEF StartupInv, TraceIsFaithful, Searched, DebugSelects
<1> QED
  BY <1>8, <1>9, <1>10, <1>11, <1>12, <1>13 DEF StartupInv

(* listen: not on a port where the other server listens.                   *)
LEMMA ListenInv ==
    ASSUME StartupInv, NEW t \in Threads, Listen(t) PROVE StartupInv'
<1>1. /\ Ready(t, "listen") /\ script' = [script EXCEPT ![t] = Tail(@)]
      /\ UNCHANGED <<debugVars, argv, port, trace_file, tr, cache, lock, line>>
  BY DEF Listen, Call, Pop, mainVars
<1>2. /\ Active(t) /\ exit = "no" /\ t \in Servers /\ t # lock /\ t \notin listening
      /\ bound[t] # 0 /\ script["main"] = <<>>
      /\ Tail(script[t]) \in Seq(Calls) /\ Leads(Tail(script[t]), Aside(2), Done)
  BY <1>1, ServerCall
<1>3. /\ bound' = bound
      /\ \/ exit' = "0" /\ listening' = listening
         \/ exit' = "no" /\ listening' = listening \cup {t} /\ bound[t] \notin InUse
  BY <1>2 DEF Listen, ExitsOr
<1>4. exit' = "no" => Cur(t)' = Aside(2)
  BY <1>1, <1>2, <1>3 DEF Cur, CurOf, StageOf, Servers
<1>5. \A u \in Servers : u # t => Cur(u)' = Cur(u)
  <2>1. ASSUME NEW u \in Servers, u # t PROVE StageOf(u, bound', listening') = StageOf(u, bound, listening)
    BY <1>3, <2>1 DEF StageOf
  <2> QED
    BY <1>1, <2>1 DEF Cur
<1>6. /\ script' \in [Threads -> Seq(Calls)]
      /\ Followed' /\ MainAlone' /\ OptionsFirst'
      /\ script'["main"] = <<>> <=> t # "main"
  BY <1>1, <1>2, <1>4, <1>5, GoesOn DEF Goal, Servers
<1>7. StartTypeOK' /\ Typed'
  BY <1>1, <1>2, <1>3, <1>6, DebugStays DEF StartupInv, StartTypeOK, Typed
<1>8. FileSet' /\ TraceIsHandedOver'
  BY <1>1, <1>2 DEF StartupInv, FileSet, TraceIsHandedOver
<1>9. ServersApart'
  <2>1. CASE exit' = "no"
    <3>1. \A u \in listening' : port'[u] # 0 => bound'[u] = port'[u]
      BY <1>1, <1>2, <1>3, <2>1 DEF StartupInv, Typed, ServersApart
    <3>2. ASSUME listening' = {"gdb", "irq"} PROVE bound["gdb"] # bound["irq"]
      BY <1>2, <1>3, <2>1, <3>2 DEF InUse, Servers
    <3> QED
      BY <1>3, <3>1, <3>2 DEF ServersApart
  <2>2. CASE exit' # "no"
    BY <2>2 DEF ServersApart
  <2> QED
    BY <2>1, <2>2
<1>10. TraceIsFaithful' /\ Searched' /\ DebugSelects' /\ DebugInv'
  BY <1>1, DebugStays DEF StartupInv, TraceIsFaithful, Searched, DebugSelects
<1> QED
  BY <1>6, <1>7, <1>8, <1>9, <1>10 DEF StartupInv

(* A packet or an exception arrives for a server that has nothing to do.   *)
LEMMA ArrivesInv ==
    ASSUME StartupInv, NEW t \in Servers, Listening(t), NEW s, Leads(s, Done, Done),
           script' = [script EXCEPT ![t] = s],
           UNCHANGED <<debugVars, mainVars, tr, cache, lock, bound, listening, line, exit>>
    PROVE  StartupInv'
<1>1. exit = "no" /\ script[t] = <<>> /\ t \in listening /\ t \in Threads /\ t # "main"
  BY DEF Listening, Servers, Threads
<1>2. script["main"] = <<>>
  BY <1>1 DEF StartupInv, MainAlone
<1>3. Active(t) /\ Goal(t) = Done /\ s \in Seq(Calls)
  BY <1>1, <1>2 DEF Active, Goal, Leads
<1>4. Leads(<<>>, Cur(t), Done)
  BY <1>1, <1>3 DEF StartupInv, Followed
<1>5. Cur(t) \in Mode
  BY <1>4 DEF Leads
<1>6. Cur(t) = Done
  BY <1>4, <1>5, EmptyLeads
<1>7. \A u \in Threads : Cur(u)' = Cur(u)
  BY DEF Cur, mainVars
<1>8. /\ script' \in [Threads -> Seq(Calls)]
      /\ Followed' /\ MainAlone' /\ OptionsFirst'
      /\ script'["main"] = <<>> <=> t # "main"
  BY <1>1, <1>3, <1>6, <1>7, GoesOn DEF Servers, Threads
<1>9. StartTypeOK' /\ Typed'
  BY <1>8, DebugStays DEF StartupInv, StartTypeOK, Typed, mainVars
<1>10. FileSet' /\ TraceIsHandedOver'
  BY <1>2 DEF StartupInv, FileSet, TraceIsHandedOver, mainVars
<1>11. TraceIsFaithful' /\ ServersApart' /\ Searched' /\ DebugSelects' /\ DebugInv'
  BY DebugStays DEF StartupInv, TraceIsFaithful, ServersApart, Searched, DebugSelects, mainVars
<1> QED
  BY <1>8, <1>9, <1>10, <1>11 DEF StartupInv

----------------------------------------------------------------------------
(* The start. *)
LEMMA StartsRight == StartInit => StartupInv
<1>1. SUFFICES ASSUME StartInit PROVE StartupInv
  OBVIOUS
<1> USE <1>1
<1>2. /\ script["main"] = Op("options") /\ \A t \in Servers : script[t] = <<>>
      /\ script \in [Threads -> Seq(Calls)]
  BY OptionsScript DEF StartInit, Threads, Servers, Op
<1>3. script["main"] # <<>>
  BY <1>2, OptionsScript
<1>4. tr \in TraceStates /\ tr.enabled /\ tr.top = -1
  <2>1. -1 \in -1..(MAX_LOCATIONS - 1)
    BY TraceAssumption
  <2>5. NoFile \in Outputs
    BY DEF Outputs
  <2>2. [i \in 0..(MAX_LOCATIONS - 1) |-> NoLocation]
           \in [0..(MAX_LOCATIONS - 1) -> Locations \cup {NoLocation}]
    OBVIOUS
  <2>3. TraceStart \in TraceStates
    BY <2>1, <2>2, <2>5 DEF TraceStart, TraceStates
  <2>4. TraceStart.enabled /\ TraceStart.top = -1
    BY DEF TraceStart
  <2> QED
    BY <2>3, <2>4 DEF StartInit
<1>5. DebugInv /\ search = NoSearch /\ debugged_files \in [0..MAX_FILES_NUMBER -> Names \cup {0}]
  BY InitInv DEF StartInit, DebugInit
<1>6. cache \in [DebugFiles -> {"unset", "yes", "no"}]
  BY DEF StartInit
<1>7. StartTypeOK
  BY <1>4, <1>5, <1>6 DEF StartInit, StartTypeOK
<1>8. Typed
  <2>1. argv \in Seq(Arguments)
    BY StartupAssumption DEF StartInit
  <2>2. /\ port \in [Servers -> Nat] /\ bound \in [Servers -> Nat]
        /\ \A t \in Servers : bound[t] = 0
    BY DEF StartInit, Servers
  <2>3. listening = {} /\ lock = "free"
    BY DEF StartInit
  <2>4. trace_file \in Outputs
    BY DEF StartInit, Outputs
  <2> QED
    BY <1>2, <2>1, <2>2, <2>3, <2>4 DEF Typed
<1>9. MainAlone /\ OptionsFirst
  BY <1>2, <1>4, <1>5 DEF StartInit, MainAlone, OptionsFirst, Servers
<1>10. Followed
  BY <1>2, <1>3 DEF Followed, Active
<1>11. FileSet /\ TraceIsHandedOver
  BY <1>3 DEF FileSet, TraceIsHandedOver
<1>12. TraceIsFaithful /\ ServersApart
  BY DEF StartInit, TraceIsFaithful, ServersApart, NoLine
<1>13. Searched /\ DebugSelects
  BY <1>5 DEF StartInit, Searched, DebugSelects, NoSearch
<1> QED
  BY <1>5, <1>7, <1>8, <1>9, <1>10, <1>11, <1>12, <1>13 DEF StartupInv

(* Every step keeps the invariant.                                         *)
LEMMA StepsKeep == StartupInv /\ [StartNext]_startVars => StartupInv'
<1>1. SUFFICES ASSUME StartupInv, [StartNext]_startVars PROVE StartupInv'
  OBVIOUS
<1>2. CASE OptionPort \/ OptionHelp \/ OptionTraceFile \/ OptionTrace \/ OptionDebug
           \/ OptionUnknown
  BY <1>1, <1>2, OptionsInv
<1>3. CASE OptionsEnd
  BY <1>1, <1>3, OptionsEndInv
<1>4. ASSUME NEW t \in Threads, ThreadStep(t) PROVE StartupInv'
  BY <1>1, <1>4, StartLocationInv, EndLocationInv, TraceAccessInv, TraceStateInv, TraceSwitchInv,
     SearchInv, AnswerInv, LockInv, UnlockInv, StartThreadsInv, CreateServerInv, ListenInv
     DEF ThreadStep
<1>5. ASSUME NEW c \in Commands, GdbCommand(c) PROVE StartupInv'
  <2> DEFINE s == DebugOp(ScannerFile) \o DebugOp(GdbProtocolFile) \o Op("lock") \o
                  HandlerCalls(c) \o DebugOp(GdbProtocolFile) \o Op("unlock")
  <2>1. /\ Listening("gdb") /\ script' = [script EXCEPT !["gdb"] = s]
        /\ UNCHANGED <<debugVars, mainVars, tr, cache, lock, bound, listening, line, exit>>
    BY <1>5 DEF GdbCommand
  <2>2. Leads(s, Done, Done)
    BY PacketLeads
  <2> HIDE DEF s
  <2> QED
    BY <1>1, <2>1, <2>2, ArrivesInv DEF Servers
<1>6. ASSUME NEW calls \in {<<>>, ExceptionCalls}, IrqArrives(calls) PROVE StartupInv'
  <2> DEFINE s == Op("lock") \o calls \o Op("unlock")
  <2>1. /\ Listening("irq") /\ script' = [script EXCEPT !["irq"] = s]
        /\ UNCHANGED <<debugVars, mainVars, tr, cache, lock, bound, listening, line, exit>>
    BY <1>6 DEF IrqArrives
  <2>2. Leads(s, Done, Done)
    BY IrqLeads
  <2> HIDE DEF s
  <2> QED
    BY <1>1, <2>1, <2>2, ArrivesInv DEF Servers
<1>7. CASE UNCHANGED startVars
  <2>1. /\ UNCHANGED debugVars /\ UNCHANGED <<argv, port, trace_file, tr, cache, script, lock, bound,
                                             listening, line, exit>>
    BY <1>7 DEF startVars, mainVars, threadVars
  <2>2. Followed'
    BY <1>1, <2>1 DEF StartupInv, Followed, Active, Cur
  <2>3. StartTypeOK' /\ Typed' /\ MainAlone' /\ OptionsFirst' /\ FileSet' /\ TraceIsHandedOver'
    BY <1>1, <2>1, DebugStays DEF StartupInv, StartTypeOK, Typed, MainAlone, OptionsFirst, FileSet,
                                  TraceIsHandedOver
  <2>4. TraceIsFaithful' /\ ServersApart' /\ Searched' /\ DebugSelects' /\ DebugInv'
    BY <1>1, <2>1, DebugStays DEF StartupInv, TraceIsFaithful, ServersApart, Searched, DebugSelects
  <2> QED
    BY <2>2, <2>3, <2>4 DEF StartupInv
<1> QED
  BY <1>1, <1>2, <1>3, <1>4, <1>5, <1>6, <1>7 DEF StartNext

(* The invariant holds from the start of the program on.                   *)
LEMMA StartupInvariant == StartSpec => []StartupInv
BY StartsRight, StepsKeep, PTL DEF StartSpec

(* The stack of locations of trace.c stays inside its array, for every     *)
(* nesting that the instructions, the handlers and the exceptions make.    *)
THEOREM StartTypeCorrect == StartSpec => []StartTypeOK
<1>1. StartupInv => StartTypeOK
  BY DEF StartupInv
<1> QED
  BY <1>1, StartupInvariant, PTL

(* Whoever takes the mutex of arm_simulator.c finds the trace on and no    *)
(* location entered, for every sequence of packets and exceptions.         *)
THEOREM TraceAlwaysHandedOver == StartSpec => []TraceIsHandedOver
<1>1. StartupInv => TraceIsHandedOver
  BY DEF StartupInv
<1> QED
  BY <1>1, StartupInvariant, PTL

(* Accesses of the program are traced as the options say, at their own     *)
(* source line and in the chosen file; those of gdb never are.             *)
THEOREM TraceAlwaysFaithful == StartSpec => []TraceIsFaithful
<1>1. StartupInv => TraceIsFaithful
  BY DEF StartupInv
<1> QED
  BY <1>1, StartupInvariant, PTL

(* The servers listen where they were told to, never on one port.          *)
THEOREM ServersAlwaysApart == StartSpec => []ServersApart
<1>1. StartupInv => ServersApart
  BY DEF StartupInv
<1> QED
  BY <1>1, StartupInvariant, PTL

(* The cached answers of debug() are those of the options, all of them as  *)
(* long as there are no more than the array has cells; and the search      *)
(* behind them is right in the program that uses it, too.                  *)
THEOREM DebugAlwaysSelects == StartSpec => [](DebugSelects /\ SearchIsRight)
<1>1. StartupInv => DebugSelects /\ SearchIsRight
  BY DEF StartupInv, DebugInv
<1> QED
  BY <1>1, StartupInvariant, PTL
============================================================================
