------------------------ MODULE ProverServiceProofs ------------------------
(***************************************************************************)
(* Proofs about ProverService, for any numbers of calls, devices and       *)
(* circuits: its types, its counters, and what getDevice is worth when     *)
(* other calls change the counters it loads.                               *)
(***************************************************************************)
EXTENDS ProverService, FiniteSetTheorems, TLAPS

-----------------------------------------------------------------------------
(* The inductive invariant. *)

(* No call is in a process that does not run. *)
Down == ~up => \A c \in Call : pc[c] \in {"new", "done", "lost"}

(* The locals of getDevice before a call arrives. *)
Fresh ==
    \A c \in Call : pc[c] = "new" =>
        /\ scanned[c] = {}
        /\ device[c] = None
        /\ least[c] = MaxTasks
        /\ drift[c] = 0

(* Which calls hold a device. *)
Chosen ==
    \A c \in Call :
        /\ pc[c] \in {"scan", "count"} => UsesDevice(method[c])
        /\ pc[c] \in {"enter", "work"} =>
              IF UsesDevice(method[c]) THEN device[c] \in Device ELSE device[c] = None
        /\ pc[c] \in {"count", "uncount"} => device[c] \in Device

(* In the loop of getDevice, minTasks and the device chosen so far compare *)
(* with the counters already loaded up to the changes made since.          *)
Scanning ==
    \A c \in Call : pc[c] = "scan" =>
        /\ scanned[c] \subseteq devices
        /\ device[c] # None =>
              /\ device[c] \in scanned[c]
              /\ taskCount[device[c]] <= least[c] + drift[c]
        /\ \A e \in scanned[c] :
              /\ least[c] <= taskCount[e] + drift[c]
              /\ device[c] # None => taskCount[device[c]] <= taskCount[e] + drift[c]

Inv ==
    /\ TypeOK
    /\ Down
    /\ Fresh
    /\ Chosen
    /\ Scanning
    /\ CountersExact
    /\ ChoosesLeastLoaded

LEMMA MaxTasksType == MaxTasks \in Nat
  BY SMT DEF MaxTasks

LEMMA InitInv == Init => Inv
  <1> SUFFICES ASSUME Init PROVE Inv
    OBVIOUS
  <1> USE DEF Init, NoCall, NoScan, NoMinimum, NoDrift, NoStages
  <1>1. TypeOK
    BY MaxTasksType DEF TypeOK
  <1>2. Down /\ Fresh /\ Chosen /\ Scanning /\ CountersExact /\ ChoosesLeastLoaded
    BY DEF Down, Fresh, Chosen, Scanning, CountersExact, ChoosesLeastLoaded, Choosing
  <1>. QED
    BY <1>1, <1>2 DEF Inv

-----------------------------------------------------------------------------
(* How a step of one call changes the state. *)

(* What a step of c leaves to the other calls. *)
Others(c) ==
    \A b \in Call \ {c} :
        /\ pc'[b] = pc[b]
        /\ method'[b] = method[b]
        /\ device'[b] = device[b]
        /\ scanned'[b] = scanned[b]
        /\ least'[b] = least[b]

LEMMA StepFrame ==
    ASSUME TypeOK, NEW c \in Call, Step(c)
    PROVE  process' = process /\ Others(c)
  <1>1. ASSUME NEW m \in Method, NEW k \in Circuit, Arrive(c, m, k)
        PROVE  process' = process /\ Others(c)
    BY <1>1 DEF TypeOK, Arrive, Answer, CheckInput, Keep, Others, choice
  <1>2. ASSUME NEW d \in Device, Load(c, d)
        PROVE  process' = process /\ Others(c)
    BY <1>2 DEF TypeOK, Load, asked, Others
  <1>3. ASSUME Selected(c)
        PROVE  process' = process /\ Others(c)
    BY <1>3 DEF TypeOK, Selected, Answer, CheckInput, Keep, Others
  <1>4. ASSUME Enter(c)
        PROVE  process' = process /\ Others(c)
    BY <1>4 DEF TypeOK, Enter, Others, asked, choice
  <1>5. ASSUME Count(c) \/ Uncount(c)
        PROVE  process' = process /\ Others(c)
    BY <1>5 DEF TypeOK, Count, Uncount, Others, asked, choice
  <1>6. ASSUME Stage(c) \/ Exit(c)
        PROVE  process' = process /\ Others(c)
    BY <1>6 DEF TypeOK, Stage, Exit, Others, asked, choice
  <1>7. ASSUME Fail(c) \/ Succeed(c)
        PROVE  process' = process /\ Others(c)
    BY <1>7 DEF TypeOK, Fail, Succeed, Keep, Others, choice
  <1>. QED
    BY <1>1, <1>2, <1>3, <1>4, <1>5, <1>6, <1>7 DEF Step

(* A counter changes only when a call counts or uncounts its task, and     *)
(* every other call that is choosing a device then notes a change.         *)
LEMMA QuietStep ==
    ASSUME NEW c \in Call, Step(c), ~Count(c), ~Uncount(c)
    PROVE  taskCount' = taskCount /\ drift' = drift
  BY DEF Step, Arrive, Load, Selected, Enter, Stage, Fail, Succeed, Exit, choice

(* What counting a task, and ending it, does to the sets that are counted. *)
LEMMA CountedCalls ==
    ASSUME TypeOK, NEW c \in Call, Step(c)
    PROVE  /\ Running' = IF pc'[c] \in {"count", "work", "uncount", "exit"}
                         THEN Running \cup {c} ELSE Running \ {c}
           /\ \A d \in Device :
                 TasksOn(d)' = IF pc'[c] \in {"work", "uncount"} /\ device'[c] = d
                               THEN TasksOn(d) \cup {c} ELSE TasksOn(d) \ {c}
  BY StepFrame DEF Others, Running, TasksOn

LEMMA FiniteCalls ==
    /\ IsFiniteSet(Running) /\ Cardinality(Running) \in Nat
    /\ \A d : IsFiniteSet(TasksOn(d)) /\ Cardinality(TasksOn(d)) \in Nat
  <1>1. Running \subseteq Call /\ \A d : TasksOn(d) \subseteq Call
    BY DEF Running, TasksOn
  <1>. QED
    BY <1>1, ServiceAssumption, FS_Subset, FS_CardinalityType

-----------------------------------------------------------------------------
(* The counters. *)

LEMMA Adding ==
    ASSUME NEW S, IsFiniteSet(S), NEW e
    PROVE  /\ e \in S => S \cup {e} = S /\ Cardinality(S) \in Nat \ {0}
           /\ e \notin S => S \ {e} = S /\ Cardinality(S \cup {e}) = Cardinality(S) + 1
           /\ e \in S => Cardinality(S \ {e}) = Cardinality(S) - 1
  <1>1. e \in S => Cardinality(S) # 0
    BY FS_EmptySet
  <1>. QED
    BY <1>1, FS_CardinalityType, FS_AddElement, FS_RemoveElement

LEMMA RunningStep ==
    ASSUME Inv, NEW c \in Call, Step(c)
    PROVE  /\ running' = Cardinality(Running)'
           /\ running' \in Nat
  <1>1. up
    BY DEF Inv, TypeOK, Down, Step, Arrive, Load, Selected, Enter, Count, Stage, Fail, Succeed, Uncount, Exit
  <1>2. running = Cardinality(Running) /\ IsFiniteSet(Running) /\ Cardinality(Running) \in Nat
    BY <1>1, FiniteCalls DEF Inv, CountersExact
  <1>3. c \in Running <=> pc[c] \in {"count", "work", "uncount", "exit"}
    BY DEF Running
  <1>4. Running' = IF pc'[c] \in {"count", "work", "uncount", "exit"}
                   THEN Running \cup {c} ELSE Running \ {c}
    BY CountedCalls DEF Inv
  <1>5. CASE Enter(c)
    <2>1. pc'[c] \in {"count", "work"} /\ c \notin Running /\ running' = running + 1
      BY <1>3, <1>5 DEF Enter, Inv, TypeOK
    <2>. QED
      BY <1>2, <1>4, <2>1, Adding
  <1>6. CASE Exit(c)
    <2>1. pc'[c] = "done" /\ c \in Running /\ running' = running - 1
      BY <1>3, <1>6 DEF Exit, Inv, TypeOK
    <2>. QED
      BY <1>2, <1>4, <2>1, Adding
  <1>7. CASE ~Enter(c) /\ ~Exit(c)
    <2>1. running' = running
      BY <1>7 DEF Step, Arrive, Load, Selected, Count, Stage, Fail, Succeed, Uncount
    <2>2. c \in Running <=> pc'[c] \in {"count", "work", "uncount", "exit"}
      <3>1. ASSUME NEW m \in Method, NEW k \in Circuit, Arrive(c, m, k)
            PROVE  pc[c] = "new" /\ pc'[c] \in {"scan", "enter", "done"}
        BY <3>1 DEF Inv, TypeOK, Arrive, Answer, CheckInput
      <3>2. ASSUME NEW d \in Device, Load(c, d)
            PROVE  pc' = pc
        BY <3>2 DEF Load
      <3>3. ASSUME Selected(c)
            PROVE  pc[c] = "scan" /\ pc'[c] \in {"enter", "done"}
        BY <3>3 DEF Inv, TypeOK, Selected, Answer, CheckInput
      <3>4. ASSUME Count(c) \/ Uncount(c) \/ Stage(c) \/ Fail(c) \/ Succeed(c)
            PROVE  /\ pc[c] \in {"count", "work", "uncount", "exit"}
                   /\ pc'[c] \in {"count", "work", "uncount", "exit"}
        BY <3>4 DEF Inv, TypeOK, Count, Uncount, Stage, Fail, Succeed, Leaving
      <3>. QED
        BY <1>3, <1>7, <3>1, <3>2, <3>3, <3>4 DEF Step
    <2>. QED
      BY <1>2, <1>4, <2>1, <2>2, Adding
  <1>. QED
    BY <1>5, <1>6, <1>7

LEMMA StepUp ==
    ASSUME Inv, NEW c \in Call, Step(c)
    PROVE  up
  BY DEF Inv, TypeOK, Down, Step, Arrive, Load, Selected, Enter, Count, Stage, Fail, Succeed, Uncount, Exit

LEMMA TasksStep ==
    ASSUME Inv, NEW c \in Call, Step(c), NEW d \in Device
    PROVE  /\ taskCount'[d] = Cardinality(TasksOn(d))'
           /\ taskCount'[d] \in Nat
  <1>1. /\ taskCount[d] = Cardinality(TasksOn(d)) /\ Cardinality(TasksOn(d)) \in Nat
        /\ IsFiniteSet(TasksOn(d))
    BY StepUp, FiniteCalls DEF Inv, CountersExact
  <1>2. c \in TasksOn(d) <=> pc[c] \in {"work", "uncount"} /\ device[c] = d
    BY DEF TasksOn
  <1>3. TasksOn(d)' = IF pc'[c] \in {"work", "uncount"} /\ device'[c] = d
                      THEN TasksOn(d) \cup {c} ELSE TasksOn(d) \ {c}
    BY CountedCalls DEF Inv
  <1>0. LET S == TasksOn(d) IN
        /\ c \in S => S \cup {c} = S
        /\ c \notin S => S \ {c} = S /\ Cardinality(S \cup {c}) = Cardinality(S) + 1
        /\ c \in S => Cardinality(S \ {c}) = Cardinality(S) - 1 /\ Cardinality(S) # 0
    BY <1>1, Adding
  <1>4. CASE Count(c)
    <2>1. pc[c] = "count" /\ pc'[c] = "work" /\ device'[c] = device[c] /\ c \notin TasksOn(d)
      BY <1>2, <1>4 DEF Count, Inv, TypeOK
    <2>2. taskCount'[d] = IF device[c] = d THEN taskCount[d] + 1 ELSE taskCount[d]
      BY <1>4 DEF Count, Inv, TypeOK
    <2>. QED
      BY <1>1, <1>3, <2>1, <2>2, <1>0
  <1>5. CASE Uncount(c)
    <2>1. pc[c] = "uncount" /\ pc'[c] = "exit"
      BY <1>5 DEF Uncount, Inv, TypeOK
    <2>2. taskCount'[d] = IF device[c] = d THEN taskCount[d] - 1 ELSE taskCount[d]
      BY <1>5 DEF Uncount, Inv, TypeOK
    <2>3. c \in TasksOn(d) <=> device[c] = d
      BY <1>2, <2>1
    <2>4. TasksOn(d)' = TasksOn(d) \ {c}
      BY <1>3, <2>1
    <2>5. Cardinality(TasksOn(d))' = Cardinality(TasksOn(d) \ {c})
      BY <2>4
    <2>6. CASE device[c] = d
      BY <1>1, <2>2, <2>3, <2>5, <2>6, <1>0
    <2>7. CASE device[c] # d
      BY <1>1, <2>2, <2>3, <2>5, <2>7, <1>0
    <2>. QED
      BY <2>6, <2>7
  <1>6. CASE ~Count(c) /\ ~Uncount(c)
    <2>1. taskCount' = taskCount
      BY <1>6, QuietStep
    <2>2. c \in TasksOn(d) <=> pc'[c] \in {"work", "uncount"} /\ device'[c] = d
      <3>1. ASSUME NEW m \in Method, NEW k \in Circuit, Arrive(c, m, k)
            PROVE  pc[c] = "new" /\ pc'[c] \in {"scan", "enter", "done"}
        BY <3>1 DEF Inv, TypeOK, Arrive, Answer, CheckInput
      <3>2. ASSUME NEW e \in Device, Load(c, e)
            PROVE  pc[c] = "scan" /\ pc' = pc
        BY <3>2 DEF Load
      <3>3. ASSUME Selected(c)
            PROVE  pc[c] = "scan" /\ pc'[c] \in {"enter", "done"}
        BY <3>3 DEF Inv, TypeOK, Selected, Answer, CheckInput
      <3>4. ASSUME Enter(c)
            PROVE  /\ pc[c] = "enter"
                   /\ pc'[c] = "count" \/ (device[c] = None /\ device' = device)
        BY <3>4 DEF Inv, TypeOK, Chosen, Enter, choice
      <3>5. ASSUME Stage(c)
            PROVE  pc' = pc /\ device' = device
        BY <3>5 DEF Stage, choice
      <3>6. ASSUME Fail(c) \/ Succeed(c)
            PROVE  /\ pc[c] = "work" /\ device' = device
                   /\ pc'[c] = "uncount" \/ (pc'[c] = "exit" /\ device[c] = None)
        BY <3>6 DEF Inv, TypeOK, Chosen, Fail, Succeed, Leaving, choice
      <3>7. ASSUME Exit(c)
            PROVE  pc[c] = "exit" /\ pc'[c] = "done"
        BY <3>7 DEF Inv, TypeOK, Exit
      <3>8. d # None
        BY ServiceAssumption
      <3>. QED
        BY <1>2, <1>6, <3>1, <3>2, <3>3, <3>4, <3>5, <3>6, <3>7, <3>8 DEF Step
    <2>. QED
      BY <1>1, <1>3, <2>1, <2>2, <1>0
  <1>. QED
    BY <1>4, <1>5, <1>6

LEMMA CountersStep == Inv /\ [Next]_vars => CountersExact'
  <1> SUFFICES ASSUME Inv, [Next]_vars
               PROVE  CountersExact'
    OBVIOUS
  <1>1. CASE Start
    <2>1. Running' = {} /\ \A d \in Device : TasksOn(d)' = {}
      BY <1>1 DEF Inv, Down, Start, Running, TasksOn
    <2>2. running' = 0 /\ \A d \in Device : taskCount'[d] = 0
      BY <1>1 DEF Start
    <2>. QED
      BY <2>1, <2>2, FS_EmptySet DEF CountersExact
  <1>2. CASE Stop
    BY <1>2 DEF Stop, CountersExact
  <1>3. ASSUME NEW c \in Call, Step(c)
        PROVE  CountersExact'
    BY <1>3, RunningStep, TasksStep DEF CountersExact
  <1>4. CASE UNCHANGED vars
    BY <1>4 DEF Inv, CountersExact, vars, process, choice, Running, TasksOn
  <1>. QED
    BY <1>1, <1>2, <1>3, <1>4 DEF Next

-----------------------------------------------------------------------------
(* Types. *)

LEMMA TypeStep == Inv /\ [Next]_vars => TypeOK'
  <1> SUFFICES ASSUME Inv, [Next]_vars
               PROVE  TypeOK'
    OBVIOUS
  <1> USE DEF Inv
  <1>1. CASE Start
    BY <1>1, SMT DEF TypeOK, Start, Loads, asked, choice
  <1>2. CASE Stop
    <2>1. pc' \in [Call -> {"new", "scan", "enter", "count", "work", "uncount", "exit", "done", "lost"}]
      BY <1>2 DEF Stop
    <2>2. /\ scanned' \in [Call -> SUBSET Device]
          /\ device' \in [Call -> Device \cup {None}]
          /\ method' \in [Call -> Method \cup {None}]
          /\ circuit' \in [Call -> Circuit \cup {None}]
          /\ least' \in [Call -> Nat]
          /\ drift' \in [Call -> Nat]
      BY <1>2, MaxTasksType DEF Stop, NoScan, NoCall, NoMinimum, NoDrift
    <2>. QED
      BY <1>2, <2>1, <2>2 DEF TypeOK, Stop
  <1>3. ASSUME NEW c \in Call, Step(c)
        PROVE  TypeOK'
    <2>1. process' = process
      BY <1>3, StepFrame
    <2>2. running' \in Nat
      BY <1>3, RunningStep
    <2>3. taskCount' \in [Device -> Nat]
      <3>1. taskCount' \in [Device -> Int]
        <4>1. CASE Count(c)
          <5>1. device[c] \in Device /\ taskCount[device[c]] \in Nat
            BY <4>1 DEF TypeOK, Chosen, Count
          <5>. QED
            BY <4>1, <5>1 DEF TypeOK, Count
        <4>2. CASE Uncount(c)
          <5>1. device[c] \in Device /\ taskCount[device[c]] \in Nat
            BY <4>2 DEF TypeOK, Chosen, Uncount
          <5>. QED
            BY <4>2, <5>1 DEF TypeOK, Uncount
        <4>. QED
          BY <1>3, <4>1, <4>2, QuietStep DEF TypeOK
      <3>. QED
        BY <1>3, <3>1, TasksStep
    <2>4. drift' \in [Call -> Nat]
      <3>1. CASE Count(c) \/ Uncount(c)
        BY <3>1 DEF TypeOK, Count, Uncount, Drifts
      <3>. QED
        BY <1>3, <3>1, QuietStep DEF TypeOK
    <2> DEFINE Local ==
          /\ pc \in [Call -> {"new", "scan", "enter", "count", "work", "uncount", "exit", "done", "lost"}]
          /\ method \in [Call -> Method \cup {None}]
          /\ circuit \in [Call -> Circuit \cup {None}]
          /\ scanned \in [Call -> SUBSET Device]
          /\ device \in [Call -> Device \cup {None}]
          /\ least \in [Call -> Nat]
    <2>5. Local'
      <3>1. ASSUME NEW m \in Method, NEW k \in Circuit, Arrive(c, m, k)
            PROVE  Local'
        BY <3>1, SMT DEF TypeOK, Arrive, Answer, CheckInput, Keep, choice
      <3>2. ASSUME NEW d \in Device, Load(c, d)
            PROVE  Local'
        BY <3>2, SMT DEF TypeOK, Load, asked
      <3>3. ASSUME Selected(c)
            PROVE  Local'
        BY <3>3, MaxTasksType, SMT DEF TypeOK, Selected, Answer, CheckInput, Keep
      <3>4. ASSUME Enter(c) \/ Count(c) \/ Stage(c)
            PROVE  Local'
        BY <3>4 DEF TypeOK, Enter, Count, Stage, asked, choice
      <3>5. ASSUME Uncount(c) \/ Exit(c)
            PROVE  Local'
        BY <3>5 DEF TypeOK, Uncount, Exit, asked, choice
      <3>6. ASSUME Fail(c) \/ Succeed(c)
            PROVE  Local'
        <4>1. Leaving(c) \in {"uncount", "exit"}
          BY DEF Leaving
        <4>2. pc' = [pc EXCEPT ![c] = Leaving(c)] /\ Keep(c, method[c], circuit[c]) /\ UNCHANGED choice
          BY <3>6 DEF Fail, Succeed
        <4>. QED
          BY <4>1, <4>2 DEF TypeOK, Keep, choice
      <3>. QED
        BY <1>3, <3>1, <3>2, <3>3, <3>4, <3>5, <3>6 DEF Step
    <2>. QED
      BY <2>1, <2>2, <2>3, <2>4, <2>5 DEF TypeOK, process
  <1>4. CASE UNCHANGED vars
    BY <1>4 DEF TypeOK, vars, process, asked, choice
  <1>. QED
    BY <1>1, <1>2, <1>3, <1>4 DEF Next

-----------------------------------------------------------------------------
(* Where a call is, and what it holds. *)

LEMMA DownStep == Inv /\ [Next]_vars => Down'
  <1> SUFFICES ASSUME Inv, [Next]_vars
               PROVE  Down'
    OBVIOUS
  <1>1. CASE Start
    BY <1>1 DEF Start, Down
  <1>2. CASE Stop
    BY <1>2 DEF Stop, Down
  <1>3. ASSUME NEW c \in Call, Step(c)
        PROVE  Down'
    BY <1>3, StepUp, StepFrame DEF Inv, Down, process
  <1>4. CASE UNCHANGED vars
    BY <1>4 DEF Inv, Down, vars, process
  <1>. QED
    BY <1>1, <1>2, <1>3, <1>4 DEF Next

LEMMA FreshStep == Inv /\ [Next]_vars => Fresh'
  <1> SUFFICES ASSUME Inv, [Next]_vars
               PROVE  Fresh'
    OBVIOUS
  <1>1. CASE Start
    BY <1>1 DEF Inv, Start, Fresh, choice
  <1>2. CASE Stop
    BY <1>2 DEF Stop, Fresh, NoScan, NoCall, NoMinimum, NoDrift
  <1>3. ASSUME NEW c \in Call, Step(c)
        PROVE  Fresh'
    <2>1. pc'[c] # "new"
      BY <1>3 DEF Inv, TypeOK, Step, Arrive, Answer, CheckInput, Load, Selected, Enter, Count,
                  Stage, Fail, Succeed, Leaving, Uncount, Exit
    <2>2. ASSUME NEW b \in Call \ {c}, pc[b] = "new"
          PROVE  drift'[b] = drift[b]
      <3>1. CASE Count(c) \/ Uncount(c)
        BY <2>2, <3>1 DEF Count, Uncount, Drifts, Choosing, Inv, TypeOK
      <3>. QED
        BY <1>3, <3>1, QuietStep
    <2>. QED
      BY <1>3, <2>1, <2>2, StepFrame DEF Inv, Fresh, Others
  <1>4. CASE UNCHANGED vars
    BY <1>4 DEF Inv, Fresh, vars, choice
  <1>. QED
    BY <1>1, <1>2, <1>3, <1>4 DEF Next

LEMMA ChosenStep == Inv /\ [Next]_vars => Chosen'
  <1> SUFFICES ASSUME Inv, [Next]_vars
               PROVE  Chosen'
    OBVIOUS
  <1>1. CASE Start
    BY <1>1 DEF Inv, Start, Chosen, UsesDevice, choice, asked
  <1>2. CASE Stop
    BY <1>2 DEF Stop, Chosen
  <1>3. ASSUME NEW c \in Call, Step(c)
        PROVE  Chosen'
    <2>1. \A m : UsesDevice(m)' <=> UsesDevice(m)
      BY <1>3, StepFrame DEF Inv, UsesDevice, process
    <2> DEFINE Holds(b) ==
          /\ pc[b] \in {"scan", "count"} => UsesDevice(method[b])
          /\ pc[b] \in {"enter", "work"} =>
                IF UsesDevice(method[b]) THEN device[b] \in Device ELSE device[b] = None
          /\ pc[b] \in {"count", "uncount"} => device[b] \in Device
    <2>2. ASSUME NEW b \in Call \ {c}
          PROVE  Holds(b)'
      <3>1. Holds(b)
        BY DEF Inv, Chosen
      <3>. QED
        BY <1>3, <3>1, StepFrame DEF Inv, Others, UsesDevice, process
    <2>3. Holds(c)'
      <3>0. Holds(c) /\ c \in Call
        BY DEF Inv, Chosen
      <3>1. ASSUME NEW m \in Method, NEW k \in Circuit, Arrive(c, m, k)
            PROVE  Holds(c)'
        <4>1. device'[c] = None /\ build' = build
          BY <3>1 DEF Inv, Fresh, Arrive, choice, process
        <4>2. \/ pc'[c] = "scan" /\ UsesDevice(m) /\ method'[c] = m
              \/ pc'[c] = "enter" /\ ~UsesDevice(m) /\ method'[c] = m
              \/ pc'[c] = "done"
          BY <3>1 DEF Inv, TypeOK, Arrive, Answer, CheckInput, Keep
        <4>. QED
          BY <4>1, <4>2 DEF UsesDevice
      <3>2. ASSUME NEW d \in Device, Load(c, d)
            PROVE  Holds(c)'
        BY <3>0, <3>2 DEF Load, UsesDevice, process, asked
      <3>3. ASSUME Selected(c)
            PROVE  Holds(c)'
        <4>1. device' = device /\ build' = build /\ device[c] \in Device \cup {None}
          BY <3>3 DEF Selected, process, Inv, TypeOK
        <4>2. \/ pc'[c] = "enter" /\ device[c] # None /\ method'[c] = method[c]
              \/ pc'[c] = "done"
          BY <3>3 DEF Inv, TypeOK, Selected, Answer, CheckInput, Keep
        <4>. QED
          BY <3>0, <3>3, <4>1, <4>2 DEF Selected, UsesDevice
      <3>4. ASSUME Enter(c)
            PROVE  Holds(c)'
        BY <3>0, <3>4 DEF Inv, TypeOK, Enter, UsesDevice, process, asked, choice
      <3>5. ASSUME Count(c)
            PROVE  Holds(c)'
        BY <3>0, <3>5 DEF Inv, TypeOK, Count, UsesDevice, process, asked
      <3>6. ASSUME Stage(c)
            PROVE  Holds(c)'
        BY <3>0, <3>6 DEF Stage, UsesDevice, process, asked, choice
      <3>7. ASSUME Fail(c) \/ Succeed(c)
            PROVE  Holds(c)'
        BY <3>0, <3>7 DEF Inv, TypeOK, Fail, Succeed, Leaving, process, choice
      <3>8. ASSUME Uncount(c) \/ Exit(c)
            PROVE  Holds(c)'
        BY <3>8 DEF Inv, TypeOK, Uncount, Exit
      <3>. QED
        BY <1>3, <3>1, <3>2, <3>3, <3>4, <3>5, <3>6, <3>7, <3>8 DEF Step
    <2>. QED
      BY <2>2, <2>3 DEF Chosen
  <1>4. CASE UNCHANGED vars
    BY <1>4 DEF Inv, Chosen, UsesDevice, vars, process, asked, choice
  <1>. QED
    BY <1>1, <1>2, <1>3, <1>4 DEF Next

-----------------------------------------------------------------------------
(* What is known of the counters while a call chooses a device. *)

(* A step of another call moves one counter by one at most, and then drift *)
(* grows by one: every comparison up to drift still holds.                 *)
LEMMA DriftStep ==
    ASSUME Inv, NEW c \in Call, Step(c), NEW b \in Call \ {c}, Choosing(b)
    PROVE  /\ \A x, y \in Device :
                 taskCount[x] <= taskCount[y] + drift[b] => taskCount'[x] <= taskCount'[y] + drift'[b]
           /\ \A x \in Device, n \in Nat :
                 /\ taskCount[x] <= n + drift[b] => taskCount'[x] <= n + drift'[b]
                 /\ n <= taskCount[x] + drift[b] => n <= taskCount'[x] + drift'[b]
  <1>1. drift[b] \in Nat /\ \A x \in Device : taskCount[x] \in Nat
    BY DEF Inv, TypeOK
  <1>2. CASE Count(c) \/ Uncount(c)
    <2>1. drift'[b] = drift[b] + 1
      BY <1>2 DEF Count, Uncount, Drifts
    <2>2. \/ \A x \in Device : taskCount'[x] = IF x = device[c] THEN taskCount[x] + 1 ELSE taskCount[x]
          \/ \A x \in Device : taskCount'[x] = IF x = device[c] THEN taskCount[x] - 1 ELSE taskCount[x]
      BY <1>2 DEF Inv, TypeOK, Count, Uncount
    <2>. QED
      BY <1>1, <2>1, <2>2
  <1>3. CASE ~Count(c) /\ ~Uncount(c)
    BY <1>3, QuietStep
  <1>. QED
    BY <1>2, <1>3

LEMMA ScanningStep == Inv /\ [Next]_vars => Scanning'
  <1> SUFFICES ASSUME Inv, [Next]_vars
               PROVE  Scanning'
    OBVIOUS
  <1>1. CASE Start
    BY <1>1 DEF Inv, Down, Start, Scanning
  <1>2. CASE Stop
    BY <1>2 DEF Stop, Scanning
  <1>3. ASSUME NEW c \in Call, Step(c)
        PROVE  Scanning'
    <2> DEFINE Scans(b) ==
          pc[b] = "scan" =>
            /\ scanned[b] \subseteq devices
            /\ device[b] # None =>
                  /\ device[b] \in scanned[b]
                  /\ taskCount[device[b]] <= least[b] + drift[b]
            /\ \A e \in scanned[b] :
                  /\ least[b] <= taskCount[e] + drift[b]
                  /\ device[b] # None => taskCount[device[b]] <= taskCount[e] + drift[b]
    <2>0. devices' = devices
      BY <1>3, StepFrame DEF Inv, process
    <2>1. ASSUME NEW b \in Call \ {c}, pc'[b] = "scan"
          PROVE  Scans(b)'
      <3>1. Scans(b)
        BY DEF Inv, Scanning
      <3>2. /\ pc[b] = "scan" /\ scanned'[b] = scanned[b] /\ device'[b] = device[b]
            /\ least'[b] = least[b] /\ least[b] \in Nat /\ scanned[b] \subseteq Device
        BY <1>3, <2>1, StepFrame DEF Inv, TypeOK, Others
      <3>3. CASE scanned[b] = {}
        BY <3>1, <3>2, <3>3
      <3>4. CASE scanned[b] # {}
        <4>1. Choosing(b)
          BY <3>2, <3>4 DEF Choosing
        <4>2. ASSUME NEW e \in scanned[b]
              PROVE  /\ least[b] <= taskCount'[e] + drift'[b]
                     /\ device[b] # None => taskCount'[device[b]] <= taskCount'[e] + drift'[b]
          <5>1. e \in Device /\ (device[b] # None => device[b] \in Device)
            BY <3>1, <3>2
          <5>. QED
            BY <1>3, <3>1, <3>2, <4>1, <5>1, DriftStep
        <4>3. device[b] # None => taskCount'[device[b]] <= least[b] + drift'[b]
          <5>1. device[b] # None => device[b] \in Device
            BY <3>1, <3>2
          <5>. QED
            BY <1>3, <3>1, <3>2, <4>1, <5>1, DriftStep
        <4>. QED
          BY <2>0, <3>1, <3>2, <4>2, <4>3
      <3>. QED
        BY <3>3, <3>4
    <2>2. ASSUME pc'[c] = "scan"
          PROVE  Scans(c)'
      <3>1. ASSUME NEW m \in Method, NEW k \in Circuit, Arrive(c, m, k)
            PROVE  Scans(c)'
        BY <3>1 DEF Inv, Fresh, Arrive, choice
      <3>2. ASSUME NEW d \in Device, Load(c, d)
            PROVE  Scans(c)'
        <4>1. /\ Scans(c) /\ pc[c] = "scan" /\ scanned'[c] = scanned[c] \cup {d} /\ d \in devices
              /\ taskCount' = taskCount /\ drift' = drift
          BY <3>2 DEF Inv, TypeOK, Scanning, Load
        <4>2. /\ drift[c] \in Nat /\ least[c] \in Nat /\ taskCount[d] \in Nat
              /\ \A e \in scanned[c] : taskCount[e] \in Nat
              /\ device[c] # None => taskCount[device[c]] \in Nat
          BY <4>1 DEF Inv, TypeOK
        <4>3. CASE taskCount[d] < least[c]
          <5>1. least'[c] = taskCount[d] /\ device'[c] = d
            BY <3>2, <4>3 DEF Load, Fewer, Inv, TypeOK
          <5>2. ASSUME NEW e \in scanned[c]
                PROVE  taskCount[d] <= taskCount[e] + drift[c]
            BY <4>1, <4>2, <4>3
          <5>3. taskCount[d] <= taskCount[d] + drift[c]
            BY <4>2
          <5>. QED
            BY <2>0, <4>1, <5>1, <5>2, <5>3
        <4>4. CASE ~(taskCount[d] < least[c])
          <5>1. least'[c] = least[c] /\ device'[c] = device[c]
            BY <3>2, <4>4 DEF Load, Fewer
          <5>2. least[c] <= taskCount[d] + drift[c]
            BY <4>2, <4>4
          <5>3. ASSUME device[c] # None
                PROVE  taskCount[device[c]] <= taskCount[d] + drift[c]
            BY <4>1, <4>2, <4>4, <5>3
          <5>. QED
            BY <2>0, <4>1, <5>1, <5>2, <5>3
        <4>. QED
          BY <4>3, <4>4
      <3>3. ASSUME Stage(c) \/ Selected(c) \/ Enter(c) \/ Count(c)
            PROVE  FALSE
        BY <2>2, <3>3 DEF Inv, TypeOK, Stage, Selected, Answer, CheckInput, Enter, Count
      <3>4. ASSUME Fail(c) \/ Succeed(c) \/ Uncount(c) \/ Exit(c)
            PROVE  FALSE
        BY <2>2, <3>4 DEF Inv, TypeOK, Fail, Succeed, Leaving, Uncount, Exit
      <3>. QED
        BY <1>3, <3>1, <3>2, <3>3, <3>4 DEF Step
    <2>. QED
      BY <2>1, <2>2 DEF Scanning
  <1>4. CASE UNCHANGED vars
    BY <1>4 DEF Inv, Scanning, vars, process, choice
  <1>. QED
    BY <1>1, <1>2, <1>3, <1>4 DEF Next

LEMMA ChoosesStep == Inv /\ [Next]_vars => ChoosesLeastLoaded'
  <1> SUFFICES ASSUME Inv, [Next]_vars
               PROVE  ChoosesLeastLoaded'
    OBVIOUS
  <1>1. CASE Start
    BY <1>1 DEF Inv, Down, Start, ChoosesLeastLoaded, Choosing
  <1>2. CASE Stop
    BY <1>2 DEF Stop, ChoosesLeastLoaded, Choosing
  <1>3. ASSUME NEW c \in Call, Step(c)
        PROVE  ChoosesLeastLoaded'
    <2>0. /\ devices' = devices /\ devices \subseteq Device
          /\ \A m : UsesDevice(m)' <=> UsesDevice(m)
      BY <1>3, StepFrame DEF Inv, TypeOK, process, UsesDevice
    <2> SUFFICES ASSUME NEW b \in Call, NEW d \in devices, Choosing(b)', pc'[b] # "scan"
                 PROVE  taskCount'[device'[b]] <= taskCount'[d] + drift'[b]
      BY <2>0 DEF ChoosesLeastLoaded
    <2>1. CASE b # c
      <3>1. /\ Choosing(b) /\ pc[b] \in {"enter", "count"} /\ device'[b] = device[b]
            /\ UsesDevice(method[b])
        BY <1>3, <2>1, StepFrame DEF Inv, Others, Choosing, UsesDevice, process
      <3>2. taskCount[device[b]] <= taskCount[d] + drift[b] /\ device[b] \in Device
        BY <3>1 DEF Inv, ChoosesLeastLoaded, Chosen
      <3>. QED
        BY <1>3, <2>0, <2>1, <3>1, <3>2, DriftStep
    <2>2. CASE b = c
      <3>1. /\ pc'[c] \in {"enter", "count"} /\ (UsesDevice(method[c]))'
        BY <2>2 DEF Choosing
      <3>2. CASE Selected(c)
        <4>1. /\ pc[c] = "scan" /\ scanned[c] = devices /\ device' = device
              /\ taskCount' = taskCount /\ drift' = drift
          BY <3>2 DEF Selected
        <4>2. device[c] # None
          BY <3>1, <3>2 DEF Selected, Answer, Inv, TypeOK
        <4>. QED
          BY <2>2, <4>1, <4>2 DEF Inv, Scanning
      <3>3. CASE Enter(c)
        <4>1. /\ pc[c] = "enter" /\ device' = device /\ method' = method
              /\ taskCount' = taskCount /\ drift' = drift
          BY <3>3 DEF Enter, asked, choice
        <4>2. UsesDevice(method[c])
          BY <2>0, <3>1, <4>1
        <4>. QED
          BY <2>2, <4>1, <4>2 DEF Inv, ChoosesLeastLoaded, Choosing
      <3>4. ASSUME NEW m \in Method, NEW k \in Circuit, Arrive(c, m, k)
            PROVE  FALSE
        <4>1. ~UsesDevice(m) /\ method'[c] = m
          BY <3>1, <3>4 DEF Inv, TypeOK, Arrive, Answer, CheckInput, Keep
        <4>. QED
          BY <2>0, <3>1, <4>1
      <3>5. ASSUME NEW e \in Device, Load(c, e)
            PROVE  FALSE
        BY <3>1, <3>5 DEF Load
      <3>6. ASSUME Count(c) \/ Stage(c) \/ Uncount(c) \/ Exit(c)
            PROVE  FALSE
        BY <3>1, <3>6 DEF Inv, TypeOK, Count, Stage, Uncount, Exit
      <3>7. ASSUME Fail(c) \/ Succeed(c)
            PROVE  FALSE
        BY <3>1, <3>7 DEF Inv, TypeOK, Fail, Succeed, Leaving
      <3>. QED
        BY <1>3, <3>2, <3>3, <3>4, <3>5, <3>6, <3>7 DEF Step
    <2>. QED
      BY <2>1, <2>2
  <1>4. CASE UNCHANGED vars
    BY <1>4 DEF Inv, ChoosesLeastLoaded, Choosing, UsesDevice, vars, process, asked, choice
  <1>. QED
    BY <1>1, <1>2, <1>3, <1>4 DEF Next

-----------------------------------------------------------------------------
(* The theorems. *)

LEMMA StepInv == Inv /\ [Next]_vars => Inv'
  BY TypeStep, DownStep, FreshStep, ChosenStep, ScanningStep, CountersStep, ChoosesStep DEF Inv

LEMMA InvAlways == Spec => []Inv
  BY InitInv, StepInv, PTL DEF Spec

LEMMA InvImplies == Inv => TypeOK /\ CountersExact /\ ChoosesLeastLoaded
  BY DEF Inv

(* Every reachable state is well typed: neither counter of the service is  *)
(* ever negative, however its calls end.                                   *)
THEOREM TypeCorrect == Spec => []TypeOK
  BY InvAlways, InvImplies, PTL

(* runningProveTasks and every TaskCount count exactly the calls in        *)
(* flight, through every early return and every restart of the service.    *)
THEOREM CountersAreExact == Spec => []CountersExact
  BY InvAlways, InvImplies, PTL

(* The device a task is counted on has at most as many tasks as any other, *)
(* up to the changes other calls made since its getDevice began.           *)
THEOREM LeastLoadedUpToDrift == Spec => []ChoosesLeastLoaded
  BY InvAlways, InvImplies, PTL

=============================================================================
