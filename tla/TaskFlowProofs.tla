--------------------------- MODULE TaskFlowProofs ---------------------------
(***************************************************************************)
(* Proofs about TaskFlow, for any nodes, requests, calls and restarts.     *)
(***************************************************************************)
EXTENDS TaskFlow, FiniteSetTheorems, TLAPS

-----------------------------------------------------------------------------
(* Types, one part per group of variables. *)

ReqType == req \in [Request -> [pc : {"idle", "choose", "answer", "answered", "failed"},
                                attempt : 1..(Attempts + 1),
                                chosen : SUBSET Node, models : SUBSET Node]]

PushType ==
    /\ push \in [Dispatch -> {"none", "first", "retry", "done"}]
    /\ wire \in SUBSET Message

TableType ==
    /\ table \in [Node -> [Request -> Status]]
    /\ disk \in [Node -> [Request -> Status]]
    /\ crashes \in 0..MaxCrash

CallPc == {"sent", "refused", "proving", "report", "posted", "answered", "raised", "gone"}

CallType ==
    /\ call \in [Call -> [pc : {"idle"} \cup CallPc, task : Task \cup {<<>>}]]
    /\ \A p \in Call : call[p].pc = "idle" <=> call[p].task = <<>>

MailType == mail \in SUBSET Call /\ told \in SUBSET Call

Types == ReqType /\ PushType /\ TableType /\ CallType /\ MailType

LEMMA EmptyIsNoTask == <<>> \notin Task
  BY DEF Task

LEMMA TypesGiveTypeOK == Types /\ (\A p \in Call : call[p].pc = "idle" => call[p] = Idle) => TypeOK
  BY DEF Types, ReqType, PushType, TableType, CallType, MailType, CallPc, TypeOK, Idle

LEMMA ReqStep ==
    ASSUME Types, [Next]_vars
    PROVE  ReqType'
  <1>0. Attempts \in Nat
    BY FlowAssumption
  <1>1. ASSUME NEW r \in Request, NEW pc \in {"choose", "failed", "answered"},
               req' = [req EXCEPT ![r].pc = pc]
        PROVE  ReqType'
    BY <1>1 DEF Types, ReqType
  <1>2. ASSUME NEW r \in Request, SelectNone(r)
        PROVE  ReqType'
    <2>1. req[r].attempt + 1 \in 1..(Attempts + 1)
      BY <1>0, <1>2 DEF SelectNone, Choosing, Types, ReqType
    <2>. QED
      BY <1>2, <2>1 DEF SelectNone, Types, ReqType
  <1>3. ASSUME NEW r \in Request, Select(r)
        PROVE  ReqType'
    <2>1. PICK listed \in SUBSET Node : \E s \in Selections(listed) : \E bad \in SUBSET s :
            req' = [req EXCEPT ![r] =
                 [pc |-> IF bad = {} THEN "answer" ELSE "choose",
                  attempt |-> IF bad = {} THEN @.attempt ELSE @.attempt + 1,
                  chosen |-> s, models |-> s \ bad]]
      BY <1>3 DEF Select
    <2>2. PICK s \in Selections(listed) : \E bad \in SUBSET s :
            req' = [req EXCEPT ![r] =
                 [pc |-> IF bad = {} THEN "answer" ELSE "choose",
                  attempt |-> IF bad = {} THEN @.attempt ELSE @.attempt + 1,
                  chosen |-> s, models |-> s \ bad]]
      BY <2>1
    <2>7. PICK bad \in SUBSET s :
            req' = [req EXCEPT ![r] =
                 [pc |-> IF bad = {} THEN "answer" ELSE "choose",
                  attempt |-> IF bad = {} THEN req[r].attempt ELSE req[r].attempt + 1,
                  chosen |-> s, models |-> s \ bad]]
      BY <2>2
    <2>3. s \in SUBSET Node /\ s \ bad \in SUBSET Node
      BY <2>2 DEF Selections
    <2>4. req[r].attempt \in 1..(Attempts + 1) /\ req[r].attempt + 1 \in 1..(Attempts + 1)
      BY <1>0, <1>3 DEF Select, Choosing, Types, ReqType
    <2> DEFINE new == [pc |-> IF bad = {} THEN "answer" ELSE "choose",
                  attempt |-> IF bad = {} THEN req[r].attempt ELSE req[r].attempt + 1,
                  chosen |-> s, models |-> s \ bad]
    <2>5. new \in [pc : {"idle", "choose", "answer", "answered", "failed"},
                   attempt : 1..(Attempts + 1),
                   chosen : SUBSET Node, models : SUBSET Node]
      BY <2>3, <2>4
    <2>6. req' = [req EXCEPT ![r] = new]
      BY <2>7
    <2> HIDE DEF new
    <2>. QED
      BY <2>5, <2>6 DEF Types, ReqType
  <1>4. ASSUME UNCHANGED req
        PROVE  ReqType'
    BY <1>4 DEF Types, ReqType
  <1>5. ASSUME NEW r \in Request, Arrive(r) \/ Answer(r)
        PROVE  ReqType'
    BY <1>1, <1>5 DEF Arrive, Answer
  <1>. QED
    BY <1>2, <1>3, <1>4, <1>5 DEF Next, HubStep, PushStep, PushTimeout, PushEnd, Lose,
       PushTask, Save, Restart, Expire, ExpireUnsaved, Ask, Claim, Prove, Report, Reply,
       Forward, Abandon, vars, hubVars

LEMMA PushTypeStep ==
    ASSUME Types, [Next]_vars
    PROVE  PushType'
  <1>0. push \in [Dispatch -> {"none", "first", "retry", "done"}] /\ wire \in SUBSET Message
    BY DEF Types, PushType
  <1>1. ASSUME NEW r \in Request, Select(r)
        PROVE  PushType'
    <2>0. req[r].attempt \in 1..Attempts
      BY <1>1, FlowAssumption DEF Select, Choosing, Types, ReqType
    <2>1. \E listed \in SUBSET Node : \E s \in Selections(listed) : \E bad \in SUBSET s :
            /\ push' = [d \in Dispatch |-> IF d \in {r} \X {req[r].attempt} \X (s \ bad)
                                           THEN "first" ELSE push[d]]
            /\ wire' = wire \cup (({r} \X {req[r].attempt} \X (s \ bad)) \X {1})
      BY <1>1 DEF Select
    <2>4. PICK s \in SUBSET Node : \E bad \in SUBSET s :
            /\ push' = [d \in Dispatch |-> IF d \in {r} \X {req[r].attempt} \X (s \ bad)
                                           THEN "first" ELSE push[d]]
            /\ wire' = wire \cup (({r} \X {req[r].attempt} \X (s \ bad)) \X {1})
      BY <2>1 DEF Selections
    <2>5. PICK bad \in SUBSET s :
            /\ push' = [d \in Dispatch |-> IF d \in {r} \X {req[r].attempt} \X (s \ bad)
                                           THEN "first" ELSE push[d]]
            /\ wire' = wire \cup (({r} \X {req[r].attempt} \X (s \ bad)) \X {1})
      BY <2>4
    <2>3. {r} \X {req[r].attempt} \X (s \ bad) \subseteq Dispatch
      BY <2>0, <2>4 DEF Dispatch
    <2>. QED
      BY <1>0, <2>3, <2>5 DEF PushType, Message
  <1>2. ASSUME NEW d \in Dispatch, PushTimeout(d) \/ PushEnd(d)
        PROVE  PushType'
    BY <1>0, <1>2 DEF PushTimeout, PushEnd, PushType, Message
  <1>3. ASSUME NEW m \in wire, Lose(m) \/ PushTask(m)
        PROVE  PushType'
    BY <1>0, <1>3 DEF Lose, PushTask, PushType, hubVars
  <1>4. ASSUME UNCHANGED <<push, wire>>
        PROVE  PushType'
    BY <1>0, <1>4 DEF PushType
  <1>. QED
    BY <1>1, <1>2, <1>3, <1>4 DEF Next, HubStep, PushStep, Arrive, SelectNone, Answer,
       Save, Restart, Expire, ExpireUnsaved, Ask, Claim, Prove, Report, Reply,
       Forward, Abandon, vars, hubVars

LEMMA SetEntry ==
    ASSUME NEW t \in [Node -> [Request -> Status]],
           NEW n \in Node, NEW r \in Request, NEW s \in Status
    PROVE  /\ [t EXCEPT ![n][r] = s] \in [Node -> [Request -> Status]]
           /\ \A m \in Node, q \in Request :
                [t EXCEPT ![n][r] = s][m][q] = IF m = n /\ q = r THEN s ELSE t[m][q]
  OBVIOUS

LEMMA TableTypeStep ==
    ASSUME Types, [Next]_vars
    PROVE  TableType'
  <1>0. /\ table \in [Node -> [Request -> Status]]
        /\ disk \in [Node -> [Request -> Status]]
        /\ crashes \in 0..MaxCrash /\ MaxCrash \in Nat
    BY FlowAssumption DEF Types, TableType
  <1>1. ASSUME NEW m \in wire, PushTask(m)
        PROVE  TableType'
    <2>1. RequestOf(m) \in Request /\ NodeOf(m) \in Node
      BY DEF Types, PushType, Message, Dispatch, RequestOf, NodeOf
    <2>2. \/ table' = table
          \/ table' = [table EXCEPT ![NodeOf(m)][RequestOf(m)] = "pending"]
      BY <1>1 DEF PushTask
    <2>4. "pending" \in Status
      BY DEF Status
    <2>5. [table EXCEPT ![NodeOf(m)][RequestOf(m)] = "pending"] \in [Node -> [Request -> Status]]
      BY <1>0, <2>1, <2>4, SetEntry
    <2>3. table' \in [Node -> [Request -> Status]]
      BY <1>0, <2>2, <2>5
    <2>. QED
      BY <1>0, <1>1, <2>3 DEF PushTask, TableType
  <1>2. ASSUME NEW n \in Node, NEW r \in Request, Expire(n, r)
        PROVE  TableType'
    <2>1. \/ table' = table
          \/ table' = [table EXCEPT ![n][r] = "absent"]
      BY <1>2 DEF Expire
    <2>2. disk' = [disk EXCEPT ![n][r] = "absent"] /\ UNCHANGED crashes
      BY <1>2 DEF Expire
    <2>4. "absent" \in Status
      BY DEF Status
    <2>5. /\ [table EXCEPT ![n][r] = "absent"] \in [Node -> [Request -> Status]]
          /\ [disk EXCEPT ![n][r] = "absent"] \in [Node -> [Request -> Status]]
      BY <1>0, <2>4, SetEntry
    <2>3. /\ table' \in [Node -> [Request -> Status]]
          /\ disk' \in [Node -> [Request -> Status]]
      BY <1>0, <2>1, <2>2, <2>5
    <2>. QED
      BY <1>0, <2>2, <2>3 DEF TableType
  <1>3. ASSUME NEW n \in Node, NEW r \in Request, ExpireUnsaved(n, r)
        PROVE  TableType'
    BY <1>0, <1>3, SetEntry DEF ExpireUnsaved, TableType, Status
  <1>4. ASSUME NEW n \in Node, Save(n) \/ Restart(n)
        PROVE  TableType'
    <2>1. CASE Save(n)
      BY <1>0, <2>1 DEF Save, TableType
    <2>2. CASE Restart(n)
      <3>0. disk' \in [Node -> [Request -> Status]]
        BY <1>0, <2>2 DEF Restart, NoTasks, Status
      <3>1. table' \in [Node -> [Request -> Status]]
        BY <1>0, <2>2, <3>0 DEF Restart
      <3>2. crashes' \in 0..MaxCrash
        BY <1>0, <2>2 DEF Restart
      <3>. QED
        BY <1>0, <3>0, <3>1, <3>2 DEF TableType
    <2>. QED
      BY <1>4, <2>1, <2>2
  <1>5. ASSUME NEW p \in Call, Claim(p)
        PROVE  TableType'
    <2>1. CASE UNCHANGED table
      BY <1>0, <1>5, <2>1 DEF Claim, TableType
    <2>2. CASE table' = [table EXCEPT ![call[p].task[2]][call[p].task[1]] = "running"]
      <3>1. call[p].task \in Task
        BY <1>5 DEF Claim, At, Types, CallType
      <3>2. call[p].task[1] \in Request /\ call[p].task[2] \in Node
        BY <3>1 DEF Task
      <3>. QED
        BY <1>0, <1>5, <2>2, <3>2 DEF Claim, TableType, Status
    <2>. QED
      BY <1>5, <2>1, <2>2 DEF Claim
  <1>6. ASSUME UNCHANGED nodeVars
        PROVE  TableType'
    BY <1>0, <1>6 DEF TableType, nodeVars
  <1>. QED
    BY <1>1, <1>2, <1>3, <1>4, <1>5, <1>6 DEF Next, HubStep, PushStep, PushTimeout, PushEnd,
       Lose, Arrive, SelectNone, Select, Answer, Ask, Prove, Report, Reply,
       Forward, Abandon, vars

-----------------------------------------------------------------------------
(* The calls. *)

(* Every step either leaves a call alone, moves it on, or sends it. *)
CallMoves(p) ==
    \/ call'[p] = call[p]
    \/ /\ call[p].pc # "idle"
       /\ call'[p] = [pc |-> call'[p].pc, task |-> call[p].task]
       /\ call'[p].pc \in CallPc
    \/ /\ call[p].pc = "idle" /\ call'[p].pc = "sent"
       /\ call'[p] \in [pc : CallPc, task : Task]

LEMMA CallStep ==
    ASSUME Types, [Next]_vars
    PROVE  /\ DOMAIN call' = Call /\ call' = [p \in Call |-> call'[p]]
           /\ \A p \in Call : CallMoves(p)
  <1>0. /\ call \in [Call -> [pc : {"idle"} \cup CallPc, task : Task \cup {<<>>}]]
        /\ \A p \in Call : call[p].pc = "idle" <=> call[p].task = <<>>
    BY DEF Types, CallType
  <1> DEFINE Goal == /\ DOMAIN call' = Call /\ call' = [p \in Call |-> call'[p]]
                     /\ \A p \in Call : CallMoves(p)
  <1>1. ASSUME UNCHANGED call
        PROVE  Goal
    BY <1>0, <1>1 DEF CallMoves
  <1>2. ASSUME NEW p \in Call, NEW pc \in CallPc, Goto(p, pc), call[p].pc # "idle"
        PROVE  Goal
    BY <1>0, <1>2 DEF Goto, CallMoves
  <1>3. ASSUME NEW p \in Call, NEW r \in Request, NEW n \in Node, Ask(p, r, n)
        PROVE  Goal
    BY <1>0, <1>3 DEF Ask, At, CallMoves, Task, CallPc
  <1>4. ASSUME NEW n \in Node, Restart(n)
        PROVE  Goal
    BY <1>0, <1>4 DEF Restart, Live, At, CallMoves, CallPc
  <1>5. ASSUME NEW p \in Call,
               Claim(p) \/ Prove(p) \/ Report(p) \/ Reply(p) \/ Forward(p) \/ Abandon(p)
        PROVE  Goal
    <2> HIDE DEF Goal
    <2>1. CASE Claim(p)
      BY <1>2, <2>1 DEF Claim, At, CallPc
    <2>2. CASE Prove(p)
      BY <1>2, <2>2 DEF Prove, At, CallPc
    <2>3. CASE Report(p)
      BY <1>2, <2>3 DEF Report, At, CallPc
    <2>4. CASE Reply(p)
      BY <1>2, <2>4 DEF Reply, At, CallPc
    <2>5. CASE Forward(p)
      BY <1>1, <2>5 DEF Forward
    <2>6. CASE Abandon(p)
      BY <1>2, <2>6 DEF Abandon, At, Live, CallPc
    <2>. QED
      BY <1>5, <2>1, <2>2, <2>3, <2>4, <2>5, <2>6
  <1>. HIDE DEF Goal
  <1>6. Goal
    BY <1>1, <1>3, <1>4, <1>5 DEF Next, HubStep, PushStep, PushTimeout, PushEnd,
       Lose, PushTask, Arrive, SelectNone, Select, Answer, Save, Expire, ExpireUnsaved,
       vars, callVars
  <1>. QED
    BY <1>6 DEF Goal

LEMMA CallTypeStep ==
    ASSUME Types, [Next]_vars
    PROVE  CallType'
  <1>1. call' = [p \in Call |-> call'[p]] /\ \A p \in Call : CallMoves(p)
    BY CallStep
  <1>2. ASSUME NEW p \in Call
        PROVE  /\ call'[p] \in [pc : {"idle"} \cup CallPc, task : Task \cup {<<>>}]
               /\ call'[p].pc = "idle" <=> call'[p].task = <<>>
    <2>0. /\ call[p] \in [pc : {"idle"} \cup CallPc, task : Task \cup {<<>>}]
          /\ call[p].pc = "idle" <=> call[p].task = <<>>
      BY DEF Types, CallType
    <2>1. CASE call'[p] = call[p]
      BY <2>0, <2>1
    <2>2. CASE /\ call[p].pc # "idle"
               /\ call'[p] = [pc |-> call'[p].pc, task |-> call[p].task]
               /\ call'[p].pc \in CallPc
      <3>1. call'[p].task = call[p].task
        BY <2>2
      <3>2. "idle" \notin CallPc
        BY DEF CallPc
      <3>. QED
        BY <2>0, <2>2, <3>1, <3>2
    <2>3. CASE call'[p] \in [pc : CallPc, task : Task]
      <3>1. "idle" \notin CallPc
        BY DEF CallPc
      <3>. QED
        BY <2>3, <3>1, EmptyIsNoTask
    <2>. QED
      BY <1>1, <2>1, <2>2, <2>3 DEF CallMoves
  <1>. QED
    BY <1>1, <1>2 DEF CallType

LEMMA MailTypeStep ==
    ASSUME Types, [Next]_vars
    PROVE  MailType'
  <1>1. ASSUME NEW p \in Call, Report(p) \/ Forward(p)
        PROVE  MailType'
    BY <1>1 DEF Report, Forward, Types, MailType
  <1>2. ASSUME UNCHANGED <<mail, told>>
        PROVE  MailType'
    BY <1>2 DEF Types, MailType
  <1>. QED
    BY <1>1, <1>2 DEF Next, HubStep, PushStep, PushTimeout, PushEnd, Lose, PushTask, Arrive,
       SelectNone, Select, Answer, Ask, Prove, Reply, Claim, Abandon, Save, Restart, Expire,
       ExpireUnsaved, vars, callVars

LEMMA InitTypes == Init => Types
  <1> SUFFICES ASSUME Init PROVE Types
    OBVIOUS
  <1>0. Attempts \in Nat \ {0} /\ MaxCrash \in Nat
    BY FlowAssumption
  <1>1. ReqType
    BY <1>0 DEF Init, ReqType
  <1>2. PushType
    BY DEF Init, PushType
  <1>3. TableType
    BY <1>0 DEF Init, TableType, NoTasks, Status
  <1>4. CallType
    BY DEF Init, CallType, Idle, CallPc
  <1>5. MailType
    BY DEF Init, MailType
  <1>. QED
    BY <1>1, <1>2, <1>3, <1>4, <1>5 DEF Types

LEMMA StepTypes == Types /\ [Next]_vars => Types'
  BY ReqStep, PushTypeStep, TableTypeStep, CallTypeStep, MailTypeStep DEF Types

(* Every variable has its type: no request makes more than Attempts        *)
(* selections, and every message belongs to a background task.             *)
THEOREM TypeCorrect == Spec => []TypeOK
  <1>1. Types => TypeOK
    <2> SUFFICES ASSUME Types PROVE TypeOK
      OBVIOUS
    <2>1. ASSUME NEW p \in Call, call[p].pc = "idle"
          PROVE  call[p] = Idle
      BY <2>1 DEF Types, CallType, Idle
    <2>. QED
      BY <2>1, TypesGiveTypeOK
  <1>. QED
    BY <1>1, InitTypes, StepTypes, PTL DEF Spec

-----------------------------------------------------------------------------
(* Pushes that are over stay over. *)

LEMMA OverStays ==
    ASSUME Types, [Next]_vars, NEW r \in Request, NEW n \in Node, PushesOver(r, n)
    PROVE  PushesOver(r, n)'
  <1>0. /\ push \in [Dispatch -> {"none", "first", "retry", "done"}]
        /\ wire \in SUBSET Message
        /\ req \in [Request -> [pc : {"idle", "choose", "answer", "answered", "failed"},
                                attempt : 1..(Attempts + 1),
                                chosen : SUBSET Node, models : SUBSET Node]]
    BY DEF Types, PushType, ReqType
  <1>1. ASSUME UNCHANGED <<req, push>>, wire' \subseteq wire
        PROVE  PushesOver(r, n)'
    BY <1>1 DEF PushesOver, Pushing, RequestOf, NodeOf
  <1>2. ASSUME NEW q \in Request, Arrive(q) \/ SelectNone(q) \/ Answer(q)
        PROVE  PushesOver(r, n)'
    <2>1. req[q].pc \in {"idle", "choose", "answer"}
      BY <1>2 DEF Arrive, SelectNone, Answer, Choosing
    <2>2. q # r
      BY <2>1 DEF PushesOver
    <2>3. req'[r] = req[r] /\ UNCHANGED <<push, wire>>
      BY <1>0, <1>2, <2>2 DEF Arrive, SelectNone, Answer
    <2>. QED
      BY <2>3 DEF PushesOver, Pushing, RequestOf, NodeOf
  <1>3. ASSUME NEW q \in Request, Select(q)
        PROVE  PushesOver(r, n)'
    <2>1. q # r
      BY <1>3 DEF Select, Choosing, PushesOver
    <2>2. PICK D : /\ D \subseteq {q} \X {req[q].attempt} \X Node
                   /\ push' = [d \in Dispatch |-> IF d \in D THEN "first" ELSE push[d]]
                   /\ wire' = wire \cup (D \X {1})
                   /\ req'[r] = req[r]
      <3>1. PICK s \in SUBSET Node : \E bad \in SUBSET s :
              LET started == {q} \X {req[q].attempt} \X (s \ bad)
              IN  /\ push' = [d \in Dispatch |-> IF d \in started THEN "first" ELSE push[d]]
                  /\ wire' = wire \cup (started \X {1})
                  /\ req'[r] = req[r]
        <4>1. \E listed \in SUBSET Node : \E s \in Selections(listed) : \E bad \in SUBSET s :
              LET started == {q} \X {req[q].attempt} \X (s \ bad)
              IN  /\ push' = [d \in Dispatch |-> IF d \in started THEN "first" ELSE push[d]]
                  /\ wire' = wire \cup (started \X {1})
                  /\ req'[r] = req[r]
          BY <1>0, <1>3, <2>1 DEF Select
        <4>. QED
          BY <4>1 DEF Selections
      <3>2. PICK bad \in SUBSET s :
              /\ push' = [d \in Dispatch |-> IF d \in {q} \X {req[q].attempt} \X (s \ bad)
                                             THEN "first" ELSE push[d]]
              /\ wire' = wire \cup (({q} \X {req[q].attempt} \X (s \ bad)) \X {1})
              /\ req'[r] = req[r]
        BY <3>1
      <3>. QED
        BY <3>2
    <2>3. \A d \in D : d[1] = q
      BY <2>2
    <2>4. \A d \in Dispatch : d[1] = r => push'[d] = push[d]
      BY <2>1, <2>2, <2>3
    <2>5. \A m \in wire' : RequestOf(m) = r => m \in wire
      BY <2>1, <2>2, <2>3 DEF RequestOf
    <2>. QED
      BY <2>2, <2>4, <2>5 DEF PushesOver, Pushing, RequestOf, NodeOf
  <1>4. ASSUME NEW d \in Dispatch, PushTimeout(d) \/ PushEnd(d)
        PROVE  PushesOver(r, n)'
    <2>1. ~(d[1] = r /\ d[3] = n)
      BY <1>4 DEF PushTimeout, PushEnd, PushesOver
    <2>2. /\ \A e \in Dispatch : e # d => push'[e] = push[e]
          /\ wire' \subseteq wire \cup {<<d, 2>>}
          /\ UNCHANGED req
      BY <1>0, <1>4 DEF PushTimeout, PushEnd
    <2>3. RequestOf(<<d, 2>>) = d[1] /\ NodeOf(<<d, 2>>) = d[3]
      BY DEF RequestOf, NodeOf
    <2>4. \A m \in wire' : RequestOf(m) = r /\ NodeOf(m) = n => m \in wire
      BY <2>1, <2>2, <2>3
    <2>5. \A e \in Dispatch : e[1] = r /\ e[3] = n => push'[e] = push[e]
      BY <2>1, <2>2
    <2>. QED
      BY <2>2, <2>4, <2>5 DEF PushesOver, Pushing, RequestOf, NodeOf
  <1>5. ASSUME NEW m \in wire, Lose(m) \/ PushTask(m)
        PROVE  PushesOver(r, n)'
    BY <1>1, <1>5 DEF Lose, PushTask, hubVars
  <1>6. ASSUME UNCHANGED <<hubVars, wire>>
        PROVE  PushesOver(r, n)'
    BY <1>1, <1>6 DEF hubVars
  <1>. QED
    BY <1>2, <1>3, <1>4, <1>5, <1>6 DEF Next, HubStep, PushStep, Ask, Prove, Report, Reply,
       Claim, Forward, Abandon, Save, Restart, Expire, ExpireUnsaved, vars

-----------------------------------------------------------------------------
(* What a step does to a task, and to a call that is live after it. *)

State(t) == table[t[2]][t[1]]

TaskMoves(t) ==
    \/ State(t)' = State(t)
    \/ State(t) # "running" /\ ~PushesOver(t[1], t[2]) /\ State(t)' = "pending"
    \/ PushesOver(t[1], t[2]) /\ State(t)' = "absent"
    \/ State(t) = "pending" /\ State(t)' = "running"
    \/ crashes' = crashes + 1 /\ \A p \in Call : call'[p].task = t => ~(Live(p)')

LEMMA TaskStep ==
    ASSUME Types, [Next]_vars, NEW t \in Task
    PROVE  TaskMoves(t)
  <1>0. /\ t[1] \in Request /\ t[2] \in Node
        /\ table \in [Node -> [Request -> Status]]
        /\ call \in [Call -> [pc : {"idle"} \cup CallPc, task : Task \cup {<<>>}]]
    BY DEF Task, Types, TableType, CallType
  <1>1. ASSUME UNCHANGED table
        PROVE  TaskMoves(t)
    BY <1>1 DEF TaskMoves, State
  <1>2. ASSUME NEW m \in wire, PushTask(m)
        PROVE  TaskMoves(t)
    <2>1. /\ RequestOf(m) \in Request /\ NodeOf(m) \in Node
          /\ "pending" \in Status
      BY DEF Types, PushType, Message, Dispatch, RequestOf, NodeOf, Status
    <2>2. CASE UNCHANGED table
      BY <1>1, <2>2
    <2>3. CASE /\ ~Refuses(NodeOf(m), RequestOf(m))
               /\ table' = [table EXCEPT ![NodeOf(m)][RequestOf(m)] = "pending"]
      <3>1. table'[t[2]][t[1]] = IF t[2] = NodeOf(m) /\ t[1] = RequestOf(m)
                                 THEN "pending" ELSE table[t[2]][t[1]]
        BY <1>0, <2>1, <2>3, SetEntry
      <3>2. t[2] = NodeOf(m) /\ t[1] = RequestOf(m) => ~PushesOver(t[1], t[2])
        BY DEF PushesOver
      <3>. QED
        BY <2>3, <3>1, <3>2 DEF TaskMoves, State, Refuses
    <2>. QED
      BY <1>2, <2>2, <2>3 DEF PushTask
  <1>3. ASSUME NEW n \in Node, NEW r \in Request, Expire(n, r) \/ ExpireUnsaved(n, r)
        PROVE  TaskMoves(t)
    <2>1. CASE UNCHANGED table
      BY <1>1, <2>1
    <2>2. CASE table' = [table EXCEPT ![n][r] = "absent"]
      <3>1. "absent" \in Status
        BY DEF Status
      <3>2. table'[t[2]][t[1]] = IF t[2] = n /\ t[1] = r THEN "absent" ELSE table[t[2]][t[1]]
        BY <1>0, <2>2, <3>1, SetEntry
      <3>3. PushesOver(r, n)
        BY <1>3 DEF Expire, ExpireUnsaved
      <3>. QED
        BY <3>2, <3>3 DEF TaskMoves, State
    <2>. QED
      BY <1>3, <2>1, <2>2 DEF Expire, ExpireUnsaved
  <1>4. ASSUME NEW p \in Call, Claim(p)
        PROVE  TaskMoves(t)
    <2>1. CASE UNCHANGED table
      BY <1>1, <2>1
    <2>2. CASE /\ Claimable(call[p].task[1], call[p].task[2])
               /\ table' = [table EXCEPT ![call[p].task[2]][call[p].task[1]] = "running"]
      <3>1. call[p].task \in Task
        BY <1>4 DEF Claim, At, Types, CallType
      <3>2. call[p].task[1] \in Request /\ call[p].task[2] \in Node /\ "running" \in Status
        BY <3>1 DEF Task, Status
      <3>3. table'[t[2]][t[1]] = IF t[2] = call[p].task[2] /\ t[1] = call[p].task[1]
                                 THEN "running" ELSE table[t[2]][t[1]]
        BY <1>0, <2>2, <3>2, SetEntry
      <3>. QED
        BY <2>2, <3>3 DEF TaskMoves, State, Claimable
    <2>. QED
      BY <1>4, <2>1, <2>2 DEF Claim
  <1>5. ASSUME NEW n \in Node, Restart(n)
        PROVE  TaskMoves(t)
    <2>1. CASE t[2] # n
      BY <1>0, <1>5, <2>1 DEF Restart, TaskMoves, State
    <2>2. CASE t[2] = n
      <3>1. ASSUME NEW p \in Call, call'[p].task = t
            PROVE  ~(Live(p)')
        <4>1. t # <<>>
          BY EmptyIsNoTask
        <4>2. call'[p] = IF call[p].task # <<>> /\ call[p].task[2] = n /\ (Live(p) \/ At(p, "sent"))
                         THEN [call[p] EXCEPT !.pc = "gone"] ELSE call[p]
          BY <1>5 DEF Restart
        <4>3. call[p].task = t
          BY <1>0, <3>1, <4>2
        <4>4. CASE Live(p) \/ At(p, "sent")
          BY <1>0, <2>2, <4>1, <4>2, <4>3, <4>4 DEF Live
        <4>5. CASE ~(Live(p) \/ At(p, "sent"))
          BY <4>2, <4>5 DEF Live
        <4>. QED
          BY <4>4, <4>5
      <3>. QED
        BY <1>5, <3>1 DEF TaskMoves, Restart
    <2>. QED
      BY <2>1, <2>2
  <1>. QED
    BY <1>1, <1>2, <1>3, <1>4, <1>5 DEF Next, HubStep, PushStep, PushTimeout, PushEnd, Lose,
       Arrive, SelectNone, Select, Answer, Ask, Prove, Report, Reply, Forward, Abandon, Save,
       vars, nodeVars

(* A call is live after a step if it was, or if it has just claimed. *)
Claims(p) ==
    /\ State(call[p].task) = "pending" /\ State(call[p].task)' = "running"
    /\ \A q \in Call : q # p => call'[q] = call[q]

LEMMA LiveStep ==
    ASSUME Types, [Next]_vars, NEW p \in Call, Live(p)'
    PROVE  /\ call'[p].task = call[p].task /\ call[p].task \in Task
           /\ Live(p) \/ Claims(p)
  <1>0. /\ call \in [Call -> [pc : {"idle"} \cup CallPc, task : Task \cup {<<>>}]]
        /\ \A q \in Call : call[q].pc = "idle" <=> call[q].task = <<>>
        /\ table \in [Node -> [Request -> Status]]
    BY DEF Types, CallType, TableType
  <1>1. call'[p].task = call[p].task /\ call[p].task \in Task
    <2>1. CallMoves(p)
      BY CallStep
    <2>. QED
      BY <1>0, <2>1 DEF CallMoves, Live
  <1>2. Live(p) \/ Claims(p)
    <2>1. ASSUME UNCHANGED call
          PROVE  Live(p)
      BY <2>1 DEF Live
    <2>2. ASSUME NEW q \in Call, NEW pc, Goto(q, pc), q # p \/ Live(q)
          PROVE  Live(p)
      <3>1. q # p => call'[p] = call[p]
        BY <1>0, <2>2 DEF Goto
      <3>. QED
        BY <2>2, <3>1 DEF Live
    <2>3. ASSUME NEW q \in Call, NEW r \in Request, NEW n \in Node, Ask(q, r, n)
          PROVE  Live(p)
      BY <1>0, <2>3 DEF Ask, Live
    <2>4. ASSUME NEW n \in Node, Restart(n)
          PROVE  Live(p)
      <3>1. call'[p] = IF call[p].task # <<>> /\ call[p].task[2] = n /\ (Live(p) \/ At(p, "sent"))
                       THEN [call[p] EXCEPT !.pc = "gone"] ELSE call[p]
        BY <2>4 DEF Restart
      <3>. QED
        BY <1>0, <3>1 DEF Live
    <2>5. ASSUME NEW q \in Call, Claim(q)
          PROVE  Live(p) \/ Claims(p)
      <3>1. CASE q # p
        BY <1>0, <2>5, <3>1 DEF Claim, Goto, Live
      <3>2. CASE q = p /\ Goto(p, "refused")
        BY <1>0, <3>2 DEF Goto, Live
      <3>3. CASE /\ q = p /\ Goto(p, "proving")
                 /\ Claimable(call[p].task[1], call[p].task[2])
                 /\ table' = [table EXCEPT ![call[p].task[2]][call[p].task[1]] = "running"]
        <4>1. call[p].task[1] \in Request /\ call[p].task[2] \in Node /\ "running" \in Status
          BY <1>1 DEF Task, Status
        <4>2. table'[call[p].task[2]][call[p].task[1]] = "running"
          BY <1>0, <3>3, <4>1, SetEntry
        <4>3. State(call[p].task)' = "running"
          BY <1>1, <4>2 DEF State
        <4>. QED
          BY <1>0, <3>3, <4>3 DEF Claims, State, Claimable, Goto
      <3>. QED
        BY <2>5, <3>1, <3>2, <3>3 DEF Claim
    <2>6. ASSUME NEW q \in Call, Prove(q) \/ Report(q) \/ Reply(q) \/ Abandon(q)
          PROVE  Live(p)
      <3>1. CASE At(q, "sent") /\ Goto(q, "gone")
        BY <1>0, <3>1 DEF Goto, Live
      <3>. QED
        BY <2>2, <2>6, <3>1 DEF Prove, Report, Reply, Abandon, At, Live
    <2>. QED
      BY <2>1, <2>3, <2>4, <2>5, <2>6 DEF Next, HubStep, PushStep, PushTimeout, PushEnd, Lose,
         PushTask, Arrive, SelectNone, Select, Answer, Forward, Save, Expire, ExpireUnsaved,
         vars, callVars
  <1>. QED
    BY <1>1, <1>2

-----------------------------------------------------------------------------
(* While a call holds a task, the task is running, or its entry is gone    *)
(* and no push can bring it back.                                          *)

Shut(t) ==
    \/ State(t) = "running"
    \/ State(t) = "absent" /\ PushesOver(t[1], t[2])

Held == \A p \in Call : Live(p) => Shut(call[p].task)

LEMMA HeldStep ==
    ASSUME Types, Held, OneProver, [Next]_vars
    PROVE  Held' /\ OneProver'
  <1>1. ASSUME NEW t \in Task, Shut(t)
        PROVE  Shut(t)' \/ \A p \in Call : call'[p].task = t => ~(Live(p)')
    <2>1. TaskMoves(t)
      BY TaskStep
    <2>2. PushesOver(t[1], t[2]) => PushesOver(t[1], t[2])'
      BY OverStays DEF Task
    <2>. QED
      BY <1>1, <2>1, <2>2 DEF TaskMoves, Shut, State
  <1>2. ASSUME NEW p \in Call, Live(p)'
        PROVE  Shut(call[p].task)' /\ call'[p].task = call[p].task
    <2>1. /\ call'[p].task = call[p].task /\ call[p].task \in Task
          /\ Live(p) \/ Claims(p)
      BY <1>2, LiveStep
    <2>2. CASE Live(p)
      BY <1>1, <1>2, <2>1, <2>2 DEF Held
    <2>3. CASE Claims(p)
      BY <2>1, <2>3 DEF Claims, Shut, State
    <2>. QED
      BY <2>1, <2>2, <2>3
  <1>3. Held'
    <2>1. ASSUME NEW p \in Call, Live(p)'
          PROVE  Shut(call[p].task)'
      BY <1>2, <2>1
    <2>. QED
      BY <2>1 DEF Held
  <1>4. OneProver'
    <2>1. ASSUME NEW p \in Call, NEW q \in Call, Live(p)', Live(q)', call'[p].task = call'[q].task
          PROVE  p = q
      <3>1. call[p].task = call[q].task
        BY <2>1, LiveStep
      <3>2. /\ Live(p) \/ Claims(p)
            /\ Live(q) \/ Claims(q)
        BY <2>1, LiveStep
      <3>3. CASE Live(p) /\ Live(q)
        BY <3>1, <3>3 DEF OneProver
      <3>4. CASE Live(p) /\ Claims(q)
        <4>1. Shut(call[q].task)
          BY <3>1, <3>4 DEF Held
        <4>. QED
          BY <3>4, <4>1 DEF Shut, Claims
      <3>5. CASE Claims(p) /\ Live(q)
        <4>1. Shut(call[p].task)
          BY <3>1, <3>5 DEF Held
        <4>. QED
          BY <3>5, <4>1 DEF Shut, Claims
      <3>6. CASE Claims(p) /\ Claims(q) /\ ~Live(p) /\ p # q
        BY <2>1, <3>6 DEF Claims, Live
      <3>. QED
        BY <3>2, <3>3, <3>4, <3>5, <3>6
    <2>. QED
      BY <2>1 DEF OneProver
  <1>. QED
    BY <1>3, <1>4

LEMMA HeldAlways == Spec => [](Types /\ Held /\ OneProver)
  <1>1. Init => Types /\ Held /\ OneProver
    BY InitTypes DEF Init, Held, OneProver, Live, Idle
  <1>. QED
    BY <1>1, HeldStep, StepTypes, PTL DEF Spec

(* A hash is proved by at most one call at a time at a node, whatever      *)
(* becomes of the pushes and whatever a restart forgets.                   *)
THEOREM OneProverAtATime == Spec => []OneProver
  BY HeldAlways, PTL

-----------------------------------------------------------------------------
(* Answers *)

(* A selection of request r. *)
Selects(r, s, bad) ==
    LET started == {r} \X {req[r].attempt} \X (s \ bad)
    IN  /\ push' = [d \in Dispatch |-> IF d \in started THEN "first" ELSE push[d]]
        /\ req' = [req EXCEPT ![r] =
             [pc |-> IF bad = {} THEN "answer" ELSE "choose",
              attempt |-> IF bad = {} THEN req[r].attempt ELSE req[r].attempt + 1,
              chosen |-> s, models |-> s \ bad]]

LEMMA SelectCase ==
    ASSUME NEW r \in Request, Select(r)
    PROVE  \E s \in SUBSET Node : \E bad \in SUBSET s : Selects(r, s, bad)
  BY DEF Select, Selections, Selects

(* The nodes of an answer have a push, and those of a selection that ends  *)
(* the choice are all there.                                               *)
Pushed(r) == \A n \in req[r].models : \E a \in 1..Attempts : push[<<r, a, n>>] # "none"

Full(r) ==
    /\ req[r].pc = "answer" => req[r].models = req[r].chosen
    /\ req[r].pc = "answered" => req[r].models = req[r].chosen \/ req[r].attempt = Attempts + 1
    /\ Pushed(r)

AllFull == \A r \in Request : Full(r)

(* What was pushed stays pushed, and a request's nodes change only when it *)
(* selects.                                                                *)
LEMMA PushedStays ==
    ASSUME Types, [Next]_vars, NEW d \in Dispatch, push[d] # "none"
    PROVE  push'[d] # "none"
  <1>0. push \in [Dispatch -> {"none", "first", "retry", "done"}]
    BY DEF Types, PushType
  <1>1. ASSUME NEW r \in Request, Select(r)
        PROVE  push'[d] # "none"
    BY <1>1, SelectCase DEF Selects
  <1>2. ASSUME NEW e \in Dispatch, PushTimeout(e) \/ PushEnd(e)
        PROVE  push'[d] # "none"
    BY <1>0, <1>2 DEF PushTimeout, PushEnd
  <1>. QED
    BY <1>1, <1>2 DEF Next, HubStep, PushStep, Arrive, SelectNone, Answer, Lose, PushTask, Ask,
       Claim, Prove, Report, Reply, Forward, Abandon, Save, Restart, Expire, ExpireUnsaved,
       vars, hubVars

LEMMA SelectFull ==
    ASSUME Types, NEW r \in Request, Select(r)
    PROVE  Full(r)' /\ \A q \in Request : q # r => req'[q] = req[q]
  <1>0. /\ req \in [Request -> [pc : {"idle", "choose", "answer", "answered", "failed"},
                                attempt : 1..(Attempts + 1),
                                chosen : SUBSET Node, models : SUBSET Node]]
        /\ req[r].attempt \in 1..Attempts
    BY FlowAssumption DEF Types, ReqType, Select, Choosing
  <1>1. PICK s \in SUBSET Node : \E bad \in SUBSET s : Selects(r, s, bad)
    BY SelectCase
  <1>2. PICK bad \in SUBSET s : Selects(r, s, bad)
    BY <1>1
  <1> DEFINE new == [pc |-> IF bad = {} THEN "answer" ELSE "choose",
                     attempt |-> IF bad = {} THEN req[r].attempt ELSE req[r].attempt + 1,
                     chosen |-> s, models |-> s \ bad]
  <1>3. /\ new.pc = "answer" => new.models = new.chosen
        /\ new.pc # "answered" /\ new.models = s \ bad
    OBVIOUS
  <1>4. req' = [req EXCEPT ![r] = new]
    BY <1>2 DEF Selects
  <1> HIDE DEF new
  <1>5. req'[r] = new /\ \A q \in Request : q # r => req'[q] = req[q]
    BY <1>0, <1>4
  <1>6. ASSUME NEW n \in s \ bad
        PROVE  \E a \in 1..Attempts : push'[<<r, a, n>>] # "none"
    <2>1. <<r, req[r].attempt, n>> \in Dispatch
      BY <1>0 DEF Dispatch
    <2>2. push'[<<r, req[r].attempt, n>>] = "first"
      BY <1>2, <2>1 DEF Selects
    <2>. QED
      BY <1>0, <2>2
  <1>. QED
    BY <1>3, <1>5, <1>6 DEF Full, Pushed

LEMMA FullStep ==
    ASSUME Types, AllFull, [Next]_vars
    PROVE  AllFull'
  <1>0. req \in [Request -> [pc : {"idle", "choose", "answer", "answered", "failed"},
                             attempt : 1..(Attempts + 1),
                             chosen : SUBSET Node, models : SUBSET Node]]
    BY DEF Types, ReqType
  <1>1. ASSUME NEW r \in Request, req'[r].models = req[r].models
        PROVE  Pushed(r)'
    <2>1. ASSUME NEW n \in req[r].models
          PROVE  \E a \in 1..Attempts : push'[<<r, a, n>>] # "none"
      <3>1. PICK a \in 1..Attempts : push[<<r, a, n>>] # "none"
        BY <2>1 DEF AllFull, Full, Pushed
      <3>2. <<r, a, n>> \in Dispatch
        BY <1>0, <2>1 DEF Dispatch
      <3>. QED
        BY <3>1, <3>2, PushedStays
    <2>. QED
      BY <1>1, <2>1 DEF Pushed
  <1>2. ASSUME NEW r \in Request, req'[r] = req[r]
        PROVE  Full(r)'
    BY <1>1, <1>2 DEF AllFull, Full
  <1>3. ASSUME NEW q \in Request, Arrive(q) \/ SelectNone(q) \/ Answer(q), NEW r \in Request
        PROVE  Full(r)'
    <2>1. CASE q # r
      <3>1. req'[r] = req[r]
        BY <1>0, <1>3, <2>1 DEF Arrive, SelectNone, Answer
      <3>. QED
        BY <1>2, <3>1
    <2>2. CASE q = r /\ Arrive(q)
      <3>1. req'[r].models = req[r].models /\ req'[r].pc \in {"choose", "failed"}
        BY <1>0, <2>2 DEF Arrive
      <3>. QED
        BY <1>1, <3>1 DEF Full
    <2>3. CASE q = r /\ SelectNone(q)
      <3>1. req'[r].models = req[r].models /\ req'[r].pc = "choose"
        BY <1>0, <2>3 DEF SelectNone, Choosing
      <3>. QED
        BY <1>1, <3>1 DEF Full
    <2>4. CASE q = r /\ Answer(q)
      <3>1. /\ req'[r].models = req[r].models /\ req'[r].chosen = req[r].chosen
            /\ req'[r].attempt = req[r].attempt /\ req'[r].pc \in {"failed", "answered"}
        BY <1>0, <2>4 DEF Answer
      <3>2. req[r].pc = "answer" \/ req[r].attempt = Attempts + 1
        BY <1>0, <2>4, FlowAssumption DEF Answer, Choosing
      <3>. QED
        BY <1>1, <3>1, <3>2 DEF AllFull, Full
    <2>. QED
      BY <1>3, <2>1, <2>2, <2>3, <2>4
  <1>4. ASSUME NEW q \in Request, Select(q), NEW r \in Request
        PROVE  Full(r)'
    BY <1>2, <1>4, SelectFull
  <1>. QED
    BY <1>2, <1>3, <1>4 DEF Next, HubStep, PushStep, PushTimeout, PushEnd, Lose, PushTask, Ask,
       Claim, Prove, Report, Reply, Forward, Abandon, Save, Restart, Expire, ExpireUnsaved,
       vars, hubVars, AllFull

LEMMA TypesAlways == Spec => []Types
  BY InitTypes, StepTypes, PTL DEF Spec

(* A client that gets fewer nodes than were chosen gets them after the     *)
(* last attempt, and every node it gets was pushed to.                     *)
THEOREM AnswersHaveTheirPushes == Spec => []AnswersAreFull
  <1>1. Init => AllFull
    BY DEF Init, AllFull, Full, Pushed
  <1>2. AllFull => AnswersAreFull
    BY DEF AllFull, Full, Pushed, AnswersAreFull
  <1>. QED
    BY <1>1, <1>2, FullStep, TypesAlways, PTL DEF Spec

-----------------------------------------------------------------------------
(* Reports *)

(* A call that has not posted its report is not heard of, and what was     *)
(* heard is not under way.                                                 *)
Quiet ==
    /\ mail \cap told = {}
    /\ \A p \in Call : call[p].pc \in {"idle", "sent", "proving", "report"} => p \notin mail \cup told

(* A step that posts the report of a call that holds its task. *)
Posts(p) ==
    /\ call[p].pc = "report" /\ Goto(p, "posted")
    /\ mail' = mail \cup {p} /\ told' = told

LEMMA MailStep ==
    ASSUME Types, [Next]_vars
    PROVE  \/ UNCHANGED <<mail, told>>
           \/ \E p \in Call : Posts(p) \/ Forward(p)
  BY DEF Next, HubStep, PushStep, PushTimeout, PushEnd, Lose, PushTask, Arrive, SelectNone,
     Select, Answer, Ask, Prove, Report, Reply, Claim, Abandon, Save, Restart, Expire,
     ExpireUnsaved, vars, callVars, Posts, At

(* No call comes back to a stage before its report. *)
LEMMA StagesPass ==
    ASSUME Types, [Next]_vars, NEW p \in Call,
           call'[p].pc \in {"idle", "sent", "proving", "report"}
    PROVE  call[p].pc \in {"idle", "sent", "proving", "report"}
  <1>0. call \in [Call -> [pc : {"idle"} \cup CallPc, task : Task \cup {<<>>}]]
    BY DEF Types, CallType
  <1>1. ASSUME NEW q \in Call, NEW pc, Goto(q, pc),
               \/ pc \notin {"idle", "sent", "proving", "report"}
               \/ call[q].pc \in {"idle", "sent", "proving", "report"}
        PROVE  call[p].pc \in {"idle", "sent", "proving", "report"}
    BY <1>0, <1>1 DEF Goto
  <1>2. ASSUME NEW q \in Call, NEW r \in Request, NEW n \in Node, Ask(q, r, n)
        PROVE  call[p].pc \in {"idle", "sent", "proving", "report"}
    BY <1>0, <1>2 DEF Ask, At
  <1>3. ASSUME NEW n \in Node, Restart(n)
        PROVE  call[p].pc \in {"idle", "sent", "proving", "report"}
    <2>1. \/ call'[p] = call[p]
          \/ call'[p] = [call[p] EXCEPT !.pc = "gone"]
      BY <1>3 DEF Restart
    <2>. QED
      BY <1>0, <2>1
  <1>4. ASSUME NEW q \in Call, Claim(q) \/ Prove(q) \/ Report(q) \/ Reply(q) \/ Abandon(q)
        PROVE  call[p].pc \in {"idle", "sent", "proving", "report"}
    <2>1. CASE Claim(q)
      BY <1>1, <2>1 DEF Claim, At
    <2>2. CASE Prove(q)
      BY <1>1, <2>2 DEF Prove, At
    <2>3. CASE Report(q) \/ Reply(q) \/ Abandon(q)
      BY <1>1, <2>3 DEF Report, Reply, Abandon, At
    <2>. QED
      BY <1>4, <2>1, <2>2, <2>3
  <1>. QED
    BY <1>2, <1>3, <1>4 DEF Next, HubStep, PushStep, PushTimeout, PushEnd, Lose,
       PushTask, Arrive, SelectNone, Select, Answer, Forward, Save, Expire, ExpireUnsaved,
       vars, callVars

LEMMA QuietStep ==
    ASSUME Types, Quiet, [Next]_vars
    PROVE  Quiet'
  <1>0. call \in [Call -> [pc : {"idle"} \cup CallPc, task : Task \cup {<<>>}]]
    BY DEF Types, CallType
  <1>1. CASE UNCHANGED <<mail, told>>
    BY <1>1, StagesPass DEF Quiet
  <1>2. ASSUME NEW p \in Call, Posts(p)
        PROVE  Quiet'
    <2>1. call'[p].pc = "posted"
      BY <1>0, <1>2 DEF Posts, Goto
    <2>. QED
      BY <1>2, <2>1, StagesPass DEF Quiet, Posts
  <1>3. ASSUME NEW p \in Call, Forward(p)
        PROVE  Quiet'
    BY <1>3 DEF Quiet, Forward
  <1>. QED
    BY <1>1, <1>2, <1>3, MailStep

LEMMA QuietAlways == Spec => []Quiet
  <1>1. Init => Quiet
    BY DEF Init, Quiet
  <1>. QED
    BY <1>1, QuietStep, TypesAlways, PTL DEF Spec

(* The calls of a task that hold it or have reported. *)
Reporting(t) == {p \in Call : call[p].task = t /\ (Live(p) \/ p \in mail \cup told)}

(* One report for each time the claim was lost, and one for the call that  *)
(* holds the task, or held it last.                                        *)
Bounded(t) ==
    /\ IsFiniteSet(Reporting(t))
    /\ Cardinality(Reporting(t)) <= IF Shut(t) THEN crashes + 1 ELSE crashes

AllBounded == \A t \in Task : Bounded(t)

LEMMA ReportingStep ==
    ASSUME Types, Quiet, [Next]_vars, NEW t \in Task, NEW p \in Call, p \in Reporting(t)'
    PROVE  p \in Reporting(t) \/ (Live(p)' /\ Claims(p) /\ call[p].task = t)
  <1>0. /\ call \in [Call -> [pc : {"idle"} \cup CallPc, task : Task \cup {<<>>}]]
        /\ \A q \in Call : call[q].pc = "idle" <=> call[q].task = <<>>
    BY DEF Types, CallType
  <1>1. call'[p].task = t /\ (Live(p)' \/ p \in mail' \cup told')
    BY DEF Reporting
  <1>2. CASE Live(p)'
    BY <1>1, <1>2, LiveStep DEF Reporting
  <1>3. CASE p \in mail' \cup told'
    <2>1. p \in mail \cup told \/ Live(p)
      BY <1>3, MailStep DEF Posts, Forward, Live
    <2>2. call[p].pc # "idle"
      BY <2>1 DEF Quiet, Live
    <2>3. call'[p].task = call[p].task
      <3>1. CallMoves(p)
        BY CallStep
      <3>. QED
        BY <2>2, <3>1 DEF CallMoves
    <2>. QED
      BY <1>1, <2>1, <2>3 DEF Reporting
  <1>. QED
    BY <1>1, <1>2, <1>3

LEMMA CrashesGrow ==
    ASSUME Types, [Next]_vars
    PROVE  crashes \in Nat /\ crashes' \in {crashes, crashes + 1}
  <1>1. crashes \in Nat
    BY FlowAssumption DEF Types, TableType
  <1>. QED
    BY <1>1 DEF Next, HubStep, PushStep, PushTimeout, PushEnd, Lose, PushTask, Arrive, SelectNone,
       Select, Answer, Ask, Prove, Report, Reply, Claim, Forward, Abandon, Save, Restart, Expire,
       ExpireUnsaved, vars, nodeVars

LEMMA ShutStep ==
    ASSUME Types, [Next]_vars, NEW t \in Task, Shut(t)
    PROVE  Shut(t)' \/ crashes' = crashes + 1
  <1>1. TaskMoves(t)
    BY TaskStep
  <1>2. PushesOver(t[1], t[2]) => PushesOver(t[1], t[2])'
    BY OverStays DEF Task
  <1>. QED
    BY <1>1, <1>2 DEF TaskMoves, Shut, State

LEMMA BoundedStep ==
    ASSUME Types, Quiet, AllBounded, [Next]_vars
    PROVE  AllBounded'
  <1> SUFFICES ASSUME NEW t \in Task PROVE Bounded(t)'
    BY DEF AllBounded
  <1> DEFINE R == Reporting(t)
             S == Reporting(t)'
  <1>0. crashes \in Nat /\ crashes' \in {crashes, crashes + 1}
    BY CrashesGrow
  <1>1. IsFiniteSet(R) /\ Cardinality(R) <= IF Shut(t) THEN crashes + 1 ELSE crashes
    BY DEF AllBounded, Bounded
  <1>2. Shut(t) => Shut(t)' \/ crashes' = crashes + 1
    BY ShutStep
  <1>3. Cardinality(R) \in Nat
    BY <1>1, FS_CardinalityType
  <1>4. CASE S \subseteq R
    <2>1. IsFiniteSet(S) /\ Cardinality(S) <= Cardinality(R)
      BY <1>1, <1>4, FS_Subset
    <2>2. Cardinality(S) \in Nat
      BY <2>1, FS_CardinalityType
    <2> HIDE DEF R, S
    <2>3. Cardinality(S) <= IF Shut(t)' THEN crashes' + 1 ELSE crashes'
      BY <1>0, <1>1, <1>2, <1>3, <2>1, <2>2
    <2>. QED
      BY <2>1, <2>3 DEF Bounded, S
  <1>5. ASSUME NEW p \in S, p \notin R
        PROVE  Bounded(t)'
    <2>0. p \in Call /\ call'[p].task = t
      BY <1>5 DEF Reporting
    <2>1. Claims(p) /\ call[p].task = t
      BY <1>5, <2>0, ReportingStep
    <2>2. State(t) = "pending" /\ State(t)' = "running"
      BY <2>0, <2>1 DEF Claims, State
    <2>3. ~Shut(t) /\ Shut(t)'
      BY <2>2 DEF Shut
    <2>4. S \subseteq R \cup {p}
      <3>1. ASSUME NEW q \in S, q # p
            PROVE  q \in R
        <4>0. q \in Call
          BY <3>1 DEF Reporting
        <4>1. q \in R \/ (Live(q)' /\ call[q].task = t)
          BY <3>1, <4>0, ReportingStep
        <4>2. CASE Live(q)' /\ call[q].task = t
          <5>1. call'[q] = call[q]
            BY <2>1, <3>1, <4>0 DEF Claims
          <5>. QED
            BY <4>0, <4>2, <5>1 DEF Reporting, Live
        <4>. QED
          BY <4>1, <4>2
      <3>. QED
        BY <3>1
    <2>5. IsFiniteSet(R \cup {p}) /\ Cardinality(R \cup {p}) = Cardinality(R) + 1
      BY <1>1, <1>5, FS_AddElement
    <2>6. IsFiniteSet(S) /\ Cardinality(S) <= Cardinality(R) + 1
      BY <2>4, <2>5, FS_Subset
    <2>7. Cardinality(S) \in Nat
      BY <2>6, FS_CardinalityType
    <2> HIDE DEF R, S
    <2>8. Cardinality(S) <= crashes' + 1
      BY <1>0, <1>1, <1>3, <2>3, <2>6, <2>7
    <2>. QED
      BY <2>3, <2>6, <2>8 DEF Bounded, S
  <1>. QED
    BY <1>4, <1>5

(* The explorer hears of a hash from a node once more than the node        *)
(* restarted, at most, for any number of calls.                            *)
THEOREM ResultsAreBounded == Spec => []ResultsBounded
  <1>1. Init => AllBounded
    <2>1. Init => \A t \in Task : Reporting(t) = {} /\ crashes = 0
      BY DEF Init, Reporting, Live, Idle
    <2>. QED
      BY <2>1, FS_EmptySet DEF AllBounded, Bounded
  <1>2. Types /\ AllBounded => ResultsBounded
    <2> SUFFICES ASSUME Types, AllBounded, NEW t \in Task
                 PROVE  Cardinality({p \in told : call[p].task = t}) <= 1 + crashes
      BY DEF ResultsBounded
    <2> DEFINE T == {p \in told : call[p].task = t}
    <2>1. T \subseteq Reporting(t)
      BY DEF Reporting, Types, MailType
    <2>2. /\ IsFiniteSet(Reporting(t)) /\ crashes \in Nat
          /\ Cardinality(Reporting(t)) <= IF Shut(t) THEN crashes + 1 ELSE crashes
      BY FlowAssumption DEF AllBounded, Bounded, Types, TableType
    <2>3. /\ IsFiniteSet(T) /\ Cardinality(T) <= Cardinality(Reporting(t))
          /\ Cardinality(Reporting(t)) \in Nat
      BY <2>1, <2>2, FS_Subset, FS_CardinalityType
    <2>4. Cardinality(T) \in Nat
      BY <2>3, FS_CardinalityType
    <2> HIDE DEF T
    <2>5. Cardinality(T) <= 1 + crashes
      BY <2>2, <2>3, <2>4
    <2>. QED
      BY <2>5 DEF T
  <1>. QED
    BY <1>1, <1>2, BoundedStep, TypesAlways, QuietAlways, PTL DEF Spec

-----------------------------------------------------------------------------
(* The promise of TaskLife *)

Offering == {t \in Task : State(t) = "pending"}

Holding(t) == {p \in Call : Live(p) /\ call[p].task = t}

HoldingAll == [t \in Task |-> Holding(t)]

Safe == Types /\ Held /\ OneProver /\ Quiet

(* A task that is offered, or may be pushed, is held by nobody. *)
LEMMA Unheld ==
    ASSUME Safe, NEW t \in Task, State(t) # "running",
           State(t) = "pending" \/ ~PushesOver(t[1], t[2])
    PROVE  Holding(t) = {}
  BY DEF Safe, Held, Shut, Holding

LEMMA HeldByOne ==
    ASSUME Safe, NEW p \in Call, Live(p)
    PROVE  Holding(call[p].task) = {p}
  BY DEF Safe, OneProver, Holding

(* A step that moves a call on, when the call holds its task before and    *)
(* after, or neither before nor after; and when the call leaves its task.  *)
LEMMA HoldingStays ==
    ASSUME Safe, NEW p \in Call, NEW pc, Goto(p, pc),
           Live(p) <=> pc \in {"proving", "report", "posted"}
    PROVE  HoldingAll' = HoldingAll
  <1>0. call \in [Call -> [pc : {"idle"} \cup CallPc, task : Task \cup {<<>>}]]
    BY DEF Safe, Types, CallType
  <1>1. \A q \in Call : call'[q].task = call[q].task /\ (Live(q)' <=> Live(q))
    BY <1>0 DEF Goto, Live
  <1>2. ASSUME NEW t \in Task
        PROVE  Holding(t)' = Holding(t)
    BY <1>1 DEF Holding
  <1>. QED
    BY <1>2 DEF HoldingAll

LEMMA HoldingEnds ==
    ASSUME Safe, NEW p \in Call, NEW pc, Goto(p, pc), Live(p),
           pc \notin {"proving", "report", "posted"}
    PROVE  \E t \in Task : p \in Holding(t) /\ HoldingAll' = [HoldingAll EXCEPT ![t] = {}]
  <1>0. /\ call \in [Call -> [pc : {"idle"} \cup CallPc, task : Task \cup {<<>>}]]
        /\ \A q \in Call : call[q].pc = "idle" <=> call[q].task = <<>>
    BY DEF Safe, Types, CallType
  <1>1. PICK t \in Task : t = call[p].task
    BY <1>0 DEF Live
  <1>2. Holding(t) = {p}
    BY <1>1, HeldByOne
  <1>3. /\ ~(Live(p)')
        /\ \A q \in Call : q # p => call'[q] = call[q]
    BY <1>0 DEF Goto, Live
  <1>4. Holding(t)' = {}
    <2>1. ASSUME NEW q \in Call, q \in Holding(t)'
          PROVE  FALSE
      <3>1. q # p
        BY <1>3, <2>1 DEF Holding
      <3>2. q \in Holding(t)
        BY <1>3, <2>1, <3>1 DEF Holding, Live
      <3>. QED
        BY <1>2, <3>1, <3>2
    <2>. QED
      BY <2>1 DEF Holding
  <1>5. ASSUME NEW u \in Task, u # t
        PROVE  Holding(u)' = Holding(u)
    <2>1. ASSUME NEW q \in Call
          PROVE  q \in Holding(u)' <=> q \in Holding(u)
      <3>1. CASE q = p
        BY <1>1, <1>3, <1>5, <3>1 DEF Holding
      <3>2. CASE q # p
        BY <1>3, <3>2 DEF Holding, Live
      <3>. QED
        BY <3>1, <3>2
    <2>. QED
      BY <2>1 DEF Holding
  <1>6. HoldingAll' = [HoldingAll EXCEPT ![t] = {}]
    BY <1>4, <1>5 DEF HoldingAll
  <1>. QED
    BY <1>2, <1>6

(* The steps of the nodes on their tables. *)
LEMMA LifePush ==
    ASSUME Safe, NEW m \in wire, PushTask(m)
    PROVE  UNCHANGED Life!vars \/ \E t \in Task : Life!Offer(t)
  <1>0. /\ table \in [Node -> [Request -> Status]] /\ "pending" \in Status
        /\ RequestOf(m) \in Request /\ NodeOf(m) \in Node
    BY DEF Safe, Types, TableType, PushType, Message, Dispatch, RequestOf, NodeOf, Status
  <1>1. UNCHANGED <<HoldingAll, mail, told>>
    BY DEF PushTask, callVars, HoldingAll, Holding, Live
  <1>2. CASE UNCHANGED table
    BY <1>1, <1>2 DEF Life!vars, Offering, HoldingAll, Holding, State
  <1>3. CASE /\ ~Refuses(NodeOf(m), RequestOf(m))
             /\ table' = [table EXCEPT ![NodeOf(m)][RequestOf(m)] = "pending"]
    <2>1. PICK t \in Task : t = <<RequestOf(m), NodeOf(m)>>
      BY <1>0 DEF Task
    <2>2. t[1] = RequestOf(m) /\ t[2] = NodeOf(m)
      BY <2>1
    <2>3. \A u \in Task : State(u)' = IF u = t THEN "pending" ELSE State(u)
      <3>1. \A u \in Task : u[1] \in Request /\ u[2] \in Node /\ (u = t <=> u[1] = t[1] /\ u[2] = t[2])
        BY DEF Task
      <3>. QED
        BY <1>0, <1>3, <2>2, <3>1, SetEntry DEF State
    <2>4. Offering' = Offering \cup {t}
      BY <2>3 DEF Offering
    <2>5. Holding(t) = {}
      <3>1. State(t) # "running"
        BY <1>3, <2>2 DEF Refuses, State
      <3>2. ~PushesOver(t[1], t[2])
        BY <2>2 DEF PushesOver
      <3>. QED
        BY <3>1, <3>2, Unheld
    <2>6. HoldingAll[t] = {}
      BY <2>5 DEF HoldingAll
    <2>. QED
      BY <1>1, <2>4, <2>6 DEF Life!Offer, Offering, HoldingAll, Holding, State
  <1>. QED
    BY <1>2, <1>3 DEF PushTask

LEMMA LifeExpire ==
    ASSUME Safe, NEW n \in Node, NEW r \in Request, Expire(n, r) \/ ExpireUnsaved(n, r)
    PROVE  UNCHANGED Life!vars \/ \E t \in Task : Life!Withdraw(t)
  <1>0. table \in [Node -> [Request -> Status]] /\ "absent" \in Status
    BY DEF Safe, Types, TableType, Status
  <1>1. UNCHANGED <<HoldingAll, mail, told>>
    BY DEF Expire, ExpireUnsaved, callVars, HoldingAll, Holding, Live
  <1>2. CASE UNCHANGED table
    BY <1>1, <1>2 DEF Life!vars, Offering, HoldingAll, Holding, State
  <1>3. CASE table' = [table EXCEPT ![n][r] = "absent"]
    <2>1. PICK t \in Task : t = <<r, n>>
      BY DEF Task
    <2>2. t[1] = r /\ t[2] = n
      BY <2>1
    <2>3. \A u \in Task : State(u)' = IF u = t THEN "absent" ELSE State(u)
      <3>1. \A u \in Task : u[1] \in Request /\ u[2] \in Node /\ (u = t <=> u[1] = t[1] /\ u[2] = t[2])
        BY DEF Task
      <3>. QED
        BY <1>0, <1>3, <2>2, <3>1, SetEntry DEF State
    <2>4. Offering' = Offering \ {t}
      BY <2>3 DEF Offering
    <2>. QED
      BY <1>1, <2>4 DEF Life!Withdraw, Offering, HoldingAll, Holding, State
  <1>. QED
    BY <1>2, <1>3 DEF Expire, ExpireUnsaved

(* The steps of a call. *)
LEMMA LifeClaim ==
    ASSUME Safe, NEW p \in Call, Claim(p)
    PROVE  UNCHANGED Life!vars \/ \E t \in Task : Life!Take(t, p)
  <1>0. /\ call \in [Call -> [pc : {"idle"} \cup CallPc, task : Task \cup {<<>>}]]
        /\ \A q \in Call : call[q].pc = "idle" <=> call[q].task = <<>>
        /\ table \in [Node -> [Request -> Status]] /\ "running" \in Status
    BY DEF Safe, Types, CallType, TableType, Status
  <1>1. ~Live(p) /\ UNCHANGED <<mail, told>>
    BY DEF Claim, At, Live
  <1>2. PICK t \in Task : t = call[p].task
    BY <1>0 DEF Claim, At
  <1>3. t[1] \in Request /\ t[2] \in Node
    BY DEF Task
  <1>4. CASE Goto(p, "refused") /\ UNCHANGED table
    <2>1. HoldingAll' = HoldingAll
      BY <1>1, <1>4, HoldingStays
    <2>. QED
      BY <1>1, <1>4, <2>1 DEF Life!vars, Offering, HoldingAll, Holding, State
  <1>5. CASE /\ Claimable(t[1], t[2]) /\ Goto(p, "proving")
             /\ table' = [table EXCEPT ![t[2]][t[1]] = "running"]
    <2>1. \A u \in Task : State(u)' = IF u = t THEN "running" ELSE State(u)
      <3>1. \A u \in Task : u[1] \in Request /\ u[2] \in Node /\ (u = t <=> u[1] = t[1] /\ u[2] = t[2])
        BY DEF Task
      <3>. QED
        BY <1>0, <1>3, <1>5, <3>1, SetEntry DEF State
    <2>2. State(t) = "pending"
      BY <1>5 DEF Claimable, State
    <2>3. t \in Offering /\ Holding(t) = {}
      BY <2>2, Unheld DEF Offering
    <2>4. Offering' = Offering \ {t}
      BY <2>1 DEF Offering
    <2>5. /\ Live(p)' /\ call'[p].task = t
          /\ \A q \in Call : q # p => call'[q] = call[q]
      BY <1>0, <1>2, <1>5 DEF Goto, Live
    <2>6. Holding(t)' = {p}
      <3>1. p \in Holding(t)'
        BY <2>5 DEF Holding
      <3>2. ASSUME NEW q \in Call, q # p, q \in Holding(t)'
            PROVE  FALSE
        <4>1. q \in Holding(t)
          BY <2>5, <3>2 DEF Holding, Live
        <4>. QED
          BY <2>3, <4>1
      <3>. QED
        BY <3>1, <3>2 DEF Holding
    <2>7. ASSUME NEW u \in Task, u # t
          PROVE  Holding(u)' = Holding(u)
      <3>1. ASSUME NEW q \in Call
            PROVE  q \in Holding(u)' <=> q \in Holding(u)
        <4>1. CASE q = p
          BY <1>1, <2>5, <2>7, <4>1 DEF Holding
        <4>2. CASE q # p
          BY <2>5, <4>2 DEF Holding, Live
        <4>. QED
          BY <4>1, <4>2
      <3>. QED
        BY <3>1 DEF Holding
    <2>8. HoldingAll' = [HoldingAll EXCEPT ![t] = {p}]
      BY <2>6, <2>7 DEF HoldingAll
    <2>9. HoldingAll[t] = {}
      BY <2>3 DEF HoldingAll
    <2>. QED
      BY <1>1, <2>3, <2>4, <2>8, <2>9 DEF Life!Take, Offering, HoldingAll, Holding, State
  <1>. QED
    BY <1>2, <1>4, <1>5 DEF Claim

LEMMA LifeEnds ==
    ASSUME Safe, NEW p \in Call, NEW pc, Goto(p, pc), Live(p),
           pc \notin {"proving", "report", "posted"}, UNCHANGED <<table, mail, told>>
    PROVE  \E t \in Task : Life!Leave(t, p)
  <1>1. Offering' = Offering
    BY DEF Offering, State
  <1>2. PICK t \in Task : p \in Holding(t) /\ HoldingAll' = [HoldingAll EXCEPT ![t] = {}]
    BY HoldingEnds
  <1>3. p \in HoldingAll[t]
    BY <1>2 DEF HoldingAll
  <1>. QED
    BY <1>1, <1>2, <1>3 DEF Life!Leave, Offering, HoldingAll, Holding, State

LEMMA LifeStays ==
    ASSUME Safe, NEW p \in Call, NEW pc, Goto(p, pc),
           Live(p) <=> pc \in {"proving", "report", "posted"}, UNCHANGED <<table, mail, told>>
    PROVE  UNCHANGED Life!vars
  <1>1. Offering' = Offering
    BY DEF Offering, State
  <1>2. HoldingAll' = HoldingAll
    BY HoldingStays
  <1>. QED
    BY <1>1, <1>2 DEF Life!vars, Offering, HoldingAll, Holding, State

LEMMA LifeServes ==
    ASSUME Safe, NEW p \in Call, Prove(p) \/ Report(p) \/ Reply(p) \/ Abandon(p)
    PROVE  UNCHANGED Life!vars \/ \E t \in Task : Life!Leave(t, p) \/ Life!Mail(t, p)
  <1>1. CASE Posts(p)
    <2>0. Live(p) /\ UNCHANGED table
      BY <1>1 DEF Posts, Live, Prove, Report, Reply, Abandon, At, nodeVars
    <2>1. Offering' = Offering
      BY <2>0 DEF Offering, State
    <2>2. HoldingAll' = HoldingAll
      BY <1>1, <2>0, HoldingStays DEF Posts
    <2>3. PICK t \in Task : t = call[p].task
      BY <2>0 DEF Safe, Types, CallType, Live
    <2>4. p \in HoldingAll[t]
      BY <2>0, <2>3 DEF HoldingAll, Holding
    <2>5. p \notin mail \cup told
      BY <1>1 DEF Posts, Safe, Quiet
    <2>. QED
      BY <1>1, <2>1, <2>2, <2>4, <2>5 DEF Life!Mail, Posts, Offering, HoldingAll, Holding, State
  <1>2. CASE ~Posts(p)
    <2>1. /\ UNCHANGED <<table, mail, told>>
          /\ \E pc \in {"report", "answered", "raised", "gone"} :
                Goto(p, pc) /\ (Live(p) \/ (At(p, "sent") /\ pc = "gone"))
      BY <1>2 DEF Posts, Prove, Report, Reply, Abandon, At, Live, nodeVars
    <2>2. PICK pc \in {"report", "answered", "raised", "gone"} :
            Goto(p, pc) /\ (Live(p) \/ (At(p, "sent") /\ pc = "gone"))
      BY <2>1
    <2>3. CASE Live(p) /\ pc # "report"
      BY <2>1, <2>2, <2>3, LifeEnds
    <2>4. CASE Live(p) /\ pc = "report"
      BY <2>1, <2>2, <2>4, LifeStays
    <2>5. CASE At(p, "sent") /\ pc = "gone"
      BY <2>1, <2>2, <2>5, LifeStays DEF At, Live
    <2>. QED
      BY <2>2, <2>3, <2>4, <2>5
  <1>. QED
    BY <1>1, <1>2

LEMMA LifeAsk ==
    ASSUME Safe, NEW p \in Call, NEW r \in Request, NEW n \in Node, Ask(p, r, n)
    PROVE  UNCHANGED Life!vars
  <1>0. call \in [Call -> [pc : {"idle"} \cup CallPc, task : Task \cup {<<>>}]]
    BY DEF Safe, Types, CallType
  <1>1. /\ ~Live(p) /\ ~(Live(p)')
        /\ \A q \in Call : q # p => call'[q] = call[q]
        /\ UNCHANGED <<table, mail, told>>
    BY <1>0 DEF Ask, At, Live, nodeVars
  <1>2. ASSUME NEW t \in Task
        PROVE  Holding(t)' = Holding(t)
    <2>1. ASSUME NEW q \in Call
          PROVE  q \in Holding(t)' <=> q \in Holding(t)
      <3>1. CASE q = p
        BY <1>1, <3>1 DEF Holding
      <3>2. CASE q # p
        BY <1>1, <3>2 DEF Holding, Live
      <3>. QED
        BY <3>1, <3>2
    <2>. QED
      BY <2>1 DEF Holding
  <1>3. HoldingAll' = HoldingAll /\ Offering' = Offering
    BY <1>1, <1>2 DEF HoldingAll, Offering, State
  <1>. QED
    BY <1>1, <1>3 DEF Life!vars, Offering, HoldingAll, Holding, State

LEMMA LifeForward ==
    ASSUME Safe, NEW p \in Call, Forward(p)
    PROVE  Life!Hear(p) \/ Life!Miss(p)
  <1>1. HoldingAll' = HoldingAll /\ Offering' = Offering
    BY DEF Forward, nodeVars, HoldingAll, Holding, Live, Offering, State
  <1>. QED
    BY <1>1 DEF Forward, Life!Hear, Life!Miss, Offering, HoldingAll, Holding, State

LEMMA LifeRestart ==
    ASSUME Safe, NEW n \in Node, Restart(n)
    PROVE  \E ts \in SUBSET Task : Life!Restart(ts) /\ Offering' \in SUBSET Task
  <1>0. /\ call \in [Call -> [pc : {"idle"} \cup CallPc, task : Task \cup {<<>>}]]
        /\ table \in [Node -> [Request -> Status]]
    BY DEF Safe, Types, CallType, TableType
  <1> DEFINE ts == {t \in Task : t[2] = n}
  <1>1. /\ UNCHANGED <<mail, told>> /\ table' = [table EXCEPT ![n] = disk'[n]]
        /\ \A p \in Call : call'[p] =
             IF call[p].task # <<>> /\ call[p].task[2] = n /\ (Live(p) \/ At(p, "sent"))
             THEN [call[p] EXCEPT !.pc = "gone"] ELSE call[p]
    BY DEF Restart
  <1>2. ASSUME NEW t \in Task, t \notin ts
        PROVE  State(t)' = State(t) /\ Holding(t)' = Holding(t)
    <2>1. t[2] # n /\ t[2] \in Node
      BY <1>2 DEF Task
    <2>2. State(t)' = State(t)
      BY <1>0, <1>1, <2>1 DEF State
    <2>3. ASSUME NEW p \in Call
          PROVE  p \in Holding(t)' <=> p \in Holding(t)
      <3>1. CASE call'[p] = call[p]
        BY <3>1 DEF Holding, Live
      <3>2. CASE call[p].task[2] = n /\ call'[p] = [call[p] EXCEPT !.pc = "gone"]
        BY <1>0, <2>1, <3>2 DEF Holding
      <3>. QED
        BY <1>1, <3>1, <3>2
    <2>. QED
      BY <2>2, <2>3 DEF Holding
  <1>3. ASSUME NEW t \in ts
        PROVE  Holding(t)' = {}
    <2>1. t # <<>> /\ t[2] = n
      BY EmptyIsNoTask
    <2>2. ASSUME NEW p \in Call, Live(p)', call'[p].task = t
          PROVE  FALSE
      <3>1. call[p].task = t
        BY <1>0, <1>1, <2>2
      <3>. QED
        BY <1>0, <1>1, <2>1, <2>2, <3>1 DEF Live
    <2>. QED
      BY <2>2 DEF Holding
  <1>4. HoldingAll' = [t \in Task |-> IF t \in ts THEN {} ELSE HoldingAll[t]]
    BY <1>2, <1>3 DEF HoldingAll
  <1>5. Offering \ ts = Offering' \ ts /\ Offering' \in SUBSET Task
    <2>1. ASSUME NEW t \in Task, t \notin ts
          PROVE  t \in Offering <=> t \in Offering'
      BY <1>2, <2>1 DEF Offering
    <2>. QED
      BY <2>1 DEF Offering
  <1>6. ts \in SUBSET Task
    OBVIOUS
  <1> HIDE DEF ts
  <1>7. Life!Restart(ts)
    BY <1>1, <1>4, <1>5 DEF Life!Restart, Offering, HoldingAll, Holding, State
  <1>. QED
    BY <1>5, <1>6, <1>7

(* Through lost, late and repeated pushes, cancelled calls and restarts,   *)
(* the nodes keep the promise of TaskLife.                                 *)
THEOREM NodesKeepPromise == Spec => KeepsPromise
  <1>1. Init => Life!Init
    BY DEF Init, Life!Init, Idle, Live, NoTasks, Task
  <1>2. ASSUME Safe, [Next]_vars
        PROVE  [Life!Next]_(Life!vars)
    <2>1. CASE UNCHANGED <<table, call, mail, told>>
      BY <2>1 DEF Life!vars, Live
    <2>2. ASSUME NEW m \in wire, PushTask(m)
          PROVE  [Life!Next]_(Life!vars)
      BY <1>2, <2>2, LifePush DEF Life!Next
    <2>3. ASSUME NEW n \in Node, NEW r \in Request, Expire(n, r) \/ ExpireUnsaved(n, r)
          PROVE  [Life!Next]_(Life!vars)
      BY <1>2, <2>3, LifeExpire DEF Life!Next
    <2>4. ASSUME NEW p \in Call,
                 Claim(p) \/ Prove(p) \/ Report(p) \/ Reply(p) \/ Forward(p) \/ Abandon(p)
          PROVE  [Life!Next]_(Life!vars)
      BY <1>2, <2>4, LifeClaim, LifeServes, LifeForward DEF Life!Next
    <2>5. ASSUME NEW p \in Call, NEW r \in Request, NEW n \in Node, Ask(p, r, n)
          PROVE  [Life!Next]_(Life!vars)
      BY <1>2, <2>5, LifeAsk
    <2>6. ASSUME NEW n \in Node, Restart(n)
          PROVE  [Life!Next]_(Life!vars)
      BY <1>2, <2>6, LifeRestart DEF Life!Next, Offering, State
    <2>. QED
      BY <1>2, <2>1, <2>2, <2>3, <2>4, <2>5, <2>6 DEF Next, HubStep, PushStep, PushTimeout,
         PushEnd, Lose, Arrive, SelectNone, Select, Answer, Save, vars, nodeVars, callVars
  <1>. QED
    BY <1>1, <1>2, HeldAlways, QuietAlways, PTL DEF Spec, Safe, KeepsPromise, Life!Spec
=============================================================================
