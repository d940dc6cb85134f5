------------------------- MODULE NodeRegistryProofs -------------------------
(***************************************************************************)
(* Proofs about NodeRegistry, for any numbers of nodes, workers and runs   *)
(* of the handler and for all times that satisfy the assumptions.          *)
(***************************************************************************)
EXTENDS NodeRegistry, TLAPS

LEMMA Times ==
    /\ Interval \in Nat /\ ReplyWithin \in Nat /\ Transit \in Nat /\ Timeout \in Nat
    /\ Period \in Nat /\ Lag \in Nat /\ Misses \in Nat /\ Many \in Nat
    /\ Misses < Many
BY TimesAssumption DEF Many

-----------------------------------------------------------------------------
(* Type correctness *)

(* TypeOK without its last two conjuncts.                                  *)
Typed ==
    /\ clock \in Nat
    /\ up \in [Node -> BOOLEAN]
    /\ lastUp \in [Node -> 0 .. clock]
    /\ beat \in [Node -> Beats]
    /\ run \in [Handler -> Runs]
    /\ nodes \in [Worker -> [Node -> -1 .. clock]]
    /\ pruned \in [Worker -> 0 .. clock]
    /\ missed \in [Worker -> [Node -> 0 .. Many]]

(* A heartbeat waits for a handler that works for it.                      *)
WorkedOn ==
    \A n \in Node : beat[n].by # NoHandler =>
        Busy(beat[n].by) /\ run[beat[n].by].node = n

Punctual == \A w \in Worker : clock <= pruned[w] + Period + Lag

LEMMA TypeParts == TypeOK <=> Typed /\ WorkedOn /\ Punctual
BY DEF TypeOK, Typed, WorkedOn, Punctual

LEMMA SleepIsBeat == \A t \in Nat : Sleep(t) \in Beats
BY DEF Sleep, Beats

(* The three records a step may put in place of a run.                     *)
LEMMA RunShapes ==
    /\ Free \in Runs
    /\ \A n \in Node, w \in Worker, g \in Pings, p \in Pings, t \in Nat :
          [pc |-> "ping", node |-> n, worker |-> w, grpc |-> g, http |-> p, at |-> t] \in Runs
BY DEF Runs, Free

LEMMA BusyRun ==
    ASSUME NEW h \in Handler, run[h] \in Runs, Busy(h)
    PROVE  /\ run[h].node \in Node /\ run[h].worker \in Worker
           /\ run[h].grpc \in Pings /\ run[h].http \in Pings /\ run[h].at \in Nat
           /\ run[h] = [pc |-> "ping", node |-> run[h].node, worker |-> run[h].worker,
                        grpc |-> run[h].grpc, http |-> run[h].http, at |-> run[h].at]
BY DEF Runs, Busy, Free

(* What a ping's result makes of a run. *)
LEMMA SettledRun ==
    ASSUME clock \in Nat, NEW r \in Runs, r.pc = "ping"
    PROVE  /\ Settled(r) \in Runs /\ Settled(r).pc = "ping"
           /\ Settled(r).node = r.node /\ Settled(r).worker = r.worker
           /\ Settled(r).grpc = r.grpc /\ Settled(r).http = r.http
           /\ r.grpc = "ok" /\ r.http = "ok" => Settled(r).at = clock
<1> PICK n \in Node, w \in Worker, g \in Pings, p \in Pings, t \in Nat :
        r = [pc |-> "ping", node |-> n, worker |-> w, grpc |-> g, http |-> p, at |-> t]
    BY DEF Runs, Free
<1> DEFINE u == IF g = "ok" /\ p = "ok" THEN clock ELSE 0
<1>1. Settled(r) = [pc |-> "ping", node |-> n, worker |-> w, grpc |-> g, http |-> p, at |-> u]
    BY DEF Settled
<1> QED
    BY <1>1, RunShapes

LEMMA RunWithResult ==
    ASSUME NEW r \in Runs, r.pc = "ping", NEW x \in Pings
    PROVE  /\ [r EXCEPT !.grpc = x] \in Runs /\ [r EXCEPT !.http = x] \in Runs
           /\ [r EXCEPT !.grpc = x].pc = "ping" /\ [r EXCEPT !.http = x].pc = "ping"
           /\ [r EXCEPT !.grpc = x].node = r.node /\ [r EXCEPT !.http = x].node = r.node
           /\ [r EXCEPT !.grpc = x].worker = r.worker /\ [r EXCEPT !.http = x].worker = r.worker
           /\ [r EXCEPT !.grpc = x].grpc = x /\ [r EXCEPT !.http = x].http = x
BY DEF Runs, Free

(* A ping's result changes its run alone, and is good only of a node that  *)
(* runs; a handler with two good answers had the later one now.            *)
LEMMA PingStep ==
    ASSUME Typed, NEW h \in Handler, GrpcPing(h) \/ HttpPing(h)
    PROVE  /\ Busy(h) /\ Busy(h)'
           /\ run'[h] \in Runs
           /\ run'[h].node = run[h].node /\ run'[h].worker = run[h].worker
           /\ run' \in [Handler -> Runs]
           /\ \A g \in Handler : g # h => run'[g] = run[g]
           /\ run'[h].grpc = "ok" /\ run'[h].http = "ok" =>
                  up[run[h].node] /\ run'[h].at = clock
<1>1. run[h] \in Runs /\ Busy(h) /\ clock \in Nat
    BY DEF GrpcPing, HttpPing, Typed
<1>2. PICK x \in PingResults(run[h].node) :
          \/ run' = [run EXCEPT ![h] = Settled([run[h] EXCEPT !.grpc = x])]
          \/ run' = [run EXCEPT ![h] = Settled([run[h] EXCEPT !.http = x])]
    BY DEF GrpcPing, HttpPing
<1>3. x \in Pings
    BY DEF PingResults, Pings
<1>4. PICK r \in Runs :
          /\ run' = [run EXCEPT ![h] = Settled(r)]
          /\ r.pc = "ping" /\ r.node = run[h].node /\ r.worker = run[h].worker
          /\ r.grpc = x \/ r.http = x
  <2>1. run[h].pc = "ping"
    BY <1>1 DEF Busy
  <2>2. CASE run' = [run EXCEPT ![h] = Settled([run[h] EXCEPT !.grpc = x])]
    BY <1>1, <1>3, <2>1, <2>2, RunWithResult
  <2>3. CASE run' = [run EXCEPT ![h] = Settled([run[h] EXCEPT !.http = x])]
    BY <1>1, <1>3, <2>1, <2>3, RunWithResult
  <2> QED
    BY <1>2, <2>2, <2>3
<1>5. run'[h] = Settled(r) /\ \A g \in Handler : g # h => run'[g] = run[g]
    BY <1>4 DEF Typed
<1>6. /\ run'[h] \in Runs /\ run'[h].pc = "ping"
      /\ run'[h].node = run[h].node /\ run'[h].worker = run[h].worker
      /\ run'[h].grpc = r.grpc /\ run'[h].http = r.http
      /\ r.grpc = "ok" /\ r.http = "ok" => run'[h].at = clock
    BY <1>1, <1>4, <1>5, SettledRun
<1>7. run' \in [Handler -> Runs]
    BY <1>4, <1>5, <1>6 DEF Typed
<1>8. r.grpc = "ok" /\ r.http = "ok" => up[run[h].node]
    BY <1>4 DEF PingResults
<1> QED
    BY <1>1, <1>5, <1>6, <1>7, <1>8 DEF Busy

(* A heartbeat whose handler has gone. *)
LEMMA BeatLeft == \A b \in Beats : [b EXCEPT !.by = NoHandler] \in Beats
BY DEF Beats

LEMMA ReleaseTyped ==
    ASSUME Typed, NEW h \in Handler, Release(h)
    PROVE  run' \in [Handler -> Runs] /\ beat' \in [Node -> Beats]
BY BeatLeft, RunShapes DEF Release, Typed

(* The actions that leave the clock alone leave what it bounds in range.   *)
LEMMA TypedRest ==
    ASSUME Typed, UNCHANGED <<clock, up, lastUp>>,
           beat' \in [Node -> Beats], run' \in [Handler -> Runs],
           nodes' \in [Worker -> [Node -> -1 .. clock]],
           pruned' \in [Worker -> 0 .. clock],
           missed' \in [Worker -> [Node -> 0 .. Many]]
    PROVE  Typed'
BY DEF Typed

LEMMA InitTyped == Init => TypeOK
BY Times DEF Init, TypeOK, Beats, Sleep, Runs, Free, Absent, Many

LEMMA TypedStep == Typed /\ [Next]_vars => Typed'
<1> SUFFICES ASSUME Typed, [Next]_vars PROVE Typed'
    OBVIOUS
<1> USE Times
<1>0. CASE UNCHANGED vars
    BY <1>0 DEF Typed, vars
<1>1. CASE Tick
    BY <1>1 DEF Tick, Typed
<1>2. ASSUME NEW n \in Node, PostLost(n) PROVE Typed'
    BY <1>2 DEF PostLost, Post, Typed, Beats
<1>3. ASSUME NEW n \in Node, PostEnds(n) PROVE Typed'
    BY <1>3, SleepIsBeat DEF PostEnds, Typed
<1>4. ASSUME NEW n \in Node, NodeStops(n) PROVE Typed'
    BY <1>4, SleepIsBeat DEF NodeStops, Typed
<1>5. ASSUME NEW n \in Node, NodeStarts(n) PROVE Typed'
    BY <1>5, SleepIsBeat DEF NodeStarts, Typed
<1>6. ASSUME NEW n \in Node, NEW h \in Handler, NEW w \in Worker, PostReaches(n, h, w)
      PROVE  Typed'
  <2>1. run' \in [Handler -> Runs]
    BY <1>6, RunShapes DEF PostReaches, Typed, Pings
  <2>2. beat' \in [Node -> Beats]
    BY <1>6 DEF PostReaches, Post, Typed, Beats
  <2>3. missed' \in [Worker -> [Node -> 0 .. Many]]
    BY <1>6 DEF PostReaches, Post, Typed
  <2> QED
    BY <1>6, <2>1, <2>2, <2>3, TypedRest DEF PostReaches, Typed
<1>7. ASSUME NEW h \in Handler, GrpcPing(h) PROVE Typed'
    BY <1>7, PingStep, TypedRest DEF GrpcPing, Typed
<1>8. ASSUME NEW h \in Handler, HttpPing(h) PROVE Typed'
    BY <1>8, PingStep, TypedRest DEF HttpPing, Typed
<1>9. ASSUME NEW h \in Handler, Register(h) PROVE Typed'
  <2>1. run[h].node \in Node /\ run[h].worker \in Worker
    BY <1>9, BusyRun DEF Register, Answered, Typed
  <2>2. nodes' \in [Worker -> [Node -> -1 .. clock]]
    BY <1>9, <2>1 DEF Register, Add, Timestamp, Typed
  <2>3. missed' \in [Worker -> [Node -> 0 .. Many]]
    BY <1>9, <2>1 DEF Register, Typed
  <2>4. run' \in [Handler -> Runs] /\ beat' \in [Node -> Beats]
    BY <1>9, ReleaseTyped DEF Register
  <2> QED
    BY <1>9, <2>2, <2>3, <2>4, TypedRest DEF Register, Typed
<1>10. ASSUME NEW h \in Handler, Refuse(h) PROVE Typed'
  <2>1. run' \in [Handler -> Runs] /\ beat' \in [Node -> Beats]
    BY <1>10, ReleaseTyped DEF Refuse
  <2> QED
    BY <1>10, <2>1, TypedRest DEF Refuse, Typed
<1>11. ASSUME NEW w \in Worker, Prune(w) PROVE Typed'
    BY <1>11 DEF Prune, Typed, Absent
<1>12. ASSUME NEW w \in Worker, WorkerRestarts(w) PROVE Typed'
  <2>1. run' \in [Handler -> Runs]
    BY <1>12, RunShapes DEF WorkerRestarts, Typed
  <2>2. beat' \in [Node -> Beats]
    BY <1>12, BeatLeft DEF WorkerRestarts, Typed
  <2>3. nodes' \in [Worker -> [Node -> -1 .. clock]]
    BY <1>12 DEF WorkerRestarts, Typed, Absent
  <2>4. pruned' \in [Worker -> 0 .. clock] /\ missed' \in [Worker -> [Node -> 0 .. Many]]
    BY <1>12 DEF WorkerRestarts, Typed
  <2> QED
    BY <1>12, <2>1, <2>2, <2>3, <2>4, TypedRest DEF WorkerRestarts, Typed
<1> QED
    BY <1>0, <1>1, <1>2, <1>3, <1>4, <1>5, <1>6, <1>7, <1>8, <1>9, <1>10, <1>11, <1>12 DEF Next

LEMMA PingKeeps ==
    ASSUME Typed, NEW h \in Handler, GrpcPing(h) \/ HttpPing(h), NEW g \in Handler
    PROVE  /\ Busy(g)' <=> Busy(g)
           /\ run'[g].node = run[g].node
           /\ run'[g].worker = run[g].worker
           /\ g # h => run'[g] = run[g]
BY PingStep DEF Busy

LEMMA WorkedOnStep == Typed /\ WorkedOn /\ [Next]_vars => WorkedOn'
<1> SUFFICES ASSUME Typed, WorkedOn, [Next]_vars PROVE WorkedOn'
    OBVIOUS
<1> USE NoHandlerAssumption
<1>0. CASE UNCHANGED vars
    BY <1>0 DEF WorkedOn, Busy, vars
<1>1. CASE Tick
    BY <1>1 DEF Tick, WorkedOn, Busy
<1>2. ASSUME NEW n \in Node, PostLost(n) PROVE WorkedOn'
    BY <1>2 DEF PostLost, Post, WorkedOn, Busy, Typed
<1>3. ASSUME NEW n \in Node, PostEnds(n) PROVE WorkedOn'
    BY <1>3 DEF PostEnds, Sleep, WorkedOn, Busy, Typed
<1>4. ASSUME NEW n \in Node, NodeStops(n) PROVE WorkedOn'
    BY <1>4 DEF NodeStops, Sleep, WorkedOn, Busy, Typed
<1>5. ASSUME NEW n \in Node, NodeStarts(n) PROVE WorkedOn'
    BY <1>5 DEF NodeStarts, Sleep, WorkedOn, Busy, Typed
<1>6. ASSUME NEW n \in Node, NEW h \in Handler, NEW w \in Worker, PostReaches(n, h, w)
      PROVE  WorkedOn'
  <2>1. ~Busy(h)
    BY <1>6 DEF PostReaches, Busy, Free
  <2> QED
    BY <1>6, <2>1 DEF PostReaches, Post, WorkedOn, Busy, Typed, Beats
<1>7. ASSUME NEW h \in Handler, GrpcPing(h) \/ HttpPing(h) PROVE WorkedOn'
  <2>1. beat' = beat
    BY <1>7 DEF GrpcPing, HttpPing
  <2>2. \A n \in Node : beat[n].by \in Handler \cup {NoHandler}
    BY DEF Typed, Beats
  <2> QED
    BY <1>7, <2>1, <2>2, PingKeeps DEF WorkedOn
<1>8. ASSUME NEW h \in Handler, Release(h) PROVE WorkedOn'
    BY <1>8 DEF Release, WorkedOn, Busy, Typed, Beats
<1>9. ASSUME NEW w \in Worker, Prune(w) PROVE WorkedOn'
    BY <1>9 DEF Prune, WorkedOn, Busy
<1>10. ASSUME NEW w \in Worker, WorkerRestarts(w) PROVE WorkedOn'
  <2> SUFFICES ASSUME NEW n \in Node, beat'[n].by # NoHandler
               PROVE  Busy(beat[n].by)' /\ run'[beat'[n].by].node = n
    BY <1>10 DEF WorkerRestarts, WorkedOn
  <2>1. beat[n] \in Beats /\ beat[n].by \in Handler \cup {NoHandler}
    BY DEF Typed, Beats
  <2>2. beat'[n] = beat[n] /\ run'[beat[n].by] = run[beat[n].by]
    BY <1>10, <2>1 DEF WorkerRestarts, Beats
  <2> QED
    BY <2>1, <2>2 DEF WorkedOn, Busy
<1> QED
    BY <1>0, <1>1, <1>2, <1>3, <1>4, <1>5, <1>6, <1>7, <1>8, <1>9, <1>10
    DEF Next, Register, Refuse

(* No step but Tick moves the clock, and none turns pruned back. *)
LEMMA ClockStep ==
    ASSUME Typed, [Next]_vars
    PROVE  /\ Tick \/ clock' = clock
           /\ \A w \in Worker : pruned'[w] = pruned[w] \/ pruned'[w] = clock'
<1>1. ASSUME NEW w \in Worker, Prune(w) \/ WorkerRestarts(w)
      PROVE  clock' = clock /\ \A v \in Worker : pruned'[v] = pruned[v] \/ pruned'[v] = clock'
    BY <1>1 DEF Prune, WorkerRestarts, Typed
<1>2. CASE UNCHANGED pruned /\ (Tick \/ clock' = clock)
    BY <1>2
<1> QED
    BY <1>1, <1>2 DEF Next, vars, Tick, PostLost, PostEnds, NodeStops, NodeStarts,
       PostReaches, GrpcPing, HttpPing, Register, Refuse

LEMMA PunctualStep == Typed /\ Punctual /\ [Next]_vars => Punctual'
<1> SUFFICES ASSUME Typed, Punctual, [Next]_vars, NEW w \in Worker
             PROVE  clock' <= pruned'[w] + Period + Lag
    BY DEF Punctual
<1>1. /\ clock \in Nat /\ pruned[w] \in Nat /\ clock' \in Nat
    BY TypedStep DEF Typed
<1>2. CASE pruned'[w] = clock'
  <2>1. \A t \in Nat : t <= t + Period + Lag
    BY Times
  <2>2. clock' <= clock' + Period + Lag
    BY <1>1, <2>1
  <2> QED
    BY <1>2, <2>2
<1>3. CASE pruned'[w] = pruned[w] /\ clock' = clock
    BY <1>3 DEF Punctual
<1>4. CASE pruned'[w] = pruned[w] /\ Tick
    BY <1>1, <1>4, Times DEF Tick, Idle
<1> QED
    BY <1>2, <1>3, <1>4, ClockStep

(* Every reachable state is well typed: no timestamp lies in the future, a *)
(* heartbeat waits only for a handler that works for it, and no job of a   *)
(* worker is later than Lag.                                               *)
THEOREM TypeCorrect == Spec => []TypeOK
<1>1. TypeOK /\ [Next]_vars => TypeOK'
    BY TypedStep, WorkedOnStep, PunctualStep, TypeParts
    DEF TypeOK, Typed, WorkedOn, Punctual
<1> QED
    BY <1>1, InitTyped, PTL DEF Spec

-----------------------------------------------------------------------------
(* A listed node ran lately *)

(* A node that runs has run up to now, and a handler that is about to list *)
(* its node had the later of the two answers while the node ran, and not   *)
(* longer ago than an answer is under way.                                 *)
RunsNow ==
    /\ \A n \in Node : up[n] => lastUp[n] = clock
    /\ \A h \in Handler : Answered(h) /\ Reachable(h) =>
          run[h].at <= lastUp[run[h].node] /\ clock <= run[h].at + Transit

(* An entry is not much younger than the last run of its node, and the     *)
(* last run of the job would have dropped it if it had been too old.       *)
EntriesFresh ==
    \A w \in Worker, n \in Node : Listed(w, n) =>
        nodes[w][n] <= lastUp[n] + Transit /\ pruned[w] <= nodes[w][n] + Timeout

(* The last second of a node is at most now, and moves forward only. *)
LEMMA LastUpStep ==
    ASSUME Typed, [Next]_vars, NEW n \in Node
    PROVE  lastUp'[n] = lastUp[n] \/ lastUp'[n] = clock'
BY DEF Typed, Next, vars, Tick, PostLost, PostEnds, NodeStops, NodeStarts,
       PostReaches, GrpcPing, HttpPing, Register, Refuse, Prune, WorkerRestarts

LEMMA LastUpGrows ==
    ASSUME Typed, [Next]_vars, NEW n \in Node
    PROVE  lastUp[n] <= lastUp'[n] /\ clock <= clock'
<1>1. clock \in Nat /\ clock' \in Nat /\ lastUp[n] \in 0 .. clock
    BY TypedStep DEF Typed
<1>2. clock <= clock'
    BY <1>1, ClockStep DEF Tick
<1> QED
    BY <1>1, <1>2, LastUpStep

LEMMA RunsNowStep == Typed /\ RunsNow /\ [Next]_vars => RunsNow'
<1> SUFFICES ASSUME Typed, RunsNow, [Next]_vars PROVE RunsNow'
    OBVIOUS
<1>a. /\ clock \in Nat /\ \A n \in Node : lastUp[n] \in Nat /\ lastUp[n] <= clock
      /\ \A h \in Handler : Busy(h) => run[h].node \in Node /\ run[h].at \in Nat
    BY BusyRun DEF Typed
<1>0. CASE UNCHANGED vars
    BY <1>0 DEF RunsNow, Answered, Busy, Reachable, vars
<1>1. CASE Tick
  <2>1. \A n \in Node : up'[n] => lastUp'[n] = clock'
    BY <1>1 DEF Tick
  <2>2. ASSUME NEW h \in Handler, (Answered(h) /\ Reachable(h))'
        PROVE  run'[h].at <= lastUp'[run'[h].node] /\ clock' <= run'[h].at + Transit
    <3>1. /\ Answered(h) /\ Reachable(h) /\ Busy(h) /\ run'[h] = run[h]
          /\ clock < run[h].at + Transit /\ clock' = clock + 1
      BY <1>1, <2>2 DEF Tick, Idle, Answered, Busy, Reachable
    <3>2. run[h].at <= lastUp[run[h].node] /\ run[h].node \in Node /\ run[h].at \in Nat
      BY <1>a, <3>1 DEF RunsNow
    <3>3. lastUp[run[h].node] <= lastUp'[run[h].node]
      BY <3>2, LastUpGrows
    <3>4. lastUp'[run[h].node] \in Nat
      BY <3>2, TypedStep DEF Typed
    <3> QED
      BY <1>a, <3>1, <3>2, <3>3, <3>4, Times
  <2> QED
    BY <2>1, <2>2 DEF RunsNow
<1>2. ASSUME NEW n \in Node, PostLost(n) \/ PostEnds(n) PROVE RunsNow'
    BY <1>2 DEF PostLost, PostEnds, RunsNow, Answered, Busy, Reachable
<1>3. ASSUME NEW n \in Node, NodeStops(n) PROVE RunsNow'
    BY <1>3 DEF NodeStops, Typed, RunsNow, Answered, Busy, Reachable
<1>4. ASSUME NEW n \in Node, NodeStarts(n) PROVE RunsNow'
  <2>1. /\ clock' = clock /\ run' = run
        /\ \A m \in Node : lastUp[m] <= lastUp'[m] /\ lastUp'[m] \in Nat
    BY <1>4, <1>a DEF NodeStarts, Typed
  <2>2. \A m \in Node : up'[m] => lastUp'[m] = clock'
    BY <1>4 DEF NodeStarts, Typed, RunsNow
  <2>3. ASSUME NEW h \in Handler, Answered(h), Reachable(h)
        PROVE  run[h].at <= lastUp'[run[h].node] /\ clock <= run[h].at + Transit
    BY <1>a, <2>1, <2>3 DEF RunsNow, Answered
  <2> QED
    BY <2>1, <2>2, <2>3 DEF RunsNow, Answered, Busy, Reachable
<1>5. ASSUME NEW n \in Node, NEW h \in Handler, NEW w \in Worker, PostReaches(n, h, w)
      PROVE  RunsNow'
    BY <1>5 DEF PostReaches, Post, Typed, RunsNow, Answered, Busy, Reachable
<1>6. ASSUME NEW h \in Handler, GrpcPing(h) \/ HttpPing(h) PROVE RunsNow'
  <2>1. UNCHANGED <<clock, up, lastUp>> /\ Busy(h)
    BY <1>6 DEF GrpcPing, HttpPing
  <2>2. ASSUME NEW g \in Handler, g # h, (Answered(g) /\ Reachable(g))'
        PROVE  run'[g].at <= lastUp'[run'[g].node] /\ clock' <= run'[g].at + Transit
    BY <1>6, <2>1, <2>2, PingKeeps DEF RunsNow, Answered, Busy, Reachable
  <2>3. ASSUME (Answered(h) /\ Reachable(h))'
        PROVE  run'[h].at <= lastUp'[run'[h].node] /\ clock' <= run'[h].at + Transit
    <3>1. up[run[h].node] /\ run'[h].at = clock /\ run'[h].node = run[h].node
      BY <1>6, <2>3, PingStep DEF Reachable
    <3>2. lastUp[run[h].node] = clock
      BY <1>a, <2>1, <3>1 DEF RunsNow
    <3> QED
      BY <1>a, <2>1, <3>1, <3>2, Times
  <2> QED
    BY <2>1, <2>2, <2>3 DEF RunsNow
<1>7. ASSUME NEW h \in Handler, Release(h), UNCHANGED <<clock, up, lastUp>> PROVE RunsNow'
    BY <1>7 DEF Release, Free, Typed, RunsNow, Answered, Busy, Reachable
<1>8. ASSUME NEW w \in Worker, Prune(w) PROVE RunsNow'
    BY <1>8 DEF Prune, RunsNow, Answered, Busy, Reachable
<1>9. ASSUME NEW w \in Worker, WorkerRestarts(w) PROVE RunsNow'
    BY <1>9 DEF WorkerRestarts, Free, RunsNow, Answered, Busy, Reachable
<1> QED
    BY <1>0, <1>1, <1>2, <1>3, <1>4, <1>5, <1>6, <1>7, <1>8, <1>9
    DEF Next, Register, Refuse

(* What a step does to the entry of a node: it stays, with the time of the *)
(* last run of the job or a run that spares it, it goes, or a handler that *)
(* had both answers writes it.                                             *)
LEMMA EntryStep ==
    ASSUME Typed, [Next]_vars, NEW w \in Worker, NEW n \in Node
    PROVE  \/ nodes'[w][n] = nodes[w][n] /\ pruned'[w] = pruned[w]
           \/ /\ nodes'[w][n] = nodes[w][n] /\ pruned'[w] = clock /\ clock' = clock
              /\ Listed(w, n) => Active(nodes[w][n])
           \/ nodes'[w][n] = Absent
           \/ /\ nodes'[w][n] = clock /\ clock' = clock /\ pruned'[w] = pruned[w]
              /\ \E h \in Handler : Register(h) /\ run[h].worker = w /\ run[h].node = n
<1>1. CASE UNCHANGED <<nodes, pruned>>
    BY <1>1
<1>2. ASSUME NEW v \in Worker, Prune(v)
      PROVE  \/ nodes'[w][n] = nodes[w][n] /\ pruned'[w] = pruned[w]
             \/ /\ nodes'[w][n] = nodes[w][n] /\ pruned'[w] = clock /\ clock' = clock
                /\ Listed(w, n) => Active(nodes[w][n])
             \/ nodes'[w][n] = Absent
    BY <1>2 DEF Prune, Typed, Listed
<1>3. ASSUME NEW v \in Worker, WorkerRestarts(v)
      PROVE  \/ nodes'[w][n] = nodes[w][n] /\ pruned'[w] = pruned[w]
             \/ nodes'[w][n] = Absent
    BY <1>3 DEF WorkerRestarts, Typed
<1>4. ASSUME NEW h \in Handler, Register(h)
      PROVE  \/ nodes'[w][n] = nodes[w][n] /\ pruned'[w] = pruned[w]
             \/ /\ nodes'[w][n] = clock /\ clock' = clock /\ pruned'[w] = pruned[w]
                /\ run[h].worker = w /\ run[h].node = n
  <2>1. run[h].worker \in Worker /\ run[h].node \in Node
    BY <1>4, BusyRun DEF Register, Answered, Typed
  <2> QED
    BY <1>4, <2>1 DEF Register, Add, Timestamp, Typed
<1> QED
    BY <1>1, <1>2, <1>3, <1>4 DEF Next, vars, Tick, PostLost, PostEnds, NodeStops,
       NodeStarts, PostReaches, GrpcPing, HttpPing, Refuse

LEMMA EntriesFreshStep == Typed /\ RunsNow /\ EntriesFresh /\ [Next]_vars => EntriesFresh'
<1> SUFFICES ASSUME Typed, RunsNow, EntriesFresh, [Next]_vars,
                    NEW w \in Worker, NEW n \in Node, Listed(w, n)'
             PROVE  /\ nodes'[w][n] <= lastUp'[n] + Transit
                    /\ pruned'[w] <= nodes'[w][n] + Timeout
    BY DEF EntriesFresh
<1>1. /\ clock \in Nat /\ lastUp[n] \in Nat /\ lastUp'[n] \in Nat
      /\ nodes[w][n] \in Int /\ pruned[w] \in Nat /\ pruned[w] <= clock
      /\ lastUp[n] <= lastUp'[n]
    BY TypedStep, LastUpGrows DEF Typed
<1>2. ASSUME nodes'[w][n] = nodes[w][n]
      PROVE  /\ nodes[w][n] <= lastUp[n] + Transit /\ pruned[w] <= nodes[w][n] + Timeout
             /\ Listed(w, n)
    BY <1>2 DEF Listed, EntriesFresh
<1>3. CASE nodes'[w][n] = nodes[w][n] /\ pruned'[w] = pruned[w]
    BY <1>1, <1>2, <1>3, Times
<1>4. CASE /\ nodes'[w][n] = nodes[w][n] /\ pruned'[w] = clock
           /\ Listed(w, n) => Active(nodes[w][n])
    BY <1>1, <1>2, <1>4, Times DEF Active
<1>5. ASSUME nodes'[w][n] = clock, clock' = clock, pruned'[w] = pruned[w],
             NEW h \in Handler, Register(h), run[h].node = n
      PROVE  nodes'[w][n] <= lastUp'[n] + Transit /\ pruned'[w] <= nodes'[w][n] + Timeout
  <2>1. run[h].at <= lastUp[n] /\ clock <= run[h].at + Transit /\ run[h].at \in Nat
    BY <1>5, BusyRun DEF Register, RunsNow, Answered, Typed
  <2> QED
    BY <1>1, <1>5, <2>1, Times
<1> QED
    BY <1>3, <1>4, <1>5, EntryStep DEF Listed

(* Whatever the interleaving of heartbeats, pings, crashes and jobs, and   *)
(* however long a ping takes, a node that GET /node may choose has run in  *)
(* the last Transit + Timeout + Period + Lag seconds.                      *)
THEOREM ListedNodesRanLately == Spec => []ListedRanLately
<1>1. Init => Typed /\ Punctual /\ RunsNow /\ EntriesFresh
  <2>1. Init => RunsNow /\ EntriesFresh
    BY DEF Init, RunsNow, EntriesFresh, Answered, Busy, Free, Listed, Absent
  <2> QED
    BY <2>1, InitTyped, TypeParts
<1>2. Typed /\ Punctual /\ RunsNow /\ EntriesFresh => ListedRanLately
  <2> SUFFICES ASSUME Typed, Punctual, EntriesFresh, NEW w \in Worker, NEW n \in Node,
                      Listed(w, n)
               PROVE  clock <= lastUp[n] + Transit + Timeout + Period + Lag
    BY DEF ListedRanLately
  <2>1. /\ clock \in Nat /\ lastUp[n] \in Nat /\ nodes[w][n] \in Int /\ pruned[w] \in Nat
        /\ nodes[w][n] <= lastUp[n] + Transit /\ pruned[w] <= nodes[w][n] + Timeout
        /\ clock <= pruned[w] + Period + Lag
    BY DEF Typed, Punctual, EntriesFresh
  <2> QED
    BY <2>1, Times
<1> QED
    BY <1>1, <1>2, TypedStep, PunctualStep, RunsNowStep, EntriesFreshStep, PTL DEF Spec

-----------------------------------------------------------------------------
(* Heartbeats keep a node listed *)

(* The time k heartbeats and the sleeps after them take at most.           *)
Spell(k) == k * (ReplyWithin + Interval)

LEMMA Spells ==
    /\ \A k \in Nat : /\ Spell(k) \in Nat
                      /\ Spell(k + 1) = Spell(k) + ReplyWithin + Interval
    /\ \A k \in 0 .. Misses : Spell(k + 1) <= Timeout
<1>1. \A k \in Nat, p \in Nat : k * p \in Nat /\ (k + 1) * p = k * p + p
    BY Z3
<1>2. \A m \in Nat, p \in Nat : \A k \in 0 .. m : (k + 1) * p <= (m + 1) * p
    BY Z3
<1>3. ReplyWithin + Interval \in Nat /\ Misses \in Nat
    BY Times
<1>4. \A k \in Nat : /\ Spell(k) \in Nat
                    /\ Spell(k + 1) = Spell(k) + (ReplyWithin + Interval)
    BY <1>1, <1>3 DEF Spell
<1>5. \A k \in 0 .. Misses : Spell(k + 1) <= Spell(Misses + 1)
    BY <1>2, <1>3 DEF Spell
<1>6. Spell(Misses + 1) <= Timeout
    BY TimeoutAssumption DEF Spell
<1>7. \A k \in 0 .. Misses : k \in Nat /\ k + 1 \in Nat
    BY <1>3
<1>8. \A x, y, z \in Nat : x <= y /\ y <= z => x <= z
    OBVIOUS
<1>9. Misses + 1 \in Nat
    BY <1>3
<1>10. \A k \in 0 .. Misses : Spell(k + 1) <= Timeout
    BY <1>4, <1>5, <1>6, <1>7, <1>8, <1>9, Times
<1>11. \A x \in Nat : x + (ReplyWithin + Interval) = x + ReplyWithin + Interval
    BY Times
<1> QED
    BY <1>4, <1>10, <1>11

(* The heartbeat loop of a node that runs is on time. *)
OnTime ==
    \A n \in Node :
        /\ beat[n].pc = "wait" => /\ up[n]
                                 /\ beat[n].at <= clock
                                 /\ clock <= beat[n].at + ReplyWithin
        /\ beat[n].pc = "sleep" /\ up[n] => clock <= beat[n].at
        /\ beat[n].by # NoHandler => beat[n].pc = "wait"

(* What a loop owes to a worker that has missed k of its heartbeats: how   *)
(* long after the entry was written the loop does what it does next.       *)
KeptAt(w, n) ==
    missed[w][n] <= Misses =>
        /\ up[n]
        /\ Listed(w, n)
        /\ beat[n].pc = "sleep" => beat[n].at <= nodes[w][n] + Spell(missed[w][n] + 1)
        /\ beat[n].pc = "wait" => beat[n].at <= nodes[w][n] + Spell(missed[w][n])

Kept == \A w \in Worker, n \in Node : KeptAt(w, n)

LEMMA OnTimeStep == Typed /\ OnTime /\ [Next]_vars => OnTime'
<1> SUFFICES ASSUME Typed, OnTime, [Next]_vars PROVE OnTime'
    OBVIOUS
<1> USE Times
<1>a. \A n \in Node : beat[n] \in Beats /\ beat[n].at \in Nat /\ beat[n].pc \in {"sleep", "wait"}
    BY DEF Typed, Beats
<1>b. clock \in Nat
    BY DEF Typed
<1>0. CASE UNCHANGED vars
    BY <1>0 DEF OnTime, vars
<1>1. CASE Tick
    BY <1>1, <1>a, <1>b DEF Tick, Idle, OnTime
<1>2. ASSUME NEW n \in Node, NEW h \in Handler \cup {NoHandler}, Post(n, h),
             UNCHANGED <<clock, up>>
      PROVE  OnTime'
    BY <1>2, <1>a, <1>b DEF Post, Typed, OnTime
<1>3. ASSUME NEW n \in Node, PostEnds(n) PROVE OnTime'
    BY <1>3, <1>a, <1>b DEF PostEnds, Sleep, Typed, OnTime
<1>4. ASSUME NEW n \in Node, NodeStops(n) PROVE OnTime'
    BY <1>4, <1>a, <1>b DEF NodeStops, Sleep, Typed, OnTime
<1>5. ASSUME NEW n \in Node, NodeStarts(n) PROVE OnTime'
    BY <1>5, <1>a, <1>b DEF NodeStarts, Sleep, Typed, OnTime
<1>6. ASSUME NEW h \in Handler, GrpcPing(h) \/ HttpPing(h) PROVE OnTime'
    BY <1>6 DEF GrpcPing, HttpPing, OnTime
<1>7. ASSUME NEW h \in Handler, Release(h), UNCHANGED <<clock, up>> PROVE OnTime'
    BY <1>7, <1>a DEF Release, OnTime, Beats
<1>8. ASSUME NEW w \in Worker, Prune(w) PROVE OnTime'
    BY <1>8 DEF Prune, OnTime
<1>9. ASSUME NEW w \in Worker, WorkerRestarts(w) PROVE OnTime'
    BY <1>9, <1>a DEF WorkerRestarts, OnTime, Beats
<1> QED
    BY <1>0, <1>1, <1>2, <1>3, <1>4, <1>5, <1>6, <1>7, <1>8, <1>9
    DEF Next, PostLost, PostReaches, Register, Refuse

LEMMA Ranges ==
    ASSUME Typed, NEW w \in Worker, NEW n \in Node
    PROVE  /\ clock \in Nat /\ nodes[w][n] \in Int /\ nodes[w][n] <= clock
           /\ missed[w][n] \in Nat /\ beat[n].at \in Nat /\ beat[n] \in Beats
           /\ beat[n].pc \in {"sleep", "wait"}
BY DEF Typed, Beats, Many

(* Now is early enough: the job would spare the entry, and a heartbeat     *)
(* sent now would be within the next spell.                                *)
LEMMA InTime ==
    ASSUME Typed, OnTime, Kept, NEW w \in Worker, NEW n \in Node, missed[w][n] <= Misses
    PROVE  /\ beat[n].pc = "sleep" => clock <= nodes[w][n] + Spell(missed[w][n] + 1)
           /\ clock <= nodes[w][n] + Spell(missed[w][n]) + ReplyWithin + Interval
           /\ beat[n].pc = "wait" => clock + Interval <= nodes[w][n] + Spell(missed[w][n] + 1)
           /\ clock <= nodes[w][n] + Timeout
           /\ Listed(w, n)
<1> DEFINE k == missed[w][n]
<1>1. /\ Spell(k) \in Nat /\ Spell(k + 1) = Spell(k) + ReplyWithin + Interval
      /\ Spell(k + 1) <= Timeout
    BY Spells, Ranges, Times
<1>2. /\ beat[n].pc = "sleep" => clock <= beat[n].at
      /\ beat[n].pc = "wait" => clock <= beat[n].at + ReplyWithin
      /\ beat[n].pc = "sleep" => beat[n].at <= nodes[w][n] + Spell(k + 1)
      /\ beat[n].pc = "wait" => beat[n].at <= nodes[w][n] + Spell(k)
      /\ Listed(w, n)
    BY DEF OnTime, Kept, KeptAt
<1> QED
    BY <1>1, <1>2, Ranges, Times

LEMMA KeptFrame ==
    ASSUME Typed, NEW w \in Worker, NEW n \in Node, KeptAt(w, n),
           missed'[w][n] = missed[w][n], up'[n] = up[n],
           beat'[n].pc = beat[n].pc, beat'[n].at = beat[n].at,
           \/ nodes'[w][n] = nodes[w][n]
           \/ nodes'[w][n] = clock
    PROVE  KeptAt(w, n)'
<1>1. missed[w][n] <= Misses => /\ Spell(missed[w][n]) \in Nat
                                /\ Spell(missed[w][n] + 1) \in Nat
    BY Spells, Ranges
<1>2. Absent = -1 /\ clock # -1 /\ nodes[w][n] <= nodes'[w][n]
    BY Ranges DEF Absent
<1> QED
    BY <1>1, <1>2, Ranges DEF KeptAt, Listed

LEMMA KeptStep == Typed /\ OnTime /\ Kept /\ [Next]_vars => Kept'
<1> SUFFICES ASSUME Typed, OnTime, Kept, [Next]_vars, NEW w \in Worker, NEW n \in Node
             PROVE  KeptAt(w, n)'
    BY DEF Kept
<1>a. KeptAt(w, n)
    BY DEF Kept
<1>0. CASE UNCHANGED <<up, beat, nodes, missed>>
    BY <1>0, <1>a, KeptFrame
<1>1. ASSUME NEW m \in Node, NEW h \in Handler \cup {NoHandler}, Post(m, h),
             UNCHANGED <<clock, up, nodes>>
      PROVE  KeptAt(w, n)'
  <2>1. CASE m # n
    <3>1. missed'[w][n] = missed[w][n] /\ beat'[n] = beat[n]
      BY <1>1, <2>1 DEF Post, Typed
    <3> QED
      BY <1>1, <1>a, <3>1, KeptFrame
  <2>2. CASE m = n
    <3>1. /\ missed'[w][n] = IF missed[w][n] < Many THEN missed[w][n] + 1 ELSE Many
          /\ beat'[n].pc = "wait" /\ beat'[n].at = clock
          /\ up'[n] /\ beat[n].pc = "sleep" /\ nodes'[w][n] = nodes[w][n]
      BY <1>1, <2>2 DEF Post, Typed
    <3>2. ASSUME missed'[w][n] <= Misses
          PROVE  missed'[w][n] = missed[w][n] + 1 /\ missed[w][n] <= Misses
      BY <3>1, <3>2, Ranges, Times DEF Many
    <3> QED
      BY <3>1, <3>2, InTime DEF KeptAt, Listed
  <2> QED
    BY <2>1, <2>2
<1>2. ASSUME NEW m \in Node, PostEnds(m) PROVE KeptAt(w, n)'
  <2>1. CASE m # n
    <3>1. beat'[n] = beat[n]
      BY <1>2, <2>1 DEF PostEnds, Typed
    <3> QED
      BY <1>2, <1>a, <3>1, KeptFrame DEF PostEnds
  <2>2. CASE m = n
    <3>1. /\ missed' = missed /\ nodes' = nodes /\ up' = up /\ up[n]
          /\ beat'[n].pc = "sleep" /\ beat'[n].at = clock + Interval
          /\ beat[n].pc = "wait"
      BY <1>2, <2>2 DEF PostEnds, Sleep, Typed
    <3> QED
      BY <3>1, InTime DEF KeptAt, Listed
  <2> QED
    BY <2>1, <2>2
<1>3. ASSUME NEW m \in Node, NodeStops(m) PROVE KeptAt(w, n)'
  <2>1. CASE m # n
    <3>1. missed'[w][n] = missed[w][n] /\ beat'[n] = beat[n] /\ up'[n] = up[n] /\ nodes' = nodes
      BY <1>3, <2>1 DEF NodeStops, Typed
    <3> QED
      BY <1>a, <3>1, KeptFrame
  <2>2. CASE m = n
    <3>1. missed'[w][n] = Many
      BY <1>3, <2>2 DEF NodeStops, Typed
    <3> QED
      BY <3>1, Times DEF KeptAt, Many
  <2> QED
    BY <2>1, <2>2
<1>4. ASSUME NEW m \in Node, NodeStarts(m) PROVE KeptAt(w, n)'
  <2>1. CASE m # n
    <3>1. missed' = missed /\ beat'[n] = beat[n] /\ up'[n] = up[n] /\ nodes' = nodes
      BY <1>4, <2>1 DEF NodeStarts, Typed
    <3> QED
      BY <1>a, <3>1, KeptFrame
  <2>2. CASE m = n
    BY <1>4, <1>a, <2>2 DEF NodeStarts, KeptAt
  <2> QED
    BY <2>1, <2>2
<1>5. ASSUME NEW h \in Handler, Register(h) PROVE KeptAt(w, n)'
  <2> DEFINE v == run[h].worker
             m == run[h].node
  <2>1. v \in Worker /\ m \in Node
    BY <1>5, BusyRun DEF Register, Answered, Typed
  <2>2. beat'[n].pc = beat[n].pc /\ beat'[n].at = beat[n].at /\ up' = up /\ clock' = clock
    BY <1>5, Ranges DEF Register, Release, Beats
  <2>3. nodes'[w][n] = IF w = v /\ n = m THEN clock ELSE nodes[w][n]
    BY <1>5, <2>1 DEF Register, Add, Timestamp, Typed
  <2>4. CASE missed'[w][n] = missed[w][n]
    BY <1>a, <2>2, <2>3, <2>4, KeptFrame
  <2>5. CASE missed'[w][n] # missed[w][n]
    <3>1. w = v /\ n = m /\ missed'[w][n] = 0 /\ beat[n].by = h
      BY <1>5, <2>1, <2>5 DEF Register, Typed
    <3>2. beat[n].pc = "wait" /\ up[n] /\ beat[n].at <= clock
      BY <3>1, NoHandlerAssumption DEF OnTime
    <3>3. Listed(w, n)'
      BY <2>3, <3>1, Ranges DEF Listed, Absent
    <3>4. Spell(0) \in Nat
      BY Spells
    <3> QED
      BY <2>2, <2>3, <3>1, <3>2, <3>3, <3>4, Ranges DEF KeptAt
  <2> QED
    BY <2>4, <2>5
<1>6. ASSUME NEW h \in Handler, Refuse(h) PROVE KeptAt(w, n)'
  <2>1. beat'[n].pc = beat[n].pc /\ beat'[n].at = beat[n].at
    BY <1>6, Ranges DEF Refuse, Release, Beats
  <2> QED
    BY <1>6, <1>a, <2>1, KeptFrame DEF Refuse
<1>7. ASSUME NEW v \in Worker, Prune(v) PROVE KeptAt(w, n)'
  <2>1. CASE missed[w][n] <= Misses
    <3>1. Active(nodes[w][n])
      BY <2>1, InTime, Ranges, Times DEF Active
    <3>2. nodes'[w][n] = nodes[w][n]
      BY <1>7, <3>1 DEF Prune, Typed
    <3> QED
      BY <1>7, <1>a, <3>2, KeptFrame DEF Prune
  <2>2. CASE ~(missed[w][n] <= Misses)
    BY <1>7, <2>2 DEF Prune, KeptAt
  <2> QED
    BY <2>1, <2>2
<1>8. ASSUME NEW v \in Worker, WorkerRestarts(v) PROVE KeptAt(w, n)'
  <2>1. CASE w = v
    <3>1. missed'[w][n] = Many
      BY <1>8, <2>1 DEF WorkerRestarts, Typed
    <3> QED
      BY <3>1, Times DEF KeptAt, Many
  <2>2. CASE w # v
    <3>1. /\ missed'[w][n] = missed[w][n] /\ nodes'[w][n] = nodes[w][n] /\ up' = up
          /\ beat'[n].pc = beat[n].pc /\ beat'[n].at = beat[n].at
      BY <1>8, <2>2, Ranges DEF WorkerRestarts, Typed, Beats
    <3> QED
      BY <1>a, <3>1, KeptFrame
  <2> QED
    BY <2>1, <2>2
<1> QED
    BY <1>0, <1>1, <1>2, <1>3, <1>4, <1>5, <1>6, <1>7, <1>8
    DEF Next, vars, Tick, PostLost, PostReaches, GrpcPing, HttpPing

(* Slow handlers, lost heartbeats, restarts and the job never make a       *)
(* worker drop a node that runs and one of whose last Misses + 1           *)
(* heartbeats it has accepted.                                             *)
THEOREM AcceptedNodesStay == Spec => []HeartbeatsKeepListed
<1>1. Init => Typed /\ OnTime /\ Kept
  <2>1. Init => OnTime
    <3> SUFFICES ASSUME Init, NEW n \in Node
                 PROVE  /\ beat[n].pc = "sleep" /\ clock <= beat[n].at
                        /\ beat[n].by = NoHandler
      BY DEF OnTime
    <3>1. beat[n] = Sleep(0) /\ clock = 0
      BY DEF Init
    <3> QED
      BY <3>1 DEF Sleep
  <2>2. Init => Kept
    BY Times DEF Init, Kept, KeptAt, Many
  <2> QED
    BY <2>1, <2>2, InitTyped, TypeParts
<1>2. Kept => HeartbeatsKeepListed
    BY DEF Kept, KeptAt, HeartbeatsKeepListed
<1> QED
    BY <1>1, <1>2, TypedStep, OnTimeStep, KeptStep, PTL DEF Spec
=============================================================================
