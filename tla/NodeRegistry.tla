---------------------------- MODULE NodeRegistry ----------------------------
(***************************************************************************)
(* The hub's lists of nodes: the heartbeats of the nodes, the handler of   *)
(* POST /node that pings a node before it lists it, and the job that drops *)
(* the nodes not heard of.  Every worker process of the hub has a list,    *)
(* handlers and a job of its own; a heartbeat reaches any of them.         *)
(*                                                                         *)
(* Time is a clock in seconds (timestamps are int(now)).  What a timer     *)
(* starts happens while the clock shows the time it is due; the job alone  *)
(* may be late, by at most Lag.  A node is a pair of addresses, which is   *)
(* the key of NodeList.nodes.                                              *)
(***************************************************************************)
EXTENDS Integers

CONSTANTS
    Node,         \* nodes, each a pair of gRPC and HTTP address
    Worker,       \* worker processes of the hub
    Handler,      \* runs of hub_post_node that may be under way at a time
    NoHandler,    \* not a run of hub_post_node
    Interval,     \* seconds between the end of a heartbeat and the next
    ReplyWithin,  \* seconds after which a node gives up on a heartbeat
    Transit,      \* seconds an answer of a node to a ping may be under way
    Timeout,      \* NodeList.timeout as the job sets it
    Period,       \* seconds between two runs of the job
    Lag,          \* by how much the job may be late
    Misses,       \* heartbeats a worker may miss in a row (properties only)
    MaxClock      \* bound of the clock

ASSUME TimesAssumption ==
    /\ {Interval, ReplyWithin, Transit, Timeout, Period, Lag, Misses, MaxClock} \subseteq Nat
    /\ Period > 0

(* The timeout covers Misses heartbeats that fail and one that succeeds.   *)
ASSUME TimeoutAssumption == (Misses + 1) * (ReplyWithin + Interval) <= Timeout

ASSUME NoHandlerAssumption == NoHandler \notin Handler

VARIABLES
    clock,
    up,       \* node |-> does its process run?
    lastUp,   \* node |-> the last second in which it ran (history)
    beat,     \* node |-> its heartbeat loop
    run,      \* handler |-> the run of hub_post_node
    nodes,    \* worker |-> NodeList().nodes: node |-> timestamp
    pruned,   \* worker |-> when its job ran last
    missed    \* worker |-> node |-> heartbeats sent since the worker accepted
              \* one, up to Misses + 1 (history)

vars == <<clock, up, lastUp, beat, run, nodes, pruned, missed>>

Absent == -1   \* the "timestamp" of a node that is not in a list

Many == Misses + 1

(* A heartbeat loop sleeps until "at", or waits for the answer to what it  *)
(* sent at "at", which "by" works on.                                      *)
Beats == [pc : {"sleep", "wait"}, at : Nat, by : Handler \cup {NoHandler}]

Sleep(t) == [pc |-> "sleep", at |-> t, by |-> NoHandler]

(* A ping waits for its node, or the node has answered it, or it fails.    *)
Pings == {"sent", "ok", "failed"}

Free == [pc |-> "free"]

(* A handler of which the node has answered both pings, the later at       *)
(* "at": the answers may still be under way.                               *)
Runs == {Free} \cup [pc : {"ping"}, node : Node, worker : Worker,
                     grpc : Pings, http : Pings, at : Nat]

Busy(h) == run[h].pc = "ping"

(* Both pings of asyncio.gather are answered or have failed. *)
Answered(h) == Busy(h) /\ run[h].grpc # "sent" /\ run[h].http # "sent"

(* Mutant of Reachable: one of the two pings will do. *)
ReachableByOne(h) == run[h].grpc = "ok" \/ run[h].http = "ok"

Reachable(h) == run[h].grpc = "ok" /\ run[h].http = "ok"

Listed(w, n) == nodes[w][n] # Absent

-----------------------------------------------------------------------------
Init ==
    /\ clock = 0
    /\ up = [n \in Node |-> TRUE]
    /\ lastUp = [n \in Node |-> 0]
    /\ beat = [n \in Node |-> Sleep(0)]
    /\ run = [h \in Handler |-> Free]
    /\ nodes = [w \in Worker |-> [n \in Node |-> Absent]]
    /\ pruned = [w \in Worker |-> 0]
    /\ missed = [w \in Worker |-> [n \in Node |-> Many]]

(* Nothing has to happen before the next second. *)
Idle ==
    /\ \A n \in Node : up[n] =>
          clock < beat[n].at + (IF beat[n].pc = "wait" THEN ReplyWithin ELSE 0)
    /\ \A w \in Worker : clock < pruned[w] + Period + Lag
    /\ \A h \in Handler : Answered(h) => Reachable(h) /\ clock < run[h].at + Transit

Tick ==
    /\ clock < MaxClock
    /\ Idle
    /\ clock' = clock + 1
    /\ lastUp' = [n \in Node |-> IF up[n] THEN clock + 1 ELSE lastUp[n]]
    /\ UNCHANGED <<up, beat, run, nodes, pruned, missed>>

-----------------------------------------------------------------------------
(* The node: send_heartbeat *)

(* Session.post.  Handler h is NoHandler when the request is lost or the   *)
(* hub refuses it before it pings the node (token, keys, addresses).       *)
Post(n, h) ==
    /\ up[n]
    /\ beat[n].pc = "sleep"
    /\ beat[n].at <= clock
    /\ beat' = [beat EXCEPT ![n] = [pc |-> "wait", at |-> clock, by |-> h]]
    /\ missed' = [w \in Worker |->
                    [missed[w] EXCEPT ![n] = IF @ < Many THEN @ + 1 ELSE Many]]

PostLost(n) ==
    /\ Post(n, NoHandler)
    /\ UNCHANGED <<clock, up, lastUp, run, nodes, pruned>>

(* The request reaches worker w, passes its checks, and both pings start.  *)
PostReaches(n, h, w) ==
    /\ run[h] = Free
    /\ Post(n, h)
    /\ run' = [run EXCEPT ![h] = [pc |-> "ping", node |-> n, worker |-> w,
                                  grpc |-> "sent", http |-> "sent", at |-> 0]]
    /\ UNCHANGED <<clock, up, lastUp, nodes, pruned>>

(* The node has its answer, of whatever status, or an error, or gives up.  *)
(* The handler of the hub knows nothing of it.                             *)
PostEnds(n) ==
    /\ up[n]
    /\ beat[n].pc = "wait"
    /\ beat' = [beat EXCEPT ![n] = Sleep(clock + Interval)]
    /\ UNCHANGED <<clock, up, lastUp, run, nodes, pruned, missed>>

NodeStops(n) ==
    /\ up[n]
    /\ up' = [up EXCEPT ![n] = FALSE]
    /\ beat' = [beat EXCEPT ![n] = Sleep(0)]
    /\ missed' = [w \in Worker |-> [missed[w] EXCEPT ![n] = Many]]
    /\ UNCHANGED <<clock, lastUp, run, nodes, pruned>>

NodeStarts(n) ==
    /\ ~up[n]
    /\ up' = [up EXCEPT ![n] = TRUE]
    /\ lastUp' = [lastUp EXCEPT ![n] = clock]
    /\ beat' = [beat EXCEPT ![n] = Sleep(clock)]
    /\ UNCHANGED <<clock, run, nodes, pruned, missed>>

-----------------------------------------------------------------------------
(* The hub: hub_post_node after its checks *)

(* A node answers only while it runs, but may stop while its answer is     *)
(* under way.  A ping may fail at any time, after an answer too; it may    *)
(* have no timeout at all.                                                 *)
PingResults(n) == IF up[n] THEN {"ok", "failed"} ELSE {"failed"}

(* The second in which the node has given both answers is kept.            *)
Settled(r) == [r EXCEPT !.at = IF r.grpc = "ok" /\ r.http = "ok" THEN clock ELSE 0]

GrpcPing(h) ==
    /\ Busy(h) /\ run[h].grpc = "sent"
    /\ \E result \in PingResults(run[h].node) :
          run' = [run EXCEPT ![h] = Settled([@ EXCEPT !.grpc = result])]
    /\ UNCHANGED <<clock, up, lastUp, beat, nodes, pruned, missed>>

HttpPing(h) ==
    /\ Busy(h) /\ run[h].http = "sent"
    /\ \E result \in PingResults(run[h].node) :
          run' = [run EXCEPT ![h] = Settled([@ EXCEPT !.http = result])]
    /\ UNCHANGED <<clock, up, lastUp, beat, nodes, pruned, missed>>

(* Mutant of Timestamp: the time at which the entry expires. *)
ExpiryTime == clock + Timeout

(* int(datetime.now().timestamp()) in NodeList.add *)
Timestamp == clock

Add(w, n) == nodes' = [nodes EXCEPT ![w] = [@ EXCEPT ![n] = Timestamp]]

(* The answer goes back to a heartbeat that still waits for handler h.     *)
Release(h) ==
    /\ run' = [run EXCEPT ![h] = Free]
    /\ beat' = [n \in Node |-> IF beat[n].by = h THEN [beat[n] EXCEPT !.by = NoHandler]
                                                 ELSE beat[n]]

(* Both answers arrive, within Transit seconds, and asyncio.gather         *)
(* returns; the node is listed and the answer is 200 ...                   *)
Register(h) ==
    LET w == run[h].worker
        n == run[h].node
    IN  /\ Answered(h)
        /\ Reachable(h)
        /\ Add(w, n)
        /\ Release(h)
        /\ missed' = IF beat[n].by = h THEN [missed EXCEPT ![w] = [@ EXCEPT ![n] = 0]]
                                       ELSE missed
        /\ UNCHANGED <<clock, up, lastUp, pruned>>

(* ... or 400, without a change.                                           *)
Refuse(h) ==
    /\ Answered(h)
    /\ ~Reachable(h)
    /\ Release(h)
    /\ UNCHANGED <<clock, up, lastUp, nodes, pruned, missed>>

-----------------------------------------------------------------------------
(* The job update_node_list *)

(* Mutant of Active: the comparison is strict. *)
ActiveStrictly(t) == clock - t < Timeout

(* remove_inactive_nodes keeps these. *)
Active(t) == clock - t <= Timeout

Prune(w) ==
    /\ clock >= pruned[w] + Period
    /\ nodes' = [nodes EXCEPT ![w] = [n \in Node |-> IF Active(nodes[w][n]) THEN nodes[w][n]
                                                                          ELSE Absent]]
    /\ pruned' = [pruned EXCEPT ![w] = clock]
    /\ UNCHANGED <<clock, up, lastUp, beat, run, missed>>

(* A worker stops and another takes its place: an empty list, and the job  *)
(* runs at once.                                                           *)
WorkerRestarts(w) ==
    LET lost == {h \in Handler : Busy(h) /\ run[h].worker = w}
    IN  /\ nodes' = [nodes EXCEPT ![w] = [n \in Node |-> Absent]]
        /\ pruned' = [pruned EXCEPT ![w] = clock]
        /\ run' = [h \in Handler |-> IF h \in lost THEN Free ELSE run[h]]
        /\ beat' = [n \in Node |-> IF beat[n].by \in lost THEN [beat[n] EXCEPT !.by = NoHandler]
                                                          ELSE beat[n]]
        /\ missed' = [missed EXCEPT ![w] = [n \in Node |-> Many]]
        /\ UNCHANGED <<clock, up, lastUp>>

-----------------------------------------------------------------------------
Next ==
    \/ Tick
    \/ \E n \in Node : PostLost(n) \/ PostEnds(n) \/ NodeStops(n) \/ NodeStarts(n)
    \/ \E n \in Node, h \in Handler, w \in Worker : PostReaches(n, h, w)
    \/ \E h \in Handler : GrpcPing(h) \/ HttpPing(h) \/ Register(h) \/ Refuse(h)
    \/ \E w \in Worker : Prune(w) \/ WorkerRestarts(w)

Spec == Init /\ [][Next]_vars

-----------------------------------------------------------------------------
(* A timestamp is a second that has begun, a handler works for at most one *)
(* heartbeat, and the job is never later than Lag.                         *)
TypeOK ==
    /\ clock \in Nat
    /\ up \in [Node -> BOOLEAN]
    /\ lastUp \in [Node -> 0 .. clock]
    /\ beat \in [Node -> Beats]
    /\ run \in [Handler -> Runs]
    /\ nodes \in [Worker -> [Node -> -1 .. clock]]
    /\ pruned \in [Worker -> 0 .. clock]
    /\ missed \in [Worker -> [Node -> 0 .. Many]]
    /\ \A n \in Node : beat[n].by # NoHandler =>
          Busy(beat[n].by) /\ run[beat[n].by].node = n
    /\ \A w \in Worker : clock <= pruned[w] + Period + Lag

(* hub_post_node lists a node after both of its pings have answered, which *)
(* may be long after either was sent, and possibly after the node has      *)
(* stopped with its answers under way: still, no list holds a node that    *)
(* has not run for Timeout plus the time between two runs of the job and   *)
(* the time an answer takes.  GET /node chooses among these.               *)
ListedRanLately ==
    \A w \in Worker, n \in Node :
        Listed(w, n) => clock <= lastUp[n] + Transit + Timeout + Period + Lag

(* A node that runs stays in the list of a worker that has accepted one of *)
(* its last Misses + 1 heartbeats, the one under way included, however     *)
(* heartbeats, slow handlers and the job interleave.  Heartbeats that      *)
(* another worker takes count as missed.                                   *)
HeartbeatsKeepListed ==
    \A w \in Worker, n \in Node : missed[w][n] <= Misses => Listed(w, n)
=============================================================================
