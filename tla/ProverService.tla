--------------------------- MODULE ProverService ---------------------------
(***************************************************************************)
(* The Go services that make the proofs: circom-prover (src_gpu, src_cpu)  *)
(* and gnark-prover.  gRPC runs every call in a goroutine of its own; the  *)
(* calls share two kinds of atomic counters, runningProveTasks and, in     *)
(* circom-prover on GPUs, the TaskCount of each device, and getDevice      *)
(* looks for the device with the fewest tasks by loading one counter       *)
(* after the other while the other calls change them.                      *)
(*                                                                         *)
(* A call that was counted runs through the stages of its method.  Each    *)
(* stage goes on to the next one or ends the call with a code of its own.  *)
(* The deferred decrements run last in, first out.  A failed type          *)
(* assertion, an index out of range or log.Fatal ends the whole process,   *)
(* with every call in it; the next process starts from zero.               *)
(***************************************************************************)
EXTENDS Integers, Sequences, FiniteSets

CONSTANTS
    Call,       \* calls made to the service
    Device,     \* the devices of the host
    Circuit,    \* the circuits that calls name
    Restricted, \* circuits 10007 and 10008, whose JWT must be of one issuer
    None        \* no device, no method, no answer

ASSUME ServiceAssumption ==
    /\ IsFiniteSet(Call)
    /\ None \notin Device
    /\ Restricted \subseteq Circuit

VARIABLES
    build,      \* which of the services runs
    up,         \* whether it runs
    circuits,   \* the circuits loadAllCircuits loaded
    devices,    \* the devices loadDevice found
    running,    \* runningProveTasks
    taskCount,  \* DeviceInfo.TaskCount
    pc,         \* what each call does
    method,     \* the method each call calls
    circuit,    \* the circuit each call names
    scanned,    \* the devices whose counter its getDevice has loaded
    device,     \* selectedIndex of its getDevice, or None
    least,      \* minTasks of its getDevice
    todo,       \* the stages each call still has to run
    answer,     \* the code of its response
    drift       \* history: changes of the counters since its getDevice began

process == <<build, up, circuits, devices>>
choice  == <<scanned, device, least, drift>>
asked   == <<method, circuit>>
vars == <<process, running, taskCount, pc, asked, choice, todo, answer>>

Methods == [circom_gpu |-> {"ProveV2", "ProveNosha256", "ProveNosha256Offchain", "ProveNosha256WithWitness"},
            circom_cpu |-> {"ProveV2", "ProveNosha256", "ProveNosha256Offchain", "ProveNosha256WithWitness"},
            gnark      |-> {"ProveBinanceOffchain", "ProveTigaOffchain", "ProveMerkleOffchain"}]

Method == Methods.circom_gpu \cup Methods.gnark

(* The methods that choose a device and count their task on it. *)
UsesDevice(m) ==
    /\ build = "circom_gpu"
    /\ m \in {"ProveV2", "ProveNosha256", "ProveNosha256Offchain"}

MaxTasks == 2147483647

-----------------------------------------------------------------------------
(* The stages of a method and the codes they fail with. *)

Claims(m, k) ==
    IF m \in {"ProveV2", "ProveNosha256Offchain"} /\ k \in Restricted THEN <<"claims">> ELSE <<>>

Public(m) == IF m \in {"ProveV2", "ProveNosha256"} THEN <<"public">> ELSE <<>>

CircomStages(m, k) ==
    <<"json", "segments">> \o Claims(m, k) \o <<"sha", "match", "save", "witness", "secret">>
       \o Public(m) \o <<"prove", "export">>

GnarkStages == <<"json", "secret", "prove", "export">>

Stages(m, k) == IF m \in Methods.gnark THEN GnarkStages ELSE CircomStages(m, k)

(* What a stage of ProveV2 fails with; the other methods differ as FailCodes says. *)
UsualCodes ==
    [json     |-> {"JSON_FORMAT_ERROR"},
     segments |-> {"INVALID_INPUT"},
     claims   |-> {"INVALID_INPUT", "JSON_FORMAT_ERROR"},
     sha      |-> {"INVALID_INPUT"},
     match    |-> {"SHA256_NOT_MATCH"},
     save     |-> {"JSON_FORMAT_ERROR"},
     witness  |-> {"TO_WITNESS_ERROR"},
     secret   |-> {"TO_SECRET_WITNESS_ERROR"},
     public   |-> {"TO_PUBLIC_WITNESS_ERROR"},
     prove    |-> {"GENERATE_PROOF_ERROR"},
     export   |-> {"GENERATE_PROOF_ERROR", "FAILED", "TO_PUBLIC_WITNESS_ERROR"}]

FailCodes(m, s) ==
    CASE m = "ProveNosha256WithWitness" -> {"FAILED"}
      [] m = "ProveNosha256Offchain" /\ s = "save" -> {"FAILED"}
      [] m \in {"ProveNosha256", "ProveNosha256Offchain"} /\ s = "export" -> {"GENERATE_PROOF_ERROR"}
      [] m = "ProveMerkleOffchain" /\ s = "json" -> {}  \* log.Fatal: see Stop
      [] OTHER -> UsualCodes[s]

(* The answers before a call is counted. *)
UnknownCircuit(m) ==
    CASE m \in {"ProveV2", "ProveNosha256"} -> "GPU_DEVICE_ERROR"
      [] m = "ProveNosha256WithWitness" -> "FAILED"
      [] OTHER -> "UNSUPPORT_CIRCUIT"

NoDevices(m) ==
    IF m = "ProveNosha256Offchain" THEN "GPU_DEVICE_ERROR" ELSE "UNSUPPORT_CIRCUIT"

-----------------------------------------------------------------------------
(* The process.  It may serve without a device or a circuit: main logs the *)
(* errors of loadAllCircuits and loadDevice and goes on, and both skip what *)
(* they cannot load.                                                        *)
Loads ==
    /\ circuits' \in SUBSET Circuit
    /\ devices' \in IF build = "circom_gpu" THEN SUBSET Device ELSE {{}}

(* The locals of a call that runs no method. *)
NoCall    == [c \in Call |-> None]
NoScan    == [c \in Call |-> {}]
NoMinimum == [c \in Call |-> MaxTasks]
NoDrift   == [c \in Call |-> 0]
NoStages  == [c \in Call |-> <<>>]

Init ==
    /\ build \in DOMAIN Methods
    /\ up = FALSE
    /\ circuits = {}
    /\ devices = {}
    /\ running = 0
    /\ taskCount = [d \in Device |-> 0]
    /\ pc = [c \in Call |-> "new"]
    /\ method = NoCall
    /\ circuit = NoCall
    /\ scanned = NoScan
    /\ device = NoCall
    /\ least = NoMinimum
    /\ drift = NoDrift
    /\ todo = NoStages
    /\ answer = NoCall

Start ==
    /\ ~up
    /\ up' = TRUE
    /\ Loads
    /\ running' = 0
    /\ taskCount' = [d \in Device |-> 0]
    /\ UNCHANGED <<build, pc, asked, choice, todo, answer>>

(* A panic in one call, log.Fatal or the host ends the process and every call in it. *)
Stop ==
    /\ up
    /\ up' = FALSE
    /\ pc' = [c \in Call |-> IF pc[c] \in {"new", "done"} THEN pc[c] ELSE "lost"]
    /\ scanned' = NoScan
    /\ device' = NoCall
    /\ least' = NoMinimum
    /\ drift' = NoDrift
    /\ todo' = NoStages
    /\ method' = NoCall
    /\ circuit' = NoCall
    /\ UNCHANGED <<build, circuits, devices, running, taskCount, answer>>

-----------------------------------------------------------------------------
(* A call until it is counted. *)

Answer(c, code) ==
    /\ pc' = [pc EXCEPT ![c] = "done"]
    /\ answer' = [answer EXCEPT ![c] = code]

(* The locals of a call: dropped when nothing is left to do but the deferred *)
(* decrements.                                                               *)
Keep(c, m, k) ==
    LET kept == pc'[c] \notin {"uncount", "exit", "done"} IN
    /\ method' = [method EXCEPT ![c] = IF kept THEN m ELSE None]
    /\ circuit' = [circuit EXCEPT ![c] = IF kept THEN k ELSE None]

(* len(in.GetInput()) > 1, or the answer -1. *)
CheckInput(c) ==
    \/ /\ pc' = [pc EXCEPT ![c] = "enter"]
       /\ UNCHANGED answer
    \/ Answer(c, "FAILED")

Arrive(c, m, k) ==
    /\ up
    /\ pc[c] = "new"
    /\ m \in Methods[build]
    /\ \/ /\ k \notin circuits
          /\ Answer(c, UnknownCircuit(m))
       \/ /\ k \in circuits
          /\ UsesDevice(m)
          /\ pc' = [pc EXCEPT ![c] = "scan"]
          /\ UNCHANGED answer
       \/ /\ k \in circuits
          /\ ~UsesDevice(m)
          /\ CheckInput(c)
    /\ Keep(c, m, k)
    /\ UNCHANGED <<process, running, taskCount, choice, todo>>

(* Mutant: minTasks is never lowered. *)
FewerThanMax(n, m) == n < MaxTasks

Fewer(n, m) == n < m

(* One turn of the loop of getDevice; a map is ranged over in any order. *)
Load(c, d) ==
    /\ pc[c] = "scan"
    /\ d \in devices \ scanned[c]
    /\ scanned' = [scanned EXCEPT ![c] = @ \cup {d}]
    /\ IF Fewer(taskCount[d], least[c])
       THEN /\ least' = [least EXCEPT ![c] = taskCount[d]]
            /\ device' = [device EXCEPT ![c] = d]
       ELSE UNCHANGED <<least, device>>
    /\ UNCHANGED <<process, running, taskCount, pc, asked, drift, todo, answer>>

Selected(c) ==
    /\ pc[c] = "scan"
    /\ scanned[c] = devices
    /\ IF device[c] = None THEN Answer(c, NoDevices(method[c])) ELSE CheckInput(c)
    /\ scanned' = [scanned EXCEPT ![c] = {}]
    /\ least' = [least EXCEPT ![c] = MaxTasks]
    /\ Keep(c, method[c], circuit[c])
    /\ UNCHANGED <<process, running, taskCount, device, drift, todo>>

Enter(c) ==
    /\ pc[c] = "enter"
    /\ running' = running + 1
    /\ pc' = [pc EXCEPT ![c] = IF UsesDevice(method[c]) THEN "count" ELSE "work"]
    /\ todo' = [todo EXCEPT ![c] = Stages(method[c], circuit[c])]
    /\ UNCHANGED <<process, taskCount, asked, choice, answer>>

(* The calls that are choosing a device, from the first load of getDevice  *)
(* to the increment of TaskCount.                                          *)
Choosing(c) ==
    \/ pc[c] = "scan" /\ scanned[c] # {}
    \/ pc[c] \in {"enter", "count"} /\ UsesDevice(method[c])

Drifts(c) ==
    drift' = [b \in Call |-> IF b = c THEN 0 ELSE IF Choosing(b) THEN drift[b] + 1 ELSE drift[b]]

Count(c) ==
    /\ pc[c] = "count"
    /\ taskCount' = [taskCount EXCEPT ![device[c]] = @ + 1]
    /\ pc' = [pc EXCEPT ![c] = "work"]
    /\ Drifts(c)
    /\ UNCHANGED <<process, running, asked, scanned, device, least, todo, answer>>

-----------------------------------------------------------------------------
(* The stages, and the deferred decrements. *)

(* Mutant: TaskCount has no deferred decrement. *)
LeavingCounted(c) == "exit"

Leaving(c) == IF UsesDevice(method[c]) THEN "uncount" ELSE "exit"

Stage(c) ==
    /\ pc[c] = "work"
    /\ todo[c] # <<>>
    /\ todo' = [todo EXCEPT ![c] = Tail(@)]
    /\ UNCHANGED <<process, running, taskCount, pc, asked, choice, answer>>

(* Mutant: an early return decrements what the deferred call also does. *)
FailTwice(c) ==
    /\ pc[c] = "work"
    /\ todo[c] # <<>>
    /\ \E code \in FailCodes(method[c], Head(todo[c])) : answer' = [answer EXCEPT ![c] = code]
    /\ todo' = [todo EXCEPT ![c] = <<>>]
    /\ pc' = [pc EXCEPT ![c] = Leaving(c)]
    /\ running' = running - 1
    /\ Keep(c, method[c], circuit[c])
    /\ UNCHANGED <<process, taskCount, choice>>

Fail(c) ==
    /\ pc[c] = "work"
    /\ todo[c] # <<>>
    /\ \E code \in FailCodes(method[c], Head(todo[c])) : answer' = [answer EXCEPT ![c] = code]
    /\ todo' = [todo EXCEPT ![c] = <<>>]
    /\ pc' = [pc EXCEPT ![c] = Leaving(c)]
    /\ Keep(c, method[c], circuit[c])
    /\ UNCHANGED <<process, running, taskCount, choice>>

Succeed(c) ==
    /\ pc[c] = "work"
    /\ todo[c] = <<>>
    /\ answer' = [answer EXCEPT ![c] = "SUCCESS"]
    /\ pc' = [pc EXCEPT ![c] = Leaving(c)]
    /\ Keep(c, method[c], circuit[c])
    /\ UNCHANGED <<process, running, taskCount, choice, todo>>

Uncount(c) ==
    /\ pc[c] = "uncount"
    /\ taskCount' = [taskCount EXCEPT ![device[c]] = @ - 1]
    /\ pc' = [pc EXCEPT ![c] = "exit"]
    /\ device' = [device EXCEPT ![c] = None]
    /\ Drifts(c)
    /\ UNCHANGED <<process, running, asked, scanned, least, todo, answer>>

Exit(c) ==
    /\ pc[c] = "exit"
    /\ running' = running - 1
    /\ pc' = [pc EXCEPT ![c] = "done"]
    /\ UNCHANGED <<process, taskCount, asked, choice, todo, answer>>

Step(c) ==
    \/ \E m \in Method, k \in Circuit : Arrive(c, m, k)
    \/ \E d \in Device : Load(c, d)
    \/ Selected(c)
    \/ Enter(c)
    \/ Count(c)
    \/ Stage(c)
    \/ Fail(c)
    \/ Succeed(c)
    \/ Uncount(c)
    \/ Exit(c)

Next ==
    \/ Start
    \/ Stop
    \/ \E c \in Call : Step(c)

Spec == Init /\ [][Next]_vars

-----------------------------------------------------------------------------
(* Properties *)

TypeOK ==
    /\ build \in DOMAIN Methods
    /\ up \in BOOLEAN
    /\ circuits \subseteq Circuit
    /\ devices \subseteq Device
    /\ running \in Nat
    /\ taskCount \in [Device -> Nat]
    /\ pc \in [Call -> {"new", "scan", "enter", "count", "work", "uncount", "exit", "done", "lost"}]
    /\ method \in [Call -> Method \cup {None}]
    /\ circuit \in [Call -> Circuit \cup {None}]
    /\ scanned \in [Call -> SUBSET Device]
    /\ device \in [Call -> Device \cup {None}]
    /\ least \in [Call -> Nat]
    /\ drift \in [Call -> Nat]

(* The calls runningProveTasks counts, and those TaskCount of d counts. *)
Running   == {c \in Call : pc[c] \in {"count", "work", "uncount", "exit"}}
TasksOn(d) == {c \in Call : pc[c] \in {"work", "uncount"} /\ device[c] = d}

(* The counters count exactly the calls in flight: every early return of a *)
(* method, and every way through its stages, takes back what the call      *)
(* added, once and from the device it was added to, and a new process      *)
(* starts from what is in flight there, nothing.                           *)
CountersExact ==
    up => /\ running = Cardinality(Running)
          /\ \A d \in Device : taskCount[d] = Cardinality(TasksOn(d))

(* What getDevice is worth when other calls change the counters while it   *)
(* loads them: when the task is counted, the device chosen has at most as  *)
(* many tasks as any other, give or take the changes that other calls made *)
(* since getDevice began.  With none it is a least loaded device.          *)
ChoosesLeastLoaded ==
    \A c \in Call : \A d \in devices :
        Choosing(c) /\ pc[c] # "scan" => taskCount[device[c]] <= taskCount[d] + drift[c]

(* The codes are named UNSUPPORT_CIRCUIT and GPU_DEVICE_ERROR: a service   *)
(* that has loaded every circuit never answers the first, and one that has *)
(* a device never answers the second.                                      *)
StatusNamesCause ==
    [][\A c \in Call : pc[c] # "done" /\ pc'[c] = "done" =>
          /\ answer'[c] = "UNSUPPORT_CIRCUIT" => circuits # Circuit
          /\ answer'[c] = "GPU_DEVICE_ERROR" => devices = {}]_vars

=============================================================================
