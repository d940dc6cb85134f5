------------------------------ MODULE TaskFlow ------------------------------
(***************************************************************************)
(* One proof from end to end: the hub chooses nodes for a request and      *)
(* pushes the signed hash to them in the background (hub, GET /node); the  *)
(* client sends the hash to nodes it was given; a node claims the hash,    *)
(* proves, reports the result to the hub, which forwards it to the         *)
(* explorer, and answers.                                                  *)
(*                                                                         *)
(* A hash is named by the request it was made for.  The table of a node is *)
(* the one of ProofManager seen from outside: push_task and claim_task run *)
(* without an await and so are single steps, an entry may expire, and a    *)
(* restart brings back the last table that was saved, or none.             *)
(*                                                                         *)
(* A push message may be lost, may be late (the node handles it after the  *)
(* hub has stopped waiting for it) and is repeated once after a timeout.   *)
(***************************************************************************)
EXTENDS Naturals, FiniteSets

CONSTANTS
    Node,      \* nodes
    Request,   \* requests GET /node, and the hashes made for them
    Call,      \* prove requests of clients, each sent once
    Fanout,    \* nodes given to a client (get_node's size, 4)
    Attempts,  \* selections per request (3)
    MaxCrash   \* bound: restarts of nodes

ASSUME FlowAssumption ==
    /\ IsFiniteSet(Node)
    /\ Fanout \in Nat \ {0}
    /\ Attempts \in Nat \ {0}
    /\ MaxCrash \in Nat

VARIABLES
    req,      \* the requests at the hub
    push,     \* the background tasks that push hashes
    wire,     \* push messages that have not arrived
    table,    \* the task table of each node
    disk,     \* the last saved table of each node
    call,     \* the prove requests
    mail,     \* calls whose result is on its way to the explorer
    told,     \* calls whose result the explorer has
    crashes   \* restarts so far

hubVars == <<req, push>>
nodeVars == <<table, disk, crashes>>
callVars == <<call, mail, told>>
vars == <<hubVars, wire, nodeVars, callVars>>

Status == {"absent", "pending", "running"}

(* A background task: the request, its attempt, and the node. *)
Dispatch == Request \X (1..Attempts) \X Node

(* A message: the first or the second post of a background task. *)
Message == Dispatch \X {1, 2}

NoTasks == [r \in Request |-> "absent"]

Idle == [pc |-> "idle", task |-> <<>>]

Init ==
    /\ req = [r \in Request |-> [pc |-> "idle", attempt |-> 1, chosen |-> {}, models |-> {}]]
    /\ push = [d \in Dispatch |-> "none"]
    /\ wire = {}
    /\ table = [n \in Node |-> NoTasks]
    /\ disk = [n \in Node |-> NoTasks]
    /\ call = [p \in Call |-> Idle]
    /\ mail = {}
    /\ told = {}
    /\ crashes = 0

-----------------------------------------------------------------------------
(* The hub: GET /node. *)

(* get_encryptor, then a new hash; without a key file the request fails. *)
Arrive(r) ==
    /\ req[r].pc = "idle"
    /\ \E pc \in {"choose", "failed"} : req' = [req EXCEPT ![r].pc = pc]
    /\ UNCHANGED <<push, wire, nodeVars, callVars>>

(* get_node: all nodes if there are fewer than Fanout, or a sample. *)
Selections(listed) ==
    IF Fanout > Cardinality(listed)
    THEN {listed}
    ELSE {s \in SUBSET listed : Cardinality(s) = Fanout}

(* Mutant of Choosing: one attempt too many. *)
ChoosingOnceMore(r) == req[r].pc = "choose" /\ req[r].attempt <= Attempts + 1

Choosing(r) == req[r].pc = "choose" /\ req[r].attempt <= Attempts

(* No node is listed: sleep, and try again. *)
SelectNone(r) ==
    /\ Choosing(r)
    /\ req' = [req EXCEPT ![r].attempt = @ + 1]
    /\ UNCHANGED <<push, wire, nodeVars, callVars>>

(* Mutant of Select: one node is enough to stop choosing. *)
SelectAny(r) ==
    /\ Choosing(r)
    /\ \E s \in SUBSET Node : \E bad \in SUBSET s :
        LET started == {r} \X {req[r].attempt} \X (s \ bad)
        IN  /\ s # {}
            /\ push' = [d \in Dispatch |-> IF d \in started THEN "first" ELSE push[d]]
            /\ wire' = wire \cup (started \X {1})
            /\ req' = [req EXCEPT ![r] =
                 [pc |-> IF bad # s THEN "answer" ELSE "choose",
                  attempt |-> IF bad # s THEN @.attempt ELSE @.attempt + 1,
                  chosen |-> s, models |-> s \ bad]]
    /\ UNCHANGED <<nodeVars, callVars>>

(* process_node for each node of a selection from the list, which may hold *)
(* any nodes at this moment; bad are those for which process_node raises.  *)
(* When there are some, the next attempt chooses again.                    *)
Select(r) ==
    /\ Choosing(r)
    /\ \E listed \in SUBSET Node : \E s \in Selections(listed) : \E bad \in SUBSET s :
        LET started == {r} \X {req[r].attempt} \X (s \ bad)
        IN  /\ s # {}
            /\ push' = [d \in Dispatch |-> IF d \in started THEN "first" ELSE push[d]]
            /\ wire' = wire \cup (started \X {1})
            /\ req' = [req EXCEPT ![r] =
                 [pc |-> IF bad = {} THEN "answer" ELSE "choose",
                  attempt |-> IF bad = {} THEN @.attempt ELSE @.attempt + 1,
                  chosen |-> s, models |-> s \ bad]]
    /\ UNCHANGED <<nodeVars, callVars>>

(* The answer: the nodes of the last selection, or 400 if there are none.  *)
Answer(r) ==
    /\ \/ req[r].pc = "answer"
       \/ req[r].pc = "choose" /\ ~Choosing(r)
    /\ req' = [req EXCEPT ![r].pc = IF req[r].models = {} THEN "failed" ELSE "answered"]
    /\ UNCHANGED <<push, wire, nodeVars, callVars>>

-----------------------------------------------------------------------------
(* The hub: a background task. *)

Pushing(d) == push[d] \in {"first", "retry"}

(* Mutant of PushTimeout: the post is repeated without end. *)
PushAgain(d) ==
    /\ Pushing(d)
    /\ push' = [push EXCEPT ![d] = IF @ = "first" THEN "retry" ELSE "first"]
    /\ wire' = wire \cup {<<d, 2>>}
    /\ UNCHANGED <<req, nodeVars, callVars>>

(* TimeoutError: the post is repeated once. *)
PushTimeout(d) ==
    /\ Pushing(d)
    /\ IF push[d] = "first"
       THEN push' = [push EXCEPT ![d] = "retry"] /\ wire' = wire \cup {<<d, 2>>}
       ELSE push' = [push EXCEPT ![d] = "done"] /\ UNCHANGED wire
    /\ UNCHANGED <<req, nodeVars, callVars>>

(* An answer of the node, or another error (which ends the task also when  *)
(* nothing catches it).  It is only logged.                                *)
PushEnd(d) ==
    /\ Pushing(d)
    /\ push' = [push EXCEPT ![d] = "done"]
    /\ UNCHANGED <<req, wire, nodeVars, callVars>>

Lose(m) ==
    /\ m \in wire
    /\ wire' = wire \ {m}
    /\ UNCHANGED <<hubVars, nodeVars, callVars>>

-----------------------------------------------------------------------------
(* The nodes. *)

RequestOf(m) == m[1][1]
NodeOf(m) == m[1][3]

(* Mutant of Refuses: push_task does not look whether the hash is there. *)
NeverRefuses(n, r) == FALSE

(* "if get(proof_hash)": true of a running hash only (pending is 0). *)
Refuses(n, r) == table[n][r] = "running"

(* push_task; the signature may also be invalid. *)
PushTask(m) ==
    LET n == NodeOf(m)
        r == RequestOf(m)
    IN  /\ m \in wire
        /\ wire' = wire \ {m}
        /\ \/ UNCHANGED table
           \/ ~Refuses(n, r) /\ table' = [table EXCEPT ![n][r] = "pending"]
        /\ UNCHANGED <<hubVars, disk, crashes, callVars>>

(* No push of this hash to this node is under way or will come. *)
PushesOver(r, n) ==
    /\ req[r].pc \in {"answered", "failed"}
    /\ \A d \in Dispatch : d[1] = r /\ d[3] = n => ~Pushing(d)
    /\ \A m \in wire : ~(RequestOf(m) = r /\ NodeOf(m) = n)

(* An entry lives for sixty seconds after it was set, longer than all the  *)
(* pushes of its request take (at most three selections and two posts of   *)
(* six seconds).  What was saved before expires no later.                  *)
Expire(n, r) ==
    /\ PushesOver(r, n)
    /\ disk[n][r] # "absent"
    /\ disk' = [disk EXCEPT ![n][r] = "absent"]
    /\ table' \in {table, [table EXCEPT ![n][r] = "absent"]}
    /\ UNCHANGED <<hubVars, wire, crashes, callVars>>

ExpireUnsaved(n, r) ==
    /\ PushesOver(r, n)
    /\ disk[n][r] = "absent" /\ table[n][r] # "absent"
    /\ table' = [table EXCEPT ![n][r] = "absent"]
    /\ UNCHANGED <<hubVars, wire, disk, crashes, callVars>>

(* The flush thread; a save after the last restart is read by nobody. *)
Save(n) ==
    /\ crashes < MaxCrash
    /\ disk' = [disk EXCEPT ![n] = table[n]]
    /\ UNCHANGED <<hubVars, wire, table, crashes, callVars>>

-----------------------------------------------------------------------------
(* Prove requests. *)

At(p, pc) == call[p].pc = pc

Goto(p, pc) == call' = [call EXCEPT ![p].pc = pc]

(* A client sends the hash to a node it was given. *)
Ask(p, r, n) ==
    /\ At(p, "idle")
    /\ req[r].pc = "answered" /\ n \in req[r].models
    /\ call' = [call EXCEPT ![p] = [pc |-> "sent", task |-> <<r, n>>]]
    /\ UNCHANGED <<hubVars, wire, nodeVars, mail, told>>

(* Mutant of Claimable: a hash that is being proved may be claimed. *)
Known(r, n) == table[n][r] # "absent"

Claimable(r, n) == table[n][r] = "pending"

(* claim_task; the handler goes on to prove, or answers 400. *)
Claim(p) ==
    LET r == call[p].task[1]
        n == call[p].task[2]
    IN  /\ At(p, "sent")
        /\ \/ /\ Claimable(r, n)
              /\ table' = [table EXCEPT ![n][r] = "running"]
              /\ Goto(p, "proving")
           \/ /\ ~Claimable(r, n)
              /\ Goto(p, "refused")
              /\ UNCHANGED table
        /\ UNCHANGED <<hubVars, wire, disk, crashes, mail, told>>

(* The prove service returns: a proof with a project to report, or no      *)
(* project (an error code in the answer); or it raises (500).              *)
Prove(p) ==
    /\ At(p, "proving")
    /\ \E pc \in {"report", "answered", "raised"} : Goto(p, pc)
    /\ UNCHANGED <<hubVars, wire, nodeVars, mail, told>>

(* send_result: without a session key it returns, and encrypt may raise.   *)
Report(p) ==
    /\ At(p, "report")
    /\ \/ Goto(p, "posted") /\ mail' = mail \cup {p}
       \/ (Goto(p, "answered") \/ Goto(p, "raised")) /\ UNCHANGED mail
    /\ UNCHANGED <<hubVars, wire, nodeVars, told>>

(* The hub and the explorer have answered, or not; the client is answered. *)
Reply(p) ==
    /\ At(p, "posted")
    /\ Goto(p, "answered")
    /\ UNCHANGED <<hubVars, wire, nodeVars, mail, told>>

(* POST /result: the hub forwards what it can decrypt; a failure of the    *)
(* explorer is logged.                                                     *)
Forward(p) ==
    /\ p \in mail
    /\ mail' = mail \ {p}
    /\ told' \in {told, told \cup {p}}
    /\ UNCHANGED <<hubVars, wire, nodeVars, call>>

Live(p) == call[p].pc \in {"proving", "report", "posted"}

(* A gRPC client goes away: its handler is cancelled at an await. *)
Abandon(p) ==
    /\ Live(p) \/ At(p, "sent")
    /\ Goto(p, "gone")
    /\ UNCHANGED <<hubVars, wire, nodeVars, mail, told>>

(* A node crashes and starts again from its file, or without a table if a  *)
(* save had torn the file.                                                 *)
Restart(n) ==
    /\ crashes < MaxCrash
    /\ crashes' = crashes + 1
    /\ disk' \in {disk, [disk EXCEPT ![n] = NoTasks]}
    /\ table' = [table EXCEPT ![n] = disk'[n]]
    /\ call' = [p \in Call |-> IF call[p].task # <<>> /\ call[p].task[2] = n
                                  /\ (Live(p) \/ At(p, "sent"))
                               THEN [call[p] EXCEPT !.pc = "gone"]
                               ELSE call[p]]
    /\ UNCHANGED <<hubVars, wire, mail, told>>

-----------------------------------------------------------------------------
HubStep(r) == SelectNone(r) \/ Select(r) \/ Answer(r)

PushStep(d) == PushTimeout(d) \/ PushEnd(d)

Next ==
    \/ \E r \in Request : Arrive(r) \/ HubStep(r)
    \/ \E d \in Dispatch : PushStep(d)
    \/ \E m \in wire : Lose(m) \/ PushTask(m)
    \/ \E n \in Node : Save(n) \/ Restart(n)
    \/ \E n \in Node, r \in Request : Expire(n, r) \/ ExpireUnsaved(n, r)
    \/ \E p \in Call, r \in Request, n \in Node : Ask(p, r, n)
    \/ \E p \in Call :
        Claim(p) \/ Prove(p) \/ Report(p) \/ Reply(p) \/ Forward(p) \/ Abandon(p)

Spec == Init /\ [][Next]_vars

(* The hub runs what is ready, and its posts have timeouts. *)
FairSpec ==
    /\ Spec
    /\ \A r \in Request : WF_vars(HubStep(r))
    /\ \A d \in Dispatch : WF_vars(PushStep(d))

-----------------------------------------------------------------------------
(* Properties. *)

Task == Request \X Node

(* Every variable has its type. *)
TypeOK ==
    /\ req \in [Request -> [pc : {"idle", "choose", "answer", "answered", "failed"},
                            attempt : 1..(Attempts + 1),
                            chosen : SUBSET Node, models : SUBSET Node]]
    /\ push \in [Dispatch -> {"none", "first", "retry", "done"}]
    /\ wire \in SUBSET Message
    /\ table \in [Node -> [Request -> Status]]
    /\ disk \in [Node -> [Request -> Status]]
    /\ \A p \in Call :
        \/ call[p] = Idle
        \/ call[p].task \in Task
           /\ call[p].pc \in {"sent", "refused", "proving", "report", "posted",
                              "answered", "raised", "gone"}
    /\ mail \in SUBSET Call
    /\ told \in SUBSET Call
    /\ crashes \in 0..MaxCrash

(* However pushes are repeated, delayed and lost, and whatever a restart   *)
(* brings back, a hash is proved by at most one call at a time at a node.  *)
OneProver ==
    \A p, q \in Call :
        Live(p) /\ Live(q) /\ call[p].task = call[q].task => p = q

(* The explorer hears of a hash from a node more than once only if a node  *)
(* lost the claim in a restart.                                            *)
ResultsBounded ==
    \A t \in Task : Cardinality({p \in told : call[p].task = t}) <= 1 + crashes

(* A client that gets fewer nodes than were chosen gets them after the     *)
(* last attempt, and no node it gets is left out of the pushes.            *)
AnswersAreFull ==
    \A r \in Request : req[r].pc = "answered" =>
        /\ req[r].models # req[r].chosen => req[r].attempt = Attempts + 1
        /\ \A n \in req[r].models : \E a \in 1..Attempts : push[<<r, a, n>>] # "none"

(* Every request is answered and every background task ends. *)
HubSettles ==
    /\ \A r \in Request : req[r].pc = "choose" ~> req[r].pc \in {"answered", "failed"}
    /\ \A d \in Dispatch : Pushing(d) ~> ~Pushing(d)

(* The promise of TaskLife: offered are the hashes a node has pending.     *)
Life == INSTANCE TaskLife WITH
    offered <- {t \in Task : table[t[2]][t[1]] = "pending"},
    holders <- [t \in Task |-> {p \in Call : Live(p) /\ call[p].task = t}],
    mailed <- mail,
    heard <- told

KeepsPromise == Life!Spec
=============================================================================
