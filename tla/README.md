# Models of the ZeroBase prover network

This directory holds TLA+ models of the code of this repository, the TLC
configurations that check them and TLAPS proofs of their main properties.

## 1. The system

Two programs are deployed, and one of them in several parts.

* The **hub** (`src/hub`, Sanic): keeps the list of nodes, gives a client a
  proof hash and up to four nodes, announces ("pushes") the hash to those nodes,
  takes results and verifiers from nodes and forwards them to an explorer.
* A **prover node** (`src/prover`): a Python gateway (`node`) with an HTTP and a
  gRPC server on one event loop, and Go services (`circom-prover`,
  `gnark-prover`) that compute proofs on a CPU or on GPUs.

The life of a proof: a client asks the hub (`GET /node`); the hub makes a hash,
chooses nodes and pushes the signed hash to each in the background; the client
sends its input and the hash to a node; the node claims the hash in its task
table, checks the input, calls a Go service through a pool of gRPC channels,
reports the result to the hub and answers the client. Nodes register with the
hub by a heartbeat (`POST /node`) every 30 seconds; the hub drops nodes it has
not heard of.

### Inventory

| component | state | operations | interacts with |
|---|---|---|---|
| node task table, `modules/proof_manager` | dictionary hash -> (status, expiry), dirty flag, file | push_task, claim_task, flush thread, start | hub (pushes), prove handlers, file system |
| prover clients, `modules/prover/*` | pool of channels, number created, closed flag | acquire, release, close, _rpc with retries | prove service, Go services |
| prove handlers (HTTP v1 and v2, gRPC v1 and v2) and `modules/prove_service` | the claim of a hash, a request's way through the stages | get_public_key, claim, decrypt, validate, choose a prover, prove, find the project, report, answer; PUT /verifier | all of the node, key files |
| hub client, `modules/hub` (node) | the session key file | send_result, update_verifier, send_heartbeat | hub |
| OAuth providers, `modules/oauth_provider` | last key set fetched of each issuer | load before the start, verify, update_jwks | issuer, prove service |
| hub dispatch, `GET /node` | background tasks | choose nodes, push, answer | node list, nodes, client |
| hub node list, `POST /node` | nodes by address, chain of hashes | add, remove_inactive_nodes, get_node | heartbeats, pruning job |
| hub scheduler | task records, job wrappers, semaphore | start, add_task, run_task, add_job, shutdown | pruning job |
| hub key cache, `modules/key_cache` | cached key pair with its mtimes, lock | get_encryptor | key files, init_keys command |
| hub results, `POST /result`, `PUT /verifier`, `modules/explorer` | the hub's private key and the explorer's public key, in files | open a report, forward a result or a verifier | nodes, explorer |
| circom and gnark services | task counter per device, task lists | Prove..., Ping, GetRunningProveTasks | node, witness generator |
| constraint system helpers | packed terms | Pack, SetWireID, Parallelize, readers | circom service |

What is hard: two threads and crashes on the task table; awaits between a check
and its use in the hub and in the key cache; pushes, prove requests and results
that are lost, repeated or overtaken; key files that are replaced, removed or half
written while a request is between the stages that read them; an issuer that
replaces its keys between a fetch and the look at what was fetched; a pool at its
limit; counters read without the lock they are changed under. `PROJECT.json` lists the hazards line
by line under `hazards`, with the properties that catch them.

What makes each component correct:

* task table: a claim is exclusive while it lasts; what is in memory reaches the
  file; the file never prevents a start;
* channel pool: never more channels than allowed, none lent twice, none lost, a
  freed channel reaches a waiter, an `_rpc` ends;
* hub and node together: a hash is proved by one request at a node, a client
  that was given nodes can prove, a proof that was computed is reported;
* node list: live nodes stay, dead nodes go, a chosen node was alive recently;
* prove handlers: a hash serves one call; only what the right issuer signed, or
  what an exempt circuit takes, is proved; a finished proof reaches its client
  whatever fails after it; a report names the project of its proof;
* OAuth providers: a node that serves has keys, only published keys are accepted,
  and a valid input is not refused because of another request;
* key cache: a rotation that is complete is seen by every later request;
* Go services: device counters return to zero, an idle device is preferred;
* packed terms: each field is independent of the others.

## 2. Modules

Every component has a module, its proofs are in `<module>Proofs`, and `MC<module>`
gives TLC the values and symmetry sets of its instance. `PROJECT.json` maps each definition to the lines
it models (`map`).

### ProofManager: the task table of a node

Source: node `modules/proof_manager`, `push_task` and `claim_task` of
`http_server/v1`.

| variable | code |
|---|---|
| `cache`, `dirty`, `disk` | `self.cache`, `self._dirty`, the file at `cache_path` |
| `loop`, `flush` | where the event loop is in a request, where the flush thread is in `_save_cache` |
| `up`, `clock` | whether the process runs (or failed to start), `time.time()` |
| `born`, `lease`, `raced` | history for the properties |

A step is one access of one thread to the dictionary, the flag or the file:
`GetRead`, `GetDelete`, `GetDeleteDirty`, `SetStore`, `SetLog`, `SetDirty` are the
accesses of `get` and `set` (`SetLog` is the log line between the store and the flag: it
reads the entry back, and if the flush thread has deleted it meanwhile the `KeyError`
ends the request with the flag not set); `DropList`, `DropOne`, `SaveOpen`, `SaveDump`,
`SaveClose`, `SaveClear` those of the flush thread. `Crash` may come between any
two of them and `LoadCache` is the constructor.

`TaskLease` is what the table promises, without threads, file or table: a hash is on
offer after a push, a claim takes it and is a lease of TTL seconds, and while the lease
lasts neither a push nor a start of the node offers the hash again; only a crash ends a
lease early. `KeepsLeases` is the refinement. A hash is on offer (`OnOffer`) when the
table has a pending entry of it that has not expired, or a claim that found one is about
to store its own. The store of a push is then an `Offer`, the store of a claim a `Take`,
the deletion of an entry a `Withdraw` or no step at all, and the reads and the save are
no step.

### KeyCache: the hub's key pair

Source: hub `modules/key_cache`, `init_key` in `utils/cli.py`. A caller of
`get_encryptor` goes through `StatPriv`, `StatPub`, `Compare`, `ReadPriv`,
`ReadPub`, `Store`, one step per await, under the lock. `Rotate...` are the
truncations and writes of the command that makes a new pair, in another process.
A key is the number of the rotation that made it.

An mtime is the time of the last change on a `clock` that never goes back, but may stand
still over any number of steps (`Tick`). File timestamps are coarse and the command
truncates and writes a file within a fraction of a millisecond, so the two, or even two
rotations, may share an mtime. What was read in between then stays in the cache under
the mtime of the finished file, and an encryptor without a key, or with the old one, is
returned until the files change again. `past` keeps what each file held at which time,
and `RotationVisible` excepts exactly this case: a file that held both keys under the
same mtime.

### ConnectionPool: the clients of the Go services

Source: node `modules/prover/circom/main.py`; `gnark` and `private` contain the
same pool. `pool` and `waiting` are the items and the waiters of the
`asyncio.Queue`, `lent` the channel of each caller, `attempt` counts `_rpc`'s
attempts. A step is what the event loop runs between two suspensions: `Begin`,
`Resume` (after `queue.get` woke up), `End` and `Fail` (the call returns or
raises), `Retry`, `Close`, and a cancellation at each suspension
(`CancelWait`, `CancelWoken`, `CancelBackoff`). What a call answers is left out. `Close`
is an operation of the pool; the node itself never calls it.

`ChannelLoan` is the pool without queue, waiters or retries: a channel is made only
when none is free and the limit is not reached, is lent to one caller at a time and
comes back; a closed pool lends none and closes each once. `LendsChannels` is the
refinement (`made` is `created`, `free` is what is in `pool`): waiting, being woken,
overtaken or cancelled, and the sleep before a retry, leave the loan alone.

### TaskFlow and TaskLife: a proof from end to end

Source: hub `api/v1/hub/node/api.py` and `modules/http_server`, node
`http_server`, `grpc_server`, `modules/hub`. `TaskFlow` composes the hub's
dispatch (`Arrive`, `Select`, `SelectNone`, `PushTimeout`, `PushEnd`, `Answer`), a
network that loses, delays and repeats pushes (`Lose`, `PushTask`), the nodes
(`Claim`, `Prove`, `Report`, `Reply`, `Abandon`, `Save`, `Expire`, `Restart`) and
the explorer (`Forward`). A hash is named by the request it was made for. The
table of a node is that of `ProofManager` seen from outside: both requests run
without an await, so each is a step, and the thread interleavings are left to
`ProofManager`. A `Restart` finds the table last saved, or none: a crash in a save leaves
half a file, which has to be removed before the node starts again (`node_start`).

`TaskLife` is what the nodes promise, without hub and messages: a task (a hash
at a node) is offered, taken by one call at a time, never offered while it is
held, and only a call that held it reports a result, heard at most once.
`KeepsPromise` in `TaskFlow` is the refinement: offered are the hashes that are
pending in a table, a holder is a call from its claim to its end. `ProveRequest`,
which has the stages of a handler that `TaskFlow` takes in one step (`Prove`),
implements the same promise.

### NodeRegistry: heartbeats, registration, pruning

Source: node `modules/hub.send_heartbeat`, hub `POST /node`, `modules/node_list`
and the pruning job. Each worker process of the hub has a list (`nodes`), handlers
(`run`) and a job (`pruned`) of its own. A heartbeat (`PostReaches`, `PostLost`,
`PostEnds`) reaches any worker, which lists the node after two pings
(`GrpcPing`, `HttpPing`, `Register`, `Refuse`); the answer to the node and the
handler are independent, so a node may give up on a heartbeat the hub still works
on. A node answers a ping while it runs and may stop with the answer under way: a
handler (`Settled`) has both answers at most `Transit` seconds after the later was given
(`at`), however long the node took to give it. Time is in seconds, as in the code (`int(now)`).

### ProveRequest: the handlers of a node, stage by stage

Source: node `application/http_server` and `application/grpc_server` (v1 and v2),
`modules/prove_service` (v1 and v2), `modules/project_manager`,
`modules/oauth_provider/resolver`, `modules/hub`, the RPC methods of
`modules/prover`; hub `api/v1/hub/result`, `api/v1/hub/verifier`,
`modules/explorer`.

| variable | code |
|---|---|
| `table` | the status of each hash, as `TaskFlow` sees it at one node without restarts |
| `files` | the key files: the node's pair and session key, the hub's private key, the explorer's public key at the hub; each is a key, missing ("none"), or empty or half written ("torn") |
| `call` | a request: where its handler is (`pc`), what it asked for, the key it was encrypted with, whether it claimed its hash, the prover's method, and what it will answer |
| `letter`, `told` | its report on the way from the node to the hub and through it, and the calls whose report the explorer has |
| `faults` | failures of the surroundings so far |

A request goes through `Ask`, `GetPublicKey` (a client that encrypts), `Claim`,
`ProcessInput`, `Validate`, `Choose`, `Rpc`, `Result`, `SendResult`, `EndPost` or
`Timeout`, `Reply`; an update of the verifiers through `OpenUpdate` and
`UpdateVerifier`; a report through `Opens` and `Forward` at the hub. Each is what
runs between two awaits, or between two reads of a file that another process may
change. The routes, RPCs and service functions (`Http1Prove`, `V2Prove`,
`CircomNosha256`, ...) are these steps with what the function passes to them: which
method it calls, from which field of the answer it takes the project, which circuits
it exempts. `ChangeFile`, `Lose`, `Abandon` and the failures within a step are
counted by `faults`.

An id is a sequence of digits, because `get_project` takes it apart (`Digits`); the
ids of projects have five, as in `utils/project.json`. Inputs are reduced to who signed them (`google`, `x509_google`) or to what `tiga` looks at
(`modules`, `data`, `junk`).

Three things in this code a reader may not expect. `POST /prove` of version 1 calls
the method `Prove`, which no Go service has, so it answers PROVER_NOT_RESPONSE for
every input. An empty or half-written session key makes `send_result` raise and turns a
finished proof into an error (a missing one does not); `ProofReachesClient` names this
exception. And the hub logs the
failures of the explorer and answers 200, to a result as to a verifier.

`Life` is the refinement to `TaskLife`: a holder is a call from its claim to its
end, and what is under way are the letters of calls that claimed.

### JwksCache: the key sets of the issuers

Source: node `modules/oauth_provider/google`, `modules/oauth_provider/x509_google`,
`ServerBuilder.build` in `utils/server_util.py`.

`Docs` are the documents each issuer publishes, one after the other; a document is a
sequence of keys, looked at in turn. A key is a modulus, or `None` when it lacks the
fields of a JWK, which makes the document fail to parse, or `Malformed` when it has them
but they are no RSA key. The second kind is stored by google like any other: a look that
comes to it raises (`Look`), before any update, until the node is started again.
`published` and `jwks`
say which document is published and which one is kept. `Load` and `LoadFails` are
`build` before the servers start. A verification is `Verify` (the first look, with no
await before it), `Respond` or `FetchFails` (the answer of the issuer), `Store`
(`self.jwks = ...`) and `VerifyAgain`, and any other call, or `Rotate`, may come
between them. A modulus is compared by its limbs (`ToCircomBigint`), as in the code,
in base `Base` instead of 2^121 (`Power[k]` is the base to the k). `stores` is history: who stored while a call was
waiting for its second look.

The comment of `update_jwks` promises the latest key set. An older response that is
stored late replaces a newer one; `RejectionExplained` says exactly when this can make
a valid input fail: only if it was stored between this call's own store and its
second look. A key that was withdrawn stays accepted until an input comes that no
kept key verifies.

### ProverService: the Go services

Source: `circom-prover/src_gpu`, `circom-prover/src_cpu`, `gnark-prover/src_cpu`.
The three programs have the same skeleton and the variable `build` says which
one runs. A call goes through `Arrive` (refusals before it is counted), `Load` and
`Selected` (`getDevice`, one atomic load per device), `Enter` (`runningProveTasks`),
`Count` (`TaskCount` of the device), `Stage` for each stage of its method, or `Fail`
with the code of that stage, `Succeed`, and the deferred decrements `Uncount` and
`Exit`. `Stop` is a panic or `log.Fatal`, `Start` the next process.
Stages carry no data; the wrap-around of the 32-bit counters at 2^31 calls in
flight is left out; the device is only counted, because `groth16.Prove` is not
given it.

### Mutants

Operators named as mutants in a comment ("Mutant of ...") belong to no
specification: each is a plausible defect of the definition below it, and
putting it in the place of that definition violates a property of a run
(`mutants` in `PROJECT.json`). They show that the property can be violated.

## 3. What the runs show

| run | instance | shows |
|---|---|---|
| `task_table` | 2 hashes, TTL 2, push window 1, clock to 3 | `StaleFileExplained`: the file lacks a live entry only if it was written between the dump and the clearing of the flag. `LeaseExclusive`: a claim is not repeated within TTL, unless a crash lost it. `KeepsLeases`: `ProofManager` implements `TaskLease` |
| `key_cache` | 2 callers, 2 rotations, 3 times | `MtimeVouchesForKey`: a key cached under the mtime its file has was in the file at that time. `RotationVisible`: a call never returns a key older than the last rotation complete when it was called, and no key only if another rotation began, unless the file held that key and a recent one under the same mtime. `CallsEnd` |
| `conn_pool` | 4 callers, 2 channels, 1 retry, close | `ChannelsAccounted`: a channel is in one place. `NoLostWakeup`, `WaitsForSomething`: a waiter is never left behind. `LendsChannels`: `ConnectionPool` implements `ChannelLoan`. `CallsEnd` |
| `task_flow` | 2 nodes, 1 request, 2 calls, 2 selections | `OneProver`: a hash is proved by one call at a time at a node. `AnswersAreFull`: fewer nodes than chosen only after the last selection |
| `task_flow_life` | 1 node, 3 calls, 1 restart, 2 selections | `KeepsPromise`: `TaskFlow` implements `TaskLife`. `ResultsBounded`: a further result of a hash needs a restart. `HubSettles` |
| `node_registry` | 1 node, 2 workers, 2 handlers, transit 1, timeout 4, clock to 7 | `ListedRanLately`: a listed node ran in the last Transit + Timeout + Period + Lag seconds. `HeartbeatsKeepListed`: a worker that accepted one of the last Misses + 1 heartbeats of a running node lists it |
| `prove_request` | 1 hash, 2 calls, 24 requests for the first and 2 for its rival, 2 keys, 1 failure | `ClaimsAreFinal`: a hash serves one call, however that call ends. `ProofsAuthorised`: what is proved was signed by the issuer of the circuit, or is exempt. `NamesProject`: a report is for the project whose id the proof carries. `Served`: without failures a well-formed request gets its proof and the explorer hears first. `ProofReachesClient`: nothing that fails after the proof keeps it from the client, an empty or half-written session key excepted. `KeepsPromise`: implements `TaskLife`. `CallsEnd` |
| `jwks_cache` | 2 calls, 4 documents of google (one with a malformed key) and 3 of x509_google (one that does not parse), 5 inputs, two limbs in base 4 | `KeysUsable`: a node that serves has a usable key set of every issuer. `AcceptedIsPublished`: what is accepted has a published modulus. `RejectionExplained`: a valid input is rejected only after a late store of another call. `CallsEnd` |
| `prover_service` | 3 calls, 2 devices, each build | `CountersExact`: counters count the calls in flight. `ChoosesLeastLoaded`: the device chosen is least loaded up to what changed since the choice began |

Why the bounds are enough:

* `task_table`: TTL 2 and a window of 1 are the smallest that differ; the clock
  reaches 3, so a claim made in the first second expires and its hash is
  deleted by either thread, and a save, a crash and a restart fit before that.
  Two hashes let a save be right for one entry and late for another.
* `key_cache`: two rotations are four changes each, of a pair that is there or not,
  and three times let truncation and write, or both rotations, have the same or
  different mtimes; two callers have one in the critical section and one behind it.
* `conn_pool`: two callers hold the channels, one waits, and one overtakes it.
* `task_flow`: two selections of up to two nodes give repeated pushes to one node
  by different background tasks; two calls compete for a hash. Requests do not
  interact (each has a hash of its own), so one is enough.
* `task_flow_life`: three calls are one before a restart, one after it and one
  that competes with either. Nodes do not interact, so one is enough.
* `node_registry`: nodes do not interact. Two overlapping handlers are the
  heartbeat the node gave up on and the next one; timeout 4 is exactly
  (Misses + 1) * (ReplyWithin + Interval), where the comparison of the code
  matters; the clock runs past `Transit`, timeout and period together. With a
  transit of 1 an answer outlives its node by the smallest time there is; the bound is
  tight, TLC refutes it without `Transit`.
* `prove_request`: the requests are one for every route, prover, task type and
  refusal, and one id of each shape `get_project` tells apart. The second call is a
  rival for the hash, by another route; more hashes would only separate the two. A
  key that is replaced needs a second key. One failure of the surroundings finds
  every exception of a property; the invariants were also checked with two (1.3
  million states).
* `jwks_cache`: two calls are one that waits and one that overtakes it; the documents
  of google share a key with the one before, so that a key may be published throughout a
  call while the documents change, and the third has its malformed key between two good
  ones, where the order matters.
* `prover_service`: the third call changes the counters the other two compare.
  One circuit suffices, a restricted one, because it has the longest list of stages.

Deadlock is checked, except where an instance has finitely many requests or
calls and rightly stops when they are over (`TaskFlow`, `ProverService`,
`ProveRequest`, `JwksCache`).
Symmetry is used only in runs without liveness properties.

Runs that show a disagreement of the code with its own comments or names:

| run | shows |
|---|---|
| `node_start` | a crash between truncating and writing the task table leaves an empty file; `pickle.load` then raises `EOFError`, which the constructor does not catch, and the node does not start |
| `push_existing` | a second push of a pending hash is accepted and renews its life, because the status `pending` is 0 and tested for truth |
| `prover_status` | the codes for an unknown circuit and for a missing device are swapped in two methods |

### Fairness

Only what the runtime guarantees is assumed.

* `KeyCache!FairSpec`: the event loop and the file system go on (weak fairness of
  the steps in the critical section), and `asyncio.Lock` is first in, first out, so
  a waiter gets it in the end (strong fairness of `Lock`). Nothing is assumed of
  the rotation.
* `ConnectionPool!FairSpec`: a woken caller is resumed, a call returns or fails
  (every `_rpc` has a deadline), a retry comes after its sleep. Nothing is assumed
  of cancellations or `close`. `CallsEnd` has two premises, because without them it
  does not hold: newcomers must end (they may overtake a waiter without end), and
  the pool must stay open (`close` wakes nobody).
* `TaskFlow!FairSpec`: the hub runs the requests and background pushes that are
  ready, and its posts have timeouts. Nothing is assumed of nodes, clients or the
  network.
* `ProveRequest!FairSpec`: everything a call waits for ends, because the event loops run
  what is ready, an RPC has a timeout of 30 seconds and aiohttp one of 300; when an
  answer is lost, the timeout is `EndPost` of a lost letter. Nothing is assumed of
  clients, operators or the hub's pushes.
* `JwksCache!FairSpec`: the steps of a verification under way; aiohttp's timeout ends
  the fetch. Nothing is assumed of the issuers or of the start.
* The other modules have safety properties only.

## 4. What is proved

The proofs hold for every value of the constants, under the named assumptions.

| theorem | says | assumes |
|---|---|---|
| `ProofManagerProofs!SavedUnlessRaced` | `StaleFileExplained` | |
| `ProofManagerProofs!ClaimsAreLeases` | `LeaseExclusive` | `WindowAssumption` |
| `ProofManagerProofs!LeasesAreKept` | `KeepsLeases`: `ProofManager` implements `TaskLease` | the same |
| `KeyCacheProofs!MtimesVouch`, `RotationsAreSeen` | `MtimeVouchesForKey`, `RotationVisible` | file timestamps do not go back (`Change`) |
| `ConnectionPoolProofs!NoChannelLost`, `WakeupsSuffice`, `NeverStuck` | `ChannelsAccounted`, `NoLostWakeup`, `WaitsForSomething` | finitely many callers |
| `ConnectionPoolProofs!ChannelsAreLoans` | `LendsChannels`: `ConnectionPool` implements `ChannelLoan` | the same |
| `TaskFlowProofs!OneProverAtATime`, `ResultsAreBounded`, `AnswersHaveTheirPushes` | `OneProver`, `ResultsBounded`, `AnswersAreFull` | entries outlive the pushes of their request (guard of `Expire`) |
| `TaskFlowProofs!NodesKeepPromise` | `KeepsPromise`: `TaskFlow` implements `TaskLife` | the same |
| `ProveRequestProofs!ClaimsAreForEver`, `ProofsAreAuthorised`, `ProofsReachClients`, `RequestsAreServed` | `ClaimsAreFinal`, `ProofsAuthorised`, `ProofReachesClient`, `Served` | `RequestAssumption` (what a request is) |
| `ProveRequestProofs!ProofsNameTheirProject` | `NamesProject` | the same; the ids of projects have five digits |
| `ProveRequestProofs!NodeKeepsPromise` | `KeepsPromise`: `ProveRequest` implements `TaskLife` | the same |
| `JwksCacheProofs!ServingNodesHaveKeys`, `RejectionsAreExplained` | `KeysUsable`, `RejectionExplained` | `CacheAssumption` (documents exist) |
| `JwksCacheProofs!AcceptedLimbsArePublished` | the value of an accepted modulus is what the limbs hold of a published key | the same |
| `JwksCacheProofs!AcceptedInputsArePublished` | `AcceptedIsPublished` | the same, and `KeysFit` |
| `NodeRegistryProofs!ListedNodesRanLately` | `ListedRanLately` | no answer is under way for more than `Transit` seconds (`Idle`); the job is late by at most `Lag` |
| `NodeRegistryProofs!AcceptedNodesStay` | `HeartbeatsKeepListed` | `TimeoutAssumption` |
| `ProverServiceProofs!CountersAreExact`, `LeastLoadedUpToDrift` | `CountersExact`, `ChoosesLeastLoaded` | finitely many calls |
| `TypeCorrect` in each | `TypeOK` | |

Some assumptions say something of the deployment.

* `WindowAssumption` (`PushWindow < TTL`): the hub makes a hash for one request and
  pushes it during that request only: three selections, each with posts of six
  seconds and one retry. An entry lives for sixty.
* `TimeoutAssumption`: the timeout of the list covers `Misses` heartbeats that
  fail and one that succeeds. The code has a timeout of 600 seconds and a
  heartbeat every 30; with answers within 10 seconds `Misses` may be 14, with
  aiohttp's default limit of 300 seconds it is 0.
* File timestamps (`Change`): the clock of the machine that runs the hub and the command
  is not set back. Nothing is assumed of its resolution.
* `Transit` and `Lag`: how long the network keeps an answer, and how late the event loop
  runs the job; the code bounds neither (the hub's gRPC ping has no timeout).
* `KeysFit`: every published modulus is below `Base` to the `Limbs`. The code has 17
  limbs of 121 bits, 2057 together, and the issuers publish RSA-2048 keys. Of a longer
  key only the low limbs are compared, which is what `AcceptedLimbsArePublished` says.

None of the properties is inductive. The invariants that are, and why:

* *The file.* `SaveInv` follows the save: until the flag is cleared the buffer, and
  then the file, agree with the table except on the entries in `raced`.
* *Leases.* `ClaimInv` has four parts. An entry, in memory, in a save or in the
  file, lives until TTL after the first push of its hash (`BornInv`); a running
  entry that is alive is the one the last claim stored (`RunInv`); what the flush
  thread is about to delete can not be pushed again (`VictimInv`, where the window
  is needed); so while a lease lasts the table refuses every claim (`LeaseInv`).
* *Leases as a promise.* `Leasing` adds to `ClaimInv` that a node that is down has no
  table and no request (`Down`): so nothing is on offer at a start, and a hash whose
  entry comes back from the file as pending has no lease that lasts.
* *Keys.* `KeyInv` relates the file, the cache and what every caller has read so
  far to the rotation complete when the call began: an mtime read before a content
  vouches for it, since the stat comes first, so a key under the current mtime is one the
  file held at that mtime. `Recent` says how old what it read may be: no older than that
  rotation, empty when another has begun, or `Masked` by a recent key of the same mtime.
* *Channels.* `Line` (the waiters are those that wait, each once), `Channels`
  (types and who holds one), `AtLimit` (there are waiters only when all channels are
  made), `Wakeups` (as many wakeups on their way as channels in the pool), and
  `RetriesLeft`. `Wakeups` counts callers in states, so it needs a lemma on how one
  step changes a cardinality. `Move` says what a step of any operation may do with the
  channels; the loan follows from it and from `ChannelsAccounted`, since a closed pool is
  empty and a channel that comes back is in no other place.
* *One prover.* `Held`: while a call proves, its task can not be claimed, either
  because the entry is running or because it is gone and its pushes are over.
* *Reports.* `Bounded` counts the calls of a task that hold it or have reported: at
  most as many as there were restarts, and one more while the task is `Shut`. Only a
  claim adds one, and it shuts the task; only a restart opens it again.
* *Answers.* `Full`: the nodes of a request that is ready to answer are the chosen
  ones, or the attempts are used up, and each has its background task.
* *Requests.* `Sound` says what the record of a call may be at each stage (what is
  proved was validated; a proof has its answer). One lemma per step shows that it
  leaves the other calls alone and its own sound (`Moves`, or `Takes` for a claim).
  `ClaimInv` adds that a claimed hash is not offered again. `Calm` is what holds while
  nothing has failed: the keys fit, and each stage has what the next one needs
  (`Fine`).
* *Promise.* Both refinements rest on `Quiet` (a call that has not posted has no letter
  and is not heard of, and what was heard is not under way) and on the claim
  invariants above; one lemma per step names the step of `TaskLife` it is.
* *Projects.* `AllFit`: at the stage that reads the answer, the method is one of the
  function that reads it, and a project that was found is `GetProject` of the id asked
  for. That the five character codes of a spelled id are its digits again is shown one
  digit after the other.
* *Moduli.* `AcceptedByDocument`: an accepted input was verified by a document that
  was published by then. That its limbs then make up the key is an induction on the
  number of limbs.
* *Issuers.* `Current`: a call before its second look finds a document no older than
  its beginning, unless another call stored an older one since (`Overtaken`).
* *Node list.* `RunsNow` (the later answer to a handler's pings was given while the node
  ran, and at most `Transit` seconds ago) and `EntriesFresh` bound the age of an entry by
  the last second its node ran and by the next run of the job; `OnTime` and `Kept` bound,
  for each number of missed heartbeats, how old the entry is when the next one is due.
* *Devices.* `Chosen` says which calls hold a device, `Scanning` compares the local
  minimum of `getDevice` with the counters already loaded, up to `drift`, the
  number of changes since it began.

Model-checked only: the liveness properties (`CallsEnd`, `HubSettles`; fairness and
ENABLED are outside the proof system), and the three runs above that end in a
counterexample. Everything else the passing runs check is a theorem.

The induction theorems of the library take an operator as a parameter, which the
installed provers cannot instantiate. Lemma `Induction` of `JwksCacheProofs` is stated
for a set instead, by the least element of its complement, and `Power` and the value of
the limbs, recursive functions, are reasoned about with it.

## 5. Not modelled

* Encryption beyond the question whose key opens what; hashes, serializers, TLS
  files, logging, configuration: conversions and input/output without state of their
  own. RSA limits the length of a message; a list of verifiers that is too long is
  left out.
* The hub's scheduler. Nothing in the repository calls `run_task`, queues a task or
  loads a job other than the pruning of nodes, whose period is in `NodeRegistry`.
  Whoever uses it should know that its semaphore is held while a task is handed
  over, not while it runs, and that a queued task is marked done at once.
* The telegram provider has the shape of google and is never loaded. Nothing uses a
  prover with `async with`.
* The ping routes keep no state. The command `crypto_keys` is not part of a running
  service.
* The conversions of the Go services (packed terms, parallel loops, readers of R1CS
  and witness files, numbers of the offchain circuits): pure functions on data whose
  effect on a call, that it fails or goes on, is in `ProverService`.
* Generated protobuf code, vendored gnark packages, arithmetic circuits.
* Loading of modules and shutdown of the hub; `clean_expired`, `NodeList.remove` and
  other functions without a caller.

## 6. What is left

Modelled are all parts of the two Python programs that keep state or wait for one
another, and the handlers of the Go services. What is left, in this order:

1. The conversions of the circom service (`Pack` and `SetWireID` of a term, the ranges
   of `Parallelize`) as operators against a reference definition.
2. A composition of `ProveRequest` with `ProofManager` instead of the table seen from
   outside, if the table is ever awaited on between its check and its use.
