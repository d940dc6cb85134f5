---------------------------- MODULE ProveRequest ----------------------------
(***************************************************************************)
(* A node's request handlers (http_server v1 and v2, grpc_server v1 and    *)
(* v2), the prove services behind them, and the way of a report from the   *)
(* node through the hub to the explorer.                                   *)
(*                                                                         *)
(* A call claims its hash, decrypts its input with the node's private key, *)
(* is validated for its task type, is sent to a prover, finds the project  *)
(* its proof is for, reports to the hub, and answers.  Every stage reads   *)
(* files or waits for another process, so calls interleave at each of      *)
(* them, and keys may be replaced, removed or half written in between.     *)
(*                                                                         *)
(* The table of hashes is the one of TaskFlow for one node that does not   *)
(* restart: a hash is not pushed again after it expired.  What the JWKS of *)
(* a provider say of an input is in JwksCache; what a Go service makes of  *)
(* one is in ProverService.                                                *)
(***************************************************************************)
EXTENDS Integers, Sequences

CONSTANTS
    Hash,       \* proof hashes
    Call,       \* requests of clients, each sent once
    Key,        \* RSA key pairs
    Installed,  \* the pair in use at the start
    Asks,       \* the requests a client may make: [Call -> SUBSET Request]
    Request,    \* the requests
    Nothing,    \* no key, no project
    Anonymous,  \* the project of an unknown id
    Bindings,   \* oauth_provider_resolver.json: [circuit -> provider]
    Projects,   \* the ids in project.json, five digits each
    MaxFaults   \* bound: failures of the surroundings

Vias == {"http1", "http2", "grpc1", "grpc2"}

ASSUME RequestAssumption ==
    /\ Installed \in Key
    /\ {"none", "torn", Nothing} \cap Key = {}
    /\ \A id \in Projects : id \in Seq(0..9) /\ Len(id) = 5
    /\ Nothing \notin Projects \cup {Anonymous}
    /\ Asks \in [Call -> SUBSET Request]
    /\ \A r \in Request : r.via \in Vias /\ r.hash \in Hash /\ r.sealed \in BOOLEAN
    /\ MaxFaults \in Nat

VARIABLES
    table,   \* the status of each hash at the node
    files,   \* the key files of the node, the hub and the explorer's at the hub
    call,    \* the requests
    letter,  \* the reports to the hub
    told,    \* calls whose report the explorer has
    faults   \* failures so far

vars == <<table, files, call, letter, told, faults>>

(* crypto_keys and session_keys of the node; the hub's private key and its *)
(* copy of the explorer's public key.  A file is missing ("none"), is not  *)
(* a key, being empty or half written ("torn"), or has a key.              *)
Files == {"private", "public", "session", "hub", "explorer"}

Content == {"none", "torn"} \cup Key

NoRequest == [via |-> "none", op |-> "none"]

Idle == [pc |-> "idle", req |-> NoRequest, key |-> Nothing, claimed |-> FALSE,
         method |-> "none", proof |-> FALSE, project |-> Nothing, answer |-> "none"]

NoLetter == [stage |-> "none", key |-> Nothing]

Init ==
    /\ table = [h \in Hash |-> "new"]
    /\ files = [f \in Files |-> Installed]
    /\ call = [p \in Call |-> Idle]
    /\ letter = [p \in Call |-> NoLetter]
    /\ told = {}
    /\ faults = 0

-----------------------------------------------------------------------------
(* The steps of a call. *)

At(p, pc) == call[p].pc = pc

Asked(p) == call[p].req

Updates(p) == Asked(p).op = "verifier"

Goto(p, pc) == call' = [call EXCEPT ![p].pc = pc]

End(p, answer) == call' = [call EXCEPT ![p].pc = "over", ![p].answer = answer]

Fault == faults < MaxFaults /\ faults' = faults + 1

(* A client makes a request; a sealed one needs the node's public key. *)
Ask(p) ==
    /\ At(p, "idle")
    /\ \E r \in Asks[p] :
         call' = [call EXCEPT ![p].pc = IF r.sealed THEN "sealing" ELSE "sent", ![p].req = r]
    /\ UNCHANGED <<table, files, letter, told, faults>>

(* get_public_key serves what the file holds, with code SUCCESSFULLY; a    *)
(* client that cannot encrypt with it makes no further request.            *)
GetPublicKey(p) ==
    /\ At(p, "sealing")
    /\ IF files["public"] \in Key
       THEN call' = [call EXCEPT ![p].pc = "sent", ![p].key = files["public"]]
       ELSE End(p, IF files["public"] = "none" THEN "PUBLIC_KEY_NOT_FOUND" ELSE "SUCCESSFULLY")
    /\ UNCHANGED <<table, files, letter, told, faults>>

HttpPublicKey(p) == Asked(p).via \in {"http1", "http2"} /\ GetPublicKey(p)

GrpcPublicKey(p) == Asked(p).via \in {"grpc1", "grpc2"} /\ GetPublicKey(p)

(* Mutant of Claimable: a hash that is running may be claimed again. *)
Unexpired(h) == table[h] \in {"pending", "running"}

Claimable(h) == table[h] = "pending"

(* Mutant of Claim: the claim is not written to the table. *)
ClaimUnmarked(p) ==
    /\ At(p, "sent")
    /\ IF Claimable(Asked(p).hash)
       THEN call' = [call EXCEPT ![p].pc = "input", ![p].claimed = TRUE]
       ELSE End(p, "TASK_NOT_FOUND")
    /\ UNCHANGED <<table, files, letter, told, faults>>

(* claim_task, and the refusals of the handlers. *)
Claim(p) ==
    LET h == Asked(p).hash
    IN  /\ At(p, "sent")
        /\ IF Claimable(h)
           THEN /\ table' = [table EXCEPT ![h] = "running"]
                /\ call' = [call EXCEPT ![p].pc = "input", ![p].claimed = TRUE]
           ELSE /\ End(p, IF table[h] = "running" THEN "TASK_INVALID" ELSE "TASK_NOT_FOUND")
                /\ UNCHANGED table
        /\ UNCHANGED <<files, letter, told, faults>>

(* Mutant of Reply: the handler does not wait for the report. *)
ReplyEarly(p) ==
    /\ At(p, "reported") \/ At(p, "served")
    /\ Goto(p, "over")
    /\ UNCHANGED <<table, files, letter, told, faults>>

(* "if proof_result.project_name" sends a report first (SendResult); then  *)
(* the handler answers with what the service returned.                     *)
Reply(p) ==
    /\ At(p, "reported") \/ (At(p, "served") /\ call[p].project = Nothing)
    /\ Goto(p, "over")
    /\ UNCHANGED <<table, files, letter, told, faults>>

Handles(p, via, op) ==
    /\ Asked(p).via = via /\ Asked(p).op = op
    /\ Claim(p) \/ Reply(p)

Http1Prove(p)       == Handles(p, "http1", "prove")
Http1Nosha256(p)    == Handles(p, "http1", "prove_nosha256")
Http1WithWitness(p) == Handles(p, "http1", "prove_nosha256_with_witness")
Http1Offchain(p)    == Handles(p, "http1", "prove_nosha256_offchain")
Grpc1Nosha256(p)    == Handles(p, "grpc1", "prove_nosha256")
Grpc1WithWitness(p) == Handles(p, "grpc1", "prove_nosha256_with_witness")
Grpc1Offchain(p)    == Handles(p, "grpc1", "prove_nosha256_offchain")
Http2Prove(p)       == Handles(p, "http2", "prove_v2")
Grpc2Prove(p)       == Handles(p, "grpc2", "prove_v2")

(* Routes that answer 501, and RPCs that only the base class has. *)
Http1NotSupported(p) ==
    /\ At(p, "sent")
    /\ Asked(p).via = "http1" /\ Asked(p).op \in {"prove_with_witness", "prove_offchain"}
    /\ End(p, "NOT_SUPPORTED")
    /\ UNCHANGED <<table, files, letter, told, faults>>

Grpc1Unimplemented(p) ==
    /\ At(p, "sent")
    /\ Asked(p).via = "grpc1"
    /\ Asked(p).op \in {"prove", "prove_with_witness", "prove_tiga_offchain", "prove_binance_offchain"}
    /\ End(p, "UNIMPLEMENTED")
    /\ UNCHANGED <<table, files, letter, told, faults>>

-----------------------------------------------------------------------------
(* The prove services, version 1 and 2. *)

Version2(p) == Asked(p).op = "prove_v2"

(* RSAEncryption(private_key).decrypt of what was encrypted under a key;   *)
(* without a key in its file the constructor or decrypt raises.            *)
Decrypted(file, key) ==
    CASE file = "none" -> "PRIVATE_KEY_NOT_FOUND"
      [] file = "torn" -> "RAISED"
      [] file = key    -> "ok"
      [] OTHER         -> "PRIVATE_KEY_INVALID"

ProcessInput(p) ==
    LET result == IF Asked(p).sealed THEN Decrypted(files["private"], call[p].key) ELSE "ok"
    IN  /\ At(p, "input")
        /\ IF result = "ok" THEN Goto(p, "validate") ELSE End(p, result)
        /\ UNCHANGED <<table, files, letter, told, faults>>

V1ProcessInput(p) == ~Version2(p) /\ ProcessInput(p)

V2ProcessInput(p) == Version2(p) /\ ProcessInput(p)

(* The providers ServerBuilder gives to the services. *)
Providers == {"google", "x509_google"}

(* Mutant of Resolved: what the client asks for wins. *)
Requested(circuit, provider) == provider

(* resolve_provider: a circuit's binding overrides what the client asks for. *)
Resolved(circuit, provider) ==
    IF circuit \in DOMAIN Bindings THEN Bindings[circuit] ELSE provider

(* The answers of provider.verify to an input signed by issuer.  An update *)
(* of the JWKS that fails raises; see JwksCache for the false rejections.  *)
Verified(provider, issuer) ==
    IF issuer = provider THEN {"ok"} ELSE {"UNAUTHORIZED_PAYLOAD"}

VerifyFails(provider, issuer) == {"UNAUTHORIZED_PAYLOAD", "RAISED"}

(* Circuits whose inputs a task of type tiga does not look at. *)
Exempt(p) == {"10005", "10006"} \cup (IF Version2(p) THEN {"10010"} ELSE {})

(* ujson.loads(input)["modules"] *)
Tiga(p) ==
    CASE Asked(p).circuit \in Exempt(p) -> "ok"
      [] Asked(p).content = "modules"   -> "UNAUTHORIZED_PAYLOAD"
      [] Asked(p).content = "junk"      -> "RAISED"
      [] OTHER                          -> "ok"

Valid(p, result) ==
    IF result = "ok" THEN Goto(p, "choose") ELSE End(p, result)

(* _validate_task_type_and_input *)
Validate(p) ==
    LET provider == Resolved(Asked(p).circuit, Asked(p).provider)
    IN  /\ At(p, "validate")
        /\ CASE Asked(p).task = "zklogin" /\ provider \in Providers ->
                  \/ /\ \E result \in Verified(provider, Asked(p).content) : Valid(p, result)
                     /\ UNCHANGED faults
                  \/ /\ \E result \in VerifyFails(provider, Asked(p).content) : End(p, result)
                     /\ Fault
             [] Asked(p).task = "zklogin" /\ provider \notin Providers ->
                  End(p, "UNSUPPORT_OAUTH_PROVIDER") /\ UNCHANGED faults
             [] Asked(p).task = "tiga" -> Valid(p, Tiga(p)) /\ UNCHANGED faults
             [] OTHER -> End(p, "UNSUPPORT_TASK_TYPE") /\ UNCHANGED faults
        /\ UNCHANGED <<table, files, letter, told>>

V1Validate(p) == ~Version2(p) /\ Validate(p)

V2Validate(p) == Version2(p) /\ Validate(p)

(* The project of a public input: an id of five digits is looked up, one   *)
(* of another even length is read as two-digit character codes, of which   *)
(* those that are no digits are skipped.                                   *)
IsDigit(code) == code \in 48..57

Digits(id) ==
    LET code(i) == 10 * id[2 * i - 1] + id[2 * i]
        clean[i \in 0..(Len(id) \div 2)] ==
            IF i = 0 THEN <<>>
            ELSE IF IsDigit(code(i)) THEN Append(clean[i - 1], code(i) - 48)
            ELSE clean[i - 1]
    IN  clean[Len(id) \div 2]

(* Mutant of Known: projects.get without a default. *)
KnownOrEmpty(id) == IF id \in Projects THEN id ELSE <<>>

Known(id) == IF id \in Projects THEN id ELSE Anonymous

GetProject(id) ==
    CASE Len(id) = 5                       -> Known(id)
      [] Len(id) # 5 /\ Len(id) % 2 # 0    -> Anonymous
      [] OTHER                             -> Known(Digits(id))

(* The methods the Go services have. *)
Offered == {"ProveNosha256", "ProveNosha256WithWitness", "ProveNosha256Offchain", "ProveV2",
            "ProveTigaOffchain", "ProveBinanceOffchain", "ProveMerkleOffchain"}

(* Where the answer of a method has the public inputs; the last one is the id. *)
InputsIn(method) ==
    CASE method = "ProveNosha256" -> "proof"
      [] method \in {"ProveNosha256WithWitness", "ProveNosha256Offchain"} -> "witness"
      [] OTHER -> "public_witness"

(* A service function: it chooses the prover's method or refuses with a    *)
(* code, and when the prover has answered reads the project off one field  *)
(* of the answer.                                                          *)
Choose(p, choice) ==
    /\ At(p, "choose")
    /\ IF choice \in Offered \cup {"Prove"}
       THEN call' = [call EXCEPT ![p].pc = "rpc", ![p].method = choice]
       ELSE End(p, choice)
    /\ UNCHANGED <<table, files, letter, told, faults>>

Result(p, field) ==
    /\ At(p, "result")
    /\ call' = [call EXCEPT ![p].pc = "served",
                            ![p].project = CASE ~call[p].proof -> Nothing
                                             [] call[p].proof /\ field = InputsIn(call[p].method)
                                                  -> GetProject(Asked(p).id)
                                             [] OTHER -> Anonymous]
    /\ UNCHANGED <<table, files, letter, told, faults>>

(* Version 1 has one prover and a function for each of its methods. *)
V1(p, op, method, field) ==
    /\ Asked(p).op = op
    /\ \/ Choose(p, IF Asked(p).prover = "circom" THEN method ELSE "UNSUPPORT_PROVER")
       \/ Result(p, field)

V1Prove(p)       == V1(p, "prove", "Prove", "proof")
V1Nosha256(p)    == V1(p, "prove_nosha256", "ProveNosha256", "proof")
V1WithWitness(p) == V1(p, "prove_nosha256_with_witness", "ProveNosha256WithWitness", "witness")

(* Mutant of V1Offchain: the id is read off the proof. *)
V1OffchainByProof(p) == V1(p, "prove_nosha256_offchain", "ProveNosha256Offchain", "proof")

V1Offchain(p)    == V1(p, "prove_nosha256_offchain", "ProveNosha256Offchain", "witness")

(* Version 2: the private prover has a method for each of its circuits. *)
PrivateMethod(circuit) ==
    CASE circuit = "10005" -> "ProveTigaOffchain"
      [] circuit = "10006" -> "ProveBinanceOffchain"
      [] circuit = "10010" -> "ProveMerkleOffchain"
      [] OTHER             -> "UNSUPPORT_TASK_TYPE"

V2Prove(p) ==
    /\ Version2(p)
    /\ \/ Choose(p, CASE Asked(p).prover = "circom"  -> "ProveV2"
                      [] Asked(p).prover = "private" -> PrivateMethod(Asked(p).circuit)
                      [] OTHER                       -> "UNSUPPORT_PROVER")
       \/ Result(p, "public_witness")

-----------------------------------------------------------------------------
(* The provers' clients.  An RPC that fails after its retries, for a method *)
(* no service has at once, becomes a code in the answer; so does a code of  *)
(* the service (FAILED stands for all of them).                             *)

Returned(p, answer, proof) ==
    call' = [call EXCEPT ![p].pc = "result", ![p].answer = answer, ![p].proof = proof]

Rpc(p, method) ==
    /\ At(p, "rpc") /\ call[p].method = method
    /\ IF method \in Offered
       THEN \/ Returned(p, "SUCCESSFULLY", TRUE) /\ UNCHANGED faults
            \/ Fault /\ \E code \in {"PROVER_NOT_RESPONSE", "FAILED"} : Returned(p, code, FALSE)
       ELSE Returned(p, "PROVER_NOT_RESPONSE", FALSE) /\ UNCHANGED faults
    /\ UNCHANGED <<table, files, letter, told>>

CircomProve(p)       == Rpc(p, "Prove")
CircomNosha256(p)    == Rpc(p, "ProveNosha256")
CircomWithWitness(p) == Rpc(p, "ProveNosha256WithWitness")
CircomOffchain(p)    == Rpc(p, "ProveNosha256Offchain")
CircomProveV2(p)     == Rpc(p, "ProveV2")
PrivateTiga(p)       == Rpc(p, "ProveTigaOffchain")
PrivateBinance(p)    == Rpc(p, "ProveBinanceOffchain")
PrivateMerkle(p)     == Rpc(p, "ProveMerkleOffchain")

-----------------------------------------------------------------------------
(* The node's hub client.  Without a session key file nothing is sent;      *)
(* without a key in the file RSAEncryption or encrypt raises.               *)

Encrypts(file) == file \in Key

Post(p, unsent) ==
    LET file == files["session"]
    IN  CASE file = "none" -> unsent /\ UNCHANGED letter
          [] Encrypts(file) ->
               /\ letter' = [letter EXCEPT ![p] = [stage |-> "sent", key |-> file]]
               /\ Goto(p, "posted")
          [] OTHER -> End(p, "RAISED") /\ UNCHANGED letter

(* send_result *)
SendResult(p) ==
    /\ At(p, "served") /\ call[p].project # Nothing
    /\ Post(p, Goto(p, "reported"))
    /\ UNCHANGED <<table, files, told, faults>>

(* Mutant of Settle: a result that was not reported fails the request. *)
SettleAlike(p, ok) == End(p, IF ok THEN call[p].answer ELSE "ERROR")

(* The hub has answered; a result that failed is logged, an update answers *)
(* ERROR.                                                                  *)
Settle(p, ok) ==
    IF Updates(p)
    THEN End(p, IF ok THEN "SUCCESSFULLY" ELSE "ERROR")
    ELSE Goto(p, "reported")

(* Mutant of EndPost: an answer that was lost is waited for. *)
EndPostAnswered(p) ==
    /\ At(p, "posted") /\ letter[p].stage \in {"ok", "refused"}
    /\ Settle(p, letter[p].stage = "ok")
    /\ UNCHANGED <<table, files, letter, told, faults>>

EndPost(p) ==
    /\ At(p, "posted") /\ letter[p].stage \in {"ok", "refused", "lost"}
    /\ Settle(p, letter[p].stage = "ok")
    /\ UNCHANGED <<table, files, letter, told, faults>>

(* The node stops waiting; the hub may still have the report. *)
Timeout(p) ==
    /\ At(p, "posted") /\ letter[p].stage \in {"sent", "open"}
    /\ Settle(p, FALSE)
    /\ Fault
    /\ UNCHANGED <<table, files, letter, told>>

(* PUT /verifier and UpdateVerifier: the hash and the verifiers are        *)
(* decrypted; an empty key file raises inside the try block, half a key    *)
(* outside of it.                                                          *)
OpenUpdate(p) ==
    /\ At(p, "sent") /\ Updates(p)
    /\ LET result == Decrypted(files["private"], call[p].key)
       IN  CASE result = "ok" /\ Asked(p).content # "empty" -> Goto(p, "update")
             [] result = "ok" /\ Asked(p).content = "empty" -> End(p, "PRIVATE_KEY_INVALID")
             [] result = "RAISED" -> End(p, "RAISED") \/ End(p, "PRIVATE_KEY_INVALID")
             [] OTHER -> End(p, result)
    /\ UNCHANGED <<table, files, letter, told, faults>>

Http1Verifier(p) == Asked(p).via = "http1" /\ OpenUpdate(p)

Grpc1UpdateVerifier(p) == Asked(p).via = "grpc1" /\ OpenUpdate(p)

(* update_verifier of the hub client *)
UpdateVerifier(p) ==
    /\ At(p, "update")
    /\ Post(p, End(p, "ERROR"))
    /\ UNCHANGED <<table, files, told, faults>>

-----------------------------------------------------------------------------
(* The hub: POST /result and PUT /verifier. *)

(* The hub's copy of RSAEncryption. *)
HubDecrypts(key) == files["hub"] \in Key /\ files["hub"] = key

(* A report is opened with the hub's private key. *)
Opens(p) ==
    /\ letter[p].stage = "sent"
    /\ letter' = [letter EXCEPT ![p] =
         [stage |-> IF HubDecrypts(letter[p].key) THEN "open" ELSE "refused",
          key |-> Nothing]]
    /\ UNCHANGED <<table, files, call, told, faults>>

PostResult(p) == ~Updates(p) /\ Opens(p)

PutVerifier(p) == Updates(p) /\ Opens(p)

(* get_explorer, and what it is for: without the explorer's key the        *)
(* explorer is skipped, with a torn one the request fails, and a failure   *)
(* of the explorer, or a key that is not its own, is logged only.          *)
Forward(p) ==
    /\ letter[p].stage = "open"
    /\ letter' = [letter EXCEPT ![p].stage = IF files["explorer"] = "torn" THEN "refused" ELSE "ok"]
    /\ \/ files["explorer"] = Installed /\ told' = told \cup {p} /\ UNCHANGED faults
       \/ files["explorer"] = Installed /\ Fault /\ UNCHANGED told
       \/ files["explorer"] # Installed /\ UNCHANGED <<told, faults>>
    /\ UNCHANGED <<table, files, call>>

SendProof(p) == ~Updates(p) /\ Forward(p)

SendVerifier(p) == Updates(p) /\ Forward(p)

-----------------------------------------------------------------------------
(* The surroundings. *)

(* get_encryptor of push_task, and the check of the hub's signature. *)
Encryptor == files["session"] \in Key

Signed == files["session"] = files["hub"]

(* push_task *)
Push(h) ==
    /\ table[h] = "new"
    /\ Encryptor /\ Signed
    /\ table' = [table EXCEPT ![h] = "pending"]
    /\ UNCHANGED <<files, call, letter, told, faults>>

Expire(h) ==
    /\ table[h] \in {"pending", "running"}
    /\ table' = [table EXCEPT ![h] = "expired"]
    /\ UNCHANGED <<files, call, letter, told, faults>>

(* An operator replaces, removes or empties a key file, or writes half of  *)
(* it.                                                                     *)
ChangeFile(f) ==
    /\ \E v \in Content \ {files[f]} : files' = [files EXCEPT ![f] = v]
    /\ Fault
    /\ UNCHANGED <<table, call, letter, told>>

Lose(p) ==
    /\ letter[p].stage = "sent"
    /\ letter' = [letter EXCEPT ![p] = [stage |-> "lost", key |-> Nothing]]
    /\ Fault
    /\ UNCHANGED <<table, files, call, told>>

Working(p) ==
    call[p].pc \in {"input", "validate", "choose", "rpc", "result", "served", "update",
                    "posted", "reported"}

(* A gRPC client goes away: its handler is cancelled at an await. *)
Abandon(p) ==
    /\ Working(p) /\ Asked(p).via \in {"grpc1", "grpc2"}
    /\ Goto(p, "gone")
    /\ Fault
    /\ UNCHANGED <<table, files, letter, told>>

-----------------------------------------------------------------------------
Handler(p) ==
    \/ Http1Prove(p) \/ Http1Nosha256(p) \/ Http1WithWitness(p) \/ Http1Offchain(p)
    \/ Grpc1Nosha256(p) \/ Grpc1WithWitness(p) \/ Grpc1Offchain(p)
    \/ Http2Prove(p) \/ Grpc2Prove(p)
    \/ Http1NotSupported(p) \/ Grpc1Unimplemented(p)
    \/ Http1Verifier(p) \/ Grpc1UpdateVerifier(p)
    \/ HttpPublicKey(p) \/ GrpcPublicKey(p)

Service(p) ==
    \/ V1ProcessInput(p) \/ V2ProcessInput(p) \/ V1Validate(p) \/ V2Validate(p)
    \/ V1Prove(p) \/ V1Nosha256(p) \/ V1WithWitness(p) \/ V1Offchain(p) \/ V2Prove(p)

Prover(p) ==
    \/ CircomProve(p) \/ CircomNosha256(p) \/ CircomWithWitness(p) \/ CircomOffchain(p)
    \/ CircomProveV2(p) \/ PrivateTiga(p) \/ PrivateBinance(p) \/ PrivateMerkle(p)

HubClient(p) == SendResult(p) \/ UpdateVerifier(p) \/ EndPost(p) \/ Timeout(p)

Hub(p) == PostResult(p) \/ PutVerifier(p) \/ SendProof(p) \/ SendVerifier(p)

Serve(p) == Handler(p) \/ Service(p) \/ Prover(p) \/ HubClient(p) \/ Hub(p)

Next ==
    \/ \E p \in Call : Ask(p) \/ Serve(p) \/ Lose(p) \/ Abandon(p)
    \/ \E h \in Hash : Push(h) \/ Expire(h)
    \/ \E f \in Files : ChangeFile(f)

Spec == Init /\ [][Next]_vars

(* The event loops run what is ready, and everything a call waits for has  *)
(* a timeout: 30 seconds an RPC, 300 seconds an HTTP request.              *)
FairSpec == Spec /\ \A p \in Call : WF_vars(Serve(p))

-----------------------------------------------------------------------------
(* Properties. *)

Pcs == {"idle", "sealing", "sent", "input", "validate", "choose", "rpc", "result", "served",
        "update", "posted", "reported", "over", "gone"}

Answers == {"none", "SUCCESSFULLY", "ERROR", "RAISED", "FAILED", "NOT_SUPPORTED", "UNIMPLEMENTED",
            "TASK_NOT_FOUND", "TASK_INVALID", "PROVER_NOT_RESPONSE", "PUBLIC_KEY_NOT_FOUND",
            "PRIVATE_KEY_NOT_FOUND", "PRIVATE_KEY_INVALID", "UNAUTHORIZED_PAYLOAD",
            "UNSUPPORT_OAUTH_PROVIDER", "UNSUPPORT_TASK_TYPE", "UNSUPPORT_PROVER"}

Calls == [pc : Pcs, req : Request \cup {NoRequest}, key : Key \cup {Nothing}, claimed : BOOLEAN,
          method : Offered \cup {"Prove", "none"}, proof : BOOLEAN,
          project : Projects \cup {Anonymous, Nothing}, answer : Answers]

(* Every variable has its type; a project is a known one, or Anonymous. *)
TypeOK ==
    /\ table \in [Hash -> {"new", "pending", "running", "expired"}]
    /\ files \in [Files -> Content]
    /\ call \in [Call -> Calls]
    /\ letter \in [Call -> [stage : {"none", "sent", "lost", "open", "ok", "refused"},
                            key : Key \cup {Nothing}]]
    /\ told \in SUBSET Call
    /\ faults \in 0..MaxFaults

(* A hash serves one call, however that call ends: when the service raises *)
(* after claim_task, or the input was refused, a retry is refused too.     *)
ClaimsAreFinal ==
    \A p, q \in Call :
        call[p].claimed /\ call[q].claimed /\ Asked(p).hash = Asked(q).hash => p = q

(* Whatever route, version and provider a client names: a proof for        *)
(* zkLogin is made only of an input signed by the provider the circuit is  *)
(* bound to, or by the one named when it is bound to none, and an input    *)
(* with modules is proved only for the circuits that are not looked at.    *)
ProofsAuthorised ==
    \A p \in Call : call[p].proof =>
        \/ /\ Asked(p).task = "zklogin"
           /\ IF Asked(p).circuit \in DOMAIN Bindings
              THEN Asked(p).content = Bindings[Asked(p).circuit]
              ELSE Asked(p).content = Asked(p).provider
        \/ /\ Asked(p).task = "tiga"
           /\ Asked(p).content = "modules" => Asked(p).circuit \in {"10005", "10006", "10010"}

(* The digits of an id as character codes. *)
Spelled(id) ==
    [j \in 1..(2 * Len(id)) |->
        LET code == 48 + id[(j + 1) \div 2] IN IF j % 2 = 1 THEN code \div 10 ELSE code % 10]

(* A proof is reported for the project whose id it carries, plain or as    *)
(* character codes, whichever of the functions of the services made it:    *)
(* each reads the id off the field that has the public inputs.             *)
NamesProject ==
    \A p \in Call : call[p].project # Nothing =>
        \A id \in Projects : Asked(p).id \in {id, Spelled(id)} => call[p].project = id

(* A request that every stage accepts. *)
WellFormed(r) ==
    \/ r.op = "verifier" /\ r.sealed /\ r.content # "empty"
    \/ /\ \/ /\ r.op \in {"prove_nosha256", "prove_nosha256_with_witness", "prove_nosha256_offchain"}
             /\ r.prover = "circom"
          \/ /\ r.op = "prove_v2"
             /\ \/ r.prover = "circom"
                \/ r.prover = "private" /\ r.circuit \in {"10005", "10006", "10010"}
       /\ \/ /\ r.task = "zklogin" /\ r.content \in Providers
             /\ r.content = IF r.circuit \in DOMAIN Bindings THEN Bindings[r.circuit] ELSE r.provider
          \/ r.task = "tiga" /\ r.content \notin {"modules", "junk"}

(* Without failures a well-formed request that claims its hash gets its    *)
(* proof, a well-formed update succeeds, and the explorer has the report   *)
(* before the client has the answer.                                       *)
Served ==
    faults = 0 => \A p \in Call :
        At(p, "over") /\ WellFormed(Asked(p)) /\ (call[p].claimed \/ Updates(p)) =>
            /\ call[p].answer = "SUCCESSFULLY" /\ p \in told
            /\ call[p].claimed => call[p].proof

(* No failure of the hub or the explorer, and no lost or late answer,      *)
(* keeps a proof from its client; only a session key file that is empty or *)
(* half written does, which raises in send_result.                         *)
ProofReachesClient ==
    [][\A p \in Call :
        call[p].proof /\ ~At(p, "over") /\ call'[p].pc = "over" =>
            call'[p].answer = "SUCCESSFULLY" \/ files["session"] = "torn"]_vars

(* Every request ends, whatever fails. *)
CallsEnd == \A p \in Call : ~At(p, "idle") ~> call[p].pc \in {"over", "gone"}

(* The promise of TaskLife for one node: only a call that holds a hash     *)
(* reports, and it is heard at most once.                                  *)
Life == INSTANCE TaskLife WITH
    Task <- Hash,
    offered <- {h \in Hash : table[h] = "pending"},
    holders <- [h \in Hash |-> {p \in Call : call[p].claimed /\ Working(p) /\ Asked(p).hash = h}],
    mailed <- {p \in Call : call[p].claimed /\ letter[p].stage \in {"sent", "open"}},
    heard <- {p \in told : call[p].claimed}

KeepsPromise == Life!Spec
=============================================================================
