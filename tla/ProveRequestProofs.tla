------------------------- MODULE ProveRequestProofs -------------------------
(***************************************************************************)
(* Proofs about ProveRequest, for any hashes, keys, requests, bindings,    *)
(* projects and numbers of calls and failures.                             *)
(*                                                                         *)
(* What happens to a call is decided by its own record: Sound says what a  *)
(* record may be at each stage, and one lemma per step shows that the step *)
(* leaves the other calls alone and this one sound (Moves).                *)
(***************************************************************************)
EXTENDS ProveRequest, TLAPS, SequenceTheorems

(* ProofsAuthorised of one request. *)
Authorised(r) ==
    \/ /\ r.task = "zklogin"
       /\ IF r.circuit \in DOMAIN Bindings
          THEN r.content = Bindings[r.circuit]
          ELSE r.content = r.provider
    \/ /\ r.task = "tiga"
       /\ r.content = "modules" => r.circuit \in {"10005", "10006", "10010"}

(* A claim is made once, at "sent"; what is proved was validated; a proof  *)
(* comes with its answer, and has no way back to a stage that refuses.     *)
Sound(c) ==
    /\ c.pc # "idle" => c.req \in Request
    /\ c.claimed => c.pc \notin {"idle", "sealing", "sent"}
    /\ c.pc \in {"choose", "rpc"} => Authorised(c.req)
    /\ c.pc = "rpc" => c.req.op # "verifier"
    /\ c.proof => /\ c.pc \in {"result", "served", "posted", "reported", "over", "gone"}
                  /\ c.req.op # "verifier" /\ Authorised(c.req)
                  /\ c.pc # "over" => c.answer = "SUCCESSFULLY"

Typed == call \in [Call -> Calls] /\ \A p \in Call : Sound(call[p])

(* Every variable but call has its type. *)
Around ==
    /\ table \in [Hash -> {"new", "pending", "running", "expired"}]
    /\ files \in [Files -> Content]
    /\ letter \in [Call -> [stage : {"none", "sent", "lost", "open", "ok", "refused"},
                            key : Key \cup {Nothing}]]
    /\ told \in SUBSET Call
    /\ faults \in 0..MaxFaults

LEMMA TypeParts == TypeOK <=> Around /\ call \in [Call -> Calls]
BY DEF TypeOK, Around

(* A step of call p: the others stay, p stays sound, and the answer to a   *)
(* call with a proof is the proof.                                         *)
Changes(p) ==
    /\ call' \in [Call -> Calls]
    /\ \A q \in Call : q # p => call'[q] = call[q]
    /\ Sound(call'[p])
    /\ call[p].proof /\ call[p].pc # "over" /\ call'[p].pc = "over" =>
         call'[p].answer = "SUCCESSFULLY" \/ files["session"] = "torn"

(* Every step but Claim: no new claim. *)
Moves(p) ==
    /\ Changes(p)
    /\ call'[p].claimed = call[p].claimed
    /\ call[p].claimed => call'[p].req = call[p].req

(* The methods and codes the service functions choose. *)
Choices == Offered \cup {"Prove", "UNSUPPORT_PROVER", "UNSUPPORT_TASK_TYPE"}

-----------------------------------------------------------------------------
(* The steps of a call *)

LEMMA Asking ==
    ASSUME Typed, NEW p \in Call, Ask(p)
    PROVE  Moves(p)
<1>1. PICK r \in Asks[p] :
        call' = [call EXCEPT ![p].pc = IF r.sealed THEN "sealing" ELSE "sent", ![p].req = r]
  BY DEF Ask
<1>2. r \in Request BY RequestAssumption
<1>3. call[p] \in Calls /\ Sound(call[p]) /\ call[p].pc = "idle" BY DEF Typed, Ask, At
<1>4. /\ call'[p].pc \in {"sealing", "sent"} /\ call'[p].req = r
      /\ call[p].claimed = FALSE /\ call'[p].claimed = FALSE
      /\ call[p].proof = FALSE /\ call'[p].proof = FALSE
  BY <1>1, <1>3 DEF Typed, Sound, Calls
<1>5. call' \in [Call -> Calls]
  <2> DEFINE d == [call[p] EXCEPT !.pc = IF r.sealed THEN "sealing" ELSE "sent", !.req = r]
  <2>1. d \in Calls BY <1>1, <1>2, <1>3 DEF Calls, Pcs
  <2>2. call' = [call EXCEPT ![p] = d] BY <1>1
  <2> HIDE DEF d
  <2>q. QED BY <2>1, <2>2 DEF Typed
<1>6. \A q \in Call : q # p => call'[q] = call[q] BY <1>1 DEF Typed
<1>7. Sound(call'[p]) BY <1>2, <1>4 DEF Sound
<1>q. QED BY <1>3, <1>4, <1>5, <1>6, <1>7 DEF Moves, Changes, Sound

(* A call that refuses, or ends before it has a proof. *)
LEMMA Ending ==
    ASSUME Typed, NEW p \in Call, NEW a \in Answers, End(p, a), call[p].pc # "idle",
           \/ call[p].pc \in {"sealing", "sent", "input", "validate", "choose", "update"}
           \/ call[p].req.op = "verifier"
           \/ call[p].pc \in {"served", "posted"} /\ files["session"] = "torn"
    PROVE  Moves(p)
<1>1. call' = [call EXCEPT ![p].pc = "over", ![p].answer = a] BY DEF End
<1>2. call[p] \in Calls /\ Sound(call[p]) BY DEF Typed
<1>3. /\ call'[p].pc = "over" /\ call'[p].answer = a /\ call'[p].req = call[p].req
      /\ call'[p].claimed = call[p].claimed /\ call'[p].proof = call[p].proof
  BY <1>1, <1>2 DEF Typed, Calls
<1>4. call' \in [Call -> Calls]
  <2> DEFINE d == [call[p] EXCEPT !.pc = "over", !.answer = a]
  <2>1. d \in Calls BY <1>2 DEF Calls, Pcs
  <2>2. call' = [call EXCEPT ![p] = d] BY <1>1
  <2> HIDE DEF d
  <2>q. QED BY <2>1, <2>2 DEF Typed
<1>5. \A q \in Call : q # p => call'[q] = call[q] BY <1>1 DEF Typed
<1>6. Sound(call'[p]) BY <1>2, <1>3 DEF Sound
<1>q. QED BY <1>2, <1>3, <1>4, <1>5, <1>6 DEF Moves, Changes, Sound

(* A call goes to a stage where its record stays sound. *)
LEMMA Going ==
    ASSUME Typed, NEW p \in Call, NEW pc \in Pcs \ {"idle", "sealing", "sent"}, Goto(p, pc),
           call[p].pc \notin {"idle", "over"},
           pc \in {"choose", "rpc"} => Authorised(call[p].req),
           pc = "rpc" => call[p].req.op # "verifier",
           call[p].proof => pc \in {"result", "served", "posted", "reported", "over", "gone"}
    PROVE  Moves(p)
<1>1. call' = [call EXCEPT ![p].pc = pc] BY DEF Goto
<1>2. call[p] \in Calls /\ Sound(call[p]) BY DEF Typed
<1>3. /\ call'[p].pc = pc /\ call'[p].answer = call[p].answer /\ call'[p].req = call[p].req
      /\ call'[p].claimed = call[p].claimed /\ call'[p].proof = call[p].proof
  BY <1>1, <1>2 DEF Typed, Calls
<1>4. call' \in [Call -> Calls] BY <1>1 DEF Typed, Calls
<1>5. \A q \in Call : q # p => call'[q] = call[q] BY <1>1 DEF Typed
<1>6. Sound(call'[p]) BY <1>2, <1>3 DEF Sound
<1>q. QED BY <1>2, <1>3, <1>4, <1>5, <1>6 DEF Moves, Changes, Sound

LEMMA GettingKey ==
    ASSUME Typed, NEW p \in Call, GetPublicKey(p)
    PROVE  Moves(p)
<1>1. call[p].pc = "sealing" BY DEF GetPublicKey, At
<1>2. CASE files["public"] \notin Key
  BY <1>1, <1>2, Ending DEF GetPublicKey, Answers
<1>3. CASE files["public"] \in Key
  <2>1. call' = [call EXCEPT ![p].pc = "sent", ![p].key = files["public"]]
    BY <1>3 DEF GetPublicKey
  <2>2. call[p] \in Calls /\ Sound(call[p]) BY DEF Typed
  <2>3. /\ call'[p].pc = "sent" /\ call'[p].req = call[p].req
        /\ call'[p].claimed = call[p].claimed /\ call'[p].proof = call[p].proof
    BY <2>1, <2>2 DEF Typed, Calls
  <2>4. call' \in [Call -> Calls]
    <3> DEFINE d == [call[p] EXCEPT !.pc = "sent", !.key = files["public"]]
    <3>1. d \in Calls BY <1>3, <2>2 DEF Calls, Pcs
    <3>2. call' = [call EXCEPT ![p] = d] BY <2>1
    <3> HIDE DEF d
    <3>q. QED BY <3>1, <3>2 DEF Typed
  <2>5. \A q \in Call : q # p => call'[q] = call[q] BY <2>1 DEF Typed
  <2>6. Sound(call'[p]) BY <1>1, <2>2, <2>3 DEF Sound
  <2>q. QED BY <2>2, <2>3, <2>4, <2>5, <2>6 DEF Moves, Changes, Sound
<1>q. QED BY <1>2, <1>3

(* A claim ends the call, or changes the table and takes the hash. *)
LEMMA Claiming ==
    ASSUME Typed, NEW p \in Call, Claim(p)
    PROVE  \/ Moves(p) /\ table' = table
           \/ /\ Changes(p)
              /\ table[Asked(p).hash] = "pending"
              /\ table' = [table EXCEPT ![Asked(p).hash] = "running"]
              /\ call'[p].claimed /\ call'[p].pc = "input" /\ call'[p].req = call[p].req
<1>1. call[p].pc = "sent" BY DEF Claim, At
<1>2. CASE ~Claimable(Asked(p).hash)
  <2>1. PICK a \in {"TASK_INVALID", "TASK_NOT_FOUND"} : End(p, a)
    BY <1>2 DEF Claim
  <2>q. QED BY <1>1, <1>2, <2>1, Ending DEF Claim, Answers
<1>3. CASE Claimable(Asked(p).hash)
  <2>1. /\ call' = [call EXCEPT ![p].pc = "input", ![p].claimed = TRUE]
        /\ table' = [table EXCEPT ![Asked(p).hash] = "running"]
    BY <1>3 DEF Claim
  <2>2. call[p] \in Calls /\ Sound(call[p]) BY DEF Typed
  <2>3. /\ call'[p].pc = "input" /\ call'[p].req = call[p].req
        /\ call'[p].claimed /\ call'[p].proof = call[p].proof
    BY <2>1, <2>2 DEF Typed, Calls
  <2>4. call' \in [Call -> Calls]
    <3> DEFINE d == [call[p] EXCEPT !.pc = "input", !.claimed = TRUE]
    <3>1. d \in Calls BY <2>2 DEF Calls, Pcs
    <3>2. call' = [call EXCEPT ![p] = d] BY <2>1
    <3> HIDE DEF d
    <3>q. QED BY <3>1, <3>2 DEF Typed
  <2>5. \A q \in Call : q # p => call'[q] = call[q] BY <2>1 DEF Typed
  <2>6. Sound(call'[p]) BY <1>1, <2>2, <2>3 DEF Sound
  <2>q. QED BY <1>3, <2>1, <2>2, <2>3, <2>4, <2>5, <2>6 DEF Changes, Sound, Claimable
<1>q. QED BY <1>2, <1>3

LEMMA Replying ==
    ASSUME Typed, NEW p \in Call, Reply(p)
    PROVE  Moves(p)
<1>1. call[p].pc \in {"reported", "served"} /\ Goto(p, "over") BY DEF Reply, At
<1>2. "over" \in Pcs \ {"idle", "sealing", "sent"} BY DEF Pcs
<1>q. QED BY <1>1, <1>2, Going

LEMMA Opening ==
    ASSUME Typed, NEW p \in Call, ProcessInput(p)
    PROVE  Moves(p)
<1> DEFINE result == IF Asked(p).sealed THEN Decrypted(files["private"], call[p].key) ELSE "ok"
<1>1. call[p].pc = "input" BY DEF ProcessInput, At
<1>2. ~call[p].proof BY <1>1 DEF Typed, Sound
<1>3. CASE result = "ok"
  <2>1. Goto(p, "validate") BY <1>3 DEF ProcessInput
  <2>2. "validate" \in Pcs \ {"idle", "sealing", "sent"} BY DEF Pcs
  <2>q. QED BY <1>1, <1>2, <2>1, <2>2, Going
<1>4. CASE result # "ok"
  <2>1. End(p, result) BY <1>4 DEF ProcessInput
  <2>2. result \in Answers BY <1>4 DEF Decrypted, Answers
  <2> HIDE DEF result
  <2>q. QED BY <1>1, <2>1, <2>2, Ending
<1>q. QED BY <1>3, <1>4

(* A result of a check lets the call on only if it is "ok". *)
LEMMA Validation ==
    ASSUME Typed, NEW p \in Call, call[p].pc = "validate", NEW result \in Answers \cup {"ok"},
           Valid(p, result), result = "ok" => Authorised(call[p].req)
    PROVE  Moves(p)
<1>1. ~call[p].proof BY DEF Typed, Sound
<1>2. CASE result = "ok"
  <2>1. Goto(p, "choose") BY <1>2 DEF Valid
  <2>2. "choose" \in Pcs \ {"idle", "sealing", "sent"} BY DEF Pcs
  <2>q. QED BY <1>1, <1>2, <2>1, <2>2, Going
<1>3. CASE result # "ok"
  <2>1. End(p, result) /\ result \in Answers BY <1>3 DEF Valid
  <2>q. QED BY <2>1, Ending
<1>q. QED BY <1>2, <1>3

LEMMA Validating ==
    ASSUME Typed, NEW p \in Call, Validate(p)
    PROVE  Moves(p)
<1> DEFINE provider == Resolved(Asked(p).circuit, Asked(p).provider)
<1>1. call[p].pc = "validate" BY DEF Validate, At
<1>2. CASE Asked(p).task = "zklogin" /\ provider \in Providers
  <2>1. \/ \E result \in Verified(provider, Asked(p).content) : Valid(p, result)
        \/ \E result \in VerifyFails(provider, Asked(p).content) : End(p, result)
    BY <1>2 DEF Validate
  <2>2. ASSUME NEW result \in Verified(provider, Asked(p).content), Valid(p, result)
        PROVE  Moves(p)
    <3>1. result \in Answers \cup {"ok"} BY <2>2 DEF Verified, Answers
    <3>2. result = "ok" => Authorised(call[p].req)
      BY <1>2, <2>2 DEF Verified, Authorised, Resolved, Asked
    <3>q. QED BY <1>1, <2>2, <3>1, <3>2, Validation
  <2>3. ASSUME NEW result \in VerifyFails(provider, Asked(p).content), End(p, result)
        PROVE  Moves(p)
    <3>1. result \in Answers BY <2>3 DEF VerifyFails, Answers
    <3>q. QED BY <1>1, <2>3, <3>1, Ending
  <2>q. QED BY <2>1, <2>2, <2>3
<1>3. CASE Asked(p).task = "tiga"
  <2>1. Valid(p, Tiga(p)) BY <1>3 DEF Validate
  <2>2. Tiga(p) \in Answers \cup {"ok"} BY DEF Tiga, Answers
  <2>3. Tiga(p) = "ok" => Authorised(call[p].req)
    BY <1>3 DEF Tiga, Exempt, Authorised, Asked
  <2>q. QED BY <1>1, <2>1, <2>2, <2>3, Validation
<1>4. CASE /\ Asked(p).task # "tiga"
           /\ ~(Asked(p).task = "zklogin" /\ provider \in Providers)
  <2>1. PICK a \in {"UNSUPPORT_OAUTH_PROVIDER", "UNSUPPORT_TASK_TYPE"} : End(p, a)
    BY <1>4 DEF Validate
  <2>2. a \in Answers BY DEF Answers
  <2>q. QED BY <1>1, <2>1, <2>2, Ending
<1>q. QED BY <1>2, <1>3, <1>4

LEMMA Choosing ==
    ASSUME Typed, NEW p \in Call, NEW choice \in Choices, Choose(p, choice),
           call[p].req.op # "verifier"
    PROVE  Moves(p)
<1>1. call[p].pc = "choose" BY DEF Choose, At
<1>2. CASE choice \notin Offered \cup {"Prove"}
  <2>1. End(p, choice) BY <1>2 DEF Choose
  <2>2. choice \in Answers BY <1>2 DEF Choices, Answers
  <2>q. QED BY <1>1, <2>1, <2>2, Ending
<1>3. CASE choice \in Offered \cup {"Prove"}
  <2>1. call' = [call EXCEPT ![p].pc = "rpc", ![p].method = choice]
    BY <1>3 DEF Choose
  <2>2. call[p] \in Calls /\ Sound(call[p]) BY DEF Typed
  <2>3. /\ call'[p].pc = "rpc" /\ call'[p].req = call[p].req
        /\ call'[p].claimed = call[p].claimed /\ call'[p].proof = call[p].proof
    BY <2>1, <2>2 DEF Typed, Calls
  <2>4. call' \in [Call -> Calls]
    <3> DEFINE d == [call[p] EXCEPT !.pc = "rpc", !.method = choice]
    <3>1. d \in Calls BY <1>3, <2>2 DEF Calls, Pcs
    <3>2. call' = [call EXCEPT ![p] = d] BY <2>1
    <3> HIDE DEF d
    <3>q. QED BY <3>1, <3>2 DEF Typed
  <2>5. \A q \in Call : q # p => call'[q] = call[q] BY <2>1 DEF Typed
  <2>6. Sound(call'[p]) BY <1>1, <2>2, <2>3 DEF Sound
  <2>q. QED BY <2>2, <2>3, <2>4, <2>5, <2>6 DEF Moves, Changes, Sound
<1>q. QED BY <1>2, <1>3

LEMMA GetProjectType == ASSUME NEW id PROVE GetProject(id) \in Projects \cup {Anonymous}
BY DEF GetProject, Known

LEMMA Resulting ==
    ASSUME Typed, NEW p \in Call, NEW field, Result(p, field)
    PROVE  Moves(p)
<1>1. call[p].pc = "result" BY DEF Result, At
<1>2. PICK project \in Projects \cup {Anonymous, Nothing} :
        call' = [call EXCEPT ![p].pc = "served", ![p].project = project]
  BY GetProjectType DEF Result
<1>3. call[p] \in Calls /\ Sound(call[p]) BY DEF Typed
<1>4. /\ call'[p].pc = "served" /\ call'[p].req = call[p].req /\ call'[p].answer = call[p].answer
      /\ call'[p].claimed = call[p].claimed /\ call'[p].proof = call[p].proof
  BY <1>2, <1>3 DEF Typed, Calls
<1>5. call' \in [Call -> Calls]
  <2> DEFINE d == [call[p] EXCEPT !.pc = "served", !.project = project]
  <2>1. d \in Calls BY <1>3 DEF Calls, Pcs
  <2>2. call' = [call EXCEPT ![p] = d] BY <1>2
  <2> HIDE DEF d
  <2>q. QED BY <2>1, <2>2 DEF Typed
<1>6. \A q \in Call : q # p => call'[q] = call[q] BY <1>2 DEF Typed
<1>7. Sound(call'[p]) BY <1>1, <1>3, <1>4 DEF Sound
<1>q. QED BY <1>3, <1>4, <1>5, <1>6, <1>7 DEF Moves, Changes, Sound

LEMMA Proving ==
    ASSUME Typed, NEW p \in Call, NEW method, Rpc(p, method)
    PROVE  Moves(p)
<1>1. call[p].pc = "rpc" BY DEF Rpc, At
<1>2. PICK a \in Answers, proof \in BOOLEAN :
        /\ proof => a = "SUCCESSFULLY"
        /\ call' = [call EXCEPT ![p].pc = "result", ![p].answer = a, ![p].proof = proof]
  BY DEF Rpc, Returned, Answers
<1>3. call[p] \in Calls /\ Sound(call[p]) BY DEF Typed
<1>4. /\ call'[p].pc = "result" /\ call'[p].req = call[p].req /\ call'[p].answer = a
      /\ call'[p].claimed = call[p].claimed /\ call'[p].proof = proof
  BY <1>2, <1>3 DEF Typed, Calls
<1>5. call' \in [Call -> Calls]
  <2> DEFINE d == [call[p] EXCEPT !.pc = "result", !.answer = a, !.proof = proof]
  <2>1. d \in Calls BY <1>2, <1>3 DEF Calls, Pcs
  <2>2. call' = [call EXCEPT ![p] = d] BY <1>2
  <2> HIDE DEF d
  <2>q. QED BY <2>1, <2>2 DEF Typed
<1>6. \A q \in Call : q # p => call'[q] = call[q] BY <1>2 DEF Typed
<1>7. Sound(call'[p]) BY <1>1, <1>2, <1>3, <1>4 DEF Sound
<1>q. QED BY <1>3, <1>4, <1>5, <1>6, <1>7 DEF Moves, Changes, Sound

(* Half a session key is the only thing in the way of a report. *)
LEMMA Posting ==
    ASSUME Typed, Around, NEW p \in Call, SendResult(p) \/ UpdateVerifier(p)
    PROVE  Moves(p)
<1>1. call[p].pc \in {"served", "update"} BY DEF SendResult, UpdateVerifier, At
<1>2. call[p].proof => call[p].pc = "served" BY <1>1 DEF Typed, Sound
<1>3. CASE files["session"] = "none"
  <2>1. \/ SendResult(p) /\ call[p].pc = "served" /\ Goto(p, "reported")
        \/ UpdateVerifier(p) /\ call[p].pc = "update" /\ End(p, "ERROR")
    <3>0. ~Encrypts(files["session"]) BY <1>3, RequestAssumption DEF Encrypts
    <3>1. CASE SendResult(p) BY <1>3, <3>0, <3>1 DEF SendResult, Post, At
    <3>2. CASE UpdateVerifier(p) BY <1>3, <3>0, <3>2 DEF UpdateVerifier, Post, At
    <3>q. QED BY <3>1, <3>2
  <2>2. "reported" \in Pcs \ {"idle", "sealing", "sent"} /\ "ERROR" \in Answers
    BY DEF Pcs, Answers
  <2>q. QED BY <2>1, <2>2, Going, Ending
<1>4. CASE files["session"] # "none" /\ Encrypts(files["session"])
  <2>1. Goto(p, "posted") BY <1>4 DEF SendResult, UpdateVerifier, Post
  <2>2. "posted" \in Pcs \ {"idle", "sealing", "sent"} BY DEF Pcs
  <2>q. QED BY <1>1, <2>1, <2>2, Going
<1>5. CASE files["session"] # "none" /\ ~Encrypts(files["session"])
  <2>1. End(p, "RAISED") BY <1>5 DEF SendResult, UpdateVerifier, Post
  <2>2. files["session"] = "torn" BY <1>5 DEF Encrypts, Around, Content, Files
  <2>3. "RAISED" \in Answers BY DEF Answers
  <2>q. QED BY <1>1, <2>1, <2>2, <2>3, Ending
<1>q. QED BY <1>3, <1>4, <1>5

LEMMA Settling ==
    ASSUME Typed, NEW p \in Call, EndPost(p) \/ Timeout(p)
    PROVE  Moves(p)
<1>1. call[p].pc = "posted" BY DEF EndPost, Timeout, At
<1>2. CASE Updates(p)
  <2>1. PICK a \in {"SUCCESSFULLY", "ERROR"} : End(p, a)
    BY <1>2 DEF EndPost, Timeout, Settle
  <2>2. a \in Answers /\ call[p].req.op = "verifier" BY <1>2 DEF Answers, Updates, Asked
  <2>q. QED BY <1>1, <2>1, <2>2, Ending
<1>3. CASE ~Updates(p)
  <2>1. Goto(p, "reported") BY <1>3 DEF EndPost, Timeout, Settle
  <2>2. "reported" \in Pcs \ {"idle", "sealing", "sent"} BY DEF Pcs
  <2>q. QED BY <1>1, <2>1, <2>2, Going
<1>q. QED BY <1>2, <1>3

LEMMA OpeningUpdate ==
    ASSUME Typed, NEW p \in Call, OpenUpdate(p)
    PROVE  Moves(p)
<1>1. call[p].pc = "sent" BY DEF OpenUpdate, At
<1>2. ~call[p].proof BY <1>1 DEF Typed, Sound
<1>3. \/ Goto(p, "update")
      \/ \E a \in {"PRIVATE_KEY_INVALID", "PRIVATE_KEY_NOT_FOUND", "RAISED"} : End(p, a)
  BY DEF OpenUpdate, Decrypted
<1>4. "update" \in Pcs \ {"idle", "sealing", "sent"}
      /\ {"PRIVATE_KEY_INVALID", "PRIVATE_KEY_NOT_FOUND", "RAISED"} \subseteq Answers
  BY DEF Pcs, Answers
<1>q. QED BY <1>1, <1>2, <1>3, <1>4, Going, Ending

LEMMA Leaving ==
    ASSUME Typed, NEW p \in Call, Abandon(p)
    PROVE  Moves(p)
<1>1. call[p].pc \notin {"idle", "over"} /\ Goto(p, "gone") BY DEF Abandon, Working
<1>2. "gone" \in Pcs \ {"idle", "sealing", "sent"} BY DEF Pcs
<1>q. QED BY <1>1, <1>2, Going

LEMMA Refusing ==
    ASSUME Typed, NEW p \in Call, Http1NotSupported(p) \/ Grpc1Unimplemented(p)
    PROVE  Moves(p)
<1>1. call[p].pc = "sent" BY DEF Http1NotSupported, Grpc1Unimplemented, At
<1>2. PICK a \in {"NOT_SUPPORTED", "UNIMPLEMENTED"} : End(p, a)
  BY DEF Http1NotSupported, Grpc1Unimplemented
<1>3. a \in Answers BY DEF Answers
<1>q. QED BY <1>1, <1>2, <1>3, Ending

-----------------------------------------------------------------------------
(* The steps of Next by what they do *)

Handling(p) ==
    \/ GetPublicKey(p) \/ Reply(p) \/ OpenUpdate(p)
    \/ Claim(p) /\ call[p].req.op # "verifier"
    \/ Http1NotSupported(p) \/ Grpc1Unimplemented(p)

LEMMA HandlerCases == ASSUME NEW p \in Call, Handler(p) PROVE Handling(p)
BY DEF Handler, Handling, Handles, Http1Prove, Http1Nosha256, Http1WithWitness, Http1Offchain,
       Grpc1Nosha256, Grpc1WithWitness, Grpc1Offchain, Http2Prove, Grpc2Prove,
       Http1Verifier, Grpc1UpdateVerifier, HttpPublicKey, GrpcPublicKey, Asked

Serving(p) ==
    \/ ProcessInput(p) \/ Validate(p)
    \/ /\ call[p].req.op # "verifier"
       /\ \E choice \in Choices :
            Choose(p, choice) /\ (WellFormed(call[p].req) => choice \in Offered)
    \/ \E field \in {"proof", "witness", "public_witness"} : Result(p, field)

LEMMA V1Cases ==
    ASSUME NEW p \in Call, NEW op \in {"prove", "prove_nosha256", "prove_nosha256_with_witness",
                                       "prove_nosha256_offchain"},
           NEW method \in Offered \cup {"Prove"},
           NEW field \in {"proof", "witness", "public_witness"}, V1(p, op, method, field),
           op # "prove" => method \in Offered
    PROVE  Serving(p)
<1>1. CASE Result(p, field) BY <1>1 DEF Serving
<1>2. CASE ~Result(p, field)
  <2>1. PICK choice \in {method, "UNSUPPORT_PROVER"} :
          Choose(p, choice) /\ (call[p].req.prover = "circom" => choice = method)
    BY <1>2 DEF V1, Asked
  <2>2. call[p].req.op = op BY DEF V1, Asked
  <2>3. WellFormed(call[p].req) => choice \in Offered
    BY <2>1, <2>2 DEF WellFormed
  <2>q. QED BY <2>1, <2>2, <2>3 DEF Serving, Choices
<1>q. QED BY <1>1, <1>2

LEMMA ServiceCases == ASSUME NEW p \in Call, Service(p) PROVE Serving(p)
<1>1. CASE V1ProcessInput(p) \/ V2ProcessInput(p) \/ V1Validate(p) \/ V2Validate(p)
  BY <1>1 DEF V1ProcessInput, V2ProcessInput, V1Validate, V2Validate, Serving
<1>2. CASE V1Prove(p) \/ V1Nosha256(p) \/ V1WithWitness(p) \/ V1Offchain(p)
  BY <1>2, V1Cases DEF V1Prove, V1Nosha256, V1WithWitness, V1Offchain, Offered
<1>3. CASE V2Prove(p)
  <2>1. call[p].req.op = "prove_v2" BY <1>3 DEF V2Prove, Version2, Asked
  <2>2. CASE Result(p, "public_witness") BY <2>2 DEF Serving
  <2>3. CASE Asked(p).prover = "circom" /\ Choose(p, "ProveV2")
    BY <2>1, <2>3 DEF Serving, Choices, Offered
  <2>4. CASE Asked(p).prover = "private" /\ Choose(p, PrivateMethod(Asked(p).circuit))
    <3>1. PrivateMethod(Asked(p).circuit) \in Choices BY DEF PrivateMethod, Choices, Offered
    <3>2. WellFormed(call[p].req) => PrivateMethod(Asked(p).circuit) \in Offered
      BY <2>1, <2>4 DEF WellFormed, PrivateMethod, Offered, Asked
    <3>q. QED BY <2>1, <2>4, <3>1, <3>2 DEF Serving
  <2>5. CASE Asked(p).prover \notin {"circom", "private"} /\ Choose(p, "UNSUPPORT_PROVER")
    <3>1. ~WellFormed(call[p].req) BY <2>1, <2>5 DEF WellFormed, Asked
    <3>q. QED BY <2>1, <2>5, <3>1 DEF Serving, Choices
  <2>q. QED BY <1>3, <2>2, <2>3, <2>4, <2>5 DEF V2Prove
<1>q. QED BY <1>1, <1>2, <1>3 DEF Service

LEMMA ProverCases ==
    ASSUME NEW p \in Call, Prover(p)
    PROVE  \E method \in Offered \cup {"Prove"} : Rpc(p, method)
BY DEF Prover, Offered, CircomProve, CircomNosha256, CircomWithWitness, CircomOffchain,
       CircomProveV2, PrivateTiga, PrivateBinance, PrivateMerkle

LEMMA HubCases == ASSUME NEW p \in Call, Hub(p) PROVE Opens(p) \/ Forward(p)
BY DEF Hub, PostResult, PutVerifier, SendProof, SendVerifier

(* The claim of a hash. *)
Takes(p) ==
    /\ Changes(p)
    /\ table[Asked(p).hash] = "pending"
    /\ table' = [table EXCEPT ![Asked(p).hash] = "running"]
    /\ call'[p].claimed /\ call'[p].pc = "input" /\ call'[p].req = call[p].req

(* No step gives a hash that was claimed back. *)
Advances == \A h \in Hash : table[h] \in {"running", "expired"} => table'[h] \in {"running", "expired"}

LEMMA Steps ==
    ASSUME Typed, Around, Next
    PROVE  \/ call' = call /\ Advances
           \/ \E p \in Call : Moves(p) /\ table' = table
           \/ \E p \in Call : Takes(p)
<1>1. ASSUME NEW p \in Call, Ask(p) PROVE Moves(p) /\ table' = table
  BY <1>1, Asking DEF Ask
<1>2. ASSUME NEW p \in Call, Handler(p) PROVE (Moves(p) /\ table' = table) \/ Takes(p)
  <2>1. Handling(p) BY <1>2, HandlerCases
  <2>2. CASE GetPublicKey(p) BY <2>2, GettingKey DEF GetPublicKey
  <2>3. CASE Claim(p) BY <2>3, Claiming DEF Takes
  <2>4. CASE Reply(p) BY <2>4, Replying DEF Reply
  <2>5. CASE OpenUpdate(p) BY <2>5, OpeningUpdate DEF OpenUpdate
  <2>6. CASE Http1NotSupported(p) \/ Grpc1Unimplemented(p)
    BY <2>6, Refusing DEF Http1NotSupported, Grpc1Unimplemented
  <2>q. QED BY <2>1, <2>2, <2>3, <2>4, <2>5, <2>6 DEF Handling
<1>3. ASSUME NEW p \in Call, Service(p) PROVE Moves(p) /\ table' = table
  <2>1. Serving(p) BY <1>3, ServiceCases
  <2>2. CASE ProcessInput(p) BY <2>2, Opening DEF ProcessInput
  <2>3. CASE Validate(p) BY <2>3, Validating DEF Validate
  <2>4. ASSUME NEW choice \in Choices, call[p].req.op # "verifier", Choose(p, choice)
        PROVE  Moves(p) /\ table' = table
    BY <2>4, Choosing DEF Choose
  <2>5. ASSUME NEW field, Result(p, field) PROVE Moves(p) /\ table' = table
    BY <2>5, Resulting DEF Result
  <2>q. QED BY <2>1, <2>2, <2>3, <2>4, <2>5 DEF Serving
<1>4. ASSUME NEW p \in Call, Prover(p) PROVE Moves(p) /\ table' = table
  BY <1>4, ProverCases, Proving DEF Rpc
<1>5. ASSUME NEW p \in Call, HubClient(p) PROVE Moves(p) /\ table' = table
  BY <1>5, Posting, Settling DEF HubClient, SendResult, UpdateVerifier, EndPost, Timeout
<1>6. ASSUME NEW p \in Call, Hub(p) \/ Lose(p) PROVE call' = call /\ table' = table
  BY <1>6, HubCases DEF Opens, Forward, Lose
<1>7. ASSUME NEW p \in Call, Abandon(p) PROVE Moves(p) /\ table' = table
  BY <1>7, Leaving DEF Abandon
<1>8. ASSUME NEW h \in Hash, Push(h) \/ Expire(h) PROVE call' = call /\ Advances
  BY <1>8 DEF Push, Expire, Advances, Around
<1>9. ASSUME NEW f \in Files, ChangeFile(f) PROVE call' = call /\ table' = table
  BY <1>9 DEF ChangeFile
<1>10. table' = table => Advances BY DEF Advances
<1>q. QED BY <1>1, <1>2, <1>3, <1>4, <1>5, <1>6, <1>7, <1>8, <1>9, <1>10 DEF Next, Serve

-----------------------------------------------------------------------------
(* Type correctness *)

(* Posting, opening and forwarding keep a letter a letter. *)
LEMMA AroundNext ==
    ASSUME Typed, Around, Next
    PROVE  Around'
<1>1. ASSUME NEW p \in Call, Ask(p) PROVE Around'
  BY <1>1 DEF Ask, Around
<1>2. ASSUME NEW p \in Call, Handler(p) PROVE Around'
  <2>1. Handling(p) BY <1>2, HandlerCases
  <2>2. CASE Claim(p)
    <3>1. call[p].pc = "sent" BY <2>2 DEF Claim, At
    <3>2. Asked(p).hash \in Hash BY <3>1, RequestAssumption DEF Typed, Sound, Asked
    <3>q. QED BY <2>2, <3>2 DEF Claim, Around
  <2>q. QED BY <2>1, <2>2 DEF Handling, GetPublicKey, Reply, OpenUpdate, Http1NotSupported,
                Grpc1Unimplemented, Around
<1>3. Fault => faults' \in 0..MaxFaults
  BY RequestAssumption DEF Fault, Around
<1>4. ASSUME NEW p \in Call, Service(p) PROVE Around'
  <2>1. Serving(p) BY <1>4, ServiceCases
  <2>2. CASE Validate(p)
    <3>1. Fault \/ UNCHANGED faults BY <2>2 DEF Validate
    <3>q. QED BY <1>3, <2>2, <3>1 DEF Validate, Around
  <2>q. QED BY <2>1, <2>2 DEF Serving, ProcessInput, Choose, Result, Around
<1>5. ASSUME NEW p \in Call, Prover(p) PROVE Around'
  BY <1>3, <1>5, ProverCases DEF Rpc, Around
<1>6. ASSUME NEW p \in Call, HubClient(p) PROVE Around'
  <2>1. CASE SendResult(p) \/ UpdateVerifier(p)
    <3>1. UNCHANGED <<table, files, told, faults>> BY <2>1 DEF SendResult, UpdateVerifier
    <3>2. \/ letter' = letter
          \/ /\ files["session"] \in Key
             /\ letter' = [letter EXCEPT ![p] = [stage |-> "sent", key |-> files["session"]]]
      BY <2>1 DEF SendResult, UpdateVerifier, Post, Encrypts
    <3>q. QED BY <3>1, <3>2 DEF Around
  <2>q. QED BY <1>3, <1>6, <2>1 DEF HubClient, EndPost, Timeout, Around
<1>7. ASSUME NEW p \in Call, Hub(p) \/ Lose(p) PROVE Around'
  <2>1. CASE Opens(p) BY <2>1 DEF Opens, Around
  <2>2. CASE Forward(p)
    <3>1. /\ UNCHANGED <<table, files, call>>
          /\ faults' \in 0..MaxFaults /\ told' \in SUBSET Call
      BY <1>3, <2>2 DEF Forward, Around
    <3>2. PICK stage \in {"refused", "ok"} : letter' = [letter EXCEPT ![p].stage = stage]
      BY <2>2 DEF Forward
    <3>q. QED BY <3>1, <3>2 DEF Around
  <2>3. CASE Lose(p) BY <1>3, <2>3 DEF Lose, Around
  <2>q. QED BY <1>7, <2>1, <2>2, <2>3, HubCases
<1>8. ASSUME NEW p \in Call, Abandon(p) PROVE Around'
  BY <1>3, <1>8 DEF Abandon, Around
<1>9. ASSUME NEW h \in Hash, Push(h) \/ Expire(h) PROVE Around'
  BY <1>9 DEF Push, Expire, Around
<1>10. ASSUME NEW f \in Files, ChangeFile(f) PROVE Around'
  BY <1>3, <1>10 DEF ChangeFile, Around
<1>q. QED BY <1>1, <1>2, <1>4, <1>5, <1>6, <1>7, <1>8, <1>9, <1>10 DEF Next, Serve

LEMMA TypedNext ==
    ASSUME Typed, Around, [Next]_vars
    PROVE  Typed' /\ Around'
<1>1. CASE UNCHANGED vars
  BY <1>1 DEF vars, Typed, Around
<1>2. CASE Next
  <2>1. Typed' BY <1>2, Steps DEF Moves, Takes, Changes, Typed
  <2>q. QED BY <1>2, <2>1, AroundNext
<1>q. QED BY <1>1, <1>2

LEMMA TypedInit == Init => Typed /\ Around
<1>1. Init => call \in [Call -> Calls]
  BY DEF Init, Idle, NoRequest, Calls, Pcs, Answers
<1>2. Init => \A p \in Call : Sound(call[p])
  BY DEF Init, Idle, Sound
<1>3. Init => Around
  BY RequestAssumption DEF Init, Around, NoLetter, Content
<1>q. QED BY <1>1, <1>2, <1>3 DEF Typed

LEMMA TypedAlways == Spec => [](Typed /\ Around)
BY TypedInit, TypedNext, PTL DEF Spec

(* The type invariant. *)
THEOREM TypeCorrect == Spec => []TypeOK
<1>1. Typed /\ Around => TypeOK BY TypeParts DEF Typed
<1>q. QED BY <1>1, TypedAlways, PTL

-----------------------------------------------------------------------------
(* Authorisation, and the way back of a proof *)

(* No proof is made of an input that its provider did not sign, or of one  *)
(* with modules outside of the circuits that are exempt, for any bindings  *)
(* and requests, and whatever fails.                                       *)
THEOREM ProofsAreAuthorised == Spec => []ProofsAuthorised
<1>1. Typed => ProofsAuthorised
  BY DEF Typed, Sound, ProofsAuthorised, Authorised, Asked
<1>q. QED BY <1>1, TypedAlways, PTL

(* A client whose call has a proof gets it, unless a session key file that *)
(* holds no whole key made the report raise: no answer of the hub, and no  *)
(* missing one, changes the code.                                          *)
THEOREM ProofsReachClients == Spec => ProofReachesClient
<1> DEFINE Reaches == \A p \in Call :
             call[p].proof /\ ~At(p, "over") /\ call'[p].pc = "over" =>
               call'[p].answer = "SUCCESSFULLY" \/ files["session"] = "torn"
<1>1. ASSUME Typed, Around, [Next]_vars PROVE [Reaches]_vars
  <2>1. CASE Next
    <3>1. ASSUME call' = call PROVE Reaches BY <3>1 DEF At
    <3>2. ASSUME NEW p \in Call, Changes(p) PROVE Reaches
      BY <3>2 DEF Changes, At
    <3>q. QED BY <1>1, <2>1, <3>1, <3>2, Steps DEF Moves, Takes
  <2>q. QED BY <1>1, <2>1
<1>2. (Typed /\ Around) /\ [Next]_vars => [Reaches]_vars BY <1>1
<1>3. (Spec => [][Reaches]_vars) BY <1>2, TypedAlways, PTL DEF Spec
<1>q. QED BY <1>3 DEF ProofReachesClient

-----------------------------------------------------------------------------
(* Claims *)

(* A hash with a claim is not offered again. *)
Held == \A p \in Call : call[p].claimed => table[Asked(p).hash] \in {"running", "expired"}

ClaimInv == Held /\ ClaimsAreFinal

LEMMA ClaimMoves ==
    ASSUME Typed, Around, ClaimInv, NEW p \in Call, Moves(p), table' = table
    PROVE  ClaimInv'
<1>1. \A q \in Call : /\ call'[q].claimed = call[q].claimed
                      /\ call[q].claimed => call'[q].req = call[q].req
  BY DEF Moves, Changes
<1>2. Held'
  BY <1>1 DEF ClaimInv, Held, Asked
<1>3. ClaimsAreFinal'
  <2>1. SUFFICES ASSUME NEW q \in Call, NEW r \in Call, call'[q].claimed, call'[r].claimed,
                        Asked(q)'.hash = Asked(r)'.hash
                 PROVE  q = r
    BY DEF ClaimsAreFinal
  <2>2. call[q].claimed /\ Asked(q)' = Asked(q) BY <1>1, <2>1 DEF Asked
  <2>3. call[r].claimed /\ Asked(r)' = Asked(r) BY <1>1, <2>1 DEF Asked
  <2>q. QED BY <2>1, <2>2, <2>3 DEF ClaimInv, ClaimsAreFinal
<1>q. QED BY <1>2, <1>3 DEF ClaimInv

LEMMA ClaimTakes ==
    ASSUME Typed, Around, ClaimInv, NEW p \in Call, Takes(p)
    PROVE  ClaimInv'
<1>1. \A q \in Call : q # p => call'[q] = call[q] BY DEF Takes, Changes
<1>2. \A q \in Call : call[q].claimed => Asked(q).hash # Asked(p).hash
  BY DEF Takes, ClaimInv, Held
<1>3. Asked(p)' = Asked(p) /\ \A q \in Call : q # p => Asked(q)' = Asked(q)
  BY <1>1 DEF Takes, Asked
<1>4. ClaimsAreFinal'
  BY <1>1, <1>2, <1>3 DEF ClaimInv, ClaimsAreFinal
<1>5. Held'
  <2>1. SUFFICES ASSUME NEW q \in Call, call'[q].claimed
                 PROVE  table'[Asked(q)'.hash] \in {"running", "expired"}
    BY DEF Held
  <2>2. Asked(q).hash \in Hash
    <3>1. Sound(call'[q])
      BY <1>1 DEF Takes, Changes, Typed
    <3>2. call'[q].req \in Request BY <2>1, <3>1 DEF Sound
    <3>q. QED BY <1>3, <3>2, RequestAssumption DEF Asked
  <2>3. CASE q = p BY <1>3, <2>2, <2>3 DEF Takes, Around
  <2>4. CASE q # p BY <1>1, <1>2, <1>3, <2>1, <2>2, <2>4 DEF Takes, ClaimInv, Held, Around
  <2>q. QED BY <2>3, <2>4
<1>q. QED BY <1>4, <1>5 DEF ClaimInv

LEMMA ClaimInvAlways == Spec => []ClaimInv
<1>1. Init => ClaimInv
  BY DEF Init, ClaimInv, Held, ClaimsAreFinal, Idle
<1>2. ASSUME Typed, Around, ClaimInv, [Next]_vars PROVE ClaimInv'
  <2>1. CASE UNCHANGED vars
    BY <1>2, <2>1 DEF vars, ClaimInv, Held, ClaimsAreFinal, Asked
  <2>2. ASSUME call' = call, Advances PROVE ClaimInv'
    <3>1. \A q \in Call : call[q].claimed => Asked(q).hash \in Hash
      BY <1>2, RequestAssumption DEF Typed, Sound, Asked
    <3>q. QED BY <1>2, <2>2, <3>1 DEF Advances, ClaimInv, Held, ClaimsAreFinal, Asked
  <2>q. QED BY <1>2, <2>1, <2>2, Steps, ClaimMoves, ClaimTakes
<1>q. QED BY <1>1, <1>2, TypedAlways, PTL DEF Spec

(* A hash serves one call, for any number of calls, through the loss of    *)
(* keys, letters, clients and answers.                                     *)
THEOREM ClaimsAreForEver == Spec => []ClaimsAreFinal
<1>1. ClaimInv => ClaimsAreFinal BY DEF ClaimInv
<1>q. QED BY <1>1, ClaimInvAlways, PTL

-----------------------------------------------------------------------------
(* Served *)

(* The stages of requests for a proof only. *)
Proves == {"input", "validate", "choose", "rpc", "result", "served", "reported"}

(* What a well-formed call has at each stage. *)
Supplied(p) ==
    /\ call[p].pc = "rpc" => call[p].method \in Offered
    /\ call[p].pc \in {"result", "served", "posted", "reported"} =>
         call[p].proof \/ call[p].req.op = "verifier"
    /\ call[p].pc = "served" => call[p].project # Nothing
    /\ call[p].pc = "reported" => p \in told
    /\ call[p].pc = "over" /\ (call[p].claimed \/ call[p].req.op = "verifier") =>
         /\ call[p].answer = "SUCCESSFULLY" /\ p \in told
         /\ call[p].claimed => call[p].proof

(* What a call and its letter are while nothing fails. *)
Fine(p) ==
    /\ call[p].pc \notin {"idle", "sealing"} /\ call[p].req.sealed => call[p].key = Installed
    /\ letter[p].stage \in {"none", "sent", "open", "ok"}
    /\ letter[p].stage = "sent" => letter[p].key = Installed
    /\ letter[p].stage = "ok" => p \in told
    /\ call[p].pc = "posted" => letter[p].stage # "none"
    /\ call[p].pc \in Proves \/ call[p].claimed => call[p].req.op # "verifier"
    /\ call[p].pc = "update" => call[p].req.op = "verifier"
    /\ call[p].pc # "idle" /\ WellFormed(call[p].req) => Supplied(p)

Calm ==
    faults = 0 => /\ files = [f \in Files |-> Installed]
                  /\ \A p \in Call : Fine(p)

(* The other calls stay as they are. *)
Apart(p) ==
    /\ \A q \in Call : q # p => call'[q] = call[q] /\ letter'[q] = letter[q]
    /\ told \subseteq told'
    /\ files' = files

Clean == Typed /\ Around /\ faults = 0 /\ faults' = 0 /\ Calm

LEMMA FineOthers ==
    ASSUME NEW q \in Call, Fine(q), call'[q] = call[q], letter'[q] = letter[q], told \subseteq told'
    PROVE  Fine(q)'
BY DEF Fine, Supplied

LEMMA NotTorn == Installed \in Key /\ Installed \notin {"none", "torn"}
BY RequestAssumption

LEMMA CleanFacts ==
    ASSUME Clean
    PROVE  /\ \A f \in Files : files[f] = Installed
           /\ \A p \in Call : Fine(p) /\ call[p] \in Calls /\ Sound(call[p])
           /\ letter \in [Call -> [stage : {"none", "sent", "lost", "open", "ok", "refused"},
                                   key : Key \cup {Nothing}]]
           /\ call \in [Call -> Calls]
           /\ ~Fault
<1>1. ~Fault BY DEF Clean, Fault
<1>2. \A f \in Files : files[f] = Installed BY DEF Clean, Calm
<1>q. QED BY <1>1, <1>2 DEF Clean, Calm, Typed, Around

(* A step that changes only the stage of a call. *)
LEMMA GoesFine ==
    ASSUME Clean, NEW p \in Call, NEW pc, Goto(p, pc), UNCHANGED letter, told' = told, files' = files,
           call[p].pc \notin {"idle", "sealing"},
           pc \in {"validate", "choose", "reported", "update", "over"},
           pc \in Proves => call[p].req.op # "verifier",
           pc = "update" => call[p].req.op = "verifier",
           WellFormed(call[p].req) =>
               /\ pc = "reported" => p \in told /\ call[p].proof
               /\ pc = "over" => p \in told /\ call[p].proof /\ call[p].answer = "SUCCESSFULLY"
    PROVE  Fine(p)' /\ Apart(p)
<1>1. Fine(p) /\ call[p] \in Calls BY CleanFacts
<1>2. call' = [call EXCEPT ![p].pc = pc] /\ call \in [Call -> Calls] BY CleanFacts DEF Goto
<1>3. /\ call'[p].pc = pc /\ call'[p].answer = call[p].answer /\ call'[p].req = call[p].req
      /\ call'[p].claimed = call[p].claimed /\ call'[p].proof = call[p].proof
      /\ call'[p].key = call[p].key /\ call'[p].method = call[p].method
      /\ call'[p].project = call[p].project
  BY <1>1, <1>2 DEF Calls
<1>4. Apart(p) BY <1>2 DEF Apart
<1>5. WellFormed(call[p].req) => Supplied(p)'
  BY <1>1, <1>3 DEF Supplied
<1>q. QED BY <1>1, <1>3, <1>4, <1>5 DEF Fine, Proves

(* A step that ends a call: a well-formed one has no claim yet, and is no  *)
(* update.                                                                 *)
LEMMA EndsFine ==
    ASSUME Clean, NEW p \in Call, NEW a, End(p, a), UNCHANGED letter, told' = told, files' = files,
           call[p].pc \notin {"idle", "sealing"},
           WellFormed(call[p].req) =>
               \/ ~call[p].claimed /\ call[p].req.op # "verifier"
               \/ call[p].req.op = "verifier" /\ a = "SUCCESSFULLY" /\ p \in told
    PROVE  Fine(p)' /\ Apart(p)
<1>1. Fine(p) /\ call[p] \in Calls BY CleanFacts
<1>2. call' = [call EXCEPT ![p].pc = "over", ![p].answer = a] /\ call \in [Call -> Calls]
  BY CleanFacts DEF End
<1>3. /\ call'[p].pc = "over" /\ call'[p].answer = a /\ call'[p].req = call[p].req
      /\ call'[p].claimed = call[p].claimed /\ call'[p].proof = call[p].proof
      /\ call'[p].key = call[p].key
  BY <1>1, <1>2 DEF Calls
<1>4. Apart(p) BY <1>2 DEF Apart
<1>5. WellFormed(call[p].req) => Supplied(p)'
  BY <1>1, <1>3 DEF Supplied, Fine
<1>q. QED BY <1>1, <1>3, <1>4, <1>5 DEF Fine, Proves

LEMMA AskFine ==
    ASSUME Clean, NEW p \in Call, Ask(p)
    PROVE  Fine(p)' /\ Apart(p)
<1>1. PICK r \in Asks[p] :
        call' = [call EXCEPT ![p].pc = IF r.sealed THEN "sealing" ELSE "sent", ![p].req = r]
  BY DEF Ask
<1>2. Fine(p) /\ call[p] \in Calls /\ Sound(call[p]) /\ call \in [Call -> Calls] /\ call[p].pc = "idle"
  BY CleanFacts DEF Ask, At
<1>3. /\ call'[p].pc = IF r.sealed THEN "sealing" ELSE "sent"
      /\ call'[p].req = r /\ ~call'[p].claimed
  BY <1>1, <1>2 DEF Calls, Sound
<1>4. Apart(p) BY <1>1, <1>2 DEF Apart, Ask
<1>5. letter' = letter /\ told' = told BY DEF Ask
<1>6. Supplied(p)' BY <1>3 DEF Supplied
<1>q. QED BY <1>2, <1>3, <1>4, <1>5, <1>6 DEF Fine, Proves

LEMMA KeyFine ==
    ASSUME Clean, NEW p \in Call, GetPublicKey(p)
    PROVE  Fine(p)' /\ Apart(p)
<1>1. Fine(p) /\ call[p] \in Calls /\ Sound(call[p]) /\ call \in [Call -> Calls]
      /\ call[p].pc = "sealing" /\ files["public"] = Installed
  BY CleanFacts DEF GetPublicKey, At, Files
<1>2. call' = [call EXCEPT ![p].pc = "sent", ![p].key = Installed]
  BY <1>1, NotTorn DEF GetPublicKey
<1>3. /\ call'[p].pc = "sent" /\ call'[p].req = call[p].req /\ call'[p].key = Installed
      /\ ~call'[p].claimed
  BY <1>1, <1>2 DEF Calls, Sound
<1>4. Apart(p) BY <1>1, <1>2 DEF Apart, GetPublicKey
<1>5. letter' = letter /\ told' = told BY DEF GetPublicKey
<1>6. Supplied(p)' BY <1>3 DEF Supplied
<1>q. QED BY <1>1, <1>3, <1>4, <1>5, <1>6 DEF Fine, Proves

LEMMA ClaimFine ==
    ASSUME Clean, NEW p \in Call, Claim(p), call[p].req.op # "verifier"
    PROVE  Fine(p)' /\ Apart(p)
<1>1. Fine(p) /\ call[p] \in Calls /\ Sound(call[p]) /\ call \in [Call -> Calls] /\ call[p].pc = "sent"
  BY CleanFacts DEF Claim, At
<1>2. letter' = letter /\ told' = told /\ files' = files BY DEF Claim
<1>3. CASE ~Claimable(Asked(p).hash)
  <2>1. PICK a : End(p, a) BY <1>3 DEF Claim
  <2>q. QED BY <1>1, <1>2, <2>1, EndsFine DEF Sound
<1>4. CASE Claimable(Asked(p).hash)
  <2>1. call' = [call EXCEPT ![p].pc = "input", ![p].claimed = TRUE] BY <1>4 DEF Claim
  <2>2. /\ call'[p].pc = "input" /\ call'[p].req = call[p].req /\ call'[p].key = call[p].key
    BY <1>1, <2>1 DEF Calls
  <2>3. Apart(p) BY <1>1, <1>2, <2>1 DEF Apart
  <2>4. Supplied(p)' BY <2>2 DEF Supplied
  <2>q. QED BY <1>1, <1>2, <2>2, <2>3, <2>4 DEF Fine, Proves
<1>q. QED BY <1>3, <1>4

LEMMA ReplyFine ==
    ASSUME Clean, NEW p \in Call, Reply(p)
    PROVE  Fine(p)' /\ Apart(p)
<1>1. Fine(p) /\ Sound(call[p]) /\ call[p].pc \in {"reported", "served"}
  BY CleanFacts DEF Reply, At
<1>2. Goto(p, "over") /\ letter' = letter /\ told' = told /\ files' = files
  BY DEF Reply
<1>3. WellFormed(call[p].req) =>
        p \in told /\ call[p].proof /\ call[p].answer = "SUCCESSFULLY"
  BY <1>1 DEF Reply, At, Fine, Proves, Supplied, Sound
<1>q. QED BY <1>1, <1>2, <1>3, GoesFine DEF Proves

LEMMA RefuseFine ==
    ASSUME Clean, NEW p \in Call, Http1NotSupported(p) \/ Grpc1Unimplemented(p)
    PROVE  Fine(p)' /\ Apart(p)
<1>1. call[p].pc = "sent" BY DEF Http1NotSupported, Grpc1Unimplemented, At
<1>2. PICK a : End(p, a) BY DEF Http1NotSupported, Grpc1Unimplemented
<1>3. letter' = letter /\ told' = told /\ files' = files
  BY DEF Http1NotSupported, Grpc1Unimplemented
<1>4. ~call[p].claimed BY <1>1, CleanFacts DEF Sound
<1>5. call[p].req.op # "verifier" BY DEF Http1NotSupported, Grpc1Unimplemented, Asked
<1>q. QED BY <1>1, <1>2, <1>3, <1>4, <1>5, EndsFine

LEMMA InputFine ==
    ASSUME Clean, NEW p \in Call, ProcessInput(p)
    PROVE  Fine(p)' /\ Apart(p)
<1>1. Fine(p) /\ call[p].pc = "input" /\ files["private"] = Installed
  BY CleanFacts DEF ProcessInput, At, Files
<1>2. Asked(p).sealed => Decrypted(files["private"], call[p].key) = "ok"
  BY <1>1, NotTorn DEF Decrypted, Fine, Asked
<1>3. Goto(p, "validate") /\ letter' = letter /\ told' = told /\ files' = files
  BY <1>2 DEF ProcessInput
<1>q. QED BY <1>1, <1>3, GoesFine DEF Fine, Proves

LEMMA ValidateFine ==
    ASSUME Clean, NEW p \in Call, Validate(p)
    PROVE  Fine(p)' /\ Apart(p)
<1> DEFINE provider == Resolved(Asked(p).circuit, Asked(p).provider)
<1>1. Fine(p) /\ call[p].pc = "validate" /\ ~Fault BY CleanFacts DEF Validate, At
<1>2. letter' = letter /\ told' = told /\ files' = files BY DEF Validate
<1>3. \/ \E result \in {"ok"} \cup Answers : Valid(p, result)
      \/ \E a \in Answers : End(p, a)
  <2>1. CASE Asked(p).task = "zklogin" /\ provider \in Providers
    <3>1. \E result \in Verified(provider, Asked(p).content) : Valid(p, result)
      BY <1>1, <2>1 DEF Validate
    <3>q. QED BY <3>1 DEF Verified, Answers
  <2>2. CASE Asked(p).task = "zklogin" /\ provider \notin Providers
    BY <2>2 DEF Validate, Answers
  <2>3. CASE Asked(p).task = "tiga"
    BY <2>3 DEF Validate, Tiga, Answers
  <2>4. CASE Asked(p).task \notin {"zklogin", "tiga"}
    BY <2>4 DEF Validate, Answers
  <2>q. QED BY <2>1, <2>2, <2>3, <2>4
<1>4. call[p].req.op # "verifier" BY <1>1 DEF Fine, Proves
<1>5. WellFormed(call[p].req) => Goto(p, "choose")
  <2>1. SUFFICES ASSUME WellFormed(call[p].req) PROVE Goto(p, "choose") OBVIOUS
  <2>2. CASE Asked(p).task = "zklogin" /\ Asked(p).content \in Providers /\ Asked(p).content = provider
    <3>1. \E result \in Verified(provider, Asked(p).content) : Valid(p, result)
      BY <1>1, <2>2 DEF Validate
    <3>q. QED BY <2>2, <3>1 DEF Verified, Valid
  <2>3. CASE Asked(p).task = "tiga" /\ Asked(p).content \notin {"modules", "junk"}
    <3>1. Valid(p, Tiga(p)) BY <2>3 DEF Validate
    <3>2. Tiga(p) = "ok" BY <2>3 DEF Tiga
    <3>q. QED BY <3>1, <3>2 DEF Valid
  <2>q. QED BY <1>4, <2>1, <2>2, <2>3 DEF WellFormed, Resolved, Asked
<1>6. Goto(p, "choose") \/ \E a \in Answers : End(p, a)
  BY <1>3 DEF Valid
<1>7. CASE Goto(p, "choose") BY <1>1, <1>2, <1>4, <1>7, GoesFine DEF Proves
<1>8. CASE ~WellFormed(call[p].req) /\ \E a \in Answers : End(p, a)
  BY <1>1, <1>2, <1>8, EndsFine
<1>q. QED BY <1>5, <1>6, <1>7, <1>8

LEMMA ChooseFine ==
    ASSUME Clean, NEW p \in Call, NEW choice, Choose(p, choice),
           call[p].req.op # "verifier", WellFormed(call[p].req) => choice \in Offered
    PROVE  Fine(p)' /\ Apart(p)
<1>1. Fine(p) /\ call[p] \in Calls /\ call \in [Call -> Calls] /\ call[p].pc = "choose"
  BY CleanFacts DEF Choose, At
<1>2. letter' = letter /\ told' = told /\ files' = files BY DEF Choose
<1>3. CASE choice \notin Offered \cup {"Prove"}
  <2>1. End(p, choice) BY <1>3 DEF Choose
  <2>q. QED BY <1>1, <1>2, <1>3, <2>1, EndsFine
<1>4. CASE choice \in Offered \cup {"Prove"}
  <2>1. call' = [call EXCEPT ![p].pc = "rpc", ![p].method = choice] BY <1>4 DEF Choose
  <2>2. /\ call'[p].pc = "rpc" /\ call'[p].req = call[p].req /\ call'[p].key = call[p].key
        /\ call'[p].method = choice
    BY <1>1, <2>1 DEF Calls
  <2>3. Apart(p) BY <1>1, <1>2, <2>1 DEF Apart
  <2>4. WellFormed(call[p].req) => Supplied(p)' BY <2>2 DEF Supplied
  <2>q. QED BY <1>1, <1>2, <2>2, <2>3, <2>4 DEF Fine, Proves
<1>q. QED BY <1>3, <1>4

LEMMA ResultFine ==
    ASSUME Clean, NEW p \in Call, NEW field, Result(p, field)
    PROVE  Fine(p)' /\ Apart(p)
<1>1. Fine(p) /\ call[p] \in Calls /\ call \in [Call -> Calls] /\ call[p].pc = "result"
  BY CleanFacts DEF Result, At
<1>2. letter' = letter /\ told' = told /\ files' = files BY DEF Result
<1>3. PICK project :
        /\ call' = [call EXCEPT ![p].pc = "served", ![p].project = project]
        /\ call[p].proof => project # Nothing
  <2>1. CASE ~call[p].proof
    BY <2>1 DEF Result
  <2>2. CASE call[p].proof /\ field = InputsIn(call[p].method)
    <3>1. GetProject(Asked(p).id) # Nothing BY GetProjectType, RequestAssumption
    <3>q. QED BY <2>2, <3>1 DEF Result
  <2>3. CASE call[p].proof /\ field # InputsIn(call[p].method)
    <3>1. Anonymous # Nothing BY RequestAssumption
    <3>q. QED BY <2>3, <3>1 DEF Result
  <2>q. QED BY <2>1, <2>2, <2>3
<1>4. /\ call'[p].pc = "served" /\ call'[p].req = call[p].req /\ call'[p].key = call[p].key
      /\ call'[p].proof = call[p].proof /\ call'[p].project = project
  BY <1>1, <1>3 DEF Calls
<1>5. Apart(p) BY <1>1, <1>2, <1>3 DEF Apart
<1>6. call[p].req.op # "verifier" BY <1>1 DEF Fine, Proves
<1>7. WellFormed(call[p].req) => Supplied(p)' BY <1>1, <1>3, <1>4, <1>6 DEF Supplied, Fine
<1>q. QED BY <1>1, <1>2, <1>4, <1>5, <1>6, <1>7 DEF Fine

LEMMA RpcFine ==
    ASSUME Clean, NEW p \in Call, NEW method, Rpc(p, method)
    PROVE  Fine(p)' /\ Apart(p)
<1>1. Fine(p) /\ call[p] \in Calls /\ call \in [Call -> Calls] /\ call[p].pc = "rpc" /\ ~Fault
  BY CleanFacts DEF Rpc, At
<1>2. letter' = letter /\ told' = told /\ files' = files BY DEF Rpc
<1>3. PICK a \in Answers, proof \in BOOLEAN :
        /\ call' = [call EXCEPT ![p].pc = "result", ![p].answer = a, ![p].proof = proof]
        /\ call[p].method \in Offered => proof
  BY <1>1 DEF Rpc, Returned, Answers
<1>4. /\ call'[p].pc = "result" /\ call'[p].req = call[p].req /\ call'[p].key = call[p].key
      /\ call'[p].proof = proof
  BY <1>1, <1>3 DEF Calls
<1>5. Apart(p) BY <1>1, <1>2, <1>3 DEF Apart
<1>6. WellFormed(call[p].req) => Supplied(p)' BY <1>1, <1>3, <1>4 DEF Supplied, Fine
<1>q. QED BY <1>1, <1>2, <1>4, <1>5, <1>6 DEF Fine, Proves

LEMMA PostFine ==
    ASSUME Clean, NEW p \in Call, SendResult(p) \/ UpdateVerifier(p)
    PROVE  Fine(p)' /\ Apart(p)
<1>1. Fine(p) /\ call[p] \in Calls /\ call \in [Call -> Calls] /\ files["session"] = Installed
  BY CleanFacts DEF Files
<1>2. call[p].pc \in {"served", "update"} BY DEF SendResult, UpdateVerifier, At
<1>3. told' = told /\ files' = files BY DEF SendResult, UpdateVerifier
<1>4. /\ letter' = [letter EXCEPT ![p] = [stage |-> "sent", key |-> Installed]]
      /\ call' = [call EXCEPT ![p].pc = "posted"]
  BY <1>1, NotTorn DEF SendResult, UpdateVerifier, Post, Encrypts, Goto
<1>5. /\ call'[p].pc = "posted" /\ call'[p].req = call[p].req /\ call'[p].key = call[p].key
      /\ call'[p].claimed = call[p].claimed /\ call'[p].proof = call[p].proof
  BY <1>1, <1>4 DEF Calls
<1>6. letter'[p] = [stage |-> "sent", key |-> Installed]
  BY <1>4, CleanFacts
<1>7. Apart(p) BY <1>1, <1>3, <1>4, CleanFacts DEF Apart
<1>8. call[p].pc = "update" => call[p].req.op = "verifier"
  BY <1>1 DEF Fine
<1>9. WellFormed(call[p].req) => Supplied(p)' BY <1>1, <1>2, <1>5, <1>8 DEF Supplied, Fine
<1>q. QED BY <1>1, <1>2, <1>3, <1>5, <1>6, <1>7, <1>9 DEF Fine, Proves

LEMMA EndPostFine ==
    ASSUME Clean, NEW p \in Call, EndPost(p)
    PROVE  Fine(p)' /\ Apart(p)
<1>1. Fine(p) /\ Sound(call[p]) /\ call[p].pc = "posted" BY CleanFacts DEF EndPost, At
<1>2. letter' = letter /\ told' = told /\ files' = files BY DEF EndPost
<1>3. letter[p].stage = "ok" /\ p \in told BY <1>1 DEF EndPost, Fine
<1>4. CASE Updates(p)
  <2>1. End(p, "SUCCESSFULLY") BY <1>3, <1>4 DEF EndPost, Settle
  <2>q. QED BY <1>1, <1>2, <1>3, <1>4, <2>1, EndsFine DEF Updates, Asked
<1>5. CASE ~Updates(p)
  <2>1. Goto(p, "reported") BY <1>5 DEF EndPost, Settle
  <2>2. call[p].req.op # "verifier" BY <1>5 DEF Updates, Asked
  <2>3. WellFormed(call[p].req) => call[p].proof BY <1>1, <2>2 DEF Fine, Supplied
  <2>q. QED BY <1>1, <1>2, <1>3, <2>1, <2>2, <2>3, GoesFine
<1>q. QED BY <1>4, <1>5

LEMMA UpdateFine ==
    ASSUME Clean, NEW p \in Call, OpenUpdate(p)
    PROVE  Fine(p)' /\ Apart(p)
<1>1. Fine(p) /\ Sound(call[p]) /\ call[p].pc = "sent" /\ files["private"] = Installed
  BY CleanFacts DEF OpenUpdate, At, Files
<1>2. letter' = letter /\ told' = told /\ files' = files BY DEF OpenUpdate
<1>3. call[p].req.op = "verifier" BY DEF OpenUpdate, Updates, Asked
<1>4. Goto(p, "update") \/ \E a : End(p, a)
  BY DEF OpenUpdate
<1>5. WellFormed(call[p].req) => Goto(p, "update")
  <2>1. SUFFICES ASSUME WellFormed(call[p].req) PROVE Goto(p, "update") OBVIOUS
  <2>2. call[p].req.sealed /\ call[p].req.content # "empty" BY <1>3, <2>1 DEF WellFormed
  <2>3. Decrypted(files["private"], call[p].key) = "ok"
    BY <1>1, <2>2, NotTorn DEF Decrypted, Fine
  <2>q. QED BY <2>2, <2>3 DEF OpenUpdate, Asked
<1>6. CASE Goto(p, "update")
  BY <1>1, <1>2, <1>3, <1>6, GoesFine DEF Proves
<1>7. CASE ~WellFormed(call[p].req) /\ \E a : End(p, a)
  BY <1>1, <1>2, <1>7, EndsFine
<1>q. QED BY <1>4, <1>5, <1>6, <1>7

(* The hub opens what was encrypted for it, and the explorer hears of it.  *)
LEMMA HubFine ==
    ASSUME Clean, NEW p \in Call, Opens(p) \/ Forward(p)
    PROVE  Fine(p)' /\ Apart(p)
<1>1. /\ Fine(p) /\ ~Fault /\ files["hub"] = Installed /\ files["explorer"] = Installed
      /\ letter \in [Call -> [stage : {"none", "sent", "lost", "open", "ok", "refused"},
                              key : Key \cup {Nothing}]]
  BY CleanFacts DEF Files
<1>2. call' = call /\ files' = files BY DEF Opens, Forward
<1>3. CASE Opens(p)
  <2>1. HubDecrypts(letter[p].key) BY <1>1, <1>3, NotTorn DEF HubDecrypts, Opens, Fine
  <2>2. letter' = [letter EXCEPT ![p] = [stage |-> "open", key |-> Nothing]] /\ told' = told
    BY <1>3, <2>1 DEF Opens
  <2>3. letter'[p] = [stage |-> "open", key |-> Nothing] BY <1>1, <2>2
  <2>q. QED BY <1>1, <1>2, <2>2, <2>3 DEF Fine, Supplied, Apart
<1>4. CASE Forward(p)
  <2>1. letter' = [letter EXCEPT ![p].stage = "ok"] /\ told' = told \cup {p}
    BY <1>1, <1>4, NotTorn DEF Forward
  <2>2. letter'[p].stage = "ok" BY <1>1, <2>1
  <2>q. QED BY <1>1, <1>2, <2>1, <2>2 DEF Fine, Supplied, Apart
<1>q. QED BY <1>3, <1>4

(* Failures are counted, and nothing else changes the count. *)
LEMMA FaultsGrow ==
    ASSUME Typed, Around, Next
    PROVE  faults' = 0 => faults = 0
<1>1. faults \in Nat BY RequestAssumption DEF Around
<1>2. Fault => faults' # 0 BY <1>1 DEF Fault
<1>3. ASSUME NEW p \in Call, Handler(p) PROVE faults' = faults
  BY <1>3, HandlerCases DEF Handling, GetPublicKey, Claim, Reply, OpenUpdate, Http1NotSupported,
     Grpc1Unimplemented
<1>4. ASSUME NEW p \in Call, Service(p) PROVE faults' = faults \/ Fault
  BY <1>4, ServiceCases DEF Serving, ProcessInput, Validate, Choose, Result
<1>5. ASSUME NEW p \in Call, Prover(p) PROVE faults' = faults \/ Fault
  BY <1>5, ProverCases DEF Rpc
<1>6. ASSUME NEW p \in Call, HubClient(p) PROVE faults' = faults \/ Fault
  BY <1>6 DEF HubClient, SendResult, UpdateVerifier, EndPost, Timeout
<1>7. ASSUME NEW p \in Call, Hub(p) PROVE faults' = faults \/ Fault
  BY <1>7, HubCases DEF Opens, Forward
<1>8. ASSUME NEW p \in Call, Ask(p) \/ Lose(p) \/ Abandon(p) PROVE faults' = faults \/ Fault
  BY <1>8 DEF Ask, Lose, Abandon
<1>9. ASSUME NEW h \in Hash, Push(h) \/ Expire(h) PROVE faults' = faults
  BY <1>9 DEF Push, Expire
<1>10. ASSUME NEW f \in Files, ChangeFile(f) PROVE Fault
  BY <1>10 DEF ChangeFile
<1>q. QED BY <1>2, <1>3, <1>4, <1>5, <1>6, <1>7, <1>8, <1>9, <1>10 DEF Next, Serve

LEMMA CleanStep ==
    ASSUME Clean, Next
    PROVE  \/ UNCHANGED <<files, call, letter, told>>
           \/ \E p \in Call : Fine(p)' /\ Apart(p)
<1>0. ~Fault BY CleanFacts
<1>1. ASSUME NEW p \in Call, Ask(p) PROVE Fine(p)' /\ Apart(p)
  BY <1>1, AskFine
<1>2. ASSUME NEW p \in Call, Handler(p) PROVE Fine(p)' /\ Apart(p)
  BY <1>2, HandlerCases, KeyFine, ClaimFine, ReplyFine, UpdateFine, RefuseFine DEF Handling
<1>3. ASSUME NEW p \in Call, Service(p) PROVE Fine(p)' /\ Apart(p)
  BY <1>3, ServiceCases, InputFine, ValidateFine, ChooseFine, ResultFine DEF Serving
<1>4. ASSUME NEW p \in Call, Prover(p) PROVE Fine(p)' /\ Apart(p)
  BY <1>4, ProverCases, RpcFine
<1>5. ASSUME NEW p \in Call, HubClient(p) PROVE Fine(p)' /\ Apart(p)
  BY <1>0, <1>5, PostFine, EndPostFine DEF HubClient, Timeout
<1>6. ASSUME NEW p \in Call, Hub(p) PROVE Fine(p)' /\ Apart(p)
  BY <1>6, HubCases, HubFine
<1>7. ASSUME NEW p \in Call, Lose(p) \/ Abandon(p) PROVE FALSE
  BY <1>0, <1>7 DEF Lose, Abandon
<1>8. ASSUME NEW h \in Hash, Push(h) \/ Expire(h) PROVE UNCHANGED <<files, call, letter, told>>
  BY <1>8 DEF Push, Expire
<1>9. ASSUME NEW f \in Files, ChangeFile(f) PROVE FALSE
  BY <1>0, <1>9 DEF ChangeFile
<1>q. QED BY <1>1, <1>2, <1>3, <1>4, <1>5, <1>6, <1>7, <1>8, <1>9 DEF Next, Serve

LEMMA CalmNext ==
    ASSUME Typed, Around, Calm, [Next]_vars
    PROVE  Calm'
<1>1. CASE UNCHANGED vars
  BY <1>1 DEF vars, Calm, Fine, Supplied
<1>2. CASE Next
  <2>1. SUFFICES ASSUME faults' = 0
                 PROVE  files' = [f \in Files |-> Installed] /\ \A q \in Call : Fine(q)'
    BY DEF Calm
  <2>2. Clean BY <1>2, <2>1, FaultsGrow DEF Clean
  <2>3. files = [f \in Files |-> Installed] /\ \A q \in Call : Fine(q)
    BY <2>2 DEF Clean, Calm
  <2>4. CASE UNCHANGED <<files, call, letter, told>>
    BY <2>3, <2>4 DEF Fine, Supplied
  <2>5. ASSUME NEW p \in Call, Fine(p)', Apart(p)
        PROVE  files' = [f \in Files |-> Installed] /\ \A q \in Call : Fine(q)'
    BY <2>3, <2>5, FineOthers DEF Apart
  <2>q. QED BY <1>2, <2>2, <2>4, <2>5, CleanStep
<1>q. QED BY <1>1, <1>2

(* While nothing fails a well-formed request that has its hash gets its    *)
(* proof, and the explorer hears of it before the client has the answer,   *)
(* for any number of calls at once.                                        *)
THEOREM RequestsAreServed == Spec => []Served
<1>1. Init => Calm
  BY DEF Init, Calm, Fine, Supplied, Idle, NoLetter, Proves
<1>2. Calm => Served
  BY DEF Calm, Fine, Supplied, Served, At, Asked, Updates
<1>q. QED BY <1>1, <1>2, CalmNext, TypedAlways, PTL DEF Spec

-----------------------------------------------------------------------------
(* The promise of TaskLife *)

(* The stages before a report. *)
Early == Pcs \ {"posted", "reported", "over", "gone"}

(* A call reports once, and what was heard is not under way. *)
Quiet ==
    \A p \in Call :
        /\ call[p].pc \in Early => letter[p].stage = "none" /\ p \notin told
        /\ letter[p].stage \in {"sent", "open"} => p \notin told

Posts(p) ==
    /\ call[p].pc \in {"served", "update"} /\ call'[p].pc = "posted"
    /\ letter' = [letter EXCEPT ![p] = [stage |-> "sent", key |-> files["session"]]]

(* No call comes back to an earlier stage, and only a post writes a letter. *)
Path(p) ==
    /\ call[p].pc \notin {"over", "gone"}
    /\ call'[p].pc \in Early => call[p].pc \in Early
    /\ letter' = letter \/ Posts(p)
    /\ told' = told
    /\ table' = table

LEMMA NewStage ==
    ASSUME Typed, NEW p \in Call, NEW pc, Goto(p, pc) \/ \E a : pc = "over" /\ End(p, a)
    PROVE  call'[p].pc = pc
<1>1. CASE Goto(p, pc) BY <1>1 DEF Goto, Typed, Calls
<1>2. ASSUME NEW a, pc = "over", End(p, a) PROVE call'[p].pc = pc
  <2>1. call' = [call EXCEPT ![p].pc = "over", ![p].answer = a] BY <1>2 DEF End
  <2>2. call \in [Call -> Calls] /\ call[p] \in Calls BY DEF Typed
  <2>q. QED BY <1>2, <2>1, <2>2 DEF Calls
<1>q. QED BY <1>1, <1>2

LEMMA HandlerPath ==
    ASSUME Typed, NEW p \in Call,
           GetPublicKey(p) \/ Reply(p) \/ OpenUpdate(p) \/ Http1NotSupported(p) \/ Grpc1Unimplemented(p)
    PROVE  Path(p)
<1>0. UNCHANGED <<letter, told, table>>
  BY DEF GetPublicKey, Reply, OpenUpdate, Http1NotSupported, Grpc1Unimplemented
<1>1. call[p] \in Calls BY DEF Typed
<1>2. CASE GetPublicKey(p)
  <2>1. call[p].pc = "sealing" BY <1>2 DEF GetPublicKey, At
  <2>q. QED BY <1>0, <2>1 DEF Path, Early, Pcs
<1>3. CASE Reply(p)
  <2>1. call[p].pc \in {"reported", "served"} /\ call'[p].pc = "over"
    BY <1>3, NewStage DEF Reply, At
  <2>q. QED BY <1>0, <2>1 DEF Path, Early
<1>4. CASE OpenUpdate(p) \/ Http1NotSupported(p) \/ Grpc1Unimplemented(p)
  <2>1. call[p].pc = "sent" BY <1>4 DEF OpenUpdate, Http1NotSupported, Grpc1Unimplemented, At
  <2>q. QED BY <1>0, <2>1 DEF Path, Early, Pcs
<1>q. QED BY <1>2, <1>3, <1>4

LEMMA ClaimPath ==
    ASSUME Typed, NEW p \in Call, Claim(p)
    PROVE  UNCHANGED <<letter, told>> /\ call[p].pc = "sent"
BY DEF Claim, At

LEMMA ServicePath ==
    ASSUME Typed, NEW p \in Call, Serving(p)
    PROVE  Path(p)
<1>1. UNCHANGED <<letter, told, table>>
  BY DEF Serving, ProcessInput, Validate, Choose, Result
<1>2. call[p].pc \in {"input", "validate", "choose", "result"}
  BY DEF Serving, ProcessInput, Validate, Choose, Result, At
<1>q. QED BY <1>1, <1>2 DEF Path, Early, Pcs

LEMMA ProverPath ==
    ASSUME Typed, NEW p \in Call, NEW method, Rpc(p, method)
    PROVE  Path(p)
BY DEF Rpc, At, Path, Early, Pcs

LEMMA HubClientPath ==
    ASSUME Typed, Around, NEW p \in Call, HubClient(p)
    PROVE  Path(p)
<1>1. CASE SendResult(p) \/ UpdateVerifier(p)
  <2>1. call[p].pc \in {"served", "update"} /\ UNCHANGED <<told, table>>
    BY <1>1 DEF SendResult, UpdateVerifier, At
  <2>2. letter' = letter \/ Posts(p)
    <3>1. CASE Encrypts(files["session"])
      <4>1. files["session"] # "none" BY <3>1, RequestAssumption DEF Encrypts
      <4>2. /\ letter' = [letter EXCEPT ![p] = [stage |-> "sent", key |-> files["session"]]]
            /\ Goto(p, "posted")
        BY <1>1, <3>1, <4>1 DEF SendResult, UpdateVerifier, Post
      <4>q. QED BY <2>1, <4>2, NewStage DEF Posts
    <3>2. CASE ~Encrypts(files["session"])
      <4>1. CASE SendResult(p) BY <3>2, <4>1 DEF SendResult, Post
      <4>2. CASE UpdateVerifier(p) BY <3>2, <4>2 DEF UpdateVerifier, Post
      <4>q. QED BY <1>1, <4>1, <4>2
    <3>q. QED BY <3>1, <3>2
  <2>q. QED BY <2>1, <2>2 DEF Path, Early, Pcs
<1>2. CASE EndPost(p) \/ Timeout(p)
  <2>1. call[p].pc = "posted" /\ UNCHANGED <<letter, told, table>>
    BY <1>2 DEF EndPost, Timeout, At
  <2>2. Goto(p, "reported") \/ \E a : End(p, a) BY <1>2 DEF EndPost, Timeout, Settle
  <2>3. call'[p].pc \in {"reported", "over"} BY <2>2, NewStage
  <2>q. QED BY <2>1, <2>3 DEF Path, Early
<1>q. QED BY <1>1, <1>2 DEF HubClient

(* A step that opens, forwards or loses a letter. *)
Letters(p) ==
    /\ UNCHANGED <<call, table>>
    /\ \A q \in Call : q # p => letter'[q] = letter[q]
    /\ \/ letter[p].stage = "sent" /\ letter'[p].stage \in {"open", "refused", "lost"} /\ told' = told
       \/ /\ letter[p].stage = "open" /\ letter'[p].stage \in {"ok", "refused"}
          /\ told' = told \/ told' = told \cup {p}

LEMMA HubLetters ==
    ASSUME Around, NEW p \in Call, Opens(p) \/ Forward(p) \/ Lose(p)
    PROVE  Letters(p)
<1>0. letter \in [Call -> [stage : {"none", "sent", "lost", "open", "ok", "refused"},
                          key : Key \cup {Nothing}]]
  BY DEF Around
<1>1. CASE Opens(p)
  <2>1. UNCHANGED <<call, table, told>> /\ letter[p].stage = "sent" BY <1>1 DEF Opens
  <2>2. \E l \in {"open", "refused"} : letter' = [letter EXCEPT ![p] = [stage |-> l, key |-> Nothing]]
    BY <1>1 DEF Opens
  <2>q. QED BY <1>0, <2>1, <2>2 DEF Letters
<1>2. CASE Forward(p)
  <2>1. letter[p].stage = "open" /\ UNCHANGED <<call, table>> /\ (told' = told \/ told' = told \cup {p})
    BY <1>2 DEF Forward
  <2>2. letter' = [letter EXCEPT ![p].stage = IF files["explorer"] = "torn" THEN "refused" ELSE "ok"]
    BY <1>2 DEF Forward
  <2>3. letter'[p].stage \in {"ok", "refused"} BY <1>0, <2>2
  <2>4. \A q \in Call : q # p => letter'[q] = letter[q] BY <1>0, <2>2
  <2>q. QED BY <2>1, <2>3, <2>4 DEF Letters
<1>3. CASE Lose(p) BY <1>0, <1>3 DEF Lose, Letters
<1>q. QED BY <1>1, <1>2, <1>3

(* The steps of Next by what TaskLife sees of them. *)
LEMMA Journeys ==
    ASSUME Typed, Around, Next
    PROVE  \/ UNCHANGED <<call, letter, told, table>>
           \/ UNCHANGED <<call, letter, told>> /\ \E h \in Hash : Push(h) \/ Expire(h)
           \/ \E p \in Call : Letters(p)
           \/ \E p \in Call : Moves(p) /\ Path(p)
           \/ \E p \in Call : Takes(p) /\ UNCHANGED <<letter, told>> /\ call[p].pc = "sent"
<1>1. ASSUME NEW p \in Call, Ask(p) PROVE Moves(p) /\ Path(p)
  BY <1>1, Asking DEF Ask, At, Path, Early, Pcs
<1>2. ASSUME NEW p \in Call, Handler(p)
      PROVE  \/ Moves(p) /\ Path(p)
             \/ Takes(p) /\ UNCHANGED <<letter, told>> /\ call[p].pc = "sent"
  <2>1. Handling(p) BY <1>2, HandlerCases
  <2>2. CASE Claim(p)
    <3>1. CASE Takes(p) BY <2>2, <3>1, ClaimPath
    <3>2. CASE Moves(p) /\ table' = table BY <2>2, <3>2, ClaimPath DEF Path, Early, Pcs
    <3>q. QED BY <2>2, <3>1, <3>2, Claiming DEF Takes
  <2>3. CASE ~Claim(p)
    BY <2>1, <2>3, HandlerPath, GettingKey, Replying, OpeningUpdate, Refusing DEF Handling
  <2>q. QED BY <2>2, <2>3
<1>3. ASSUME NEW p \in Call, Service(p) PROVE Moves(p) /\ Path(p)
  <2>1. Serving(p) BY <1>3, ServiceCases
  <2>2. Moves(p) BY <2>1, Opening, Validating, Choosing, Resulting DEF Serving
  <2>q. QED BY <2>1, <2>2, ServicePath
<1>4. ASSUME NEW p \in Call, Prover(p) PROVE Moves(p) /\ Path(p)
  BY <1>4, ProverCases, Proving, ProverPath
<1>5. ASSUME NEW p \in Call, HubClient(p) PROVE Moves(p) /\ Path(p)
  BY <1>5, Posting, Settling, HubClientPath DEF HubClient
<1>6. ASSUME NEW p \in Call, Hub(p) \/ Lose(p) PROVE Letters(p)
  BY <1>6, HubCases, HubLetters
<1>7. ASSUME NEW p \in Call, Abandon(p) PROVE Moves(p) /\ Path(p)
  <2>1. call'[p].pc = "gone" BY <1>7, NewStage DEF Abandon
  <2>q. QED BY <1>7, <2>1, Leaving DEF Abandon, Working, Path, Early
<1>8. ASSUME NEW h \in Hash, Push(h) \/ Expire(h) PROVE UNCHANGED <<call, letter, told>>
  BY <1>8 DEF Push, Expire
<1>9. ASSUME NEW f \in Files, ChangeFile(f) PROVE UNCHANGED <<call, letter, told, table>>
  BY <1>9 DEF ChangeFile
<1>q. QED BY <1>1, <1>2, <1>3, <1>4, <1>5, <1>6, <1>7, <1>8, <1>9 DEF Next, Serve

LEMMA QuietNext ==
    ASSUME Typed, Around, Quiet, [Next]_vars
    PROVE  Quiet'
<1>0. letter \in [Call -> [stage : {"none", "sent", "lost", "open", "ok", "refused"},
                          key : Key \cup {Nothing}]]
  BY DEF Around
<1>1. CASE UNCHANGED <<call, letter, told>>
  BY <1>1 DEF Quiet
<1>2. ASSUME NEW p \in Call, Letters(p) PROVE Quiet'
  <2>1. letter[p].stage \in {"sent", "open"} BY <1>2 DEF Letters
  <2>3. call' = call BY <1>2 DEF Letters
  <2>4. call[p].pc \notin Early BY <2>1 DEF Quiet
  <2>5. p \notin told BY <2>1 DEF Quiet
  <2>q. QED BY <1>2, <2>3, <2>4, <2>5 DEF Quiet, Letters
<1>3. ASSUME NEW p \in Call, Moves(p), Path(p) PROVE Quiet'
  <2>1. \A q \in Call : q # p => call'[q] = call[q] BY <1>3 DEF Moves, Changes
  <2>2. CASE letter' = letter BY <1>3, <2>1, <2>2 DEF Quiet, Path
  <2>3. CASE Posts(p)
    <3>1. letter'[p].stage = "sent" /\ \A q \in Call : q # p => letter'[q] = letter[q]
      BY <1>0, <2>3 DEF Posts
    <3>2. call[p].pc \in Early /\ call'[p].pc \notin Early BY <2>3 DEF Posts, Early, Pcs
    <3>q. QED BY <1>3, <2>1, <3>1, <3>2 DEF Quiet, Path
  <2>q. QED BY <1>3, <2>2, <2>3 DEF Path
<1>4. ASSUME NEW p \in Call, Takes(p), UNCHANGED <<letter, told>>, call[p].pc = "sent"
      PROVE  Quiet'
  <2>1. \A q \in Call : q # p => call'[q] = call[q] BY <1>4 DEF Takes, Changes
  <2>2. call[p].pc \in Early BY <1>4 DEF Early, Pcs
  <2>q. QED BY <1>4, <2>1, <2>2 DEF Quiet
<1>5. UNCHANGED vars => UNCHANGED <<call, letter, told>> BY DEF vars
<1>q. QED BY <1>1, <1>2, <1>3, <1>4, <1>5, Journeys

(* A claim, by what TaskLife sees of it. *)
Holding(h) == {p \in Call : call[p].claimed /\ Working(p) /\ Asked(p).hash = h}

Offering == {h \in Hash : table[h] = "pending"}

Mailing == {p \in Call : call[p].claimed /\ letter[p].stage \in {"sent", "open"}}

Hearing == {p \in told : call[p].claimed}

(* At most the call that claimed a hash holds it, and while one does the   *)
(* hash is not offered.                                                    *)
LEMMA Sole ==
    ASSUME ClaimInv, NEW p \in Call, call[p].claimed
    PROVE  /\ Asked(p).hash \notin Offering
           /\ Working(p) => Holding(Asked(p).hash) = {p}
<1>1. Asked(p).hash \notin Offering BY DEF ClaimInv, Held, Offering
<1>2. ASSUME Working(p) PROVE Holding(Asked(p).hash) = {p}
  BY <1>2 DEF ClaimInv, ClaimsAreFinal, Holding
<1>q. QED BY <1>1, <1>2

LEMMA Unheld ==
    ASSUME ClaimInv, NEW h \in Hash, table[h] \notin {"running", "expired"}
    PROVE  Holding(h) = {}
BY DEF ClaimInv, Held, Holding

LEMMA LifeTable ==
    ASSUME Typed, Around, ClaimInv, UNCHANGED <<call, letter, told>>,
           NEW h \in Hash, Push(h) \/ Expire(h)
    PROVE  Life!Offer(h) \/ Life!Withdraw(h)
<1>1. UNCHANGED <<[k \in Hash |-> Holding(k)], Mailing, Hearing>>
  BY DEF Holding, Mailing, Hearing, Working, Asked
<1>2. table \in [Hash -> {"new", "pending", "running", "expired"}] BY DEF Around
<1>3. CASE Push(h)
  <2>1. table' = [table EXCEPT ![h] = "pending"] /\ Holding(h) = {}
    BY <1>3, Unheld DEF Push
  <2>2. Offering' = Offering \cup {h} BY <1>2, <2>1 DEF Offering
  <2>q. QED BY <1>1, <2>1, <2>2 DEF Life!Offer, Offering, Holding, Mailing, Hearing
<1>4. CASE Expire(h)
  <2>1. table' = [table EXCEPT ![h] = "expired"] BY <1>4 DEF Expire
  <2>2. Offering' = Offering \ {h} BY <1>2, <2>1 DEF Offering
  <2>q. QED BY <1>1, <2>2 DEF Life!Withdraw, Offering, Holding, Mailing, Hearing
<1>q. QED BY <1>3, <1>4

(* A letter that is opened, forwarded or lost, is heard of or missed. *)
LEMMA LifeLetters ==
    ASSUME Typed, Around, Quiet, NEW p \in Call, Letters(p)
    PROVE  Life!Hear(p) \/ Life!Miss(p) \/ UNCHANGED Life!vars
<1>1. UNCHANGED <<Offering, [k \in Hash |-> Holding(k)]>>
  BY DEF Letters, Offering, Holding, Working, Asked
<1>2. call' = call /\ \A q \in Call : q # p => letter'[q] = letter[q]
  BY DEF Letters
<1>3. told \subseteq Call BY DEF Around
<1>4. CASE ~call[p].claimed
  <2>1. Mailing' = Mailing /\ Hearing' = Hearing
    BY <1>2, <1>4 DEF Mailing, Hearing, Letters
  <2>q. QED BY <1>1, <2>1 DEF Life!vars, Offering, Holding, Mailing, Hearing
<1>5. CASE call[p].claimed /\ letter'[p].stage = "open"
  <2>1. told' = told /\ letter[p].stage \in {"sent", "open"} BY <1>5 DEF Letters
  <2>2. Mailing' = Mailing /\ Hearing' = Hearing
    BY <1>2, <1>5, <2>1 DEF Mailing, Hearing
  <2>q. QED BY <1>1, <2>2 DEF Life!vars, Offering, Holding, Mailing, Hearing
<1>6. CASE call[p].claimed /\ letter'[p].stage # "open"
  <2>1. p \in Mailing /\ letter'[p].stage \notin {"sent", "open"}
    BY <1>6 DEF Letters, Mailing
  <2>2. Mailing' = Mailing \ {p} BY <1>2, <2>1 DEF Mailing
  <2>3. CASE told' = told
    <3>1. Hearing' = Hearing BY <1>2, <2>3 DEF Hearing
    <3>q. QED BY <1>1, <2>1, <2>2, <3>1 DEF Life!Miss, Offering, Holding, Mailing, Hearing
  <2>4. CASE told' = told \cup {p}
    <3>1. Hearing' = Hearing \cup {p} BY <1>2, <1>6, <2>4 DEF Hearing
    <3>q. QED BY <1>1, <2>1, <2>2, <3>1 DEF Life!Hear, Offering, Holding, Mailing, Hearing
  <2>q. QED BY <2>3, <2>4 DEF Letters
<1>q. QED BY <1>4, <1>5, <1>6

(* A step of a call mails its report, or leaves its hash, or is not seen.  *)
LEMMA LifeMoves ==
    ASSUME Typed, Around, ClaimInv, Quiet, NEW p \in Call, Moves(p), Path(p)
    PROVE  \/ UNCHANGED Life!vars
           \/ \E h \in Hash : Life!Mail(h, p) \/ Life!Leave(h, p)
<1>1. /\ \A q \in Call : q # p => call'[q] = call[q]
      /\ call'[p].claimed = call[p].claimed
      /\ call[p].claimed => call'[p].req = call[p].req
  BY DEF Moves, Changes
<1>2. Offering' = Offering /\ told' = told BY DEF Path, Offering
<1>3. Hearing' = Hearing
  <2>1. told \subseteq Call BY DEF Around
  <2>q. QED BY <1>1, <1>2, <2>1 DEF Hearing
<1>4. letter \in [Call -> [stage : {"none", "sent", "lost", "open", "ok", "refused"},
                          key : Key \cup {Nothing}]]
  BY DEF Around
<1>5. ASSUME ~call[p].claimed \/ (Working(p) /\ Working(p)') PROVE \A h \in Hash : Holding(h)' = Holding(h)
  <2>1. \A q \in Call : /\ call'[q].claimed = call[q].claimed
                        /\ call[q].claimed => Asked(q)' = Asked(q) /\ (Working(q)' <=> Working(q))
    BY <1>1, <1>5 DEF Asked, Working
  <2>2. ASSUME NEW h \in Hash PROVE Holding(h)' = Holding(h)
    <3>1. ASSUME NEW q \in Call PROVE q \in Holding(h)' <=> q \in Holding(h)
      BY <2>1, <3>1 DEF Holding
    <3>q. QED BY <3>1 DEF Holding
  <2>q. QED BY <2>2
<1>6. CASE ~call[p].claimed
  <2>1. Mailing' = Mailing
    <3>1. \A q \in Call : q # p => letter'[q] = letter[q] BY <1>4 DEF Path, Posts
    <3>q. QED BY <1>1, <1>6, <3>1 DEF Mailing
  <2>q. QED BY <1>2, <1>3, <1>5, <1>6, <2>1 DEF Life!vars, Offering, Holding, Mailing, Hearing
<1>7. CASE call[p].claimed
  <2>0. PICK h \in Hash : h = Asked(p).hash
    BY <1>7, RequestAssumption DEF Typed, Sound, Asked
  <2>1. Working(p) BY <1>7 DEF Typed, Sound, Path, Working, Calls, Pcs
  <2>2. CASE Posts(p)
    <3>1. Working(p)' BY <2>2 DEF Posts, Working
    <3>2. p \notin Mailing \cup Hearing
      BY <2>2 DEF Posts, Quiet, Early, Pcs, Mailing, Hearing
    <3>3. Mailing' = Mailing \cup {p}
      <4>1. letter'[p].stage = "sent" /\ \A q \in Call : q # p => letter'[q] = letter[q]
        BY <1>4, <2>2 DEF Posts
      <4>q. QED BY <1>1, <1>7, <4>1 DEF Mailing
    <3>4. p \in Holding(h) BY <1>7, <2>0, <2>1 DEF Holding
    <3>q. QED BY <1>2, <1>3, <1>5, <2>0, <2>1, <3>1, <3>2, <3>3, <3>4
         DEF Life!Mail, Offering, Holding, Mailing, Hearing
  <2>3. CASE letter' = letter
    <3>1. Mailing' = Mailing BY <1>1, <2>3 DEF Mailing
    <3>2. CASE Working(p)'
      BY <1>2, <1>3, <1>5, <2>1, <3>1, <3>2 DEF Life!vars, Offering, Holding, Mailing, Hearing
    <3>3. CASE ~Working(p)'
      <4>1. Holding(h) = {p} BY <1>7, <2>0, <2>1, Sole
      <4>2. Holding(h)' = {}
        <5>1. ASSUME NEW q \in Call, q \in Holding(h)' PROVE FALSE
          <6>1. q # p BY <3>3, <5>1 DEF Holding
          <6>2. q \in Holding(h) BY <1>1, <5>1, <6>1 DEF Holding, Working, Asked
          <6>q. QED BY <4>1, <6>1, <6>2
        <5>q. QED BY <5>1 DEF Holding
      <4>3. \A k \in Hash : k # h => Holding(k)' = Holding(k)
        <5>1. ASSUME NEW k \in Hash, k # h, NEW q \in Call
              PROVE  q \in Holding(k)' <=> q \in Holding(k)
          <6>1. CASE q = p BY <1>1, <1>7, <2>0, <5>1, <6>1 DEF Holding, Asked
          <6>2. CASE q # p BY <1>1, <6>2 DEF Holding, Working, Asked
          <6>q. QED BY <6>1, <6>2
        <5>q. QED BY <5>1 DEF Holding
      <4>4. [k \in Hash |-> Holding(k)]' = [[k \in Hash |-> Holding(k)] EXCEPT ![h] = {}]
        BY <4>2, <4>3
      <4>5. p \in [k \in Hash |-> Holding(k)][h] BY <4>1
      <4>q. QED BY <1>2, <1>3, <2>0, <3>1, <4>4, <4>5
           DEF Life!Leave, Offering, Holding, Mailing, Hearing
    <3>q. QED BY <3>2, <3>3
  <2>q. QED BY <1>7, <2>2, <2>3 DEF Path
<1>q. QED BY <1>6, <1>7

(* A claim takes a hash that is offered. *)
LEMMA LifeTakes ==
    ASSUME Typed, Around, ClaimInv, Quiet, NEW p \in Call, Takes(p), UNCHANGED <<letter, told>>,
           call[p].pc = "sent"
    PROVE  \E h \in Hash : Life!Take(h, p)
<1>0. PICK h \in Hash : h = Asked(p).hash
  BY RequestAssumption DEF Typed, Sound, Asked
<1>1. /\ \A q \in Call : q # p => call'[q] = call[q]
      /\ Asked(p)' = Asked(p) /\ call'[p].claimed /\ call'[p].pc = "input"
  BY DEF Takes, Changes, Asked
<1>2. h \in Offering /\ Holding(h) = {}
  BY <1>0, Unheld DEF Takes, Offering, Claimable
<1>3. Offering' = Offering \ {h}
  BY <1>0 DEF Takes, Offering, Around
<1>4. Holding(h)' = {p}
  <2>1. p \in Holding(h)' BY <1>0, <1>1 DEF Holding, Working
  <2>2. ASSUME NEW q \in Call, q # p, q \in Holding(h)' PROVE FALSE
    <3>1. q \in Holding(h) BY <1>1, <2>2 DEF Holding, Working, Asked
    <3>q. QED BY <1>2, <3>1
  <2>q. QED BY <2>1, <2>2 DEF Holding
<1>5. \A k \in Hash : k # h => Holding(k)' = Holding(k)
  <2>1. ASSUME NEW k \in Hash, k # h, NEW q \in Call
        PROVE  q \in Holding(k)' <=> q \in Holding(k)
    <3>1. CASE q = p
      <4>1. ~Working(p) BY DEF Working
      <4>q. QED BY <1>0, <1>1, <2>1, <3>1, <4>1 DEF Holding
    <3>2. CASE q # p BY <1>1, <3>2 DEF Holding, Working, Asked
    <3>q. QED BY <3>1, <3>2
  <2>q. QED BY <2>1 DEF Holding
<1>6. Mailing' = Mailing /\ Hearing' = Hearing
  <2>1. told \subseteq Call BY DEF Around
  <2>2. letter[p].stage = "none" /\ p \notin told BY DEF Quiet, Early, Pcs
  <2>3. Mailing' = Mailing
    <3>1. ASSUME NEW q \in Call PROVE q \in Mailing' <=> q \in Mailing
      <4>1. CASE q = p BY <2>2, <4>1 DEF Mailing
      <4>2. CASE q # p BY <1>1, <4>2 DEF Mailing
      <4>q. QED BY <4>1, <4>2
    <3>q. QED BY <3>1 DEF Mailing
  <2>4. Hearing' = Hearing
    <3>1. ASSUME NEW q \in told PROVE call'[q].claimed = call[q].claimed
      BY <1>1, <2>1, <2>2, <3>1
    <3>q. QED BY <3>1 DEF Hearing
  <2>q. QED BY <2>3, <2>4
<1>7. [k \in Hash |-> Holding(k)]' = [[k \in Hash |-> Holding(k)] EXCEPT ![h] = {p}]
  BY <1>4, <1>5
<1>8. [k \in Hash |-> Holding(k)][h] = {} BY <1>2
<1>q. QED BY <1>0, <1>2, <1>3, <1>6, <1>7, <1>8 DEF Life!Take, Offering, Holding, Mailing, Hearing

(* A node keeps the promise of TaskLife: its tasks are taken by one call   *)
(* at a time, only a call that holds its task reports, and what it reports *)
(* is heard at most once.                                                  *)
THEOREM NodeKeepsPromise == Spec => KeepsPromise
<1>1. Init => Life!Init /\ Quiet
  <2>1. Init => Quiet BY DEF Init, Quiet, NoLetter
  <2>2. Init => Life!Init
    BY DEF Init, Idle, NoLetter, Life!Init, Working
  <2>q. QED BY <2>1, <2>2
<1>2. ASSUME Typed, Around, ClaimInv, Quiet, [Next]_vars
      PROVE  [Life!Next]_(Life!vars)
  <2>1. CASE UNCHANGED <<call, letter, told, table>>
    BY <2>1 DEF Life!vars, Working, Asked
  <2>2. CASE UNCHANGED <<call, letter, told>> /\ \E h \in Hash : Push(h) \/ Expire(h)
    BY <1>2, <2>2, LifeTable DEF Life!Next
  <2>3. CASE \E p \in Call : Letters(p)
    BY <1>2, <2>3, LifeLetters DEF Life!Next
  <2>4. CASE \E p \in Call : Moves(p) /\ Path(p)
    BY <1>2, <2>4, LifeMoves DEF Life!Next
  <2>5. CASE \E p \in Call : Takes(p) /\ UNCHANGED <<letter, told>> /\ call[p].pc = "sent"
    BY <1>2, <2>5, LifeTakes DEF Life!Next
  <2>q. QED BY <1>2, <2>1, <2>2, <2>3, <2>4, <2>5, Journeys DEF vars
<1>q. QED BY <1>1, <1>2, QuietNext, TypedAlways, ClaimInvAlways, PTL DEF Spec, KeepsPromise, Life!Spec

-----------------------------------------------------------------------------
(* The project a proof is reported for *)

(* Ids in project.json have five digits. *)
LEMMA FiveDigits ==
    ASSUME NEW id \in Projects
    PROVE  /\ Len(id) = 5 /\ id \in Seq(Int)
           /\ \A i \in 1..5 : id[i] \in Int /\ 0 <= id[i] /\ id[i] <= 9
<1>1. id \in Seq(0..9) /\ Len(id) = 5 BY RequestAssumption
<1>2. id \in Seq(Int)
  <2>1. 0..9 \subseteq Int OBVIOUS
  <2>q. QED BY <1>1, <2>1, SeqMonotonic
<1>3. ASSUME NEW i \in 1..5
      PROVE  id[i] \in Int /\ 0 <= id[i] /\ id[i] <= 9
  <2>. DEFINE D == 0..9
  <2>1. id \in Seq(D) /\ i \in 1..Len(id) BY <1>1
  <2>. HIDE DEF D
  <2>2. id[i] \in D BY <2>1, ElementOfSeq
  <2>q. QED BY <2>2 DEF D
<1>4. Len(id) = 5 BY <1>1
<1>q. QED BY <1>2, <1>3, <1>4

(* Two digits of a spelled id are a character code. *)
LEMMA SpelledDigits ==
    ASSUME NEW id \in Projects
    PROVE  /\ Len(Spelled(id)) = 10
           /\ \A i \in 1..5 : 10 * Spelled(id)[2 * i - 1] + Spelled(id)[2 * i] = 48 + id[i]
<1>. DEFINE half(j) == LET code == 48 + id[(j + 1) \div 2] IN IF j % 2 = 1 THEN code \div 10 ELSE code % 10
<1>1. 2 * Len(id) = 10
  <2>1. Len(id) = 5 BY FiveDigits
  <2>q. QED BY <2>1
<1>2. Spelled(id) = [j \in 1..10 |-> half(j)]
  BY <1>1 DEF Spelled
<1>3. \A j \in 1..10 : half(j) \in Int
  <2>1. TAKE j \in 1..10
  <2>2. (j + 1) \div 2 \in 1..5 OBVIOUS
  <2>3. PICK c \in Int : c = 48 + id[(j + 1) \div 2] BY <2>2, FiveDigits
  <2>q. QED BY <2>3
<1>4. Len(Spelled(id)) = 10
  <2>1. Spelled(id) \in [1..10 -> Int]
    <3>. HIDE DEF half
    <3>q. QED BY <1>2, <1>3
  <2>q. QED BY <2>1
<1>5. ASSUME NEW i \in 1..5
      PROVE  10 * Spelled(id)[2 * i - 1] + Spelled(id)[2 * i] = 48 + id[i]
  <2>1. PICK c \in Nat : c = 48 + id[i] BY FiveDigits
  <2>2. /\ 2 * i - 1 \in 1..10 /\ 2 * i \in 1..10
        /\ (2 * i - 1) % 2 = 1 /\ (2 * i) % 2 # 1
        /\ ((2 * i - 1) + 1) \div 2 = i /\ (2 * i + 1) \div 2 = i
    OBVIOUS
  <2>3. Spelled(id)[2 * i - 1] = c \div 10 /\ Spelled(id)[2 * i] = c % 10
    BY <1>2, <2>1, <2>2
  <2>4. 10 * (c \div 10) + (c % 10) = c OBVIOUS
  <2>q. QED BY <2>1, <2>3, <2>4
<1>q. QED BY <1>4, <1>5

(* The loop of get_project over an id of ten digits. *)
Cleans(id, f) ==
    f = [i \in 0..5 |->
           IF i = 0 THEN <<>>
           ELSE IF IsDigit(10 * id[2 * i - 1] + id[2 * i])
                THEN Append(f[i - 1], (10 * id[2 * i - 1] + id[2 * i]) - 48)
           ELSE f[i - 1]]

LEMMA DigitsOfTen ==
    ASSUME NEW id, Len(id) = 10
    PROVE  Digits(id) = (CHOOSE f : Cleans(id, f))[5]
<1>1. Len(id) \div 2 = 5 OBVIOUS
<1>q. QED BY <1>1 DEF Digits, Cleans

(* What clean_id is at the end: the loop adds one digit for each pair. *)
LEMMA SpelledReadBack ==
    ASSUME NEW id \in Projects
    PROVE  Digits(Spelled(id)) = id
<1>. DEFINE s == Spelled(id)
            g == [i \in 0..5 |-> SubSeq(id, 1, i)]
<1>1. \A i \in 1..5 : 10 * s[2 * i - 1] + s[2 * i] = 48 + id[i]
  BY SpelledDigits
<1>2. \A i \in 1..5 : IsDigit(48 + id[i]) /\ (48 + id[i]) - 48 = id[i]
  <2>1. ASSUME NEW i \in 1..5 PROVE IsDigit(48 + id[i]) /\ (48 + id[i]) - 48 = id[i]
    <3>1. PICK c \in Int : c = id[i] /\ 0 <= c /\ c <= 9 BY FiveDigits
    <3>q. QED BY <3>1 DEF IsDigit
  <2>q. QED BY <2>1
<1>3. \A i \in 1..5 : SubSeq(id, 1, i) = Append(SubSeq(id, 1, i - 1), id[i])
  BY FiveDigits
<1>. HIDE DEF s
<1>4. Cleans(s, g)
  <2>1. ASSUME NEW i \in 0..5
        PROVE  g[i] = IF i = 0 THEN <<>>
                      ELSE IF IsDigit(10 * s[2 * i - 1] + s[2 * i])
                           THEN Append(g[i - 1], (10 * s[2 * i - 1] + s[2 * i]) - 48)
                      ELSE g[i - 1]
    <3>1. CASE i = 0 BY <3>1, FiveDigits
    <3>2. CASE i # 0
      <4>1. i \in 1..5 /\ i - 1 \in 0..5 BY <3>2
      <4>q. QED BY <1>1, <1>2, <1>3, <3>2, <4>1
    <3>q. QED BY <3>1, <3>2
  <2>2. g = [i \in 0..5 |-> g[i]] OBVIOUS
  <2>. HIDE DEF g
  <2>q. QED BY <2>1, <2>2 DEF Cleans
<1>5. PICK f : Cleans(s, f) /\ Digits(s) = f[5]
  BY <1>4, DigitsOfTen, SpelledDigits DEF s
<1>6. /\ f[0] = <<>>
      /\ \A i \in 1..5 : f[i] = Append(f[i - 1], id[i])
  <2>1. \A i \in 0..5 : f[i] = IF i = 0 THEN <<>>
                               ELSE IF IsDigit(10 * s[2 * i - 1] + s[2 * i])
                                    THEN Append(f[i - 1], (10 * s[2 * i - 1] + s[2 * i]) - 48)
                               ELSE f[i - 1]
    BY <1>5 DEF Cleans
  <2>2. ASSUME NEW i \in 1..5 PROVE f[i] = Append(f[i - 1], id[i])
    <3>1. i \in 0..5 /\ i # 0 OBVIOUS
    <3>2. f[i] = IF IsDigit(48 + id[i]) THEN Append(f[i - 1], (48 + id[i]) - 48) ELSE f[i - 1]
      BY <1>1, <2>1, <3>1
    <3>q. QED BY <1>2, <3>2
  <2>3. f[0] = <<>> BY <2>1
  <2>q. QED BY <2>2, <2>3
<1>7. f[0] = SubSeq(id, 1, 0) BY <1>6, FiveDigits
<1>8. f[5] = SubSeq(id, 1, 5)
  <2>. DEFINE G(i) == f[i] = SubSeq(id, 1, i)
  <2>1. \A i \in 1..5 : G(i - 1) => G(i) BY <1>3, <1>6
  <2>2. G(0) BY <1>7
  <2>. HIDE DEF G
  <2>3. G(1) /\ G(2) BY <2>1, <2>2
  <2>4. G(3) /\ G(4) BY <2>1, <2>3
  <2>5. G(5) BY <2>1, <2>4
  <2>q. QED BY <2>5 DEF G
<1>9. SubSeq(id, 1, 5) = id BY FiveDigits
<1>q. QED BY <1>5, <1>8, <1>9 DEF s

(* What get_project makes of an id, plain or spelled out. *)
LEMMA ProjectRead ==
    ASSUME NEW id \in Projects
    PROVE  GetProject(id) = id /\ GetProject(Spelled(id)) = id
<1>1. GetProject(id) = id BY FiveDigits DEF GetProject, Known
<1>2. GetProject(Spelled(id)) = Known(Digits(Spelled(id)))
  <2>1. 10 # 5 /\ 10 % 2 = 0 OBVIOUS
  <2>q. QED BY <2>1, SpelledDigits DEF GetProject
<1>q. QED BY <1>1, <1>2, SpelledReadBack DEF Known

(* The methods a service function may choose, and the field of the answer  *)
(* that it reads.                                                          *)
Ops == {"prove", "prove_nosha256", "prove_nosha256_with_witness", "prove_nosha256_offchain", "prove_v2"}

MethodsOf(op) ==
    CASE op = "prove" -> {"Prove"}
      [] op = "prove_nosha256" -> {"ProveNosha256"}
      [] op = "prove_nosha256_with_witness" -> {"ProveNosha256WithWitness"}
      [] op = "prove_nosha256_offchain" -> {"ProveNosha256Offchain"}
      [] op = "prove_v2" -> {"ProveV2", "ProveTigaOffchain", "ProveBinanceOffchain", "ProveMerkleOffchain"}

FieldOf(op) ==
    CASE op \in {"prove", "prove_nosha256"} -> "proof"
      [] op \in {"prove_nosha256_with_witness", "prove_nosha256_offchain"} -> "witness"
      [] op = "prove_v2" -> "public_witness"

LEMMA FieldsFit ==
    ASSUME NEW op \in Ops, NEW method \in MethodsOf(op) \cap Offered
    PROVE  InputsIn(method) = FieldOf(op)
BY DEF Ops, MethodsOf, Offered, InputsIn, FieldOf

(* NamesProject is about a call's last step; what it needs of the stages   *)
(* before: the method is one of the function that will read the answer, a  *)
(* proof came from a method that is offered, and a project was read off it. *)
Fit(c) ==
    /\ c.pc = "idle" => c.project = Nothing
    /\ c.pc \in {"rpc", "result"} => c.req.op \in Ops /\ c.method \in MethodsOf(c.req.op)
    /\ c.proof => c.method \in Offered
    /\ c.project # Nothing => c.project = GetProject(c.req.id)

AllFit == \A p \in Call : Fit(call[p])

Chooses(p) ==
    /\ call[p].req.op \in Ops
    /\ \/ \E choice : Choose(p, choice) /\ (choice \in Offered \cup {"Prove"} => choice \in MethodsOf(call[p].req.op))
       \/ Result(p, FieldOf(call[p].req.op))

LEMMA ServiceChoices ==
    ASSUME NEW p \in Call, Service(p)
    PROVE  ProcessInput(p) \/ Validate(p) \/ Chooses(p)
<1>1. ASSUME NEW op \in Ops, NEW method \in MethodsOf(op), V1(p, op, method, FieldOf(op))
      PROVE  Chooses(p)
  <2>1. call[p].req.op = op BY <1>1 DEF V1, Asked
  <2>2. "UNSUPPORT_PROVER" \notin Offered \cup {"Prove"} BY DEF Offered
  <2>3. CASE Result(p, FieldOf(op)) BY <2>1, <2>3 DEF Chooses
  <2>4. CASE ~Result(p, FieldOf(op))
    <3>1. PICK choice \in {method, "UNSUPPORT_PROVER"} : Choose(p, choice)
      BY <1>1, <2>4 DEF V1
    <3>q. QED BY <2>1, <2>2, <3>1 DEF Chooses
  <2>q. QED BY <2>3, <2>4
<1>2. CASE V1Prove(p) BY <1>1, <1>2 DEF V1Prove, Ops, MethodsOf, FieldOf
<1>3. CASE V1Nosha256(p) BY <1>1, <1>3 DEF V1Nosha256, Ops, MethodsOf, FieldOf
<1>4. CASE V1WithWitness(p) BY <1>1, <1>4 DEF V1WithWitness, Ops, MethodsOf, FieldOf
<1>5. CASE V1Offchain(p) BY <1>1, <1>5 DEF V1Offchain, Ops, MethodsOf, FieldOf
<1>6. CASE V2Prove(p)
  <2>1. call[p].req.op = "prove_v2" BY <1>6 DEF V2Prove, Version2, Asked
  <2>2. CASE Result(p, "public_witness") BY <2>1, <2>2 DEF Chooses, Ops, FieldOf
  <2>3. CASE ~Result(p, "public_witness")
    <3>1. PICK choice : /\ Choose(p, choice)
                        /\ choice \in {"ProveV2", "UNSUPPORT_PROVER", PrivateMethod(Asked(p).circuit)}
      BY <1>6, <2>3 DEF V2Prove
    <3>2. choice \in Offered \cup {"Prove"} => choice \in MethodsOf("prove_v2")
      BY <3>1 DEF PrivateMethod, Offered, MethodsOf
    <3>q. QED BY <2>1, <3>1, <3>2 DEF Chooses, Ops
  <2>q. QED BY <2>2, <2>3
<1>q. QED BY <1>2, <1>3, <1>4, <1>5, <1>6
     DEF Service, V1ProcessInput, V2ProcessInput, V1Validate, V2Validate

(* A step that neither asks, chooses, proves nor reads a project. *)
Silent(p) ==
    /\ \A q \in Call : q # p => call'[q] = call[q]
    /\ call'[p].req = call[p].req /\ call'[p].method = call[p].method
    /\ call'[p].proof = call[p].proof /\ call'[p].project = call[p].project
    /\ call'[p].pc \notin {"idle", "rpc", "result"}

LEMMA SilentFits ==
    ASSUME AllFit, NEW p \in Call, Silent(p)
    PROVE  AllFit'
BY DEF AllFit, Fit, Silent

LEMMA EndSilent ==
    ASSUME Typed, NEW p \in Call, NEW a, End(p, a)
    PROVE  Silent(p)
<1>1. call' = [call EXCEPT ![p].pc = "over", ![p].answer = a] BY DEF End
<1>2. call \in [Call -> Calls] /\ call[p] \in Calls BY DEF Typed
<1>q. QED BY <1>1, <1>2 DEF Silent, Calls

LEMMA GotoSilent ==
    ASSUME Typed, NEW p \in Call, NEW pc, Goto(p, pc), pc \notin {"idle", "rpc", "result"}
    PROVE  Silent(p)
<1>1. call' = [call EXCEPT ![p].pc = pc] BY DEF Goto
<1>2. call \in [Call -> Calls] /\ call[p] \in Calls BY DEF Typed
<1>q. QED BY <1>1, <1>2 DEF Silent, Calls

LEMMA HandlerSilent ==
    ASSUME Typed, NEW p \in Call, Handling(p)
    PROVE  Silent(p)
<1>0. call \in [Call -> Calls] /\ call[p] \in Calls BY DEF Typed
<1>1. CASE GetPublicKey(p)
  <2>1. CASE files["public"] \in Key
    <3>1. call' = [call EXCEPT ![p].pc = "sent", ![p].key = files["public"]]
      BY <1>1, <2>1 DEF GetPublicKey
    <3>q. QED BY <1>0, <3>1 DEF Silent, Calls
  <2>2. CASE files["public"] \notin Key BY <1>1, <2>2, EndSilent DEF GetPublicKey
  <2>q. QED BY <2>1, <2>2
<1>2. CASE Claim(p)
  <2>1. CASE Claimable(Asked(p).hash)
    <3>1. call' = [call EXCEPT ![p].pc = "input", ![p].claimed = TRUE]
      BY <1>2, <2>1 DEF Claim
    <3>q. QED BY <1>0, <3>1 DEF Silent, Calls
  <2>2. CASE ~Claimable(Asked(p).hash) BY <1>2, <2>2, EndSilent DEF Claim
  <2>q. QED BY <2>1, <2>2
<1>3. CASE Reply(p) BY <1>3, GotoSilent DEF Reply
<1>4. CASE OpenUpdate(p)
  <2>1. Goto(p, "update") \/ \E a : End(p, a) BY <1>4 DEF OpenUpdate
  <2>q. QED BY <2>1, EndSilent, GotoSilent
<1>5. CASE Http1NotSupported(p) \/ Grpc1Unimplemented(p)
  BY <1>5, EndSilent DEF Http1NotSupported, Grpc1Unimplemented
<1>q. QED BY <1>1, <1>2, <1>3, <1>4, <1>5 DEF Handling

LEMMA InputSilent ==
    ASSUME Typed, NEW p \in Call, ProcessInput(p) \/ Validate(p)
    PROVE  Silent(p)
<1>1. Goto(p, "validate") \/ Goto(p, "choose") \/ \E a : End(p, a)
  BY DEF ProcessInput, Validate, Valid
<1>q. QED BY <1>1, EndSilent, GotoSilent

LEMMA HubClientSilent ==
    ASSUME Typed, NEW p \in Call, HubClient(p)
    PROVE  Silent(p)
<1>1. Goto(p, "reported") \/ Goto(p, "posted") \/ \E a : End(p, a)
  BY DEF HubClient, SendResult, UpdateVerifier, Post, EndPost, Timeout, Settle
<1>q. QED BY <1>1, EndSilent, GotoSilent

LEMMA ChoosesFit ==
    ASSUME Typed, AllFit, NEW p \in Call, Chooses(p)
    PROVE  AllFit'
<1>0. call \in [Call -> Calls] /\ call[p] \in Calls /\ Fit(call[p]) /\ Sound(call[p])
  BY DEF Typed, AllFit
<1>. DEFINE op == call[p].req.op
<1>1. ASSUME NEW choice, Choose(p, choice), choice \in Offered \cup {"Prove"} => choice \in MethodsOf(op)
      PROVE  AllFit'
  <2>1. CASE choice \in Offered \cup {"Prove"}
    <3>1. call' = [call EXCEPT ![p].pc = "rpc", ![p].method = choice] /\ call[p].pc = "choose"
      BY <1>1, <2>1 DEF Choose, At
    <3>2. /\ call'[p].pc = "rpc" /\ call'[p].method = choice /\ call'[p].req = call[p].req
          /\ call'[p].proof = call[p].proof /\ call'[p].project = call[p].project
          /\ \A q \in Call : q # p => call'[q] = call[q]
      BY <1>0, <3>1 DEF Calls
    <3>3. ~call[p].proof BY <1>0, <3>1 DEF Sound
    <3>q. QED BY <1>0, <1>1, <2>1, <3>2, <3>3 DEF AllFit, Fit, Chooses
  <2>2. CASE choice \notin Offered \cup {"Prove"}
    <3>1. End(p, choice) BY <1>1, <2>2 DEF Choose
    <3>q. QED BY <3>1, EndSilent, SilentFits
  <2>q. QED BY <2>1, <2>2
<1>2. CASE Result(p, FieldOf(op))
  <2>1. call[p].pc = "result" BY <1>2 DEF Result, At
  <2>2. op \in Ops /\ call[p].method \in MethodsOf(op) BY <1>0, <2>1 DEF Fit
  <2>3. call[p].proof => FieldOf(op) = InputsIn(call[p].method)
    BY <1>0, <2>2, FieldsFit DEF Fit
  <2>4. PICK project : /\ project # Nothing => project = GetProject(call[p].req.id)
                       /\ call' = [call EXCEPT ![p].pc = "served", ![p].project = project]
    <3>1. CASE call[p].proof
      BY <1>2, <2>3, <3>1 DEF Result, Asked
    <3>2. CASE ~call[p].proof
      BY <1>2, <3>2 DEF Result
    <3>q. QED BY <3>1, <3>2
  <2>5. /\ call'[p].pc = "served" /\ call'[p].method = call[p].method /\ call'[p].req = call[p].req
        /\ call'[p].proof = call[p].proof /\ call'[p].project = project
        /\ \A q \in Call : q # p => call'[q] = call[q]
    BY <1>0, <2>4 DEF Calls
  <2>q. QED BY <1>0, <2>4, <2>5 DEF AllFit, Fit
<1>q. QED BY <1>1, <1>2 DEF Chooses

LEMMA RpcFits ==
    ASSUME Typed, AllFit, NEW p \in Call, NEW method, Rpc(p, method)
    PROVE  AllFit'
<1>0. call \in [Call -> Calls] /\ call[p] \in Calls /\ Fit(call[p])
  BY DEF Typed, AllFit
<1>1. call[p].pc = "rpc" /\ call[p].method = method BY DEF Rpc, At
<1>2. PICK a, proof :
        /\ proof => method \in Offered
        /\ call' = [call EXCEPT ![p].pc = "result", ![p].answer = a, ![p].proof = proof]
  BY DEF Rpc, Returned
<1>3. /\ call'[p].pc = "result" /\ call'[p].method = method /\ call'[p].req = call[p].req
      /\ call'[p].proof = proof /\ call'[p].project = call[p].project
      /\ \A q \in Call : q # p => call'[q] = call[q]
  BY <1>0, <1>1, <1>2 DEF Calls
<1>q. QED BY <1>0, <1>1, <1>2, <1>3 DEF AllFit, Fit

LEMMA AskFits ==
    ASSUME Typed, AllFit, NEW p \in Call, Ask(p)
    PROVE  AllFit'
<1>0. call \in [Call -> Calls] /\ call[p] \in Calls /\ Fit(call[p]) /\ call[p].pc = "idle"
      /\ Sound(call[p])
  BY DEF Typed, AllFit, Ask, At
<1>1. PICK r \in Asks[p] :
        call' = [call EXCEPT ![p].pc = IF r.sealed THEN "sealing" ELSE "sent", ![p].req = r]
  BY DEF Ask
<1>2. /\ call'[p].pc \in {"sealing", "sent"} /\ call'[p].proof = call[p].proof /\ call'[p].project = call[p].project
      /\ \A q \in Call : q # p => call'[q] = call[q]
  BY <1>0, <1>1 DEF Calls
<1>q. QED BY <1>0, <1>2 DEF AllFit, Fit, Sound

LEMMA FitNext ==
    ASSUME Typed, AllFit, [Next]_vars
    PROVE  AllFit'
<1>1. CASE UNCHANGED call BY <1>1 DEF AllFit
<1>2. ASSUME NEW p \in Call, Handler(p) \/ HubClient(p) \/ Abandon(p) PROVE AllFit'
  <2>1. Silent(p)
    BY <1>2, HandlerCases, HandlerSilent, HubClientSilent, GotoSilent DEF Abandon
  <2>q. QED BY <2>1, SilentFits
<1>3. ASSUME NEW p \in Call, Service(p) PROVE AllFit'
  BY <1>3, ServiceChoices, InputSilent, SilentFits, ChoosesFit
<1>4. ASSUME NEW p \in Call, Prover(p) PROVE AllFit'
  BY <1>4, ProverCases, RpcFits
<1>5. ASSUME NEW p \in Call, Hub(p) \/ Lose(p) PROVE UNCHANGED call
  BY <1>5, HubCases DEF Opens, Forward, Lose
<1>q. QED BY <1>1, <1>2, <1>3, <1>4, <1>5, AskFits DEF Next, Serve, Push, Expire, ChangeFile, vars

(* Every proof is reported for the project whose id its request carries,   *)
(* plain or as character codes, for any projects with ids of five digits   *)
(* and whichever of the functions of the services made it.                 *)
THEOREM ProofsNameTheirProject == Spec => []NamesProject
<1>1. Init => AllFit BY DEF Init, AllFit, Fit, Idle
<1>2. ASSUME AllFit
      PROVE  NamesProject
  <2>1. SUFFICES ASSUME NEW p \in Call, call[p].project # Nothing, NEW id \in Projects,
                        call[p].req.id \in {id, Spelled(id)}
                 PROVE  call[p].project = id
    BY DEF NamesProject, Asked
  <2>2. call[p].project = GetProject(call[p].req.id) BY <1>2, <2>1 DEF AllFit, Fit
  <2>q. QED BY <2>1, <2>2, ProjectRead
<1>q. QED BY <1>1, <1>2, FitNext, TypedAlways, PTL DEF Spec
=============================================================================
