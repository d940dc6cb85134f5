------------------------------ MODULE JwksCache ------------------------------
(***************************************************************************)
(* The OAuth providers google and x509_google of a node.  A provider keeps *)
(* the key set it fetched last, for ever: it fetches one before the node   *)
(* serves (ServerBuilder.build), and again for every input that no key of  *)
(* the set verifies.                                                       *)
(*                                                                         *)
(* Nothing locks a provider.  Its issuer changes the published keys while  *)
(* calls are between their request, the response, the store of the         *)
(* response, and their second look at what is stored.                      *)
(***************************************************************************)
EXTENDS Integers, Sequences

CONSTANTS
    Call,      \* verifications
    Docs,      \* the documents each issuer publishes, one after the other,
               \* each a sequence of keys: a modulus, Malformed or None
    Inputs,    \* what calls verify: a provider, and the chunks of a modulus
    Base,      \* 2^circom_bigint_n, 2^121 in the configuration
    Limbs,     \* circom_bigint_k, 17
    Malformed, \* a key with the fields of a JWK that are no RSA key
    None       \* no input, no answer, a key without these fields

(* The providers of ServerBuilder.build, in its order. *)
Provider == <<"google", "x509_google">>

Name == {"google", "x509_google"}

ASSUME CacheAssumption ==
    /\ \A n \in Name :
          Docs[n] \in Seq(Seq(Nat \cup {Malformed, None})) /\ Len(Docs[n]) > 0
    /\ \A i \in Inputs : i.provider \in Name
    /\ None \notin Inputs \cup Nat \cup [1..Limbs -> Nat]
    /\ Malformed \notin Nat \cup {None}
    /\ Base \in Nat \ {0, 1}
    /\ Limbs \in Nat

VARIABLES
    published,  \* the number of the document each issuer publishes
    jwks,       \* the number of the document each provider keeps, 0 for none
    loaded,     \* providers loaded by build; the node serves when all are
    call,       \* the verifications
    stores      \* history: the calls that stored since each call did

vars == <<published, jwks, loaded, call, stores>>

Idle == [pc |-> "idle", input |-> None, since |-> 0, got |-> 0]

Init ==
    /\ published = [n \in Name |-> 1]
    /\ jwks = [n \in Name |-> 0]
    /\ loaded = 0
    /\ call = [c \in Call |-> Idle]
    /\ stores = [c \in Call |-> {}]

Serving == loaded = 2

-----------------------------------------------------------------------------
(* Key sets. *)

(* 1 << (i * circom_bigint_n), for what a limb is shifted by. *)
Power[i \in 0..Limbs] == IF i = 0 THEN 1 ELSE Base * Power[i - 1]

(* Mutant of ToCircomBigint: the shift is off by one. *)
ShiftedBigint(num) == [i \in 1..Limbs |-> (num \div Power[i]) % Base]

(* A modulus as Limbs numbers below Base, the lowest first. *)
ToCircomBigint(num) == [i \in 1..Limbs |-> (num \div Power[i - 1]) % Base]

Keys(doc) == {doc[i] : i \in 1..Len(doc)}

(* JWKS(...) looks at the fields of the keys, not at what they hold.       *)
GoogleParses(doc) == None \notin Keys(doc)

(* The fields are those of the key in a certificate; they are missing if   *)
(* that is no RSA key.                                                     *)
X509Parses(doc) == Keys(doc) \subseteq Nat

Parses(n, doc) == IF n = "x509_google" THEN X509Parses(doc) ELSE GoogleParses(doc)

(* _verify against a document takes its keys in turn until one matches ... *)
Verifies(n, v, modulus) ==
    \E i \in 1..Len(Docs[n][v]) :
        /\ Docs[n][v][i] \in Nat
        /\ ToCircomBigint(Docs[n][v][i]) = modulus
        /\ \A j \in 1..i - 1 : Docs[n][v][j] # Malformed

(* ... and raises at a malformed one; an input without a modulus (None) is *)
(* refused before any key is looked at.                                    *)
Look(n, v, modulus) ==
    CASE Verifies(n, v, modulus) -> "accepted"
      [] ~Verifies(n, v, modulus) /\ modulus # None /\ Malformed \in Keys(Docs[n][v]) -> "raised"
      [] OTHER -> "rejected"

-----------------------------------------------------------------------------
(* ServerBuilder.build: update_jwks of each provider in turn.  When one    *)
(* raises, the node does not start, and is started again.                  *)
Load ==
    /\ ~Serving
    /\ LET n == Provider[loaded + 1]
       IN  /\ Parses(n, Docs[n][published[n]])
           /\ jwks' = [jwks EXCEPT ![n] = published[n]]
           /\ loaded' = loaded + 1
    /\ UNCHANGED <<published, call, stores>>

LoadFails ==
    /\ ~Serving
    /\ jwks' = [n \in Name |-> 0]
    /\ loaded' = 0
    /\ UNCHANGED <<published, call, stores>>

(* The issuer publishes its next document. *)
Rotate(n) ==
    /\ published[n] < Len(Docs[n])
    /\ published' = [published EXCEPT ![n] = @ + 1]
    /\ UNCHANGED <<jwks, loaded, call, stores>>

-----------------------------------------------------------------------------
(* verify *)

At(c, pc) == call[c].pc = pc

Of(c) == call[c].input.provider

Goto(c, pc) == call' = [call EXCEPT ![c].pc = pc]

(* Mutant of Verify: a failed first look is not followed by an update. *)
VerifyOnce(c, i) ==
    /\ Serving
    /\ At(c, "idle")
    /\ call' = [call EXCEPT ![c] =
         [pc |-> Look(i.provider, jwks[i.provider], i.modulus),
          input |-> i, since |-> published[i.provider], got |-> 0]]
    /\ UNCHANGED <<published, jwks, loaded, stores>>

(* The first look: no await before it, and an update only when it rejects. *)
Verify(c, i) ==
    LET look == Look(i.provider, jwks[i.provider], i.modulus)
    IN  /\ Serving
        /\ At(c, "idle")
        /\ call' = [call EXCEPT ![c] =
             [pc |-> IF look = "rejected" THEN "fetch" ELSE look,
              input |-> i, since |-> published[i.provider], got |-> 0]]
        /\ UNCHANGED <<published, jwks, loaded, stores>>

(* The issuer answers with what it publishes now. *)
Respond(c) ==
    /\ At(c, "fetch")
    /\ call' = [call EXCEPT ![c].pc = "store", ![c].got = published[Of(c)]]
    /\ UNCHANGED <<published, jwks, loaded, stores>>

(* Mutant of FetchFails: the error is not raised. *)
FetchFailsOn(c) ==
    /\ At(c, "fetch")
    /\ Goto(c, "store")
    /\ UNCHANGED <<published, jwks, loaded, stores>>

(* No answer, or another status than 2xx. *)
FetchFails(c) ==
    /\ At(c, "fetch")
    /\ Goto(c, "raised")
    /\ UNCHANGED <<published, jwks, loaded, stores>>

(* self.jwks = JWKS(...), and the calls that wait for their second look.   *)
Stores(c) ==
    stores' = [q \in Call |-> IF q = c THEN {}
                              ELSE IF At(q, "again") /\ Of(q) = Of(c) THEN stores[q] \cup {c}
                              ELSE stores[q]]

(* Mutant of Store: a document that does not parse is kept. *)
StoreUnparsed(c) ==
    /\ At(c, "store")
    /\ jwks' = [jwks EXCEPT ![Of(c)] = call[c].got]
    /\ Stores(c)
    /\ Goto(c, "again")
    /\ UNCHANGED <<published, loaded>>

Store(c) ==
    /\ At(c, "store")
    /\ IF Parses(Of(c), Docs[Of(c)][call[c].got])
       THEN /\ jwks' = [jwks EXCEPT ![Of(c)] = call[c].got]
            /\ Stores(c)
            /\ Goto(c, "again")
       ELSE Goto(c, "raised") /\ UNCHANGED <<jwks, stores>>
    /\ UNCHANGED <<published, loaded>>

(* Mutant of VerifyAgain: it retries until the input verifies. *)
VerifyUntil(c) ==
    /\ At(c, "again")
    /\ LET look == Look(Of(c), jwks[Of(c)], call[c].input.modulus)
       IN  Goto(c, IF look = "rejected" THEN "fetch" ELSE look)
    /\ UNCHANGED <<published, jwks, loaded, stores>>

(* The second look, after the session was closed. *)
VerifyAgain(c) ==
    /\ At(c, "again")
    /\ Goto(c, Look(Of(c), jwks[Of(c)], call[c].input.modulus))
    /\ UNCHANGED <<published, jwks, loaded, stores>>

-----------------------------------------------------------------------------
Update(c) == Respond(c) \/ FetchFails(c) \/ Store(c)

GoogleVerify(c, i) == i.provider = "google" /\ Verify(c, i)
GoogleUpdate(c)    == Of(c) = "google" /\ Update(c)
GoogleAgain(c)     == Of(c) = "google" /\ VerifyAgain(c)

X509Verify(c, i)   == i.provider = "x509_google" /\ Verify(c, i)
X509Update(c)      == Of(c) = "x509_google" /\ Update(c)
X509Again(c)       == Of(c) = "x509_google" /\ VerifyAgain(c)

Step(c) ==
    /\ ~At(c, "idle")
    /\ GoogleUpdate(c) \/ GoogleAgain(c) \/ X509Update(c) \/ X509Again(c)

Next ==
    \/ Load \/ LoadFails
    \/ \E n \in Name : Rotate(n)
    \/ \E c \in Call, i \in Inputs : GoogleVerify(c, i) \/ X509Verify(c, i)
    \/ \E c \in Call : Step(c)

Spec == Init /\ [][Next]_vars

(* The event loop runs what is ready, and a fetch has a timeout. *)
FairSpec == Spec /\ \A c \in Call : WF_vars(Step(c))

-----------------------------------------------------------------------------
(* Properties. *)

Calls == [pc : {"idle", "fetch", "store", "again", "accepted", "rejected", "raised"},
          input : Inputs \cup {None}, since : Nat, got : Nat]

(* A call has an input, a document it began with, and the response it is   *)
(* to store or has stored, which is no older.                              *)
Begun(c) ==
    /\ call[c].input \in Inputs
    /\ call[c].since \in 1..published[Of(c)]
    /\ call[c].got \in 0..published[Of(c)]
    /\ call[c].pc \in {"store", "again"} => call[c].got >= call[c].since

(* Every variable has its type; no document is kept before it is published. *)
TypeOK ==
    /\ published \in [Name -> Nat]
    /\ jwks \in [Name -> Nat]
    /\ \A n \in Name : published[n] \in 1..Len(Docs[n]) /\ jwks[n] <= published[n]
    /\ loaded \in 0..2
    /\ call \in [Call -> Calls]
    /\ \A c \in Call : ~At(c, "idle") => Begun(c)
    /\ stores \in [Call -> SUBSET Call]

(* While the node serves, every provider keeps a document that was         *)
(* published and that parses: _verify reads self.jwks.keys outside of its  *)
(* try block, so a provider without keys would fail every request.  The    *)
(* keys of x509_google are then RSA keys; those of google may still be     *)
(* malformed, and looks that come to one raise.                            *)
KeysUsable ==
    Serving => \A n \in Name : jwks[n] \in 1..published[n] /\ Parses(n, Docs[n][jwks[n]])

(* The number whose limbs these are. *)
Value(limbs) ==
    LET sum[i \in 0..Limbs] == IF i = 0 THEN 0 ELSE sum[i - 1] + limbs[i] * Power[i - 1]
    IN  sum[Limbs]

(* An input is accepted only if its limbs make up a modulus that the       *)
(* issuer named by the provider has published.                             *)
AcceptedIsPublished ==
    \A c \in Call : At(c, "accepted") =>
        /\ call[c].input.modulus # None
        /\ \E v \in 1..published[Of(c)] : Value(call[c].input.modulus) \in Keys(Docs[Of(c)][v])

(* The input is signed by a key that the issuer has published ever since   *)
(* the call began.                                                         *)
SignedThroughout(c) ==
    \A v \in call[c].since..published[Of(c)] : Verifies(Of(c), v, call[c].input.modulus)

(* A valid input is rejected only if another call, between this call's     *)
(* store and its second look, stored a response from before this call      *)
(* began.                                                                  *)
RejectionExplained ==
    \A c \in Call : At(c, "rejected") /\ SignedThroughout(c) =>
        \E q \in stores[c] : call[q].got < call[c].since

(* Every verification ends. *)
CallsEnd == \A c \in Call : At(c, "fetch") ~> call[c].pc \in {"accepted", "rejected", "raised"}
=============================================================================
