-------------------------- MODULE JwksCacheProofs --------------------------
(***************************************************************************)
(* Proofs about JwksCache, for any documents, inputs and number of calls.  *)
(***************************************************************************)
EXTENDS JwksCache, TLAPS, WellFoundedInduction

LEMMA Constants ==
    /\ \A n \in Name : Len(Docs[n]) \in Nat /\ Len(Docs[n]) > 0
    /\ \A i \in Inputs : i.provider \in Name
    /\ None \notin Inputs
BY CacheAssumption

-----------------------------------------------------------------------------
(* Type correctness *)

Documents ==
    /\ published \in [Name -> Nat]
    /\ jwks \in [Name -> Nat]
    /\ \A n \in Name : published[n] \in 1..Len(Docs[n]) /\ jwks[n] <= published[n]
    /\ loaded \in 0..2

Typed ==
    /\ Documents
    /\ call \in [Call -> Calls]
    /\ stores \in [Call -> SUBSET Call]

AllBegun == \A c \in Call : ~At(c, "idle") => Begun(c)

LEMMA TypeParts == TypeOK <=> Typed /\ AllBegun
BY DEF TypeOK, Typed, Documents, AllBegun

LEMMA OfIsName ==
    ASSUME NEW c \in Call, Begun(c)
    PROVE  Of(c) \in Name
BY Constants DEF Begun, Of

LEMMA InitTyped == Init => Typed /\ AllBegun
BY Constants DEF Init, Typed, Documents, AllBegun, Idle, Calls, At, Name

(* Before a node serves its calls are idle, so only documents change.      *)
LEMMA LoadTyped ==
    ASSUME Typed, AllBegun, Load \/ LoadFails
    PROVE  Typed' /\ AllBegun'
<1>1. CASE Load
  <2>1. loaded \in {0, 1}
    BY <1>1 DEF Load, Serving, Typed, Documents
  <2>2. Provider[loaded + 1] \in Name
    BY <2>1 DEF Provider, Name
  <2>3. Documents'
    BY <1>1, <2>1, <2>2 DEF Load, Typed, Documents
  <2>q. QED BY <1>1, <2>3 DEF Load, Typed, AllBegun, Begun, At, Of
<1>2. CASE LoadFails
  BY <1>2 DEF LoadFails, Typed, Documents, AllBegun, Begun, At, Of
<1>q. QED BY <1>1, <1>2

LEMMA RotateTyped ==
    ASSUME Typed, AllBegun, NEW n \in Name, Rotate(n)
    PROVE  Typed' /\ AllBegun'
<1>1. Typed'
  BY Constants DEF Rotate, Typed, Documents
<1>2. \A m \in Name : published'[m] \in Nat /\ published[m] <= published'[m] /\ published[m] \in Nat
  BY DEF Rotate, Typed, Documents
<1>3. \A c \in Call : Begun(c) => Begun(c)'
  <2>1. TAKE c \in Call
  <2>2. HAVE Begun(c)
  <2>3. Of(c) \in Name BY <2>2, OfIsName
  <2>4. call' = call BY DEF Rotate
  <2>5. published'[Of(c)] \in Nat /\ published[Of(c)] <= published'[Of(c)] /\ published[Of(c)] \in Nat
    BY <1>2, <2>3
  <2>q. QED BY <2>2, <2>4, <2>5 DEF Begun, Of
<1>q. QED BY <1>1, <1>3 DEF AllBegun, Rotate, At

(* The steps of a call change it alone, and no document is published. *)
LEMMA Others ==
    ASSUME Typed, AllBegun, NEW c \in Call, UNCHANGED published,
           call' \in [Call -> Calls], \A q \in Call \ {c} : call'[q] = call[q],
           ~At(c, "idle")' => Begun(c)'
    PROVE  AllBegun'
BY DEF AllBegun, Begun, At, Of

(* The three results of a look. *)
LEMMA LookResults ==
    ASSUME NEW n, NEW v, NEW modulus
    PROVE  /\ Look(n, v, modulus) \in {"accepted", "raised", "rejected"}
           /\ Look(n, v, modulus) = "accepted" <=> Verifies(n, v, modulus)
<1>1. CASE Verifies(n, v, modulus) BY <1>1 DEF Look
<1>2. CASE ~Verifies(n, v, modulus) /\ modulus # None /\ Malformed \in Keys(Docs[n][v])
  BY <1>2 DEF Look
<1>3. CASE ~Verifies(n, v, modulus) /\ ~(modulus # None /\ Malformed \in Keys(Docs[n][v]))
  BY <1>3 DEF Look
<1>q. QED BY <1>1, <1>2, <1>3

LEMMA VerifyTyped ==
    ASSUME Typed, AllBegun, NEW c \in Call, NEW i \in Inputs, Verify(c, i)
    PROVE  Typed' /\ AllBegun'
<1>1. i.provider \in Name BY Constants
<1>2. published[i.provider] \in Nat /\ published[i.provider] >= 1
  BY <1>1, Constants DEF Typed, Documents
<1>3. call' \in [Call -> Calls] /\ \A q \in Call \ {c} : call'[q] = call[q]
  BY <1>2, LookResults DEF Verify, Typed, Calls
<1>4. Begun(c)'
  BY <1>2, LookResults DEF Verify, Typed, Begun, Of
<1>q. QED BY <1>3, <1>4, Others DEF Verify, Typed, Documents

LEMMA UpdateTyped ==
    ASSUME Typed, AllBegun, NEW c \in Call, Update(c)
    PROVE  Typed' /\ AllBegun'
<1>0. ~At(c, "idle") BY DEF Update, Respond, FetchFails, Store, At
<1>1. Begun(c) BY <1>0 DEF AllBegun
<1>2. Of(c) \in Name BY <1>1, OfIsName
<1>3. published[Of(c)] \in Nat BY <1>2 DEF Typed, Documents
<1>4. call[c] \in Calls BY DEF Typed
<1>5. CASE Respond(c)
  <2>1. call' \in [Call -> Calls] /\ \A q \in Call \ {c} : call'[q] = call[q]
    BY <1>3, <1>5 DEF Respond, Typed, Calls
  <2>2. Begun(c)'
    BY <1>1, <1>3, <1>4, <1>5 DEF Respond, Begun, Of, Calls, Typed
  <2>q. QED BY <1>5, <2>1, <2>2, Others DEF Respond, Typed, Documents
<1>6. CASE FetchFails(c)
  <2>1. call' \in [Call -> Calls] /\ \A q \in Call \ {c} : call'[q] = call[q]
    BY <1>6 DEF FetchFails, Goto, Typed, Calls
  <2>2. Begun(c)'
    BY <1>1, <1>4, <1>6 DEF FetchFails, Goto, Begun, Of, Calls, Typed
  <2>q. QED BY <1>6, <2>1, <2>2, Others DEF FetchFails, Typed, Documents
<1>7. CASE Store(c)
  <2>1. call' \in [Call -> Calls] /\ \A q \in Call \ {c} : call'[q] = call[q]
    BY <1>7 DEF Store, Goto, Typed, Calls
  <2>2. Begun(c)'
    BY <1>1, <1>4, <1>7 DEF Store, Goto, Begun, Of, Calls, Typed, At
  <2>3. stores' \in [Call -> SUBSET Call]
    BY <1>7 DEF Store, Stores, Typed
  <2>4. Documents'
    <3>1. call[c].got \in Nat /\ call[c].got <= published[Of(c)]
      BY <1>1, <1>3, <1>4 DEF Begun, Calls
    <3>2. published' = published /\ loaded' = loaded
      BY <1>7 DEF Store
    <3>3. jwks' \in [Name -> Nat] /\ \A n \in Name : jwks'[n] <= published[n]
      BY <1>2, <1>7, <3>1 DEF Store, Typed, Documents
    <3>q. QED BY <3>2, <3>3 DEF Typed, Documents
  <2>q. QED BY <1>7, <2>1, <2>2, <2>3, <2>4, Others DEF Store, Typed
<1>q. QED BY <1>5, <1>6, <1>7 DEF Update

LEMMA AgainTyped ==
    ASSUME Typed, AllBegun, NEW c \in Call, VerifyAgain(c)
    PROVE  Typed' /\ AllBegun'
<1>1. Begun(c) /\ call[c] \in Calls
  BY DEF VerifyAgain, At, AllBegun, Typed
<1>2. call' \in [Call -> Calls] /\ \A q \in Call \ {c} : call'[q] = call[q]
  BY LookResults DEF VerifyAgain, Goto, Typed, Calls
<1>3. Begun(c)'
  BY <1>1, LookResults DEF VerifyAgain, Goto, Begun, Of, Calls, Typed
<1>q. QED BY <1>2, <1>3, Others DEF VerifyAgain, Typed, Documents

LEMMA NextTyped ==
    ASSUME Typed, AllBegun, [Next]_vars
    PROVE  Typed' /\ AllBegun'
<1>1. CASE Next
  BY <1>1, LoadTyped, RotateTyped, VerifyTyped, UpdateTyped, AgainTyped
     DEF Next, Step, GoogleVerify, X509Verify, GoogleUpdate, X509Update, GoogleAgain, X509Again
<1>2. CASE UNCHANGED vars
  BY <1>2 DEF vars, Typed, Documents, AllBegun, Begun, At, Of
<1>q. QED BY <1>1, <1>2

(* Every reachable state is well typed: no document is stored before it is *)
(* published, and a response is never older than its call.                 *)
THEOREM TypeCorrect == Spec => []TypeOK
<1>1. Init => TypeOK BY InitTyped, TypeParts
<1>2. TypeOK /\ [Next]_vars => TypeOK'
  BY NextTyped, TypeParts DEF TypeOK, Typed, Documents, AllBegun
<1>q. QED BY <1>1, <1>2, PTL DEF Spec

LEMMA TypedAlways == Spec => [](Typed /\ AllBegun)
<1>1. TypeOK => Typed /\ AllBegun BY TypeParts
<1>q. QED BY <1>1, TypeCorrect, PTL

-----------------------------------------------------------------------------
(* The documents a serving node keeps *)

Kept(n) == jwks[n] \in 1..published[n] /\ Parses(n, Docs[n][jwks[n]])

(* KeysUsable is not inductive: the first provider is loaded before the    *)
(* node serves.                                                            *)
LoadedKept ==
    /\ loaded >= 1 => Kept("google")
    /\ loaded = 2 => Kept("x509_google")

LEMMA NextKept ==
    ASSUME Typed, AllBegun, LoadedKept, [Next]_vars
    PROVE  LoadedKept'
<1>. DEFINE Later(n) == published[n] \in Nat /\ published'[n] \in Nat /\ published[n] <= published'[n]
<1>1. CASE Load
  <2>1. PICK n \in Name : n = Provider[loaded + 1]
    BY <1>1 DEF Load, Serving, Typed, Documents, Provider, Name
  <2>2. published[n] \in Nat /\ published[n] >= 1
    BY <2>1, Constants DEF Typed, Documents
  <2>3. Kept(n)'
    BY <1>1, <2>1, <2>2 DEF Load, Kept, Typed, Documents, Parses
  <2>4. \A m \in Name \ {n} : jwks'[m] = jwks[m]
    BY <1>1, <2>1 DEF Load, Typed, Documents
  <2>5. loaded' = loaded + 1 /\ loaded \in {0, 1} /\ published' = published
    BY <1>1 DEF Load, Serving, Typed, Documents
  <2>6. CASE loaded = 0
    BY <2>1, <2>3, <2>5, <2>6 DEF LoadedKept, Provider
  <2>7. CASE loaded = 1
    <3>1. n = "x509_google" BY <2>1, <2>7 DEF Provider
    <3>2. Kept("google")' BY <2>4, <2>5, <2>7, <3>1 DEF LoadedKept, Kept, Name
    <3>q. QED BY <2>3, <3>1, <3>2 DEF LoadedKept
  <2>q. QED BY <2>5, <2>6, <2>7
<1>2. CASE LoadFails
  BY <1>2 DEF LoadFails, LoadedKept
<1>3. ASSUME NEW n \in Name, Rotate(n)
      PROVE  LoadedKept'
  <2>1. \A m \in Name : Later(m)
    BY <1>3 DEF Rotate, Typed, Documents
  <2>2. \A m \in Name : Kept(m) => Kept(m)'
    BY <1>3, <2>1 DEF Kept, Rotate, Typed, Documents
  <2>q. QED BY <1>3, <2>2 DEF LoadedKept, Rotate, Name
<1>4. ASSUME NEW c \in Call, Store(c)
      PROVE  LoadedKept'
  <2>1. Begun(c) /\ Of(c) \in Name
    BY <1>4, OfIsName DEF Store, At, AllBegun
  <2>2. published[Of(c)] \in Nat /\ call[c].got \in 1..published[Of(c)]
    BY <1>4, <2>1 DEF Begun, Store, At, Typed, Documents, Calls
  <2>3. \A m \in Name : Kept(m) => Kept(m)'
    BY <1>4, <2>1, <2>2 DEF Kept, Store, Typed, Documents
  <2>q. QED BY <1>4, <2>3 DEF LoadedKept, Store, Name
<1>5. CASE UNCHANGED <<published, jwks, loaded>>
  BY <1>5 DEF LoadedKept, Kept
<1>q. QED BY <1>1, <1>2, <1>3, <1>4, <1>5
     DEF Next, vars, Step, GoogleVerify, X509Verify, GoogleUpdate, X509Update, GoogleAgain,
         X509Again, Verify, Update, Respond, FetchFails, VerifyAgain

(* A serving node has, for every provider, a document that was published   *)
(* and that parses, whatever the issuers publish and answer.               *)
THEOREM ServingNodesHaveKeys == Spec => []KeysUsable
<1>1. Init => LoadedKept
  BY DEF Init, LoadedKept
<1>2. LoadedKept => KeysUsable
  BY DEF LoadedKept, KeysUsable, Kept, Serving, Name
<1>q. QED BY <1>1, <1>2, NextKept, TypedAlways, PTL DEF Spec

-----------------------------------------------------------------------------
(* Rejections *)

(* A call that is in stores has stored a response and keeps its number.    *)
Stored == \A c \in Call : \A q \in stores[c] : call[q].pc \in {"again", "accepted", "rejected", "raised"}

Overtaken(c) == \E q \in stores[c] : call[q].got < call[c].since

(* What a waiting call will look at is not older than the call, or it was  *)
(* overtaken.                                                              *)
Current == \A c \in Call : At(c, "again") => jwks[Of(c)] >= call[c].since \/ Overtaken(c)

(* A rejection has a document against it, or was overtaken.                *)
Explained == \A c \in Call : At(c, "rejected") => ~SignedThroughout(c) \/ Overtaken(c)

(* Nothing is verified before the node serves. *)
Waiting == ~Serving => \A c \in Call : At(c, "idle")

RejectInv == Stored /\ Current /\ Explained /\ Waiting

(* A step that changes call c only, which has not stored, explains nothing *)
(* away.                                                                   *)
LEMMA OvertakenKept ==
    ASSUME Stored, NEW c \in Call, NEW d \in Call, stores'[d] = stores[d], stores[d] \subseteq Call,
           \A q \in Call : q # c => call'[q] = call[q],
           call[c].pc \notin {"again", "accepted", "rejected", "raised"} \/ call'[c].got = call[c].got,
           call'[d].since = call[d].since, Overtaken(d)
    PROVE  Overtaken(d)'
<1>1. PICK q \in stores[d] : call[q].got < call[d].since
  BY DEF Overtaken
<1>2. call'[q].got = call[q].got
  BY <1>1 DEF Stored
<1>q. QED BY <1>1, <1>2 DEF Overtaken

(* A step of call c that stores nothing: what has to be shown is about c.  *)
LEMMA QuietStep ==
    ASSUME Typed, RejectInv, NEW c \in Call, Serving, UNCHANGED <<published, jwks, loaded, stores>>,
           \A q \in Call : q # c => call'[q] = call[q],
           \/ /\ call[c].pc \in {"idle", "fetch", "store"}
              /\ call'[c].pc \in {"accepted", "fetch", "store", "raised"}
           \/ /\ At(c, "again") /\ call'[c].pc \in {"accepted", "raised", "rejected"}
              /\ call'[c].got = call[c].got /\ call'[c].since = call[c].since
              /\ call'[c].input = call[c].input,
           At(c, "rejected")' => ~SignedThroughout(c) \/ Overtaken(c)
    PROVE  RejectInv'
<1>0. stores \in [Call -> SUBSET Call] BY DEF Typed
<1>1. Stored'
  BY <1>0 DEF RejectInv, Stored, At
<1>2. ASSUME NEW q \in Call, q # c, Overtaken(q)
      PROVE  Overtaken(q)'
  BY <1>0, <1>2, OvertakenKept DEF RejectInv, At
<1>3. Current'
  BY <1>2 DEF RejectInv, Current, At, Of
<1>4. \A q \in Call : q # c => (SignedThroughout(q)' <=> SignedThroughout(q)) /\ (At(q, "rejected")' <=> At(q, "rejected"))
  BY DEF SignedThroughout, Of, At
<1>5. At(c, "rejected")' => ~SignedThroughout(c)' \/ Overtaken(c)'
  <2>1. SUFFICES ASSUME At(c, "rejected")'
                 PROVE  ~SignedThroughout(c)' \/ Overtaken(c)'
    OBVIOUS
  <2>2. At(c, "again") /\ call'[c].got = call[c].got /\ call'[c].since = call[c].since
        /\ call'[c].input = call[c].input
    BY <2>1 DEF At
  <2>3. Overtaken(c) => Overtaken(c)'
    BY <1>0, <2>2, OvertakenKept DEF RejectInv
  <2>4. SignedThroughout(c)' => SignedThroughout(c)
    BY <2>2 DEF SignedThroughout, Of
  <2>q. QED BY <2>1, <2>3, <2>4
<1>6. Explained'
  <2>1. SUFFICES ASSUME NEW q \in Call, At(q, "rejected")'
                 PROVE  ~SignedThroughout(q)' \/ Overtaken(q)'
    BY DEF Explained
  <2>2. CASE q = c BY <1>5, <2>1, <2>2
  <2>3. CASE q # c BY <1>2, <1>4, <2>1, <2>3 DEF RejectInv, Explained
  <2>q. QED BY <2>2, <2>3
<1>7. Waiting' BY DEF Waiting, Serving
<1>q. QED BY <1>1, <1>3, <1>6, <1>7 DEF RejectInv

(* The step that stores a response. *)
LEMMA StoreRejects ==
    ASSUME Typed, AllBegun, RejectInv, Serving, NEW c \in Call, Store(c), Parses(Of(c), Docs[Of(c)][call[c].got])
    PROVE  RejectInv'
<1>0. stores \in [Call -> SUBSET Call] /\ call \in [Call -> Calls] /\ jwks \in [Name -> Nat]
  BY DEF Typed, Documents
<1>1. Begun(c) /\ Of(c) \in Name
  BY OfIsName DEF Store, At, AllBegun
<1>2. call[c].got >= call[c].since /\ call[c].got \in Nat
  BY <1>0, <1>1 DEF Begun, Store, At, Calls
<1>3. /\ call' = [call EXCEPT ![c].pc = "again"]
      /\ jwks' = [jwks EXCEPT ![Of(c)] = call[c].got]
      /\ published' = published /\ loaded' = loaded
  BY DEF Store, Goto
<1>4. /\ \A q \in Call : q # c => call'[q] = call[q]
      /\ At(c, "store") /\ At(c, "again")'
      /\ call'[c].got = call[c].got /\ call'[c].since = call[c].since /\ Of(c)' = Of(c)
  BY <1>0, <1>3 DEF Store, At, Of, Calls
<1>5. \A q \in Call : c \notin stores[q]
  BY <1>4 DEF RejectInv, Stored, At
<1>6. /\ stores'[c] = {}
      /\ \A q \in Call : q # c /\ At(q, "again") /\ Of(q) = Of(c) => stores'[q] = stores[q] \cup {c}
      /\ \A q \in Call : q # c /\ ~(At(q, "again") /\ Of(q) = Of(c)) => stores'[q] = stores[q]
  BY DEF Store, Stores
<1>7. Stored'
  BY <1>0, <1>4, <1>5, <1>6 DEF RejectInv, Stored, At
<1>8. ASSUME NEW q \in Call, q # c, Overtaken(q), stores'[q] = stores[q]
      PROVE  Overtaken(q)'
  <2>1. stores[q] \subseteq Call BY <1>0
  <2>2. Stored BY DEF RejectInv
  <2>3. call'[q].since = call[q].since BY <1>4, <1>8
  <2>q. QED BY <1>4, <1>8, <2>1, <2>2, <2>3, OvertakenKept
<1>9. Current'
  <2>1. SUFFICES ASSUME NEW q \in Call, At(q, "again")'
                 PROVE  jwks'[Of(q)'] >= call'[q].since \/ Overtaken(q)'
    BY DEF Current, Of
  <2>2. CASE q = c
    BY <1>0, <1>1, <1>2, <1>3, <1>4, <2>2
  <2>3. CASE q # c /\ Of(q) # Of(c)
    <3>1. At(q, "again") /\ Of(q)' = Of(q) /\ call'[q] = call[q] BY <1>4, <2>1, <2>3 DEF At, Of
    <3>2. jwks'[Of(q)] = jwks[Of(q)]
      <4>1. Of(q) \in Name BY <3>1, OfIsName DEF AllBegun, At
      <4>q. QED BY <1>0, <1>3, <2>3, <4>1
    <3>3. Overtaken(q) => Overtaken(q)' BY <1>6, <1>8, <2>3
    <3>q. QED BY <3>1, <3>2, <3>3 DEF RejectInv, Current
  <2>4. CASE q # c /\ Of(q) = Of(c)
    <3>1. At(q, "again") /\ Of(q)' = Of(c) /\ call'[q] = call[q] BY <1>4, <2>1, <2>4 DEF At, Of
    <3>2. jwks'[Of(q)'] = call[c].got BY <1>0, <1>1, <1>3, <3>1
    <3>3. c \in stores'[q] BY <1>6, <2>4, <3>1
    <3>4. call[q].since \in Nat BY <1>0 DEF Calls
    <3>5. CASE call[c].got >= call[q].since BY <3>1, <3>2, <3>5
    <3>6. CASE call[c].got < call[q].since BY <1>4, <3>1, <3>3, <3>6 DEF Overtaken
    <3>q. QED BY <1>2, <3>4, <3>5, <3>6
  <2>q. QED BY <2>2, <2>3, <2>4
<1>10. Explained'
  <2>1. SUFFICES ASSUME NEW q \in Call, At(q, "rejected")'
                 PROVE  ~SignedThroughout(q)' \/ Overtaken(q)'
    BY DEF Explained
  <2>2. q # c /\ At(q, "rejected") /\ call'[q] = call[q]
    BY <1>4, <2>1 DEF At
  <2>3. stores'[q] = stores[q] BY <1>6, <2>2 DEF At
  <2>4. SignedThroughout(q)' => SignedThroughout(q)
    BY <1>3, <2>2 DEF SignedThroughout, Of
  <2>q. QED BY <1>8, <2>2, <2>3, <2>4 DEF RejectInv, Explained
<1>11. Waiting' BY <1>3 DEF Waiting, Serving
<1>q. QED BY <1>7, <1>9, <1>10, <1>11 DEF RejectInv

(* The second look rejects for a reason. *)
LEMMA AgainRejects ==
    ASSUME Typed, AllBegun, RejectInv, NEW c \in Call, VerifyAgain(c), At(c, "rejected")'
    PROVE  ~SignedThroughout(c) \/ Overtaken(c)
<1>1. At(c, "again") BY DEF VerifyAgain
<1>2. Begun(c) /\ Of(c) \in Name BY <1>1, OfIsName DEF At, AllBegun
<1>3. ~Verifies(Of(c), jwks[Of(c)], call[c].input.modulus)
  BY LookResults DEF VerifyAgain, Goto, At, Typed, Calls
<1>4. call[c].since \in Nat /\ jwks[Of(c)] \in Nat /\ published[Of(c)] \in Nat
      /\ jwks[Of(c)] <= published[Of(c)]
  BY <1>2 DEF Typed, Documents, Calls
<1>5. jwks[Of(c)] >= call[c].since => ~SignedThroughout(c)
  BY <1>3, <1>4 DEF SignedThroughout
<1>q. QED BY <1>1, <1>5 DEF RejectInv, Current

LEMMA RotateRejects ==
    ASSUME Typed, AllBegun, RejectInv, NEW n \in Name, Rotate(n)
    PROVE  RejectInv'
<1>1. UNCHANGED <<jwks, loaded, call, stores>> BY DEF Rotate
<1>2. \A m \in Name : published[m] \in Nat /\ published'[m] \in Nat /\ published[m] <= published'[m]
  BY DEF Rotate, Typed, Documents
<1>3. ASSUME NEW c \in Call, At(c, "rejected"), SignedThroughout(c)'
      PROVE  SignedThroughout(c)
  <2>1. Of(c) \in Name /\ call[c].since \in Nat BY <1>3, OfIsName DEF At, AllBegun, Typed, Calls
  <2>2. call[c].since .. published[Of(c)] \subseteq call[c].since .. published'[Of(c)]
    BY <1>2, <2>1
  <2>q. QED BY <1>1, <1>3, <2>2 DEF SignedThroughout, Of
<1>4. Explained'
  BY <1>1, <1>3 DEF RejectInv, Explained, At, Overtaken
<1>q. QED BY <1>1, <1>4 DEF RejectInv, Stored, Current, Waiting, Serving, At, Of, Overtaken

LEMMA LoadRejects ==
    ASSUME RejectInv, Load \/ LoadFails
    PROVE  RejectInv'
<1>1. UNCHANGED <<published, call, stores>> /\ ~Serving
  BY DEF Load, LoadFails
<1>2. \A c \in Call : At(c, "idle") BY <1>1 DEF RejectInv, Waiting
<1>q. QED BY <1>1, <1>2 DEF RejectInv, Stored, Current, Explained, Waiting, At

LEMMA NextRejects ==
    ASSUME Typed, AllBegun, RejectInv, [Next]_vars
    PROVE  RejectInv'
<1>0. call \in [Call -> Calls] BY DEF Typed
<1>1. ASSUME NEW c \in Call, NEW i \in Inputs, Verify(c, i)
      PROVE  RejectInv'
  <2>1. /\ call[c].pc = "idle" /\ call'[c].pc \in {"accepted", "fetch", "raised"}
        /\ \A q \in Call : q # c => call'[q] = call[q]
    BY <1>0, <1>1, LookResults DEF Verify, At
  <2>q. QED BY <1>1, <2>1, QuietStep DEF Verify, At
<1>2. ASSUME NEW c \in Call, Step(c)
      PROVE  RejectInv'
  <2>1. Serving BY <1>2 DEF Step, RejectInv, Waiting
  <2>2. CASE Respond(c)
    <3>1. /\ call[c].pc = "fetch" /\ call'[c].pc = "store"
          /\ \A q \in Call : q # c => call'[q] = call[q]
      BY <1>0, <2>2 DEF Respond, At, Calls
    <3>q. QED BY <2>1, <2>2, <3>1, QuietStep DEF Respond, At
  <2>3. CASE FetchFails(c)
    <3>1. /\ call[c].pc = "fetch" /\ call'[c].pc = "raised"
          /\ \A q \in Call : q # c => call'[q] = call[q]
      BY <1>0, <2>3 DEF FetchFails, Goto, At, Calls
    <3>q. QED BY <2>1, <2>3, <3>1, QuietStep DEF FetchFails, At
  <2>4. CASE Store(c) /\ ~Parses(Of(c), Docs[Of(c)][call[c].got])
    <3>1. /\ call[c].pc = "store" /\ call'[c].pc = "raised"
          /\ \A q \in Call : q # c => call'[q] = call[q]
      BY <1>0, <2>4 DEF Store, Goto, At, Calls
    <3>q. QED BY <2>1, <2>4, <3>1, QuietStep DEF Store, At
  <2>5. CASE Store(c) /\ Parses(Of(c), Docs[Of(c)][call[c].got])
    BY <2>1, <2>5, StoreRejects
  <2>6. CASE VerifyAgain(c)
    <3>1. /\ At(c, "again") /\ call'[c].pc \in {"accepted", "raised", "rejected"}
          /\ call'[c].got = call[c].got /\ call'[c].since = call[c].since
          /\ call'[c].input = call[c].input
          /\ \A q \in Call : q # c => call'[q] = call[q]
      BY <1>0, <2>6, LookResults DEF VerifyAgain, Goto, At, Calls
    <3>2. At(c, "rejected")' => ~SignedThroughout(c) \/ Overtaken(c)
      BY <2>6, AgainRejects
    <3>q. QED BY <2>1, <2>6, <3>1, <3>2, QuietStep DEF VerifyAgain
  <2>q. QED BY <1>2, <2>2, <2>3, <2>4, <2>5, <2>6
       DEF Step, Update, GoogleUpdate, X509Update, GoogleAgain, X509Again
<1>3. CASE UNCHANGED vars
  BY <1>3 DEF vars, RejectInv, Stored, Current, Explained, Waiting, Serving, At, Of, Overtaken,
              SignedThroughout
<1>q. QED BY <1>1, <1>2, <1>3, LoadRejects, RotateRejects DEF Next, GoogleVerify, X509Verify

(* For any number of concurrent verifications: an input signed by a key    *)
(* that was published throughout its call is rejected only if a response   *)
(* from before the call was stored after the call's own.                   *)
THEOREM RejectionsAreExplained == Spec => []RejectionExplained
<1>1. Init => RejectInv
  BY DEF Init, RejectInv, Stored, Current, Explained, Waiting, Idle, At
<1>2. RejectInv => RejectionExplained
  BY DEF RejectInv, Explained, RejectionExplained, Overtaken
<1>q. QED BY <1>1, <1>2, NextRejects, TypedAlways, PTL DEF Spec

-----------------------------------------------------------------------------
(* Limbs *)

LEMMA Positive == Base \in Nat \ {0, 1} /\ Limbs \in Nat
BY CacheAssumption

(* Induction over the naturals for a set, from the least element of its    *)
(* complement.                                                             *)
LEMMA Induction ==
    ASSUME NEW S, 0 \in S, \A n \in Nat : n \in S => n + 1 \in S
    PROVE  Nat \subseteq S
<1>. DEFINE R == OpToRel(<, Nat)
            T == Nat \ S
<1>1. IsWellFoundedOn(R, Nat)
  BY NatLessThanWellFounded
<1>2. \A n \in Nat : <<n, n + 1>> \in R
  BY DEF OpToRel
<1>. HIDE DEF R
<1>3. SUFFICES ASSUME T # {} PROVE FALSE
  OBVIOUS
<1>4. PICK x \in T : \A y \in T : <<y, x>> \notin R
  BY <1>1, <1>3, WFMin
<1>5. PICK n \in Nat : x = n + 1
  <2>1. x \in Nat /\ x # 0 OBVIOUS
  <2>2. x - 1 \in Nat /\ x = (x - 1) + 1 BY <2>1
  <2>q. QED BY <2>2
<1>q. QED BY <1>2, <1>4, <1>5

Powers(n, f) == f = [i \in 0..n |-> IF i = 0 THEN 1 ELSE Base * f[i - 1]]

LEMMA PowersExist == \A n \in Nat : \E f : Powers(n, f)
<1>. DEFINE S == {n \in Nat : \E f : Powers(n, f)}
<1>1. 0 \in S
  <2>1. Powers(0, [i \in 0..0 |-> 1]) BY DEF Powers
  <2>q. QED BY <2>1
<1>2. ASSUME NEW n \in Nat, n \in S
      PROVE  n + 1 \in S
  <2>1. PICK f : Powers(n, f) BY <1>2
  <2>2. Powers(n + 1, [i \in 0..(n + 1) |-> IF i = n + 1 THEN Base * f[n] ELSE f[i]])
    BY <2>1 DEF Powers
  <2>q. QED BY <2>2
<1>q. QED BY <1>1, <1>2, Induction

LEMMA PowerSteps ==
    /\ Power[0] = 1
    /\ \A i \in 1..Limbs : Power[i] = Base * Power[i - 1]
<1>1. Power = CHOOSE f : Powers(Limbs, f)
  BY DEF Power, Powers
<1>2. Powers(Limbs, Power)
  BY <1>1, PowersExist, Positive
<1>q. QED BY <1>2, Positive DEF Powers

LEMMA PowerPositive == \A i \in 0..Limbs : Power[i] \in Nat \ {0}
<1>. DEFINE S == {n \in Nat : n \in 0..Limbs => Power[n] \in Nat \ {0}}
<1>1. 0 \in S BY PowerSteps
<1>2. ASSUME NEW n \in Nat, n \in S
      PROVE  n + 1 \in S
  <2>1. SUFFICES ASSUME n + 1 \in 0..Limbs PROVE Power[n + 1] \in Nat \ {0}
    OBVIOUS
  <2>2. Power[n] \in Nat \ {0} /\ Power[n + 1] = Base * Power[n]
    BY <1>2, <2>1, PowerSteps, Positive
  <2>3. \A b, x \in Nat \ {0} : b * x \in Nat \ {0} BY Z3
  <2>q. QED BY <2>2, <2>3, Positive
<1>3. Nat \subseteq S
  <2>. HIDE DEF S
  <2>q. QED BY <1>1, <1>2, Induction
<1>q. QED BY <1>3, Positive

(* Value as ... *)
Sums(limbs, s) == s = [i \in 0..Limbs |-> IF i = 0 THEN 0 ELSE s[i - 1] + limbs[i] * Power[i - 1]]

LEMMA SumsUnique ==
    ASSUME NEW limbs, NEW s, Sums(limbs, s), NEW t, Sums(limbs, t)
    PROVE  s[Limbs] = t[Limbs]
<1>. DEFINE S == {n \in Nat : n \in 0..Limbs => s[n] = t[n]}
<1>1. 0 \in S BY Positive DEF Sums
<1>2. ASSUME NEW n \in Nat, n \in S
      PROVE  n + 1 \in S
  BY <1>2, Positive DEF Sums
<1>3. Nat \subseteq S
  <2>. HIDE DEF S
  <2>q. QED BY <1>1, <1>2, Induction
<1>q. QED BY <1>3, Positive

LEMMA ValueIsSum ==
    ASSUME NEW limbs, NEW s, Sums(limbs, s)
    PROVE  Value(limbs) = s[Limbs]
<1>1. Value(limbs) = (CHOOSE f : Sums(limbs, f))[Limbs]
  BY DEF Value, Sums
<1>2. Sums(limbs, CHOOSE f : Sums(limbs, f)) OBVIOUS
<1>q. QED BY <1>1, <1>2, SumsUnique
LEMMA Division ==
    ASSUME NEW a \in Nat, NEW m \in Nat \ {0}
    PROVE  /\ a \div m \in Nat /\ a % m \in 0..(m - 1)
           /\ a = (a \div m) * m + (a % m)
BY Z3
LEMMA Below == ASSUME NEW k \in Int, NEW m \in Nat \ {0}, k * m > -m , k*m < m PROVE k = 0
BY Z3
LEMMA Unique ==
    ASSUME NEW m \in Nat \ {0}, NEW q \in Int, NEW r \in 0..(m - 1),
           NEW p \in Int, NEW s \in 0..(m - 1), q * m + r = p * m + s
    PROVE  q = p /\ r = s
<1>1. (q - p) * m = s - r BY Z3
<1>2. q - p \in Int /\ s - r > -m /\ s - r < m BY Z3
<1>3. q - p = 0 BY <1>1, <1>2, Below
<1>q. QED BY <1>3, <1>1, Z3
LEMMA Quotient ==
    ASSUME NEW a \in Nat, NEW n \in Nat \ {0}, NEW p \in Nat, NEW s \in 0..(n - 1), a = p * n + s
    PROVE  a \div n = p /\ a % n = s
<1>1. /\ a \div n \in Nat /\ a % n \in 0..(n - 1)
      /\ a = (a \div n) * n + (a % n)
  BY Division
<1>q. QED BY <1>1, Unique

LEMMA Product ==
    ASSUME NEW a \in Nat, NEW m \in Nat \ {0}, NEW b \in Nat \ {0}
    PROVE  /\ a \div (m * b) = (a \div m) \div b
           /\ a % (m * b) = (a % m) + ((a \div m) % b) * m
<1>. DEFINE q == a \div m  r == a % m
            p == q \div b  d == q % b
<1>1. q \in Nat /\ r \in 0..(m - 1) /\ a = q * m + r
  BY Division
<1>2. p \in Nat /\ d \in 0..(b - 1) /\ q = p * b + d
  BY <1>1, Division
<1>3. m * b \in Nat \ {0} BY Z3
<1>. HIDE DEF q, r, p, d
<1>4. a = p * (m * b) + (r + d * m)
  <2>1. q * m = p * (m * b) + d * m BY <1>1, <1>2, Z3
  <2>q. QED BY <1>1, <1>2, <2>1, Z3
<1>5. r + d * m \in 0..(m * b - 1)
  <2>1. d * m <= (b - 1) * m BY <1>2, Z3
  <2>2. (b - 1) * m = m * b - m BY Z3
  <2>3. d * m \in Nat BY <1>2, Z3
  <2>q. QED BY <1>1, <1>3, <2>1, <2>2, <2>3, Z3
<1>7. a \div (m * b) = p /\ a % (m * b) = r + d * m
  <2>. DEFINE n == m * b
  <2>1. n \in Nat \ {0} /\ a = p * n + (r + d * m) /\ r + d * m \in 0..(n - 1)
    BY <1>3, <1>4, <1>5
  <2>. HIDE DEF n
  <2>2. a \div n = p /\ a % n = r + d * m
    BY <1>2, <2>1, Quotient
  <2>q. QED BY <2>2 DEF n
<1>q. QED BY <1>7 DEF q, r, p, d

(* The limbs of a number, of which Limbs are kept, make up its remainder.  *)
LEMMA LimbsRoundTrip ==
    ASSUME NEW num \in Nat
    PROVE  Value(ToCircomBigint(num)) = num % Power[Limbs]
<1>. DEFINE limbs == ToCircomBigint(num)
            s == [i \in 0..Limbs |-> num % Power[i]]
<1>1. s[0] = 0
  <2>1. num % 1 = 0 BY Z3
  <2>q. QED BY <2>1, PowerSteps, Positive
<1>2. ASSUME NEW i \in 1..Limbs
      PROVE  s[i] = s[i - 1] + limbs[i] * Power[i - 1]
  <2>1. i \in Nat /\ i - 1 \in 0..Limbs /\ i \in 0..Limbs BY Positive
  <2>2. PICK m \in Nat \ {0} : m = Power[i - 1]
    BY <2>1, PowerPositive
  <2>3. Power[i] = m * Base
    BY <2>2, PowerSteps, Positive
  <2>4. num % (m * Base) = (num % m) + ((num \div m) % Base) * m
    BY Product, Positive
  <2>5. limbs[i] = (num \div m) % Base
    BY <2>2 DEF ToCircomBigint
  <2>6. s[i] = num % (m * Base) /\ s[i - 1] = num % m
    BY <2>1, <2>2, <2>3
  <2>q. QED BY <2>2, <2>4, <2>5, <2>6
<1>3. Sums(limbs, s)
  <2>2. s = [i \in 0..Limbs |-> s[i]] OBVIOUS
  <2>. HIDE DEF limbs, s
  <2>1. ASSUME NEW i \in 0..Limbs
        PROVE  s[i] = IF i = 0 THEN 0 ELSE s[i - 1] + limbs[i] * Power[i - 1]
    <3>1. CASE i = 0 BY <1>1, <3>1
    <3>2. CASE i # 0
      <4>1. i \in 1..Limbs BY <3>2, Positive
      <4>q. QED BY <1>2, <3>2, <4>1
    <3>q. QED BY <3>1, <3>2
  <2>q. QED BY <2>1, <2>2 DEF Sums
<1>4. s[Limbs] = num % Power[Limbs]
  BY Positive
<1>q. QED BY <1>3, <1>4, ValueIsSum

-----------------------------------------------------------------------------
(* Acceptances *)

(* A call is accepted on a document that was published by then. *)
AcceptedByDocument ==
    \A c \in Call : At(c, "accepted") =>
        \E v \in 1..published[Of(c)] : Verifies(Of(c), v, call[c].input.modulus)

LEMMA NextAccepts ==
    ASSUME Typed, AllBegun, LoadedKept, Waiting, AcceptedByDocument, [Next]_vars
    PROVE  AcceptedByDocument'
<1>0. call \in [Call -> Calls] BY DEF Typed
<1>1. Serving => \A n \in Name : jwks[n] \in 1..published[n]
  BY DEF LoadedKept, Kept, Serving, Name
<1>2. ASSUME NEW c \in Call, UNCHANGED published, \A q \in Call \ {c} : call'[q] = call[q],
             At(c, "accepted")' =>
                 \E v \in 1..published[Of(c)'] : Verifies(Of(c)', v, call'[c].input.modulus)
      PROVE  AcceptedByDocument'
  <2>1. SUFFICES ASSUME NEW q \in Call, At(q, "accepted")'
                 PROVE  \E v \in 1..published[Of(q)'] : Verifies(Of(q)', v, call'[q].input.modulus)
    BY <1>2 DEF AcceptedByDocument
  <2>2. CASE q = c BY <1>2, <2>1, <2>2
  <2>3. CASE q # c
    <3>1. At(q, "accepted") /\ Of(q)' = Of(q) /\ call'[q] = call[q]
      BY <1>2, <2>1, <2>3 DEF At, Of
    <3>q. QED BY <3>1 DEF AcceptedByDocument
  <2>q. QED BY <2>2, <2>3
<1>3. ASSUME NEW c \in Call, NEW i \in Inputs, Verify(c, i)
      PROVE  AcceptedByDocument'
  <2>1. i.provider \in Name /\ Serving BY <1>3, Constants DEF Verify
  <2>2. /\ \A q \in Call \ {c} : call'[q] = call[q]
        /\ call'[c].input = i
        /\ At(c, "accepted")' => Verifies(i.provider, jwks[i.provider], i.modulus)
    BY <1>0, <1>3, LookResults DEF Verify, At
  <2>q. QED BY <1>1, <1>2, <1>3, <2>1, <2>2 DEF Verify, Of
<1>4. ASSUME NEW c \in Call, Step(c)
      PROVE  AcceptedByDocument'
  <2>1. Serving /\ Of(c) \in Name
    BY <1>4, OfIsName DEF Step, Waiting, AllBegun
  <2>2. CASE VerifyAgain(c)
    <3>1. /\ \A q \in Call \ {c} : call'[q] = call[q]
          /\ call'[c].input = call[c].input /\ Of(c)' = Of(c)
          /\ At(c, "accepted")' => Verifies(Of(c), jwks[Of(c)], call[c].input.modulus)
      BY <1>0, <2>2, LookResults DEF VerifyAgain, Goto, At, Of, Calls
    <3>q. QED BY <1>1, <1>2, <2>1, <2>2, <3>1 DEF VerifyAgain
  <2>3. CASE Update(c)
    <3>1. /\ \A q \in Call \ {c} : call'[q] = call[q]
          /\ ~At(c, "accepted")' /\ UNCHANGED published
      BY <1>0, <2>3 DEF Update, Respond, FetchFails, Store, Goto, At, Calls
    <3>q. QED BY <1>2, <3>1
  <2>q. QED BY <1>4, <2>2, <2>3 DEF Step, GoogleUpdate, X509Update, GoogleAgain, X509Again
<1>5. ASSUME NEW n \in Name, Rotate(n)
      PROVE  AcceptedByDocument'
  <2>1. call' = call BY <1>5 DEF Rotate
  <2>2. \A m \in Name : 1..published[m] \subseteq 1..published'[m]
    BY <1>5 DEF Rotate, Typed, Documents
  <2>3. \A c \in Call : At(c, "accepted") => Of(c) \in Name
    BY OfIsName DEF At, AllBegun
  <2>q. QED BY <2>1, <2>2, <2>3 DEF AcceptedByDocument, At, Of, Verifies
<1>6. CASE UNCHANGED <<published, call>>
  BY <1>6 DEF AcceptedByDocument, At, Of, Verifies
<1>q. QED BY <1>3, <1>4, <1>5, <1>6 DEF Next, vars, Load, LoadFails, GoogleVerify, X509Verify

LEMMA AcceptedAlways == Spec => []AcceptedByDocument
<1>1. Init => LoadedKept /\ RejectInv /\ AcceptedByDocument
  BY DEF Init, LoadedKept, RejectInv, Stored, Current, Explained, Waiting, AcceptedByDocument,
         Idle, At
<1>2. RejectInv => Waiting BY DEF RejectInv
<1>q. QED BY <1>1, <1>2, NextKept, NextRejects, NextAccepts, TypedAlways, PTL DEF Spec

(* What an accepted input is, whatever the size of the published keys: the *)
(* limbs of one of them, and so its remainder.                             *)
LowLimbsPublished ==
    \A c \in Call : At(c, "accepted") =>
        /\ call[c].input.modulus # None
        /\ \E v \in 1..published[Of(c)] : \E key \in Keys(Docs[Of(c)][v]) \cap Nat :
              Value(call[c].input.modulus) = key % Power[Limbs]

LEMMA VerifiedInput ==
    ASSUME Typed, AllBegun, NEW c \in Call, At(c, "accepted"), NEW v \in 1..published[Of(c)],
           Verifies(Of(c), v, call[c].input.modulus)
    PROVE  /\ call[c].input.modulus # None
           /\ \E key \in Keys(Docs[Of(c)][v]) \cap Nat :
                Value(call[c].input.modulus) = key % Power[Limbs]
<1>4. PICK key \in Keys(Docs[Of(c)][v]) \cap Nat : ToCircomBigint(key) = call[c].input.modulus
  BY DEF Verifies, Keys
<1>5. ToCircomBigint(key) \in [1..Limbs -> Nat]
  <2>1. ASSUME NEW i \in 1..Limbs PROVE (key \div Power[i - 1]) % Base \in Nat
    <3>1. Power[i - 1] \in Nat \ {0} BY PowerPositive, Positive
    <3>2. key \div Power[i - 1] \in Nat BY <1>4, <3>1, Division
    <3>q. QED BY <3>2, Division, Positive
  <2>q. QED BY <2>1 DEF ToCircomBigint
<1>q. QED BY <1>4, <1>5, LimbsRoundTrip, CacheAssumption

(* For any keys, inputs and interleaving: an input is accepted only if it  *)
(* has a modulus, whose value is a published key up to the bits that Limbs *)
(* limbs do not hold.                                                      *)
THEOREM AcceptedLimbsArePublished == Spec => []LowLimbsPublished
<1>1. Typed /\ AllBegun /\ AcceptedByDocument => LowLimbsPublished
  BY VerifiedInput DEF AcceptedByDocument, LowLimbsPublished
<1>q. QED BY <1>1, AcceptedAlways, TypedAlways, PTL

(* Every published key has at most Limbs limbs: 2057 bits, as configured,  *)
(* hold a key of RSA-2048.                                                 *)
KeysFit ==
    \A n \in Name : \A v \in 1..Len(Docs[n]) : \A key \in Keys(Docs[n][v]) \cap Nat : key < Power[Limbs]

(* If the published keys fit the limbs, the modulus of an accepted input   *)
(* is a key that the issuer named by its provider has published.           *)
THEOREM AcceptedInputsArePublished == ASSUME KeysFit PROVE Spec => []AcceptedIsPublished
<1>1. ASSUME Typed, AllBegun, AcceptedByDocument
      PROVE  AcceptedIsPublished
  <2>1. SUFFICES ASSUME NEW c \in Call, At(c, "accepted")
                 PROVE  /\ call[c].input.modulus # None
                        /\ \E v \in 1..published[Of(c)] :
                             Value(call[c].input.modulus) \in Keys(Docs[Of(c)][v])
    BY DEF AcceptedIsPublished
  <2>2. PICK v \in 1..published[Of(c)] : Verifies(Of(c), v, call[c].input.modulus)
    BY <1>1, <2>1 DEF AcceptedByDocument
  <2>3. PICK key \in Keys(Docs[Of(c)][v]) \cap Nat :
            Value(call[c].input.modulus) = key % Power[Limbs]
    BY <1>1, <2>1, <2>2, VerifiedInput
  <2>4. key < Power[Limbs]
    <3>1. Of(c) \in Name BY <1>1, <2>1, OfIsName DEF At, AllBegun
    <3>2. v \in 1..Len(Docs[Of(c)])
      BY <1>1, <3>1, Constants DEF Typed, Documents
    <3>q. QED BY <3>1, <3>2 DEF KeysFit
  <2>5. Power[Limbs] \in Nat \ {0} BY PowerPositive, Positive
  <2>6. key = 0 * Power[Limbs] + key /\ key \in 0..(Power[Limbs] - 1)
    BY <2>3, <2>4, <2>5
  <2>7. key % Power[Limbs] = key BY <2>3, <2>5, <2>6, Quotient
  <2>q. QED BY <1>1, <2>1, <2>2, <2>3, <2>7, VerifiedInput
<1>q. QED BY <1>1, AcceptedAlways, TypedAlways, PTL
=============================================================================
