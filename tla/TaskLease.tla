------------------------------- MODULE TaskLease -------------------------------
(***************************************************************************)
(* What the task table of a node promises to the requests that use it,     *)
(* with no threads, file or table.  A hash is on offer after a push, until *)
(* its entry expires or is lost.  A claim takes a hash that is on offer,   *)
(* and is a lease of TTL seconds: while it lasts the hash is not offered   *)
(* again, neither by a push nor by a start of the node.  Only a crash ends *)
(* a lease early.                                                          *)
(***************************************************************************)
EXTENDS Naturals

CONSTANTS
    Hash,  \* proof hashes
    TTL    \* how long a claim lasts

VARIABLES
    clock,    \* the time
    offered,  \* the hashes a claim may take
    lease     \* the last claim of each hash that was not forgotten

vars == <<clock, offered, lease>>

Never == [at |-> 0, is |-> FALSE]

Lasts(h) == lease[h].is /\ clock < lease[h].at + TTL

Init ==
    /\ clock = 0
    /\ offered = {}
    /\ lease = [h \in Hash |-> Never]

(* Time passes, and some offers end. *)
Tick ==
    /\ clock' = clock + 1
    /\ offered' \in SUBSET offered
    /\ UNCHANGED lease

Offer(h) ==
    /\ ~Lasts(h)
    /\ offered' = offered \cup {h}
    /\ UNCHANGED <<clock, lease>>

Withdraw(h) ==
    /\ offered' = offered \ {h}
    /\ UNCHANGED <<clock, lease>>

Take(h) ==
    /\ h \in offered /\ ~Lasts(h)
    /\ offered' = offered \ {h}
    /\ lease' = [lease EXCEPT ![h] = [at |-> clock, is |-> TRUE]]
    /\ UNCHANGED clock

(* Nothing is on offer, and some leases are forgotten. *)
Crash(forgotten) ==
    /\ offered' = {}
    /\ lease' = [h \in Hash |-> IF h \in forgotten THEN Never ELSE lease[h]]
    /\ UNCHANGED clock

(* What was saved is on offer again, unless its lease lasts. *)
Start ==
    /\ offered = {}
    /\ offered' \in SUBSET {h \in Hash : ~Lasts(h)}
    /\ UNCHANGED <<clock, lease>>

Next ==
    \/ Tick \/ Start
    \/ \E h \in Hash : Offer(h) \/ Withdraw(h) \/ Take(h)
    \/ \E forgotten \in SUBSET Hash : Crash(forgotten)

Spec == Init /\ [][Next]_vars
=============================================================================
