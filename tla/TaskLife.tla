------------------------------ MODULE TaskLife ------------------------------
(***************************************************************************)
(* What the nodes promise about tasks.  A task is a proof hash at a node.  *)
(* It is offered to whoever knows the hash, taken by at most one call at a *)
(* time, never offered while a call holds it, and only a call that held it *)
(* can report a result, which is heard at most once.                       *)
(***************************************************************************)
CONSTANTS
    Task,   \* tasks
    Call    \* prove requests

VARIABLES
    offered,  \* tasks that a call may take
    holders,  \* the calls that hold each task
    mailed,   \* calls whose result is under way
    heard     \* calls whose result was heard

vars == <<offered, holders, mailed, heard>>

Init ==
    /\ offered = {}
    /\ holders = [t \in Task |-> {}]
    /\ mailed = {}
    /\ heard = {}

Offer(t) ==
    /\ holders[t] = {}
    /\ offered' = offered \cup {t}
    /\ UNCHANGED <<holders, mailed, heard>>

Withdraw(t) ==
    /\ offered' = offered \ {t}
    /\ UNCHANGED <<holders, mailed, heard>>

Take(t, p) ==
    /\ t \in offered /\ holders[t] = {}
    /\ offered' = offered \ {t}
    /\ holders' = [holders EXCEPT ![t] = {p}]
    /\ UNCHANGED <<mailed, heard>>

Mail(t, p) ==
    /\ p \in holders[t] /\ p \notin mailed \cup heard
    /\ mailed' = mailed \cup {p}
    /\ UNCHANGED <<offered, holders, heard>>

(* The call is over, whether or not its result was mailed. *)
Leave(t, p) ==
    /\ p \in holders[t]
    /\ holders' = [holders EXCEPT ![t] = {}]
    /\ UNCHANGED <<offered, mailed, heard>>

Hear(p) ==
    /\ p \in mailed
    /\ mailed' = mailed \ {p}
    /\ heard' = heard \cup {p}
    /\ UNCHANGED <<offered, holders>>

Miss(p) ==
    /\ p \in mailed
    /\ mailed' = mailed \ {p}
    /\ UNCHANGED <<offered, holders, heard>>

(* The tasks of a node that restarts: its calls are gone, and it offers    *)
(* what it had saved.                                                      *)
Restart(ts) ==
    /\ holders' = [t \in Task |-> IF t \in ts THEN {} ELSE holders[t]]
    /\ offered \ ts = offered' \ ts
    /\ UNCHANGED <<mailed, heard>>

Next ==
    \/ \E t \in Task : Offer(t) \/ Withdraw(t)
    \/ \E t \in Task, p \in Call : Take(t, p) \/ Mail(t, p) \/ Leave(t, p)
    \/ \E p \in Call : Hear(p) \/ Miss(p)
    \/ \E ts \in SUBSET Task : offered' \in SUBSET Task /\ Restart(ts)

Spec == Init /\ [][Next]_vars
=============================================================================
