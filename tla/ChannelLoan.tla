------------------------------ MODULE ChannelLoan ------------------------------
(***************************************************************************)
(* What a pool of channels promises, with no queue, waiters or retries: a  *)
(* channel is made only when no made one is free and the limit is not      *)
(* reached, is lent to one caller at a time and comes back; a pool that is *)
(* closed lends nothing, keeps nothing, and every channel in it, or still  *)
(* lent, is closed once.                                                   *)
(***************************************************************************)
EXTENDS Naturals

CONSTANTS
    Caller,  \* who borrows channels
    MaxConn  \* the number of channels allowed

VARIABLES
    made,    \* how many channels were made
    free,    \* the channels that may be lent
    lent,    \* the channel of each caller, or None
    closed,  \* whether the pool is closed
    shut     \* the channels that were closed

vars == <<made, free, lent, closed, shut>>

None == 0

Init ==
    /\ made \in 0..MaxConn
    /\ free = 1..made
    /\ lent = [c \in Caller |-> None]
    /\ closed = FALSE
    /\ shut = {}

Borrows(c, ch) ==
    /\ ~closed
    /\ lent[c] = None
    /\ lent' = [lent EXCEPT ![c] = ch]
    /\ UNCHANGED <<closed, shut>>

Lend(c, ch) ==
    /\ ch \in free
    /\ free' = free \ {ch}
    /\ Borrows(c, ch)
    /\ UNCHANGED made

Make(c) ==
    /\ free = {} /\ made < MaxConn
    /\ made' = made + 1
    /\ Borrows(c, made + 1)
    /\ UNCHANGED free

Return(c) ==
    /\ lent[c] # None /\ lent[c] \notin free \cup shut
    /\ lent' = [lent EXCEPT ![c] = None]
    /\ IF closed
       THEN shut' = shut \cup {lent[c]} /\ UNCHANGED free
       ELSE free' = free \cup {lent[c]} /\ UNCHANGED shut
    /\ UNCHANGED <<made, closed>>

Close ==
    /\ ~closed
    /\ closed' = TRUE
    /\ shut' = shut \cup free
    /\ free' = {}
    /\ UNCHANGED <<made, lent>>

Next ==
    \/ \E c \in Caller : Make(c) \/ Return(c) \/ \E ch \in free : Lend(c, ch)
    \/ Close

Spec == Init /\ [][Next]_vars
=============================================================================
