--------------------------- MODULE ConnectionPool ---------------------------
(***************************************************************************)
(* The client side of the Go services: a prover object of the node         *)
(* (modules/prover/circom, and the same code in gnark and private), its    *)
(* pool of gRPC channels on an asyncio.Queue, and _rpc, which takes a      *)
(* channel for each attempt of a call and retries transient errors.        *)
(*                                                                         *)
(* Everything runs on one event loop, so a step of this module is what the *)
(* loop runs between two suspensions.  The suspensions are the wait inside *)
(* queue.get, the call itself and the sleep before a retry; at each of     *)
(* them the request may also be cancelled (a gRPC client that goes away    *)
(* cancels its handler).                                                   *)
(*                                                                         *)
(* asyncio.Queue.put wakes the first waiter and leaves the item in the     *)
(* queue: until the waiter runs, a newcomer may take the item, and the     *)
(* waiter then waits again, at the end of the line.                        *)
(***************************************************************************)
EXTENDS Naturals, Sequences, FiniteSets, SequencesExt

CONSTANTS
    Caller,    \* requests of the node that use the prover
    MaxConn,   \* max_connections
    Retries,   \* max_retries
    MayClose   \* whether the prover is used as an async context manager,
               \* whose exit closes the pool (the node itself never does)

ASSUME PoolAssumption ==
    /\ IsFiniteSet(Caller)
    /\ MaxConn \in Nat \ {0}
    /\ Retries \in Nat
    /\ MayClose \in BOOLEAN

VARIABLES
    pool,     \* the items of self._pool: channels, numbered as they are made
    waiting,  \* the waiters of self._pool (its _getters that are not done)
    created,  \* self._created
    closed,   \* self._closed
    shut,     \* channels that were closed
    pc,       \* what each caller does
    lent,     \* the channel each caller holds, or None
    attempt   \* the attempts each caller has made in its current call

vars == <<pool, waiting, created, closed, shut, pc, lent, attempt>>

None == 0

(* __init__ makes initial_size channels, at most max_connections. *)
Init ==
    /\ created \in 0..MaxConn
    /\ pool = [i \in 1..created |-> i]
    /\ waiting = <<>>
    /\ closed = FALSE
    /\ shut = {}
    /\ pc = [c \in Caller |-> "idle"]
    /\ lent = [c \in Caller |-> None]
    /\ attempt = [c \in Caller |-> 0]

-----------------------------------------------------------------------------
(* The queue of channels. *)

(* get_nowait on a queue that is not empty. *)
Take(c) ==
    /\ pool # <<>>
    /\ pool' = Tail(pool)
    /\ lent' = [lent EXCEPT ![c] = Head(pool)]
    /\ pc' = [pc EXCEPT ![c] = "calling"]
    /\ UNCHANGED <<waiting, created>>

(* get on an empty queue. *)
Wait(c) ==
    /\ pool = <<>>
    /\ waiting' = Append(waiting, c)
    /\ pc' = [pc EXCEPT ![c] = "waiting"]
    /\ UNCHANGED <<pool, created, lent>>

(* Mutant of WakeNext: nobody is woken. *)
WakeNobody(p) ==
    /\ waiting' = waiting
    /\ pc' = p

(* _wakeup_next: the first waiter becomes ready; p is pc without it. *)
WakeNext(p) ==
    IF waiting = <<>>
    THEN /\ waiting' = waiting
         /\ pc' = p
    ELSE /\ waiting' = Tail(waiting)
         /\ pc' = [p EXCEPT ![Head(waiting)] = "woken"]

-----------------------------------------------------------------------------
(* The pool. *)

(* _new_channel_and_stub *)
New(c) ==
    /\ created' = created + 1
    /\ lent' = [lent EXCEPT ![c] = created']
    /\ pc' = [pc EXCEPT ![c] = "calling"]
    /\ UNCHANGED <<pool, waiting>>

(* Mutant of MayCreate: the limit is not strict. *)
MayCreateOneMore == created <= MaxConn

MayCreate == created < MaxConn

(* Mutant of Acquire: acquire does not look whether the pool is closed. *)
AcquireAnyway(c) ==
    /\ \/ Take(c)
       \/ pool = <<>> /\ MayCreate /\ New(c)
       \/ ~MayCreate /\ Wait(c)
    /\ UNCHANGED <<closed, shut>>

(* acquire, up to its return or its wait. *)
Acquire(c) ==
    /\ \/ /\ closed
          /\ pc' = [pc EXCEPT ![c] = "refused"]
          /\ UNCHANGED <<pool, waiting, created, lent>>
       \/ ~closed /\ Take(c)
       \/ ~closed /\ pool = <<>> /\ MayCreate /\ New(c)
       \/ ~closed /\ ~MayCreate /\ Wait(c)
    /\ UNCHANGED <<closed, shut>>

(* Mutant of Release: release forgets that the pool may be closed. *)
ReleaseToPool(c, next) ==
    /\ lent' = [lent EXCEPT ![c] = None]
    /\ pool' = Append(pool, lent[c])
    /\ WakeNext([pc EXCEPT ![c] = next])
    /\ UNCHANGED <<created, closed, shut>>

(* release, on the way out of _acquire_stub; the caller goes on to next. *)
Release(c, next) ==
    /\ lent' = [lent EXCEPT ![c] = None]
    /\ \/ /\ closed
          /\ shut' = shut \cup {lent[c]}
          /\ pc' = [pc EXCEPT ![c] = next]
          /\ UNCHANGED <<pool, waiting>>
       \/ /\ ~closed
          /\ pool' = Append(pool, lent[c])
          /\ WakeNext([pc EXCEPT ![c] = next])
          /\ UNCHANGED shut
    /\ UNCHANGED <<created, closed>>

-----------------------------------------------------------------------------
(* _rpc, for a caller that may make any number of calls one after another. *)

(* The first attempt of a call. *)
Begin(c) ==
    /\ pc[c] \in {"idle", "refused"}
    /\ attempt' = [attempt EXCEPT ![c] = 1]
    /\ Acquire(c)

(* The wait in queue.get is over: "while self.empty()" is tested again. *)
Resume(c) ==
    /\ pc[c] = "woken"
    /\ Take(c) \/ Wait(c)
    /\ UNCHANGED <<closed, shut, attempt>>

(* The call returns, is cancelled, or fails with an error that is raised.  *)
End(c) ==
    /\ pc[c] = "calling"
    /\ Release(c, "idle")
    /\ UNCHANGED attempt

(* UNAVAILABLE, DEADLINE_EXCEEDED or INTERNAL: the channel is released     *)
(* before the sleep; after the last attempt the error is raised (End).     *)
Fail(c) ==
    /\ pc[c] = "calling"
    /\ attempt[c] <= Retries
    /\ Release(c, "backoff")
    /\ UNCHANGED attempt

Retry(c) ==
    /\ pc[c] = "backoff"
    /\ attempt' = [attempt EXCEPT ![c] = @ + 1]
    /\ Acquire(c)

(* Cancelled while it waits: the waiter leaves the line. *)
CancelWait(c) ==
    /\ pc[c] = "waiting"
    /\ \E i \in 1..Len(waiting) : waiting[i] = c /\ waiting' = RemoveAt(waiting, i)
    /\ pc' = [pc EXCEPT ![c] = "idle"]
    /\ UNCHANGED <<pool, created, closed, shut, lent, attempt>>

(* Mutant of CancelWoken: the waiter keeps its wakeup to itself. *)
CancelSilently(c) ==
    /\ pc[c] = "woken"
    /\ pc' = [pc EXCEPT ![c] = "idle"]
    /\ UNCHANGED <<pool, waiting, created, closed, shut, lent, attempt>>

(* Cancelled after it was woken: queue.get wakes another waiter instead if *)
(* there is still an item.                                                 *)
CancelWoken(c) ==
    /\ pc[c] = "woken"
    /\ IF pool # <<>>
       THEN WakeNext([pc EXCEPT ![c] = "idle"])
       ELSE pc' = [pc EXCEPT ![c] = "idle"] /\ UNCHANGED waiting
    /\ UNCHANGED <<pool, created, closed, shut, lent, attempt>>

(* Cancelled in the sleep before a retry. *)
CancelBackoff(c) ==
    /\ pc[c] = "backoff"
    /\ pc' = [pc EXCEPT ![c] = "idle"]
    /\ UNCHANGED <<pool, waiting, created, closed, shut, lent, attempt>>

(* close, when a user of the context manager that has made a call leaves   *)
(* its block.  Nothing is done for the waiters.                            *)
Close(c) ==
    /\ MayClose
    /\ pc[c] = "idle" /\ attempt[c] > 0
    /\ closed' = TRUE
    /\ shut' = shut \cup ToSet(pool)
    /\ pool' = <<>>
    /\ UNCHANGED <<waiting, created, pc, lent, attempt>>

-----------------------------------------------------------------------------
Run(c) == Resume(c) \/ End(c) \/ Retry(c)

Next ==
    \E c \in Caller :
        \/ Begin(c) \/ Run(c) \/ Fail(c) \/ Close(c)
        \/ CancelWait(c) \/ CancelWoken(c) \/ CancelBackoff(c)

Spec == Init /\ [][Next]_vars

(* The event loop runs what is ready, a sleep ends, and a call comes back  *)
(* within its deadline.  Nobody is bound to cancel, to call or to close.   *)
FairSpec ==
    Spec /\ \A c \in Caller :
        WF_vars(Resume(c)) /\ WF_vars(End(c) \/ Fail(c)) /\ WF_vars(Retry(c))

-----------------------------------------------------------------------------
(* Properties. *)

Pc == {"idle", "refused", "waiting", "woken", "calling", "backoff"}

Woken == {c \in Caller : pc[c] = "woken"}

(* Every variable has its type; a caller holds a channel exactly while it  *)
(* calls, waits in the line exactly once or not at all, and makes at most  *)
(* one attempt more than there are retries.                                *)
TypeOK ==
    /\ pool \in Seq(1..created)
    /\ waiting \in Seq(Caller)
    /\ created \in 0..MaxConn
    /\ closed \in BOOLEAN
    /\ shut \in SUBSET (1..created)
    /\ pc \in [Caller -> Pc]
    /\ lent \in [Caller -> 0..created]
    /\ attempt \in [Caller -> 0..(Retries + 1)]
    /\ \A c \in Caller : lent[c] # None <=> pc[c] = "calling"
    /\ \A c \in Caller : pc[c] = "waiting" <=> c \in ToSet(waiting)
    /\ IsInjective(waiting)

Held == {lent[c] : c \in Caller} \ {None}

(* Every channel that was made is in exactly one place: in the pool once,  *)
(* with one caller, or closed; and no channel is left in a closed pool.    *)
ChannelsAccounted ==
    /\ IsInjective(pool)
    /\ \A c, d \in Caller : lent[c] = lent[d] => c = d \/ lent[c] = None
    /\ ToSet(pool) \cap Held = {}
    /\ shut \cap (ToSet(pool) \cup Held) = {}
    /\ ToSet(pool) \cup Held \cup shut = 1..created
    /\ IF closed THEN pool = <<>> ELSE shut = {}

(* As long as someone waits in the line, there are at least as many        *)
(* wakeups on their way as channels in the pool: no channel stays unused   *)
(* while a caller waits, whoever is cancelled or overtaken.                *)
NoLostWakeup ==
    waiting # <<>> => Cardinality(Woken) >= Len(pool)

(* A caller of an open pool never waits for nothing: a channel is lent and *)
(* will come back, or a wakeup is on its way.                              *)
WaitsForSomething ==
    (waiting # <<>> /\ ~closed) =>
        \/ \E c \in Caller : pc[c] = "calling"
        \/ pool # <<>> /\ Woken # {}

Busy(c) == pc[c] \notin {"idle", "refused"}

(* If at some time the node gets no new requests, every call that has      *)
(* begun ends, in a pool that stays open.  (Newcomers without end may      *)
(* overtake a waiter without end, and close wakes nobody.)                 *)
CallsEnd ==
    (<>[][\A c \in Caller : ~Begin(c)]_vars /\ []~closed)
        => \A c \in Caller : Busy(c) ~> ~Busy(c)

(* The promise of ChannelLoan: whoever waits, is woken, overtaken,         *)
(* cancelled or tries again, and whenever the pool is closed, channels are *)
(* made, lent, given back and closed as if each were one step of a pool    *)
(* without a queue.                                                        *)
Loan == INSTANCE ChannelLoan WITH made <- created, free <- ToSet(pool)

LendsChannels == Loan!Spec
=============================================================================
