------------------------------ MODULE KeyCache ------------------------------
(***************************************************************************)
(* The hub's key cache (hub/src/modules/key_cache) and the command that    *)
(* rotates the key pair (init_key in hub/src/utils/cli.py).                *)
(*                                                                         *)
(* get_encryptor holds an asyncio lock while it awaits four file           *)
(* operations: stat and read of the private and of the public key file.    *)
(* The rotation runs in another process: it truncates and writes the       *)
(* public file, then the private one, so a request may find one file new   *)
(* and the other old, or a file with nothing in it.                        *)
(*                                                                         *)
(* A key pair is the number of the rotation that made it; Nothing is the   *)
(* content of a file that is truncated and not written yet.  The mtime of  *)
(* a file is the time of its last change on a clock that may stand still   *)
(* over any number of steps: file timestamps are coarse, and init_key      *)
(* truncates and writes a file within a fraction of a millisecond.         *)
(***************************************************************************)
EXTENDS Naturals

CONSTANTS
    Caller,      \* concurrent requests of the hub
    NoOne,       \* the holder of a free lock
    MaxRotation, \* bound: number of the last key pair
    MaxClock     \* bound: last time of a change of a file

ASSUME CallerAssumption ==
    NoOne \notin Caller /\ MaxRotation \in Nat /\ MaxClock \in Nat

Nothing == 0

File == {"priv", "pub"}

VARIABLES
    file,      \* the two key files: mtime and content; mtime 0: no such file
    clock,     \* the time that a file changed now gets as its mtime
    rotation,  \* the rotation in progress or last done, and its next step
    lock,      \* self._lock: the caller in the critical section, or NoOne
    cache,     \* self._cache: mtimes and the keys of the encryptor, if any
    call,      \* each caller: where it is, what it has read
    since,     \* history: last rotation done when the call began
    past       \* history: every mtime and content each file has had

vars == <<file, clock, rotation, lock, cache, call, since, past>>

Zero == [f \in File |-> 0]

NoCache == [is |-> FALSE, mtime |-> Zero, key |-> Zero]

(* The last rotation that is complete. *)
Done == IF rotation.pc = "idle" THEN rotation.num ELSE rotation.num - 1

(* The hub starts with no key files, or with the pair of rotation 1. *)
Init ==
    /\ \E n \in {0, 1} :
          /\ file = [f \in File |-> [mtime |-> n, content |-> n]]
          /\ rotation = [num |-> n, pc |-> "idle"]
    /\ clock = 1
    /\ lock = NoOne
    /\ cache = NoCache
    /\ call = [c \in Caller |-> [pc |-> "idle", mtime |-> Zero, key |-> Zero]]
    /\ since = [c \in Caller |-> 0]
    /\ past = [f \in File |-> {file[f]}]

-----------------------------------------------------------------------------
(* init_key, in a process of its own.  The clock does not go back; it may  *)
(* be the same for the truncation and the write of a file, and for several *)
(* rotations.                                                              *)

Tick ==
    /\ clock < MaxClock
    /\ clock' = clock + 1
    /\ UNCHANGED <<file, rotation, lock, cache, call, since, past>>

Change(f, content) ==
    LET changed == [mtime |-> clock, content |-> content]
    IN  /\ file' = [file EXCEPT ![f] = changed]
        /\ past' = [past EXCEPT ![f] = @ \cup {changed}]
        /\ UNCHANGED <<clock, lock, cache, call, since>>

WriteFile(f, content, from, to) ==
    /\ rotation.pc = from
    /\ Change(f, content)
    /\ rotation' = [rotation EXCEPT !.pc = to]

(* A new rotation starts with open(public_key_path, mode='w'). *)
RotateStart ==
    /\ rotation.pc = "idle"
    /\ rotation.num < MaxRotation
    /\ Change("pub", Nothing)
    /\ rotation' = [num |-> rotation.num + 1, pc |-> "writePub"]

RotateWritePub == WriteFile("pub", rotation.num, "writePub", "openPriv")

RotateOpenPriv == WriteFile("priv", Nothing, "openPriv", "writePriv")

RotateWritePriv == WriteFile("priv", rotation.num, "writePriv", "idle")

-----------------------------------------------------------------------------
(* get_encryptor *)

At(c, pc) == call[c].pc = pc

(* Caller c goes on to pc, with the mtimes m and the keys k. *)
Goto(c, pc, m, k) == call' = [call EXCEPT ![c] = [pc |-> pc, mtime |-> m, key |-> k]]

(* ... having read nothing more. *)
Step(c, pc) == Goto(c, pc, call[c].mtime, call[c].key)

CallStart(c) ==
    /\ At(c, "idle") \/ At(c, "returned") \/ At(c, "failed")
    /\ Goto(c, "wait", Zero, Zero)
    /\ since' = [since EXCEPT ![c] = Done]
    /\ UNCHANGED <<file, clock, rotation, lock, cache, past>>

(* Mutant of Lock: the critical section without its lock. *)
NoLock(c) ==
    /\ At(c, "wait")
    /\ lock' = c
    /\ Step(c, "statPriv")
    /\ UNCHANGED <<file, clock, rotation, cache, since, past>>

(* async with self._lock *)
Lock(c) ==
    /\ At(c, "wait")
    /\ lock = NoOne
    /\ lock' = c
    /\ Step(c, "statPriv")
    /\ UNCHANGED <<file, clock, rotation, cache, since, past>>

(* Mutant of Leave: an exception keeps the lock. *)
LeaveLocked(c, pc) ==
    /\ Step(c, pc)
    /\ UNCHANGED <<file, clock, rotation, lock, cache, since, past>>

Leave(c, pc) ==
    /\ lock' = NoOne
    /\ Step(c, pc)
    /\ UNCHANGED <<file, clock, rotation, cache, since, past>>

(* stat of a file that does not exist raises; the lock is released. *)
StatPriv(c) ==
    /\ At(c, "statPriv")
    /\ IF file["priv"].mtime = 0
       THEN Leave(c, "failed")
       ELSE /\ Goto(c, "statPub", [call[c].mtime EXCEPT !["priv"] = file["priv"].mtime],
                  call[c].key)
            /\ UNCHANGED <<file, clock, rotation, lock, cache, since, past>>

StatPub(c) ==
    /\ At(c, "statPub")
    /\ IF file["pub"].mtime = 0
       THEN Leave(c, "failed")
       ELSE /\ Goto(c, "compare", [call[c].mtime EXCEPT !["pub"] = file["pub"].mtime],
                  call[c].key)
            /\ UNCHANGED <<file, clock, rotation, lock, cache, since, past>>

(* Mutant of Hit: only the public key is looked at. *)
HitPub(c) == cache.is /\ cache.mtime["pub"] = call[c].mtime["pub"]

Hit(c) == cache.is /\ cache.mtime = call[c].mtime

(* The cached encryptor is returned if neither mtime has changed. *)
Compare(c) ==
    /\ At(c, "compare")
    /\ IF Hit(c)
       THEN /\ lock' = NoOne
            /\ Goto(c, "returned", call[c].mtime, cache.key)
       ELSE /\ Step(c, "readPriv")
            /\ UNCHANGED lock
    /\ UNCHANGED <<file, clock, rotation, cache, since, past>>

ReadFile(c, f, from, to) ==
    /\ At(c, from)
    /\ Goto(c, to, call[c].mtime, [call[c].key EXCEPT ![f] = file[f].content])
    /\ UNCHANGED <<file, clock, rotation, lock, cache, since, past>>

ReadPriv(c) == ReadFile(c, "priv", "readPriv", "readPub")

ReadPub(c) == ReadFile(c, "pub", "readPub", "store")

(* Mutant of Store: the keys are cached under mtimes taken after the read. *)
StoreLate(c) ==
    /\ At(c, "store")
    /\ cache' = [is |-> TRUE, mtime |-> [f \in File |-> file[f].mtime],
                 key |-> call[c].key]
    /\ lock' = NoOne
    /\ Step(c, "returned")
    /\ UNCHANGED <<file, clock, rotation, since, past>>

(* The encryptor is built from what was read (a file with nothing in it    *)
(* gives an encryptor without that key) and cached under the mtimes.       *)
Store(c) ==
    /\ At(c, "store")
    /\ cache' = [is |-> TRUE, mtime |-> call[c].mtime, key |-> call[c].key]
    /\ lock' = NoOne
    /\ Step(c, "returned")
    /\ UNCHANGED <<file, clock, rotation, since, past>>

-----------------------------------------------------------------------------
Rotate == RotateStart \/ RotateWritePub \/ RotateOpenPriv \/ RotateWritePriv

InLock(c) ==
    StatPriv(c) \/ StatPub(c) \/ Compare(c) \/ ReadPriv(c) \/ ReadPub(c) \/ Store(c)

Next == Tick \/ Rotate \/ \E c \in Caller : CallStart(c) \/ Lock(c) \/ InLock(c)

Spec == Init /\ [][Next]_vars

(* The event loop runs every call whose file operation has come back, and  *)
(* asyncio.Lock wakes its waiters in the order they came.  Nothing is      *)
(* assumed of the rotation, nor that calls are made.                       *)
FairSpec ==
    Spec /\ \A c \in Caller : WF_vars(InLock(c)) /\ SF_vars(Lock(c))

-----------------------------------------------------------------------------
(* Properties. *)

CallPc == {"idle", "wait", "statPriv", "statPub", "compare", "readPriv", "readPub",
           "store", "returned", "failed"}

(* Every variable has its type, and the lock is held by exactly the caller *)
(* that is between its first stat and its return.                          *)
TypeOK ==
    /\ file \in [File -> [mtime : Nat, content : Nat]]
    /\ clock \in Nat
    /\ rotation \in [num : Nat, pc : {"idle", "writePub", "openPriv", "writePriv"}]
    /\ lock \in Caller \cup {NoOne}
    /\ cache \in [is : BOOLEAN, mtime : [File -> Nat], key : [File -> Nat]]
    /\ call \in [Caller -> [pc : CallPc, mtime : [File -> Nat], key : [File -> Nat]]]
    /\ since \in [Caller -> Nat]
    /\ past \in [File -> SUBSET [mtime : Nat, content : Nat]]
    /\ \A c \in Caller :
          call[c].pc \notin {"idle", "wait", "returned", "failed"} <=> lock = c

(* At the time m file f held the content v. *)
Held(f, m, v) == [mtime |-> m, content |-> v] \in past[f]

(* A key that is cached under the mtime its file has now is one that the   *)
(* file held at that very time: whatever was replaced before then is found *)
(* out by the mtimes, wherever in a rotation it was read.                  *)
MtimeVouchesForKey ==
    \A f \in File :
        (cache.is /\ cache.mtime[f] = file[f].mtime)
            => Held(f, file[f].mtime, cache.key[f])

(* A rotation that was complete when get_encryptor was called is seen by   *)
(* that call.  No key it returns is older, and a key is missing only if    *)
(* another rotation has begun, so that the file may have been found empty; *)
(* with one exception: the mtimes do not tell an old or missing key from a *)
(* recent one if the file held both at the same time.                      *)
RotationVisible ==
    \A c \in Caller : call[c].pc = "returned" =>
        \A f \in File :
            \/ call[c].key[f] >= since[c]
            \/ call[c].key[f] = Nothing /\ rotation.num > since[c]
            \/ /\ Held(f, call[c].mtime[f], call[c].key[f])
               /\ \E v \in 1 .. rotation.num :
                     v >= since[c] /\ Held(f, call[c].mtime[f], v)

(* Every call of get_encryptor returns or raises, also when other calls    *)
(* wait for the lock and when a file is missing.                           *)
CallsEnd ==
    \A c \in Caller : At(c, "wait") ~> (At(c, "returned") \/ At(c, "failed"))
=============================================================================
