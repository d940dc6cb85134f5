---------------------------- MODULE ProofManager ----------------------------
(***************************************************************************)
(* The task table of a prover node (prover/node/src/modules/proof_manager) *)
(* and the two kinds of request that use it: push_task, by which the hub   *)
(* announces a proof hash, and claim_task, by which every prove handler    *)
(* takes that hash before it proves.                                       *)
(*                                                                         *)
(* Two threads of the node work on the same dictionary with no common      *)
(* lock: the event loop runs push_task and claim_task, one at a time and   *)
(* without an await inside either, and the flush thread saves the table    *)
(* every few seconds.  A step of this module is one access of a thread to  *)
(* the shared state (the dictionary, the dirty flag, the file), so every   *)
(* interleaving that the interpreter's thread switches allow is a          *)
(* behaviour.  The process may crash between any two steps and is started  *)
(* again from the file.                                                    *)
(*                                                                         *)
(* Expiry times are compared with the wall clock, so the clock is a        *)
(* variable that may advance between any two steps.                        *)
(***************************************************************************)
EXTENDS Naturals

CONSTANTS
    Hash,        \* proof hashes
    TTL,         \* lifetime of a table entry (60 seconds in the code)
    PushWindow,  \* how long after its first push the hub may push a hash again
    MaxClock     \* bound: the clock stops there

ASSUME ConstantsAssumption ==
    /\ TTL \in Nat \ {0}
    /\ PushWindow \in Nat
    /\ MaxClock \in Nat

(***************************************************************************)
(* The hub computes a hash from the time of one request, and pushes it     *)
(* during that request only (three attempts, each with one retry after a   *)
(* six second timeout), long before the sixty seconds of TTL are over.     *)
(***************************************************************************)
ASSUME WindowAssumption == PushWindow < TTL

VARIABLES
    clock,   \* time.time()
    up,      \* "down", "up", or "failed": the last start raised
    cache,   \* self.cache
    dirty,   \* self._dirty
    disk,    \* the file at cache_path
    loop,    \* the event loop: the request it is running, and where
    flush,   \* the flush thread: where it is in _save_cache
    born,    \* the time of the first push of each hash, or Never
    lease,   \* history: time of the last claim the table must remember
    raced    \* history: entries changed after the dump of the last save

vars == <<clock, up, cache, dirty, disk, loop, flush, born, lease, raced>>

-----------------------------------------------------------------------------
(* Table entries.  A key that is not in the dictionary is Absent. *)

Entry == [status : {"absent", "pending", "running"}, exp : Nat]

Absent == [status |-> "absent", exp |-> 0]

Table == [Hash -> Entry]

EmptyTable == [h \in Hash |-> Absent]

Has(t, h) == t[h].status # "absent"

Keys(t) == {h \in Hash : Has(t, h)}

(* expiry <= current_time *)
Expired(e) == e.exp <= clock

ExpiredKeys(t) == {h \in Keys(t) : Expired(t[h])}

Never == [at |-> 0, is |-> FALSE]

At(t) == [at |-> t, is |-> TRUE]

-----------------------------------------------------------------------------
(* The program counters of the two threads. *)

LoopIdle == [pc |-> "idle", op |-> "none", key |-> "none"]

FlushIdle == [pc |-> "idle", seen |-> {}, victims |-> {}, buf |-> EmptyTable]

Init ==
    /\ clock = 0
    /\ up = "up"
    /\ cache = EmptyTable
    /\ dirty = FALSE
    /\ disk = [kind |-> "missing", data |-> EmptyTable]
    /\ loop = LoopIdle
    /\ flush = FlushIdle
    /\ born = [h \in Hash |-> Never]
    /\ lease = [h \in Hash |-> Never]
    /\ raced = {}

Tick ==
    /\ clock < MaxClock
    /\ clock' = clock + 1
    /\ UNCHANGED <<up, cache, dirty, disk, loop, flush, born, lease, raced>>

-----------------------------------------------------------------------------
(* The event loop. *)

LoopAt(pc) == up = "up" /\ loop.pc = pc

Goto(pc) == loop' = [loop EXCEPT !.pc = pc]

(* A write to the dictionary while a save is between its dump and the      *)
(* moment it clears the dirty flag.                                        *)
NoteRace(h) ==
    raced' = IF flush.pc \in {"close", "clear"} THEN raced \cup {h} ELSE raced

(* A signed push_task request arrives; get tests "key in self.cache". *)
PushStart(h) ==
    /\ LoopAt("idle")
    /\ born[h].is => clock <= born[h].at + PushWindow
    /\ born' = IF born[h].is THEN born ELSE [born EXCEPT ![h] = At(clock)]
    /\ loop' = [op |-> "push", key |-> h,
                pc |-> IF Has(cache, h) THEN "read" ELSE "store"]
    /\ UNCHANGED <<clock, up, cache, dirty, disk, flush, lease, raced>>

(* Mutant of ClaimStart: a key that is not in the table is free. *)
ClaimUnknown(h) ==
    /\ LoopAt("idle")
    /\ loop' = [op |-> "claim", key |-> h,
                pc |-> IF Has(cache, h) THEN "read" ELSE "store"]
    /\ UNCHANGED <<clock, up, cache, dirty, disk, flush, born, lease, raced>>

(* A prove request calls claim_task; a key that is not in the table is     *)
(* answered STATUS_CODE_TASK_NOT_FOUND.                                    *)
ClaimStart(h) ==
    /\ LoopAt("idle")
    /\ loop' = IF Has(cache, h)
               THEN [op |-> "claim", key |-> h, pc |-> "read"]
               ELSE LoopIdle
    /\ UNCHANGED <<clock, up, cache, dirty, disk, flush, born, lease, raced>>

(* Mutant of Writable: neither request looks at the status. *)
AnyStatus(e) == TRUE

(* push_task rejects a truthy status, which "pending" (0) is not;          *)
(* claim_task rejects every status but "pending".                          *)
Writable(e) == e.status = "pending"

(* get reads the entry and compares its expiry time with the clock.  The   *)
(* flush thread may have deleted the key since the test: KeyError, and the *)
(* request fails.                                                          *)
GetRead ==
    /\ LoopAt("read")
    /\ LET e == cache[loop.key] IN
       \/ /\ ~Has(cache, loop.key)
          /\ loop' = LoopIdle
       \/ /\ Has(cache, loop.key) /\ Expired(e)
          /\ Goto("del")
       \/ /\ Has(cache, loop.key) /\ ~Expired(e)
          /\ IF Writable(e) THEN Goto("store") ELSE loop' = LoopIdle
    /\ UNCHANGED <<clock, up, cache, dirty, disk, flush, born, lease, raced>>

(* del self.cache[key] of an expired entry, or KeyError. *)
GetDelete ==
    /\ LoopAt("del")
    /\ IF Has(cache, loop.key)
       THEN /\ cache' = [cache EXCEPT ![loop.key] = Absent]
            /\ NoteRace(loop.key)
            /\ Goto("delDirty")
       ELSE /\ loop' = LoopIdle
            /\ UNCHANGED <<cache, raced>>
    /\ UNCHANGED <<clock, up, dirty, disk, flush, born, lease>>

(* self._dirty = True; get returns None: push_task goes on to set,         *)
(* claim_task answers STATUS_CODE_TASK_NOT_FOUND.                          *)
GetDeleteDirty ==
    /\ LoopAt("delDirty")
    /\ dirty' = TRUE
    /\ IF loop.op = "push" THEN Goto("store") ELSE loop' = LoopIdle
    /\ UNCHANGED <<clock, up, cache, disk, flush, born, lease, raced>>

(* Mutant of Expiry: the lifetime is subtracted. *)
PastExpiry == clock - TTL

(* time.time() + ttl, which is sixty seconds in both requests. *)
Expiry == clock + TTL

(* set stores the entry: "pending" from push_task, "running" from          *)
(* claim_task.                                                             *)
SetStore ==
    /\ LoopAt("store")
    /\ cache' = [cache EXCEPT ![loop.key] =
                    [status |-> IF loop.op = "push" THEN "pending" ELSE "running",
                     exp |-> Expiry]]
    /\ lease' = IF loop.op = "claim"
                THEN [lease EXCEPT ![loop.key] = At(clock)]
                ELSE lease
    /\ NoteRace(loop.key)
    /\ Goto("log")
    /\ UNCHANGED <<clock, up, dirty, disk, flush, born>>

(* The line that logs the stored entry reads it back.  If the flush thread *)
(* has deleted the key meanwhile, KeyError: the flag is not set and the    *)
(* request fails.                                                          *)
SetLog ==
    /\ LoopAt("log")
    /\ IF Has(cache, loop.key) THEN Goto("dirty") ELSE loop' = LoopIdle
    /\ UNCHANGED <<clock, up, cache, dirty, disk, flush, born, lease, raced>>

(* Mutant of SetDirty: set forgets the flag. *)
SetNotDirty ==
    /\ LoopAt("dirty")
    /\ loop' = LoopIdle
    /\ UNCHANGED <<clock, up, cache, dirty, disk, flush, born, lease, raced>>

(* self._dirty = True; the request is answered. *)
SetDirty ==
    /\ LoopAt("dirty")
    /\ dirty' = TRUE
    /\ loop' = LoopIdle
    /\ UNCHANGED <<clock, up, cache, disk, flush, born, lease, raced>>

-----------------------------------------------------------------------------
(* The flush thread: _save_cache, run every _SAVE_INTERVAL seconds.        *)
(* _write_lock is taken by no other thread (nothing calls clean_expired),  *)
(* so it is not modelled.                                                  *)

FlushAt(pc) == up = "up" /\ flush.pc = pc

FlushGoto(pc) == flush' = [flush EXCEPT !.pc = pc]

(* "if not self._dirty: return", else start to list the expired keys. *)
SaveStart ==
    /\ FlushAt("idle")
    /\ dirty
    /\ flush' = [FlushIdle EXCEPT !.pc = "list", !.seen = Keys(cache)]
    /\ UNCHANGED <<clock, up, cache, dirty, disk, loop, born, lease, raced>>

(* The list of expired keys; if the other thread resized the dictionary    *)
(* meanwhile the iteration may raise RuntimeError, which ends this save.   *)
DropList ==
    /\ FlushAt("list")
    /\ \/ flush' = [FlushIdle EXCEPT !.pc = "drop", !.victims = ExpiredKeys(cache)]
       \/ Keys(cache) # flush.seen /\ flush' = FlushIdle
    /\ UNCHANGED <<clock, up, cache, dirty, disk, loop, born, lease, raced>>

(* "del self.cache[key]" for one listed key; KeyError, if the event loop   *)
(* has deleted it meanwhile, ends this save.                               *)
DropOne(h) ==
    /\ FlushAt("drop")
    /\ h \in flush.victims
    /\ IF Has(cache, h)
       THEN /\ cache' = [cache EXCEPT ![h] = Absent]
            /\ flush' = [flush EXCEPT !.victims = @ \ {h}]
       ELSE /\ flush' = FlushIdle
            /\ UNCHANGED cache
    /\ UNCHANGED <<clock, up, dirty, disk, loop, born, lease, raced>>

(* open(self.cache_path, 'wb') truncates the file, or raises IOError. *)
SaveOpen ==
    /\ FlushAt("drop")
    /\ flush.victims = {}
    /\ \/ /\ disk' = [kind |-> "empty", data |-> EmptyTable]
          /\ FlushGoto("dump")
       \/ /\ flush' = FlushIdle
          /\ UNCHANGED disk
    /\ UNCHANGED <<clock, up, cache, dirty, loop, born, lease, raced>>

(* pickle.dump serialises the whole dictionary in one call of the C        *)
(* pickler, which no other thread interrupts, into the file's buffer.      *)
SaveDump ==
    /\ FlushAt("dump")
    /\ flush' = [flush EXCEPT !.pc = "close", !.buf = cache]
    /\ raced' = {}
    /\ UNCHANGED <<clock, up, cache, dirty, disk, loop, born, lease>>

(* Closing the file writes the buffer, or raises IOError (a full disk)     *)
(* with nothing or a part of it written.                                   *)
SaveClose ==
    /\ FlushAt("close")
    /\ \/ /\ disk' = [kind |-> "data", data |-> flush.buf]
          /\ flush' = [FlushIdle EXCEPT !.pc = "clear"]
       \/ /\ \E k \in {"empty", "torn"} : disk' = [kind |-> k, data |-> EmptyTable]
          /\ flush' = FlushIdle
    /\ UNCHANGED <<clock, up, cache, dirty, loop, born, lease, raced>>

(* self._dirty = False, whatever was stored since the dump. *)
SaveClear ==
    /\ FlushAt("clear")
    /\ dirty' = FALSE
    /\ flush' = FlushIdle
    /\ UNCHANGED <<clock, up, cache, disk, loop, born, lease, raced>>

-----------------------------------------------------------------------------
(* Crash and start. *)

(* The file records the claim of h. *)
OnDisk(h) == disk.kind = "data" /\ disk.data[h].status = "running"

(* The process dies.  A claim the file does not hold is forgotten. *)
Crash ==
    /\ up = "up"
    /\ up' = "down"
    /\ cache' = EmptyTable
    /\ dirty' = FALSE
    /\ loop' = LoopIdle
    /\ flush' = FlushIdle
    /\ lease' = [h \in Hash |-> IF OnDisk(h) THEN lease[h] ELSE Never]
    /\ raced' = {}
    /\ UNCHANGED <<clock, disk, born>>

(* __init__: _load_cache reads the file, if there is one, and drops what   *)
(* has expired.  Reading a file without content raises EOFError, which is  *)
(* neither IOError nor PickleError: the start fails.  A torn file raises   *)
(* UnpicklingError, which is caught: the table starts empty.               *)
LoadCache ==
    /\ up # "up"
    /\ \/ /\ disk.kind = "empty"
          /\ up' = "failed"
          /\ UNCHANGED cache
       \/ /\ disk.kind # "empty"
          /\ up' = "up"
          /\ cache' = [h \in Hash |->
                          IF Expired(disk.data[h]) THEN Absent ELSE disk.data[h]]
    /\ UNCHANGED <<clock, dirty, disk, loop, flush, born, lease, raced>>

-----------------------------------------------------------------------------
Next ==
    \/ Tick
    \/ \E h \in Hash : PushStart(h) \/ ClaimStart(h) \/ DropOne(h)
    \/ GetRead \/ GetDelete \/ GetDeleteDirty \/ SetStore \/ SetLog \/ SetDirty
    \/ SaveStart \/ DropList \/ SaveOpen \/ SaveDump \/ SaveClose \/ SaveClear
    \/ Crash \/ LoadCache

Spec == Init /\ [][Next]_vars

-----------------------------------------------------------------------------
(* Properties. *)

LoopType ==
    /\ loop \in [pc : {"idle", "read", "del", "delDirty", "store", "log", "dirty"},
                op : {"none", "push", "claim"}, key : Hash \cup {"none"}]
    /\ IF loop.pc = "idle" THEN loop = LoopIdle
                           ELSE loop.key \in Hash /\ loop.op # "none"

FlushType ==
    flush \in [pc : {"idle", "list", "drop", "dump", "close", "clear"},
              seen : SUBSET Hash, victims : SUBSET Hash, buf : Table]

(* Every variable of the node's task table has its type; in particular     *)
(* every entry has a finite expiry time and a busy event loop a hash.      *)
TypeOK ==
    /\ clock \in Nat
    /\ up \in {"up", "down", "failed"}
    /\ cache \in Table
    /\ dirty \in BOOLEAN
    /\ disk \in [kind : {"missing", "empty", "torn", "data"}, data : Table]
    /\ LoopType
    /\ FlushType
    /\ born \in [Hash -> [at : Nat, is : BOOLEAN]]
    /\ lease \in [Hash -> [at : Nat, is : BOOLEAN]]
    /\ raced \in SUBSET Hash

(* A hash that claim_task has handed to one prove request is not handed to *)
(* another before TTL has passed, whatever pushes of the same hash arrive, *)
(* whatever the flush thread deletes meanwhile, and even across a crash if *)
(* the file held the claim when the process died.                          *)
LeaseExclusive ==
    [][\A h \in Hash :
          /\ lease[h].is
          /\ lease'[h].is
          /\ lease'[h] # lease[h]
          => clock >= lease[h].at + TTL]_vars

(* What a restart would find for h. *)
Saved(h) == disk.data[h]

InFile(h) == cache[h] = Saved(h) \/ (cache[h] = Absent /\ Expired(Saved(h)))

(* When no save runs and the dirty flag is down, the file holds every live *)
(* entry as it is in memory, except those written while the last save was  *)
(* between pickle.dump and "self._dirty = False": that window is the only  *)
(* way an accepted push or a claim stays unsaved with nothing pending.     *)
StaleFileExplained ==
    (up = "up" /\ flush.pc = "idle" /\ ~dirty)
        => \A h \in Hash :
              \/ InFile(h)
              \/ h \in raced
              \/ loop.pc \in {"log", "dirty", "delDirty"} /\ loop.key = h

(* A start never fails: _load_cache logs "Failed to load cache" and        *)
(* "starting with an empty cache" when the file is of no use.              *)
StartNeverFails == up # "failed"

(* push_task refuses a hash the table holds ("Proof hash is exist."): it   *)
(* never writes over a live entry.                                         *)
PushRefusesExisting ==
    [][\A h \in Hash :
          (loop.op = "push" /\ loop.key = h /\ cache'[h].status = "pending"
             /\ cache'[h] # cache[h])
              => ~Has(cache, h) \/ Expired(cache[h])]_vars

(* A claim_task that began now would take h, or one has just read that it  *)
(* may.                                                                    *)
OnOffer(h) ==
    \/ cache[h].status = "pending" /\ ~Expired(cache[h])
    \/ loop.pc = "store" /\ loop.op = "claim" /\ loop.key = h

(* The promise of TaskLease: through all interleavings of the two threads, *)
(* crashes and starts, a claim takes a hash that a push has offered, and   *)
(* while it lasts neither a push nor the file brings the hash back.        *)
Promise == INSTANCE TaskLease WITH offered <- {h \in Hash : OnOffer(h)}

KeepsLeases == Promise!Spec
=============================================================================
