------------------------- MODULE ProofManagerProofs -------------------------
(***************************************************************************)
(* Proofs about the node's task table, for any set of hashes, any TTL, any *)
(* push window shorter than TTL and any length of the run:                 *)
(*   - TypeCorrect:     Spec => []TypeOK;                                  *)
(*   - SavedUnlessRaced: Spec => []StaleFileExplained;                     *)
(*   - ClaimsAreLeases: Spec => LeaseExclusive;                            *)
(*   - LeasesAreKept:   Spec => KeepsLeases, the refinement of TaskLease.  *)
(***************************************************************************)
EXTENDS ProofManager, TLAPS

-----------------------------------------------------------------------------
(* The inductive invariant behind StaleFileExplained. *)

SaveInv ==
    /\ up # "up" => flush.pc = "idle"
    /\ ~dirty => flush.pc = "idle"
    /\ flush.pc = "close" => \A h \in Hash : h \in raced \/ flush.buf[h] = cache[h]
    /\ flush.pc = "clear" => \A h \in Hash : h \in raced \/ disk.data[h] = cache[h]
    /\ StaleFileExplained
    /\ (up = "up" /\ flush.pc = "idle" /\ ~dirty /\ loop.pc = "log")
          => \/ Has(cache, loop.key)
             \/ InFile(loop.key)
             \/ loop.key \in raced

(* The inductive invariant behind LeaseExclusive. *)

(* An entry lives at least until TTL after the first push of its hash. *)
LivesLong(t) ==
    \A h \in Hash : Has(t, h) => born[h].is /\ t[h].exp >= born[h].at + TTL

BornInv ==
    /\ \A h \in Hash : born[h].is => born[h].at <= clock
    /\ LivesLong(cache) /\ LivesLong(flush.buf) /\ LivesLong(disk.data)
    /\ loop.pc # "idle" => born[loop.key].is

(* The hub pushes h no more. *)
WindowClosed(h) == born[h].is /\ clock > born[h].at + PushWindow

(* A live "running" entry is the one the last claim stored. *)
RunsLeased(t) ==
    \A h \in Hash : (t[h].status = "running" /\ t[h].exp > clock)
                        => lease[h].is /\ t[h].exp = lease[h].at + TTL

RunInv ==
    /\ RunsLeased(cache) /\ RunsLeased(flush.buf) /\ RunsLeased(disk.data)
    /\ disk.kind # "data" => disk.data = EmptyTable

Leased(h) == lease[h].is /\ clock < lease[h].at + TTL

(* While a lease lasts the table refuses every claim: the entry is there,  *)
(* or it was dropped and can not be pushed again.                          *)
Held(h) ==
    \/ cache[h].status = "running" /\ cache[h].exp = lease[h].at + TTL
    \/ ~Has(cache, h) /\ WindowClosed(h)

LeaseInv ==
    \A h \in Hash : Leased(h) =>
        /\ up = "up" => Held(h)
        /\ up # "up" => OnDisk(h)
        /\ loop.key = h => loop.pc \notin {"store", "del", "delDirty"}

VictimInv == \A h \in flush.victims : WindowClosed(h)

ClaimInv == BornInv /\ RunInv /\ VictimInv /\ LeaseInv

-----------------------------------------------------------------------------
LEMMA TableFacts ==
    /\ Absent \in Entry
    /\ EmptyTable \in Table
    /\ \A t \in Table : Keys(t) \in SUBSET Hash /\ ExpiredKeys(t) \in SUBSET Hash
    /\ \A n \in Nat, st \in {"pending", "running"} : [status |-> st, exp |-> n] \in Entry
    /\ \A n \in Nat : At(n) \in [at : Nat, is : BOOLEAN]
    /\ Never \in [at : Nat, is : BOOLEAN]
  BY DEF Absent, Entry, EmptyTable, Table, Keys, ExpiredKeys, At, Never

(* Every step of the event loop, of the flush thread, of the clock, of a   *)
(* crash and of a start keeps the types of the task table.                 *)
THEOREM TypeCorrect == Spec => []TypeOK
<1>1. Init => TypeOK
  <2> SUFFICES ASSUME Init PROVE TypeOK
    OBVIOUS
  <2>1. LoopType /\ FlushType
    BY TableFacts DEF Init, LoopType, FlushType, LoopIdle, FlushIdle
  <2>2. born \in [Hash -> [at : Nat, is : BOOLEAN]] /\ lease = born
    BY TableFacts DEF Init
  <2>. QED
    BY <2>1, <2>2, TableFacts DEF Init, TypeOK
<1>2. TypeOK /\ [Next]_vars => TypeOK'
  <2> SUFFICES ASSUME TypeOK, [Next]_vars PROVE TypeOK'
    OBVIOUS
  <2> USE TableFacts, ConstantsAssumption
      DEF TypeOK, LoopType, FlushType, LoopIdle, FlushIdle
  <2>1. CASE Tick
    BY <2>1 DEF Tick
  <2>2. ASSUME NEW h \in Hash, PushStart(h) PROVE TypeOK'
    BY <2>2 DEF PushStart, LoopAt
  <2>3. ASSUME NEW h \in Hash, ClaimStart(h) PROVE TypeOK'
    BY <2>3 DEF ClaimStart, LoopAt
  <2>4. ASSUME NEW h \in Hash, DropOne(h) PROVE TypeOK'
    <3>1. cache' \in Table
      BY <2>4 DEF DropOne, FlushAt, Table
    <3>. QED
      BY <2>4, <3>1 DEF DropOne, FlushAt
  <2>5. CASE GetRead
    BY <2>5 DEF GetRead, Writable, LoopAt, Goto
  <2>6. CASE GetDelete
    <3>1. cache' \in Table
      BY <2>6 DEF GetDelete, LoopAt, Table
    <3>. QED
      BY <2>6, <3>1 DEF GetDelete, LoopAt, Goto, NoteRace
  <2>7. CASE GetDeleteDirty
    BY <2>7 DEF GetDeleteDirty, LoopAt, Goto
  <2>8. CASE SetStore
    <3>1. cache' \in Table
      BY <2>8 DEF SetStore, Expiry, LoopAt, Table, Entry
    <3>2. lease' \in [Hash -> [at : Nat, is : BOOLEAN]]
      BY <2>8 DEF SetStore, Expiry, LoopAt
    <3>. QED
      BY <2>8, <3>1, <3>2 DEF SetStore, Expiry, LoopAt, Goto, NoteRace
  <2>9. CASE SetLog \/ SetDirty
    <3>1. CASE SetLog
      BY <3>1 DEF SetLog, LoopAt, Goto
    <3>2. CASE SetDirty
      BY <3>2 DEF SetDirty, LoopAt
    <3>. QED
      BY <2>9, <3>1, <3>2
  <2>10. CASE SaveStart
    BY <2>10 DEF SaveStart, FlushAt
  <2>11. CASE DropList
    <3>1. ExpiredKeys(cache) \in SUBSET Hash
      OBVIOUS
    <3>2. FlushType'
      <4>1. CASE flush' = FlushIdle
        BY <4>1
      <4>2. CASE flush' = [FlushIdle EXCEPT !.pc = "drop", !.victims = ExpiredKeys(cache)]
        <5>1. flush' = [pc |-> "drop", seen |-> {}, victims |-> ExpiredKeys(cache),
                        buf |-> EmptyTable]
          BY <4>2
        <5>. QED
          BY <5>1, <3>1
      <4>. QED
        BY <2>11, <4>1, <4>2 DEF DropList
    <3>. QED
      BY <2>11, <3>2 DEF DropList
  <2>12. CASE SaveOpen
    BY <2>12 DEF SaveOpen, FlushAt, FlushGoto
  <2>13. CASE SaveDump
    BY <2>13 DEF SaveDump, FlushAt
  <2>14. CASE SaveClose
    BY <2>14 DEF SaveClose, FlushAt
  <2>15. CASE SaveClear
    BY <2>15 DEF SaveClear, FlushAt
  <2>16. CASE Crash
    BY <2>16 DEF Crash
  <2>17. CASE LoadCache
    <3>1. cache' \in Table
      <4>1. \A h \in Hash : disk.data[h] \in Entry
        BY DEF Table
      <4>2. CASE UNCHANGED cache
        BY <4>2
      <4>3. CASE cache' = [h \in Hash |->
                             IF Expired(disk.data[h]) THEN Absent ELSE disk.data[h]]
        <5>1. \A h \in Hash : (IF Expired(disk.data[h]) THEN Absent ELSE disk.data[h]) \in Entry
          BY <4>1
        <5>. QED
          BY <4>3, <5>1 DEF Table
      <4>. QED
        BY <2>17, <4>2, <4>3 DEF LoadCache
    <3>. QED
      BY <2>17, <3>1 DEF LoadCache
  <2>18. CASE UNCHANGED vars
    BY <2>18 DEF vars
  <2>. QED
    BY <2>1, <2>2, <2>3, <2>4, <2>5, <2>6, <2>7, <2>8, <2>9, <2>10, <2>11, <2>12, <2>13, <2>14, <2>15, <2>16, <2>17, <2>18 DEF Next
<1>. QED
  BY <1>1, <1>2, PTL DEF Spec

-----------------------------------------------------------------------------
(* What is in memory and not in the file, with no save running and the     *)
(* dirty flag down, was written between the last dump and the moment the   *)
(* flag was cleared, in every behaviour of the node.                       *)
THEOREM SavedUnlessRaced == Spec => []StaleFileExplained
<1>1. Init => SaveInv
  BY DEF Init, SaveInv, StaleFileExplained, InFile, Saved, FlushIdle, LoopIdle
<1>2. TypeOK /\ SaveInv /\ [Next]_vars => SaveInv'
  <2> SUFFICES ASSUME TypeOK, SaveInv, [Next]_vars PROVE SaveInv'
    OBVIOUS
  <2> USE DEF TypeOK, LoopType, FlushType, Table, SaveInv, StaleFileExplained,
              InFile, Saved, Expired, LoopIdle, FlushIdle
  <2>1. CASE Tick
    <3>1. \A h \in Hash : InFile(h) => InFile(h)'
      BY <2>1 DEF Tick, Entry
    <3>. QED
      BY <2>1, <3>1 DEF Tick
  <2>2. ASSUME NEW k \in Hash, PushStart(k) PROVE SaveInv'
    BY <2>2 DEF PushStart, LoopAt
  <2>3. ASSUME NEW k \in Hash, ClaimStart(k) PROVE SaveInv'
    BY <2>3 DEF ClaimStart, LoopAt
  <2>4. ASSUME NEW k \in Hash, DropOne(k) PROVE SaveInv'
    BY <2>4 DEF DropOne, FlushAt
  <2>5. CASE GetRead
    BY <2>5 DEF GetRead, Writable, LoopAt, Goto
  <2>6. CASE GetDelete
    BY <2>6 DEF GetDelete, LoopAt, Goto, NoteRace
  <2>7. CASE GetDeleteDirty
    BY <2>7 DEF GetDeleteDirty, LoopAt, Goto
  <2>8. CASE SetStore
    BY <2>8 DEF SetStore, Expiry, LoopAt, Goto, NoteRace, Has
  <2>9. CASE SetLog \/ SetDirty
    BY <2>9 DEF SetLog, SetDirty, LoopAt, Goto, Has, Absent
  <2>10. CASE SaveStart
    BY <2>10 DEF SaveStart, FlushAt
  <2>11. CASE DropList
    <3>1. dirty' /\ up' = "up"
      BY <2>11 DEF DropList, FlushAt
    <3>2. flush'.pc \in {"idle", "drop"}
      <4>1. CASE flush' = FlushIdle
        BY <4>1
      <4>2. CASE flush' = [FlushIdle EXCEPT !.pc = "drop", !.victims = ExpiredKeys(cache)]
        BY <4>2
      <4>. QED
        BY <2>11, <4>1, <4>2 DEF DropList
    <3>. QED
      BY <3>1, <3>2
  <2>12. CASE SaveOpen
    BY <2>12 DEF SaveOpen, FlushAt, FlushGoto
  <2>13. CASE SaveDump
    BY <2>13 DEF SaveDump, FlushAt
  <2>14. CASE SaveClose
    BY <2>14 DEF SaveClose, FlushAt
  <2>15. CASE SaveClear
    BY <2>15 DEF SaveClear, FlushAt
  <2>16. CASE Crash
    BY <2>16 DEF Crash
  <2>17. CASE LoadCache
    <3>1. flush' = flush /\ dirty' = dirty /\ loop' = loop /\ disk' = disk /\ raced' = raced
      BY <2>17 DEF LoadCache
    <3>2. CASE up' = "up"
      <4>1. \A h \in Hash : InFile(h)'
        BY <2>17, <3>2 DEF LoadCache
      <4>2. flush'.pc = "idle"
        BY <2>17, <3>1 DEF LoadCache
      <4>. QED
        BY <4>1, <4>2, <3>1
    <3>3. CASE up' # "up"
      BY <3>1, <3>3, <2>17 DEF LoadCache
    <3>. QED
      BY <3>2, <3>3
  <2>18. CASE UNCHANGED vars
    BY <2>18 DEF vars
  <2>. QED
    BY <2>1, <2>2, <2>3, <2>4, <2>5, <2>6, <2>7, <2>8, <2>9, <2>10, <2>11, <2>12, <2>13, <2>14, <2>15, <2>16, <2>17, <2>18 DEF Next
<1>3. SaveInv => StaleFileExplained
  BY DEF SaveInv
<1>. QED
  BY <1>1, <1>2, <1>3, TypeCorrect, PTL DEF Spec

-----------------------------------------------------------------------------
LEMMA EmptyIsAbsent ==
    /\ Absent.status = "absent"
    /\ \A h \in Hash : EmptyTable[h] = Absent /\ ~Has(EmptyTable, h)
  BY DEF EmptyTable, Absent, Has

(* The flush thread's buffer is kept, emptied, or taken from the table. *)
LEMMA BufferSteps ==
    TypeOK /\ [Next]_vars
        => \/ flush'.buf = flush.buf
           \/ flush'.buf = EmptyTable
           \/ SaveDump
  <1> SUFFICES ASSUME TypeOK, [Next]_vars, ~SaveDump
               PROVE flush'.buf = flush.buf \/ flush'.buf = EmptyTable
    OBVIOUS
  <1> USE DEF TypeOK, FlushType, FlushIdle
  <1>1. ASSUME NEW k \in Hash, DropOne(k)
        PROVE flush'.buf = flush.buf \/ flush'.buf = EmptyTable
    BY <1>1 DEF DropOne
  <1>2. CASE DropList
    <2>1. CASE flush' = FlushIdle
      BY <2>1
    <2>2. CASE flush' = [FlushIdle EXCEPT !.pc = "drop", !.victims = ExpiredKeys(cache)]
      BY <2>2
    <2>. QED
      BY <1>2, <2>1, <2>2 DEF DropList
  <1>3. CASE SaveOpen
    BY <1>3 DEF SaveOpen, FlushGoto
  <1>4. CASE SaveStart
    BY <1>4 DEF SaveStart
  <1>5. CASE SaveClose
    BY <1>5 DEF SaveClose
  <1>6. CASE SaveClear
    BY <1>6 DEF SaveClear
  <1>7. CASE Crash
    BY <1>7 DEF Crash
  <1>8. CASE UNCHANGED flush
    BY <1>8
  <1>. QED
    BY <1>1, <1>2, <1>3, <1>4, <1>5, <1>6, <1>7, <1>8
    DEF Next, vars, Tick, PushStart, ClaimStart, GetRead, GetDelete, GetDeleteDirty,
        SetStore, SetLog, SetDirty, LoadCache

(* The file is kept, emptied, or closed with the buffer in it. *)
LEMMA DiskSteps ==
    TypeOK /\ [Next]_vars
        => \/ disk' = disk
           \/ disk'.data = EmptyTable
           \/ disk' = [kind |-> "data", data |-> flush.buf]
  BY DEF Next, vars, TypeOK, Tick, PushStart, ClaimStart, DropOne, GetRead, Writable, GetDelete,
         GetDeleteDirty, SetStore, SetLog, SetDirty, SaveStart, DropList, SaveOpen, SaveDump,
         SaveClose, SaveClear, Crash, LoadCache

(* A table entry changes by a store, by a start, or it is removed: by the  *)
(* flush thread, by the event loop, or in a crash.                         *)
Removable(h) == h \in flush.victims \/ (loop.pc = "del" /\ loop.key = h) \/ Crash

Removed == \A h \in Hash : \/ cache'[h] = cache[h]
                           \/ cache'[h] = Absent /\ Removable(h)

LEMMA CacheSteps ==
    TypeOK /\ [Next]_vars
        => \/ SetStore
           \/ LoadCache
           \/ Removed
  <1> SUFFICES ASSUME TypeOK, [Next]_vars, ~SetStore, ~LoadCache
               PROVE Removed
    OBVIOUS
  <1>1. cache \in [Hash -> Entry]
    BY DEF TypeOK, Table
  <1>2. ASSUME NEW k \in Hash, DropOne(k)
        PROVE Removed
    BY <1>1, <1>2 DEF DropOne, Removable, Removed
  <1>3. CASE GetDelete
    BY <1>1, <1>3 DEF GetDelete, LoopAt, Removable, Removed
  <1>4. CASE Crash
    BY <1>4 DEF Crash, EmptyTable, Removable, Removed
  <1>5. CASE UNCHANGED cache
    BY <1>5 DEF Removed
  <1>. QED
    BY <1>2, <1>3, <1>4, <1>5
    DEF Next, vars, Tick, PushStart, ClaimStart, GetRead, GetDeleteDirty, SetLog, SetDirty,
        SaveStart, DropList, SaveOpen, SaveDump, SaveClose, SaveClear

(* The event loop takes a request, goes on with it, or is idle. *)
LEMMA LoopSteps ==
    TypeOK /\ [Next]_vars
        => \/ loop'.pc = "idle"
           \/ loop.pc # "idle" /\ loop'.key = loop.key /\ loop'.op = loop.op
           \/ \E k \in Hash : (PushStart(k) \/ ClaimStart(k)) /\ loop'.key = k
  BY DEF Next, vars, TypeOK, LoopType, LoopIdle, LoopAt, Goto, Tick, PushStart,
         ClaimStart, DropOne, GetRead, GetDelete, GetDeleteDirty, SetStore, SetLog, SetDirty,
         SaveStart, DropList, SaveOpen, SaveDump, SaveClose, SaveClear, Crash, LoadCache

(* A request is about to write the table: it was before, or it is a push   *)
(* of a hash the table does not hold, or it has just read the entry.       *)
Writing(pc) == pc \in {"store", "del", "delDirty"}

LEMMA WriterSteps ==
    TypeOK /\ [Next]_vars /\ Writing(loop'.pc)
        => \/ Writing(loop.pc) /\ loop'.key = loop.key
           \/ \E k \in Hash : PushStart(k) /\ loop'.key = k /\ ~Has(cache, k)
           \/ GetRead /\ loop'.key = loop.key /\ Has(cache, loop.key)
                /\ (Expired(cache[loop.key]) \/ cache[loop.key].status = "pending")
  BY DEF Next, vars, TypeOK, LoopType, LoopIdle, LoopAt, Goto, Writing, Tick, PushStart, ClaimStart, DropOne, GetRead, Writable, GetDelete,
         GetDeleteDirty, SetStore, SetLog, SetDirty, SaveStart, DropList, SaveOpen, SaveDump,
         SaveClose, SaveClear, Crash, LoadCache

(* A lease starts with a store, and only a crash forgets one. *)
LEMMA LeaseSteps ==
    TypeOK /\ [Next]_vars
        => \/ SetStore /\ loop.op = "claim"
                /\ lease' = [lease EXCEPT ![loop.key] = At(clock)]
           \/ lease' = lease
           \/ Crash
  BY DEF Next, vars, Tick, PushStart, ClaimStart, DropOne, GetRead, Writable, GetDelete,
         GetDeleteDirty, SetStore, SetLog, SetDirty, SaveStart, DropList, SaveOpen, SaveDump,
         SaveClose, SaveClear, Crash, LoadCache

(* Only a running process writes the file; a crash and a start leave it.   *)
LEMMA UpSteps ==
    TypeOK /\ [Next]_vars
        => \/ up' = up /\ (up # "up" => disk' = disk)
           \/ Crash /\ up' # "up" /\ disk' = disk
           \/ LoadCache /\ up # "up" /\ disk' = disk
  BY DEF Next, vars, LoopAt, FlushAt, Tick, PushStart, ClaimStart, DropOne, GetRead, Writable, GetDelete,
         GetDeleteDirty, SetStore, SetLog, SetDirty, SaveStart, DropList, SaveOpen, SaveDump,
         SaveClose, SaveClear, Crash, LoadCache

(* The first push of a hash stays, and time does not go back. *)
LEMMA BornKept ==
    TypeOK /\ [Next]_vars
        => /\ clock' \in Nat /\ clock' >= clock
           /\ \A h \in Hash : born[h].is => born'[h] = born[h]
  BY DEF Next, vars, TypeOK, Tick, PushStart, ClaimStart, DropOne, GetRead, Writable, GetDelete,
         GetDeleteDirty, SetStore, SetLog, SetDirty, SaveStart, DropList, SaveOpen, SaveDump,
         SaveClose, SaveClear, Crash, LoadCache

LEMMA BornSteps ==
    TypeOK /\ [Next]_vars
        => \A h \in Hash : born'[h] = born[h] \/ born'[h] = At(clock)
  BY DEF Next, vars, TypeOK, Tick, PushStart, ClaimStart, DropOne, GetRead, Writable, GetDelete,
         GetDeleteDirty, SetStore, SetLog, SetDirty, SaveStart, DropList, SaveOpen, SaveDump,
         SaveClose, SaveClear, Crash, LoadCache

(* Entries outlive their first push by TTL. *)
LEMMA BornStep ==
    TypeOK /\ BornInv /\ [Next]_vars => BornInv'
  <1> SUFFICES ASSUME TypeOK, BornInv, [Next]_vars PROVE BornInv'
    OBVIOUS
  <1>1. LivesLong(cache) /\ LivesLong(flush.buf) /\ LivesLong(disk.data)
    BY DEF BornInv
  <1>2. \A h \in Hash : born'[h].is => born'[h].at <= clock'
    BY BornSteps, BornKept DEF BornInv, TypeOK, At
  <1>3. LivesLong(flush.buf)'
    <2>1. CASE flush'.buf = flush.buf \/ flush'.buf = EmptyTable
      BY <2>1, <1>1, BornKept, EmptyIsAbsent DEF LivesLong
    <2>2. CASE SaveDump
      <3>1. flush'.buf = cache
        BY <2>2 DEF SaveDump, TypeOK, FlushType
      <3>. QED
        BY <3>1, <1>1, BornKept DEF LivesLong
    <2>. QED
      BY <2>1, <2>2, BufferSteps
  <1>4. LivesLong(disk.data)'
    BY <1>1, BornKept, DiskSteps, EmptyIsAbsent DEF LivesLong
  <1>5. LivesLong(cache)'
    <2>1. CASE SetStore
      <3> DEFINE k == loop.key
      <3>1. k \in Hash /\ born[k].is /\ born[k].at <= clock
        BY <2>1 DEF SetStore, Expiry, LoopAt, TypeOK, LoopType, BornInv
      <3>2. \A h \in Hash : h # k => cache'[h] = cache[h]
        BY <2>1 DEF SetStore, Expiry, TypeOK, Table
      <3>3. cache'[k].exp = clock + TTL /\ born' = born
        BY <2>1, <3>1 DEF SetStore, Expiry, TypeOK, Table
      <3>4. born[k].at \in Nat /\ clock \in Nat /\ TTL \in Nat
        BY <3>1, ConstantsAssumption DEF TypeOK
      <3>. QED
        BY <3>1, <3>2, <3>3, <3>4, <1>1 DEF LivesLong, Has
    <2>2. CASE LoadCache
      <3>1. \A h \in Hash : \/ cache'[h] = cache[h] \/ cache'[h] = disk.data[h]
                            \/ cache'[h] = Absent
        BY <2>2 DEF LoadCache
      <3>. QED
        BY <3>1, <1>1, BornKept DEF LivesLong, Has, Absent
    <2>3. CASE \A h \in Hash : cache'[h] = cache[h] \/ cache'[h] = Absent
      BY <2>3, <1>1, BornKept DEF LivesLong, Has, Absent
    <2>. QED
      BY <2>1, <2>2, <2>3, CacheSteps DEF Removed
  <1>6. loop'.pc # "idle" => born'[loop'.key].is
    <2>1. CASE loop.pc # "idle" /\ loop'.key = loop.key
      BY <2>1, BornKept DEF BornInv, TypeOK, LoopType
    <2>2. ASSUME NEW k \in Hash, PushStart(k) \/ ClaimStart(k), loop'.key = k
          PROVE loop'.pc # "idle" => born'[k].is
      BY <2>2, <1>1, BornKept
      DEF PushStart, ClaimStart, LivesLong, TypeOK, At, LoopIdle
    <2>. QED
      BY <2>1, <2>2, LoopSteps
  <1>. QED
    BY <1>2, <1>3, <1>4, <1>5, <1>6 DEF BornInv

(* What a save is about to drop can not be pushed again. *)
LEMMA VictimStep ==
    TypeOK /\ BornInv /\ VictimInv /\ [Next]_vars => VictimInv'
  <1> SUFFICES ASSUME TypeOK, BornInv, VictimInv, [Next]_vars,
                      NEW h \in flush'.victims
               PROVE WindowClosed(h)'
    BY DEF VictimInv
  <1>1. ASSUME h \in Hash, WindowClosed(h) PROVE WindowClosed(h)'
    BY <1>1, BornKept, ConstantsAssumption DEF WindowClosed, TypeOK
  <1>2. flush.victims \in SUBSET Hash
    BY DEF TypeOK, FlushType
  <1>3. CASE h \in flush.victims
    BY <1>1, <1>2, <1>3 DEF VictimInv
  <1>4. CASE h \in ExpiredKeys(cache)
    <2>1. h \in Hash /\ Has(cache, h) /\ cache[h].exp <= clock /\ cache[h].exp \in Nat
      BY <1>4 DEF ExpiredKeys, Keys, Expired, TypeOK, Table, Entry
    <2>2. born[h].is /\ cache[h].exp >= born[h].at + TTL
      BY <2>1 DEF BornInv, LivesLong
    <2>3. born[h].at \in Nat /\ clock \in Nat
      BY <2>1 DEF TypeOK
    <2>4. WindowClosed(h)
      BY <2>1, <2>2, <2>3, ConstantsAssumption, WindowAssumption DEF WindowClosed
    <2>. QED
      BY <2>1, <2>4, <1>1
  <1>5. flush'.victims = flush.victims \/ flush'.victims = {}
          \/ flush'.victims = ExpiredKeys(cache)
          \/ \E k \in Hash : flush'.victims = flush.victims \ {k}
    <2> USE DEF TypeOK, FlushType, FlushIdle
    <2>1. ASSUME NEW k \in Hash, DropOne(k)
          PROVE flush'.victims = {} \/ flush'.victims = flush.victims \ {k}
      BY <2>1 DEF DropOne
    <2>2. CASE DropList
      <3>1. CASE flush' = FlushIdle
        BY <3>1
      <3>2. CASE flush' = [FlushIdle EXCEPT !.pc = "drop", !.victims = ExpiredKeys(cache)]
        BY <3>2
      <3>. QED
        BY <2>2, <3>1, <3>2 DEF DropList
    <2>3. CASE SaveOpen
      BY <2>3 DEF SaveOpen, FlushGoto
    <2>4. CASE SaveStart
      BY <2>4 DEF SaveStart
    <2>5. CASE SaveDump
      BY <2>5 DEF SaveDump
    <2>6. CASE SaveClose
      BY <2>6 DEF SaveClose
    <2>7. CASE SaveClear \/ Crash
      BY <2>7 DEF SaveClear, Crash
    <2>8. CASE UNCHANGED flush
      BY <2>8
    <2>. QED
      BY <2>1, <2>2, <2>3, <2>4, <2>5, <2>6, <2>7, <2>8
      DEF Next, vars, Tick, PushStart, ClaimStart, GetRead, GetDelete, GetDeleteDirty,
          SetStore, SetLog, SetDirty, LoadCache
  <1>. QED
    BY <1>3, <1>4, <1>5

(* A table that holds only current leases does so after every step but a   *)
(* crash: a claim is stored only when no lease of the hash lasts.          *)
LEMMA RunKept ==
    ASSUME TypeOK, LeaseInv, [Next]_vars, ~Crash,
           NEW t, RunsLeased(t), \A h \in Hash : t[h].exp \in Nat
    PROVE  \A h \in Hash : (t[h].status = "running" /\ t[h].exp > clock')
                                => lease'[h].is /\ t[h].exp = lease'[h].at + TTL
  <1> SUFFICES ASSUME NEW h \in Hash, t[h].status = "running", t[h].exp > clock'
               PROVE lease'[h].is /\ t[h].exp = lease'[h].at + TTL
    OBVIOUS
  <1>1. t[h].exp > clock
    BY BornKept DEF TypeOK
  <1>2. lease[h].is /\ t[h].exp = lease[h].at + TTL
    BY <1>1 DEF RunsLeased
  <1>3. Leased(h)
    BY <1>1, <1>2 DEF Leased
  <1>4. ~(loop.key = h /\ loop.pc = "store")
    BY <1>3 DEF LeaseInv
  <1>5. lease'[h] = lease[h]
    BY <1>4, LeaseSteps DEF SetStore, Expiry, LoopAt, TypeOK
  <1>. QED
    BY <1>2, <1>5

LEMMA StoredEntry ==
    TypeOK /\ SetStore
        => /\ loop.key \in Hash
           /\ \A h \in Hash : h # loop.key => cache'[h] = cache[h] /\ lease'[h] = lease[h]
           /\ cache'[loop.key].exp = clock + TTL
           /\ loop.op = "push" => cache'[loop.key].status = "pending" /\ lease' = lease
           /\ loop.op # "push" => /\ cache'[loop.key].status = "running"
                                 /\ lease'[loop.key] = At(clock)
           /\ clock' = clock
  <1> SUFFICES ASSUME TypeOK, SetStore
               PROVE /\ loop.key \in Hash
                     /\ \A h \in Hash : h # loop.key => cache'[h] = cache[h] /\ lease'[h] = lease[h]
                     /\ cache'[loop.key].exp = clock + TTL
                     /\ loop.op = "push" => cache'[loop.key].status = "pending" /\ lease' = lease
                     /\ loop.op # "push" => /\ cache'[loop.key].status = "running"
                                           /\ lease'[loop.key] = At(clock)
                     /\ clock' = clock
    OBVIOUS
  <1>1. loop.key \in Hash /\ loop.op \in {"push", "claim"}
    BY DEF SetStore, Expiry, LoopAt, TypeOK, LoopType
  <1>2. /\ \A h \in Hash : h # loop.key => cache'[h] = cache[h]
        /\ cache'[loop.key].exp = clock + TTL
        /\ cache'[loop.key].status = IF loop.op = "push" THEN "pending" ELSE "running"
    BY <1>1 DEF SetStore, Expiry, TypeOK, Table
  <1>3. lease \in [Hash -> [at : Nat, is : BOOLEAN]]
    BY DEF TypeOK
  <1>. QED
    BY <1>1, <1>2, <1>3 DEF SetStore, Expiry

(* A live claimed entry is the current lease, in memory and in the file.   *)
LEMMA RunStep ==
    TypeOK /\ RunInv /\ LeaseInv /\ [Next]_vars => RunInv'
  <1> SUFFICES ASSUME TypeOK, RunInv, LeaseInv, [Next]_vars PROVE RunInv'
    OBVIOUS
  <1>1. RunsLeased(cache) /\ RunsLeased(flush.buf) /\ RunsLeased(disk.data)
    BY DEF RunInv
  <1>2. \A h \in Hash : /\ cache[h].exp \in Nat /\ flush.buf[h].exp \in Nat
                        /\ disk.data[h].exp \in Nat
    BY DEF TypeOK, FlushType, Table, Entry
  <1>3. disk'.kind # "data" => disk'.data = EmptyTable
    BY DiskSteps DEF RunInv
  <1>4. CASE Crash
    <2>1. /\ cache' = EmptyTable /\ disk' = disk /\ clock' = clock
          /\ \A h \in Hash : lease'[h] = IF OnDisk(h) THEN lease[h] ELSE Never
          /\ flush'.buf = EmptyTable
      BY <1>4 DEF Crash, FlushIdle
    <2>2. \A h \in Hash : disk.data[h].status = "running" => OnDisk(h)
      BY EmptyIsAbsent DEF RunInv, OnDisk
    <2>3. RunsLeased(disk.data)'
      BY <2>1, <2>2, <1>1 DEF RunsLeased
    <2>. QED
      BY <2>1, <2>3, <1>3, EmptyIsAbsent DEF RunInv, RunsLeased
  <1>5. CASE ~Crash
    <2>1. RunsLeased(disk.data)'
      <3>1. CASE disk' = disk
        BY <3>1, <1>1, <1>2, <1>5, RunKept DEF RunsLeased
      <3>2. CASE disk'.data = EmptyTable
        BY <3>2, EmptyIsAbsent DEF RunsLeased
      <3>3. CASE disk'.data = flush.buf
        BY <3>3, <1>1, <1>2, <1>5, RunKept DEF RunsLeased
      <3>. QED
        BY <3>1, <3>2, <3>3, DiskSteps
    <2>2. RunsLeased(flush.buf)'
      <3>1. CASE flush'.buf = flush.buf
        BY <3>1, <1>1, <1>2, <1>5, RunKept DEF RunsLeased
      <3>2. CASE flush'.buf = EmptyTable
        BY <3>2, EmptyIsAbsent DEF RunsLeased
      <3>3. CASE SaveDump
        <4>1. flush'.buf = cache
          BY <3>3 DEF SaveDump, TypeOK, FlushType
        <4>. QED
          BY <4>1, <1>1, <1>2, <1>5, RunKept DEF RunsLeased
      <3>. QED
        BY <3>1, <3>2, <3>3, BufferSteps
    <2>3. RunsLeased(cache)'
      <3>0. \A h \in Hash : (cache[h].status = "running" /\ cache[h].exp > clock')
                                => lease'[h].is /\ cache[h].exp = lease'[h].at + TTL
        BY <1>1, <1>2, <1>5, RunKept
      <3>1. CASE SetStore
        BY <3>0, <3>1, StoredEntry DEF RunsLeased, At
      <3>2. CASE LoadCache
        <4>1. \A h \in Hash : \/ cache'[h] = cache[h] \/ cache'[h] = disk.data[h]
                              \/ cache'[h] = Absent
          BY <3>2 DEF LoadCache
        <4>2. lease' = lease /\ clock' = clock
          BY <3>2 DEF LoadCache
        <4>. QED
          BY <4>1, <4>2, <1>1, EmptyIsAbsent DEF RunsLeased
      <3>3. CASE \A h \in Hash : cache'[h] = cache[h] \/ cache'[h] = Absent
        BY <3>0, <3>3, EmptyIsAbsent DEF RunsLeased
      <3>. QED
        BY <3>1, <3>2, <3>3, CacheSteps DEF Removed
    <2>. QED
      BY <2>1, <2>2, <2>3, <1>3 DEF RunInv
  <1>. QED
    BY <1>4, <1>5

(* While a lease lasts no request can store the hash again.                *)
LEMMA LeaseStep ==
    TypeOK /\ ClaimInv /\ [Next]_vars => LeaseInv'
  <1> SUFFICES ASSUME TypeOK, ClaimInv, [Next]_vars,
                      NEW h \in Hash, Leased(h)'
               PROVE /\ up' = "up" => Held(h)'
                     /\ up' # "up" => OnDisk(h)'
                     /\ loop'.key = h => ~Writing(loop'.pc)
    BY DEF LeaseInv, Writing
  <1>1. CASE SetStore /\ loop.op # "push" /\ loop.key = h
    <2>1. up' = "up" /\ loop'.pc = "log"
      BY <1>1 DEF SetStore, Expiry, LoopAt, Goto, TypeOK, LoopType
    <2>. QED
      BY <2>1, <1>1, StoredEntry DEF Held, Writing, At
  <1>2. CASE ~(SetStore /\ loop.op # "push" /\ loop.key = h)
    <2>1. Leased(h) /\ lease'[h] = lease[h]
      <3>1. lease'[h] = lease[h] \/ lease'[h] = Never
        BY <1>2, LeaseSteps DEF Crash, TypeOK
      <3>2. lease'[h] = lease[h]
        BY <3>1 DEF Leased, Never
      <3>3. lease[h].at \in Nat /\ clock \in Nat /\ TTL \in Nat
        BY ConstantsAssumption DEF TypeOK
      <3>. QED
        BY <3>2, <3>3, BornKept DEF Leased
    <2>2. /\ up = "up" => Held(h)
          /\ up # "up" => OnDisk(h)
          /\ loop.key = h => ~Writing(loop.pc)
      BY <2>1 DEF ClaimInv, LeaseInv, Writing
    <2>3. WindowClosed(h) => WindowClosed(h)'
      BY BornKept, ConstantsAssumption DEF WindowClosed, TypeOK
    <2>4. up' = "up" => Held(h)'
      <3> SUFFICES ASSUME up' = "up" PROVE Held(h)'
        OBVIOUS
      <3>1. CASE LoadCache
        <4>1. up # "up" /\ cache'[h] = IF Expired(disk.data[h]) THEN Absent ELSE disk.data[h]
          BY <3>1 DEF LoadCache
        <4>2. OnDisk(h)
          BY <4>1, <2>2
        <4>3. disk.data[h].exp \in Nat /\ clock \in Nat /\ born[h].at \in Nat
          BY DEF TypeOK, Table, Entry
        <4>4. CASE Expired(disk.data[h])
          <5>1. born[h].is /\ disk.data[h].exp >= born[h].at + TTL
            BY <4>2 DEF ClaimInv, BornInv, LivesLong, Has, OnDisk
          <5>2. WindowClosed(h)
            BY <5>1, <4>3, <4>4, ConstantsAssumption, WindowAssumption
            DEF WindowClosed, Expired
          <5>3. cache'[h] = Absent
            BY <4>1, <4>4
          <5>. QED
            BY <5>2, <5>3, <2>3, EmptyIsAbsent DEF Held, Has
        <4>5. CASE ~Expired(disk.data[h])
          <5>1. disk.data[h].status = "running" /\ disk.data[h].exp > clock
            BY <4>2, <4>3, <4>5 DEF OnDisk, Expired
          <5>2. disk.data[h].exp = lease[h].at + TTL
            BY <5>1 DEF ClaimInv, RunInv, RunsLeased
          <5>. QED
            BY <5>1, <5>2, <4>1, <4>5, <2>1 DEF Held
        <4>. QED
          BY <4>4, <4>5
      <3>2. CASE ~LoadCache
        <4>1. up = "up" /\ ~Crash
          BY <3>2, UpSteps DEF Crash
        <4>2. Held(h)
          BY <4>1, <2>2
        <4>3. CASE cache'[h] = cache[h]
          BY <4>2, <4>3, <2>1, <2>3 DEF Held, Has
        <4>4. CASE cache'[h] = Absent /\ Removable(h)
          <5>1. WindowClosed(h)
            BY <4>1, <4>4, <2>2 DEF Removable, Writing, ClaimInv, VictimInv
          <5>. QED
            BY <5>1, <4>4, <2>3, EmptyIsAbsent DEF Held, Has
        <4>5. CASE SetStore
          <5>1. loop.key # h
            BY <4>5, <2>2 DEF SetStore, Expiry, LoopAt, Writing
          <5>. QED
            BY <5>1, <4>5, <4>3, StoredEntry
        <4>. QED
          BY <4>3, <4>4, <4>5, <3>2, CacheSteps DEF Removed
      <3>. QED
        BY <3>1, <3>2
    <2>5. up' # "up" => OnDisk(h)'
      <3>1. CASE Crash
        <4>1. lease'[h] = (IF OnDisk(h) THEN lease[h] ELSE Never) /\ disk' = disk
          BY <3>1 DEF Crash
        <4>2. OnDisk(h)
          BY <4>1 DEF Leased, Never
        <4>. QED
          BY <4>1, <4>2 DEF OnDisk
      <3>2. CASE ~Crash
        BY <3>2, <2>2, UpSteps DEF OnDisk
      <3>. QED
        BY <3>1, <3>2
    <2>6. loop'.key = h => ~Writing(loop'.pc)
      <3> SUFFICES ASSUME loop'.key = h, Writing(loop'.pc) PROVE FALSE
        OBVIOUS
      <3>1. CASE Writing(loop.pc) /\ loop'.key = loop.key
        BY <3>1, <2>2
      <3>2. CASE \E k \in Hash : PushStart(k) /\ loop'.key = k /\ ~Has(cache, k)
        <4>1. PushStart(h) /\ ~Has(cache, h)
          BY <3>2
        <4>2. up = "up" /\ (born[h].is => clock <= born[h].at + PushWindow)
          BY <4>1 DEF PushStart, LoopAt
        <4>3. WindowClosed(h)
          BY <4>1, <4>2, <2>2 DEF Held, Has
        <4>4. born[h].at \in Nat /\ clock \in Nat
          BY DEF TypeOK
        <4>. QED
          BY <4>2, <4>3, <4>4, ConstantsAssumption DEF WindowClosed
      <3>3. CASE GetRead /\ loop'.key = loop.key /\ Has(cache, loop.key)
                   /\ (Expired(cache[loop.key]) \/ cache[loop.key].status = "pending")
        <4>1. up = "up" /\ loop.key = h
          BY <3>3 DEF GetRead, Writable, LoopAt
        <4>2. cache[h].status = "running" /\ cache[h].exp = lease[h].at + TTL
          BY <4>1, <3>3, <2>2 DEF Held
        <4>3. clock \in Nat /\ lease[h].at \in Nat
          BY DEF TypeOK
        <4>. QED
          BY <4>1, <4>2, <4>3, <3>3, <2>1, ConstantsAssumption DEF Leased, Expired
      <3>. QED
        BY <3>1, <3>2, <3>3, WriterSteps
    <2>. QED
      BY <2>4, <2>5, <2>6
  <1>. QED
    BY <1>1, <1>2

LEMMA ClaimInvInit == Init => ClaimInv
  <1> SUFFICES ASSUME Init PROVE ClaimInv
    OBVIOUS
  <1>1. /\ \A h \in Hash : ~born[h].is /\ ~lease[h].is
        /\ cache = EmptyTable /\ flush.buf = EmptyTable /\ disk.data = EmptyTable
        /\ flush.victims = {} /\ loop.pc = "idle"
    BY DEF Init, Never, FlushIdle, LoopIdle
  <1>. QED
    BY <1>1, EmptyIsAbsent
    DEF ClaimInv, BornInv, RunInv, RunsLeased, VictimInv, LeaseInv, Leased, LivesLong

LEMMA ClaimStep == TypeOK /\ ClaimInv /\ [Next]_vars => ClaimInv'
  BY BornStep, VictimStep, RunStep, LeaseStep DEF ClaimInv

(* In every behaviour of the node, two claims of one hash of which the     *)
(* first was not lost in a crash are at least TTL apart.                   *)
THEOREM ClaimsAreLeases == Spec => LeaseExclusive
<1>3. TypeOK /\ ClaimInv /\ [Next]_vars
        => [\A h \in Hash :
               /\ lease[h].is
               /\ lease'[h].is
               /\ lease'[h] # lease[h]
               => clock >= lease[h].at + TTL]_vars
  <2> SUFFICES ASSUME TypeOK, ClaimInv, [Next]_vars, NEW h \in Hash,
                      lease[h].is, lease'[h].is, lease'[h] # lease[h]
               PROVE clock >= lease[h].at + TTL
    OBVIOUS
  <2>1. SetStore /\ loop.key = h
    BY LeaseSteps DEF Crash, Never, TypeOK
  <2>2. ~Leased(h)
    BY <2>1 DEF SetStore, Expiry, LoopAt, ClaimInv, LeaseInv
  <2>. QED
    BY <2>2, ConstantsAssumption DEF Leased, TypeOK
<1>. QED
  BY ClaimInvInit, ClaimStep, <1>3, TypeCorrect, PTL DEF Spec, LeaseExclusive
-----------------------------------------------------------------------------
(* The table implements TaskLease. *)

Offering == {h \in Hash : OnOffer(h)}

(* A node that does not run has no table and no request. *)
Down == up # "up" => cache = EmptyTable /\ loop = LoopIdle

Leasing == TypeOK /\ ClaimInv /\ Down

LEMMA DownStep == TypeOK /\ Down /\ [Next]_vars => Down'
  <1> SUFFICES ASSUME TypeOK, Down, [Next]_vars, up' # "up"
               PROVE cache' = EmptyTable /\ loop' = LoopIdle
    BY DEF Down
  <1>1. CASE Crash
    BY <1>1 DEF Crash, LoopIdle
  <1>2. CASE LoadCache
    BY <1>2 DEF LoadCache, Down
  <1>3. CASE ~Crash /\ ~LoadCache
    BY <1>3
    DEF Next, vars, Down, LoopAt, FlushAt, Tick, PushStart, ClaimStart, DropOne, GetRead,
        GetDelete, GetDeleteDirty, SetStore, SetLog, SetDirty, SaveStart, DropList, SaveOpen,
        SaveDump, SaveClose, SaveClear
  <1>. QED
    BY <1>1, <1>2, <1>3

(* A hash for which a store is under way has no lease that lasts. *)
LEMMA StoresAreFree ==
    ASSUME Leasing, LoopAt("store")
    PROVE  loop.key \in Hash /\ loop.op \in {"push", "claim"} /\ ~Promise!Lasts(loop.key)
  <1>1. loop.key \in Hash /\ loop.op \in {"push", "claim"}
    BY DEF Leasing, TypeOK, LoopType, LoopAt
  <1>2. ~Leased(loop.key)
    BY <1>1 DEF Leasing, ClaimInv, LeaseInv, LoopAt
  <1>. QED
    BY <1>1, <1>2 DEF Leased, Promise!Lasts

(* Accesses that neither store nor remove an entry change no offer. *)
LEMMA OffersKept ==
    ASSUME TypeOK,
           \/ \E h \in Hash : PushStart(h) \/ ClaimStart(h)
           \/ GetRead \/ GetDeleteDirty \/ SetLog \/ SetDirty
           \/ UNCHANGED <<clock, cache, loop, lease>>
    PROVE  UNCHANGED Promise!vars
  <1> USE DEF TypeOK, LoopType
  <1>1. cache' = cache /\ clock' = clock /\ lease' = lease
    BY DEF PushStart, ClaimStart, GetRead, GetDeleteDirty, SetLog, SetDirty
  <1>2. ASSUME NEW k \in Hash PROVE OnOffer(k)' = OnOffer(k)
    <2>1. ASSUME NEW h \in Hash, PushStart(h) PROVE OnOffer(k)' = OnOffer(k)
      BY <1>1, <2>1 DEF PushStart, LoopAt, OnOffer, Expired
    <2>2. ASSUME NEW h \in Hash, ClaimStart(h) PROVE OnOffer(k)' = OnOffer(k)
      BY <1>1, <2>2 DEF ClaimStart, LoopAt, LoopIdle, OnOffer, Expired
    <2>3. CASE GetRead
      BY <1>1, <2>3 DEF GetRead, LoopAt, Goto, Writable, LoopIdle, OnOffer, Expired
    <2>4. CASE GetDeleteDirty
      BY <1>1, <2>4 DEF GetDeleteDirty, LoopAt, Goto, LoopIdle, OnOffer, Expired
    <2>5. CASE SetLog \/ SetDirty
      BY <1>1, <2>5 DEF SetLog, SetDirty, LoopAt, LoopIdle, Goto, OnOffer, Expired
    <2>6. CASE UNCHANGED <<clock, cache, loop, lease>>
      BY <2>6 DEF OnOffer, Expired
    <2>. QED
      BY <2>1, <2>2, <2>3, <2>4, <2>5, <2>6
  <1>3. Offering' = Offering
    BY <1>2 DEF Offering
  <1>. QED
    BY <1>1, <1>3 DEF Promise!vars, Offering

(* Time ends offers and begins none. *)
LEMMA TimeEndsOffers ==
    ASSUME TypeOK, Tick
    PROVE  Promise!Tick
  <1>1. cache' = cache /\ loop' = loop /\ lease' = lease /\ clock' = clock + 1
    BY DEF Tick
  <1>2. ASSUME NEW h \in Hash, OnOffer(h)' PROVE OnOffer(h)
    <2>1. cache[h].exp \in Nat /\ clock \in Nat
      BY DEF TypeOK, Table, Entry
    <2>. QED
      BY <1>1, <1>2, <2>1 DEF OnOffer, Expired
  <1>. QED
    BY <1>1, <1>2 DEF Promise!Tick

(* An entry removed by either thread takes its offer away, if it had one.  *)
LEMMA RemovalsWithdraw ==
    ASSUME TypeOK, NEW h \in Hash, DropOne(h) \/ (GetDelete /\ h = loop.key)
    PROVE  Promise!Withdraw(h) \/ UNCHANGED Promise!vars
  <1>1. clock' = clock /\ lease' = lease
    BY DEF DropOne, GetDelete
  <1>2. CASE cache' = cache
    <2>1. ASSUME NEW k \in Hash PROVE OnOffer(k)' = OnOffer(k)
      BY <1>1, <1>2 DEF DropOne, GetDelete, LoopAt, LoopIdle, Goto, OnOffer, Expired,
                        TypeOK, LoopType
    <2>. QED
      BY <1>1, <2>1 DEF Promise!vars
  <1>3. CASE cache' = [cache EXCEPT ![h] = Absent]
    <2>1. ASSUME NEW k \in Hash, k # h PROVE OnOffer(k)' = OnOffer(k)
      BY <1>1, <1>3, <2>1 DEF DropOne, GetDelete, LoopAt, LoopIdle, Goto, OnOffer, Expired,
                              TypeOK, LoopType, Table
    <2>2. OnOffer(h)' => OnOffer(h)
      BY <1>1, <1>3, EmptyIsAbsent
      DEF DropOne, GetDelete, LoopAt, LoopIdle, Goto, OnOffer, Expired, TypeOK, LoopType, Table
    <2>3. CASE OnOffer(h)'
      <3>1. Offering' = Offering
        BY <2>1, <2>2, <2>3 DEF Offering
      <3>. QED
        BY <1>1, <3>1 DEF Promise!vars, Offering
    <2>4. CASE ~OnOffer(h)'
      <3>1. Offering' = Offering \ {h}
        BY <2>1, <2>4 DEF Offering
      <3>. QED
        BY <1>1, <3>1 DEF Promise!Withdraw, Offering
    <2>. QED
      BY <2>3, <2>4
  <1>. QED
    BY <1>2, <1>3 DEF DropOne, GetDelete

(* A push offers a hash that nobody holds; a claim takes one on offer.     *)
LEMMA StoresOfferOrTake ==
    ASSUME Leasing, SetStore
    PROVE  Promise!Offer(loop.key) \/ Promise!Take(loop.key)
  <1>1. LoopAt("store") /\ TypeOK
    BY DEF SetStore, Leasing
  <1>2. PICK h \in Hash : h = loop.key /\ ~Promise!Lasts(h)
    BY <1>1, StoresAreFree
  <1>0. loop.op \in {"push", "claim"}
    BY <1>1, StoresAreFree
  <1>3. loop'.pc = "log" /\ clock' = clock /\ clock \in Nat
    BY <1>1 DEF SetStore, Goto, TypeOK, LoopType
  <1>4. ASSUME NEW k \in Hash, k # h PROVE OnOffer(k)' = OnOffer(k)
    BY <1>1, <1>2, <1>3, <1>4, StoredEntry DEF OnOffer, Expired, LoopAt
  <1>5. CASE loop.op = "push"
    <2>1. OnOffer(h)'
      BY <1>1, <1>2, <1>3, <1>5, StoredEntry, ConstantsAssumption DEF OnOffer, Expired
    <2>2. Offering' = Offering \cup {h}
      BY <1>2, <1>4, <2>1 DEF Offering
    <2>3. lease' = lease
      BY <1>1, <1>5, StoredEntry
    <2>. QED
      BY <1>2, <1>3, <2>2, <2>3 DEF Promise!Offer, Offering
  <1>6. CASE loop.op = "claim"
    <2>1. OnOffer(h)
      BY <1>1, <1>2, <1>6 DEF OnOffer, LoopAt
    <2>2. ~OnOffer(h)'
      BY <1>1, <1>2, <1>3, <1>6, StoredEntry DEF OnOffer
    <2>3. Offering' = Offering \ {h}
      BY <1>2, <1>4, <2>2 DEF Offering
    <2>4. lease' = [lease EXCEPT ![h] = [at |-> clock, is |-> TRUE]]
      BY <1>2, <1>6 DEF SetStore, At
    <2>. QED
      BY <1>2, <1>3, <2>1, <2>3, <2>4 DEF Promise!Take, Offering
  <1>. QED
    BY <1>0, <1>2, <1>5, <1>6

(* A crash withdraws everything and forgets what the file does not hold.   *)
LEMMA CrashForgets ==
    ASSUME TypeOK, Crash
    PROVE  \E forgotten \in SUBSET Hash : Promise!Crash(forgotten)
  <1> DEFINE F == {h \in Hash : ~OnDisk(h)}
  <1>1. Offering' = {}
    BY EmptyIsAbsent DEF Crash, Offering, OnOffer, LoopIdle
  <1>2. lease' = [h \in Hash |-> IF h \in F THEN Promise!Never ELSE lease[h]]
    BY DEF Crash, Never, Promise!Never
  <1>3. clock' = clock
    BY DEF Crash
  <1>4. Promise!Crash(F)
    BY <1>1, <1>2, <1>3 DEF Promise!Crash, Offering
  <1>. QED
    BY <1>4

(* The file brings no hash back whose lease lasts. *)
LEMMA StartsOfferFreeHashes ==
    ASSUME Leasing, LoadCache
    PROVE  Promise!Start \/ UNCHANGED Promise!vars
  <1>1. up # "up" /\ cache = EmptyTable /\ loop = LoopIdle /\ loop' = loop
    BY DEF LoadCache, Leasing, Down
  <1>2. clock' = clock /\ lease' = lease
    BY DEF LoadCache
  <1>3. Offering = {}
    BY <1>1, EmptyIsAbsent DEF Offering, OnOffer, LoopIdle
  <1>4. ASSUME NEW h \in Hash, OnOffer(h)' PROVE ~Promise!Lasts(h)
    <2>1. loop'.pc = "idle"
      BY <1>1 DEF LoopIdle
    <2>2. cache'[h].status = "pending"
      BY <1>4, <2>1 DEF OnOffer
    <2>3. cache'[h] = disk.data[h]
      BY <1>1, <2>2, EmptyIsAbsent DEF LoadCache
    <2>4. ~OnDisk(h)
      BY <2>2, <2>3 DEF OnDisk
    <2>. QED
      BY <1>1, <2>4 DEF Leasing, ClaimInv, LeaseInv, Leased, Promise!Lasts
  <1>5. Offering' \in SUBSET {h \in Hash : ~Promise!Lasts(h)}
    BY <1>4 DEF Offering
  <1>. QED
    BY <1>2, <1>3, <1>5 DEF Promise!Start, Offering

(* In every behaviour of the node, however the event loop, the flush       *)
(* thread, crashes and starts interleave, the table keeps the promise of   *)
(* TaskLease: what a claim takes was offered by a push, is not offered     *)
(* again while the claim lasts, and only a crash ends a claim early.       *)
THEOREM LeasesAreKept == Spec => KeepsLeases
<1>1. Init => Promise!Init
  BY EmptyIsAbsent DEF Init, Promise!Init, OnOffer, LoopIdle, Never, Promise!Never
<1>2. Leasing /\ [Next]_vars => [Promise!Next]_(Promise!vars)
  <2> SUFFICES ASSUME Leasing, [Next]_vars
               PROVE Promise!Next \/ UNCHANGED Promise!vars
    OBVIOUS
  <2> USE DEF Leasing
  <2>1. CASE Tick
    BY <2>1, TimeEndsOffers DEF Promise!Next
  <2>2. ASSUME NEW h \in Hash, DropOne(h)
        PROVE Promise!Next \/ UNCHANGED Promise!vars
    BY <2>2, RemovalsWithdraw DEF Promise!Next
  <2>3. CASE GetDelete
    <3>1. loop.key \in Hash
      BY <2>3 DEF GetDelete, LoopAt, TypeOK, LoopType
    <3>. QED
      BY <2>3, <3>1, RemovalsWithdraw DEF Promise!Next
  <2>4. CASE SetStore
    <3>1. loop.key \in Hash
      BY <2>4, StoresAreFree DEF SetStore
    <3>. QED
      BY <2>4, <3>1, StoresOfferOrTake DEF Promise!Next
  <2>5. CASE Crash
    BY <2>5, CrashForgets DEF Promise!Next
  <2>6. CASE LoadCache
    BY <2>6, StartsOfferFreeHashes DEF Promise!Next
  <2>7. CASE \/ \E h \in Hash : PushStart(h) \/ ClaimStart(h)
             \/ GetRead \/ GetDeleteDirty \/ SetLog \/ SetDirty
             \/ UNCHANGED <<clock, cache, loop, lease>>
    BY <2>7, OffersKept
  <2>. QED
    BY <2>1, <2>2, <2>3, <2>4, <2>5, <2>6, <2>7
    DEF Next, vars, SaveStart, DropList, SaveOpen, SaveDump, SaveClose, SaveClear
<1>3. Spec => []Leasing
  <2>1. Init => ClaimInv /\ Down
    BY ClaimInvInit DEF Init, Down
  <2>2. TypeOK /\ (ClaimInv /\ Down) /\ [Next]_vars => (ClaimInv /\ Down)'
    BY ClaimStep, DownStep
  <2>. QED
    BY <2>1, <2>2, TypeCorrect, PTL DEF Spec, Leasing
<1>. QED
  BY <1>1, <1>2, <1>3, PTL DEF Spec, KeepsLeases, Promise!Spec
=============================================================================
