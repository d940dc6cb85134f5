--------------------------- MODULE KeyCacheProofs ---------------------------
(***************************************************************************)
(* Proofs about KeyCache.  MtimeVouchesForKey is not inductive by itself:  *)
(* the keys that enter the cache were read by a call some steps earlier,   *)
(* so the invariant says what each call knows at each of its steps.        *)
(***************************************************************************)
EXTENDS KeyCache, TLAPS

(* The mtime m of f vouches for v: either f has a later mtime by now, or   *)
(* it held v at that time.                                                 *)
Vouch(f, m, v) ==
    /\ m <= file[f].mtime
    /\ m = file[f].mtime => Held(f, m, v)

(* A key of rotation n or a later one, or one found missing in a later one. *)
Fresh(v, n) == v >= n \/ (v = Nothing /\ rotation.num > n)

(* A key that the mtime m does not tell from one of rotation n or later.   *)
Masked(f, m, v, n) ==
    /\ Held(f, m, v)
    /\ \E w \in 1 .. rotation.num : w >= n /\ Held(f, m, w)

Recent(f, m, v, n) == Fresh(v, n) \/ Masked(f, m, v, n)

(* The files whose mtime, and whose content, call c has read. *)
Statted(c) ==
    CASE call[c].pc = "statPub" -> {"priv"}
      [] call[c].pc \in {"compare", "readPriv", "readPub", "store"} -> File
      [] OTHER -> {}

Seen(c) ==
    CASE call[c].pc = "readPub" -> {"priv"}
      [] call[c].pc = "store" -> File
      [] OTHER -> {}

(* The mtime of a file is the time of its last change, and what it held at *)
(* that time does not hide the last rotation that is complete.             *)
TimeInv ==
    \A f \in File :
        /\ file[f].mtime <= clock
        /\ file[f] \in past[f]
        /\ Fresh(file[f].content, Done)
        /\ \A s \in past[f] :
              /\ s.mtime <= file[f].mtime
              /\ s.mtime = file[f].mtime => Recent(f, s.mtime, s.content, Done)

(* The rotation writes the public file first. *)
OrderInv ==
    /\ rotation.pc # "idle" => rotation.num > 0
    /\ rotation.pc \in {"openPriv", "writePriv"} => file["pub"].content = rotation.num

FileInv == TimeInv /\ OrderInv

CacheInv ==
    cache.is => \A f \in File : Vouch(f, cache.mtime[f], cache.key[f])

CallInv(c) ==
    /\ since[c] <= Done
    /\ \A f \in Statted(c) :
          /\ call[c].mtime[f] <= file[f].mtime
          /\ (cache.is /\ cache.mtime[f] = call[c].mtime[f])
                => Recent(f, call[c].mtime[f], cache.key[f], since[c])
    /\ \A f \in Seen(c) :
          /\ Vouch(f, call[c].mtime[f], call[c].key[f])
          /\ Fresh(call[c].key[f], since[c])
    /\ call[c].pc = "returned" =>
          \A f \in File : Recent(f, call[c].mtime[f], call[c].key[f], since[c])

KeyInv ==
    /\ FileInv
    /\ CacheInv
    /\ \A c \in Caller : CallInv(c)

-----------------------------------------------------------------------------
(* What a step of the rotation, and a step of one caller, may change. *)

LEMMA RotateStep ==
    ASSUME TypeOK, Rotate
    PROVE /\ UNCHANGED <<clock, lock, cache, call, since>>
          /\ rotation' \in [num : Nat, pc : {"idle", "writePub", "openPriv", "writePriv"}]
          /\ rotation'.num >= rotation.num
          /\ \E f \in File, v \in Nat : Change(f, v)
  <1>1. rotation.num \in Nat /\ 0 \in Nat /\ {"pub", "priv"} \subseteq File
    BY DEF TypeOK, File
  <1>2. \A f, v : Change(f, v) => UNCHANGED <<clock, lock, cache, call, since>>
    BY DEF Change
  <1>3. ASSUME NEW f \in File, NEW v \in Nat, NEW from,
               NEW to \in {"idle", "openPriv", "writePriv"}, WriteFile(f, v, from, to)
        PROVE  /\ Change(f, v)
               /\ rotation' \in [num : Nat, pc : {"idle", "writePub", "openPriv", "writePriv"}]
               /\ rotation'.num >= rotation.num
    <2>1. Change(f, v) /\ rotation' = [rotation EXCEPT !.pc = to]
      BY <1>3 DEF WriteFile
    <2>2. rotation \in [num : Nat, pc : {"idle", "writePub", "openPriv", "writePriv"}]
      BY DEF TypeOK
    <2>. QED
      BY <1>1, <2>1, <2>2
  <1>4. CASE RotateStart
    <2>1. Change("pub", 0)
      BY <1>4 DEF RotateStart, Nothing
    <2>2. /\ rotation' \in [num : Nat, pc : {"idle", "writePub", "openPriv", "writePriv"}]
          /\ rotation'.num >= rotation.num
      BY <1>1, <1>4 DEF RotateStart
    <2>. QED
      BY <1>1, <1>2, <2>1, <2>2
  <1>5. CASE RotateWritePub
    BY <1>1, <1>2, <1>3, <1>5 DEF RotateWritePub
  <1>6. CASE RotateOpenPriv
    BY <1>1, <1>2, <1>3, <1>6 DEF RotateOpenPriv, Nothing
  <1>7. CASE RotateWritePriv
    BY <1>1, <1>2, <1>3, <1>7 DEF RotateWritePriv
  <1>. QED
    BY <1>4, <1>5, <1>6, <1>7 DEF Rotate

LEMMA CallStep ==
    ASSUME TypeOK, NEW c \in Caller, CallStart(c) \/ Lock(c) \/ InLock(c)
    PROVE /\ UNCHANGED <<file, clock, rotation, past>>
          /\ \A d \in Caller \ {c} : call'[d] = call[d] /\ since'[d] = since[d]
          /\ cache' = cache \/ Store(c)
  <1>. USE DEF TypeOK, Goto, Step
  <1>1. CASE CallStart(c)
    BY <1>1 DEF CallStart
  <1>2. CASE Lock(c)
    BY <1>2 DEF Lock
  <1>3. CASE StatPriv(c)
    BY <1>3 DEF StatPriv, Leave
  <1>4. CASE StatPub(c)
    BY <1>4 DEF StatPub, Leave
  <1>5. CASE Compare(c)
    BY <1>5 DEF Compare
  <1>6. CASE ReadPriv(c)
    BY <1>6 DEF ReadPriv, ReadFile
  <1>7. CASE ReadPub(c)
    BY <1>7 DEF ReadPub, ReadFile
  <1>8. CASE Store(c)
    BY <1>8 DEF Store
  <1>. QED
    BY <1>1, <1>2, <1>3, <1>4, <1>5, <1>6, <1>7, <1>8 DEF InLock

LEMMA GotoCall ==
    ASSUME TypeOK, NEW c \in Caller, NEW pc, NEW m, NEW k, Goto(c, pc, m, k)
    PROVE  call'[c].pc = pc /\ call'[c].mtime = m /\ call'[c].key = k
  BY DEF TypeOK, Goto

-----------------------------------------------------------------------------
(* Type correctness *)

LEMMA TypeRotate ==
    ASSUME TypeOK, Rotate
    PROVE  TypeOK'
  <1>1. PICK f \in File, v \in Nat : Change(f, v)
    BY RotateStep
  <1>2. [mtime |-> clock, content |-> v] \in [mtime : Nat, content : Nat]
    BY DEF TypeOK
  <1>3. file' \in [File -> [mtime : Nat, content : Nat]]
    BY <1>1, <1>2 DEF TypeOK, Change
  <1>4. past' \in [File -> SUBSET [mtime : Nat, content : Nat]]
    BY <1>1, <1>2 DEF TypeOK, Change
  <1>. QED
    BY <1>3, <1>4, RotateStep DEF TypeOK

LEMMA DoneNat ==
    ASSUME TypeOK, FileInv
    PROVE  Done \in Nat
  BY DEF TypeOK, FileInv, OrderInv, Done

(* The record of a call. *)
Call == [pc : CallPc, mtime : [File -> Nat], key : [File -> Nat]]

Outside == {"idle", "wait", "returned", "failed"}

LEMMA TypeCall ==
    ASSUME TypeOK, FileInv, NEW c \in Caller, CallStart(c) \/ Lock(c) \/ InLock(c)
    PROVE  TypeOK'
  <1>1. \A f \in File : file[f].mtime \in Nat /\ file[f].content \in Nat
    BY DEF TypeOK
  <1>2. call[c] \in Call
    BY DEF TypeOK, Call
  <1>3. call'[c] \in Call /\ call' = [call EXCEPT ![c] = call'[c]]
    <2>. USE <1>1, <1>2 DEF Call, CallPc, Goto, Step, Zero
    <2>1. CASE CallStart(c)
      BY <2>1 DEF CallStart, TypeOK
    <2>2. CASE Lock(c)
      BY <2>2 DEF Lock, TypeOK
    <2>3. CASE StatPriv(c)
      BY <2>3 DEF StatPriv, Leave, TypeOK, File
    <2>4. CASE StatPub(c)
      BY <2>4 DEF StatPub, Leave, TypeOK, File
    <2>5. CASE Compare(c)
      BY <2>5 DEF Compare, TypeOK
    <2>6. CASE ReadPriv(c)
      BY <2>6 DEF ReadPriv, ReadFile, TypeOK
    <2>7. CASE ReadPub(c)
      BY <2>7 DEF ReadPub, ReadFile, TypeOK
    <2>8. CASE Store(c)
      BY <2>8 DEF Store, TypeOK
    <2>. QED
      BY <2>1, <2>2, <2>3, <2>4, <2>5, <2>6, <2>7, <2>8 DEF InLock
  <1>4. since' = since \/ since' = [since EXCEPT ![c] = Done]
    BY DEF CallStart, Lock, InLock, StatPriv, StatPub, Compare, ReadPriv, ReadPub, ReadFile,
           Store, Leave
  <1>5. since' \in [Caller -> Nat]
    BY <1>4, DoneNat DEF TypeOK
  <1>6. cache' \in [is : BOOLEAN, mtime : [File -> Nat], key : [File -> Nat]]
    <2>1. CASE Store(c)
      BY <2>1, <1>2 DEF Store, Call
    <2>. QED
      BY <2>1, CallStep DEF TypeOK
  <1>7. \/ lock = c /\ lock' = NoOne /\ call'[c].pc \in Outside
        \/ lock \in {c, NoOne} /\ lock' = c /\ call'[c].pc \notin Outside
        \/ lock # c /\ lock' = lock /\ call'[c].pc \in Outside
    <2>0. /\ lock = c <=> call[c].pc \notin Outside
          /\ \A pc, m, k : Goto(c, pc, m, k) => call'[c].pc = pc
      BY GotoCall DEF TypeOK, Outside
    <2>. USE <2>0, CallerAssumption DEF Outside, Step, At
    <2>1. CASE CallStart(c)
      BY <2>1 DEF CallStart
    <2>2. CASE Lock(c)
      BY <2>2 DEF Lock
    <2>3. CASE StatPriv(c)
      BY <2>3 DEF StatPriv, Leave
    <2>4. CASE StatPub(c)
      BY <2>4 DEF StatPub, Leave
    <2>5. CASE Compare(c)
      BY <2>5 DEF Compare
    <2>6. CASE ReadPriv(c)
      BY <2>6 DEF ReadPriv, ReadFile
    <2>7. CASE ReadPub(c)
      BY <2>7 DEF ReadPub, ReadFile
    <2>8. CASE Store(c)
      BY <2>8 DEF Store
    <2>. QED
      BY <2>1, <2>2, <2>3, <2>4, <2>5, <2>6, <2>7, <2>8 DEF InLock
  <1>8. \A d \in Caller : call[d].pc \notin Outside <=> lock = d
    BY DEF TypeOK, Outside
  <1>9. /\ lock' \in Caller \cup {NoOne}
        /\ \A d \in Caller : call'[d].pc \notin Outside <=> lock' = d
    BY <1>7, <1>8, CallStep, CallerAssumption DEF TypeOK
  <1>. QED
    BY <1>3, <1>5, <1>6, <1>9, CallStep DEF TypeOK, Call, Outside

-----------------------------------------------------------------------------
(* The files *)

(* A change of a file: its new mtime is the latest time, and what it holds *)
(* and held stays in its past.                                             *)
LEMMA ChangeStep ==
    ASSUME TypeOK, FileInv, NEW f \in File, NEW v \in Nat, Change(f, v)
    PROVE  /\ file'[f] = [mtime |-> clock, content |-> v]
           /\ past'[f] = past[f] \cup {file'[f]}
           /\ \A g \in File \ {f} : file'[g] = file[g] /\ past'[g] = past[g]
           /\ \A g \in File : /\ file[g].mtime <= file'[g].mtime
                              /\ past[g] \subseteq past'[g]
           /\ clock' = clock
  <1>1. /\ file'[f] = [mtime |-> clock, content |-> v]
        /\ past'[f] = past[f] \cup {file'[f]}
        /\ \A g \in File \ {f} : file'[g] = file[g] /\ past'[g] = past[g]
    BY DEF Change, TypeOK
  <1>2. \A g \in File : file[g].mtime <= clock /\ file[g].mtime \in Nat
    BY DEF FileInv, TimeInv, TypeOK
  <1>. QED
    BY <1>1, <1>2 DEF Change

(* What was recent stays recent: the rotations go on, the past grows. *)
LEMMA RecentKept ==
    ASSUME TypeOK, FileInv, Rotate, NEW f \in File, NEW m \in Nat, NEW v \in Nat,
           NEW n \in Nat
    PROVE  /\ Held(f, m, v) => Held(f, m, v)'
           /\ Fresh(v, n) => Fresh(v, n)'
           /\ Recent(f, m, v, n) => Recent(f, m, v, n)'
  <1>1. PICK g \in File, u \in Nat : Change(g, u)
    BY RotateStep
  <1>2. \A w : Held(f, m, w) => Held(f, m, w)'
    BY <1>1, ChangeStep DEF Held
  <1>3. rotation.num \in Nat /\ rotation'.num \in Nat /\ rotation'.num >= rotation.num
    BY RotateStep DEF TypeOK
  <1>4. Fresh(v, n) => Fresh(v, n)'
    BY <1>3 DEF Fresh
  <1>5. Masked(f, m, v, n) => Masked(f, m, v, n)'
    <2>1. 1 .. rotation.num \subseteq 1 .. rotation'.num
      BY <1>3
    <2>. QED
      BY <1>2, <2>1 DEF Masked
  <1>. QED
    BY <1>2, <1>4, <1>5 DEF Recent

(* A change in the middle of a rotation. *)
LEMMA TimeStep ==
    ASSUME TypeOK, FileInv, Rotate, NEW f \in File, NEW v \in Nat, Change(f, v),
           Done' = Done, Fresh(v, Done)'
    PROVE  TimeInv'
  <1>1. SUFFICES ASSUME NEW g \in File
                 PROVE  /\ file'[g].mtime <= clock'
                        /\ file'[g] \in past'[g]
                        /\ Fresh(file[g].content, Done)'
                        /\ \A s \in past'[g] :
                              /\ s.mtime <= file'[g].mtime
                              /\ s.mtime = file'[g].mtime
                                    => Recent(g, s.mtime, s.content, Done)'
    BY DEF TimeInv
  <1>2. /\ clock \in Nat /\ Done \in Nat
        /\ file[g].mtime \in Nat /\ file[g].content \in Nat
        /\ \A s \in past[g] : s.mtime \in Nat /\ s.content \in Nat
    BY DoneNat DEF TypeOK
  <1>3. /\ file[g].mtime <= clock /\ file[g] \in past[g]
        /\ Fresh(file[g].content, Done)
        /\ \A s \in past[g] :
              /\ s.mtime <= file[g].mtime
              /\ s.mtime = file[g].mtime => Recent(g, s.mtime, s.content, Done)
    BY DEF FileInv, TimeInv
  <1>4. g # f => Fresh(file[g].content, Done)'
    <2>1. rotation'.num \in Nat /\ rotation'.num >= rotation.num
      BY RotateStep
    <2>2. g # f => file'[g] = file[g]
      BY ChangeStep
    <2>. QED
      BY <1>2, <1>3, <2>1, <2>2 DEF Fresh, TypeOK
  <1>5. \A s \in past[g] : s.mtime = file[g].mtime => Recent(g, s.mtime, s.content, Done)'
    <2>1. \A m, u, n \in Nat : Recent(g, m, u, n) => Recent(g, m, u, n)'
      BY RecentKept
    <2>2. PICK n \in Nat : n = Done
      BY <1>2
    <2>3. \A m, u \in Nat : Recent(g, m, u, Done) => Recent(g, m, u, n)'
      BY <2>1, <2>2
    <2>4. \A m, u \in Nat : Recent(g, m, u, n)' <=> Recent(g, m, u, Done)'
      BY <2>2 DEF Recent, Fresh, Masked
    <2>. QED
      BY <1>2, <1>3, <2>3, <2>4
  <1>6. CASE g # f
    <2>1. file'[g] = file[g] /\ past'[g] = past[g] /\ clock' = clock
      BY <1>6, ChangeStep
    <2>. QED
      BY <1>3, <1>4, <1>5, <1>6, <2>1
  <1>7. CASE g = f
    <2>1. /\ file'[g] = [mtime |-> clock, content |-> v] /\ clock' = clock
          /\ past'[g] = past[g] \cup {file'[g]}
      BY <1>7, ChangeStep
    <2>2. \A s \in past[g] : s.mtime <= clock /\ (s.mtime = clock => s.mtime = file[g].mtime)
      BY <1>2, <1>3
    <2>3. Fresh(v, Done)' /\ Fresh(file[g].content, Done)'
      BY <2>1 DEF Fresh
    <2>4. \A m : Recent(g, m, v, Done)'
      BY <2>3 DEF Recent
    <2>5. file'[g].mtime = clock /\ file'[g].content = v /\ file'[g] \in past'[g]
      BY <2>1
    <2>6. ASSUME NEW s \in past'[g]
          PROVE  /\ s.mtime <= file'[g].mtime
                 /\ s.mtime = file'[g].mtime => Recent(g, s.mtime, s.content, Done)'
      <3>1. CASE s \in past[g]
        BY <1>5, <2>2, <2>5, <3>1
      <3>2. CASE s = file'[g]
        <4>1. s.mtime = clock /\ s.content = v
          BY <2>5, <3>2
        <4>2. Recent(g, s.mtime, v, Done)'
          BY <2>4
        <4>. QED
          BY <1>2, <2>5, <4>1, <4>2
      <3>. QED
        BY <2>1, <3>1, <3>2
    <2>. QED
      BY <1>2, <2>1, <2>3, <2>5, <2>6
  <1>. QED
    BY <1>6, <1>7

LEMMA FileStep ==
    ASSUME TypeOK, FileInv, Rotate
    PROVE  FileInv' /\ Done <= Done'
  <1>1. /\ rotation.num \in Nat /\ Done \in Nat /\ "pub" \in File /\ "priv" \in File
        /\ \A f \in File : file[f].mtime \in Nat /\ file[f].content \in Nat
    BY DoneNat DEF TypeOK, File
  <1>2. CASE RotateStart
    <2>1. /\ Change("pub", 0) /\ Done' = Done
          /\ rotation'.pc = "writePub" /\ rotation'.num > 0 /\ rotation'.num > Done
      BY <1>1, <1>2 DEF RotateStart, Nothing, Done
    <2>2. Fresh(0, Done)'
      BY <2>1 DEF Fresh, Nothing
    <2>. QED
      BY <1>1, <2>1, <2>2, TimeStep DEF FileInv, OrderInv
  <1>3. CASE RotateWritePub
    <2>1. /\ Change("pub", rotation.num) /\ Done' = Done /\ Done <= rotation.num
          /\ rotation'.pc = "openPriv" /\ rotation'.num = rotation.num
          /\ rotation.num > 0
      BY <1>1, <1>3 DEF RotateWritePub, WriteFile, Done, FileInv, OrderInv, TypeOK
    <2>2. Fresh(rotation.num, Done)'
      BY <1>1, <2>1 DEF Fresh
    <2>3. file'["pub"].content = rotation.num
      <3>1. file'["pub"] = [mtime |-> clock, content |-> rotation.num]
        BY <1>1, <2>1, ChangeStep
      <3>. QED
        BY <3>1
    <2>. QED
      BY <1>1, <2>1, <2>2, <2>3, TimeStep DEF FileInv, OrderInv
  <1>4. CASE RotateOpenPriv
    <2>1. /\ Change("priv", 0) /\ Done' = Done /\ rotation.num > Done
          /\ rotation'.pc = "writePriv" /\ rotation'.num = rotation.num
          /\ rotation.num > 0 /\ file["pub"].content = rotation.num
      BY <1>1, <1>4 DEF RotateOpenPriv, WriteFile, Nothing, Done, FileInv, OrderInv, TypeOK
    <2>2. Fresh(0, Done)'
      BY <2>1 DEF Fresh, Nothing
    <2>3. file'["pub"] = file["pub"]
      BY <1>1, <2>1, ChangeStep
    <2>. QED
      BY <1>1, <2>1, <2>2, <2>3, TimeStep DEF FileInv, OrderInv
  <1>5. CASE RotateWritePriv
    <2>1. /\ Change("priv", rotation.num) /\ Done' = rotation.num /\ Done <= rotation.num
          /\ rotation'.pc = "idle" /\ rotation'.num = rotation.num
          /\ rotation.num > 0 /\ file["pub"].content = rotation.num
      BY <1>1, <1>5 DEF RotateWritePriv, WriteFile, Done, FileInv, OrderInv, TypeOK
    <2>2. /\ clock' = clock
          /\ file'["priv"] = [mtime |-> clock, content |-> rotation.num]
          /\ past'["priv"] = past["priv"] \cup {file'["priv"]}
          /\ file'["pub"] = file["pub"] /\ past'["pub"] = past["pub"]
      BY <1>1, <2>1, ChangeStep DEF File
    <2>3. \A f \in File :
             /\ file[f].mtime <= clock /\ file[f] \in past[f]
             /\ \A s \in past[f] : s.mtime <= file[f].mtime /\ s.mtime \in Nat
      BY DEF FileInv, TimeInv, TypeOK
    <2>4. clock \in Nat /\ file'["priv"].mtime = clock
      BY <2>2 DEF TypeOK
    <2>5. ASSUME NEW f \in File
          PROVE  /\ file'[f].mtime <= clock' /\ file'[f] \in past'[f]
                 /\ file'[f].content = rotation.num
                 /\ \A s \in past'[f] : s.mtime <= file'[f].mtime
      <3>1. CASE f = "pub"
        BY <2>1, <2>2, <2>3, <3>1
      <3>2. CASE f = "priv"
        BY <1>1, <2>2, <2>3, <2>4, <3>2
      <3>. QED
        BY <3>1, <3>2 DEF File
    <2>6. ASSUME NEW f \in File, NEW s \in past'[f], s.mtime = file'[f].mtime
          PROVE  Recent(f, s.mtime, s.content, Done)'
      <3>1. /\ past'[f] \subseteq [mtime : Nat, content : Nat]
            /\ file'[f] \in [mtime : Nat, content : Nat]
        BY TypeRotate DEF TypeOK
      <3>2. /\ s = [mtime |-> s.mtime, content |-> s.content]
            /\ file'[f] = [mtime |-> file'[f].mtime, content |-> file'[f].content]
        BY <3>1
      <3>3. PICK n \in Nat : n = rotation.num
        BY <1>1
      <3>4. Held(f, s.mtime, s.content)' /\ Held(f, s.mtime, n)'
        BY <2>5, <2>6, <3>2, <3>3 DEF Held
      <3>5. n \in 1 .. rotation'.num /\ n >= Done'
        BY <2>1, <3>3
      <3>. QED
        BY <3>4, <3>5 DEF Recent, Masked
    <2>8. \A f \in File : Fresh(file[f].content, Done)'
      BY <1>1, <2>1, <2>5 DEF Fresh
    <2>9. TimeInv'
      BY <2>5, <2>6, <2>8 DEF TimeInv
    <2>. QED
      BY <2>1, <2>9 DEF FileInv, OrderInv
  <1>. QED
    BY <1>2, <1>3, <1>4, <1>5 DEF Rotate

(* What vouched once vouches for ever: the mtime of a file does not go     *)
(* back, and its past is not forgotten.                                    *)
LEMMA VouchKept ==
    ASSUME TypeOK, FileInv, Rotate, NEW f \in File, NEW m \in Nat, NEW v \in Nat,
           Vouch(f, m, v)
    PROVE  Vouch(f, m, v)'
  <1>1. file[f].mtime <= file'[f].mtime
    BY RotateStep, ChangeStep
  <1>2. file[f].mtime \in Nat /\ file'[f].mtime \in Nat
    BY TypeRotate DEF TypeOK
  <1>3. Held(f, m, v) => Held(f, m, v)'
    BY RecentKept
  <1>. QED
    BY <1>1, <1>2, <1>3 DEF Vouch

LEMMA KeyRotate ==
    ASSUME TypeOK, KeyInv, Rotate
    PROVE  KeyInv'
  <1>1. FileInv' /\ Done <= Done' /\ Done \in Nat /\ Done' \in Nat
    <2>1. FileInv' /\ Done <= Done' /\ Done \in Nat
      BY FileStep, DoneNat DEF KeyInv
    <2>2. Done' \in Nat
      BY <2>1, TypeRotate DEF FileInv, TypeOK, Done
    <2>. QED
      BY <2>1, <2>2
  <1>2. UNCHANGED <<cache, call, since>>
    BY RotateStep
  <1>3. CacheInv'
    <2>1. \A f \in File : cache.mtime[f] \in Nat /\ cache.key[f] \in Nat
      BY DEF TypeOK
    <2>2. cache.is => \A f \in File : Vouch(f, cache.mtime[f], cache.key[f])'
      BY <1>2, <2>1, VouchKept DEF KeyInv, CacheInv
    <2>. QED
      BY <1>2, <2>2 DEF CacheInv
  <1>4. ASSUME NEW c \in Caller
        PROVE  CallInv(c)'
    <2>1. Statted(c)' = Statted(c) /\ Seen(c)' = Seen(c)
      BY <1>2 DEF Statted, Seen
    <2>2. since[c] <= Done'
      BY <1>1 DEF KeyInv, CallInv, TypeOK
    <2>3. Statted(c) \subseteq File /\ Seen(c) \subseteq File
      BY DEF Statted, Seen, File
    <2>4. \A f \in File : /\ call[c].mtime[f] \in Nat /\ call[c].key[f] \in Nat
                          /\ cache.key[f] \in Nat /\ file[f].mtime \in Nat
                          /\ file'[f].mtime \in Nat
      BY TypeRotate DEF TypeOK
    <2>5. \A f \in Statted(c) : call[c].mtime[f] <= file'[f].mtime
      <3>1. \A f \in File : file[f].mtime <= file'[f].mtime
        BY RotateStep, ChangeStep DEF KeyInv
      <3>2. \A f \in Statted(c) : call[c].mtime[f] <= file[f].mtime
        BY DEF KeyInv, CallInv
      <3>. QED
        BY <2>3, <2>4, <3>1, <3>2
    <2>6. \A f \in Seen(c) : Vouch(f, call[c].mtime[f], call[c].key[f])'
      <3>1. \A f \in Seen(c) : Vouch(f, call[c].mtime[f], call[c].key[f])
        BY DEF KeyInv, CallInv
      <3>2. \A f \in File, m, v \in Nat : Vouch(f, m, v) => Vouch(f, m, v)'
        BY VouchKept DEF KeyInv
      <3>. QED
        BY <1>2, <2>3, <2>4, <3>1, <3>2 DEF Vouch
    <2>7. PICK n \in Nat : n = since[c] /\ n = since'[c]
      BY <1>2 DEF TypeOK
    <2>8. \A f \in File, m, v \in Nat : /\ Fresh(v, n) => Fresh(v, n)'
                                        /\ Recent(f, m, v, n) => Recent(f, m, v, n)'
      BY RecentKept DEF KeyInv
    <2>9. \A f \in Seen(c) : Fresh(call[c].key[f], since[c])'
      <3>1. \A f \in Seen(c) : Fresh(call[c].key[f], n)
        BY <2>7 DEF KeyInv, CallInv
      <3>. QED
        BY <1>2, <2>3, <2>4, <2>7, <2>8, <3>1 DEF Fresh
    <2>10. \A f \in File : /\ Recent(f, call[c].mtime[f], cache.key[f], n)
                               => Recent(f, call[c].mtime[f], cache.key[f], since[c])'
                           /\ Recent(f, call[c].mtime[f], call[c].key[f], n)
                               => Recent(f, call[c].mtime[f], call[c].key[f], since[c])'
      <3>1. ASSUME NEW f \in File
            PROVE  /\ Recent(f, call[c].mtime[f], cache.key[f], n)
                         => Recent(f, call[c].mtime[f], cache.key[f], since[c])'
                   /\ Recent(f, call[c].mtime[f], call[c].key[f], n)
                         => Recent(f, call[c].mtime[f], call[c].key[f], since[c])'
        <4>1. PICK m \in Nat, v \in Nat, w \in Nat :
                 /\ m = call[c].mtime[f] /\ m = call'[c].mtime[f]
                 /\ v = cache.key[f] /\ v = cache'.key[f]
                 /\ w = call[c].key[f] /\ w = call'[c].key[f]
          BY <1>2, <2>4
        <4>2. /\ Recent(f, m, v, n) => Recent(f, m, v, n)'
              /\ Recent(f, m, w, n) => Recent(f, m, w, n)'
          BY <2>8
        <4>3. /\ Recent(f, m, v, n)' <=> Recent(f, call[c].mtime[f], cache.key[f], since[c])'
              /\ Recent(f, m, w, n)' <=> Recent(f, call[c].mtime[f], call[c].key[f], since[c])'
          BY <2>7, <4>1 DEF Recent, Fresh, Masked, Held
        <4>. QED
          BY <4>1, <4>2, <4>3
      <3>. QED
        BY <3>1
    <2>. QED
      BY <1>2, <2>1, <2>2, <2>3, <2>5, <2>6, <2>7, <2>9, <2>10 DEF KeyInv, CallInv
  <1>. QED
    BY <1>1, <1>3, <1>4 DEF KeyInv

(* Time passes. *)
LEMMA KeyTick ==
    ASSUME TypeOK, KeyInv, Tick
    PROVE  TypeOK' /\ KeyInv'
  <1>1. /\ UNCHANGED <<file, rotation, lock, cache, call, since, past>>
        /\ clock \in Nat /\ clock' \in Nat /\ clock <= clock'
        /\ \A f \in File : file[f].mtime \in Nat
    BY DEF Tick, TypeOK
  <1>2. TypeOK'
    BY <1>1 DEF TypeOK
  <1>3. /\ Done' = Done
        /\ \A f, m, v, n : /\ Fresh(v, n)' = Fresh(v, n)
                           /\ Vouch(f, m, v)' = Vouch(f, m, v)
                           /\ Recent(f, m, v, n)' = Recent(f, m, v, n)
    BY <1>1 DEF Done, Fresh, Vouch, Recent, Masked, Held
  <1>4. TimeInv'
    BY <1>1, <1>3 DEF KeyInv, FileInv, TimeInv
  <1>5. OrderInv' /\ CacheInv'
    BY <1>1, <1>3 DEF KeyInv, FileInv, OrderInv, CacheInv
  <1>6. \A c \in Caller : CallInv(c)'
    BY <1>1, <1>3 DEF KeyInv, CallInv, Statted, Seen
  <1>. QED
    BY <1>2, <1>4, <1>5, <1>6 DEF KeyInv, FileInv

(* What is recent with respect to one rotation is recent with respect to   *)
(* an earlier one.                                                         *)
LEMMA RecentEarlier ==
    ASSUME TypeOK, NEW f \in File, NEW m \in Nat, NEW v \in Nat, NEW n \in Nat,
           NEW k \in Nat, k <= n
    PROVE  /\ Fresh(v, n) => Fresh(v, k)
           /\ Recent(f, m, v, n) => Recent(f, m, v, k)
  <1>1. rotation.num \in Nat
    BY DEF TypeOK
  <1>2. Fresh(v, n) => Fresh(v, k)
    BY <1>1 DEF Fresh
  <1>3. Masked(f, m, v, n) => Masked(f, m, v, k)
    BY <1>1 DEF Masked
  <1>. QED
    BY <1>2, <1>3 DEF Recent

(* An mtime read now names a key that is recent, if it is the cached one. *)
LEMMA Current ==
    ASSUME TypeOK, KeyInv, NEW c \in Caller, NEW f \in File
    PROVE  /\ since[c] <= Done
           /\ Fresh(file[f].content, since[c])
           /\ (cache.is /\ cache.mtime[f] = file[f].mtime)
                 => Recent(f, file[f].mtime, cache.key[f], since[c])
  <1>1. Fresh(file[f].content, Done) /\ since[c] <= Done
    BY DEF KeyInv, FileInv, TimeInv, CallInv
  <1>2. /\ Done \in Nat /\ since[c] \in Nat /\ cache.key[f] \in Nat
        /\ file[f].content \in Nat /\ file[f].mtime \in Nat
    BY DoneNat DEF KeyInv, TypeOK
  <1>3. Fresh(file[f].content, since[c])
    BY <1>1, <1>2, RecentEarlier
  <1>4. ASSUME cache.is, cache.mtime[f] = file[f].mtime
        PROVE  Recent(f, file[f].mtime, cache.key[f], since[c])
    <2>1. Held(f, file[f].mtime, cache.key[f])
      BY <1>4 DEF KeyInv, CacheInv, Vouch
    <2>2. \A s \in past[f] : s.mtime = file[f].mtime => Recent(f, s.mtime, s.content, Done)
      BY DEF KeyInv, FileInv, TimeInv
    <2>3. Recent(f, file[f].mtime, cache.key[f], Done)
      BY <2>1, <2>2 DEF Held
    <2>. QED
      BY <1>1, <1>2, <2>3, RecentEarlier
  <1>. QED
    BY <1>1, <1>3, <1>4

LEMMA KeyCaller ==
    ASSUME TypeOK, KeyInv, NEW c \in Caller, CallStart(c) \/ Lock(c) \/ InLock(c)
    PROVE  CallInv(c)'
  <1>1. /\ UNCHANGED <<file, past>> /\ Done' = Done
        /\ \A f, m, v, n : /\ Fresh(v, n)' = Fresh(v, n)
                           /\ Vouch(f, m, v)' = Vouch(f, m, v)
                           /\ Recent(f, m, v, n)' = Recent(f, m, v, n)
    BY CallStep DEF Done, Fresh, Vouch, Recent, Masked, Held
  <1>2. \A f \in File : /\ file[f].mtime \in Nat /\ file[f] \in past[f]
                        /\ file[f] = [mtime |-> file[f].mtime, content |-> file[f].content]
                        /\ (cache.is /\ cache.mtime[f] = file[f].mtime)
                              => Recent(f, file[f].mtime, cache.key[f], since[c])
    BY Current DEF KeyInv, FileInv, TimeInv, TypeOK
  <1>3. CallInv(c) /\ since[c] <= Done /\ since[c] \in Nat /\ Done \in Nat
    BY DoneNat DEF KeyInv, CallInv, TypeOK
  <1>4. \A f \in File : /\ Fresh(file[f].content, since[c])
                        /\ \A m : m <= file[f].mtime => Vouch(f, m, file[f].content)
    BY <1>2, Current DEF Vouch, Held
  <1>5. call[c] \in Call
    BY DEF TypeOK, Call
  <1>6. CASE CallStart(c)
    <2>1. call'[c].pc = "wait" /\ since'[c] = Done
      BY <1>6, GotoCall DEF CallStart, TypeOK
    <2>. QED
      BY <1>1, <1>3, <2>1 DEF CallInv, Statted, Seen
  <1>7. CASE Lock(c)
    <2>1. call'[c].pc = "statPriv" /\ since' = since
      BY <1>7, GotoCall DEF Lock, Step
    <2>. QED
      BY <1>1, <1>3, <2>1 DEF CallInv, Statted, Seen
  <1>8. CASE StatPriv(c)
    <2>1. CASE call'[c].pc = "failed"
      BY <1>1, <1>3, <1>8, <2>1 DEF CallInv, Statted, Seen, StatPriv, Leave
    <2>2. CASE call'[c].pc # "failed"
      <3>1. /\ call'[c].pc = "statPub"
            /\ call'[c].mtime = [call[c].mtime EXCEPT !["priv"] = file["priv"].mtime]
            /\ UNCHANGED <<since, cache>>
        BY <1>8, <2>2, GotoCall DEF StatPriv, Leave, Step
      <3>2. call'[c].mtime["priv"] = file["priv"].mtime
        BY <1>5, <3>1 DEF Call, File
      <3>. QED
        BY <1>1, <1>2, <1>3, <3>1, <3>2 DEF CallInv, Statted, Seen, File
    <2>. QED
      BY <2>1, <2>2
  <1>9. CASE StatPub(c)
    <2>1. CASE call'[c].pc = "failed"
      BY <1>1, <1>3, <1>9, <2>1 DEF CallInv, Statted, Seen, StatPub, Leave
    <2>2. CASE call'[c].pc # "failed"
      <3>1. /\ call'[c].pc = "compare"
            /\ call'[c].mtime = [call[c].mtime EXCEPT !["pub"] = file["pub"].mtime]
            /\ UNCHANGED <<since, cache>>
        BY <1>9, <2>2, GotoCall DEF StatPub, Leave, Step
      <3>2. /\ call'[c].mtime["pub"] = file["pub"].mtime
            /\ call'[c].mtime["priv"] = call[c].mtime["priv"]
        BY <1>5, <3>1 DEF Call, File
      <3>3. "priv" \in Statted(c)
        BY <1>9 DEF StatPub, At, Statted
      <3>. QED
        BY <1>1, <1>2, <1>3, <3>1, <3>2, <3>3 DEF CallInv, Statted, Seen, File
    <2>. QED
      BY <2>1, <2>2
  <1>10. CASE Compare(c)
    <2>1. Statted(c) = File
      BY <1>10 DEF Compare, At, Statted
    <2>2. CASE Hit(c)
      <3>1. /\ call'[c].pc = "returned" /\ call'[c].key = cache.key
            /\ call'[c].mtime = call[c].mtime
            /\ UNCHANGED <<since, cache>>
        BY <1>10, <2>2, GotoCall DEF Compare
      <3>2. \A f \in File : Recent(f, call[c].mtime[f], cache.key[f], since[c])
        BY <1>3, <2>1, <2>2 DEF Hit, CallInv
      <3>. QED
        BY <1>1, <1>3, <3>1, <3>2 DEF CallInv, Statted, Seen
    <2>3. CASE ~Hit(c)
      <3>1. /\ call'[c].pc = "readPriv" /\ call'[c].mtime = call[c].mtime
            /\ UNCHANGED <<since, cache>>
        BY <1>10, <2>3, GotoCall DEF Compare, Step
      <3>. QED
        BY <1>1, <1>3, <2>1, <3>1 DEF CallInv, Statted, Seen
    <2>. QED
      BY <2>2, <2>3
  <1>11. CASE ReadPriv(c)
    <2>1. /\ call'[c].pc = "readPub" /\ call'[c].mtime = call[c].mtime
          /\ call'[c].key = [call[c].key EXCEPT !["priv"] = file["priv"].content]
          /\ UNCHANGED <<since, cache>>
      BY <1>11, GotoCall DEF ReadPriv, ReadFile
    <2>2. call'[c].key["priv"] = file["priv"].content
      BY <1>5, <2>1 DEF Call, File
    <2>3. Statted(c) = File /\ Statted(c)' = File /\ Seen(c)' = {"priv"}
      BY <1>11, <2>1 DEF ReadPriv, ReadFile, At, Statted, Seen
    <2>. QED
      BY <1>1, <1>3, <1>4, <2>1, <2>2, <2>3 DEF CallInv, File
  <1>12. CASE ReadPub(c)
    <2>1. /\ call'[c].pc = "store" /\ call'[c].mtime = call[c].mtime
          /\ call'[c].key = [call[c].key EXCEPT !["pub"] = file["pub"].content]
          /\ UNCHANGED <<since, cache>>
      BY <1>12, GotoCall DEF ReadPub, ReadFile
    <2>2. /\ call'[c].key["pub"] = file["pub"].content
          /\ call'[c].key["priv"] = call[c].key["priv"]
      BY <1>5, <2>1 DEF Call, File
    <2>3. /\ Statted(c) = File /\ Statted(c)' = File
          /\ Seen(c)' = File /\ Seen(c) = {"priv"}
      BY <1>12, <2>1 DEF ReadPub, ReadFile, At, Statted, Seen
    <2>. QED
      BY <1>1, <1>3, <1>4, <2>1, <2>2, <2>3 DEF CallInv, File
  <1>13. CASE Store(c)
    <2>1. /\ call'[c].pc = "returned" /\ call'[c].key = call[c].key
          /\ UNCHANGED since
      BY <1>13, GotoCall DEF Store, Step
    <2>2. Seen(c) = File
      BY <1>13 DEF Store, At, Seen
    <2>. QED
      BY <1>1, <1>3, <2>1, <2>2 DEF CallInv, Statted, Seen, Recent
  <1>. QED
    BY <1>6, <1>7, <1>8, <1>9, <1>10, <1>11, <1>12, <1>13 DEF InLock

LEMMA KeyCall ==
    ASSUME TypeOK, KeyInv, NEW c \in Caller, CallStart(c) \/ Lock(c) \/ InLock(c)
    PROVE  KeyInv'
  <1>1. /\ UNCHANGED <<file, clock, rotation, past>>
        /\ \A d \in Caller \ {c} : call'[d] = call[d] /\ since'[d] = since[d]
        /\ cache' = cache \/ Store(c)
    BY CallStep
  <1>2. /\ Done' = Done
        /\ \A f, m, v, n : /\ Fresh(v, n)' = Fresh(v, n)
                           /\ Vouch(f, m, v)' = Vouch(f, m, v)
                           /\ Recent(f, m, v, n)' = Recent(f, m, v, n)
    BY <1>1 DEF Done, Fresh, Vouch, Recent, Masked, Held
  <1>3. FileInv'
    BY <1>1, <1>2 DEF KeyInv, FileInv, TimeInv, OrderInv
  <1>4. CacheInv'
    <2>1. CASE Store(c)
      <3>1. Seen(c) = File
        BY <2>1 DEF Store, At, Seen
      <3>2. \A f \in File : Vouch(f, call[c].mtime[f], call[c].key[f])
        BY <3>1 DEF KeyInv, CallInv
      <3>. QED
        BY <1>2, <2>1, <3>2 DEF Store, CacheInv
    <2>. QED
      BY <1>1, <1>2, <2>1 DEF KeyInv, CacheInv
  <1>5. ASSUME NEW d \in Caller \ {c}
        PROVE  CallInv(d)'
    <2>1. Store(c) => Statted(d) = {}
      BY DEF Store, At, Statted, TypeOK
    <2>2. Statted(d)' = Statted(d) /\ Seen(d)' = Seen(d)
      BY <1>1 DEF Statted, Seen
    <2>. QED
      BY <1>1, <1>2, <2>1, <2>2 DEF KeyInv, CallInv
  <1>6. CallInv(c)'
    BY KeyCaller
  <1>. QED
    BY <1>3, <1>4, <1>5, <1>6 DEF KeyInv

-----------------------------------------------------------------------------
(* Theorems *)

LEMMA KeyStart == Init => TypeOK /\ KeyInv
  <1> SUFFICES ASSUME Init
               PROVE  TypeOK /\ KeyInv
    OBVIOUS
  <1>1. PICK n \in {0, 1} :
           /\ file = [f \in File |-> [mtime |-> n, content |-> n]]
           /\ rotation = [num |-> n, pc |-> "idle"]
    BY DEF Init
  <1>2. TypeOK
    BY <1>1, CallerAssumption DEF Init, TypeOK, CallPc, NoCache, Zero
  <1>3. FileInv
    BY <1>1 DEF Init, FileInv, TimeInv, OrderInv, Recent, Fresh, Done
  <1>4. CacheInv /\ \A c \in Caller : CallInv(c)
    BY <1>1 DEF Init, CacheInv, NoCache, CallInv, Statted, Seen, Done
  <1>. QED
    BY <1>2, <1>3, <1>4 DEF KeyInv

LEMMA KeyNext == TypeOK /\ KeyInv /\ [Next]_vars => TypeOK' /\ KeyInv'
  <1> SUFFICES ASSUME TypeOK, KeyInv, [Next]_vars
               PROVE  TypeOK' /\ KeyInv'
    OBVIOUS
  <1>1. CASE Tick
    BY <1>1, KeyTick
  <1>2. CASE Rotate
    BY <1>2, TypeRotate, KeyRotate DEF KeyInv
  <1>3. CASE \E c \in Caller : CallStart(c) \/ Lock(c) \/ InLock(c)
    BY <1>3, TypeCall, KeyCall DEF KeyInv
  <1>4. CASE UNCHANGED vars
    <2>1. /\ UNCHANGED <<file, clock, rotation, lock, cache, call, since, past>>
          /\ Done' = Done
          /\ \A f, m, v, n : /\ Fresh(v, n)' = Fresh(v, n)
                             /\ Vouch(f, m, v)' = Vouch(f, m, v)
                             /\ Recent(f, m, v, n)' = Recent(f, m, v, n)
      BY <1>4 DEF vars, Done, Fresh, Vouch, Recent, Masked, Held
    <2>2. TypeOK' /\ OrderInv' /\ TimeInv' /\ CacheInv'
      BY <2>1 DEF TypeOK, KeyInv, FileInv, OrderInv, TimeInv, CacheInv
    <2>3. \A c \in Caller : CallInv(c)'
      BY <2>1 DEF KeyInv, CallInv, Statted, Seen
    <2>. QED
      BY <2>2, <2>3 DEF KeyInv, FileInv
  <1>. QED
    BY <1>1, <1>2, <1>3, <1>4 DEF Next

(* Every variable of the key cache has its type, and the lock is held by   *)
(* exactly the call of get_encryptor that is inside the critical section.  *)
THEOREM TypeCorrect == Spec => []TypeOK
  BY KeyStart, KeyNext, PTL DEF Spec

(* A key that is cached under the mtime its file has now was held by that  *)
(* file at that time, for any number of callers and rotations and however  *)
(* coarse the mtimes are.                                                  *)
THEOREM MtimesVouch == Spec => []MtimeVouchesForKey
  <1>1. KeyInv => MtimeVouchesForKey
    BY DEF KeyInv, CacheInv, Vouch, MtimeVouchesForKey
  <1>. QED
    BY <1>1, KeyStart, KeyNext, PTL DEF Spec

(* get_encryptor never returns a key older than the last rotation that was *)
(* complete when it was called, nor an encryptor without a key unless a    *)
(* later rotation has begun, except for a key that the file held at the    *)
(* very time (as the mtimes tell it) at which it also held a recent one.   *)
THEOREM RotationsAreSeen == Spec => []RotationVisible
  <1>1. KeyInv => RotationVisible
    BY DEF KeyInv, CallInv, Recent, Fresh, Masked, RotationVisible
  <1>. QED
    BY <1>1, KeyStart, KeyNext, PTL DEF Spec
=============================================================================
