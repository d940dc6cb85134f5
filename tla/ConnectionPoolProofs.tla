------------------------ MODULE ConnectionPoolProofs ------------------------
(***************************************************************************)
(* Proofs about ConnectionPool, for any number of callers, channels and    *)
(* retries.                                                                *)
(***************************************************************************)
EXTENDS ConnectionPool, SequenceTheorems, FiniteSetTheorems, TLAPS

-----------------------------------------------------------------------------
(* Lines: sequences without repetition. *)

LEMMA AppendLine ==
    ASSUME NEW S, NEW s \in Seq(S), NEW e \in S
    PROVE  /\ Append(s, e) \in Seq(S)
           /\ Len(Append(s, e)) = Len(s) + 1
           /\ ToSet(Append(s, e)) = ToSet(s) \cup {e}
           /\ IsInjective(s) /\ e \notin ToSet(s) => IsInjective(Append(s, e))
  <1> DEFINE t == Append(s, e)
  <1>1. /\ t \in Seq(S) /\ Len(t) = Len(s) + 1 /\ Len(s) \in Nat
        /\ \A i \in 1..Len(s) : t[i] = s[i]
        /\ t[Len(s) + 1] = e
        /\ DOMAIN t = 1..Len(t) /\ DOMAIN s = 1..Len(s)
    BY AppendProperties, LenProperties
  <1> HIDE DEF t
  <1>2. DOMAIN t = (1..Len(s)) \cup {Len(s) + 1} /\ Len(s) + 1 \notin 1..Len(s)
    BY <1>1
  <1>3. ToSet(t) = ToSet(s) \cup {e}
    BY <1>1, <1>2 DEF ToSet
  <1>4. IsInjective(s) /\ e \notin ToSet(s) => IsInjective(t)
    BY <1>1, <1>2 DEF ToSet, IsInjective
  <1>. QED
    BY <1>1, <1>3, <1>4 DEF t

LEMMA RemoveLine ==
    ASSUME NEW S, NEW s \in Seq(S), NEW i \in 1..Len(s)
    PROVE  /\ RemoveAt(s, i) \in Seq(S)
           /\ Len(RemoveAt(s, i)) = Len(s) - 1
           /\ IsInjective(s) =>
                 /\ IsInjective(RemoveAt(s, i))
                 /\ ToSet(RemoveAt(s, i)) = ToSet(s) \ {s[i]}
  <1> DEFINE a == SubSeq(s, 1, i - 1)
             b == SubSeq(s, i + 1, Len(s))
             t == RemoveAt(s, i)
  <1>1. Len(s) \in Nat /\ DOMAIN s = 1..Len(s) /\ i \in Nat /\ 1 <= i /\ i <= Len(s)
    BY LenProperties
  <1>2. \A j \in 1..Len(s) : s[j] \in S
    BY LenProperties
  <1>3. a \in Seq(S) /\ Len(a) = i - 1 /\ \A j \in 1..(i - 1) : a[j] = s[j]
    BY <1>1, <1>2, SubSeqProperties
  <1>4. b \in Seq(S) /\ Len(b) = Len(s) - i /\ \A j \in 1..(Len(s) - i) : b[j] = s[i + j]
    <2>1. i + 1 \in Int /\ Len(s) \in Int /\ \A j \in (i + 1)..Len(s) : s[j] \in S
      BY <1>1, <1>2
    <2>2. /\ b \in Seq(S)
          /\ Len(b) = IF i + 1 <= Len(s) THEN Len(s) - (i + 1) + 1 ELSE 0
          /\ \A j \in 1..(Len(s) - (i + 1) + 1) : b[j] = s[i + 1 + j - 1]
      BY <2>1, SubSeqProperties
    <2>3. Len(s) - (i + 1) + 1 = Len(s) - i
      BY <1>1
    <2>4. \A j \in 1..(Len(s) - i) : i + 1 + j - 1 = i + j
      BY <1>1
    <2>. HIDE DEF b
    <2>5. Len(b) = Len(s) - i
      <3>1. ASSUME NEW n \in Nat, i <= n
            PROVE  i + 1 <= n \/ n - i = 0
        BY <1>1, <3>1
      <3>2. i + 1 <= Len(s) => Len(b) = Len(s) - i
        BY <2>2, <2>3
      <3>3. ~(i + 1 <= Len(s)) => Len(b) = 0
        BY <2>2
      <3>. QED
        BY <1>1, <3>1, <3>2, <3>3
    <2>6. ASSUME NEW j \in 1..(Len(s) - i)
          PROVE  b[j] = s[i + j]
      <3>1. b[j] = s[i + 1 + j - 1]
        BY <2>2, <2>3
      <3>. QED
        BY <2>4, <3>1
    <2>. QED
      BY <2>2, <2>5, <2>6
  <1>5. t = a \o b
    BY DEF RemoveAt
  <1> HIDE DEF a, b, t
  <1>6. t \in Seq(S) /\ Len(t) = Len(s) - 1 /\ DOMAIN t = 1..(Len(s) - 1)
    <2>1. t \in Seq(S) /\ Len(t) = Len(a) + Len(b)
      BY <1>3, <1>4, <1>5, ConcatProperties
    <2>2. Len(t) = Len(s) - 1
      BY <1>1, <1>3, <1>4, <2>1
    <2>. QED
      BY <2>1, <2>2, LenProperties
  <1>7. ASSUME NEW j \in 1..(Len(s) - 1)
        PROVE  t[j] = IF j < i THEN s[j] ELSE s[j + 1]
    <2>1. j \in 1..(Len(a) + Len(b))
      BY <1>1, <1>3, <1>4
    <2>2. t[j] = IF j <= Len(a) THEN a[j] ELSE b[j - Len(a)]
      BY <1>3, <1>4, <1>5, <2>1, ConcatProperties
    <2>3. CASE j < i
      <3>1. j \in 1..(i - 1) /\ j <= Len(a)
        BY <1>1, <1>3, <2>3
      <3>. QED
        BY <1>3, <2>2, <2>3, <3>1
    <2>4. CASE ~(j < i)
      <3>1. /\ j - (i - 1) \in 1..(Len(s) - i) /\ ~(j <= Len(a))
            /\ i + (j - (i - 1)) = j + 1 /\ j - Len(a) = j - (i - 1)
        BY <1>1, <1>3, <2>4
      <3>. QED
        BY <1>4, <2>2, <2>4, <3>1
    <2>. QED
      BY <2>3, <2>4
  <1>8. ASSUME IsInjective(s)
        PROVE  IsInjective(t)
    <2>1. ASSUME NEW j \in 1..(Len(s) - 1), NEW k \in 1..(Len(s) - 1), t[j] = t[k]
          PROVE  j = k
      <3>1. /\ t[j] = IF j < i THEN s[j] ELSE s[j + 1]
            /\ t[k] = IF k < i THEN s[k] ELSE s[k + 1]
        BY <1>7
      <3>2. /\ j \in 1..Len(s) /\ j + 1 \in 1..Len(s)
            /\ k \in 1..Len(s) /\ k + 1 \in 1..Len(s)
        BY <1>1
      <3>3. \A x, y \in 1..Len(s) : s[x] = s[y] => x = y
        BY <1>1, <1>8 DEF IsInjective
      <3>4. CASE j < i /\ k < i
        BY <2>1, <3>1, <3>2, <3>3, <3>4
      <3>5. CASE ~(j < i) /\ ~(k < i)
        <4>1. j + 1 = k + 1
          BY <2>1, <3>1, <3>2, <3>3, <3>5
        <4>. QED
          BY <1>1, <4>1
      <3>6. CASE j < i /\ ~(k < i)
        <4>1. j = k + 1
          BY <2>1, <3>1, <3>2, <3>3, <3>6
        <4>. QED
          BY <1>1, <3>6, <4>1
      <3>7. CASE ~(j < i) /\ k < i
        <4>1. j + 1 = k
          BY <2>1, <3>1, <3>2, <3>3, <3>7
        <4>. QED
          BY <1>1, <3>7, <4>1
      <3>. QED
        BY <3>4, <3>5, <3>6, <3>7
    <2>. QED
      BY <1>6, <2>1 DEF IsInjective
  <1>9. ASSUME IsInjective(s)
        PROVE  ToSet(t) = ToSet(s) \ {s[i]}
    <2>1. ASSUME NEW j \in 1..(Len(s) - 1)
          PROVE  t[j] \in ToSet(s) /\ t[j] # s[i]
      <3>1. \A x, y \in 1..Len(s) : s[x] = s[y] => x = y
        BY <1>1, <1>9 DEF IsInjective
      <3>2. j \in 1..Len(s) /\ j + 1 \in 1..Len(s)
        BY <1>1
      <3>3. s[j] \in ToSet(s) /\ s[j + 1] \in ToSet(s)
        BY <1>1, <3>2 DEF ToSet
      <3>. QED
        BY <1>1, <1>7, <3>1, <3>2, <3>3
    <2>2. \A k \in 1..Len(s) : k # i => s[k] \in ToSet(t)
      <3>1. ASSUME NEW k \in 1..Len(s), k # i
            PROVE  s[k] \in ToSet(t)
        <4>1. CASE k < i
          <5>1. k \in 1..(Len(s) - 1)
            BY <1>1, <4>1
          <5>2. t[k] = s[k]
            BY <1>7, <4>1, <5>1
          <5>. QED
            BY <1>6, <5>1, <5>2 DEF ToSet
        <4>2. CASE k > i
          <5>1. k - 1 \in 1..(Len(s) - 1) /\ ~(k - 1 < i) /\ (k - 1) + 1 = k
            BY <1>1, <4>2
          <5>2. t[k - 1] = s[k]
            BY <1>7, <5>1
          <5>. QED
            BY <1>6, <5>1, <5>2 DEF ToSet
        <4>. QED
          BY <1>1, <3>1, <4>1, <4>2
      <3>. QED
        BY <3>1
    <2>. QED
      BY <1>1, <1>6, <2>1, <2>2 DEF ToSet
  <1>. QED
    BY <1>6, <1>8, <1>9 DEF t

LEMMA TailLine ==
    ASSUME NEW S, NEW s \in Seq(S), s # <<>>
    PROVE  /\ Head(s) \in ToSet(s)
           /\ ToSet(s) \subseteq S
           /\ Tail(s) \in Seq(S)
           /\ Len(Tail(s)) = Len(s) - 1
           /\ IsInjective(s) =>
                 /\ IsInjective(Tail(s))
                 /\ ToSet(Tail(s)) = ToSet(s) \ {Head(s)}
  <1>1. Len(s) \in Nat \ {0} /\ 1 \in 1..Len(s) /\ Head(s) = s[1]
    BY EmptySeq, HeadTailProperties
  <1>2. Tail(s) = RemoveAt(s, 1)
    <2>1. SubSeq(s, 1, 0) = <<>>
      BY SubSeqEmpty
    <2>2. SubSeq(s, 2, Len(s)) \in Seq(S) /\ Tail(s) = SubSeq(s, 2, Len(s))
      BY TailIsSubSeq, HeadTailProperties
    <2>3. <<>> \o SubSeq(s, 2, Len(s)) = SubSeq(s, 2, Len(s))
      BY <2>2, ConcatEmptySeq
    <2>. QED
      BY <2>1, <2>2, <2>3 DEF RemoveAt
  <1>3. Head(s) \in ToSet(s) /\ ToSet(s) \subseteq S
    BY <1>1, LenProperties DEF ToSet
  <1>4. s[1] = Head(s) /\ Len(s) \in Nat
    BY <1>1
  <1>5. /\ RemoveAt(s, 1) \in Seq(S) /\ Len(RemoveAt(s, 1)) = Len(s) - 1
        /\ IsInjective(s) =>
              /\ IsInjective(RemoveAt(s, 1))
              /\ ToSet(RemoveAt(s, 1)) = ToSet(s) \ {s[1]}
    BY <1>1, RemoveLine
  <1>. QED
    BY <1>2, <1>3, <1>4, <1>5

-----------------------------------------------------------------------------
(* The waiters: the line holds exactly the callers whose pc says so. *)

Line(w, p) ==
    /\ w \in Seq(Caller)
    /\ IsInjective(w)
    /\ p \in [Caller -> Pc]
    /\ \A c \in Caller : p[c] = "waiting" <=> c \in ToSet(w)

LEMMA LineWait ==
    ASSUME NEW w, NEW p, Line(w, p), NEW c \in Caller, p[c] # "waiting"
    PROVE  Line(Append(w, c), [p EXCEPT ![c] = "waiting"])
  <1>1. w \in Seq(Caller) /\ IsInjective(w) /\ c \notin ToSet(w)
    BY DEF Line
  <1>2. /\ Append(w, c) \in Seq(Caller) /\ IsInjective(Append(w, c))
        /\ ToSet(Append(w, c)) = ToSet(w) \cup {c}
    BY <1>1, AppendLine
  <1>. QED
    BY <1>2 DEF Line, Pc

LEMMA LineWake ==
    ASSUME NEW w, NEW p, Line(w, p), w # <<>>
    PROVE  /\ Head(w) \in Caller
           /\ p[Head(w)] = "waiting"
           /\ Line(Tail(w), [p EXCEPT ![Head(w)] = "woken"])
  <1>1. w \in Seq(Caller) /\ IsInjective(w)
    BY DEF Line
  <1>2. /\ Head(w) \in ToSet(w) /\ ToSet(w) \subseteq Caller
        /\ Tail(w) \in Seq(Caller) /\ IsInjective(Tail(w))
        /\ ToSet(Tail(w)) = ToSet(w) \ {Head(w)}
    BY <1>1, TailLine
  <1>. QED
    BY <1>2 DEF Line, Pc

LEMMA LineLeave ==
    ASSUME NEW w, NEW p, Line(w, p), NEW i \in 1..Len(w)
    PROVE  Line(RemoveAt(w, i), [p EXCEPT ![w[i]] = "idle"])
  <1>1. w \in Seq(Caller) /\ IsInjective(w)
    BY DEF Line
  <1>2. /\ RemoveAt(w, i) \in Seq(Caller) /\ IsInjective(RemoveAt(w, i))
        /\ ToSet(RemoveAt(w, i)) = ToSet(w) \ {w[i]}
    BY <1>1, RemoveLine
  <1>3. w[i] \in Caller
    BY <1>1
  <1>. QED
    BY <1>2, <1>3 DEF Line, Pc

LEMMA LineOther ==
    ASSUME NEW w, NEW p, Line(w, p), NEW c \in Caller, p[c] # "waiting",
           NEW q \in Pc, q # "waiting"
    PROVE  Line(w, [p EXCEPT ![c] = q])
  BY DEF Line

(* WakeNext on a line that is in order. *)
LEMMA LineNext ==
    ASSUME NEW p, Line(waiting, p), WakeNext(p)
    PROVE  /\ Line(waiting', pc')
           /\ \A c \in Caller : p[c] # "waiting" => pc'[c] = p[c]
           /\ \A c \in Caller : pc'[c] # p[c] => pc'[c] = "woken"
  <1>1. CASE waiting = <<>>
    BY <1>1 DEF WakeNext
  <1>2. CASE waiting # <<>>
    <2>1. /\ Head(waiting) \in Caller /\ p[Head(waiting)] = "waiting"
          /\ Line(Tail(waiting), [p EXCEPT ![Head(waiting)] = "woken"])
      BY <1>2, LineWake
    <2>2. waiting' = Tail(waiting) /\ pc' = [p EXCEPT ![Head(waiting)] = "woken"]
      BY <1>2 DEF WakeNext
    <2>3. p \in [Caller -> Pc]
      BY DEF Line
    <2>. QED
      BY <2>1, <2>2, <2>3
  <1>. QED
    BY <1>1, <1>2

-----------------------------------------------------------------------------
LEMMA LineStep ==
    ASSUME Line(waiting, pc), [Next]_vars
    PROVE  Line(waiting', pc')
  <1>1. ASSUME NEW c \in Caller, Take(c), pc[c] # "waiting"
        PROVE  Line(waiting', pc')
    BY <1>1, LineOther DEF Take, Pc
  <1>2. ASSUME NEW c \in Caller, Wait(c), pc[c] # "waiting"
        PROVE  Line(waiting', pc')
    BY <1>2, LineWait DEF Wait
  <1>3. ASSUME NEW c \in Caller, Acquire(c), pc[c] # "waiting"
        PROVE  Line(waiting', pc')
    <2>1. CASE closed /\ pc' = [pc EXCEPT ![c] = "refused"] /\ waiting' = waiting
      BY <1>3, <2>1, LineOther DEF Pc
    <2>2. CASE New(c)
      BY <1>3, <2>2, LineOther DEF New, Pc
    <2>. QED
      BY <1>1, <1>2, <1>3, <2>1, <2>2 DEF Acquire
  <1>4. ASSUME NEW c \in Caller, NEW q \in {"idle", "backoff"}, Release(c, q),
               pc[c] = "calling"
        PROVE  Line(waiting', pc')
    <2>1. Line(waiting, [pc EXCEPT ![c] = q])
      BY <1>4, LineOther DEF Pc
    <2>. QED
      BY <1>4, <2>1, LineNext DEF Release
  <1>5. ASSUME NEW c \in Caller, Begin(c) \/ Retry(c) \/ Resume(c)
        PROVE  Line(waiting', pc')
    BY <1>1, <1>2, <1>3, <1>5 DEF Begin, Retry, Resume
  <1>6. ASSUME NEW c \in Caller, End(c) \/ Fail(c)
        PROVE  Line(waiting', pc')
    BY <1>4, <1>6 DEF End, Fail
  <1>7. ASSUME NEW c \in Caller, CancelWait(c)
        PROVE  Line(waiting', pc')
    <2>1. PICK i \in 1..Len(waiting) : waiting[i] = c /\ waiting' = RemoveAt(waiting, i)
      BY <1>7 DEF CancelWait
    <2>2. Line(RemoveAt(waiting, i), [pc EXCEPT ![waiting[i]] = "idle"])
      BY LineLeave
    <2>3. pc' = [pc EXCEPT ![waiting[i]] = "idle"]
      BY <1>7, <2>1 DEF CancelWait
    <2>. QED
      BY <2>1, <2>2, <2>3
  <1>8. ASSUME NEW c \in Caller, CancelWoken(c) \/ CancelBackoff(c)
        PROVE  Line(waiting', pc')
    <2>1. Line(waiting, [pc EXCEPT ![c] = "idle"])
      BY <1>8, LineOther DEF CancelWoken, CancelBackoff, Pc
    <2>. QED
      BY <1>8, <2>1, LineNext DEF CancelWoken, CancelBackoff
  <1>9. ASSUME NEW c \in Caller, Close(c)
        PROVE  Line(waiting', pc')
    BY <1>9 DEF Close
  <1>. QED
    BY <1>5, <1>6, <1>7, <1>8, <1>9 DEF Next, Run, vars

-----------------------------------------------------------------------------
(* The channels: what a step may do with them, and who calls after it. *)

Calls(p) == {c \in Caller : p[c] = "calling"}

Lend(c) ==
    /\ pool # <<>> /\ pc[c] # "calling"
    /\ pool' = Tail(pool)
    /\ lent' = [lent EXCEPT ![c] = Head(pool)]
    /\ Calls(pc') = Calls(pc) \cup {c}
    /\ UNCHANGED <<created, closed, shut>>

Make(c) ==
    /\ ~closed /\ pool = <<>> /\ created < MaxConn /\ pc[c] # "calling"
    /\ created' = created + 1
    /\ lent' = [lent EXCEPT ![c] = created + 1]
    /\ Calls(pc') = Calls(pc) \cup {c}
    /\ UNCHANGED <<pool, closed, shut>>

Return(c) ==
    /\ ~closed /\ pc[c] = "calling"
    /\ pool' = Append(pool, lent[c])
    /\ lent' = [lent EXCEPT ![c] = None]
    /\ Calls(pc') = Calls(pc) \ {c}
    /\ UNCHANGED <<created, closed, shut>>

Discard(c) ==
    /\ closed /\ pc[c] = "calling"
    /\ shut' = shut \cup {lent[c]}
    /\ lent' = [lent EXCEPT ![c] = None]
    /\ Calls(pc') = Calls(pc) \ {c}
    /\ UNCHANGED <<pool, created, closed>>

Drain ==
    /\ closed' = TRUE
    /\ shut' = shut \cup ToSet(pool)
    /\ pool' = <<>>
    /\ Calls(pc') = Calls(pc)
    /\ UNCHANGED <<lent, created>>

Stay ==
    /\ Calls(pc') = Calls(pc)
    /\ UNCHANGED <<pool, lent, created, closed, shut>>

Move ==
    \/ \E c \in Caller : Lend(c) \/ Make(c) \/ Return(c) \/ Discard(c)
    \/ Drain
    \/ Stay

LEMMA MoveStep ==
    ASSUME Line(waiting, pc), [Next]_vars
    PROVE  Move
  <1>0. pc \in [Caller -> Pc]
    BY DEF Line
  <1>1. ASSUME NEW c \in Caller, NEW q \in Pc, q # "calling", pc[c] # "calling",
               pc' = [pc EXCEPT ![c] = q]
        PROVE  Calls(pc') = Calls(pc)
    BY <1>0, <1>1 DEF Calls
  <1>2. ASSUME NEW c \in Caller, pc' = [pc EXCEPT ![c] = "calling"]
        PROVE  Calls(pc') = Calls(pc) \cup {c}
    BY <1>0, <1>2 DEF Calls
  <1>3. ASSUME NEW c \in Caller, NEW q \in {"idle", "backoff"}, pc[c] # "waiting",
               WakeNext([pc EXCEPT ![c] = q])
        PROVE  Calls(pc') = Calls(pc) \ {c}
    <2> DEFINE p == [pc EXCEPT ![c] = q]
    <2>1. Line(waiting, p)
      BY <1>3, LineOther DEF Pc
    <2>2. p \in [Caller -> Pc] /\ Calls(p) = Calls(pc) \ {c}
      BY <1>0 DEF Calls, Pc
    <2> HIDE DEF p
    <2>3. /\ \A d \in Caller : p[d] # "waiting" => pc'[d] = p[d]
          /\ \A d \in Caller : pc'[d] # p[d] => pc'[d] = "woken"
      BY <1>3, <2>1, LineNext DEF p
    <2>4. Calls(pc') = Calls(p)
      BY <2>2, <2>3 DEF Calls
    <2>. QED
      BY <2>2, <2>4
  <1>4. ASSUME NEW c \in Caller, Take(c) \/ Wait(c), UNCHANGED <<closed, shut>>,
               pc[c] # "calling"
        PROVE  Move
    BY <1>1, <1>2, <1>4 DEF Take, Wait, Move, Lend, Stay, Pc
  <1>5. ASSUME NEW c \in Caller, Acquire(c), pc[c] # "calling"
        PROVE  Move
    <2>1. CASE closed /\ pc' = [pc EXCEPT ![c] = "refused"] /\ UNCHANGED <<pool, created, lent>>
      BY <1>1, <1>5, <2>1 DEF Acquire, Move, Stay, Pc
    <2>2. CASE ~closed /\ pool = <<>> /\ MayCreate /\ New(c)
      BY <1>2, <1>5, <2>2 DEF Acquire, MayCreate, New, Move, Make
    <2>. QED
      BY <1>4, <1>5, <2>1, <2>2 DEF Acquire
  <1>6. ASSUME NEW c \in Caller, NEW q \in {"idle", "backoff"}, Release(c, q),
               pc[c] = "calling"
        PROVE  Move
    <2>1. CASE closed
      <3>1. pc' = [pc EXCEPT ![c] = q]
        BY <1>6, <2>1 DEF Release
      <3>2. Calls(pc') = Calls(pc) \ {c}
        BY <1>0, <3>1 DEF Calls
      <3>. QED
        BY <1>6, <2>1, <3>2 DEF Release, Move, Discard
    <2>2. CASE ~closed
      BY <1>3, <1>6, <2>2 DEF Release, Move, Return
    <2>. QED
      BY <2>1, <2>2
  <1>7. ASSUME NEW c \in Caller, Begin(c) \/ Retry(c) \/ Resume(c)
        PROVE  Move
    BY <1>4, <1>5, <1>7 DEF Begin, Retry, Resume
  <1>8. ASSUME NEW c \in Caller, End(c) \/ Fail(c)
        PROVE  Move
    BY <1>6, <1>8 DEF End, Fail
  <1>9. ASSUME NEW c \in Caller, CancelWait(c) \/ CancelBackoff(c)
        PROVE  Move
    BY <1>1, <1>9 DEF CancelWait, CancelBackoff, Move, Stay, Pc
  <1>10. ASSUME NEW c \in Caller, CancelWoken(c)
         PROVE  Move
    <2>1. CASE pool # <<>>
      <3>1. Calls(pc') = Calls(pc) \ {c}
        BY <1>3, <1>10, <2>1 DEF CancelWoken
      <3>2. Calls(pc') = Calls(pc)
        BY <1>10, <3>1 DEF CancelWoken, Calls
      <3>. QED
        BY <1>10, <3>2 DEF CancelWoken, Move, Stay
    <2>2. CASE pool = <<>>
      BY <1>1, <1>10, <2>2 DEF CancelWoken, Move, Stay, Pc
    <2>. QED
      BY <2>1, <2>2
  <1>11. ASSUME NEW c \in Caller, Close(c)
         PROVE  Move
    BY <1>11 DEF Close, Move, Drain
  <1>12. ASSUME UNCHANGED vars
         PROVE  Move
    BY <1>12 DEF vars, Move, Stay
  <1>. QED
    BY <1>7, <1>8, <1>9, <1>10, <1>11, <1>12 DEF Next, Run

-----------------------------------------------------------------------------
(* The types of the channels. *)

Channels ==
    /\ pool \in Seq(1..created)
    /\ created \in 0..MaxConn
    /\ closed \in BOOLEAN
    /\ shut \in SUBSET (1..created)
    /\ lent \in [Caller -> 0..created]
    /\ \A c \in Caller : lent[c] # None <=> c \in Calls(pc)

LEMMA ChannelsStep ==
    ASSUME Channels, Move
    PROVE  Channels'
  <1>0. created \in Nat /\ MaxConn \in Nat
    BY PoolAssumption DEF Channels
  <1>1. ASSUME NEW c \in Caller, Lend(c)
        PROVE  Channels'
    <2>1. Head(pool) \in 1..created /\ Tail(pool) \in Seq(1..created)
      BY <1>1, TailLine DEF Channels, Lend
    <2>. QED
      BY <1>0, <1>1, <2>1 DEF Channels, Lend, None
  <1>2. ASSUME NEW c \in Caller, Make(c)
        PROVE  Channels'
    <2>1. pool \in Seq(1..(created + 1))
      <3>1. 1..created \subseteq 1..(created + 1)
        BY <1>0
      <3>. QED
        BY <3>1 DEF Channels
    <2>2. created' \in 0..MaxConn /\ shut \in SUBSET (1..created')
      BY <1>0, <1>2 DEF Channels, Make
    <2>3. lent' \in [Caller -> 0..created']
      BY <1>0, <1>2 DEF Channels, Make
    <2>4. \A d \in Caller : lent'[d] # None <=> d \in Calls(pc')
      BY <1>0, <1>2 DEF Channels, Make, None
    <2>. QED
      BY <1>2, <2>1, <2>2, <2>3, <2>4 DEF Channels, Make
  <1>3. ASSUME NEW c \in Caller, Return(c)
        PROVE  Channels'
    <2>1. lent[c] \in 1..created
      BY <1>0, <1>3 DEF Channels, Return, Calls, None
    <2>2. Append(pool, lent[c]) \in Seq(1..created)
      BY <2>1, AppendLine DEF Channels
    <2>. QED
      BY <1>0, <1>3, <2>2 DEF Channels, Return, None
  <1>4. ASSUME NEW c \in Caller, Discard(c)
        PROVE  Channels'
    <2>1. lent[c] \in 1..created
      BY <1>0, <1>4 DEF Channels, Discard, Calls, None
    <2>2. shut' \in SUBSET (1..created')
      BY <1>4, <2>1 DEF Channels, Discard
    <2>3. /\ lent' \in [Caller -> 0..created']
          /\ \A d \in Caller : lent'[d] # None <=> d \in Calls(pc')
      BY <1>0, <1>4 DEF Channels, Discard, None
    <2>. QED
      BY <1>4, <2>2, <2>3 DEF Channels, Discard
  <1>5. CASE Drain
    <2>1. ToSet(pool) \subseteq 1..created
      BY DEF Channels, ToSet
    <2>2. pool' \in Seq(1..created') /\ closed' \in BOOLEAN
      BY <1>5 DEF Drain
    <2>3. shut' \in SUBSET (1..created')
      BY <1>5, <2>1 DEF Channels, Drain
    <2>. QED
      BY <1>5, <2>2, <2>3 DEF Channels, Drain
  <1>6. CASE Stay
    BY <1>6 DEF Channels, Stay
  <1>. QED
    BY <1>1, <1>2, <1>3, <1>4, <1>5, <1>6 DEF Move

LEMMA AccountStep ==
    ASSUME Channels, ChannelsAccounted, Move
    PROVE  ChannelsAccounted'
  <1>0. /\ created \in Nat /\ pool \in Seq(1..created) /\ IsInjective(pool)
        /\ lent \in [Caller -> 0..created]
        /\ \A c, d \in Caller : lent[c] = lent[d] => c = d \/ lent[c] = None
        /\ \A c \in Caller : pc[c] = "calling" <=> lent[c] # None
        /\ ToSet(pool) \subseteq 1..created /\ shut \subseteq 1..created
        /\ Held \subseteq 1..created
    BY DEF Channels, ChannelsAccounted, Calls, ToSet, Held, None
  <1>1. ASSUME NEW c \in Caller, Lend(c)
        PROVE  ChannelsAccounted'
    <2>1. /\ Head(pool) \in ToSet(pool) /\ IsInjective(Tail(pool))
          /\ ToSet(Tail(pool)) = ToSet(pool) \ {Head(pool)}
      BY <1>0, <1>1, TailLine DEF Lend
    <2>2. lent[c] = None
      BY <1>0, <1>1 DEF Lend
    <2>3. Head(pool) # None /\ \A d \in Caller : lent[d] # Head(pool)
      BY <1>0, <2>1 DEF ChannelsAccounted, Held, None
    <2>4. lent' = [lent EXCEPT ![c] = Head(pool)] /\ pool' = Tail(pool)
      BY <1>1 DEF Lend
    <2>5. Held' = Held \cup {Head(pool)}
      BY <1>0, <2>2, <2>3, <2>4 DEF Held
    <2>6. \A d, e \in Caller : lent'[d] = lent'[e] => d = e \/ lent'[d] = None
      BY <1>0, <2>2, <2>3, <2>4
    <2>7. ~closed
      BY <1>1 DEF Lend, ChannelsAccounted
    <2>. QED
      BY <1>1, <2>1, <2>3, <2>5, <2>6, <2>7 DEF Lend, ChannelsAccounted
  <1>2. ASSUME NEW c \in Caller, Make(c)
        PROVE  ChannelsAccounted'
    <2>1. lent[c] = None
      BY <1>0, <1>2 DEF Make
    <2>2. /\ created + 1 \notin 1..created /\ created + 1 # None
          /\ \A d \in Caller : lent[d] # created + 1
          /\ 1..(created + 1) = (1..created) \cup {created + 1}
      BY <1>0 DEF None
    <2>3. lent' = [lent EXCEPT ![c] = created + 1]
      BY <1>2 DEF Make
    <2>4. Held' = Held \cup {created + 1}
      BY <1>0, <2>1, <2>2, <2>3 DEF Held
    <2>5. \A d, e \in Caller : lent'[d] = lent'[e] => d = e \/ lent'[d] = None
      BY <1>0, <2>1, <2>2, <2>3
    <2>6. ToSet(pool') = ToSet(pool) /\ created + 1 \notin ToSet(pool) \cup shut
      BY <1>0, <1>2, <2>2 DEF Make
    <2>. QED
      BY <1>2, <2>2, <2>4, <2>5, <2>6 DEF Make, ChannelsAccounted
  <1>3. ASSUME NEW c \in Caller, pc[c] = "calling",
               lent' = [lent EXCEPT ![c] = None]
        PROVE  /\ lent[c] \in Held /\ Held' = Held \ {lent[c]}
               /\ \A d, e \in Caller : lent'[d] = lent'[e] => d = e \/ lent'[d] = None
    <2>1. lent[c] # None
      BY <1>0, <1>3
    <2>2. \A d \in Caller : d # c => lent[d] # lent[c]
      BY <1>0, <2>1
    <2>. QED
      BY <1>0, <1>3, <2>1, <2>2 DEF Held
  <1>4. ASSUME NEW c \in Caller, Return(c)
        PROVE  ChannelsAccounted'
    <2>1. /\ lent[c] \in Held /\ Held' = Held \ {lent[c]}
          /\ \A d, e \in Caller : lent'[d] = lent'[e] => d = e \/ lent'[d] = None
      BY <1>3, <1>4 DEF Return
    <2>2. lent[c] \notin ToSet(pool) /\ lent[c] \in 1..created
      BY <1>0, <2>1 DEF ChannelsAccounted
    <2>3. /\ IsInjective(Append(pool, lent[c]))
          /\ ToSet(Append(pool, lent[c])) = ToSet(pool) \cup {lent[c]}
      BY <1>0, <2>2, AppendLine
    <2>. QED
      BY <1>4, <2>1, <2>3 DEF Return, ChannelsAccounted
  <1>5. ASSUME NEW c \in Caller, Discard(c)
        PROVE  ChannelsAccounted'
    <2>1. /\ lent[c] \in Held /\ Held' = Held \ {lent[c]}
          /\ \A d, e \in Caller : lent'[d] = lent'[e] => d = e \/ lent'[d] = None
      BY <1>3, <1>5 DEF Discard
    <2>. QED
      BY <1>5, <2>1 DEF Discard, ChannelsAccounted
  <1>6. CASE Drain
    <2>1. ToSet(<<>>) = {} /\ IsInjective(<<>>)
      BY DEF ToSet, IsInjective
    <2>2. Held' = Held
      BY <1>6 DEF Drain, Held
    <2>. QED
      BY <1>6, <2>1, <2>2 DEF Drain, ChannelsAccounted
  <1>7. CASE Stay
    BY <1>7 DEF Stay, ChannelsAccounted, Held
  <1>. QED
    BY <1>1, <1>2, <1>4, <1>5, <1>6, <1>7 DEF Move

-----------------------------------------------------------------------------
(* Who waits, waits at the limit. *)

AtLimit == \A c \in Caller : pc[c] \in {"waiting", "woken"} => created = MaxConn

LEMMA AtLimitStep ==
    ASSUME Line(waiting, pc), Channels, AtLimit, [Next]_vars
    PROVE  AtLimit'
  <1>0. pc \in [Caller -> Pc] /\ created \in 0..MaxConn /\ MaxConn \in Nat
    BY PoolAssumption DEF Line, Channels
  <1>1. ASSUME NEW c \in Caller, NEW q \in Pc, UNCHANGED created,
               pc' = [pc EXCEPT ![c] = q],
               q \in {"waiting", "woken"} => created = MaxConn
        PROVE  AtLimit'
    BY <1>0, <1>1 DEF AtLimit
  <1>2. ASSUME NEW c \in Caller, NEW q \in {"idle", "backoff"}, UNCHANGED created,
               pc[c] # "waiting", WakeNext([pc EXCEPT ![c] = q])
        PROVE  AtLimit'
    <2> DEFINE p == [pc EXCEPT ![c] = q]
    <2>1. Line(waiting, p)
      BY <1>2, LineOther DEF Pc
    <2>2. \A d \in Caller : p[d] \in {"waiting", "woken"} => created = MaxConn
      BY <1>0 DEF AtLimit
    <2> HIDE DEF p
    <2>3. CASE waiting = <<>>
      BY <1>2, <2>2, <2>3 DEF WakeNext, p, AtLimit
    <2>4. CASE waiting # <<>>
      <3>1. /\ Head(waiting) \in Caller /\ p[Head(waiting)] = "waiting"
            /\ p \in [Caller -> Pc]
        BY <2>1, <2>4, LineWake DEF Line
      <3>2. pc' = [p EXCEPT ![Head(waiting)] = "woken"]
        BY <1>2, <2>4 DEF WakeNext, p
      <3>. QED
        BY <1>2, <2>2, <3>1, <3>2 DEF AtLimit
    <2>. QED
      BY <2>3, <2>4
  <1>3. ASSUME NEW c \in Caller, Resume(c)
        PROVE  AtLimit'
    <2>1. created = MaxConn
      BY <1>3 DEF Resume, AtLimit
    <2>. QED
      BY <1>1, <1>3, <2>1 DEF Resume, Take, Wait, Pc
  <1>4. ASSUME NEW c \in Caller, Acquire(c)
        PROVE  AtLimit'
    <2>1. CASE closed /\ pc' = [pc EXCEPT ![c] = "refused"] /\ UNCHANGED created
      BY <1>1, <2>1 DEF Pc
    <2>2. CASE Take(c)
      BY <1>1, <2>2 DEF Take, Pc
    <2>3. CASE MayCreate /\ New(c)
      BY <1>0, <2>3 DEF MayCreate, New, AtLimit
    <2>4. CASE ~MayCreate /\ Wait(c)
      <3>1. created = MaxConn
        BY <1>0, <2>4 DEF MayCreate
      <3>. QED
        BY <1>1, <2>4, <3>1 DEF Wait, Pc
    <2>. QED
      BY <1>4, <2>1, <2>2, <2>3, <2>4 DEF Acquire
  <1>5. ASSUME NEW c \in Caller, NEW q \in {"idle", "backoff"}, Release(c, q),
               pc[c] = "calling"
        PROVE  AtLimit'
    <2>1. CASE closed
      BY <1>1, <1>5, <2>1 DEF Release, Pc
    <2>2. CASE ~closed
      BY <1>2, <1>5, <2>2 DEF Release
    <2>. QED
      BY <2>1, <2>2
  <1>6. ASSUME NEW c \in Caller, End(c) \/ Fail(c)
        PROVE  AtLimit'
    BY <1>5, <1>6 DEF End, Fail
  <1>7. ASSUME NEW c \in Caller, CancelWait(c) \/ CancelBackoff(c)
        PROVE  AtLimit'
    BY <1>1, <1>7 DEF CancelWait, CancelBackoff, Pc
  <1>8. ASSUME NEW c \in Caller, CancelWoken(c)
        PROVE  AtLimit'
    <2>1. CASE pool # <<>>
      BY <1>2, <1>8, <2>1 DEF CancelWoken
    <2>2. CASE pool = <<>>
      BY <1>1, <1>8, <2>2 DEF CancelWoken, Pc
    <2>. QED
      BY <2>1, <2>2
  <1>9. ASSUME NEW c \in Caller, Close(c)
        PROVE  AtLimit'
    BY <1>9 DEF Close, AtLimit
  <1>10. ASSUME UNCHANGED vars
         PROVE  AtLimit'
    BY <1>10 DEF vars, AtLimit
  <1>. QED
    BY <1>3, <1>4, <1>6, <1>7, <1>8, <1>9, <1>10 DEF Next, Run, Begin, Retry

-----------------------------------------------------------------------------
(* Wakeups.  Awake(p) is Woken, as a function of the program counters. *)

Awake(p) == {c \in Caller : p[c] = "woken"}

LEMMA AwakeCount ==
    ASSUME NEW p, NEW c \in Caller
    PROVE  /\ IsFiniteSet(Awake(p))
           /\ Cardinality(Awake(p)) \in Nat
           /\ Cardinality(Awake(p) \cup {c}) =
                 IF c \in Awake(p) THEN Cardinality(Awake(p)) ELSE Cardinality(Awake(p)) + 1
           /\ Cardinality(Awake(p) \ {c}) =
                 IF c \in Awake(p) THEN Cardinality(Awake(p)) - 1 ELSE Cardinality(Awake(p))
  <1>1. IsFiniteSet(Awake(p))
    BY PoolAssumption, FS_Subset DEF Awake
  <1>. QED
    BY <1>1, FS_AddElement, FS_RemoveElement, FS_CardinalityType

LEMMA AwakeChange ==
    ASSUME NEW p \in [Caller -> Pc], NEW c \in Caller, NEW q \in Pc
    PROVE  Awake([p EXCEPT ![c] = q]) = IF q = "woken" THEN Awake(p) \cup {c} ELSE Awake(p) \ {c}
  BY DEF Awake

(* A released channel, or a cancelled wakeup, brings a new wakeup. *)
LEMMA AwakeNext ==
    ASSUME NEW p, Line(waiting, p), WakeNext(p), waiting' # <<>>
    PROVE  /\ waiting # <<>>
           /\ Cardinality(Awake(pc')) = Cardinality(Awake(p)) + 1
  <1>1. waiting # <<>>
    BY DEF WakeNext
  <1>2. /\ Head(waiting) \in Caller /\ p[Head(waiting)] = "waiting"
        /\ p \in [Caller -> Pc]
    BY <1>1, LineWake DEF Line
  <1>3. pc' = [p EXCEPT ![Head(waiting)] = "woken"]
    BY <1>1 DEF WakeNext
  <1>4. Awake(pc') = Awake(p) \cup {Head(waiting)} /\ Head(waiting) \notin Awake(p)
    BY <1>2, <1>3 DEF Awake
  <1>. QED
    BY <1>1, <1>2, <1>4, AwakeCount

Wakeups == waiting # <<>> => Cardinality(Awake(pc)) >= Len(pool)

LEMMA WakeupsStep ==
    ASSUME Line(waiting, pc), Channels, Wakeups, [Next]_vars
    PROVE  Wakeups'
  <1>0. pc \in [Caller -> Pc] /\ pool \in Seq(1..created) /\ Len(pool) \in Nat
    BY DEF Line, Channels
  <1>1. ASSUME pool' = <<>>
        PROVE  Wakeups'
    <2>1. IsFiniteSet(Awake(pc'))
      BY PoolAssumption, FS_Subset DEF Awake
    <2>. QED
      BY <1>1, <2>1, FS_CardinalityType DEF Wakeups
  <1>2. ASSUME NEW c \in Caller, Take(c)
        PROVE  Wakeups'
    <2>1. Len(pool') = Len(pool) - 1
      BY <1>0, <1>2, TailLine DEF Take
    <2>2. Awake(pc') = Awake(pc) \ {c}
      BY <1>0, <1>2, AwakeChange DEF Take, Pc
    <2>3. \/ Cardinality(Awake(pc')) = Cardinality(Awake(pc)) - 1
          \/ Cardinality(Awake(pc')) = Cardinality(Awake(pc))
      BY <2>2, AwakeCount
    <2>4. Cardinality(Awake(pc)) \in Nat
      BY AwakeCount
    <2>. QED
      BY <1>0, <1>2, <2>1, <2>3, <2>4 DEF Take, Wakeups
  <1>3. ASSUME NEW c \in Caller, NEW q \in Pc \ {"woken"}, pc[c] # "woken",
               pc' = [pc EXCEPT ![c] = q], UNCHANGED pool,
               waiting' # <<>> => waiting # <<>>
        PROVE  Wakeups'
    <2>1. Awake(pc') = Awake(pc)
      BY <1>0, <1>3 DEF Awake
    <2>. QED
      BY <1>3, <2>1 DEF Wakeups
  <1>4. ASSUME NEW c \in Caller, Acquire(c), pc[c] # "woken"
        PROVE  Wakeups'
    <2>1. CASE closed /\ pc' = [pc EXCEPT ![c] = "refused"] /\ UNCHANGED <<pool, waiting>>
      BY <1>3, <1>4, <2>1 DEF Pc
    <2>2. CASE Take(c)
      BY <1>2, <2>2
    <2>3. CASE pool = <<>> /\ New(c)
      BY <1>1, <2>3 DEF New
    <2>4. CASE Wait(c)
      BY <1>1, <2>4 DEF Wait
    <2>. QED
      BY <1>4, <2>1, <2>2, <2>3, <2>4 DEF Acquire
  <1>5. ASSUME NEW c \in Caller, Resume(c)
        PROVE  Wakeups'
    BY <1>1, <1>2, <1>5 DEF Resume, Wait
  <1>6. ASSUME NEW c \in Caller, NEW q \in {"idle", "backoff"}, Release(c, q),
               pc[c] = "calling"
        PROVE  Wakeups'
    <2>1. CASE closed
      BY <1>3, <1>6, <2>1 DEF Release, Pc
    <2>2. CASE ~closed /\ waiting' # <<>>
      <3> DEFINE p == [pc EXCEPT ![c] = q]
      <3>1. Line(waiting, p)
        BY <1>6, LineOther DEF Pc
      <3>2. Awake(p) = Awake(pc)
        BY <1>0, <1>6 DEF Awake
      <3>3. WakeNext(p) /\ pool' = Append(pool, lent[c])
        BY <1>6, <2>2 DEF Release
      <3> HIDE DEF p
      <3>4. waiting # <<>> /\ Cardinality(Awake(pc')) = Cardinality(Awake(pc)) + 1
        BY <2>2, <3>1, <3>2, <3>3, AwakeNext
      <3>5. lent[c] \in 1..created
        BY <1>6 DEF Channels, Calls, None
      <3>6. Len(pool') = Len(pool) + 1
        BY <1>0, <3>3, <3>5, AppendLine
      <3>7. Cardinality(Awake(pc)) \in Nat
        BY AwakeCount
      <3>. QED
        BY <1>0, <3>4, <3>6, <3>7 DEF Wakeups
    <2>3. CASE waiting' = <<>>
      BY <2>3 DEF Wakeups
    <2>. QED
      BY <2>1, <2>2, <2>3
  <1>7. ASSUME NEW c \in Caller, End(c) \/ Fail(c)
        PROVE  Wakeups'
    BY <1>6, <1>7 DEF End, Fail
  <1>8. ASSUME NEW c \in Caller, CancelWait(c)
        PROVE  Wakeups'
    <2>1. waiting # <<>>
      BY <1>8 DEF CancelWait
    <2>. QED
      BY <1>3, <1>8, <2>1 DEF CancelWait, Pc
  <1>9. ASSUME NEW c \in Caller, CancelWoken(c)
        PROVE  Wakeups'
    <2>1. CASE pool = <<>>
      BY <1>1, <1>9, <2>1 DEF CancelWoken
    <2>2. CASE pool # <<>> /\ waiting' # <<>>
      <3> DEFINE p == [pc EXCEPT ![c] = "idle"]
      <3>1. Line(waiting, p)
        BY <1>9, LineOther DEF CancelWoken, Pc
      <3>2. Awake(p) = Awake(pc) \ {c} /\ c \in Awake(pc)
        BY <1>0, <1>9 DEF Awake, CancelWoken
      <3>3. WakeNext(p) /\ pool' = pool
        BY <1>9, <2>2 DEF CancelWoken
      <3> HIDE DEF p
      <3>4. waiting # <<>> /\ Cardinality(Awake(pc')) = Cardinality(Awake(p)) + 1
        BY <2>2, <3>1, <3>3, AwakeNext
      <3>5. /\ Cardinality(Awake(p)) = Cardinality(Awake(pc)) - 1
            /\ Cardinality(Awake(pc)) \in Nat
        BY <3>2, AwakeCount
      <3>. QED
        BY <1>0, <3>3, <3>4, <3>5 DEF Wakeups
    <2>3. CASE waiting' = <<>>
      BY <2>3 DEF Wakeups
    <2>. QED
      BY <2>1, <2>2, <2>3
  <1>10. ASSUME NEW c \in Caller, CancelBackoff(c)
         PROVE  Wakeups'
    BY <1>3, <1>10 DEF CancelBackoff, Pc
  <1>11. ASSUME NEW c \in Caller, Close(c)
         PROVE  Wakeups'
    BY <1>1, <1>11 DEF Close
  <1>12. ASSUME UNCHANGED vars
         PROVE  Wakeups'
    BY <1>12 DEF vars, Wakeups
  <1>. QED
    BY <1>4, <1>5, <1>7, <1>8, <1>9, <1>10, <1>11, <1>12 DEF Next, Run, Begin, Retry

-----------------------------------------------------------------------------
(* Attempts. *)

Attempts == attempt \in [Caller -> 0..(Retries + 1)]

(* Before a retry there was an attempt that was not the last. *)
RetriesLeft == \A c \in Caller : pc[c] = "backoff" => attempt[c] <= Retries

LEMMA AttemptsStep ==
    ASSUME Line(waiting, pc), Attempts, RetriesLeft, [Next]_vars
    PROVE  Attempts' /\ RetriesLeft'
  <1>0. pc \in [Caller -> Pc] /\ Retries \in Nat
    BY PoolAssumption DEF Line
  <1>1. Attempts'
    <2>1. ASSUME NEW c \in Caller, Begin(c)
          PROVE  Attempts'
      BY <1>0, <2>1 DEF Begin, Attempts
    <2>2. ASSUME NEW c \in Caller, Retry(c)
          PROVE  Attempts'
      <3>1. attempt[c] + 1 \in 0..(Retries + 1)
        BY <1>0, <2>2 DEF Retry, RetriesLeft, Attempts
      <3>. QED
        BY <2>2, <3>1 DEF Retry, Attempts
    <2>3. ASSUME UNCHANGED attempt
          PROVE  Attempts'
      BY <2>3 DEF Attempts
    <2>. QED
      BY <2>1, <2>2, <2>3 DEF Next, Run, Resume, End, Fail, CancelWait, CancelWoken,
         CancelBackoff, Close, vars
  <1>2. RetriesLeft'
    <2>1. ASSUME NEW c \in Caller, NEW q \in {"idle", "backoff"}, pc[c] # "waiting",
                 WakeNext([pc EXCEPT ![c] = q]),
                 UNCHANGED attempt, q = "backoff" => attempt[c] <= Retries
          PROVE  RetriesLeft'
      <3> DEFINE p == [pc EXCEPT ![c] = q]
      <3>1. Line(waiting, p)
        BY <2>1, LineOther DEF Pc
      <3>2. p \in [Caller -> Pc] /\ \A d \in Caller : p[d] = "backoff" => attempt[d] <= Retries
        BY <1>0, <2>1 DEF RetriesLeft, Pc
      <3> HIDE DEF p
      <3>3. \A d \in Caller : pc'[d] # p[d] => pc'[d] = "woken"
        BY <2>1, <3>1, LineNext DEF p
      <3>. QED
        BY <2>1, <3>2, <3>3 DEF RetriesLeft
    <2>2. ASSUME NEW c \in Caller, NEW q \in Pc, pc' = [pc EXCEPT ![c] = q],
                 UNCHANGED attempt, q = "backoff" => attempt[c] <= Retries
          PROVE  RetriesLeft'
      BY <1>0, <2>2 DEF RetriesLeft
    <2>3. ASSUME NEW c \in Caller, NEW q \in Pc \ {"backoff"}, NEW n,
                 pc' = [pc EXCEPT ![c] = q], attempt' = [attempt EXCEPT ![c] = n]
          PROVE  RetriesLeft'
      BY <1>0, <2>3 DEF RetriesLeft, Attempts
    <2>4. ASSUME NEW c \in Caller, Begin(c) \/ Retry(c)
          PROVE  RetriesLeft'
      <3>1. PICK q \in Pc \ {"backoff"} : pc' = [pc EXCEPT ![c] = q]
        BY <2>4 DEF Begin, Retry, Acquire, Take, New, Wait, Pc
      <3>2. PICK n : attempt' = [attempt EXCEPT ![c] = n]
        BY <2>4 DEF Begin, Retry
      <3>. QED
        BY <2>3, <3>1, <3>2
    <2>5. ASSUME NEW c \in Caller, Resume(c)
          PROVE  RetriesLeft'
      BY <2>2, <2>5 DEF Resume, Take, Wait, Pc
    <2>6. ASSUME NEW c \in Caller, NEW q \in {"idle", "backoff"}, Release(c, q),
                 pc[c] = "calling", UNCHANGED attempt,
                 q = "backoff" => attempt[c] <= Retries
          PROVE  RetriesLeft'
      <3>1. CASE closed
        BY <2>2, <2>6, <3>1 DEF Release, Pc
      <3>2. CASE ~closed
        BY <2>1, <2>6, <3>2 DEF Release
      <3>. QED
        BY <3>1, <3>2
    <2>7. ASSUME NEW c \in Caller, End(c) \/ Fail(c)
          PROVE  RetriesLeft'
      BY <2>6, <2>7 DEF End, Fail
    <2>8. ASSUME NEW c \in Caller, CancelWait(c) \/ CancelBackoff(c)
          PROVE  RetriesLeft'
      BY <2>2, <2>8 DEF CancelWait, CancelBackoff, Pc
    <2>9. ASSUME NEW c \in Caller, CancelWoken(c)
          PROVE  RetriesLeft'
      BY <2>1, <2>2, <2>9 DEF CancelWoken, Pc
    <2>10. ASSUME UNCHANGED <<pc, attempt>>
           PROVE  RetriesLeft'
      BY <2>10 DEF RetriesLeft
    <2>. QED
      BY <2>4, <2>5, <2>7, <2>8, <2>9, <2>10 DEF Next, Run, Close, vars
  <1>. QED
    BY <1>1, <1>2

-----------------------------------------------------------------------------
(* The inductive invariant, and what it says. *)

Inv ==
    /\ Line(waiting, pc) /\ Channels /\ ChannelsAccounted /\ AtLimit
    /\ Wakeups /\ Attempts /\ RetriesLeft

LEMMA InitInv == Init => Inv
  <1> SUFFICES ASSUME Init PROVE Inv
    OBVIOUS
  <1>0. MaxConn \in Nat /\ Retries \in Nat /\ created \in 0..MaxConn
    BY PoolAssumption DEF Init
  <1>1. Line(waiting, pc)
    BY DEF Init, Line, Pc, IsInjective, ToSet
  <1>2. Channels
    <2>1. pool \in Seq(1..created)
      <3>1. \A i \in 1..created : i \in 1..created
        OBVIOUS
      <3>2. [i \in 1..created |-> i] \in Seq(1..created)
        BY <1>0, <3>1, IsASeq
      <3>. QED
        BY <3>2 DEF Init
    <2>2. /\ lent \in [Caller -> 0..created]
          /\ \A c \in Caller : lent[c] # None <=> c \in Calls(pc)
      BY <1>0 DEF Init, Calls, None
    <2>3. closed \in BOOLEAN /\ shut \in SUBSET (1..created)
      BY DEF Init
    <2>. QED
      BY <1>0, <2>1, <2>2, <2>3 DEF Channels
  <1>3. ChannelsAccounted
    <2>1. DOMAIN pool = 1..created /\ \A i \in 1..created : pool[i] = i
      BY DEF Init
    <2>2. IsInjective(pool) /\ ToSet(pool) = 1..created
      BY <2>1 DEF IsInjective, ToSet
    <2>3. Held = {}
      BY DEF Init, Held
    <2>. QED
      BY <2>2, <2>3 DEF Init, ChannelsAccounted
  <1>4. AtLimit /\ Attempts /\ RetriesLeft
    BY <1>0 DEF Init, AtLimit, Attempts, RetriesLeft
  <1>5. Wakeups
    BY DEF Init, Wakeups
  <1>. QED
    BY <1>1, <1>2, <1>3, <1>4, <1>5 DEF Inv

LEMMA StepInv == Inv /\ [Next]_vars => Inv'
  <1> SUFFICES ASSUME Inv, [Next]_vars PROVE Inv'
    OBVIOUS
  <1>1. Line(waiting', pc') /\ Move
    BY LineStep, MoveStep DEF Inv
  <1>2. Channels' /\ ChannelsAccounted'
    BY <1>1, ChannelsStep, AccountStep DEF Inv
  <1>3. AtLimit' /\ Wakeups' /\ Attempts' /\ RetriesLeft'
    BY AtLimitStep, WakeupsStep, AttemptsStep DEF Inv
  <1>. QED
    BY <1>1, <1>2, <1>3 DEF Inv

LEMMA InvAlways == Spec => []Inv
  BY InitInv, StepInv, PTL DEF Spec

LEMMA InvTypes == Inv => TypeOK
  BY DEF Inv, Line, Channels, Attempts, TypeOK, Calls

LEMMA InvWakes == Inv => NoLostWakeup
  BY DEF Inv, Wakeups, NoLostWakeup, Awake, Woken

LEMMA InvWaits == Inv => WaitsForSomething
  <1> SUFFICES ASSUME Inv, waiting # <<>>, ~closed
               PROVE  \/ \E c \in Caller : pc[c] = "calling"
                      \/ pool # <<>> /\ Woken # {}
    BY DEF WaitsForSomething
  <1>1. created = MaxConn /\ created \in Nat \ {0}
    <2>1. Head(waiting) \in Caller /\ pc[Head(waiting)] = "waiting"
      BY LineWake DEF Inv
    <2>. QED
      BY <2>1, PoolAssumption DEF Inv, AtLimit
  <1>2. ToSet(pool) \cup Held = 1..created /\ 1 \in 1..created
    BY <1>1 DEF Inv, ChannelsAccounted
  <1>3. CASE 1 \in Held
    BY <1>3 DEF Inv, Channels, Calls, Held
  <1>4. CASE 1 \in ToSet(pool)
    <2>1. pool # <<>> /\ Len(pool) \in Nat \ {0}
      BY <1>4, EmptySeq DEF ToSet, Inv, Channels
    <2>2. Cardinality(Woken) >= Len(pool)
      BY InvWakes DEF NoLostWakeup
    <2>3. Woken # {}
      BY <2>1, <2>2, FS_EmptySet
    <2>. QED
      BY <2>1, <2>3
  <1>. QED
    BY <1>2, <1>3, <1>4

-----------------------------------------------------------------------------
(* The pool as a loan of channels: each of its steps is one of the steps   *)
(* of ChannelLoan or leaves the loan alone.  A channel is lent only by an  *)
(* open pool, since a closed one is empty; what is returned is in no other *)
(* place; and a second close finds nothing to close.                       *)

Accounts == Channels /\ ChannelsAccounted

LEMMA InitLoan == Init => Loan!Init
  <1> SUFFICES ASSUME Init PROVE Loan!Init
    OBVIOUS
  <1>1. DOMAIN pool = 1..created /\ \A i \in 1..created : pool[i] = i
    BY DEF Init
  <1>2. ToSet(pool) = 1..created
    BY <1>1 DEF ToSet
  <1>. QED
    BY <1>2 DEF Init, Loan!Init, None, Loan!None

LEMMA LendLoan ==
    ASSUME Accounts, NEW c \in Caller, Lend(c)
    PROVE  \E ch \in ToSet(pool) : Loan!Lend(c, ch)
  <1>1. ~closed /\ lent[c] = None
    BY DEF Lend, Accounts, ChannelsAccounted, Channels, Calls
  <1>2. Head(pool) \in ToSet(pool) /\ ToSet(Tail(pool)) = ToSet(pool) \ {Head(pool)}
    BY TailLine DEF Lend, Accounts, ChannelsAccounted, Channels
  <1>3. ToSet(pool)' = ToSet(pool) \ {Head(pool)}
    BY <1>2 DEF Lend
  <1>4. Loan!Borrows(c, Head(pool))
    BY <1>1 DEF Lend, Loan!Borrows, None, Loan!None
  <1>. QED
    BY <1>2, <1>3, <1>4 DEF Lend, Loan!Lend

LEMMA MakeLoan ==
    ASSUME Accounts, NEW c \in Caller, Make(c)
    PROVE  Loan!Make(c)
  <1>1. lent[c] = None
    BY DEF Make, Accounts, Channels, Calls
  <1>2. ToSet(pool) = {} /\ ToSet(pool)' = ToSet(pool)
    BY DEF Make, ToSet
  <1>3. Loan!Borrows(c, created + 1)
    BY <1>1 DEF Make, Loan!Borrows, None, Loan!None
  <1>. QED
    BY <1>2, <1>3 DEF Make, Loan!Make

LEMMA ReturnLoan ==
    ASSUME Accounts, NEW c \in Caller, Return(c) \/ Discard(c)
    PROVE  Loan!Return(c)
  <1>1. lent[c] # None /\ lent[c] \in 1..created
    BY DEF Return, Discard, Accounts, Channels, Calls, None
  <1>2. lent[c] \notin ToSet(pool) \cup shut
    BY <1>1 DEF Accounts, ChannelsAccounted, Held
  <1>3. CASE Return(c)
    <2>1. ToSet(Append(pool, lent[c])) = ToSet(pool) \cup {lent[c]}
      BY <1>1, AppendLine DEF Accounts, Channels
    <2>2. ToSet(pool)' = ToSet(pool) \cup {lent[c]}
      BY <1>3, <2>1 DEF Return
    <2>. QED
      BY <1>1, <1>2, <1>3, <2>2 DEF Return, Loan!Return, None, Loan!None
  <1>4. CASE Discard(c)
    <2>1. ToSet(pool)' = ToSet(pool)
      BY <1>4 DEF Discard
    <2>. QED
      BY <1>1, <1>2, <1>4, <2>1 DEF Discard, Loan!Return, None, Loan!None
  <1>. QED
    BY <1>3, <1>4

LEMMA DrainLoan ==
    ASSUME Accounts, Drain
    PROVE  Loan!Close \/ UNCHANGED Loan!vars
  <1>1. ToSet(<<>>) = {}
    BY DEF ToSet
  <1>2. ToSet(pool)' = {}
    BY <1>1 DEF Drain
  <1>3. CASE ~closed
    BY <1>2, <1>3 DEF Drain, Loan!Close
  <1>4. CASE closed
    <2>1. ToSet(pool) = {}
      BY <1>1, <1>4 DEF Accounts, ChannelsAccounted
    <2>2. closed' = closed /\ shut' = shut
      BY <1>4, <2>1 DEF Drain, Accounts, Channels
    <2>. QED
      BY <1>2, <2>1, <2>2 DEF Drain, Loan!vars
  <1>. QED
    BY <1>3, <1>4

LEMMA LoanStep ==
    ASSUME Inv, [Next]_vars
    PROVE  [Loan!Next]_(Loan!vars)
  <1>1. Accounts /\ Move
    BY MoveStep DEF Inv, Accounts
  <1>2. ASSUME NEW c \in Caller, Lend(c) \/ Make(c) \/ Return(c) \/ Discard(c)
        PROVE  Loan!Next
    BY <1>1, <1>2, LendLoan, MakeLoan, ReturnLoan DEF Loan!Next
  <1>3. CASE Drain
    BY <1>1, <1>3, DrainLoan DEF Loan!Next
  <1>4. CASE Stay
    <2>1. ToSet(pool)' = ToSet(pool)
      BY <1>4 DEF Stay
    <2>. QED
      BY <1>4, <2>1 DEF Stay, Loan!vars
  <1>. QED
    BY <1>1, <1>2, <1>3, <1>4 DEF Move

-----------------------------------------------------------------------------
(* Every variable of the pool keeps its type: at most MaxConn channels are *)
(* ever made, and at most Retries + 1 attempts.                            *)
THEOREM TypeCorrect == Spec => []TypeOK
  BY InvAlways, InvTypes, PTL

(* acquire, release and close lose no channel and lend none twice. *)
THEOREM NoChannelLost == Spec => []ChannelsAccounted
  <1>1. Inv => ChannelsAccounted
    BY DEF Inv
  <1>. QED
    BY <1>1, InvAlways, PTL

(* A channel that comes back reaches a caller that waits: cancellations    *)
(* and newcomers never leave it in the pool with nobody on the way to it.  *)
THEOREM WakeupsSuffice == Spec => []NoLostWakeup
  BY InvAlways, InvWakes, PTL

(* The callers of an open pool never all wait for each other. *)
THEOREM NeverStuck == Spec => []WaitsForSomething
  BY InvAlways, InvWaits, PTL

(* acquire, release and close, with the queue, its waiters, the retries    *)
(* and the cancellations between them, lend channels as ChannelLoan        *)
(* promises: a new one is made only when none is free, each is with one    *)
(* caller at a time, and a closed pool lends none and closes all.          *)
THEOREM ChannelsAreLoans == Spec => LendsChannels
  <1>1. Spec => [][Loan!Next]_(Loan!vars)
    BY InvAlways, LoanStep, PTL DEF Spec
  <1>. QED
    BY <1>1, InitLoan, PTL DEF Spec, LendsChannels, Loan!Spec
=============================================================================
