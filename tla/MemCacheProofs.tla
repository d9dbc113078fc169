--------------------------- MODULE MemCacheProofs ---------------------------
(***************************************************************************)
(* For every memory, word and line size, map of user space and set of      *)
(* ranges: the types hold; only a write can make the debugger show what    *)
(* the target does not hold; and of the bytes around a write's data, those *)
(* behind it in a second or later word are the target's own, no others.    *)
(***************************************************************************)
EXTENDS MemCache, TLAPS

Memory == [Addr -> Byte]
Line   == [Addr -> Byte \cup {NotCached}]

\* While the program runs nothing is cached: go_remote has invalidated, and
\* nothing is read before Stop.
EmptyWhileRunning == running => cache = Empty

IInv == TypeOK /\ EmptyWhileRunning

-----------------------------------------------------------------------------
(***************************************************************************)
(* Words.                                                                  *)
(***************************************************************************)
LEMMA Division ==
  ASSUME NEW a \in Nat, NEW w \in Nat \ {0}
  PROVE  /\ a \div w \in Nat /\ a % w \in 0 .. w - 1
         /\ a % w = a - w * (a \div w)
OBVIOUS

LEMMA DivisionMonotone ==
  ASSUME NEW a \in Nat, NEW b \in Nat, NEW w \in Nat \ {0}, a <= b
  PROVE  a \div w <= b \div w
OBVIOUS

\* The memory is a whole number of words.
LEMMA WholeWords == \E k \in Nat : AddrMax + 1 = k * WordSize
<1>1. /\ AddrMax \in Nat /\ WordSize \in Nat \ {0} /\ LineSize \in Nat \ {0}
      /\ LineSize % WordSize = 0 /\ (AddrMax + 1) % LineSize = 0
  BY MemAssumption
<1> DEFINE p == LineSize \div WordSize
           q == (AddrMax + 1) \div LineSize
<1>2. p \in Nat /\ LineSize = WordSize * p
  <2>1. p \in Nat /\ LineSize % WordSize = LineSize - WordSize * p
    BY <1>1, Division
  <2> HIDE DEF p
  <2> QED
    BY <1>1, <2>1
<1>3. q \in Nat /\ AddrMax + 1 = LineSize * q
  <2>1. q \in Nat /\ (AddrMax + 1) % LineSize = AddrMax + 1 - LineSize * q
    BY <1>1, Division
  <2> HIDE DEF q
  <2> QED
    BY <1>1, <2>1
<1> HIDE DEF p, q
<1>4. AddrMax + 1 = (p * q) * WordSize
  BY <1>1, <1>2, <1>3
<1>5. p * q \in Nat
  BY <1>2, <1>3
<1> QED
  BY <1>4, <1>5

LEMMA StoredAtIn ==
  ASSUME NEW a \in Addr
  PROVE  StoredAt(a) \in Addr
<1>1. /\ AddrMax \in Nat /\ WordSize \in Nat \ {0} /\ a \in Nat /\ a <= AddrMax
  BY MemAssumption DEF Addr
<1> DEFINE w == a \div WordSize
           r == a % WordSize
<1>2. w \in Nat /\ r \in 0 .. WordSize - 1 /\ r = a - WordSize * w
  BY <1>1, Division
<1>3. PICK k \in Nat : AddrMax + 1 = k * WordSize
  BY WholeWords
<1> HIDE DEF w, r
<1>4. w * WordSize + (WordSize - 1 - r) \in Addr
  <2>1. w < k
    <3> SUFFICES ASSUME k <= w PROVE FALSE
      BY <1>2, <1>3
    <3>1. k * WordSize <= w * WordSize
      BY <1>1, <1>2, <1>3
    <3> QED
      BY <3>1, <1>1, <1>2, <1>3
  <2>2. (w + 1) * WordSize <= k * WordSize
    BY <2>1, <1>1, <1>2, <1>3
  <2>3. (w + 1) * WordSize = w * WordSize + WordSize /\ w * WordSize \in Nat
    BY <1>1, <1>2
  <2> QED
    BY <2>2, <2>3, <1>1, <1>2, <1>3 DEF Addr
<1> QED
  BY <1>4 DEF StoredAt, WordOf, w, r

-----------------------------------------------------------------------------
(***************************************************************************)
(* What the operators of the cache return.                                 *)
(***************************************************************************)
LEMMA PhysIn ==
  ASSUME NEW m \in Modes, NEW a \in Addr
  PROVE  Phys(m, a) \in Addr
BY MemAssumption DEF Phys

LEMMA RangeIn ==
  ASSUME NEW r \in Ranges
  PROVE  /\ r[1] \in Addr /\ r[2] \in Nat \ {0}
         /\ r[1] .. r[1] + r[2] - 1 \subseteq Addr
<1>1. r \in Addr \X (Nat \ {0}) /\ r[1] + r[2] - 1 \in Addr
  BY MemAssumption
<1>2. r[1] \in Addr /\ r[2] \in Nat \ {0}
  BY <1>1
<1>3. AddrMax \in Nat
  BY MemAssumption
<1>4. r[1] .. r[1] + r[2] - 1 \subseteq Addr
  BY <1>1, <1>2, <1>3 DEF Addr
<1> QED
  BY <1>2, <1>4

LEMMA FilledIs ==
  ASSUME TypeOK, NEW m \in Modes, NEW A
  PROVE  /\ Filled(m, A) \in [Modes -> Line]
         /\ \A l \in Modes, a \in Addr :
              \/ Filled(m, A)[l][a] = cache[l][a]
              \/ l = m /\ Filled(m, A)[l][a] = mem[Phys(l, a)]
<1> DEFINE new == [a \in Addr |->
                     IF /\ cache[m][a] = NotCached
                        /\ \E b \in A : LineOf(b) = LineOf(a)
                        /\ LineReadable(m, a)
                       THEN mem[Phys(m, a)] ELSE cache[m][a]]
<1>1. /\ cache \in [Modes -> Line] /\ mem \in Memory
  BY DEF TypeOK, Line, Memory
<1>2. \A a \in Addr : new[a] = cache[m][a] \/ new[a] = mem[Phys(m, a)]
  OBVIOUS
<1>3. new = [a \in Addr |-> new[a]]
  OBVIOUS
<1>4. Filled(m, A) = [cache EXCEPT ![m] = new]
  BY DEF Filled
<1> HIDE DEF new
<1>5. new \in Line
  BY <1>1, <1>2, <1>3, PhysIn DEF Line, Memory
<1> QED
  BY <1>1, <1>2, <1>4, <1>5

LEMMA ReadByteIs ==
  ASSUME TypeOK, NEW m \in Modes, NEW a \in Addr
  PROVE  ReadByte(m, a) \in Byte
BY PhysIn, MemAssumption DEF TypeOK, ReadByte

LEMMA BufferIs ==
  ASSUME TypeOK, NEW a, NEW n, NEW data \in [a .. a + n - 1 -> Byte],
         NEW junk \in Memory
  PROVE  Buffer(a, n, data, junk) \in Memory
<1>1. "M_SUPERVISOR" \in Modes
  BY DEF Modes
<1> QED
  BY <1>1, ReadByteIs DEF Buffer, Memory

LEMMA WriteThruIs ==
  ASSUME NEW c \in [Modes -> Line], NEW ws, NEW buffer \in Memory
  PROVE  /\ WriteThru(c, ws, buffer) \in [Modes -> Line]
         /\ \A a \in Addr :
              WriteThru(c, ws, buffer)["M_SUPERVISOR"][a] =
                IF c["M_SUPERVISOR"][a] # NotCached /\ WordOf(a) \in ws
                  THEN buffer[StoredAt(a)] ELSE c["M_SUPERVISOR"][a]
         /\ WriteThru(c, ws, buffer)["M_USER"] = c["M_USER"]
<1> DEFINE new == [a \in Addr |->
                     IF c["M_SUPERVISOR"][a] # NotCached /\ WordOf(a) \in ws
                       THEN buffer[StoredAt(a)] ELSE c["M_SUPERVISOR"][a]]
<1>1. "M_SUPERVISOR" \in Modes /\ "M_USER" \in Modes
  BY DEF Modes
<1>2. new \in Line
  BY <1>1, StoredAtIn DEF Line, Memory
<1>3. WriteThru(c, ws, buffer) = [c EXCEPT !["M_SUPERVISOR"] = new]
  BY DEF WriteThru
<1>4. \A a \in Addr :
        new[a] = IF c["M_SUPERVISOR"][a] # NotCached /\ WordOf(a) \in ws
                   THEN buffer[StoredAt(a)] ELSE c["M_SUPERVISOR"][a]
  OBVIOUS
<1> HIDE DEF new
<1> QED
  BY <1>1, <1>2, <1>3, <1>4

LEMMA MovedIs ==
  ASSUME TypeOK, NEW s \in Addr, NEW d \in Addr, NEW n \in Nat \ {0},
         s .. s + n - 1 \subseteq Addr, d .. d + n - 1 \subseteq Addr
  PROVE  Moved(s, d, n) \in Memory
<1>1. AddrMax \in Nat /\ s + n - 1 \in Addr /\ s \in Nat /\ d \in Nat
  BY MemAssumption DEF Addr
<1>2. ASSUME NEW x \in Addr PROVE MovedFrom(s, d, n, x) \in Addr
  <2>1. CASE x \notin d .. d + n - 1
    BY <2>1 DEF MovedFrom
  <2>2. CASE x \in d .. d + n - 1 /\ s < d
    <3>1. x - d \in Nat /\ d - s \in Nat \ {0}
      BY <1>1, <2>2
    <3>2. (x - d) % (d - s) \in 0 .. d - s - 1
      BY <3>1, Division
    <3>3. s + ((x - d) % (d - s)) \in s .. d - 1
      BY <1>1, <3>2
    <3>4. s .. d - 1 \subseteq Addr
      BY <1>1 DEF Addr
    <3> QED
      BY <2>2, <3>3, <3>4 DEF MovedFrom
  <2>3. CASE x \in d .. d + n - 1 /\ ~(s < d)
    BY <1>1, <2>3 DEF MovedFrom, Addr
  <2> QED
    BY <2>1, <2>2, <2>3
<1>3. mem \in Memory
  BY DEF TypeOK, Memory
<1> QED
  BY <1>2, <1>3 DEF Moved, Memory

-----------------------------------------------------------------------------
(***************************************************************************)
(* Steps.                                                                  *)
(***************************************************************************)
\* What a step may do to the promises of the two modes.
Misled ==
  /\ Coherent("M_SUPERVISOR") => Coherent("M_SUPERVISOR")' \/ reply' = "rerr"
  /\ Coherent("M_USER") =>
       Coherent("M_USER")' \/ reply' \in {"written", "rerr"}

LEMMA EmptyIs ==
  /\ Empty \in [Modes -> Line]
  /\ \A m \in Modes, a \in Addr : Empty[m][a] = NotCached
BY DEF Empty, Line

\* An empty cache tells no lies.
LEMMA EmptyAfter ==
  ASSUME cache' = Empty, mem' \in Memory, running' \in BOOLEAN,
         reply' \in Replies
  PROVE  IInv' /\ \A m \in Modes : Coherent(m)'
BY EmptyIs DEF IInv, TypeOK, EmptyWhileRunning, Coherent, Memory, Line

LEMMA ReadStep ==
  ASSUME IInv, NEW r \in Ranges, NEW m \in Modes,
         read_inferior_memory(r[1], r[2], m)
  PROVE  IInv' /\ \A l \in Modes : Coherent(l) => Coherent(l)'
<1> DEFINE A == UNION {BytesOf(w) : w \in Words(r[1], r[2])}
<1>1. /\ TypeOK /\ ~running /\ running' = running /\ mem' = mem
      /\ cache' = Filled(m, A) /\ reply' \in Replies
  BY DEF IInv, read_inferior_memory, Replies
<1> HIDE DEF A
<1>2. /\ cache' \in [Modes -> Line]
      /\ \A l \in Modes, a \in Addr :
           \/ cache'[l][a] = cache[l][a] \/ cache'[l][a] = mem[Phys(l, a)]
  BY <1>1, FilledIs
<1>3. IInv'
  BY <1>1, <1>2 DEF IInv, TypeOK, EmptyWhileRunning, Line
<1>4. \A l \in Modes : Coherent(l) => Coherent(l)'
  BY <1>1, <1>2 DEF Coherent
<1> QED
  BY <1>3, <1>4

\* A write of n bytes at a, in the host's byte order when g88 runs on a
\* big-endian machine.
LEMMA WriteStep ==
  ASSUME IInv, NEW r \in Ranges, Write(r[1], r[2])
  PROVE  /\ IInv' /\ reply' \in {"written", "rerr"}
         /\ BigEndianHost /\ Coherent("M_SUPERVISOR") =>
              Coherent("M_SUPERVISOR")' \/ reply' = "rerr"
<1> DEFINE a == r[1]
           n == r[2]
           ws == Words(a, n)
<1>1. PICK data \in [a .. a + n - 1 -> Byte], j \in Byte, done \in 0 .. n,
           stored \in BOOLEAN :
        write_inferior_memory(a, n, data, [x \in Addr |-> j], done, stored)
  BY DEF Write
<1> DEFINE buffer == Buffer(a, n, data, [x \in Addr |-> j])
           filled == Filled("M_SUPERVISOR",
                            UNION {BytesOf(w) : w \in Prefilled(a, n)})
           acked == {w \in ws : w < WordOf(a) + done}
           tried == {w \in ws : w =< WordOf(a) + done}
           inmem == IF stored THEN tried ELSE acked
<1>2. /\ TypeOK /\ ~running /\ running' = running
      /\ acked = ws => ~stored
      /\ cache' = WriteThru(filled, tried, buffer)
      /\ mem' = Stored(inmem, buffer)
      /\ reply' = IF acked = ws THEN "written" ELSE "rerr"
  BY <1>1 DEF IInv, write_inferior_memory
<1>3. buffer \in Memory
  <2>1. [x \in Addr |-> j] \in Memory
    BY DEF Memory
  <2> QED
    BY <2>1, <1>2, BufferIs
<1>4. /\ filled \in [Modes -> Line]
      /\ \A x \in Addr :
           \/ filled["M_SUPERVISOR"][x] = cache["M_SUPERVISOR"][x]
           \/ filled["M_SUPERVISOR"][x] = mem[x]
  <2>1. "M_SUPERVISOR" \in Modes
    BY DEF Modes
  <2>2. \A x : Phys("M_SUPERVISOR", x) = x
    BY DEF Phys
  <2> QED
    BY <1>2, <2>1, <2>2, FilledIs
<1>5. acked = ws => tried = ws /\ inmem = ws
  <2>1. WordOf(a) \in Int /\ ws \subseteq Int
    BY RangeIn, MemAssumption DEF WordOf, Words, Addr
  <2>2. acked \subseteq tried
    BY <2>1
  <2> QED
    BY <1>2, <2>2
<1> HIDE DEF buffer, filled, acked, tried, inmem, ws
<1>6. /\ cache' \in [Modes -> Line]
      /\ \A x \in Addr :
           cache'["M_SUPERVISOR"][x] =
             IF filled["M_SUPERVISOR"][x] # NotCached /\ WordOf(x) \in tried
               THEN buffer[StoredAt(x)] ELSE filled["M_SUPERVISOR"][x]
  BY <1>2, <1>3, <1>4, WriteThruIs
<1>7. mem' \in Memory /\ \A x \in Addr :
        mem'[x] = IF WordOf(x) \in inmem THEN buffer[x] ELSE mem[x]
  BY <1>2, <1>3 DEF TypeOK, Memory, Stored
<1>8. IInv' /\ reply' \in {"written", "rerr"}
  BY <1>2, <1>6, <1>7
  DEF IInv, TypeOK, EmptyWhileRunning, Replies, Memory, Line
<1>9. ASSUME BigEndianHost, Coherent("M_SUPERVISOR"), acked = ws
      PROVE  Coherent("M_SUPERVISOR")'
  <2>1. \A x : StoredAt(x) = x /\ Phys("M_SUPERVISOR", x) = x
    BY <1>9 DEF StoredAt, Phys
  <2>2. \A x \in Addr : cache["M_SUPERVISOR"][x] \in {NotCached, mem[x]}
    BY <1>9, <2>1 DEF Coherent
  <2>3. \A x \in Addr : cache'["M_SUPERVISOR"][x] \in {NotCached, mem'[x]}
    BY <1>4, <1>5, <1>6, <1>7, <1>9, <2>1, <2>2
  <2> QED
    BY <2>1, <2>3 DEF Coherent
<1> QED
  BY <1>2, <1>8, <1>9

LEMMA InvStep ==
  ASSUME IInv, [Next]_vars
  PROVE  /\ IInv' /\ (BigEndianHost => Misled)
         /\ Coherent("M_USER") =>
              Coherent("M_USER")' \/ reply' \in {"written", "rerr"}
<1> DEFINE Kept == IInv' /\ \A m \in Modes : Coherent(m) => Coherent(m)'
<1>0. /\ "M_USER" \in Modes /\ "M_SUPERVISOR" \in Modes
      /\ mem \in Memory /\ running \in BOOLEAN /\ reply \in Replies
      /\ TypeOK /\ EmptyWhileRunning
  BY DEF Modes, IInv, TypeOK, Memory
<1>1. ASSUME NEW r \in Ranges, NEW m \in Modes,
             read_inferior_memory(r[1], r[2], m)
      PROVE  Kept
  BY <1>1, ReadStep
<1>2. ASSUME NEW r \in Ranges, remote_zeromem(r[1], r[2])
      PROVE  Kept
  <2>1. /\ cache' = Empty /\ running' = running /\ reply' = "ok"
        /\ mem' = [x \in Addr |-> IF x \in r[1] .. r[1] + r[2] - 1 THEN 0
                                  ELSE mem[x]]
    BY <1>2 DEF remote_zeromem, invalidate_mem_cache
  <2>2. mem' \in Memory
    BY <1>0, <2>1, MemAssumption DEF Memory
  <2> QED
    BY <1>0, <2>1, <2>2, EmptyAfter DEF Replies
<1>3. ASSUME NEW r \in Ranges, NEW d \in Addr, remote_copymem(r[1], d, r[2])
      PROVE  Kept
  <2>1. /\ cache' = Empty /\ running' = running /\ reply' = "ok"
        /\ mem' = Moved(r[1], d, r[2])
        /\ d .. d + r[2] - 1 \subseteq Addr
    BY <1>3 DEF remote_copymem, invalidate_mem_cache
  <2>2. mem' \in Memory
    BY <1>0, <2>1, RangeIn, MovedIs
  <2> QED
    BY <1>0, <2>1, <2>2, EmptyAfter DEF Replies
<1>4. ASSUME go_remote PROVE Kept
  <2>1. cache' = Empty /\ running' = TRUE /\ reply' = "ok" /\ mem' = mem
    BY <1>4 DEF go_remote, invalidate_mem_cache
  <2>2. running' \in BOOLEAN
    BY <1>4 DEF go_remote
  <2> QED
    BY <1>0, <2>1, <2>2, EmptyAfter DEF Replies
<1>5. ASSUME NEW a \in Addr, NEW v \in Byte, TargetStore(a, v)
      PROVE  Kept
  <2>1. /\ cache' = Empty /\ running' = running /\ reply' = reply
        /\ mem' = [mem EXCEPT ![a] = v]
    BY <1>0, <1>5 DEF TargetStore, EmptyWhileRunning
  <2>2. mem' \in Memory
    BY <1>0, <2>1 DEF Memory
  <2> QED
    BY <1>0, <2>1, <2>2, EmptyAfter
<1>6. ASSUME Stop PROVE Kept
  <2>1. cache' = Empty /\ running' = FALSE /\ reply' = reply /\ mem' = mem
    BY <1>6 DEF Stop, invalidate_mem_cache
  <2>2. running' \in BOOLEAN
    BY <1>6 DEF Stop
  <2> QED
    BY <1>0, <2>1, <2>2, EmptyAfter
<1>7. ASSUME UNCHANGED vars PROVE Kept
  <2>1. mem' = mem /\ cache' = cache /\ running' = running /\ reply' = reply
    BY <1>7 DEF vars
  <2>2. \A m \in Modes : Coherent(m) => Coherent(m)'
    BY <2>1 DEF Coherent
  <2>3. TypeOK'
    BY <1>0, <2>1 DEF TypeOK
  <2>4. EmptyWhileRunning'
    BY <1>0, <2>1 DEF EmptyWhileRunning
  <2> QED
    BY <2>2, <2>3, <2>4 DEF IInv
<1>8. Kept => /\ IInv' /\ (BigEndianHost => Misled)
              /\ Coherent("M_USER") =>
                   Coherent("M_USER")' \/ reply' \in {"written", "rerr"}
  BY <1>0 DEF Misled
<1>9. ASSUME NEW r \in Ranges, Write(r[1], r[2])
      PROVE  /\ IInv' /\ (BigEndianHost => Misled)
             /\ Coherent("M_USER") =>
                  Coherent("M_USER")' \/ reply' \in {"written", "rerr"}
  BY <1>9, WriteStep DEF Misled
<1> HIDE DEF Kept
<1> QED
  BY <1>1, <1>2, <1>3, <1>4, <1>5, <1>6, <1>7, <1>8, <1>9 DEF Next

-----------------------------------------------------------------------------
(***************************************************************************)
(* The theorems.                                                           *)
(***************************************************************************)
LEMMA InitInv == Init => IInv
<1> SUFFICES ASSUME Init PROVE IInv
  OBVIOUS
<1>1. mem \in Memory /\ cache \in [Modes -> Line]
  BY EmptyIs, MemAssumption DEF Init, Memory
<1>2. running \in BOOLEAN /\ reply \in Replies /\ EmptyWhileRunning
  BY Zenon DEF Init, Replies, EmptyWhileRunning
<1> QED
  BY <1>1, <1>2 DEF IInv, TypeOK, Memory, Line

LEMMA Inductive == Spec => []IInv
<1>1. IInv /\ [Next]_vars => IInv'
  BY InvStep
<1> QED
  BY InitInv, <1>1, PTL DEF Spec

\* Whatever is read, written at any alignment, filled, moved and stored by the
\* program, the memory holds bytes and the cache holds bytes or nothing.
THEOREM TypeCorrect == Spec => []TypeOK
<1>1. IInv => TypeOK
  BY DEF IInv
<1> QED
  BY Inductive, <1>1, PTL

\* On a big-endian host only a write that was abandoned can make the cache of
\* supervisor space lie.
THEOREM FailedWritesMislead ==
  ASSUME BigEndianHost
  PROVE  Spec => OnlyFailedWritesMislead
<1>1. IInv /\ [Next]_vars =>
        [Coherent("M_SUPERVISOR") =>
           Coherent("M_SUPERVISOR")' \/ reply' = "rerr"]_vars
  BY InvStep DEF Misled
<1> QED
  BY Inductive, <1>1, PTL DEF Spec, OnlyFailedWritesMislead

\* Only a write can make the cache of user space lie, on any host.
THEOREM WritesMisleadUsers == Spec => OnlyWritesMisleadUsers
<1>1. IInv /\ [Next]_vars =>
        [Coherent("M_USER") =>
           Coherent("M_USER")' \/ reply' \in {"written", "rerr"}]_vars
  BY InvStep
<1> QED
  BY Inductive, <1>1, PTL DEF Spec, OnlyWritesMisleadUsers

\* The word in which the data ends is fetched before it is written, unless the
\* data ends with it or the write has one word only.
LEMMA TailPrefilled ==
  ASSUME NEW a \in Addr, NEW n \in Nat \ {0}, NEW x \in Addr,
         a + n - 1 \in Addr, x >= a + n,
         WordOf(x) \in Words(a, n) \ {WordOf(a)}
  PROVE  WordOf(x) \in Prefilled(a, n)
<1> DEFINE e == a + n - 1
           w == WordSize
<1>1. /\ w \in Nat \ {0} /\ a \in Nat /\ x \in Nat /\ e \in Nat /\ n \in Nat
      /\ e < x /\ e + 1 = a + n
  BY MemAssumption DEF Addr
<1>2. /\ WordOf(a) \in Nat /\ WordOf(x) \in Nat /\ WordOf(e) \in Nat
      /\ WordOf(x) <= WordOf(e) /\ WordOf(a) # WordOf(x)
      /\ WordOf(x) \in Words(a, n)
  <2>1. \A b \in Nat : WordOf(b) \in Nat
    BY <1>1, Division DEF WordOf
  <2>2. Words(a, n) = WordOf(a) .. WordOf(e)
    BY DEF Words
  <2> QED
    BY <1>1, <2>1, <2>2
<1>3. WordOf(x) >= WordOf(e)
  BY <1>1, DivisionMonotone DEF WordOf
<1>4. WordOf(x) = WordOf(e) /\ Words(a, n) # {WordOf(a)}
  BY <1>2, <1>3
<1>5. (a + n) % w # 0
  <2> SUFFICES ASSUME (e + 1) % w = 0 PROVE FALSE
    BY <1>1, Zenon
  <2> DEFINE z == e + 1
             q == z \div w
             u == WordOf(e)
             v == e % w
             y == x % w
  <2>1. q \in Nat /\ 0 = z - w * q /\ z = e + 1
    <3>1. z \in Nat /\ z % w = 0
      BY <1>1
    <3>2. q \in Nat /\ z % w = z - w * q
      <4> HIDE DEF z
      <4> QED
        BY <1>1, <3>1, Division
    <3>3. 0 = z - w * q
      BY <3>1, <3>2, Zenon
    <3> QED
      BY <3>2, <3>3
  <2>2. u \in Nat /\ v \in 0 .. w - 1 /\ v = e - w * u
    BY <1>1, Division DEF WordOf
  <2>3. y \in 0 .. w - 1 /\ y = x - w * u
    BY <1>1, <1>4, Division DEF WordOf
  <2> HIDE DEF z, q, u, v, y, w, e
  <2>4. w * u <= e /\ x < w * u + w /\ w * u \in Nat /\ e + 1 = w * q
    BY <1>1, <2>1, <2>2, <2>3
  <2>5. w * u < w * q /\ w * q < w * u + w
    BY <1>1, <2>1, <2>4
  <2>6. CASE q <= u
    <3>1. w * q <= w * u
      BY <1>1, <2>1, <2>2, <2>6
    <3> QED
      BY <3>1, <2>5, <1>1, <2>1, <2>2
  <2>7. CASE q >= u + 1
    <3>1. w * (u + 1) <= w * q
      BY <1>1, <2>1, <2>2, <2>7
    <3>2. w * (u + 1) = w * u + w
      BY <1>1, <2>2
    <3> QED
      BY <3>1, <3>2, <2>5, <1>1, <2>1, <2>2
  <2> QED
    BY <2>1, <2>2, <2>6, <2>7
<1> QED
  BY <1>4, <1>5 DEF Prefilled

\* Behind its data, in every word but the first, a write sends what the target
\* holds there, whatever the word size and the range (write_inferior_memory).
THEOREM TailIsKept == Spec => []TailKept
<1>1. IInv => TailKept
  <2> SUFFICES ASSUME IInv, Coherent("M_SUPERVISOR"),
                      NEW r \in Ranges, NEW x \in Addr,
                      WordOf(x) \in Words(r[1], r[2]) \ {WordOf(r[1])},
                      x \notin r[1] .. r[1] + r[2] - 1,
                      BytesOf(WordOf(x)) \cap Absent = {}
               PROVE  Buffer(r[1], r[2], mem, [y \in Addr |-> NotCached])[x]
                        = mem[x]
    BY DEF TailKept
  <2>1. /\ r[1] \in Addr /\ r[2] \in Nat \ {0} /\ r[1] + r[2] - 1 \in Addr
    BY RangeIn, MemAssumption
  <2>2. \A b : Phys("M_SUPERVISOR", b) = b
    BY DEF Phys
  <2>3. x >= r[1] + r[2]
    <3>1. x \in Nat /\ r[1] \in Nat /\ WordSize \in Nat \ {0}
      BY <2>1, MemAssumption DEF Addr
    <3>2. x <= r[1] => WordOf(x) <= WordOf(r[1])
      BY <3>1, DivisionMonotone DEF WordOf
    <3>3. WordOf(x) >= WordOf(r[1])
      BY <3>1 DEF Words, WordOf
    <3>4. WordOf(x) \in Nat /\ WordOf(r[1]) \in Nat
      BY <3>1, Division DEF WordOf
    <3>5. ~(x <= r[1])
      BY <3>2, <3>3, <3>4
    <3> QED BY <3>1, <3>5, <2>1
  <2>4. WordOf(x) \in Prefilled(r[1], r[2])
    BY <2>1, <2>3, TailPrefilled
  <2>5. \A b \in BytesOf(WordOf(x)) : Readable("M_SUPERVISOR", b)
    BY <2>2 DEF Readable
  <2>6. cache["M_SUPERVISOR"][x] \in {NotCached, mem[x]}
    BY <2>2 DEF Coherent
  <2>7. ReadByte("M_SUPERVISOR", x) = mem[x]
    BY <2>2, <2>5, <2>6 DEF ReadByte
  <2> QED
    BY <2>4, <2>7 DEF Buffer
<1> QED
  BY Inductive, <1>1, PTL
=============================================================================
