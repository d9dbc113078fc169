------------------------------ MODULE MemCache ------------------------------
(***************************************************************************)
(* g88's view of target memory: read_inferior_memory and                   *)
(* write_inferior_memory (m88k-dep.c) on top of the line cache that        *)
(* remmem.c keeps between the debugger and the serial line.                *)
(*                                                                         *)
(* An address names a byte.  The user and the supervisor space show the    *)
(* same physical bytes through UserMap and the identity.  A step is one    *)
(* command of the user with every transaction that it makes: the target is *)
(* stopped then, and the debugger has one thread.  A transaction may end   *)
(* in C_DATAERROR or in a communication error, which unwinds the command   *)
(* (rerr).                                                                 *)
(***************************************************************************)
EXTENDS Integers

CONSTANTS
  AddrMax,        \* addresses are 0 .. AddrMax
  WordSize,       \* bytes per word (4 in the code)
  LineSize,       \* bytes per cache line (CACHELINESIZE, 128 in the code)
  Byte,           \* the values of a byte, 0 among them
  NotCached,      \* the cache's "no line here"
  Absent,         \* physical addresses that raise a data access exception
  UserMap,        \* the physical address behind each user address
  Ranges,         \* the <<address, length>> pairs that commands name
  BigEndianHost   \* g88 itself runs on a big-endian machine

Addr  == 0 .. AddrMax
Modes == {"M_USER", "M_SUPERVISOR"}

ASSUME MemAssumption ==
  /\ AddrMax \in Nat /\ WordSize \in Nat \ {0} /\ LineSize \in Nat \ {0}
  /\ LineSize % WordSize = 0 /\ (AddrMax + 1) % LineSize = 0
  /\ 0 \in Byte /\ NotCached \notin Byte
  /\ Absent \subseteq Addr
  /\ UserMap \in [Addr -> Addr]
  /\ Ranges \subseteq Addr \X (Nat \ {0})
  /\ \A r \in Ranges : r[1] + r[2] - 1 \in Addr
  /\ BigEndianHost \in BOOLEAN

VARIABLES
  mem,       \* the target's physical memory
  cache,     \* cache[m][a]: the byte mem_cache holds for a in mode m
  running,   \* target_running
  reply      \* how the last command ended

vars == <<mem, cache, running, reply>>

WordOf(a) == a \div WordSize
LineOf(a) == a \div LineSize

\* The words that bytes a .. a+n-1 touch, and the bytes of word w.
Words(a, n) == WordOf(a) .. WordOf(a + n - 1)
BytesOf(w)  == w * WordSize .. w * WordSize + WordSize - 1

Phys(m, a) == IF m = "M_USER" THEN UserMap[a] ELSE a

\* Can the target read the address, and the whole line around it?
Readable(m, a)     == Phys(m, a) \notin Absent
LineReadable(m, a) == \A b \in Addr : LineOf(b) = LineOf(a) => Readable(m, b)

Empty == [m \in Modes |-> [a \in Addr |-> NotCached]]

\* ok, written: success; dacc: success although the target got a data access
\* exception; rerr: a write that was abandoned.
Replies == {"ok", "dacc", "written", "rerr"}

Init ==
  /\ mem = [a \in Addr |-> 0]
  /\ cache = Empty
  /\ running = FALSE
  /\ reply = "ok"

-----------------------------------------------------------------------------
(* remmem.c                                                                *)

\* The cache after read_remote has been asked for every byte of A: a missing
\* line is read from the target as a whole, unless that fails.
Filled(m, A) ==
  [cache EXCEPT ![m] =
     [a \in Addr |->
        IF /\ cache[m][a] = NotCached
           /\ \E b \in A : LineOf(b) = LineOf(a)
           /\ LineReadable(m, a)
          THEN mem[Phys(m, a)] ELSE cache[m][a]]]

\* Mutant: take the line for granted when it could not be read.
ReadByte_unforced(m, a) == cache[m][a]

\* The byte that read_remote returns for a: from the line if there is or can
\* be one, else from forced_read_remote, which returns zeros for a word that
\* the target cannot read.
ReadByte(m, a) ==
  IF cache[m][a] # NotCached THEN cache[m][a]
  ELSE IF \A b \in BytesOf(WordOf(a)) : Readable(m, b) THEN mem[Phys(m, a)]
  ELSE 0

\* remote_errno after reading word w.
ReadFails(m, w) ==
  \E a \in BytesOf(w) : cache[m][a] = NotCached /\ ~Readable(m, a)

\* The position at which write_thru_mem_cache puts byte a of a word: the
\* word is stored in the host's byte order, the line is in the target's.
StoredAt(a) ==
  IF BigEndianHost THEN a
  ELSE WordOf(a) * WordSize + (WordSize - 1 - (a % WordSize))

\* write_thru_mem_cache for the words in ws of buffer: only a line that is
\* there is updated, and only the one of the mode we write in.
WriteThru(c, ws, buffer) ==
  [c EXCEPT !["M_SUPERVISOR"] =
     [a \in Addr |-> IF c["M_SUPERVISOR"][a] # NotCached /\ WordOf(a) \in ws
                       THEN buffer[StoredAt(a)] ELSE c["M_SUPERVISOR"][a]]]

\* The memory after the target has stored the words in ws of buffer.
Stored(ws, buffer) ==
  [a \in Addr |-> IF WordOf(a) \in ws THEN buffer[a] ELSE mem[a]]

invalidate_mem_cache == cache' = Empty

-----------------------------------------------------------------------------
(* m88k-dep.c                                                              *)

\* read_inferior_memory: read the words around the bytes.  It looks at
\* errno, which a failing remote_fetch_word does not set.
read_inferior_memory(a, n, m) ==
  LET ws == Words(a, n) IN
    /\ ~running
    /\ cache' = Filled(m, UNION {BytesOf(w) : w \in ws})
    /\ reply' = IF \E w \in ws : ReadFails(m, w) THEN "dacc" ELSE "ok"
    /\ UNCHANGED <<mem, running>>

\* Mutant: fetch the first word when there are several, never the last.
Prefilled_first(a, n) ==
  IF (a + n) % WordSize # 0 /\ Words(a, n) # {WordOf(a)}
    THEN {WordOf(a)} ELSE {}

\* The words that write_inferior_memory fetches before it overlays the data:
\* addr has been rounded down, so the test for a partial first word is
\* always false; the last one is fetched when there is more than one.
Prefilled(a, n) ==
  IF (a + n) % WordSize # 0 /\ Words(a, n) # {WordOf(a)}
    THEN {WordOf(a + n - 1)} ELSE {}

\* The buffer of words: the data, the prefilled words around it, and what
\* alloca left on the stack (junk).
Buffer(a, n, data, junk) ==
  [x \in Addr |-> IF x \in a .. a + n - 1 THEN data[x]
                  ELSE IF WordOf(x) \in Prefilled(a, n)
                         THEN ReadByte("M_SUPERVISOR", x) ELSE junk[x]]

\* write_inferior_memory of n bytes at a.  The target acknowledges the first
\* done words.  If that is not all, the next one fails: the cache has been
\* written through by then, the memory has not (or it has, and the C_ACK was
\* lost).
write_inferior_memory(a, n, data, junk, done, stored) ==
  LET ws     == Words(a, n)
      buffer == Buffer(a, n, data, junk)
      filled == Filled("M_SUPERVISOR",
                       UNION {BytesOf(w) : w \in Prefilled(a, n)})
      acked  == {w \in ws : w < WordOf(a) + done}
      tried  == {w \in ws : w =< WordOf(a) + done}
      inmem  == IF stored THEN tried ELSE acked
  IN /\ ~running
     /\ WordOf(a) + done =< WordOf(a + n - 1) + 1
     /\ acked = ws => ~stored
     /\ \A w \in inmem : BytesOf(w) \cap Absent = {}
     /\ cache' = WriteThru(filled, tried, buffer)
     /\ mem' = Stored(inmem, buffer)
     /\ reply' = IF acked = ws THEN "written" ELSE "rerr"
     /\ UNCHANGED running

\* remote_zeromem: invalidate, then have the target fill with zeros.
remote_zeromem(a, n) ==
  /\ ~running
  /\ a .. a + n - 1 \subseteq Addr \ Absent
  /\ invalidate_mem_cache
  /\ mem' = [x \in Addr |-> IF x \in a .. a + n - 1 THEN 0 ELSE mem[x]]
  /\ reply' = "ok"
  /\ UNCHANGED running

\* move_cmd copies n bytes from s to d upwards, one at a time: the address
\* whose byte is at x afterwards.  Where a block runs into its own copy, its
\* first d - s bytes repeat.
MovedFrom(s, d, n, x) ==
  IF x \notin d .. d + n - 1 THEN x
  ELSE IF s < d THEN s + ((x - d) % (d - s))
  ELSE s + (x - d)

Moved(s, d, n) == [x \in Addr |-> mem[MovedFrom(s, d, n, x)]]

\* Mutant: let the target move the block behind the cache's back.
remote_copymem_cached(s, d, n) ==
  /\ ~running
  /\ (s .. s + n - 1) \cup (d .. d + n - 1) \subseteq Addr \ Absent
  /\ UNCHANGED cache
  /\ mem' = Moved(s, d, n)
  /\ reply' = "ok"
  /\ UNCHANGED running

\* remote_copymem: invalidate, then have the target move the block.
remote_copymem(s, d, n) ==
  /\ ~running
  /\ (s .. s + n - 1) \cup (d .. d + n - 1) \subseteq Addr \ Absent
  /\ invalidate_mem_cache
  /\ mem' = Moved(s, d, n)
  /\ reply' = "ok"
  /\ UNCHANGED running

\* Mutant: the cache survives execution.
go_remote_cached ==
  /\ ~running
  /\ running' = TRUE
  /\ reply' = "ok"
  /\ UNCHANGED <<mem, cache>>

\* go_remote and ss_remote invalidate and let the target execute.
go_remote ==
  /\ ~running
  /\ invalidate_mem_cache
  /\ running' = TRUE
  /\ reply' = "ok"
  /\ UNCHANGED mem

\* The program stores a byte while it runs.
TargetStore(a, v) ==
  /\ running
  /\ a \notin Absent
  /\ mem' = [mem EXCEPT ![a] = v]
  /\ UNCHANGED <<cache, running, reply>>

\* C_EXCEPTION arrives: wait_for_exception selects the CPU that stopped,
\* which asks in_monitor, which invalidates once more.
Stop ==
  /\ running
  /\ running' = FALSE
  /\ invalidate_mem_cache
  /\ UNCHANGED <<mem, reply>>

-----------------------------------------------------------------------------

Write(a, n) ==
  \E data \in [a .. a + n - 1 -> Byte], j \in Byte,
     done \in 0 .. n, stored \in BOOLEAN :
       write_inferior_memory(a, n, data, [x \in Addr |-> j], done, stored)

Next ==
  \/ \E r \in Ranges, m \in Modes : read_inferior_memory(r[1], r[2], m)
  \/ \E r \in Ranges : Write(r[1], r[2])
  \/ \E r \in Ranges : remote_zeromem(r[1], r[2])
  \/ \E r \in Ranges, d \in Addr : remote_copymem(r[1], d, r[2])
  \/ go_remote
  \/ \E a \in Addr, v \in Byte : TargetStore(a, v)
  \/ Stop

Spec == Init /\ [][Next]_vars

-----------------------------------------------------------------------------

TypeOK ==
  /\ mem \in [Addr -> Byte]
  /\ cache \in [Modes -> [Addr -> Byte \cup {NotCached}]]
  /\ running \in BOOLEAN
  /\ reply \in Replies

\* What g88 would show for mode m is what the target holds.
Coherent(m) ==
  \A a \in Addr : cache[m][a] \in {NotCached, mem[Phys(m, a)]}

\* For supervisor space, the only way to make the cache lie is a write that
\* did not end well: write_thru_mem_cache runs before the transaction.
\* Reads, fills, moves, stores of the running program and complete writes of
\* any alignment keep the promise.
OnlyFailedWritesMislead ==
  [][Coherent("M_SUPERVISOR") =>
       Coherent("M_SUPERVISOR")' \/ reply' = "rerr"]_vars

\* For user space, a write does it too: it goes through supervisor space and
\* leaves the user lines of the same bytes as they were.
OnlyWritesMisleadUsers ==
  [][Coherent("M_USER") =>
       Coherent("M_USER")' \/ reply' \in {"written", "rerr"}]_vars

\* A write sends the target's own bytes behind its data, in every word but the
\* first, however much of the line has been fetched, written through or left
\* unread before.  This says nothing of the first word, of which nothing is
\* fetched (m88k-dep.c:238): a write that fits in one word is not covered.
TailKept ==
  Coherent("M_SUPERVISOR") =>
    \A r \in Ranges, x \in Addr :
      /\ WordOf(x) \in Words(r[1], r[2]) \ {WordOf(r[1])}
      /\ x \notin r[1] .. r[1] + r[2] - 1
      /\ BytesOf(WordOf(x)) \cap Absent = {}
      => Buffer(r[1], r[2], mem, [y \in Addr |-> NotCached])[x] = mem[x]

\* What the comment of write_inferior_memory says of every write: a partial
\* word at its edge is not destroyed, so that a write that ends well changes
\* no byte that no command names (m88k-dep.c:230-266).
NamedBytesOnly ==
  [][reply' = "written" =>
       \A x \in Addr : mem'[x] # mem[x] =>
         \E r \in Ranges : x \in r[1] .. r[1] + r[2] - 1]_vars
=============================================================================
