---------------------------- MODULE RemoteProofs ----------------------------
(***************************************************************************)
(* The two ends of the line between the host and the target.               *)
(*                                                                         *)
(* HMon: what its runs check on two CPUs, proved for any number of them:   *)
(* one speaker on the line, no program running on a CPU that claims to be  *)
(* in the monitor, and the permanence of the deaf state that a re-entry    *)
(* while holding the mutex leads to.                                       *)
(*                                                                         *)
(* Link, for every number of commands, of faults of the line and of        *)
(* control-Cs within control-Cs: the types hold; a command that ends       *)
(* without an error message has had its own reply; and then nothing is on  *)
(* its way and the monitor listens.                                        *)
(***************************************************************************)
EXTENDS Link, HMon, SequenceTheorems, TLAPS

-----------------------------------------------------------------------------
(***************************************************************************)
(* The debug monitor.                                                      *)
(***************************************************************************)
\* What the mutex word says about the owner of the line: nobody converses
\* while it is zero.  (The converse fails: see AbortAnswered.)
OwnerKeepsMutex == \A p \in CPUS : pc[p] \in Conversing => mutex # 0

\* The inductive invariant.
MonInv ==
  /\ MonTypeOK
  /\ OwnerKeepsMutex
  /\ MutualExclusion
  /\ InMonIsInMonitor

\* whoami never stores the value that means "free" (monlow.s, mutex).
LEMMA WhoamiNotZero ==
  ASSUME NEW p \in CPUS
  PROVE  whoami(p) \in 1 .. NCPU
  BY NCPUAssumption DEF CPUS, whoami

\* Init establishes the invariant.
LEMMA InitInv == MonInit => MonInv
  <1> SUFFICES ASSUME MonInit PROVE MonInv
    OBVIOUS
  <1>1. MonTypeOK
    <2>1. 0 \in 0 .. NCPU /\ 0 \in 0 .. RestartLimit + 1
      BY NCPUAssumption DEF RestartLimit
    <2>2. pc \in [CPUS -> PCs] /\ code \in [CPUS -> Codes]
          /\ report \in Reports
      BY DEF MonInit, PCs, Codes, Reports
    <2> QED BY <2>1, <2>2 DEF MonInit, MonTypeOK
  <1>2. OwnerKeepsMutex /\ MutualExclusion /\ InMonIsInMonitor
    BY DEF MonInit, OwnerKeepsMutex, MutualExclusion, InMonIsInMonitor,
           Conversing, CPUS
  <1> QED BY <1>1, <1>2 DEF MonInv

\* A reset of the machine re-establishes it.
LEMMA ResetInv == MachineReset => MonInv'
  <1> SUFFICES ASSUME MachineReset PROVE MonInv'
    OBVIOUS
  <1>1. MonTypeOK'
    <2>1. 0 \in 0 .. NCPU /\ 0 \in 0 .. RestartLimit + 1
      BY NCPUAssumption DEF RestartLimit
    <2>2. pc' \in [CPUS -> PCs] /\ code' \in [CPUS -> Codes]
          /\ report' \in Reports
      BY DEF MachineReset, PCs, Codes, Reports
    <2> QED BY <2>1, <2>2 DEF MachineReset, MonTypeOK
  <1>2. OwnerKeepsMutex' /\ MutualExclusion' /\ InMonIsInMonitor'
    BY DEF MachineReset, OwnerKeepsMutex, MutualExclusion, InMonIsInMonitor,
           Conversing, CPUS
  <1> QED BY <1>1, <1>2 DEF MonInv

\* Type correctness is preserved by every step (montraps.h, mon.h).
LEMMA TypeStep ==
  ASSUME MonInv, [MonNext]_monvars
  PROVE  MonTypeOK'
  <1> USE DEF MonInv
  <1> USE DEF MonTypeOK, PCs, Codes, Reports, RestartLimit, Goto
  <1>1. ASSUME NEW p \in CPUS, Monitor(p) PROVE MonTypeOK'
    <2>1. CASE DebugMonEntry(p) \/ talk_to_host(p) \/ SetInMon(p)
               \/ TestInMon(p) \/ NoAbort(p) \/ ClearAbort(p)
      <3>1. CASE DebugMonEntry(p) \/ NoAbort(p) \/ ClearAbort(p)
        BY <3>1 DEF DebugMonEntry, NoAbort, ClearAbort
      <3>2. CASE talk_to_host(p)
        BY <3>2 DEF talk_to_host
      <3>3. CASE SetInMon(p) \/ TestInMon(p)
        BY <3>3 DEF SetInMon, TestInMon
      <3> QED
        BY <2>1, <3>1, <3>2, <3>3
    <2>2. CASE Acquire(p) \/ TakeOver(p)
      BY <2>2, WhoamiNotZero, NCPUAssumption
         DEF Acquire, TakeOver, acquire_host_comm_mutex
    <2>3. CASE GoClear(p)
      <3>1. goidx[p] \in 0 .. NCPU /\ goidx[p] < NCPU
        BY <2>3 DEF GoClear
      <3>2. goidx[p] + 1 \in 0 .. NCPU
        BY <3>1, NCPUAssumption
      <3> QED BY <2>3, <3>2 DEF GoClear
    <2>4. CASE GoReturn(p)
      <3>1. 0 \in 0 .. NCPU
        BY NCPUAssumption
      <3> QED BY <2>4, <3>1 DEF GoReturn
    <2> QED BY <1>1, <2>1, <2>2, <2>3, <2>4 DEF Monitor
  <1>2. ASSUME NEW p \in CPUS, Program(p) PROVE MonTypeOK'
    <2>1. CASE \E k \in {"INT", "BPT", "DACC"} : Exception(p, k)
      BY <2>1 DEF Exception, SavedImage
    <2>2. CASE DbCall(p) \/ DbDone(p) \/ DbDataAccEx(p)
      BY <2>2, NCPUAssumption DEF DbCall, DbDone, DbDataAccEx, SavedImage,
                  release_host_comm_mutex
    <2>3. CASE DbAcquire(p)
      BY <2>3, WhoamiNotZero, NCPUAssumption
         DEF DbAcquire, acquire_host_comm_mutex
    <2> QED BY <1>2, <2>1, <2>2, <2>3 DEF Program
  <1>3. ASSUME NEW p \in CPUS, Conversation(p) PROVE MonTypeOK'
    <2>1. CASE \E S \in SUBSET CPUS : GoAck(p, S)
      BY <2>1, NCPUAssumption DEF GoAck, release_host_comm_mutex
    <2>2. CASE DataAccEx(p)
      BY <2>2 DEF DataAccEx, SavedImage
    <2>3. CASE xrestart(p) /\ ~MachineReset
      <3>1. restarts[p] + 1 \in 0 .. RestartLimit + 1
        BY <2>3 DEF xrestart
      <3> QED BY <2>3, <3>1 DEF xrestart
    <2>4. CASE MachineReset
      BY <2>4, ResetInv
    <2> QED BY <1>3, <2>1, <2>2, <2>3, <2>4 DEF Conversation, DuartReset
  <1>4. CASE Abort
    BY <1>4 DEF Abort
  <1>5. CASE UNCHANGED monvars
    BY <1>5 DEF monvars
  <1> QED BY <1>1, <1>2, <1>3, <1>4, <1>5 DEF MonNext

\* A step changes the mutex and the set of speakers together: acquiring
\* needs a free mutex, and only the speaker frees it (monlow.s:931-960).
LEMMA OwnerStep ==
  ASSUME MonInv, [MonNext]_monvars
  PROVE  OwnerKeepsMutex' /\ MutualExclusion'
  <1> USE DEF MonInv
  <1> USE DEF MonTypeOK, OwnerKeepsMutex, MutualExclusion, Conversing, Goto
  <1>1. ASSUME NEW p \in CPUS, Monitor(p)
        PROVE  OwnerKeepsMutex' /\ MutualExclusion'
    <2>1. CASE DebugMonEntry(p) \/ talk_to_host(p) \/ SetInMon(p)
               \/ TestInMon(p) \/ NoAbort(p) \/ ClearAbort(p)
      BY <2>1 DEF DebugMonEntry, talk_to_host, SetInMon, TestInMon, NoAbort,
                  ClearAbort
    <2>2. CASE Acquire(p) \/ TakeOver(p)
      BY <2>2, WhoamiNotZero
         DEF Acquire, TakeOver, acquire_host_comm_mutex, GotMutex
    <2>3. CASE GoClear(p) \/ GoReturn(p)
      BY <2>3 DEF GoClear, GoReturn
    <2> QED BY <1>1, <2>1, <2>2, <2>3 DEF Monitor
  <1>2. ASSUME NEW p \in CPUS, Program(p)
        PROVE  OwnerKeepsMutex' /\ MutualExclusion'
    <2>1. CASE \E k \in {"INT", "BPT", "DACC"} : Exception(p, k)
      BY <2>1 DEF Exception
    <2>2. CASE DbCall(p) \/ DbDone(p) \/ DbDataAccEx(p)
      BY <2>2 DEF DbCall, DbDone, DbDataAccEx, release_host_comm_mutex
    <2>3. CASE DbAcquire(p)
      BY <2>3, WhoamiNotZero DEF DbAcquire, acquire_host_comm_mutex, GotMutex
    <2> QED BY <1>2, <2>1, <2>2, <2>3 DEF Program
  <1>3. ASSUME NEW p \in CPUS, Conversation(p)
        PROVE  OwnerKeepsMutex' /\ MutualExclusion'
    <2>1. CASE \E S \in SUBSET CPUS : GoAck(p, S)
      BY <2>1 DEF GoAck, release_host_comm_mutex
    <2>2. CASE DataAccEx(p) \/ (xrestart(p) /\ ~MachineReset)
      BY <2>2 DEF DataAccEx, xrestart
    <2>3. CASE MachineReset
      BY <2>3, ResetInv
    <2> QED BY <1>3, <2>1, <2>2, <2>3 DEF Conversation, DuartReset
  <1>4. CASE Abort
    BY <1>4 DEF Abort
  <1>5. CASE UNCHANGED monvars
    BY <1>5 DEF monvars
  <1> QED BY <1>1, <1>2, <1>3, <1>4, <1>5 DEF MonNext

\* Only a CPU itself sets its dm_in_mon word, and it leaves the monitor only
\* after it has seen the word cleared (mon.c:705-757, 804-810).
LEMMA InMonStep ==
  ASSUME MonInv, [MonNext]_monvars
  PROVE  InMonIsInMonitor'
  <1> USE DEF MonInv
  <1> USE DEF MonTypeOK, InMonIsInMonitor, Goto
  <1>1. ASSUME NEW p \in CPUS, Monitor(p) PROVE InMonIsInMonitor'
    <2>1. CASE DebugMonEntry(p) \/ talk_to_host(p) \/ SetInMon(p)
               \/ TestInMon(p) \/ NoAbort(p) \/ ClearAbort(p)
      BY <2>1 DEF DebugMonEntry, talk_to_host, SetInMon, TestInMon, NoAbort,
                  ClearAbort
    <2>2. CASE Acquire(p) \/ TakeOver(p)
      BY <2>2 DEF Acquire, TakeOver, acquire_host_comm_mutex
    <2>3. CASE GoClear(p) \/ GoReturn(p)
      BY <2>3 DEF GoClear, GoReturn
    <2> QED BY <1>1, <2>1, <2>2, <2>3 DEF Monitor
  <1>2. ASSUME NEW p \in CPUS, Program(p) PROVE InMonIsInMonitor'
    BY <1>2 DEF Program, Exception, DbCall, DbDone, DbDataAccEx, DbAcquire,
                acquire_host_comm_mutex
  <1>3. ASSUME NEW p \in CPUS, Conversation(p) PROVE InMonIsInMonitor'
    <2>1. CASE MachineReset
      BY <2>1, ResetInv
    <2>2. CASE ~MachineReset
      BY <1>3, <2>2 DEF Conversation, DuartReset, GoAck, DataAccEx, xrestart
    <2> QED BY <2>1, <2>2
  <1>4. CASE Abort
    BY <1>4 DEF Abort
  <1>5. CASE UNCHANGED monvars
    BY <1>5 DEF monvars
  <1> QED BY <1>1, <1>2, <1>3, <1>4, <1>5 DEF MonNext

\* The invariant is inductive.
LEMMA InvStep == MonInv /\ [MonNext]_monvars => MonInv'
  BY TypeStep, OwnerStep, InMonStep DEF MonInv

\* Every behaviour of the monitor satisfies the invariant.
THEOREM InvAlways == MonSpec => []MonInv
  BY InitInv, InvStep, PTL DEF MonSpec

\* Type correctness of the monitor's state, for any number of CPUs.
THEOREM MonTypeCorrect == MonSpec => []MonTypeOK
  <1>1. MonInv => MonTypeOK
    BY DEF MonInv
  <1> QED BY <1>1, InvAlways, PTL

\* One speaker on the host line: mon.c's claim for acquire_host_comm_mutex,
\* "If we are able to acqure the lock, then we are the CPU that will talk to
\* the host for now", for any number of CPUs.
THEOREM OneSpeaker == MonSpec => []MutualExclusion
  <1>1. MonInv => MutualExclusion
    BY DEF MonInv
  <1> QED BY <1>1, InvAlways, PTL

\* A CPU that the host sees in the monitor is in the monitor.
THEOREM InMonTrusted == MonSpec => []InMonIsInMonitor
  <1>1. MonInv => InMonIsInMonitor
    BY DEF MonInv
  <1> QED BY <1>1, InvAlways, PTL

-----------------------------------------------------------------------------
(***************************************************************************)
(* The protocol engine.                                                    *)
(***************************************************************************)
\* What is on its way to the host, and to the target.
Inflow == inbuf \o rx
Outflow == tx \o out

Reading == {"reply", "data", "dataend", "sum"}
Bases   == Reading \cup {"prompt", "ack", "goack", "running"}
Replied == {"C_DATASTART", "word", "C_DATAEND", "checksum"}
Debris  == {"noise", "error"}
Stops   == {"TR_BPT", "TR_INT"}

(***************************************************************************)
(* The line, as s towards the host, f towards the target, the monitor's    *)
(* state m, and st the command that started the program.                   *)
(***************************************************************************)
Only(s, T)   == \A i \in 1 .. Len(s) : s[i].t \in T
None(s, T)   == \A i \in 1 .. Len(s) : s[i].t \notin T
Own(s, T, r) == \A i \in 1 .. Len(s) : s[i].t \in T => s[i].id = r

\* An item of T is the last that comes, and the monitor listens.
Lasting(s, f, m, T) ==
  \A i \in 1 .. Len(s) :
    s[i].t \in T => i = Len(s) /\ f = << >> /\ m = "loop"

Halted(m) == m \notin {"running", "booting"}

Asking(f, t, r) ==
  \A i \in 1 .. Len(f) : i = 1 /\ f[i].t = t /\ f[i].id = r

\* A word is read, or written.
Answering(s, f, m, T, last, r) ==
  /\ Halted(m)
  /\ Only(s, T \cup Debris) /\ Own(s, T, r)
  /\ Lasting(s, f, m, {last})

ReadWire(s, f, m, r) ==
  Answering(s, f, m, Replied, "checksum", r) /\ Asking(f, "C_UPLOAD", r)

WriteWire(s, f, m, r) ==
  Answering(s, f, m, {"C_ACK"}, "C_ACK", r) /\ Asking(f, "C_DOWNLOAD", r)

\* The program runs for command r only, and has not stopped.
Started(s, f, m, st, r) ==
  m = "running" => st = r /\ f = << >> /\ None(s, Exceptions)

\* The program is to be started.
GoWire(s, f, m, st, r) ==
  /\ m # "booting"
  /\ Asking(f, "C_GO", r)
  /\ Only(s, Stops \cup {"C_ACK"} \cup Debris) /\ Own(s, Stops \cup {"C_ACK"}, r)
  /\ Lasting(s, f, m, Stops) /\ Started(s, f, m, st, r)
  /\ f # << >> => s = << >> /\ m = "loop"
  /\ m = "running" \/ ~None(s, {"C_ACK"}) =>
       f = << >> /\ m \in {"running", "loop"} /\ None(s, {"error"})

\* It has been.
RunWire(s, f, m, st, r) ==
  /\ f = << >> /\ m \in {"running", "loop"}
  /\ Only(s, Stops \cup {"C_ACK", "noise"}) /\ Own(s, Stops, r)
  /\ Lasting(s, f, m, Stops) /\ Started(s, f, m, st, r)

ResetWire(s, f, m) ==
  /\ f = << >> /\ m \in {"booting", "loop"}
  /\ m = "booting" => s = << >>
  /\ Lasting(s, f, m, Exceptions)

\* The program does not run, and no C_GO is on its way.
NoGo(s, f, m) ==
  /\ Halted(m) /\ None(s, Exceptions)
  /\ \A i \in 1 .. Len(f) : f[i].t # "C_GO"

\* It does, or one is, or it has stopped; then nothing follows but C_SYNC.
MayGo(s, f, m) ==
  /\ m # "booting"
  /\ \A i \in 1 .. Len(f) :
       /\ f[i].t \in {"C_GO", "C_SYNC"}
       /\ f[i].t = "C_GO" => i = 1 /\ m # "running" /\ None(s, Exceptions)
  /\ m = "running" => None(s, Exceptions)
  /\ \A i, j \in 1 .. Len(s) :
       i < j /\ s[i].t \in Exceptions => s[j].t \in Debris \cup {"C_SYNC"}

SyncWire(s, f, m) ==
  /\ Lasting(s, f, m, {"C_SYNC"})
  /\ \A i \in 1 .. Len(f) : f[i].t = "C_SYNC" => i = Len(f)

\* interrupt_remote reads registers; a C_SYNC may still come first.
ExamineWire(s, f, m) ==
  /\ Halted(m) /\ None(s, Exceptions) /\ \A i \in 1 .. Len(s) : s[i].id = 0
  /\ \A i \in 1 .. Len(f) :
       /\ f[i].t \in {"C_SYNC", "C_UPLOAD"} /\ f[i].id = 0
       /\ f[i].t = "C_UPLOAD" => i = Len(f)
  /\ Lasting(s, f, m, {"checksum"})

\* What belongs to no command.
Anonymous(s, f) ==
  /\ \A i \in 1 .. Len(s) : s[i].t \in Debris \cup {"C_SYNC"} => s[i].id = 0
  /\ \A i \in 1 .. Len(f) : f[i].t = "C_SYNC" => f[i].id = 0

QuietWire(s, f, m) == s = << >> /\ f = << >> /\ m = "loop"

(***************************************************************************)
(* The inductive invariant.  Nested control-Cs wait for their C_SYNC above *)
(* the command that the first of them interrupted, Base.                   *)
(***************************************************************************)
Base == interrupted[Len(interrupted)].phase

Stacked ==
  /\ phase \in {"prompt", "reset", "goack", "running", "ack"} => interrupted = << >>
  /\ phase \in {"sync", "nmi"} => interrupted # << >>
  /\ \A i \in 1 .. Len(interrupted) :
       interrupted[i].phase \in IF i = Len(interrupted) THEN Bases ELSE {"sync"}
  /\ phase = "sync" => ~masked
  /\ phase \in {"reset", "nmi"} \/ Examining => attention

Calm == ~target_running /\ ~ignore_errors /\ ~attention

Quiet == QuietWire(Inflow, Outflow, monitor)

\* The checksum cannot agree.
Spoilt ==
  \/ Len(seen) > 3
  \/ \E i \in 1 .. Len(seen) : seen[i].t \notin {"C_DATASTART", "word", "C_DATAEND"}

AtPrompt == Quiet /\ Calm /\ answer = asked

AtRead ==
  /\ Calm /\ ReadWire(Inflow, Outflow, monitor, asked)
  /\ phase \in {"dataend", "sum"} =>
       answer = asked \/ Spoilt \/ (Inflow = << >> /\ Outflow = << >>)

AtWrite == Calm /\ WriteWire(Inflow, Outflow, monitor, asked)
AtGo    == Calm /\ GoWire(Inflow, Outflow, monitor, started, asked)

AtRunning ==
  /\ target_running /\ ~ignore_errors /\ ~attention
  /\ RunWire(Inflow, Outflow, monitor, started, asked)

AtReset == ~target_running /\ ~ignore_errors /\ ResetWire(Inflow, Outflow, monitor)

\* Only go_remote's wait is interrupted while the target is thought to run.
Linked ==
  \A i \in 1 .. Len(interrupted) :
    interrupted[i].running <=> interrupted[i].phase = "running"

Nested ==
  IF Base = "goack" THEN MayGo(Inflow, Outflow, monitor) ELSE NoGo(Inflow, Outflow, monitor)

AtSync ==
  /\ Calm /\ Linked /\ Base # "running"
  /\ Base = "prompt" => answer = asked
  /\ Nested /\ SyncWire(Inflow, Outflow, monitor)
  /\ ~trying_to_sync => Quiet

AtInterrupt ==
  /\ ignore_errors /\ Linked
  /\ IF Base = "running"
       THEN /\ target_running /\ Len(interrupted) = 1
            /\ RunWire(Inflow, Outflow, monitor, started, asked)
       ELSE ~target_running /\ Nested

AtExamine ==
  /\ ignore_errors /\ ~target_running /\ Linked
  /\ Base \in {"goack", "running"}
  /\ Base = "running" => Len(interrupted) = 1 /\ answer = asked
  /\ ExamineWire(Inflow, Outflow, monitor)

Situation ==
  /\ phase # "astray"
  /\ phase = "prompt" => AtPrompt
  /\ phase \in Reading /\ interrupted = << >> => AtRead
  /\ phase \in Reading /\ interrupted # << >> => AtExamine
  /\ phase = "ack" => AtWrite
  /\ phase = "goack" => AtGo
  /\ phase = "running" => AtRunning
  /\ phase = "reset" => AtReset
  /\ phase = "sync" => AtSync
  /\ phase = "nmi" => AtInterrupt

Good == ~broken \/ phase = "reset"

IInv == TypeOK /\ Stacked /\ Anonymous(Inflow, Outflow) /\ (Good => Situation)

-----------------------------------------------------------------------------
(***************************************************************************)
(* The line loses and damages: t is what is left of s.                     *)
(***************************************************************************)
Same(x, y) == x.t = y.t /\ x.id = y.id

Thinned(t, s) ==
  \E h \in [1 .. Len(t) -> 1 .. Len(s)] :
    /\ \A i, j \in 1 .. Len(t) : i < j => h[i] < h[j]
    /\ \A i \in 1 .. Len(t) :
         Same(t[i], s[h[i]]) \/ (t[i].t = "noise" /\ t[i].id = 0)

LEMMA Length ==
  ASSUME NEW T, NEW s \in Seq(T)
  PROVE  Len(s) \in Nat /\ (s = << >> <=> Len(s) = 0)
<1>1. Len(s) \in Nat
  BY LenProperties
<1>2. CASE s = << >>
  BY <1>2
<1>3. CASE s # << >>
  <2>1. Len(s) \in Nat \ {0}
    BY <1>3, EmptySeq
  <2> QED
    BY <1>3, <2>1
<1> QED
  BY <1>1, <1>2, <1>3

LEMMA ThinEmpty ==
  ASSUME NEW T, NEW s \in Seq(T), NEW t \in Seq(T), Thinned(t, s)
  PROVE  s = << >> => t = << >>
<1> SUFFICES ASSUME s = << >>, Len(t) # 0 PROVE FALSE
  BY Length
<1>1. PICK h \in [1 .. Len(t) -> 1 .. Len(s)] : TRUE
  BY DEF Thinned
<1>2. 1 \in 1 .. Len(t) /\ Len(s) = 0
  BY Length
<1>3. h[1] \in 1 .. Len(s)
  BY <1>2
<1> QED
  BY <1>2, <1>3

\* Frames are not damaged into others: only their good changes.
LEMMA Framed ==
  ASSUME NEW f \in Seq(Frames), NEW i \in 1 .. Len(f)
  PROVE  f[i].t \in {"C_UPLOAD", "C_DOWNLOAD", "C_GO", "C_SYNC"}
<1>1. f[i] \in Frames
  BY ElementOfSeq
<1> QED
  BY <1>1 DEF Frames

\* What is said of a sequence's items is said of what is left of them.
LEMMA ThinParts ==
  ASSUME NEW s \in Seq(Items), NEW s2 \in Seq(Items), Thinned(s2, s),
         NEW f \in Seq(Frames), NEW f2 \in Seq(Frames), Thinned(f2, f),
         NEW m, NEW T, NEW r
  PROVE  /\ s = << >> => s2 = << >>
         /\ f = << >> => f2 = << >>
         /\ "noise" \in T /\ Only(s, T) => Only(s2, T)
         /\ "noise" \notin T /\ None(s, T) => None(s2, T)
         /\ "noise" \notin T /\ Own(s, T, r) => Own(s2, T, r)
         /\ "noise" \notin T /\ Lasting(s, f, m, T) => Lasting(s2, f2, m, T)
<1>1. PICK h \in [1 .. Len(s2) -> 1 .. Len(s)] :
        /\ \A i, j \in 1 .. Len(s2) : i < j => h[i] < h[j]
        /\ \A i \in 1 .. Len(s2) :
             Same(s2[i], s[h[i]]) \/ (s2[i].t = "noise" /\ s2[i].id = 0)
  BY DEF Thinned
<1>2. PICK g \in [1 .. Len(f2) -> 1 .. Len(f)] : TRUE
  BY DEF Thinned
<1>3. Len(s) \in Nat /\ Len(s2) \in Nat /\ Len(f) \in Nat /\ Len(f2) \in Nat
  BY Length
<1>4. s = << >> => s2 = << >>
  BY ThinEmpty
<1>5. f = << >> => f2 = << >>
  BY ThinEmpty
<1>6. "noise" \in T /\ Only(s, T) => Only(s2, T)
  BY <1>1 DEF Only, Same
<1>7. "noise" \notin T /\ None(s, T) => None(s2, T)
  BY <1>1 DEF None, Same
<1>8. "noise" \notin T /\ Own(s, T, r) => Own(s2, T, r)
  BY <1>1 DEF Own, Same
<1>9. "noise" \notin T /\ Lasting(s, f, m, T) => Lasting(s2, f2, m, T)
  <2> SUFFICES ASSUME "noise" \notin T, Lasting(s, f, m, T),
                      NEW i \in 1 .. Len(s2), s2[i].t \in T
               PROVE  i = Len(s2) /\ f2 = << >> /\ m = "loop"
    BY DEF Lasting
  <2>1. h[i] \in 1 .. Len(s) /\ s[h[i]].t \in T
    BY <1>1 DEF Same
  <2>2. h[i] = Len(s) /\ f = << >> /\ m = "loop"
    BY <2>1 DEF Lasting
  <2>3. i = Len(s2)
    <3> SUFFICES ASSUME i < Len(s2) PROVE FALSE
      BY <1>3
    <3>1. i + 1 \in 1 .. Len(s2) /\ i < i + 1
      BY <1>3
    <3>2. h[i] < h[i + 1] /\ h[i + 1] \in 1 .. Len(s)
      BY <1>1, <3>1
    <3> QED
      BY <1>3, <2>2, <3>2
  <2> QED
    BY <1>5, <2>2, <2>3
<1> QED
  BY <1>4, <1>5, <1>6, <1>7, <1>8, <1>9

\* And so what is said of the frames.
LEMMA ThinFrames ==
  ASSUME NEW s \in Seq(Items), NEW s2 \in Seq(Items), Thinned(s2, s),
         NEW f \in Seq(Frames), NEW f2 \in Seq(Frames), Thinned(f2, f)
  PROVE  \E g \in [1 .. Len(f2) -> 1 .. Len(f)] :
           /\ \A i \in 1 .. Len(f2) : Same(f2[i], f[g[i]])
           /\ \A i \in 1 .. Len(f2) : g[i] = 1 => i = 1
           /\ \A i \in 1 .. Len(f2) : g[i] = Len(f) => i = Len(f2)
<1>1. PICK g \in [1 .. Len(f2) -> 1 .. Len(f)] :
        /\ \A i, j \in 1 .. Len(f2) : i < j => g[i] < g[j]
        /\ \A i \in 1 .. Len(f2) :
             Same(f2[i], f[g[i]]) \/ (f2[i].t = "noise" /\ f2[i].id = 0)
  BY DEF Thinned
<1>2. Len(f) \in Nat /\ Len(f2) \in Nat
  BY Length
<1>3. ASSUME NEW i \in 1 .. Len(f2) PROVE Same(f2[i], f[g[i]])
  <2>1. f2[i].t # "noise"
    BY Framed
  <2> QED
    BY <1>1, <2>1
<1>4. ASSUME NEW i \in 1 .. Len(f2), g[i] = 1 PROVE i = 1
  <2> SUFFICES ASSUME 1 < i PROVE FALSE
    BY <1>2
  <2>1. 1 \in 1 .. Len(f2)
    BY <1>2
  <2>2. g[1] < g[i] /\ g[1] \in 1 .. Len(f)
    BY <1>1, <2>1
  <2> QED
    BY <1>2, <1>4, <2>2
<1>5. ASSUME NEW i \in 1 .. Len(f2), g[i] = Len(f) PROVE i = Len(f2)
  <2> SUFFICES ASSUME i < Len(f2) PROVE FALSE
    BY <1>2
  <2>1. Len(f2) \in 1 .. Len(f2)
    BY <1>2
  <2>2. g[i] < g[Len(f2)] /\ g[Len(f2)] \in 1 .. Len(f)
    BY <1>1, <2>1
  <2> QED
    BY <1>2, <1>5, <2>2
<1> QED
  BY <1>3, <1>4, <1>5

LEMMA ThinAsking ==
  ASSUME NEW s \in Seq(Items), NEW s2 \in Seq(Items), Thinned(s2, s),
         NEW f \in Seq(Frames), NEW f2 \in Seq(Frames), Thinned(f2, f),
         NEW t, NEW r, Asking(f, t, r)
  PROVE  Asking(f2, t, r)
<1>1. PICK g \in [1 .. Len(f2) -> 1 .. Len(f)] :
           /\ \A i \in 1 .. Len(f2) : Same(f2[i], f[g[i]])
           /\ \A i \in 1 .. Len(f2) : g[i] = 1 => i = 1
  BY ThinFrames
<1> QED
  BY <1>1 DEF Asking, Same

\* The line may lose and damage whatever is on it.
LEMMA ThinAnswering ==
  ASSUME NEW s \in Seq(Items), NEW s2 \in Seq(Items), Thinned(s2, s),
         NEW f \in Seq(Frames), NEW f2 \in Seq(Frames), Thinned(f2, f),
         NEW m, NEW r
  PROVE  /\ ReadWire(s, f, m, r) => ReadWire(s2, f2, m, r)
         /\ WriteWire(s, f, m, r) => WriteWire(s2, f2, m, r)
<1>1. ASSUME NEW T, NEW last, "noise" \notin T, last # "noise",
             Answering(s, f, m, T, last, r)
      PROVE  Answering(s2, f2, m, T, last, r)
  <2>1. Only(s2, T \cup Debris)
    BY <1>1, ThinParts DEF Answering, Debris
  <2>2. Own(s2, T, r)
    BY <1>1, ThinParts DEF Answering
  <2>3. Lasting(s2, f2, m, {last})
    BY <1>1, ThinParts DEF Answering
  <2> QED
    BY <1>1, <2>1, <2>2, <2>3 DEF Answering
<1>2. ReadWire(s, f, m, r) => ReadWire(s2, f2, m, r)
  BY <1>1, ThinAsking DEF ReadWire, Replied
<1>3. WriteWire(s, f, m, r) => WriteWire(s2, f2, m, r)
  BY <1>1, ThinAsking DEF WriteWire
<1> QED
  BY <1>2, <1>3

LEMMA ThinGo ==
  ASSUME NEW s \in Seq(Items), NEW s2 \in Seq(Items), Thinned(s2, s),
         NEW f \in Seq(Frames), NEW f2 \in Seq(Frames), Thinned(f2, f),
         NEW m, NEW st, NEW r
  PROVE  /\ GoWire(s, f, m, st, r) => GoWire(s2, f2, m, st, r)
         /\ RunWire(s, f, m, st, r) => RunWire(s2, f2, m, st, r)
         /\ ResetWire(s, f, m) => ResetWire(s2, f2, m)
<1>1. /\ s = << >> => s2 = << >>
      /\ f = << >> => f2 = << >>
  BY ThinParts
<1>2. /\ "noise" \notin Stops \cup {"C_ACK"} /\ "noise" \notin Stops
      /\ "noise" \notin Exceptions /\ "noise" \notin {"error"}
      /\ "noise" \notin {"C_ACK"}
      /\ "noise" \in Stops \cup {"C_ACK"} \cup Debris
      /\ "noise" \in Stops \cup {"C_ACK", "noise"}
  BY DEF Stops, Exceptions, Debris
<1>3. Started(s, f, m, st, r) => Started(s2, f2, m, st, r)
  BY <1>1, <1>2, ThinParts DEF Started
<1>4. Lasting(s, f, m, Stops) => Lasting(s2, f2, m, Stops)
  BY <1>2, ThinParts
<1>5. GoWire(s, f, m, st, r) => GoWire(s2, f2, m, st, r)
  <2> SUFFICES ASSUME GoWire(s, f, m, st, r) PROVE GoWire(s2, f2, m, st, r)
    OBVIOUS
  <2>1. Only(s2, Stops \cup {"C_ACK"} \cup Debris)
    BY <1>2, ThinParts DEF GoWire
  <2>2. Own(s2, Stops \cup {"C_ACK"}, r)
    BY <1>2, ThinParts DEF GoWire
  <2>3. Asking(f2, "C_GO", r)
    BY ThinAsking DEF GoWire
  <2>4. None(s, {"error"}) => None(s2, {"error"})
    BY <1>2, ThinParts
  <2>5. None(s, {"C_ACK"}) => None(s2, {"C_ACK"})
    BY <1>2, ThinParts
  <2> QED
    BY <1>1, <1>3, <1>4, <2>1, <2>2, <2>3, <2>4, <2>5 DEF GoWire
<1>6. RunWire(s, f, m, st, r) => RunWire(s2, f2, m, st, r)
  <2> SUFFICES ASSUME RunWire(s, f, m, st, r) PROVE RunWire(s2, f2, m, st, r)
    OBVIOUS
  <2>1. Only(s2, Stops \cup {"C_ACK", "noise"})
    <3> DEFINE T == Stops \cup {"C_ACK", "noise"}
    <3>1. "noise" \in T /\ Only(s, T)
      BY <1>2 DEF RunWire
    <3> HIDE DEF T
    <3>2. Only(s2, T)
      BY <3>1, ThinParts
    <3> QED
      BY <3>2 DEF T
  <2>2. Own(s2, Stops, r)
    BY <1>2, ThinParts DEF RunWire
  <2> QED
    BY <1>1, <1>3, <1>4, <2>1, <2>2 DEF RunWire
<1>7. ResetWire(s, f, m) => ResetWire(s2, f2, m)
  <2>1. Lasting(s, f, m, Exceptions) => Lasting(s2, f2, m, Exceptions)
    BY <1>2, ThinParts
  <2> QED
    BY <1>1, <2>1 DEF ResetWire
<1> QED
  BY <1>5, <1>6, <1>7

LEMMA ThinNested ==
  ASSUME NEW s \in Seq(Items), NEW s2 \in Seq(Items), Thinned(s2, s),
         NEW f \in Seq(Frames), NEW f2 \in Seq(Frames), Thinned(f2, f),
         NEW m
  PROVE  /\ NoGo(s, f, m) => NoGo(s2, f2, m)
         /\ MayGo(s, f, m) => MayGo(s2, f2, m)
         /\ SyncWire(s, f, m) => SyncWire(s2, f2, m)
         /\ ExamineWire(s, f, m) => ExamineWire(s2, f2, m)
         /\ Anonymous(s, f) => Anonymous(s2, f2)
         /\ QuietWire(s, f, m) => QuietWire(s2, f2, m)
<1>1. PICK g \in [1 .. Len(f2) -> 1 .. Len(f)] :
           /\ \A i \in 1 .. Len(f2) : Same(f2[i], f[g[i]])
           /\ \A i \in 1 .. Len(f2) : g[i] = 1 => i = 1
           /\ \A i \in 1 .. Len(f2) : g[i] = Len(f) => i = Len(f2)
  BY ThinFrames
<1>2. PICK h \in [1 .. Len(s2) -> 1 .. Len(s)] :
        /\ \A i, j \in 1 .. Len(s2) : i < j => h[i] < h[j]
        /\ \A i \in 1 .. Len(s2) :
             Same(s2[i], s[h[i]]) \/ (s2[i].t = "noise" /\ s2[i].id = 0)
  BY DEF Thinned
<1>3. "noise" \notin Exceptions /\ "noise" \notin {"C_SYNC"}
      /\ "noise" \notin {"checksum"} /\ "noise" \in Debris
  BY DEF Exceptions, Debris
<1>4. None(s, Exceptions) => None(s2, Exceptions)
  BY <1>3, ThinParts
<1>5. NoGo(s, f, m) => NoGo(s2, f2, m)
  BY <1>1, <1>4 DEF NoGo, Same
<1>6. MayGo(s, f, m) => MayGo(s2, f2, m)
  <2> SUFFICES ASSUME MayGo(s, f, m) PROVE MayGo(s2, f2, m)
    OBVIOUS
  <2>1. ASSUME NEW i \in 1 .. Len(f2)
        PROVE  /\ f2[i].t \in {"C_GO", "C_SYNC"}
               /\ f2[i].t = "C_GO" =>
                    i = 1 /\ m # "running" /\ None(s2, Exceptions)
    BY <1>1, <1>4 DEF MayGo, Same
  <2>2. ASSUME NEW i \in 1 .. Len(s2), NEW j \in 1 .. Len(s2), i < j,
               s2[i].t \in Exceptions
        PROVE  s2[j].t \in Debris \cup {"C_SYNC"}
    <3>1. s[h[i]].t \in Exceptions /\ h[i] < h[j]
      BY <1>2, <1>3, <2>2 DEF Same
    <3>2. s[h[j]].t \in Debris \cup {"C_SYNC"}
      BY <3>1 DEF MayGo
    <3> QED
      BY <1>2, <1>3, <3>2 DEF Same
  <2> QED
    BY <1>4, <2>1, <2>2 DEF MayGo
<1>7. SyncWire(s, f, m) => SyncWire(s2, f2, m)
  <2>1. Lasting(s, f, m, {"C_SYNC"}) => Lasting(s2, f2, m, {"C_SYNC"})
    BY <1>3, ThinParts
  <2> QED
    BY <1>1, <2>1 DEF SyncWire, Same
<1>8. ExamineWire(s, f, m) => ExamineWire(s2, f2, m)
  <2>1. Lasting(s, f, m, {"checksum"}) => Lasting(s2, f2, m, {"checksum"})
    BY <1>3, ThinParts
  <2>2. ASSUME ExamineWire(s, f, m), NEW i \in 1 .. Len(s2) PROVE s2[i].id = 0
    <3>1. s[h[i]].id = 0
      BY <2>2 DEF ExamineWire
    <3> QED
      BY <1>2, <3>1 DEF Same
  <2>3. ASSUME ExamineWire(s, f, m), NEW i \in 1 .. Len(f2)
        PROVE  /\ f2[i].t \in {"C_SYNC", "C_UPLOAD"} /\ f2[i].id = 0
               /\ f2[i].t = "C_UPLOAD" => i = Len(f2)
    <3>1. /\ f[g[i]].t \in {"C_SYNC", "C_UPLOAD"} /\ f[g[i]].id = 0
          /\ f[g[i]].t = "C_UPLOAD" => g[i] = Len(f)
      BY <2>3 DEF ExamineWire
    <3> QED
      BY <1>1, <3>1 DEF Same
  <2> QED
    BY <1>4, <2>1, <2>2, <2>3 DEF ExamineWire
<1>9. Anonymous(s, f) => Anonymous(s2, f2)
  <2>1. ASSUME Anonymous(s, f), NEW i \in 1 .. Len(s2),
               s2[i].t \in Debris \cup {"C_SYNC"}
        PROVE  s2[i].id = 0
    BY <1>2, <2>1 DEF Anonymous, Same
  <2>2. ASSUME Anonymous(s, f), NEW i \in 1 .. Len(f2), f2[i].t = "C_SYNC"
        PROVE  f2[i].id = 0
    <3>1. f[g[i]].t = "C_SYNC" /\ g[i] \in 1 .. Len(f)
      BY <1>1, <2>2 DEF Same
    <3>2. f[g[i]].id = 0
      BY <2>2, <3>1 DEF Anonymous
    <3> QED
      BY <1>1, <3>2 DEF Same
  <2> QED
    BY <2>1, <2>2 DEF Anonymous
<1>10. QuietWire(s, f, m) => QuietWire(s2, f2, m)
  <2>1. s = << >> => s2 = << >>
    BY ThinEmpty
  <2>2. f = << >> => f2 = << >>
    BY ThinEmpty
  <2> QED
    BY <2>1, <2>2 DEF QuietWire
<1> QED
  BY <1>5, <1>6, <1>7, <1>8, <1>9, <1>10

-----------------------------------------------------------------------------
(***************************************************************************)
(* What is left of a sequence: itself, what follows, and parts of both.    *)
(***************************************************************************)
LEMMA ThinSame ==
  ASSUME NEW T, NEW s \in Seq(T)
  PROVE  Thinned(s, s)
<1> DEFINE h == [i \in 1 .. Len(s) |-> i]
<1>1. Len(s) \in Nat
  BY LenProperties
<1>2. h \in [1 .. Len(s) -> 1 .. Len(s)]
  OBVIOUS
<1>3. \A i, j \in 1 .. Len(s) : i < j => h[i] < h[j]
  OBVIOUS
<1>4. \A i \in 1 .. Len(s) : Same(s[i], s[h[i]])
  BY DEF Same
<1> QED
  BY <1>2, <1>3, <1>4 DEF Thinned

\* What follows the first n.
LEMMA Later ==
  ASSUME NEW T, NEW s \in Seq(T), NEW n \in 1 .. Len(s) + 1
  PROVE  /\ From(s, n) \in Seq(T)
         /\ Len(From(s, n)) = Len(s) - n + 1
         /\ \A i \in 1 .. Len(From(s, n)) : From(s, n)[i] = s[i + n - 1]
<1>1. Len(s) \in Nat
  BY LenProperties
<1>2. \A i \in n .. Len(s) : s[i] \in T
  BY <1>1, ElementOfSeq
<1>3. /\ SubSeq(s, n, Len(s)) \in Seq(T)
      /\ Len(SubSeq(s, n, Len(s))) =
           IF n <= Len(s) THEN Len(s) - n + 1 ELSE 0
      /\ \A i \in 1 .. Len(s) - n + 1 :
           SubSeq(s, n, Len(s))[i] = s[n + i - 1]
  BY <1>1, <1>2, SubSeqProperties
<1>4. Len(From(s, n)) = Len(s) - n + 1
  BY <1>1, <1>3 DEF From
<1>5. \A i \in 1 .. Len(From(s, n)) : From(s, n)[i] = s[i + n - 1]
  BY <1>1, <1>3, <1>4 DEF From
<1> QED
  BY <1>3, <1>4, <1>5 DEF From

LEMMA ThinLater ==
  ASSUME NEW T, NEW s \in Seq(T), NEW n \in 1 .. Len(s) + 1
  PROVE  Thinned(From(s, n), s)
<1> DEFINE t == From(s, n)
           h == [i \in 1 .. Len(t) |-> i + n - 1]
<1>1. Len(s) \in Nat
  BY LenProperties
<1>2. Len(t) = Len(s) - n + 1 /\ \A i \in 1 .. Len(t) : t[i] = s[i + n - 1]
  BY Later
<1> HIDE DEF t
<1>3. h \in [1 .. Len(t) -> 1 .. Len(s)]
  BY <1>1, <1>2
<1>4. \A i, j \in 1 .. Len(t) : i < j => h[i] < h[j]
  BY <1>1, <1>2
<1>5. \A i \in 1 .. Len(t) : Same(t[i], s[h[i]])
  BY <1>2 DEF Same
<1>6. Thinned(t, s)
  BY <1>3, <1>4, <1>5 DEF Thinned
<1> QED
  BY <1>6 DEF t

LEMMA ThinTail ==
  ASSUME NEW T, NEW s \in Seq(T), s # << >>
  PROVE  /\ Tail(s) \in Seq(T) /\ Len(Tail(s)) = Len(s) - 1
         /\ Tail(s) = From(s, 2) /\ Thinned(Tail(s), s)
<1>1. Len(s) \in Nat \ {0}
  BY EmptySeq
<1>2. Tail(s) = From(s, 2)
  BY TailIsSubSeq DEF From
<1>3. Thinned(From(s, 2), s)
  BY <1>1, ThinLater
<1> QED
  BY <1>2, <1>3, HeadTailProperties

LEMMA ThinNothing ==
  ASSUME NEW T, NEW s \in Seq(T)
  PROVE  Thinned(<< >>, s)
<1>1. Len(<< >>) = 0 /\ 1 .. 0 = {}
  OBVIOUS
<1>2. PICK h \in [1 .. Len(<< >>) -> 1 .. Len(s)] : TRUE
  <2>1. [i \in {} |-> i] \in [{} -> 1 .. Len(s)]
    OBVIOUS
  <2> QED
    BY <1>1, <2>1
<1>3. /\ \A i, j \in 1 .. Len(<< >>) : i < j => h[i] < h[j]
      /\ \A i \in 1 .. Len(<< >>) :
           \/ Same(<< >>[i], s[h[i]])
           \/ << >>[i].t = "noise" /\ << >>[i].id = 0
  BY <1>1
<1> QED
  BY <1>3 DEF Thinned

LEMMA ThinAgain ==
  ASSUME NEW T, NEW s \in Seq(T), NEW t \in Seq(T), NEW u \in Seq(T),
         Thinned(t, s), Thinned(u, t)
  PROVE  Thinned(u, s)
<1>1. PICK h \in [1 .. Len(t) -> 1 .. Len(s)] :
        /\ \A i, j \in 1 .. Len(t) : i < j => h[i] < h[j]
        /\ \A i \in 1 .. Len(t) :
             Same(t[i], s[h[i]]) \/ (t[i].t = "noise" /\ t[i].id = 0)
  BY DEF Thinned
<1>2. PICK g \in [1 .. Len(u) -> 1 .. Len(t)] :
        /\ \A i, j \in 1 .. Len(u) : i < j => g[i] < g[j]
        /\ \A i \in 1 .. Len(u) :
             Same(u[i], t[g[i]]) \/ (u[i].t = "noise" /\ u[i].id = 0)
  BY DEF Thinned
<1> DEFINE k == [i \in 1 .. Len(u) |-> h[g[i]]]
<1>3. k \in [1 .. Len(u) -> 1 .. Len(s)]
  OBVIOUS
<1>4. \A i, j \in 1 .. Len(u) : i < j => k[i] < k[j]
  BY <1>1, <1>2
<1>5. \A i \in 1 .. Len(u) :
        Same(u[i], s[k[i]]) \/ (u[i].t = "noise" /\ u[i].id = 0)
  BY <1>1, <1>2 DEF Same
<1> QED
  BY <1>3, <1>4, <1>5 DEF Thinned

LEMMA ThinBoth ==
  ASSUME NEW T, NEW s \in Seq(T), NEW s2 \in Seq(T), Thinned(s2, s),
         NEW u \in Seq(T), NEW u2 \in Seq(T), Thinned(u2, u)
  PROVE  Thinned(s2 \o u2, s \o u)
<1>1. PICK h \in [1 .. Len(s2) -> 1 .. Len(s)] :
        /\ \A i, j \in 1 .. Len(s2) : i < j => h[i] < h[j]
        /\ \A i \in 1 .. Len(s2) :
             Same(s2[i], s[h[i]]) \/ (s2[i].t = "noise" /\ s2[i].id = 0)
  BY DEF Thinned
<1>2. PICK g \in [1 .. Len(u2) -> 1 .. Len(u)] :
        /\ \A i, j \in 1 .. Len(u2) : i < j => g[i] < g[j]
        /\ \A i \in 1 .. Len(u2) :
             Same(u2[i], u[g[i]]) \/ (u2[i].t = "noise" /\ u2[i].id = 0)
  BY DEF Thinned
<1>3. /\ Len(s) \in Nat /\ Len(s2) \in Nat /\ Len(u) \in Nat /\ Len(u2) \in Nat
  BY Length
<1> DEFINE t == s2 \o u2
           v == s \o u
           k == [i \in 1 .. Len(s2) + Len(u2) |->
                   IF i <= Len(s2) THEN h[i] ELSE g[i - Len(s2)] + Len(s)]
<1>4. /\ Len(t) = Len(s2) + Len(u2)
      /\ \A i \in 1 .. Len(s2) + Len(u2) :
           t[i] = IF i <= Len(s2) THEN s2[i] ELSE u2[i - Len(s2)]
  BY ConcatProperties
<1>5. /\ Len(v) = Len(s) + Len(u)
      /\ \A i \in 1 .. Len(s) + Len(u) :
           v[i] = IF i <= Len(s) THEN s[i] ELSE u[i - Len(s)]
  BY ConcatProperties
<1> HIDE DEF t, v
<1>6. ASSUME NEW i \in 1 .. Len(s2) + Len(u2), i <= Len(s2)
      PROVE  /\ i \in 1 .. Len(s2) /\ k[i] = h[i]
             /\ k[i] \in 1 .. Len(s) + Len(u) /\ v[k[i]] = s[h[i]]
             /\ t[i] = s2[i]
  <2>1. i \in 1 .. Len(s2) /\ k[i] = h[i]
    BY <1>3, <1>6
  <2>2. h[i] \in 1 .. Len(s)
    BY <2>1
  <2> QED
    BY <1>3, <1>4, <1>5, <1>6, <2>1, <2>2
<1>7. ASSUME NEW i \in 1 .. Len(s2) + Len(u2), ~(i <= Len(s2))
      PROVE  /\ i - Len(s2) \in 1 .. Len(u2) /\ k[i] = g[i - Len(s2)] + Len(s)
             /\ k[i] \in 1 .. Len(s) + Len(u) /\ k[i] > Len(s)
             /\ v[k[i]] = u[g[i - Len(s2)]] /\ t[i] = u2[i - Len(s2)]
  <2>1. i - Len(s2) \in 1 .. Len(u2) /\ k[i] = g[i - Len(s2)] + Len(s)
    BY <1>3, <1>7
  <2>2. g[i - Len(s2)] \in 1 .. Len(u)
    BY <2>1
  <2>3. k[i] \in 1 .. Len(s) + Len(u) /\ k[i] > Len(s)
        /\ k[i] - Len(s) = g[i - Len(s2)]
    BY <1>3, <2>1, <2>2
  <2>4. t[i] = u2[i - Len(s2)]
    BY <1>4, <1>7
  <2>5. v[k[i]] = u[k[i] - Len(s)]
    BY <1>3, <1>5, <2>3
  <2> QED
    BY <2>1, <2>3, <2>4, <2>5
<1>8. k \in [1 .. Len(t) -> 1 .. Len(v)]
  <2>1. \A i \in 1 .. Len(s2) + Len(u2) : k[i] \in 1 .. Len(s) + Len(u)
    BY <1>6, <1>7
  <2> QED
    BY <1>4, <1>5, <2>1
<1>9. ASSUME NEW i \in 1 .. Len(t), NEW j \in 1 .. Len(t), i < j
      PROVE  k[i] < k[j]
  <2>1. i \in 1 .. Len(s2) + Len(u2) /\ j \in 1 .. Len(s2) + Len(u2)
    BY <1>4
  <2>2. CASE j <= Len(s2)
    <3>1. i <= Len(s2)
      BY <1>3, <1>9, <2>1, <2>2
    <3> QED
      BY <1>1, <1>6, <1>9, <2>1, <2>2, <3>1
  <2>3. CASE i <= Len(s2) /\ ~(j <= Len(s2))
    <3>1. k[i] = h[i] /\ i \in 1 .. Len(s2)
      BY <1>6, <2>1, <2>3
    <3>2. k[i] \in 1 .. Len(s)
      BY <3>1
    <3>3. k[j] > Len(s) /\ k[j] \in 1 .. Len(s) + Len(u)
      BY <1>7, <2>1, <2>3
    <3> HIDE DEF k
    <3> QED
      BY <1>3, <3>2, <3>3
  <2>4. CASE ~(i <= Len(s2)) /\ ~(j <= Len(s2))
    <3> DEFINE a == i - Len(s2)
               b == j - Len(s2)
    <3>1. a \in 1 .. Len(u2) /\ k[i] = g[a] + Len(s)
      BY <1>7, <2>1, <2>4
    <3>2. b \in 1 .. Len(u2) /\ k[j] = g[b] + Len(s)
      BY <1>7, <2>1, <2>4
    <3>3. a < b
      BY <1>3, <1>9, <2>1
    <3> HIDE DEF a, b
    <3>4. g[a] < g[b] /\ g[a] \in 1 .. Len(u) /\ g[b] \in 1 .. Len(u)
      BY <1>2, <3>1, <3>2, <3>3
    <3> QED
      BY <1>3, <3>1, <3>2, <3>4
  <2> QED
    BY <2>2, <2>3, <2>4
<1>10. ASSUME NEW i \in 1 .. Len(t)
       PROVE  Same(t[i], v[k[i]]) \/ (t[i].t = "noise" /\ t[i].id = 0)
  <2>1. i \in 1 .. Len(s2) + Len(u2)
    BY <1>4
  <2>2. CASE i <= Len(s2)
    <3>1. i \in 1 .. Len(s2) /\ v[k[i]] = s[h[i]] /\ t[i] = s2[i]
      BY <1>6, <2>1, <2>2
    <3> QED
      BY <1>1, <3>1
  <2>3. CASE ~(i <= Len(s2))
    <3>1. i - Len(s2) \in 1 .. Len(u2) /\ v[k[i]] = u[g[i - Len(s2)]]
          /\ t[i] = u2[i - Len(s2)]
      BY <1>7, <2>1, <2>3
    <3> QED
      BY <1>2, <3>1
  <2> QED
    BY <2>2, <2>3
<1>11. Thinned(t, v)
  BY <1>8, <1>9, <1>10 DEF Thinned
<1> QED
  BY <1>11 DEF t, v

\* The line damages one, or loses it.
LEMMA ThinReplaced ==
  ASSUME NEW T, NEW s \in Seq(T), NEW t \in Seq(T), Len(t) = Len(s),
         \A i \in 1 .. Len(s) :
           Same(t[i], s[i]) \/ (t[i].t = "noise" /\ t[i].id = 0)
  PROVE  Thinned(t, s)
<1> DEFINE h == [i \in 1 .. Len(s) |-> i]
<1>1. Len(s) \in Nat
  BY LenProperties
<1>2. h \in [1 .. Len(t) -> 1 .. Len(s)]
  OBVIOUS
<1>3. \A i, j \in 1 .. Len(t) : i < j => h[i] < h[j]
  OBVIOUS
<1>4. \A i \in 1 .. Len(t) :
        Same(t[i], s[h[i]]) \/ (t[i].t = "noise" /\ t[i].id = 0)
  OBVIOUS
<1> QED
  BY <1>2, <1>3, <1>4 DEF Thinned

LEMMA ThinRemoved ==
  ASSUME NEW T, NEW s \in Seq(T), NEW n \in 1 .. Len(s)
  PROVE  /\ SubSeq(s, 1, n - 1) \o From(s, n + 1) \in Seq(T)
         /\ Thinned(SubSeq(s, 1, n - 1) \o From(s, n + 1), s)
<1> DEFINE a == SubSeq(s, 1, n - 1)
           b == From(s, n + 1)
           t == a \o b
           h == [i \in 1 .. Len(s) - 1 |-> IF i < n THEN i ELSE i + 1]
<1>1. Len(s) \in Nat
  BY LenProperties
<1>2. /\ a \in Seq(T) /\ Len(a) = n - 1
      /\ \A i \in 1 .. n - 1 : a[i] = s[i]
  <2>1. \A i \in 1 .. n - 1 : s[i] \in T
    BY <1>1, ElementOfSeq
  <2>2. 1 \in Int /\ n - 1 \in Int
    BY <1>1
  <2>3. /\ a \in Seq(T)
        /\ Len(a) = IF 1 <= n - 1 THEN n - 1 - 1 + 1 ELSE 0
        /\ \A i \in 1 .. n - 1 - 1 + 1 : a[i] = s[1 + i - 1]
    BY <2>1, <2>2, SubSeqProperties
  <2> QED
    BY <1>1, <2>3
<1>3. /\ b \in Seq(T) /\ Len(b) = Len(s) - n
      /\ \A i \in 1 .. Len(b) : b[i] = s[i + n]
  <2>1. n + 1 \in 1 .. Len(s) + 1
    BY <1>1
  <2>2. /\ b \in Seq(T) /\ Len(b) = Len(s) - (n + 1) + 1
        /\ \A i \in 1 .. Len(b) : b[i] = s[i + (n + 1) - 1]
    BY <2>1, Later
  <2> HIDE DEF a, b
  <2>3. Len(s) - (n + 1) + 1 = Len(s) - n
    BY <1>1
  <2>4. ASSUME NEW i \in 1 .. Len(b) PROVE b[i] = s[i + n]
    <3>1. i + (n + 1) - 1 = i + n
      BY <1>1
    <3> QED
      BY <2>2, <3>1
  <2> QED
    BY <2>2, <2>3, <2>4
<1> HIDE DEF a, b
<1>4. /\ t \in Seq(T) /\ Len(t) = Len(a) + Len(b)
      /\ \A i \in 1 .. Len(a) + Len(b) :
           t[i] = IF i <= Len(a) THEN a[i] ELSE b[i - Len(a)]
  BY <1>2, <1>3, ConcatProperties
<1> HIDE DEF t
<1>5. Len(t) = Len(s) - 1
  BY <1>1, <1>2, <1>3, <1>4
<1>6. ASSUME NEW i \in 1 .. Len(s) - 1 PROVE t[i] = s[h[i]]
  <2>1. i \in 1 .. Len(a) + Len(b)
    BY <1>1, <1>2, <1>3
  <2>2. CASE i < n
    <3>1. i <= Len(a) /\ i \in 1 .. n - 1 /\ h[i] = i
      BY <1>1, <1>2, <2>2
    <3> QED
      BY <1>2, <1>4, <2>1, <3>1
  <2>3. CASE ~(i < n)
    <3>1. ~(i <= Len(a)) /\ h[i] = i + 1 /\ i - Len(a) \in 1 .. Len(b)
          /\ (i - Len(a)) + n = i + 1
      BY <1>1, <1>2, <1>3, <2>3
    <3>2. t[i] = b[i - Len(a)]
      BY <1>4, <2>1, <3>1
    <3>3. b[i - Len(a)] = s[(i - Len(a)) + n]
      BY <1>3, <3>1
    <3> QED
      BY <3>1, <3>2, <3>3
  <2> QED
    BY <2>2, <2>3
<1>7. h \in [1 .. Len(t) -> 1 .. Len(s)]
  BY <1>1, <1>5
<1>8. \A i, j \in 1 .. Len(t) : i < j => h[i] < h[j]
  BY <1>1, <1>5
<1>9. \A i \in 1 .. Len(t) : Same(t[i], s[h[i]])
  BY <1>5, <1>6 DEF Same
<1>10. Thinned(t, s)
  BY <1>7, <1>8, <1>9 DEF Thinned
<1> QED
  BY <1>4, <1>10 DEF t, a, b

-----------------------------------------------------------------------------
(***************************************************************************)
(* What the host reads is the first of what is on its way.                 *)
(***************************************************************************)
LEMMA Flows ==
  ASSUME TypeOK
  PROVE  /\ inbuf \in Seq(Items) /\ rx \in Seq(Items) /\ Inflow \in Seq(Items)
         /\ out \in Seq(Frames) /\ tx \in Seq(Frames) /\ Outflow \in Seq(Frames)
         /\ seen \in Seq(Items)
         /\ interrupted \in Seq([phase : Phases, running : BOOLEAN])
<1>1. /\ inbuf \in Seq(Items) /\ rx \in Seq(Items) /\ seen \in Seq(Items)
      /\ out \in Seq(Frames) /\ tx \in Seq(Frames)
      /\ interrupted \in Seq([phase : Phases, running : BOOLEAN])
  BY DEF TypeOK
<1> QED
  BY <1>1, ConcatProperties DEF Inflow, Outflow

\* The next state's flows, when their parts are sequences.
LEMMA FlowsThen ==
  ASSUME inbuf' \in Seq(Items), rx' \in Seq(Items),
         out' \in Seq(Frames), tx' \in Seq(Frames)
  PROVE  Inflow' \in Seq(Items) /\ Outflow' \in Seq(Frames)
BY ConcatProperties DEF Inflow, Outflow

LEMMA TailOfBoth ==
  ASSUME NEW T, NEW s \in Seq(T), NEW u \in Seq(T), s # << >>
  PROVE  Tail(s) \o u = Tail(s \o u) /\ (s \o u)[1] = s[1] /\ s \o u # << >>
<1>1. Len(s) \in Nat \ {0} /\ Len(u) \in Nat
  BY EmptySeq
<1>2. /\ s \o u \in Seq(T) /\ Len(s \o u) = Len(s) + Len(u)
      /\ \A i \in 1 .. Len(s) + Len(u) :
           (s \o u)[i] = IF i <= Len(s) THEN s[i] ELSE u[i - Len(s)]
  BY ConcatProperties
<1>3. s \o u # << >>
  BY <1>1, <1>2, Length
<1>4. /\ Tail(s) \in Seq(T) /\ Len(Tail(s)) = Len(s) - 1
      /\ \A i \in 1 .. Len(Tail(s)) : Tail(s)[i] = s[i + 1]
  BY HeadTailProperties
<1>5. /\ Tail(s \o u) \in Seq(T) /\ Len(Tail(s \o u)) = Len(s \o u) - 1
      /\ \A i \in 1 .. Len(Tail(s \o u)) : Tail(s \o u)[i] = (s \o u)[i + 1]
  BY <1>2, <1>3, HeadTailProperties
<1>6. /\ Tail(s) \o u \in Seq(T) /\ Len(Tail(s) \o u) = Len(Tail(s)) + Len(u)
      /\ \A i \in 1 .. Len(Tail(s)) + Len(u) :
           (Tail(s) \o u)[i] =
             IF i <= Len(Tail(s)) THEN Tail(s)[i] ELSE u[i - Len(Tail(s))]
  BY <1>4, ConcatProperties
<1> DEFINE a == Tail(s) \o u
           b == Tail(s \o u)
<1>7. Len(a) = Len(b)
  BY <1>1, <1>2, <1>4, <1>5, <1>6
<1>8. ASSUME NEW i \in 1 .. Len(a) PROVE a[i] = b[i]
  <2>1. i \in 1 .. Len(Tail(s)) + Len(u) /\ i \in 1 .. Len(b)
    BY <1>6, <1>7
  <2>2. i + 1 \in 1 .. Len(s) + Len(u)
    BY <1>1, <1>4, <2>1
  <2>3. b[i] = IF i + 1 <= Len(s) THEN s[i + 1] ELSE u[(i + 1) - Len(s)]
    BY <1>2, <1>5, <2>1, <2>2
  <2>4. CASE i <= Len(Tail(s))
    <3>1. i \in 1 .. Len(Tail(s)) /\ i + 1 <= Len(s)
      BY <1>1, <1>4, <2>4
    <3> QED
      BY <1>4, <1>6, <2>1, <2>3, <2>4, <3>1
  <2>5. CASE ~(i <= Len(Tail(s)))
    <3>1. ~(i + 1 <= Len(s)) /\ i - Len(Tail(s)) = (i + 1) - Len(s)
      BY <1>1, <1>4, <2>5
    <3> QED
      BY <1>6, <2>1, <2>3, <2>5, <3>1
  <2> QED
    BY <2>4, <2>5
<1>9. a = b
  BY <1>5, <1>6, <1>7, <1>8, SeqEqual
<1>10. (s \o u)[1] = s[1]
  BY <1>1, <1>2
<1> QED
  BY <1>3, <1>9, <1>10

LEMMA Reads ==
  ASSUME TypeOK, Readable, NEW n \in Batch
  PROVE  /\ Inflow # << >> /\ c = Inflow[1] /\ c \in Items
         /\ Buffered(n) \in Seq(Items) /\ Unread(n) \in Seq(Items)
         /\ Buffered(n) \o Unread(n) = Tail(Inflow)
<1>1. /\ inbuf \in Seq(Items) /\ rx \in Seq(Items) /\ Inflow \in Seq(Items)
  BY Flows
<1>2. CASE inbuf # << >>
  <2>1. /\ c = Head(inbuf) /\ Buffered(n) = Tail(inbuf) /\ Unread(n) = rx
    BY <1>2 DEF c, Buffered, Unread
  <2>2. Head(inbuf) \in Items /\ Tail(inbuf) \in Seq(Items) /\ Head(inbuf) = inbuf[1]
    BY <1>1, <1>2, HeadTailProperties
  <2>3. /\ Tail(inbuf) \o rx = Tail(inbuf \o rx)
        /\ (inbuf \o rx)[1] = inbuf[1] /\ inbuf \o rx # << >>
    BY <1>1, <1>2, TailOfBoth
  <2> QED
    BY <1>1, <2>1, <2>2, <2>3 DEF Inflow
<1>3. CASE inbuf = << >>
  <2>1. rx # << >> /\ c = Head(rx) /\ Inflow = rx
    <3>1. rx # << >> /\ c = Head(rx)
      BY <1>3 DEF Readable, c
    <3>2. << >> \o rx = rx
      BY <1>1, ConcatEmptySeq
    <3> QED
      BY <1>3, <3>1, <3>2 DEF Inflow
  <2>2. Head(rx) \in Items /\ Tail(rx) \in Seq(Items) /\ Head(rx) = rx[1]
    BY <1>1, <2>1, HeadTailProperties
  <2>3. Len(rx) \in Nat \ {0} /\ n \in 1 .. Len(rx)
    BY <1>1, <1>3, <2>1, EmptySeq, LenProperties DEF Batch
  <2>4. SubSeq(rx, 2, n) \in Seq(Items)
    <3>1. \A i \in 2 .. n : rx[i] \in Items
      BY <1>1, <2>3, ElementOfSeq
    <3> QED
      BY <2>3, <3>1, SubSeqProperties
  <2>5. From(rx, n + 1) \in Seq(Items)
    BY <1>1, <2>3, Later
  <2>6. SubSeq(rx, 2, n) \o SubSeq(rx, n + 1, Len(rx)) = SubSeq(rx, 2, Len(rx))
    <3>1. /\ 2 \in 1 .. Len(rx) + 1 /\ n \in 2 - 1 .. Len(rx)
          /\ Len(rx) \in n .. Len(rx)
      BY <2>3
    <3> QED
      BY <1>1, <3>1, ConcatAdjacentSubSeq
  <2>7. Tail(rx) = SubSeq(rx, 2, Len(rx))
    BY <1>1, <2>1, TailIsSubSeq
  <2>8. Buffered(n) = SubSeq(rx, 2, n) /\ Unread(n) = From(rx, n + 1)
    BY <1>3 DEF Buffered, Unread
  <2> QED
    BY <2>1, <2>2, <2>4, <2>5, <2>6, <2>7, <2>8 DEF From
<1> QED
  BY <1>2, <1>3

-----------------------------------------------------------------------------
(***************************************************************************)
(* The target: it reads f, says x and goes from m to m2.                   *)
(***************************************************************************)
Enters(f, m, st, x, f2, m2, st2) ==
  /\ m \in {"booting", "running"} /\ m2 = "loop" /\ st2 = 0
  /\ f2 = f
  /\ Len(x) = 1 /\ x[1].id = st
  /\ x[1].t \in IF m = "booting" THEN {"TR_RESET"} ELSE Stops

Serves(f, m, st, x, f2, m2, st2) ==
  /\ m = "loop" /\ f # << >> /\ f2 = Tail(f)
  /\ \/ /\ f[1].t = "C_UPLOAD" /\ x = Reply(f[1].id) /\ m2 = m /\ st2 = st
     \/ /\ f[1].t = "C_DOWNLOAD" /\ x = <<Item("C_ACK", f[1].id)>>
        /\ m2 = m /\ st2 = st
     \/ /\ f[1].t = "C_SYNC" /\ x = <<Item("C_SYNC", 0)>> /\ m2 = m /\ st2 = st
     \/ /\ f[1].t = "C_GO" /\ x = <<Item("C_ACK", f[1].id)>>
        /\ m2 = "running" /\ st2 = f[1].id

Fails(f, m, st, x, f2, m2, st2) ==
  /\ f # << >> /\ f2 = Tail(f) /\ st2 = st
  /\ Only(x, {"error"}) /\ Own(x, {"error"}, 0)
  /\ \/ m = "running" /\ m2 = "running" /\ x = << >>
     \/ Halted(m) /\ Halted(m2)

Says(f, m, st, x, f2, m2, st2) ==
  \/ Enters(f, m, st, x, f2, m2, st2)
  \/ Serves(f, m, st, x, f2, m2, st2)
  \/ Fails(f, m, st, x, f2, m2, st2)

\* What is said of two sequences is said of one after the other.
LEMMA After ==
  ASSUME NEW s \in Seq(Items), NEW x \in Seq(Items)
  PROVE  /\ s \o x \in Seq(Items) /\ Len(s) \in Nat /\ Len(x) \in Nat
         /\ Len(s \o x) = Len(s) + Len(x)
         /\ \A i \in 1 .. Len(s \o x) :
              \/ i \in 1 .. Len(s) /\ (s \o x)[i] = s[i]
              \/ /\ i - Len(s) \in 1 .. Len(x) /\ i > Len(s)
                 /\ (s \o x)[i] = x[i - Len(s)]
<1>1. Len(s) \in Nat /\ Len(x) \in Nat
  BY LenProperties
<1>2. /\ s \o x \in Seq(Items) /\ Len(s \o x) = Len(s) + Len(x)
      /\ \A i \in 1 .. Len(s) + Len(x) :
           (s \o x)[i] = IF i <= Len(s) THEN s[i] ELSE x[i - Len(s)]
  BY ConcatProperties
<1>3. ASSUME NEW i \in 1 .. Len(s \o x)
      PROVE  \/ i \in 1 .. Len(s) /\ (s \o x)[i] = s[i]
             \/ /\ i - Len(s) \in 1 .. Len(x) /\ i > Len(s)
                /\ (s \o x)[i] = x[i - Len(s)]
  <2>1. i \in 1 .. Len(s) + Len(x)
    BY <1>2
  <2>2. i <= Len(s) => i \in 1 .. Len(s)
    BY <1>1, <2>1
  <2>3. ~(i <= Len(s)) => i - Len(s) \in 1 .. Len(x) /\ i > Len(s)
    BY <1>1, <2>1
  <2> QED
    BY <1>2, <2>1, <2>2, <2>3
<1> QED
  BY <1>1, <1>2, <1>3

LEMMA AfterOnly ==
  ASSUME NEW s \in Seq(Items), NEW x \in Seq(Items), NEW T,
         Only(s, T), Only(x, T)
  PROVE  Only(s \o x, T)
BY After DEF Only

LEMMA AfterNone ==
  ASSUME NEW s \in Seq(Items), NEW x \in Seq(Items), NEW T,
         None(s, T), None(x, T)
  PROVE  None(s \o x, T)
BY After DEF None

LEMMA AfterOwn ==
  ASSUME NEW s \in Seq(Items), NEW x \in Seq(Items), NEW T, NEW r,
         Own(s, T, r), Own(x, T, r)
  PROVE  Own(s \o x, T, r)
BY After DEF Own

\* Nothing comes after what is the last.
LEMMA AfterLasting ==
  ASSUME NEW s \in Seq(Items), NEW x \in Seq(Items), NEW T,
         NEW f, NEW m, NEW f2, NEW m2,
         Lasting(s, f, m, T), f # << >> \/ m # "loop", Lasting(x, f2, m2, T)
  PROVE  None(s, T) /\ Lasting(s \o x, f2, m2, T)
<1>1. None(s, T)
  BY DEF None, Lasting
<1> SUFFICES ASSUME NEW i \in 1 .. Len(s \o x), (s \o x)[i].t \in T
             PROVE  i = Len(s \o x) /\ f2 = << >> /\ m2 = "loop"
  BY <1>1 DEF Lasting
<1>2. i - Len(s) \in 1 .. Len(x) /\ (s \o x)[i] = x[i - Len(s)]
  BY <1>1, After DEF None
<1>3. i - Len(s) = Len(x) /\ f2 = << >> /\ m2 = "loop"
  BY <1>2 DEF Lasting
<1>4. Len(s \o x) = Len(s) + Len(x) /\ Len(s) \in Nat /\ Len(x) \in Nat
  BY After
<1> QED
  BY <1>3, <1>4

LEMMA AskingOne ==
  ASSUME NEW f \in Seq(Frames), f # << >>, NEW t, NEW r, Asking(f, t, r)
  PROVE  Tail(f) = << >> /\ f[1].t = t /\ f[1].id = r
<1>1. Len(f) \in Nat /\ Len(f) # 0
  BY Length
<1>2. f[1].t = t /\ f[1].id = r
  <2>1. 1 \in 1 .. Len(f)
    BY <1>1
  <2> QED
    BY <2>1 DEF Asking
<1>3. Len(f) = 1
  <2>1. Len(f) \in 1 .. Len(f)
    BY <1>1
  <2> QED
    BY <2>1 DEF Asking
<1>4. Tail(f) \in Seq(Frames) /\ Len(Tail(f)) = 0
  BY <1>1, <1>3, HeadTailProperties
<1> QED
  BY <1>2, <1>4, Length

\* A frame less.
LEMMA FrameRead ==
  ASSUME NEW f \in Seq(Frames), f # << >>
  PROVE  /\ Tail(f) \in Seq(Frames) /\ 1 \in 1 .. Len(f) /\ Len(f) \in Nat
         /\ Len(Tail(f)) = Len(f) - 1
         /\ \A i \in 1 .. Len(Tail(f)) :
              i + 1 \in 1 .. Len(f) /\ i + 1 # 1 /\ Tail(f)[i] = f[i + 1]
<1>1. Len(f) \in Nat \ {0}
  BY EmptySeq
<1>2. /\ Tail(f) \in Seq(Frames) /\ Len(Tail(f)) = Len(f) - 1
      /\ \A i \in 1 .. Len(Tail(f)) : Tail(f)[i] = f[i + 1]
  BY HeadTailProperties
<1>3. \A i \in 1 .. Len(Tail(f)) : i + 1 \in 1 .. Len(f) /\ i + 1 # 1
  BY <1>1, <1>2
<1> QED
  BY <1>1, <1>2, <1>3

\* What is said: the parts of a reply, an acknowledgement, errors.
LEMMA Replies ==
  ASSUME NEW r
  PROVE  /\ Only(Reply(r), Replied) /\ Own(Reply(r), Replied, r)
         /\ Len(Reply(r)) = 4
         /\ \A i \in 1 .. 4 : Reply(r)[i].t = "checksum" => i = 4
<1>1. Len(Reply(r)) = 4
  BY DEF Reply
<1>2. ASSUME NEW i \in 1 .. 4
      PROVE  /\ Reply(r)[i].t \in Replied /\ Reply(r)[i].id = r
             /\ Reply(r)[i].t = "checksum" => i = 4
  <2>1. i = 1 \/ i = 2 \/ i = 3 \/ i = 4
    OBVIOUS
  <2>2. CASE i = 1
    BY <2>2 DEF Reply, Item, Replied
  <2>3. CASE i = 2
    BY <2>3 DEF Reply, Item, Replied
  <2>4. CASE i = 3
    BY <2>4 DEF Reply, Item, Replied
  <2>5. CASE i = 4
    BY <2>5 DEF Reply, Item, Replied
  <2> QED
    BY <2>1, <2>2, <2>3, <2>4, <2>5
<1>3. Only(Reply(r), Replied) /\ Own(Reply(r), Replied, r)
  BY <1>1, <1>2 DEF Only, Own
<1> QED
  BY <1>1, <1>2, <1>3

\* The target answers the command that reads a word, and the one that writes.
LEMMA SaysAnswering ==
  ASSUME NEW s \in Seq(Items), NEW f \in Seq(Frames), NEW m, NEW st,
         NEW x \in Seq(Items), NEW f2, NEW m2, NEW st2,
         Says(f, m, st, x, f2, m2, st2), NEW r
  PROVE  /\ ReadWire(s, f, m, r) => ReadWire(s \o x, f2, m2, r)
         /\ WriteWire(s, f, m, r) => WriteWire(s \o x, f2, m2, r)
<1>1. ASSUME NEW T, NEW last, NEW t, last # "error", "error" \notin T,
             Answering(s, f, m, T, last, r), Asking(f, t, r), f # << >>,
             Halted(m2), f2 = << >>, Only(x, T \cup Debris), Own(x, T, r),
             Lasting(x, f2, m2, {last})
      PROVE  Answering(s \o x, f2, m2, T, last, r) /\ Asking(f2, t, r)
  <2>1. Only(s \o x, T \cup Debris)
    BY <1>1, AfterOnly DEF Answering
  <2>2. Own(s \o x, T, r)
    BY <1>1, AfterOwn DEF Answering
  <2>3. Lasting(s \o x, f2, m2, {last})
    BY <1>1, AfterLasting DEF Answering
  <2>4. Asking(f2, t, r)
    BY <1>1 DEF Asking
  <2> QED
    BY <1>1, <2>1, <2>2, <2>3, <2>4 DEF Answering
<1>2. ASSUME Halted(m) PROVE ~Enters(f, m, st, x, f2, m2, st2)
  BY <1>2 DEF Enters, Halted
<1>3. ASSUME Fails(f, m, st, x, f2, m2, st2), Halted(m), NEW T, NEW last,
             last # "error", "error" \notin T
      PROVE  /\ Halted(m2) /\ Only(x, T \cup Debris) /\ Own(x, T, r)
             /\ Lasting(x, f2, m2, {last})
  BY <1>3 DEF Fails, Only, Own, Lasting, Debris, Halted
<1>4. ReadWire(s, f, m, r) => ReadWire(s \o x, f2, m2, r)
  <2> SUFFICES ASSUME ReadWire(s, f, m, r) PROVE ReadWire(s \o x, f2, m2, r)
    OBVIOUS
  <2>1. /\ Answering(s, f, m, Replied, "checksum", r) /\ Asking(f, "C_UPLOAD", r)
        /\ Halted(m) /\ "error" \notin Replied /\ f # << >>
    BY <1>2 DEF ReadWire, Answering, Replied, Says, Serves, Fails
  <2>2. Tail(f) = << >> /\ f[1].t = "C_UPLOAD" /\ f[1].id = r
    BY <2>1, AskingOne
  <2>3. /\ f2 = << >> /\ Halted(m2)
        /\ Only(x, Replied \cup Debris) /\ Own(x, Replied, r)
        /\ Lasting(x, f2, m2, {"checksum"})
    <3>1. CASE Serves(f, m, st, x, f2, m2, st2)
      <4>1. x = Reply(r) /\ f2 = << >> /\ m2 = "loop"
        BY <2>2, <3>1 DEF Serves
      <4>2. /\ Only(x, Replied) /\ Own(x, Replied, r) /\ Len(x) = 4
            /\ \A i \in 1 .. 4 : x[i].t = "checksum" => i = 4
        BY <4>1, Replies
      <4> QED
        BY <4>1, <4>2 DEF Only, Lasting, Halted
    <3>2. CASE Fails(f, m, st, x, f2, m2, st2)
      BY <1>3, <2>1, <2>2, <3>2 DEF Fails
    <3> QED
      BY <1>2, <2>1, <3>1, <3>2 DEF Says
  <2> QED
    BY <1>1, <2>1, <2>3 DEF ReadWire
<1>5. WriteWire(s, f, m, r) => WriteWire(s \o x, f2, m2, r)
  <2> SUFFICES ASSUME WriteWire(s, f, m, r) PROVE WriteWire(s \o x, f2, m2, r)
    OBVIOUS
  <2>1. /\ Answering(s, f, m, {"C_ACK"}, "C_ACK", r) /\ Asking(f, "C_DOWNLOAD", r)
        /\ Halted(m) /\ "error" \notin {"C_ACK"} /\ f # << >>
    BY <1>2 DEF WriteWire, Answering, Says, Serves, Fails
  <2>2. Tail(f) = << >> /\ f[1].t = "C_DOWNLOAD" /\ f[1].id = r
    BY <2>1, AskingOne
  <2>3. /\ f2 = << >> /\ Halted(m2)
        /\ Only(x, {"C_ACK"} \cup Debris) /\ Own(x, {"C_ACK"}, r)
        /\ Lasting(x, f2, m2, {"C_ACK"})
    <3>1. CASE Serves(f, m, st, x, f2, m2, st2)
      <4>1. x = <<Item("C_ACK", r)>> /\ f2 = << >> /\ m2 = "loop"
        BY <2>2, <3>1 DEF Serves
      <4> QED
        BY <4>1 DEF Only, Own, Lasting, Halted, Item
    <3>2. CASE Fails(f, m, st, x, f2, m2, st2)
      BY <1>3, <2>1, <2>2, <3>2 DEF Fails
    <3> QED
      BY <1>2, <2>1, <3>1, <3>2 DEF Says
  <2> QED
    BY <1>1, <2>1, <2>3 DEF WriteWire
<1> QED
  BY <1>4, <1>5

\* The program is started, runs and stops.
LEMMA SaysGo ==
  ASSUME NEW s \in Seq(Items), NEW f \in Seq(Frames), NEW m, NEW st,
         NEW x \in Seq(Items), NEW f2, NEW m2, NEW st2,
         Says(f, m, st, x, f2, m2, st2), NEW r
  PROVE  GoWire(s, f, m, st, r) => GoWire(s \o x, f2, m2, st2, r)
<1> SUFFICES ASSUME GoWire(s, f, m, st, r)
             PROVE  GoWire(s \o x, f2, m2, st2, r)
  OBVIOUS
<1>1. /\ Only(s, Stops \cup {"C_ACK"} \cup Debris)
      /\ Own(s, Stops \cup {"C_ACK"}, r)
      /\ Lasting(s, f, m, Stops) /\ Started(s, f, m, st, r)
      /\ m # "booting" /\ Asking(f, "C_GO", r)
      /\ f # << >> => s = << >> /\ m = "loop"
      /\ m = "running" \/ ~None(s, {"C_ACK"}) =>
           f = << >> /\ m \in {"running", "loop"} /\ None(s, {"error"})
  BY DEF GoWire
<1>2. CASE Enters(f, m, st, x, f2, m2, st2)
  <2>1. /\ m = "running" /\ m2 = "loop" /\ f = << >> /\ f2 = << >>
        /\ Len(x) = 1 /\ x[1].id = r /\ x[1].t \in Stops
        /\ None(s, {"error"})
    BY <1>1, <1>2 DEF Enters, Started
  <2>2. Only(x, Stops \cup {"C_ACK"} \cup Debris)
        /\ Own(x, Stops \cup {"C_ACK"}, r) /\ Lasting(x, f2, m2, Stops)
        /\ None(x, {"error"})
    BY <2>1 DEF Only, Own, Lasting, None, Stops
  <2>3. Only(s \o x, Stops \cup {"C_ACK"} \cup Debris)
    BY <1>1, <2>2, AfterOnly
  <2>4. Own(s \o x, Stops \cup {"C_ACK"}, r)
    BY <1>1, <2>2, AfterOwn
  <2>5. Lasting(s \o x, f2, m2, Stops)
    BY <1>1, <2>1, <2>2, AfterLasting
  <2>6. None(s \o x, {"error"})
    BY <2>1, <2>2, AfterNone
  <2>7. Asking(f2, "C_GO", r)
    BY <1>1, <2>1
  <2>8. Started(s \o x, f2, m2, st2, r)
    BY <2>1 DEF Started
  <2> QED
    BY <2>1, <2>3, <2>4, <2>5, <2>6, <2>7, <2>8 DEF GoWire
<1>3. ASSUME f # << >>
      PROVE  /\ s \o x = x /\ m = "loop"
             /\ Tail(f) = << >> /\ f[1].t = "C_GO" /\ f[1].id = r
             /\ Asking(Tail(f), "C_GO", r)
  <2>1. s = << >> /\ m = "loop"
    BY <1>1, <1>3
  <2>2. << >> \o x = x
    BY ConcatEmptySeq
  <2>3. Tail(f) = << >> /\ f[1].t = "C_GO" /\ f[1].id = r
    BY <1>1, <1>3, AskingOne
  <2>4. Asking(<< >>, "C_GO", r)
    BY DEF Asking
  <2> QED
    BY <2>1, <2>2, <2>3, <2>4
<1>4. CASE Serves(f, m, st, x, f2, m2, st2)
  <2>1. f # << >> /\ f2 = Tail(f)
    BY <1>4 DEF Serves
  <2>2. x = <<Item("C_ACK", r)>> /\ m2 = "running" /\ st2 = r /\ f2 = << >>
    BY <1>3, <1>4, <2>1 DEF Serves
  <2>3. /\ Only(x, Stops \cup {"C_ACK"} \cup Debris)
        /\ Own(x, Stops \cup {"C_ACK"}, r) /\ Lasting(x, f2, m2, Stops)
        /\ None(x, {"error"}) /\ None(x, Exceptions)
    BY <2>2 DEF Only, Own, Lasting, None, Item, Stops, Exceptions
  <2> QED
    BY <1>3, <2>1, <2>2, <2>3 DEF GoWire, Started
<1>5. CASE Fails(f, m, st, x, f2, m2, st2)
  <2>1. f # << >> /\ f2 = Tail(f) /\ Halted(m2) /\ Only(x, {"error"})
        /\ Own(x, {"error"}, 0)
    BY <1>3, <1>5 DEF Fails
  <2>2. /\ Only(x, Stops \cup {"C_ACK"} \cup Debris)
        /\ Own(x, Stops \cup {"C_ACK"}, r) /\ Lasting(x, f2, m2, Stops)
        /\ None(x, {"C_ACK"})
    BY <2>1 DEF Only, Own, Lasting, None, Stops, Debris
  <2> QED
    BY <1>3, <2>1, <2>2 DEF GoWire, Started, Halted
<1> QED
  BY <1>2, <1>4, <1>5 DEF Says

LEMMA SaysRun ==
  ASSUME NEW s \in Seq(Items), NEW f \in Seq(Frames), NEW m, NEW st,
         NEW x \in Seq(Items), NEW f2, NEW m2, NEW st2,
         Says(f, m, st, x, f2, m2, st2), NEW r
  PROVE  /\ RunWire(s, f, m, st, r) => RunWire(s \o x, f2, m2, st2, r)
         /\ ResetWire(s, f, m) => ResetWire(s \o x, f2, m2)
         /\ ~QuietWire(s, f, m)
<1>1. RunWire(s, f, m, st, r) => RunWire(s \o x, f2, m2, st2, r)
  <2> SUFFICES ASSUME RunWire(s, f, m, st, r)
               PROVE  RunWire(s \o x, f2, m2, st2, r)
    OBVIOUS
  <2>1. Enters(f, m, st, x, f2, m2, st2)
    BY DEF RunWire, Says, Serves, Fails
  <2>2. /\ m = "running" /\ m2 = "loop" /\ f2 = << >> /\ st = r
        /\ Len(x) = 1 /\ x[1].id = r /\ x[1].t \in Stops
    BY <2>1 DEF RunWire, Enters, Started
  <2> DEFINE U == Stops \cup {"C_ACK", "noise"}
  <2>3. Only(x, U) /\ Own(x, Stops, r) /\ Lasting(x, f2, m2, Stops)
    BY <2>2 DEF Only, Own, Lasting
  <2>4. Only(s, U)
    BY DEF RunWire
  <2> HIDE DEF U
  <2>5. Only(s \o x, U)
    BY <2>3, <2>4, AfterOnly
  <2>6. Own(s \o x, Stops, r)
    BY <2>3, AfterOwn DEF RunWire
  <2>7. Lasting(s \o x, f2, m2, Stops)
    BY <2>2, <2>3, AfterLasting DEF RunWire
  <2>8. Started(s \o x, f2, m2, st2, r)
    BY <2>2 DEF Started
  <2> QED
    BY <2>2, <2>5, <2>6, <2>7, <2>8 DEF RunWire, U
<1>2. ResetWire(s, f, m) => ResetWire(s \o x, f2, m2)
  <2> SUFFICES ASSUME ResetWire(s, f, m) PROVE ResetWire(s \o x, f2, m2)
    OBVIOUS
  <2>1. Enters(f, m, st, x, f2, m2, st2)
    BY DEF ResetWire, Says, Serves, Fails
  <2>2. m = "booting" /\ m2 = "loop" /\ f2 = << >> /\ Len(x) = 1
    BY <2>1 DEF ResetWire, Enters
  <2>3. Lasting(x, f2, m2, Exceptions)
    BY <2>2 DEF Lasting
  <2>4. Lasting(s \o x, f2, m2, Exceptions)
    BY <2>2, <2>3, AfterLasting DEF ResetWire
  <2> QED
    BY <2>2, <2>4 DEF ResetWire
<1>3. ~QuietWire(s, f, m)
  BY DEF QuietWire, Says, Enters, Serves, Fails
<1> QED
  BY <1>1, <1>2, <1>3

\* While the host is interrupted.
LEMMA SaysNested ==
  ASSUME NEW s \in Seq(Items), NEW f \in Seq(Frames), NEW m, NEW st,
         NEW x \in Seq(Items), NEW f2, NEW m2, NEW st2,
         Says(f, m, st, x, f2, m2, st2)
  PROVE  /\ NoGo(s, f, m) => NoGo(s \o x, f2, m2)
         /\ MayGo(s, f, m) => MayGo(s \o x, f2, m2)
<1>1. NoGo(s, f, m) => NoGo(s \o x, f2, m2)
  <2> SUFFICES ASSUME NoGo(s, f, m) PROVE NoGo(s \o x, f2, m2)
    OBVIOUS
  <2>1. f # << >> /\ f2 = Tail(f)
    BY DEF NoGo, Halted, Says, Enters, Serves, Fails
  <2>2. f[1].t # "C_GO" /\ \A i \in 1 .. Len(f2) : f2[i].t # "C_GO"
    BY <2>1, FrameRead DEF NoGo
  <2>3. Halted(m2) /\ None(x, Exceptions)
    <3>1. CASE Serves(f, m, st, x, f2, m2, st2)
      <4>1. CASE x = Reply(f[1].id)
        <5>1. Only(x, Replied)
          BY <4>1, Replies
        <5> QED
          BY <2>2, <3>1, <5>1
             DEF Serves, Halted, Only, None, Replied, Exceptions
      <4>2. CASE x # Reply(f[1].id)
        BY <2>2, <3>1, <4>2 DEF Serves, Halted, None, Item, Exceptions
      <4> QED
        BY <4>1, <4>2
    <3>2. CASE Fails(f, m, st, x, f2, m2, st2)
      BY <3>2 DEF Fails, NoGo, Halted, Only, None, Exceptions
    <3> QED
      BY <3>1, <3>2 DEF NoGo, Halted, Says, Enters
  <2>4. None(s \o x, Exceptions)
    BY <2>3, AfterNone DEF NoGo
  <2> QED
    BY <2>2, <2>3, <2>4 DEF NoGo
<1>2. MayGo(s, f, m) => MayGo(s \o x, f2, m2)
  <2> SUFFICES ASSUME MayGo(s, f, m) PROVE MayGo(s \o x, f2, m2)
    OBVIOUS
  <2>1. CASE Enters(f, m, st, x, f2, m2, st2)
    <3>1. /\ m = "running" /\ m2 = "loop" /\ f2 = f /\ Len(x) = 1
          /\ None(s, Exceptions)
      BY <2>1 DEF MayGo, Enters
    <3>2. \A i \in 1 .. Len(f2) : f2[i].t = "C_SYNC"
      BY <3>1 DEF MayGo
    <3>3. ASSUME NEW i \in 1 .. Len(s \o x), NEW j \in 1 .. Len(s \o x),
                 i < j, (s \o x)[i].t \in Exceptions
          PROVE  FALSE
      <4>1. i > Len(s)
        BY <3>1, <3>3, After DEF None
      <4>2. Len(s \o x) = Len(s) + 1 /\ Len(s) \in Nat
        BY <3>1, After
      <4> QED
        BY <3>3, <4>1, <4>2
    <3> QED
      BY <3>1, <3>2, <3>3 DEF MayGo
  <2>2. ASSUME f # << >>, f2 = Tail(f)
        PROVE  \A i \in 1 .. Len(f2) : f2[i].t = "C_SYNC"
    BY <2>2, FrameRead DEF MayGo
  <2>3. ASSUME NEW y \in Seq(Items), \A i \in 1 .. Len(y) : y[i].t \in Debris \cup {"C_SYNC"}
        PROVE  \A i, j \in 1 .. Len(s \o y) :
                 i < j /\ (s \o y)[i].t \in Exceptions =>
                   (s \o y)[j].t \in Debris \cup {"C_SYNC"}
    <3> SUFFICES ASSUME NEW i \in 1 .. Len(s \o y), NEW j \in 1 .. Len(s \o y),
                        i < j, (s \o y)[i].t \in Exceptions
                 PROVE  (s \o y)[j].t \in Debris \cup {"C_SYNC"}
      OBVIOUS
    <3>1. CASE j > Len(s)
      BY <2>3, <3>1, After
    <3>2. CASE ~(j > Len(s))
      <4>1. j \in 1 .. Len(s) /\ (s \o y)[j] = s[j]
        BY <3>2, After
      <4>2. i \in 1 .. Len(s) /\ (s \o y)[i] = s[i]
        BY <3>2, After
      <4> QED
        BY <4>1, <4>2 DEF MayGo
    <3> QED
      BY <3>1, <3>2
  <2>4. CASE Serves(f, m, st, x, f2, m2, st2)
    <3>1. m = "loop" /\ f # << >> /\ f2 = Tail(f) /\ f[1].t \in {"C_GO", "C_SYNC"}
      BY <2>4, FrameRead DEF MayGo, Serves
    <3>2. CASE f[1].t = "C_SYNC"
      <4>1. x = <<Item("C_SYNC", 0)>> /\ m2 = "loop"
        BY <2>4, <3>1, <3>2 DEF Serves
      <4>2. \A i \in 1 .. Len(x) : x[i].t \in Debris \cup {"C_SYNC"}
        BY <4>1 DEF Item
      <4> QED
        BY <2>2, <2>3, <3>1, <4>1, <4>2 DEF MayGo
    <3>3. CASE f[1].t = "C_GO"
      <4>1. x = <<Item("C_ACK", f[1].id)>> /\ m2 = "running"
        BY <2>4, <3>3 DEF Serves
      <4>2. None(s, Exceptions) /\ None(x, Exceptions)
        BY <3>1, <3>3, <4>1, FrameRead DEF MayGo, None, Item, Exceptions
      <4>3. None(s \o x, Exceptions)
        BY <4>2, AfterNone
      <4> QED
        BY <2>2, <3>1, <4>1, <4>3 DEF MayGo, None
    <3> QED
      BY <3>1, <3>2, <3>3
  <2>5. CASE Fails(f, m, st, x, f2, m2, st2)
    <3>1. \A i \in 1 .. Len(x) : x[i].t \in Debris \cup {"C_SYNC"}
      BY <2>5 DEF Fails, Only, Debris
    <3>2. m2 # "booting" /\ (m2 = "running" => None(s \o x, Exceptions))
      <4>1. m2 = "running" => m = "running" /\ None(x, Exceptions)
        BY <2>5 DEF Fails, Halted, Only, None, Exceptions
      <4>2. m = "running" => None(s, Exceptions)
        BY DEF MayGo
      <4> QED
        BY <2>5, <4>1, <4>2, AfterNone DEF Fails, Halted
    <3> QED
      BY <2>2, <2>3, <2>5, <3>1, <3>2 DEF MayGo, Fails
  <2> QED
    BY <2>1, <2>4, <2>5 DEF Says
<1> QED
  BY <1>1, <1>2

LEMMA SaysSync ==
  ASSUME NEW s \in Seq(Items), NEW f \in Seq(Frames), NEW m, NEW st,
         NEW x \in Seq(Items), NEW f2, NEW m2, NEW st2,
         Says(f, m, st, x, f2, m2, st2)
  PROVE  /\ SyncWire(s, f, m) => SyncWire(s \o x, f2, m2)
         /\ ExamineWire(s, f, m) => ExamineWire(s \o x, f2, m2)
         /\ Anonymous(s, f) => Anonymous(s \o x, f2)
<1>1. f # << >> \/ m # "loop"
  BY DEF Says, Enters, Serves, Fails
<1>2. SyncWire(s, f, m) => SyncWire(s \o x, f2, m2)
  <2> SUFFICES ASSUME SyncWire(s, f, m) PROVE SyncWire(s \o x, f2, m2)
    OBVIOUS
  <2>1. \A i \in 1 .. Len(f2) : f2[i].t = "C_SYNC" => i = Len(f2)
    <3>1. CASE f2 = f
      BY <3>1 DEF SyncWire
    <3>2. CASE f # << >> /\ f2 = Tail(f)
      <4> SUFFICES ASSUME NEW i \in 1 .. Len(f2), f2[i].t = "C_SYNC"
                   PROVE  i = Len(f2)
        OBVIOUS
      <4>1. i + 1 \in 1 .. Len(f) /\ f[i + 1].t = "C_SYNC"
            /\ Len(f2) = Len(f) - 1 /\ Len(f) \in Nat
        BY <3>2, FrameRead
      <4>2. i + 1 = Len(f)
        BY <4>1 DEF SyncWire
      <4> QED
        BY <4>1, <4>2
    <3> QED
      BY <3>1, <3>2 DEF Says, Enters, Serves, Fails
  <2>2. Lasting(x, f2, m2, {"C_SYNC"})
    <3>1. CASE None(x, {"C_SYNC"})
      BY <3>1 DEF None, Lasting
    <3>2. CASE Serves(f, m, st, x, f2, m2, st2) /\ f[1].t = "C_SYNC"
      <4>1. Len(x) = 1 /\ m2 = "loop" /\ f2 = Tail(f) /\ f # << >>
        BY <3>2 DEF Serves
      <4>2. 1 = Len(f) /\ Tail(f) \in Seq(Frames) /\ Len(Tail(f)) = Len(f) - 1
        <5>1. 1 \in 1 .. Len(f) /\ Tail(f) \in Seq(Frames)
              /\ Len(Tail(f)) = Len(f) - 1
          BY <4>1, FrameRead
        <5>2. 1 = Len(f)
          BY <3>2, <5>1 DEF SyncWire
        <5> QED
          BY <5>1, <5>2
      <4>3. f2 = << >>
        <5>1. f2 \in Seq(Frames) /\ Len(f2) = 0
          BY <4>1, <4>2
        <5> QED
          BY <5>1, Length
      <4> QED
        BY <4>1, <4>3 DEF Lasting
    <3>3. CASE Serves(f, m, st, x, f2, m2, st2) /\ f[1].t = "C_UPLOAD"
      <4>1. Only(x, Replied)
        BY <3>3, Replies DEF Serves
      <4> QED
        BY <4>1 DEF Only, Lasting, Replied
    <3>4. CASE /\ Serves(f, m, st, x, f2, m2, st2)
               /\ f[1].t \notin {"C_SYNC", "C_UPLOAD"}
      BY <3>4 DEF Serves, Lasting, Item
    <3>5. CASE Enters(f, m, st, x, f2, m2, st2)
      BY <3>5 DEF Enters, Lasting, Stops
    <3>6. CASE Fails(f, m, st, x, f2, m2, st2)
      BY <3>6 DEF Fails, Only, Lasting
    <3> QED
      BY <3>2, <3>3, <3>4, <3>5, <3>6 DEF Says
  <2>3. Lasting(s \o x, f2, m2, {"C_SYNC"})
    BY <1>1, <2>2, AfterLasting DEF SyncWire
  <2> QED
    BY <2>1, <2>3 DEF SyncWire
<1>3. ExamineWire(s, f, m) => ExamineWire(s \o x, f2, m2)
  <2> SUFFICES ASSUME ExamineWire(s, f, m) PROVE ExamineWire(s \o x, f2, m2)
    OBVIOUS
  <2>1. f # << >> /\ f2 = Tail(f)
    BY DEF ExamineWire, Halted, Says, Enters, Serves, Fails
  <2>2. /\ f[1].t \in {"C_SYNC", "C_UPLOAD"} /\ f[1].id = 0
        /\ f[1].t = "C_UPLOAD" => 1 = Len(f)
    BY <2>1, FrameRead DEF ExamineWire
  <2>3. \A i \in 1 .. Len(f2) :
          /\ f2[i].t \in {"C_SYNC", "C_UPLOAD"} /\ f2[i].id = 0
          /\ f2[i].t = "C_UPLOAD" => i = Len(f2)
    <3> SUFFICES ASSUME NEW i \in 1 .. Len(f2)
                 PROVE  /\ f2[i].t \in {"C_SYNC", "C_UPLOAD"} /\ f2[i].id = 0
                        /\ f2[i].t = "C_UPLOAD" => i = Len(f2)
      OBVIOUS
    <3>1. /\ i + 1 \in 1 .. Len(f) /\ f2[i] = f[i + 1]
          /\ Len(f2) = Len(f) - 1 /\ Len(f) \in Nat
      BY <2>1, FrameRead
    <3>2. /\ f[i + 1].t \in {"C_SYNC", "C_UPLOAD"} /\ f[i + 1].id = 0
          /\ f[i + 1].t = "C_UPLOAD" => i + 1 = Len(f)
      BY <3>1 DEF ExamineWire
    <3> QED
      BY <3>1, <3>2
  <2>4. /\ Halted(m2) /\ None(x, Exceptions) /\ Lasting(x, f2, m2, {"checksum"})
        /\ \A i \in 1 .. Len(x) : x[i].id = 0
    <3>1. CASE Serves(f, m, st, x, f2, m2, st2) /\ f[1].t = "C_UPLOAD"
      <4>1. x = Reply(0) /\ m2 = "loop"
        BY <2>2, <3>1 DEF Serves
      <4>2. /\ Only(x, Replied) /\ Own(x, Replied, 0) /\ Len(x) = 4
            /\ \A i \in 1 .. 4 : x[i].t = "checksum" => i = 4
        BY <4>1, Replies
      <4>3. f2 = << >>
        BY <2>1, <2>2, <3>1, FrameRead, Length
      <4>4. None(x, Exceptions)
        BY <4>2 DEF Only, None, Replied, Exceptions
      <4>5. \A i \in 1 .. Len(x) : x[i].id = 0
        BY <4>2 DEF Only, Own
      <4> QED
        BY <4>1, <4>2, <4>3, <4>4, <4>5 DEF Halted, Lasting
    <3>2. CASE Serves(f, m, st, x, f2, m2, st2) /\ f[1].t = "C_SYNC"
      <4>1. x = <<Item("C_SYNC", 0)>> /\ m2 = "loop"
        BY <3>2 DEF Serves
      <4>2. None(x, Exceptions)
        BY <4>1 DEF None, Item, Exceptions
      <4>3. Lasting(x, f2, m2, {"checksum"})
        BY <4>1 DEF Lasting, Item
      <4>4. \A i \in 1 .. Len(x) : x[i].id = 0
        BY <4>1 DEF Item
      <4> QED
        BY <4>1, <4>2, <4>3, <4>4 DEF Halted
    <3>3. CASE Fails(f, m, st, x, f2, m2, st2)
      BY <3>3 DEF Fails, ExamineWire, Halted, Only, Own, None, Lasting, Exceptions
    <3> QED
      BY <2>2, <3>1, <3>2, <3>3 DEF ExamineWire, Halted, Says, Enters
  <2>5. None(s \o x, Exceptions)
    BY <2>4, AfterNone DEF ExamineWire
  <2>6. Lasting(s \o x, f2, m2, {"checksum"})
    BY <1>1, <2>4, AfterLasting DEF ExamineWire
  <2>7. \A i \in 1 .. Len(s \o x) : (s \o x)[i].id = 0
    BY <2>4, After DEF ExamineWire
  <2> QED
    BY <2>3, <2>4, <2>5, <2>6, <2>7 DEF ExamineWire
<1>4. Anonymous(s, f) => Anonymous(s \o x, f2)
  <2> SUFFICES ASSUME Anonymous(s, f) PROVE Anonymous(s \o x, f2)
    OBVIOUS
  <2>1. \A i \in 1 .. Len(f2) : f2[i].t = "C_SYNC" => f2[i].id = 0
    <3>1. CASE f2 = f
      BY <3>1 DEF Anonymous
    <3>2. CASE f # << >> /\ f2 = Tail(f)
      BY <3>2, FrameRead DEF Anonymous
    <3> QED
      BY <3>1, <3>2 DEF Says, Enters, Serves, Fails
  <2>2. \A i \in 1 .. Len(x) : x[i].t \in Debris \cup {"C_SYNC"} => x[i].id = 0
    <3>1. CASE Serves(f, m, st, x, f2, m2, st2) /\ f[1].t = "C_UPLOAD"
      <4>1. Only(x, Replied)
        BY <3>1, Replies DEF Serves
      <4> QED
        BY <4>1 DEF Only, Replied, Debris
    <3>2. CASE Serves(f, m, st, x, f2, m2, st2) /\ f[1].t # "C_UPLOAD"
      BY <3>2 DEF Serves, Item, Debris
    <3>3. CASE Enters(f, m, st, x, f2, m2, st2)
      BY <3>3 DEF Enters, Stops, Debris
    <3>4. CASE Fails(f, m, st, x, f2, m2, st2)
      BY <3>4 DEF Fails, Only, Own
    <3> QED
      BY <3>1, <3>2, <3>3, <3>4 DEF Says
  <2>3. \A i \in 1 .. Len(s \o x) :
          (s \o x)[i].t \in Debris \cup {"C_SYNC"} => (s \o x)[i].id = 0
    BY <2>2, After DEF Anonymous
  <2> QED
    BY <2>1, <2>3 DEF Anonymous
<1> QED
  BY <1>2, <1>3, <1>4

\* The actions of the target do that, or nothing that matters.
Idles ==
  /\ Inflow' = Inflow /\ Outflow' = Outflow
  /\ monitor' = monitor /\ started' = started

LEMMA TargetSays ==
  ASSUME TypeOK, Target
  PROVE  /\ inbuf' \in Seq(Items) /\ rx' \in Seq(Items)
         /\ out' \in Seq(Frames) /\ tx' \in Seq(Frames)
         /\ monitor' \in {"loop", "running", "booting", "deaf", "hungry"}
         /\ started' \in 0 .. MaxRequests /\ flipflop' \in BOOLEAN
         /\ UNCHANGED <<Host, faults>>
         /\ \/ Idles
            \/ \E x \in Seq(Items) :
                 /\ Inflow' = Inflow \o x
                 /\ Says(Outflow, monitor, started, x,
                         Outflow', monitor', started')
<1>1. /\ inbuf \in Seq(Items) /\ rx \in Seq(Items) /\ Inflow \in Seq(Items)
      /\ out \in Seq(Frames) /\ tx \in Seq(Frames) /\ Outflow \in Seq(Frames)
  BY Flows
<1>2. /\ monitor \in {"loop", "running", "booting", "deaf", "hungry"}
      /\ started \in 0 .. MaxRequests /\ flipflop \in BOOLEAN
      /\ MaxRequests \in Nat /\ 0 \in 0 .. MaxRequests
  BY LinkAssumption DEF TypeOK
<1>3. UNCHANGED <<Host, faults>> /\ inbuf' = inbuf /\ out' = out
  BY DEF Target, Boot, Stop, Serve, Misread, Swallow, Ignore, Host, flags
<1> DEFINE Goal(x) ==
      /\ rx' \in Seq(Items) /\ tx' \in Seq(Frames)
      /\ Inflow' = Inflow \o x
      /\ Says(Outflow, monitor, started, x, Outflow', monitor', started')
\* What is sent goes to the end.
<1>4. ASSUME NEW x \in Seq(Items), rx' = rx \o x
      PROVE  rx' \in Seq(Items) /\ Inflow' = Inflow \o x
  <2>1. rx \o x \in Seq(Items)
    BY <1>1, <1>4, ConcatProperties
  <2>2. inbuf \o (rx \o x) = (inbuf \o rx) \o x
    <3>1. inbuf \in Seq(Items) /\ rx \in Seq(Items)
      BY <1>1
    <3> QED
      BY <3>1, x \in Seq(Items), ConcatAssociative
  <2> QED
    BY <1>3, <1>4, <2>1, <2>2 DEF Inflow
<1>5. ASSUME NEW t \in Exceptions \cup Tokens \cup Words \cup Errors,
             NEW r \in 0 .. MaxRequests
      PROVE  Item(t, r) \in Items /\ <<Item(t, r)>> \in Seq(Items)
  <2>1. Item(t, r) \in Items
    BY DEF Item, Items
  <2> QED
    BY <2>1
<1>6. ASSUME Arriving
      PROVE  /\ tx # << >> /\ tx' \in Seq(Frames)
             /\ Outflow # << >> /\ Outflow' = Tail(Outflow)
             /\ Head(tx) \in Frames /\ Outflow[1] = Head(tx)
  <2>1. tx # << >> /\ tx' = Tail(tx)
    BY <1>6 DEF Arriving
  <2>2. /\ Head(tx) = tx[1] /\ Head(tx) \in Frames /\ Tail(tx) \in Seq(Frames)
    BY <1>1, <2>1, HeadTailProperties
  <2>3. /\ Tail(tx) \o out = Tail(tx \o out) /\ (tx \o out)[1] = tx[1]
        /\ tx \o out # << >>
    BY <1>1, <2>1, TailOfBoth
  <2> QED
    BY <1>3, <2>1, <2>2, <2>3 DEF Outflow
<1>7. ASSUME Boot \/ Stop
      PROVE  \E x \in Seq(Items) : Goal(x)
  <2>1. PICK t \in {"TR_RESET", "TR_BPT", "TR_INT"} :
          /\ rx' = rx \o <<Item(t, started)>>
          /\ tx' = tx /\ monitor' = "loop" /\ started' = 0
          /\ \/ monitor = "booting" /\ t = "TR_RESET"
             \/ monitor = "running" /\ t \in {"TR_BPT", "TR_INT"}
    BY <1>7 DEF Boot, Stop, Enter, Send
  <2> DEFINE x == <<Item(t, started)>>
  <2>2. x \in Seq(Items) /\ Len(x) = 1 /\ x[1].id = started /\ x[1].t = t
    BY <1>2, <1>5 DEF Exceptions, Item
  <2>3. rx' = rx \o x
    BY <2>1
  <2> HIDE DEF x
  <2>4. rx' \in Seq(Items) /\ Inflow' = Inflow \o x
    BY <1>4, <2>2, <2>3
  <2>5. Outflow' = Outflow
    BY <1>3, <2>1 DEF Outflow
  <2>6. Enters(Outflow, monitor, started, x, Outflow', monitor', started')
    BY <2>1, <2>2, <2>5 DEF Enters, Stops
  <2> QED
    BY <1>1, <2>1, <2>2, <2>4, <2>6 DEF Says
<1>8. ASSUME Serve PROVE \E x \in Seq(Items) : Goal(x)
  <2>1. /\ tx # << >> /\ tx' \in Seq(Frames) /\ monitor = "loop"
        /\ Outflow # << >> /\ Outflow' = Tail(Outflow)
        /\ Head(tx) \in Frames /\ Outflow[1] = Head(tx)
    BY <1>6, <1>8 DEF Serve
  <2> DEFINE r == Outflow[1].id
  <2>2. r \in 0 .. MaxRequests
    BY <2>1 DEF Frames
  <2>3. ASSUME NEW x \in Seq(Items), rx' = rx \o x,
               Serves(Outflow, monitor, started, x, Outflow', monitor', started')
        PROVE  Goal(x)
    BY <1>4, <2>1, <2>3 DEF Says
  <2>4. CASE Outflow[1].t = "C_UPLOAD" /\ rx' = rx \o Reply(r)
             /\ UNCHANGED <<monitor, started>>
    <3>1. Reply(r) \in Seq(Items)
      <4>1. /\ Item("C_DATASTART", r) \in Items /\ Item("word", r) \in Items
            /\ Item("C_DATAEND", r) \in Items /\ Item("checksum", r) \in Items
        BY <1>5, <2>2 DEF Tokens, Words
      <4> QED
        BY <4>1 DEF Reply
    <3>2. Serves(Outflow, monitor, started, Reply(r), Outflow', monitor', started')
      BY <2>1, <2>4 DEF Serves
    <3> QED
      BY <2>3, <2>4, <3>1, <3>2
  <2>5. CASE Outflow[1].t \in {"C_DOWNLOAD", "C_GO"}
             /\ rx' = rx \o <<Item("C_ACK", r)>>
             /\ IF Outflow[1].t = "C_GO"
                  THEN monitor' = "running" /\ started' = r
                  ELSE UNCHANGED <<monitor, started>>
    <3>1. <<Item("C_ACK", r)>> \in Seq(Items)
      BY <1>5, <2>2 DEF Tokens
    <3>2. Serves(Outflow, monitor, started, <<Item("C_ACK", r)>>,
                 Outflow', monitor', started')
      BY <2>1, <2>5 DEF Serves
    <3> QED
      BY <2>3, <2>5, <3>1, <3>2
  <2>6. CASE Outflow[1].t = "C_SYNC" /\ rx' = rx \o <<Item("C_SYNC", 0)>>
             /\ UNCHANGED <<monitor, started>>
    <3>1. <<Item("C_SYNC", 0)>> \in Seq(Items)
      BY <1>2, <1>5 DEF Tokens
    <3>2. Serves(Outflow, monitor, started, <<Item("C_SYNC", 0)>>,
                 Outflow', monitor', started')
      BY <2>1, <2>6 DEF Serves
    <3> QED
      BY <2>3, <2>6, <3>1, <3>2
  <2>7. CASE rx' = rx /\ started' = started /\ monitor' = "deaf"
    <3>1. << >> \in Seq(Items) /\ rx \o << >> = rx
      BY <1>1, ConcatEmptySeq
    <3>2. rx' \in Seq(Items) /\ Inflow' = Inflow \o << >>
      BY <1>4, <2>7, <3>1
    <3>3. Fails(Outflow, monitor, started, << >>, Outflow', monitor', started')
      BY <2>1, <2>7 DEF Fails, Halted, Only, Own
    <3> QED
      BY <2>1, <3>1, <3>2, <3>3 DEF Says
  <2>8. Head(tx) = Outflow[1]
    BY <2>1
  <2> QED
    BY <1>8, <2>4, <2>5, <2>6, <2>7, <2>8 DEF Serve, Send
<1>9. ASSUME NEW n \in 0 .. 2
      PROVE  /\ [i \in 1 .. n |-> Item("error", 0)] \in Seq(Items)
             /\ Only([i \in 1 .. n |-> Item("error", 0)], {"error"})
             /\ Own([i \in 1 .. n |-> Item("error", 0)], {"error"}, 0)
  <2>1. Item("error", 0) \in Items
    BY <1>2, <1>5 DEF Errors
  <2> QED
    BY <2>1 DEF Only, Own, Item
<1>10. ASSUME Misread \/ Swallow \/ (Ignore /\ Arriving)
       PROVE  \E x \in Seq(Items) : Goal(x)
  <2>1. /\ Arriving /\ started' = started
        /\ \/ monitor = "running" /\ monitor' = "running" /\ rx' = rx
           \/ /\ monitor # "running" /\ monitor # "booting"
              /\ monitor' \in {"loop", "deaf", "hungry"}
              /\ \/ rx' = rx
                 \/ \E n \in 0 .. 2 : rx' = rx \o [i \in 1 .. n |-> Item("error", 0)]
    BY <1>2, <1>10 DEF Misread, Swallow, Ignore, Error, Send
  <2>2. /\ tx' \in Seq(Frames) /\ Outflow # << >> /\ Outflow' = Tail(Outflow)
    BY <1>6, <2>1
  <2>3. CASE rx' = rx
    <3>1. << >> \in Seq(Items) /\ rx \o << >> = rx
      BY <1>1, ConcatEmptySeq
    <3>2. rx' \in Seq(Items) /\ Inflow' = Inflow \o << >>
      BY <1>4, <2>3, <3>1
    <3>3. Fails(Outflow, monitor, started, << >>, Outflow', monitor', started')
      BY <2>1, <2>2 DEF Fails, Halted, Only, Own
    <3> QED
      BY <2>2, <3>1, <3>2, <3>3 DEF Says
  <2>4. ASSUME NEW n \in 0 .. 2, rx' = rx \o [i \in 1 .. n |-> Item("error", 0)],
               monitor \notin {"running", "booting"},
               monitor' \in {"loop", "deaf", "hungry"}
        PROVE  \E x \in Seq(Items) : Goal(x)
    <3> DEFINE x == [i \in 1 .. n |-> Item("error", 0)]
    <3>1. x \in Seq(Items) /\ Only(x, {"error"}) /\ Own(x, {"error"}, 0)
      BY <1>9
    <3>2. rx' = rx \o x
      BY <2>4
    <3> HIDE DEF x
    <3>3. rx' \in Seq(Items) /\ Inflow' = Inflow \o x
      BY <1>4, <3>1, <3>2
    <3>4. Fails(Outflow, monitor, started, x, Outflow', monitor', started')
      BY <2>1, <2>2, <2>4, <3>1 DEF Fails, Halted
    <3> QED
      BY <2>2, <3>1, <3>3, <3>4 DEF Says
  <2> QED
    BY <2>1, <2>3, <2>4
<1>11. ASSUME Ignore, ~Arriving
       PROVE  rx' \in Seq(Items) /\ tx' \in Seq(Frames) /\ Idles
  BY <1>1, <1>3, <1>11 DEF Ignore, Idles, Inflow, Outflow
<1>12. /\ monitor' \in {"loop", "running", "booting", "deaf", "hungry"}
       /\ flipflop' \in BOOLEAN
  BY <1>2 DEF Target, Boot, Stop, Enter, Serve, Misread, Swallow, Ignore
<1>13. started' \in 0 .. MaxRequests
  <2>1. started' \in {0, started} \/ (tx # << >> /\ started' = Head(tx).id)
    BY DEF Target, Boot, Stop, Enter, Serve, Arriving, Misread, Swallow, Ignore
  <2>2. tx # << >> => Head(tx) \in Frames
    BY <1>1, HeadTailProperties
  <2> QED
    BY <1>2, <2>1, <2>2 DEF Frames
<1>14. CASE \E x \in Seq(Items) : Goal(x)
  BY <1>1, <1>3, <1>12, <1>13, <1>14
<1>15. CASE Ignore /\ ~Arriving
  BY <1>1, <1>3, <1>11, <1>12, <1>13, <1>15
<1> QED
  BY <1>7, <1>8, <1>10, <1>14, <1>15 DEF Target

-----------------------------------------------------------------------------
(***************************************************************************)
(* Whatever the situation says of the line it says still.                  *)
(***************************************************************************)
Kept ==
  /\ \A r : /\ ReadWire(Inflow, Outflow, monitor, r) =>
                 ReadWire(Inflow, Outflow, monitor, r)'
            /\ WriteWire(Inflow, Outflow, monitor, r) =>
                 WriteWire(Inflow, Outflow, monitor, r)'
            /\ GoWire(Inflow, Outflow, monitor, started, r) =>
                 GoWire(Inflow, Outflow, monitor, started, r)'
            /\ RunWire(Inflow, Outflow, monitor, started, r) =>
                 RunWire(Inflow, Outflow, monitor, started, r)'
  /\ ResetWire(Inflow, Outflow, monitor) => ResetWire(Inflow, Outflow, monitor)'
  /\ NoGo(Inflow, Outflow, monitor) => NoGo(Inflow, Outflow, monitor)'
  /\ MayGo(Inflow, Outflow, monitor) => MayGo(Inflow, Outflow, monitor)'
  /\ SyncWire(Inflow, Outflow, monitor) => SyncWire(Inflow, Outflow, monitor)'
  /\ ExamineWire(Inflow, Outflow, monitor) =>
       ExamineWire(Inflow, Outflow, monitor)'
  /\ Anonymous(Inflow, Outflow) => Anonymous(Inflow, Outflow)'
  /\ Quiet => Quiet'
  /\ Inflow = << >> /\ Outflow = << >> /\ Halted(monitor) =>
       Inflow' = << >> /\ Outflow' = << >>

LEMMA ThinKeeps ==
  ASSUME Inflow \in Seq(Items), Inflow' \in Seq(Items), Thinned(Inflow', Inflow),
         Outflow \in Seq(Frames), Outflow' \in Seq(Frames),
         Thinned(Outflow', Outflow), UNCHANGED <<monitor, started>>
  PROVE  Kept
<1> DEFINE s == Inflow
           s2 == Inflow'
           f == Outflow
           f2 == Outflow'
<1>1. /\ s \in Seq(Items) /\ s2 \in Seq(Items) /\ Thinned(s2, s)
      /\ f \in Seq(Frames) /\ f2 \in Seq(Frames) /\ Thinned(f2, f)
  OBVIOUS
<1>2. monitor' = monitor /\ started' = started
  OBVIOUS
<1> HIDE DEF s, s2, f, f2
<1>3. \A r : /\ ReadWire(s, f, monitor, r) => ReadWire(s2, f2, monitor, r)
             /\ WriteWire(s, f, monitor, r) => WriteWire(s2, f2, monitor, r)
  BY <1>1, ThinAnswering
<1>4. \A r : /\ GoWire(s, f, monitor, started, r) => GoWire(s2, f2, monitor, started, r)
             /\ RunWire(s, f, monitor, started, r) => RunWire(s2, f2, monitor, started, r)
             /\ ResetWire(s, f, monitor) => ResetWire(s2, f2, monitor)
  BY <1>1, ThinGo
<1>5. /\ NoGo(s, f, monitor) => NoGo(s2, f2, monitor)
      /\ MayGo(s, f, monitor) => MayGo(s2, f2, monitor)
      /\ SyncWire(s, f, monitor) => SyncWire(s2, f2, monitor)
      /\ ExamineWire(s, f, monitor) => ExamineWire(s2, f2, monitor)
      /\ Anonymous(s, f) => Anonymous(s2, f2)
      /\ QuietWire(s, f, monitor) => QuietWire(s2, f2, monitor)
  BY <1>1, ThinNested
<1>6. (s = << >> => s2 = << >>) /\ (f = << >> => f2 = << >>)
  BY <1>1, ThinEmpty
<1> QED
  BY <1>2, <1>3, <1>4, <1>5, <1>6 DEF Kept, Quiet, s, s2, f, f2

LEMMA TargetKeeps ==
  ASSUME TypeOK, Target
  PROVE  Kept
<1> DEFINE s == Inflow
           f == Outflow
           f2 == Outflow'
           m == monitor
           m2 == monitor'
           st == started
           st2 == started'
<1>1. Inflow \in Seq(Items) /\ Outflow \in Seq(Frames)
  BY Flows
<1>2. CASE Idles
  BY <1>2 DEF Idles, Kept, Quiet
<1>3. ASSUME NEW x \in Seq(Items), Inflow' = Inflow \o x,
             Says(Outflow, monitor, started, x, Outflow', monitor', started')
      PROVE  Kept
  <2>1. /\ s \in Seq(Items) /\ f \in Seq(Frames)
        /\ Says(f, m, st, x, f2, m2, st2) /\ Inflow' = s \o x
    BY <1>1, <1>3
  <2> HIDE DEF s, f, f2, m, m2, st, st2
  <2>2. \A r : /\ ReadWire(s, f, m, r) => ReadWire(s \o x, f2, m2, r)
               /\ WriteWire(s, f, m, r) => WriteWire(s \o x, f2, m2, r)
    BY <2>1, SaysAnswering
  <2>3. \A r : GoWire(s, f, m, st, r) => GoWire(s \o x, f2, m2, st2, r)
    BY <2>1, SaysGo
  <2>4. \A r : /\ RunWire(s, f, m, st, r) => RunWire(s \o x, f2, m2, st2, r)
               /\ ResetWire(s, f, m) => ResetWire(s \o x, f2, m2)
               /\ ~QuietWire(s, f, m)
    BY <2>1, SaysRun
  <2>5. /\ NoGo(s, f, m) => NoGo(s \o x, f2, m2)
        /\ MayGo(s, f, m) => MayGo(s \o x, f2, m2)
    BY <2>1, SaysNested
  <2>6. /\ SyncWire(s, f, m) => SyncWire(s \o x, f2, m2)
        /\ ExamineWire(s, f, m) => ExamineWire(s \o x, f2, m2)
        /\ Anonymous(s, f) => Anonymous(s \o x, f2)
    BY <2>1, SaysSync
  <2>7. ~(f = << >> /\ Halted(m))
    BY <2>1 DEF Says, Enters, Serves, Fails, Halted
  <2> QED
    BY <2>1, <2>2, <2>3, <2>4, <2>5, <2>6, <2>7
       DEF Kept, Quiet, s, f, f2, m, m2, st, st2
<1> QED
  BY <1>2, <1>3, TargetSays

LEMMA FaultKeeps ==
  ASSUME TypeOK, Fault
  PROVE  /\ Kept
         /\ inbuf' \in Seq(Items) /\ rx' \in Seq(Items)
         /\ out' \in Seq(Frames) /\ tx' \in Seq(Frames)
<1>1. /\ inbuf \in Seq(Items) /\ rx \in Seq(Items) /\ Inflow \in Seq(Items)
      /\ out \in Seq(Frames) /\ tx \in Seq(Frames) /\ Outflow \in Seq(Frames)
  BY Flows
<1>2. inbuf' = inbuf /\ out' = out /\ UNCHANGED <<monitor, started>>
  BY DEF Fault, Host, target
<1>3. Thinned(rx', rx) /\ rx' \in Seq(Items)
  <2>1. CASE rx' = rx
    BY <1>1, <2>1, ThinSame
  <2>2. ASSUME NEW i \in DOMAIN rx, rx' = [rx EXCEPT ![i] = Item("noise", 0)]
        PROVE  Thinned(rx', rx) /\ rx' \in Seq(Items)
    <3>1. i \in 1 .. Len(rx)
      BY <1>1, LenProperties
    <3>2. Item("noise", 0) \in Items
      BY LinkAssumption DEF Item, Items, Words
    <3>3. /\ rx' \in Seq(Items) /\ Len(rx') = Len(rx)
          /\ \A j \in 1 .. Len(rx) :
               rx'[j] = IF j = i THEN Item("noise", 0) ELSE rx[j]
      BY <1>1, <2>2, <3>1, <3>2, ExceptSeq
    <3>4. \A j \in 1 .. Len(rx) :
            Same(rx'[j], rx[j]) \/ (rx'[j].t = "noise" /\ rx'[j].id = 0)
      BY <3>3 DEF Same, Item
    <3> QED
      BY <1>1, <3>3, <3>4, ThinReplaced
  <2>3. ASSUME NEW i \in DOMAIN rx, rx' = SubSeq(rx, 1, i - 1) \o From(rx, i + 1)
        PROVE  Thinned(rx', rx) /\ rx' \in Seq(Items)
    <3>1. i \in 1 .. Len(rx)
      BY <1>1, LenProperties
    <3> QED
      BY <1>1, <2>3, <3>1, ThinRemoved
  <2> QED
    BY <2>1, <2>2, <2>3 DEF Fault
<1>4. Thinned(tx', tx) /\ tx' \in Seq(Frames)
  <2>1. CASE tx' = tx
    BY <1>1, <2>1, ThinSame
  <2>2. ASSUME NEW i \in DOMAIN tx, tx' = [tx EXCEPT ![i].good = FALSE]
        PROVE  Thinned(tx', tx) /\ tx' \in Seq(Frames)
    <3> DEFINE e == [tx[i] EXCEPT !.good = FALSE]
    <3>1. i \in 1 .. Len(tx)
      BY <1>1, LenProperties
    <3>2. tx[i] \in Frames
      BY <1>1, <3>1, ElementOfSeq
    <3>3. e \in Frames /\ Same(e, tx[i])
      BY <3>2 DEF Frames, Same
    <3>4. tx' = [tx EXCEPT ![i] = e]
      BY <2>2
    <3> HIDE DEF e
    <3>5. /\ tx' \in Seq(Frames) /\ Len(tx') = Len(tx)
          /\ \A j \in 1 .. Len(tx) : tx'[j] = IF j = i THEN e ELSE tx[j]
      BY <1>1, <3>1, <3>3, <3>4, ExceptSeq
    <3>6. \A j \in 1 .. Len(tx) :
            Same(tx'[j], tx[j]) \/ (tx'[j].t = "noise" /\ tx'[j].id = 0)
      BY <3>3, <3>5 DEF Same
    <3> QED
      BY <1>1, <3>5, <3>6, ThinReplaced
  <2> QED
    BY <2>1, <2>2 DEF Fault
<1>5. Thinned(inbuf, inbuf) /\ Thinned(out, out)
  BY <1>1, ThinSame
<1>6. Thinned(Inflow', Inflow) /\ Inflow' \in Seq(Items)
  BY <1>1, <1>2, <1>3, <1>5, ThinBoth, ConcatProperties DEF Inflow
<1>7. Thinned(Outflow', Outflow) /\ Outflow' \in Seq(Frames)
  BY <1>1, <1>2, <1>4, <1>5, ThinBoth, ConcatProperties DEF Outflow
<1>8. Kept
  BY <1>1, <1>2, <1>6, <1>7, ThinKeeps
<1> QED
  BY <1>1, <1>2, <1>3, <1>4, <1>8

\* Where the host does not move, it stays in its situation.
LEMMA Stays ==
  ASSUME Kept, Situation,
         UNCHANGED <<phase, interrupted, flags, asked, answer>>, Spoilt => Spoilt'
  PROVE  Situation'
<1> USE DEF flags
<1>1. UNCHANGED <<Calm, Linked, Base>>
  BY DEF Calm, Linked, Base
<1>2. AtPrompt => AtPrompt'
  BY <1>1 DEF AtPrompt, Kept
<1>3. AtRead => AtRead'
  <2> SUFFICES ASSUME AtRead PROVE AtRead'
    OBVIOUS
  <2>1. Halted(monitor)
    BY DEF AtRead, ReadWire, Answering
  <2> QED
    BY <1>1, <2>1 DEF AtRead, Kept
<1>4. AtWrite => AtWrite'
  BY <1>1 DEF AtWrite, Kept
<1>5. AtGo => AtGo'
  BY <1>1 DEF AtGo, Kept
<1>6. AtRunning => AtRunning'
  BY DEF AtRunning, Kept
<1>7. AtReset => AtReset'
  BY DEF AtReset, Kept
<1>8. Nested => Nested'
  BY <1>1 DEF Nested, Kept
<1>9. AtSync => AtSync'
  BY <1>1, <1>8 DEF AtSync, Kept
<1>10. AtInterrupt => AtInterrupt'
  BY <1>1, <1>8 DEF AtInterrupt, Kept
<1>11. AtExamine => AtExamine'
  BY <1>1 DEF AtExamine, Kept
<1> QED
  BY <1>2, <1>3, <1>4, <1>5, <1>6, <1>7, <1>9, <1>10, <1>11 DEF Situation

-----------------------------------------------------------------------------
(***************************************************************************)
(* Types.                                                                  *)
(***************************************************************************)
Sequenced ==
  /\ inbuf \in Seq(Items) /\ rx \in Seq(Items)
  /\ out \in Seq(Frames) /\ tx \in Seq(Frames)
  /\ seen \in Seq(Items) /\ Len(seen) =< 4

\* A step of the host that reads, in any of its forms.
LEMMA ReadTypes ==
  ASSUME TypeOK, Readable, NEW n \in Batch
  PROVE  /\ Buffered(n) \in Seq(Items) /\ Unread(n) \in Seq(Items)
         /\ \A m \in 0 .. Len(Unread(n)) : From(Unread(n), m + 1) \in Seq(Items)
         /\ \A p : Summed(p) \in Seq(Items) /\ Len(Summed(p)) =< 4
<1>1. Buffered(n) \in Seq(Items) /\ Unread(n) \in Seq(Items) /\ c \in Items
  BY Reads
<1>2. ASSUME NEW m \in 0 .. Len(Unread(n))
      PROVE  From(Unread(n), m + 1) \in Seq(Items)
  <2>1. m + 1 \in 1 .. Len(Unread(n)) + 1
    BY <1>1, LenProperties
  <2> QED
    BY <1>1, <2>1, Later
<1>3. ASSUME NEW p PROVE Summed(p) \in Seq(Items) /\ Len(Summed(p)) =< 4
  <2>1. seen \in Seq(Items) /\ Len(seen) \in Nat /\ Len(seen) =< 4
    BY Flows, LenProperties DEF TypeOK
  <2>2. /\ Append(seen, c) \in Seq(Items)
        /\ Len(Append(seen, c)) = Len(seen) + 1
    BY <1>1, <2>1, AppendProperties
  <2> QED
    BY <2>1, <2>2 DEF Summed
<1> QED
  BY <1>1, <1>2, <1>3

LEMMA FlushTypes ==
  ASSUME TypeOK, NEW m \in 0 .. Len(rx)
  PROVE  /\ From(rx, m + 1) \in Seq(Items) /\ Thinned(From(rx, m + 1), rx)
<1>1. rx \in Seq(Items) /\ m + 1 \in 1 .. Len(rx) + 1
  BY Flows, LenProperties
<1> QED
  BY <1>1, Later, ThinLater

LEMMA Sequences ==
  ASSUME TypeOK, Next
  PROVE  Sequenced'
<1>1. /\ inbuf \in Seq(Items) /\ rx \in Seq(Items) /\ seen \in Seq(Items)
      /\ out \in Seq(Frames) /\ tx \in Seq(Frames) /\ Len(seen) =< 4
      /\ << >> \in Seq(Items) /\ << >> \in Seq(Frames) /\ Len(<< >>) =< 4
  BY Flows, EmptySeq DEF TypeOK
<1>2. /\ MaxRequests \in Nat /\ asked \in 0 .. MaxRequests
      /\ Frame("C_UPLOAD", 0) \in Frames /\ Frame("C_SYNC", 0) \in Frames
  BY LinkAssumption DEF TypeOK, Frame, Frames
<1>3. CASE Command
  <2>1. ASSUME NEW t \in {"C_UPLOAD", "C_DOWNLOAD", "C_GO"}, NEW wait,
               send_request(t, wait)
        PROVE  Sequenced'
    <3>1. /\ inbuf' = inbuf /\ rx' = rx /\ tx' = tx /\ seen' = << >>
          /\ out' = Append(out, Frame(t, asked + 1)) /\ asked + 1 \in 0 .. MaxRequests
      BY <1>2, <2>1 DEF send_request
    <3>2. Frame(t, asked + 1) \in Frames
      BY <3>1 DEF Frame, Frames
    <3>3. out' \in Seq(Frames)
      BY <1>1, <3>1, <3>2, AppendProperties
    <3> QED
      BY <1>1, <3>1, <3>3 DEF Sequenced
  <2>2. CASE interrupt_command
    BY <1>1, <2>2 DEF interrupt_command, line, Sequenced
  <2>3. CASE flush_command
    BY <1>1, <2>3, FlushTypes DEF flush_command, Sequenced
  <2>4. CASE reset_remote
    BY <1>1, <2>4 DEF reset_remote, Sequenced
  <2> QED
    BY <1>3, <2>1, <2>2, <2>3, <2>4
       DEF Command, forced_read_remote, write_remote, go_remote
<1>4. CASE flush_output_buffer
  <2>1. /\ tx' = tx \o out /\ out' = << >>
        /\ inbuf' = inbuf /\ rx' = rx /\ seen' = seen
    BY <1>4 DEF flush_output_buffer
  <2>2. tx \o out \in Seq(Frames)
    BY <1>1, ConcatProperties
  <2> QED
    BY <1>1, <2>1, <2>2 DEF Sequenced
<1>5. CASE KeepWaiting \/ QuitWait \/ SyncTimeout \/ ExceptionTimeout
  BY <1>1, <1>5
     DEF KeepWaiting, QuitWait, SyncTimeout, ExceptionTimeout, line, rerr,
         ToPrompt, send_interrupt_signal, Sequenced
<1>6. ASSUME NEW n \in Batch, Read(n) PROVE Sequenced'
  <2>1. Readable
    BY <1>6 DEF Read, FindToken, SkipSync, MissToken, GetWord, verify_checksum,
         TakeException, TakeInterrupt, ExceptionError, SkipChar, AtToken,
         AtException
  <2>2. inbuf' = Buffered(n) /\ rx' = Unread(n) /\ tx' = tx
    BY <1>6 DEF Read, FindToken, SkipSync, MissToken, GetWord, verify_checksum,
         TakeException, TakeInterrupt, ExceptionError, SkipChar, read_char
  <2>3. out' = out \/ out' = Append(out, Frame("C_UPLOAD", 0))
    BY <1>6 DEF Read, FindToken, SkipSync, MissToken, GetWord, verify_checksum,
         TakeException, TakeInterrupt, ExceptionError, SkipChar, read_char
  <2>4. seen' = seen \/ seen' = << >> \/ \E p : seen' = Summed(p)
    <3>1. ASSUME NEW p, Proceed(p) PROVE seen' = Summed(phase)
      BY <3>1 DEF Proceed
    <3>2. ASSUME ToPrompt PROVE seen' = << >>
      BY <3>2 DEF ToPrompt
    <3>3. CASE FindToken(n)
      <4>1. phase \in DOMAIN Token
        BY <3>3 DEF FindToken, AtToken
      <4>2. phase \in {"reply", "dataend", "ack", "goack", "sync"}
        BY <4>1 DEF Token
      <4>3. CASE phase \in {"reply", "dataend"}
        BY <3>1, <3>3, <4>3 DEF FindToken
      <4>4. CASE phase = "ack"
        BY <3>2, <3>3, <4>4 DEF FindToken, Completed
      <4>5. CASE phase = "goack"
        BY <3>3, <4>5 DEF FindToken
      <4>6. CASE phase = "sync"
        BY <3>3, <4>6 DEF FindToken
      <4> QED
        BY <4>2, <4>3, <4>4, <4>5, <4>6
    <3>4. CASE SkipSync(n)
      BY <3>4 DEF SkipSync
    <3>5. CASE MissToken(n)
      BY <3>2, <3>5 DEF MissToken, Completed, rerr
    <3>6. CASE GetWord(n)
      BY <3>2, <3>6 DEF GetWord, rerr
    <3>7. CASE verify_checksum(n)
      <4>1. rerr \/ Return \/ Completed(answer)
        BY <3>7 DEF verify_checksum
      <4> QED
        BY <3>2, <4>1 DEF rerr, Return, Completed
    <3>8. CASE TakeException(n)
      BY <3>2, <3>8 DEF TakeException, rerr, Completed
    <3>9. CASE TakeInterrupt(n)
      BY <3>9 DEF TakeInterrupt
    <3>10. CASE ExceptionError(n)
      BY <3>2, <3>10 DEF ExceptionError, rerr, Completed
    <3>11. CASE SkipChar(n)
      BY <3>11 DEF SkipChar
    <3> QED
      BY <1>6, <3>3, <3>4, <3>5, <3>6, <3>7, <3>8, <3>9, <3>10, <3>11 DEF Read
  <2>5. out' \in Seq(Frames)
    <3>1. Append(out, Frame("C_UPLOAD", 0)) \in Seq(Frames)
      BY <1>1, <1>2, AppendProperties
    <3> QED
      BY <1>1, <2>3, <3>1
  <2>6. seen' \in Seq(Items) /\ Len(seen') =< 4
    BY <1>1, <2>1, <2>4, ReadTypes
  <2>7. Buffered(n) \in Seq(Items) /\ Unread(n) \in Seq(Items)
    BY <2>1, ReadTypes
  <2> QED
    BY <1>1, <2>2, <2>5, <2>6, <2>7 DEF Sequenced
<1>7. ASSUME NEW n \in Batch, NEW m \in 0 .. Len(Unread(n)),
             TokenError(n, m) \/ SyncWithout(n, m)
      PROVE  Sequenced'
  <2>1. Readable
    BY <1>7 DEF TokenError, AtToken, SyncWithout
  <2>2. /\ inbuf' = Buffered(n) /\ tx' = tx
        /\ rx' = Unread(n) \/ rx' = From(Unread(n), m + 1)
        /\ out' = out \/ out' = << >>
        /\ seen' = << >>
    BY <1>7 DEF TokenError, SyncWithout, read_and_flush, read_char, rerr,
         ToPrompt, send_interrupt_signal
  <2>3. /\ Buffered(n) \in Seq(Items) /\ Unread(n) \in Seq(Items)
        /\ From(Unread(n), m + 1) \in Seq(Items)
    BY <2>1, ReadTypes
  <2> QED
    BY <1>1, <2>2, <2>3 DEF Sequenced
<1>8. ASSUME NEW m \in 0 .. Len(rx), Sync(m) PROVE Sequenced'
  <2>1. tx' = Append(tx, Frame("C_SYNC", 0))
    BY <1>8 DEF Sync
  <2>2. tx' \in Seq(Frames)
    BY <1>1, <1>2, <2>1, AppendProperties
  <2> QED
    BY <1>1, <1>8, <2>2, FlushTypes DEF Sync, Sequenced
<1>9. ASSUME NEW m \in 0 .. Len(rx), Nmi(m) PROVE Sequenced'
  BY <1>1, <1>9, FlushTypes DEF Nmi, send_interrupt_signal, Sequenced
<1>10. CASE Target
  BY <1>1, <1>10, TargetSays DEF Host, Sequenced
<1>11. CASE Fault
  BY <1>1, <1>11, FaultKeeps DEF Fault, Host, Sequenced
<1> QED
  BY <1>3, <1>4, <1>5, <1>6, <1>7, <1>8, <1>9, <1>10, <1>11 DEF Next

Counted ==
  /\ monitor \in {"loop", "running", "booting", "deaf", "hungry"}
  /\ started \in 0 .. MaxRequests /\ asked \in 0 .. MaxRequests
  /\ answer \in 0 .. MaxRequests /\ faults \in 0 .. MaxFaults

LEMMA Counts ==
  ASSUME TypeOK, Next
  PROVE  Counted'
<1>1. Counted /\ MaxRequests \in Nat /\ MaxFaults \in Nat /\ 0 \in 0 .. MaxRequests
  BY LinkAssumption DEF TypeOK, Counted
<1>2. CASE Command
  <2>1. ASSUME NEW t, NEW wait, send_request(t, wait) PROVE Counted'
    BY <1>1, <2>1 DEF send_request, target, Counted
  <2>2. CASE interrupt_command \/ flush_command \/ reset_remote
    BY <1>1, <2>2
       DEF interrupt_command, flush_command, reset_remote, target, history, Counted
  <2> QED
    BY <1>2, <2>1, <2>2
       DEF Command, forced_read_remote, write_remote, go_remote
<1>3. CASE \/ flush_output_buffer \/ KeepWaiting \/ QuitWait \/ SyncTimeout
           \/ ExceptionTimeout
  BY <1>1, <1>3
     DEF flush_output_buffer, KeepWaiting, QuitWait, SyncTimeout,
         ExceptionTimeout, rerr, send_interrupt_signal, target, history, Counted
<1>4. ASSUME NEW n \in Batch, Read(n) PROVE Counted'
  <2>1. Readable /\ UNCHANGED <<target, faults>>
    BY <1>4 DEF Read, FindToken, SkipSync, MissToken, GetWord, verify_checksum,
         TakeException, TakeInterrupt, ExceptionError, SkipChar, AtToken,
         AtException, read_char
  <2>2. c.id \in 0 .. MaxRequests
    BY <2>1, Reads DEF Items
  <2>3. asked' = asked /\ answer' \in {0, answer, asked, c.id}
    <3>1. ASSUME NEW p, Proceed(p) PROVE asked' = asked /\ answer' = answer
      BY <3>1 DEF Proceed, history
    <3>2. ASSUME rerr PROVE asked' = asked /\ answer' = 0
      BY <3>2 DEF rerr
    <3>3. ASSUME NEW r, Completed(r) PROVE asked' = asked /\ answer' = r
      BY <3>3 DEF Completed
    <3>4. CASE FindToken(n)
      <4>1. phase \in {"reply", "dataend", "ack", "goack", "sync"}
        BY <3>4 DEF FindToken, AtToken, Token
      <4>2. CASE phase \in {"reply", "dataend"}
        BY <3>1, <3>4, <4>2 DEF FindToken
      <4>3. CASE phase = "ack"
        BY <3>3, <3>4, <4>3 DEF FindToken
      <4>4. CASE phase = "goack"
        BY <3>4, <4>4 DEF FindToken
      <4>5. CASE phase = "sync"
        BY <3>4, <4>5 DEF FindToken, history
      <4> QED
        BY <4>1, <4>2, <4>3, <4>4, <4>5
    <3>5. CASE SkipSync(n)
      BY <3>5 DEF SkipSync, history
    <3>6. CASE MissToken(n)
      <4>1. Completed(0) \/ Completed(c.id) \/ rerr
        BY <3>6 DEF MissToken
      <4> QED
        BY <3>2, <3>3, <4>1
    <3>7. CASE GetWord(n)
      BY <3>2, <3>7 DEF GetWord
    <3>8. CASE verify_checksum(n)
      <4>1. rerr \/ Return \/ Completed(answer)
        BY <3>8 DEF verify_checksum
      <4> QED
        BY <3>2, <3>3, <4>1 DEF Return, history
    <3>9. CASE TakeException(n)
      BY <3>2, <3>3, <3>9 DEF TakeException
    <3>10. CASE TakeInterrupt(n)
      BY <3>10 DEF TakeInterrupt
    <3>11. CASE ExceptionError(n)
      <4>1. rerr \/ Completed(answer)
        BY <3>11 DEF ExceptionError
      <4> QED
        BY <3>2, <3>3, <4>1
    <3>12. CASE SkipChar(n)
      BY <3>12 DEF SkipChar, history
    <3> QED
      BY <1>4, <3>4, <3>5, <3>6, <3>7, <3>8, <3>9, <3>10, <3>11, <3>12 DEF Read
  <2> QED
    BY <1>1, <2>1, <2>2, <2>3 DEF target, Counted
<1>5. ASSUME NEW n \in Batch, NEW m \in 0 .. Len(Unread(n)),
             TokenError(n, m) \/ SyncWithout(n, m)
      PROVE  Counted'
  BY <1>1, <1>5
     DEF TokenError, SyncWithout, read_and_flush, read_char, rerr,
         send_interrupt_signal, target, history, Counted
<1>6. ASSUME NEW m, Sync(m) \/ Nmi(m) PROVE Counted'
  BY <1>1, <1>6 DEF Sync, Nmi, send_interrupt_signal, target, history, Counted
<1>7. CASE Target
  <2>1. /\ monitor' \in {"loop", "running", "booting", "deaf", "hungry"}
        /\ started' \in 0 .. MaxRequests /\ UNCHANGED <<Host, faults>>
    BY <1>7, TargetSays
  <2> QED
    BY <1>1, <2>1 DEF Host, history, Counted
<1>8. CASE Fault
  <2>1. faults < MaxFaults /\ faults' = faults + 1
    BY <1>8 DEF Fault
  <2>2. faults' \in 0 .. MaxFaults
    BY <1>1, <2>1 DEF Counted
  <2>3. UNCHANGED <<monitor, started, asked, answer>>
    BY <1>8 DEF Fault, Host, history, target
  <2> QED
    BY <1>1, <2>2, <2>3 DEF Counted
<1> QED
  BY <1>2, <1>3, <1>4, <1>5, <1>6, <1>7, <1>8 DEF Next

Flagged ==
  /\ masked \in BOOLEAN /\ ignore_errors \in BOOLEAN
  /\ trying_to_sync \in BOOLEAN /\ target_running \in BOOLEAN
  /\ attention \in BOOLEAN /\ flipflop \in BOOLEAN /\ broken \in BOOLEAN

LEMMA Flags ==
  ASSUME TypeOK, Next
  PROVE  Flagged'
<1> USE DEF flags, history, target
<1>1. Flagged
  BY DEF TypeOK, Flagged
<1>2. CASE Command
  BY <1>1, <1>2
     DEF Command, forced_read_remote, write_remote, go_remote, send_request,
         interrupt_command, flush_command, reset_remote, Flagged
<1>3. CASE \/ flush_output_buffer \/ KeepWaiting \/ QuitWait \/ SyncTimeout
           \/ ExceptionTimeout
  BY <1>1, <1>3
     DEF flush_output_buffer, KeepWaiting, QuitWait, SyncTimeout,
         ExceptionTimeout, rerr, ToPrompt, send_interrupt_signal, Flagged
<1>4. ASSUME NEW n \in Batch, Read(n) PROVE Flagged'
  <2>1. ASSUME NEW p, Proceed(p) PROVE masked' = masked /\ broken' = broken
    BY <2>1 DEF Proceed
  <2>2. ASSUME rerr PROVE masked' = FALSE /\ broken' = TRUE
    BY <2>2 DEF rerr, ToPrompt
  <2>3. ASSUME NEW r, Completed(r) PROVE masked' = FALSE /\ broken' = broken
    BY <2>3 DEF Completed, ToPrompt
  <2>4. CASE FindToken(n)
    <3>1. flipflop' = flipflop
      BY <2>4 DEF FindToken, read_char
    <3>2. phase \in {"reply", "dataend", "ack", "goack", "sync"}
      BY <2>4 DEF FindToken, AtToken, Token
    <3>3. CASE phase \in {"reply", "dataend"}
      BY <1>1, <2>1, <2>4, <3>1, <3>3 DEF FindToken, Flagged
    <3>4. CASE phase = "ack"
      BY <1>1, <2>3, <2>4, <3>1, <3>4 DEF FindToken, Flagged
    <3>5. CASE phase = "goack"
      BY <1>1, <2>4, <3>1, <3>5 DEF FindToken, Flagged
    <3>6. CASE phase = "sync"
      BY <1>1, <2>4, <3>1, <3>6 DEF FindToken, Flagged
    <3> QED
      BY <3>2, <3>3, <3>4, <3>5, <3>6
  <2>5. CASE SkipSync(n) \/ SkipChar(n)
    BY <1>1, <2>5 DEF SkipSync, SkipChar, read_char, Flagged
  <2>6. CASE MissToken(n)
    <3>1. Completed(0) \/ Completed(c.id) \/ rerr
      BY <2>6 DEF MissToken
    <3> QED
      BY <1>1, <2>2, <2>3, <2>6, <3>1 DEF MissToken, read_char, Flagged
  <2>7. CASE GetWord(n)
    BY <1>1, <2>2, <2>7 DEF GetWord, read_char, Flagged
  <2>8. CASE verify_checksum(n)
    <3>1. flipflop' = flipflop
      BY <2>8 DEF verify_checksum, read_char
    <3>2. CASE Return
      <4>1. masked' \in {FALSE, masked} /\ broken' = broken
        BY <2>3, <3>2 DEF Return
      <4> QED
        BY <1>1, <3>1, <3>2, <4>1 DEF Return, Flagged
    <3>3. CASE (rerr \/ Completed(answer)) /\ UNCHANGED flags
      BY <1>1, <2>2, <2>3, <3>1, <3>3 DEF Flagged
    <3> QED
      BY <2>8, <3>2, <3>3 DEF verify_checksum
  <2>9. CASE TakeException(n)
    <3>1. /\ flipflop' = flipflop /\ target_running' = FALSE
          /\ UNCHANGED <<ignore_errors, trying_to_sync>>
      BY <2>9 DEF TakeException, read_char
    <3>2. attention' \in {attention, FALSE} /\ masked' = FALSE
          /\ broken' \in {FALSE, TRUE, broken}
      BY <2>2, <2>3, <2>9 DEF TakeException, ToPrompt
    <3> QED
      BY <1>1, <3>1, <3>2 DEF Flagged
  <2>10. CASE TakeInterrupt(n)
    BY <1>1, <2>10 DEF TakeInterrupt, Flagged
  <2>11. CASE ExceptionError(n)
    <3>1. rerr \/ Completed(answer)
      BY <2>11 DEF ExceptionError
    <3>2. attention' \in BOOLEAN
      BY <2>11 DEF ExceptionError
    <3>3. masked' = FALSE /\ broken' \in {TRUE, broken}
      BY <2>2, <2>3, <3>1
    <3> QED
      BY <1>1, <2>11, <3>2, <3>3 DEF ExceptionError, read_char, Flagged
  <2> QED
    BY <1>4, <2>4, <2>5, <2>6, <2>7, <2>8, <2>9, <2>10, <2>11 DEF Read
<1>5. ASSUME NEW n \in Batch, NEW m \in 0 .. Len(Unread(n)),
             TokenError(n, m) \/ SyncWithout(n, m)
      PROVE  Flagged'
  BY <1>1, <1>5
     DEF TokenError, SyncWithout, read_and_flush, read_char, rerr, ToPrompt,
         send_interrupt_signal, Flagged
<1>6. ASSUME NEW m, Sync(m) \/ Nmi(m) PROVE Flagged'
  BY <1>1, <1>6 DEF Sync, Nmi, send_interrupt_signal, Flagged
<1>7. CASE Target
  BY <1>1, <1>7, TargetSays DEF Host, Flagged
<1>8. CASE Fault
  BY <1>1, <1>8 DEF Fault, Host, Flagged
<1> QED
  BY <1>2, <1>3, <1>4, <1>5, <1>6, <1>7, <1>8 DEF Next

Placed ==
  /\ phase \in Phases
  /\ interrupted \in Seq([phase : Phases, running : BOOLEAN])
  /\ Len(interrupted) =< MaxNested
  /\ phase \in {"sync", "nmi"} => interrupted # << >>
  /\ phase = "prompt" => interrupted = << >> /\ ~masked

LEMMA Typed ==
  TypeOK <=> Placed /\ Sequenced /\ Counted /\ Flagged
<1>1. TypeOK => Placed
  BY DEF TypeOK, Placed
<1>2. TypeOK => Sequenced
  BY DEF TypeOK, Sequenced
<1>3. TypeOK => Counted
  BY DEF TypeOK, Counted
<1>4. TypeOK => Flagged
  BY DEF TypeOK, Flagged
<1>5. Placed /\ Sequenced /\ Counted /\ Flagged => TypeOK
  <2> SUFFICES ASSUME Placed, Sequenced, Counted, Flagged PROVE TypeOK
    OBVIOUS
  <2>1. {masked, ignore_errors, trying_to_sync, target_running, attention,
         flipflop, broken} \subseteq BOOLEAN
    BY DEF Flagged
  <2>2. {seen, inbuf, rx} \subseteq Seq(Items) /\ Len(seen) =< 4
        /\ {out, tx} \subseteq Seq(Frames)
    BY DEF Sequenced
  <2>3. {started, asked, answer} \subseteq 0 .. MaxRequests
    BY DEF Counted
  <2> QED
    BY <2>1, <2>2, <2>3 DEF TypeOK, Placed, Counted
<1> QED
  BY <1>1, <1>2, <1>3, <1>4, <1>5

Depth == [phase : Phases, running : BOOLEAN]

\* The moves of the host: to the prompt, not at all, on, down and up.
LEMMA GoesToPrompt ==
  ASSUME ToPrompt
  PROVE  Placed' /\ Stacked'
<1>1. phase' = "prompt" /\ interrupted' = << >> /\ masked' = FALSE
  BY DEF ToPrompt
<1>2. /\ << >> \in Seq(Depth) /\ Len(<< >>) = 0 /\ MaxNested \in Nat
  BY EmptySeq, LinkAssumption
<1>3. Placed'
  BY <1>1, <1>2 DEF Placed, Phases, Depth
<1>4. ~Examining'
  BY <1>1 DEF Examining
<1> QED
  BY <1>1, <1>2, <1>3, <1>4 DEF Stacked

LEMMA Waits ==
  ASSUME Placed, Stacked, UNCHANGED <<phase, interrupted, attention>>,
         (masked' => masked) \/ phase \notin {"prompt", "sync"}
  PROVE  Placed' /\ Stacked'
<1>1. Placed'
  BY DEF Placed
<1>2. Stacked'
  BY DEF Stacked, Examining
<1> QED
  BY <1>1, <1>2

LEMMA MovesOn ==
  ASSUME Placed, Stacked, UNCHANGED <<interrupted, attention>>,
         \/ phase \in Reading /\ phase' \in Reading
         \/ phase = "goack" /\ phase' = "running"
         \/ phase = "nmi" /\ phase' = "reply"
  PROVE  Placed' /\ Stacked'
<1>1. Placed'
  BY DEF Placed, Stacked, Reading, Phases
<1>2. phase' \in {"prompt", "reset", "goack", "running", "ack"} => interrupted' = << >>
  BY DEF Stacked, Reading
<1>3. phase' \in {"reset", "nmi"} \/ Examining' => attention'
  BY DEF Stacked, Examining, Reading
<1>4. phase' \notin {"sync", "nmi"}
  BY DEF Reading
<1> QED
  BY <1>1, <1>2, <1>3, <1>4 DEF Stacked

LEMMA IsInterrupted ==
  ASSUME Placed, Stacked, ~masked, phase # "astray", ~attention,
         Len(interrupted) < MaxNested, target_running \in BOOLEAN,
         interrupted' = Interrupted, masked' = masked,
         phase' = "sync" \/ (phase' = "nmi" /\ attention')
  PROVE  /\ Placed' /\ Stacked'
         /\ Len(interrupted') = Len(interrupted) + 1
         /\ interrupted'[1] = [phase |-> phase, running |-> target_running]
         /\ \A i \in 1 .. Len(interrupted) : interrupted'[i + 1] = interrupted[i]
<1> DEFINE d == [phase |-> phase, running |-> target_running]
<1>1. /\ d \in Depth /\ <<d>> \in Seq(Depth) /\ Len(<<d>>) = 1 /\ <<d>>[1] = d
      /\ interrupted \in Seq(Depth) /\ Len(interrupted) \in Nat
      /\ MaxNested \in Nat
  BY LinkAssumption, LenProperties DEF Placed, Depth
<1> HIDE DEF d
<1>2. interrupted' = <<d>> \o interrupted
  BY DEF Interrupted, d
<1>3. /\ interrupted' \in Seq(Depth) /\ Len(interrupted') = Len(interrupted) + 1
      /\ \A i \in 1 .. Len(interrupted) + 1 :
           interrupted'[i] = IF i <= 1 THEN d ELSE interrupted[i - 1]
  <2>1. /\ <<d>> \o interrupted \in Seq(Depth)
        /\ Len(<<d>> \o interrupted) = Len(<<d>>) + Len(interrupted)
        /\ \A i \in 1 .. Len(<<d>>) + Len(interrupted) :
             (<<d>> \o interrupted)[i] =
               IF i <= Len(<<d>>) THEN <<d>>[i] ELSE interrupted[i - Len(<<d>>)]
    BY <1>1, ConcatProperties
  <2>2. \A i \in 1 .. Len(interrupted) + 1 :
          interrupted'[i] = IF i <= 1 THEN d ELSE interrupted[i - 1]
    BY <1>1, <1>2, <2>1
  <2> QED
    BY <1>1, <1>2, <2>1, <2>2
<1>4. interrupted'[1] = d
  BY <1>1, <1>3
<1>5. \A i \in 1 .. Len(interrupted) : interrupted'[i + 1] = interrupted[i]
  BY <1>1, <1>3
<1>6. interrupted' # << >>
  BY <1>1, <1>3, Length
<1>7. Placed'
  BY <1>1, <1>3, <1>6 DEF Placed, Phases, Depth
<1>8. d.phase \in IF interrupted = << >> THEN Bases ELSE {"sync"}
  BY DEF Placed, Stacked, Phases, Bases, Reading, Examining, d
<1>9. ASSUME NEW i \in 1 .. Len(interrupted')
      PROVE  interrupted'[i].phase \in
               IF i = Len(interrupted') THEN Bases ELSE {"sync"}
  <2>1. CASE i = 1
    BY <1>1, <1>3, <1>4, <1>8, <2>1, Length
  <2>2. CASE i # 1
    <3>1. i - 1 \in 1 .. Len(interrupted) /\ (i - 1) + 1 = i
          /\ (i = Len(interrupted') <=> i - 1 = Len(interrupted))
      BY <1>1, <1>3, <2>2
    <3>2. interrupted'[i] = interrupted[i - 1]
      BY <1>5, <3>1
    <3> QED
      BY <3>1, <3>2 DEF Stacked
  <2> QED
    BY <2>1, <2>2
<1>10. ~Examining'
  BY DEF Examining
<1>11. Stacked'
  BY <1>6, <1>9, <1>10 DEF Stacked
<1> QED
  BY <1>3, <1>4, <1>5, <1>7, <1>11 DEF d

LEMMA Resumes ==
  ASSUME Placed, Stacked, interrupted # << >>, masked' = FALSE,
         phase' = Head(interrupted).phase, interrupted' = Tail(interrupted)
  PROVE  /\ Placed' /\ Stacked'
         /\ Len(interrupted) \in Nat \ {0}
         /\ Head(interrupted) = interrupted[1]
         /\ Len(interrupted') = Len(interrupted) - 1
         /\ \A i \in 1 .. Len(interrupted') : interrupted'[i] = interrupted[i + 1]
         /\ Len(interrupted) = 1 => phase' \in Bases /\ interrupted' = << >>
         /\ Len(interrupted) > 1 => phase' = "sync" /\ interrupted' # << >>
<1>1. /\ interrupted \in Seq(Depth) /\ Len(interrupted) \in Nat \ {0}
      /\ Len(interrupted) =< MaxNested /\ MaxNested \in Nat
  BY EmptySeq, LinkAssumption DEF Placed, Depth
<1>2. /\ Head(interrupted) = interrupted[1] /\ Head(interrupted) \in Depth
      /\ interrupted' \in Seq(Depth) /\ Len(interrupted') = Len(interrupted) - 1
      /\ \A i \in 1 .. Len(interrupted') : interrupted'[i] = interrupted[i + 1]
  BY <1>1, HeadTailProperties
<1>3. interrupted[1].phase \in IF 1 = Len(interrupted) THEN Bases ELSE {"sync"}
  <2>1. 1 \in 1 .. Len(interrupted)
    BY <1>1
  <2> QED
    BY <2>1 DEF Stacked
<1>10. interrupted' = << >> <=> Len(interrupted) = 1
  <2>1. interrupted' = << >> <=> Len(interrupted') = 0
    BY <1>2, Length
  <2> QED
    BY <1>1, <1>2, <2>1
<1>11. Len(interrupted) # 1 <=> Len(interrupted) > 1
  <2>1. \A n \in Nat \ {0} : n # 1 <=> n > 1
    OBVIOUS
  <2> QED
    BY <1>1, <2>1
<1>4. Len(interrupted) = 1 => phase' \in Bases /\ interrupted' = << >>
  BY <1>2, <1>3, <1>10
<1>5. Len(interrupted) > 1 => phase' = "sync" /\ interrupted' # << >>
  BY <1>2, <1>3, <1>10, <1>11
<1>6. Placed'
  <2>1. phase' \in Phases
    BY <1>2 DEF Depth
  <2>2. Len(interrupted') =< MaxNested
    BY <1>1, <1>2
  <2>3. /\ phase' \in {"sync", "nmi"} => interrupted' # << >>
        /\ phase' = "prompt" => interrupted' = << >>
    BY <1>4, <1>5, <1>11 DEF Bases, Reading
  <2> QED
    BY <1>2, <2>1, <2>2, <2>3 DEF Placed, Depth
<1>7. ASSUME NEW i \in 1 .. Len(interrupted')
      PROVE  interrupted'[i].phase \in
               IF i = Len(interrupted') THEN Bases ELSE {"sync"}
  <2>1. /\ i + 1 \in 1 .. Len(interrupted)
        /\ i = Len(interrupted') <=> i + 1 = Len(interrupted)
    BY <1>1, <1>2
  <2> QED
    BY <1>2, <2>1 DEF Stacked
<1>8. /\ phase' \in {"prompt", "reset", "goack", "running", "ack"} => interrupted' = << >>
      /\ phase' \in {"sync", "nmi"} => interrupted' # << >>
      /\ ~(phase' \in {"reset", "nmi"} \/ Examining')
  BY <1>4, <1>5, <1>11 DEF Bases, Reading, Examining
<1>9. Stacked'
  BY <1>7, <1>8 DEF Stacked
<1> QED
  BY <1>1, <1>2, <1>4, <1>5, <1>6, <1>9

LEMMA Stacks ==
  ASSUME TypeOK, Stacked, Next
  PROVE  Placed' /\ Stacked'
<1>1. /\ Placed /\ target_running \in BOOLEAN
      /\ interrupted \in Seq([phase : Phases, running : BOOLEAN])
  BY DEF TypeOK, Placed
<1>2. CASE Command
  <2>1. ASSUME NEW t, NEW wait \in {"reply", "ack", "goack"}, send_request(t, wait)
        PROVE  Placed' /\ Stacked'
    <3>1. interrupted' = << >> /\ phase' \in {"reply", "ack", "goack"}
      BY <1>1, <2>1 DEF send_request, Placed
    <3>2. << >> \in Seq(Depth) /\ Len(<< >>) = 0 /\ MaxNested \in Nat
      BY EmptySeq, LinkAssumption
    <3>3. Placed'
      BY <3>1, <3>2 DEF Placed, Phases, Depth
    <3>4. Stacked'
      BY <3>1, <3>2 DEF Stacked, Examining
    <3> QED
      BY <3>3, <3>4
  <2>2. CASE interrupt_command \/ flush_command
    <3>1. UNCHANGED <<phase, interrupted, attention, masked>>
      BY <2>2 DEF interrupt_command, flush_command, flags
    <3> QED
      BY <1>1, <3>1, Waits
  <2>3. CASE reset_remote
    <3>1. interrupted' = << >> /\ phase' = "reset" /\ attention' = TRUE
      BY <1>1, <2>3 DEF reset_remote, Placed
    <3>2. << >> \in Seq(Depth) /\ Len(<< >>) = 0 /\ MaxNested \in Nat
      BY EmptySeq, LinkAssumption
    <3>3. Placed'
      BY <3>1, <3>2 DEF Placed, Phases, Depth
    <3>4. Stacked'
      BY <3>1, <3>2 DEF Stacked, Examining
    <3> QED
      BY <3>3, <3>4
  <2> QED
    BY <1>2, <2>1, <2>2, <2>3
       DEF Command, forced_read_remote, write_remote, go_remote
<1>3. CASE flush_output_buffer \/ KeepWaiting
  <2>1. UNCHANGED <<phase, interrupted, attention>> /\ (masked' => masked)
    BY <1>3 DEF flush_output_buffer, KeepWaiting, flags
  <2> QED
    BY <1>1, <2>1, Waits
<1>4. ASSUME rerr \/ \E r : Completed(r) PROVE Placed' /\ Stacked'
  BY <1>4, GoesToPrompt DEF rerr, Completed
<1>5. CASE QuitWait \/ ExceptionTimeout
  BY <1>4, <1>5 DEF QuitWait, ExceptionTimeout
\* The target is interrupted in place of an answer to C_SYNC.
<1>6. ASSUME phase = "sync", send_interrupt_signal, interrupted' = interrupted
      PROVE  Placed' /\ Stacked'
  <2>1. phase' = "nmi" /\ attention' = TRUE /\ interrupted # << >>
    BY <1>1, <1>6 DEF send_interrupt_signal, Placed
  <2>2. Placed'
    BY <1>1, <1>6, <2>1 DEF Placed, Phases
  <2>3. Stacked'
    BY <1>6, <2>1 DEF Stacked, Examining
  <2> QED
    BY <2>2, <2>3
<1>7. CASE SyncTimeout
  BY <1>6, <1>7 DEF SyncTimeout
<1>8. ASSUME NEW n \in Batch, Read(n) PROVE Placed' /\ Stacked'
  <2>1. CASE FindToken(n)
    <3>1. phase \in {"reply", "dataend", "ack", "goack", "sync"}
      BY <2>1 DEF FindToken, AtToken, Token
    <3>2. CASE phase \in {"reply", "dataend"}
      <4>1. /\ UNCHANGED <<interrupted, attention>>
            /\ phase \in Reading /\ phase' \in Reading
        BY <2>1, <3>2 DEF FindToken, Proceed, flags, Reading
      <4> QED
        BY <1>1, <4>1, MovesOn
    <3>3. CASE phase = "ack"
      BY <1>4, <2>1, <3>3 DEF FindToken
    <3>4. CASE phase = "goack"
      <4>1. phase' = "running" /\ UNCHANGED <<interrupted, attention>>
        BY <2>1, <3>4 DEF FindToken
      <4> QED
        BY <1>1, <3>4, <4>1, MovesOn
    <3>5. CASE phase = "sync"
      <4>1. /\ phase' = Head(interrupted).phase /\ interrupted' = Tail(interrupted)
            /\ masked' = masked
        BY <2>1, <3>5 DEF FindToken
      <4>2. ~masked /\ interrupted # << >>
        BY <3>5 DEF Stacked
      <4>3. masked \in BOOLEAN
        BY DEF TypeOK
      <4>4. masked' = FALSE
        BY <4>1, <4>2, <4>3
      <4> QED
        BY <1>1, <4>1, <4>2, <4>4, Resumes
    <3> QED
      BY <3>1, <3>2, <3>3, <3>4, <3>5
  <2>2. CASE SkipSync(n)
    <3>1. UNCHANGED <<phase, interrupted, attention, masked>>
      BY <2>2 DEF SkipSync, flags
    <3> QED
      BY <1>1, <3>1, Waits
  <2>3. CASE SkipChar(n)
    <3>1. UNCHANGED <<phase, interrupted, attention>>
          /\ phase \notin {"prompt", "sync"}
      BY <2>3 DEF SkipChar, AtException, Expected, flags
    <3> QED
      BY <1>1, <3>1, Waits
  <2>4. CASE MissToken(n)
    <3>1. Completed(0) \/ Completed(c.id) \/ rerr
      BY <2>4 DEF MissToken
    <3> QED
      BY <1>4, <3>1
  <2>5. CASE GetWord(n)
    <3>1. CASE rerr
      BY <1>4, <3>1
    <3>2. CASE phase' = "dataend" /\ UNCHANGED <<interrupted, masked>>
      <4>1. /\ phase \in Reading /\ phase' \in Reading
            /\ UNCHANGED <<interrupted, attention>>
        BY <2>5, <3>2 DEF GetWord, Reading, flags
      <4> QED
        BY <1>1, <4>1, MovesOn
    <3> QED
      BY <2>5, <3>1, <3>2 DEF GetWord
  <2>6. CASE verify_checksum(n)
    <3>1. rerr \/ Completed(answer) \/ (Examining /\ Return)
      BY <2>6 DEF verify_checksum
    <3>2. CASE Examining /\ Return
      <4>1. \/ /\ phase' = Head(interrupted).phase
               /\ interrupted' = Tail(interrupted) /\ masked' = FALSE
            \/ Completed(answer)
            \/ phase' = "astray" /\ UNCHANGED <<interrupted, masked>>
        BY <3>2 DEF Return
      <4>2. CASE /\ phase' = Head(interrupted).phase
                 /\ interrupted' = Tail(interrupted) /\ masked' = FALSE
        BY <1>1, <3>2, <4>2, Resumes DEF Examining
      <4>3. CASE phase' = "astray" /\ UNCHANGED <<interrupted, masked>>
        BY <1>1, <4>3 DEF Placed, Stacked, Phases, Examining
      <4> QED
        BY <1>4, <4>1, <4>2, <4>3
    <3> QED
      BY <1>4, <3>1, <3>2
  <2>7. CASE TakeException(n)
    <3>1. rerr \/ Completed(c.id) \/ ToPrompt
      BY <2>7 DEF TakeException
    <3> QED
      BY <1>4, <3>1, GoesToPrompt
  <2>8. CASE TakeInterrupt(n)
    <3>1. phase = "nmi" /\ phase' = "reply" /\ UNCHANGED <<interrupted, attention>>
      BY <2>8 DEF TakeInterrupt
    <3> QED
      BY <1>1, <3>1, MovesOn
  <2>9. CASE ExceptionError(n)
    <3>1. rerr \/ Completed(answer)
      BY <2>9 DEF ExceptionError
    <3> QED
      BY <1>4, <3>1
  <2> QED
    BY <1>8, <2>1, <2>2, <2>3, <2>4, <2>5, <2>6, <2>7, <2>8, <2>9 DEF Read
<1>9. ASSUME NEW n \in Batch, NEW m \in 0 .. Len(Unread(n)),
             TokenError(n, m) \/ SyncWithout(n, m)
      PROVE  Placed' /\ Stacked'
  <2>1. CASE TokenError(n, m)
    BY <1>4, <2>1 DEF TokenError
  <2>2. CASE SyncWithout(n, m)
    BY <1>6, <2>2 DEF SyncWithout
  <2> QED
    BY <1>9, <2>1, <2>2
<1>10. ASSUME NEW m, Sync(m) \/ Nmi(m) PROVE Placed' /\ Stacked'
  <2>1. /\ ~masked /\ phase # "astray" /\ ~attention
        /\ Len(interrupted) < MaxNested /\ interrupted' = Interrupted
        /\ masked' = masked /\ (phase' = "sync" \/ (phase' = "nmi" /\ attention'))
    BY <1>10 DEF Sync, Nmi, Quittable, send_interrupt_signal
  <2> QED
    BY <1>1, <2>1, IsInterrupted
<1>11. CASE Target
  <2>1. UNCHANGED <<Host, faults>>
    BY <1>11, TargetSays
  <2>2. UNCHANGED <<phase, interrupted, attention, masked>>
    BY <2>1 DEF Host, flags
  <2> QED
    BY <1>1, <2>2, Waits
<1>12. CASE Fault
  <2>1. UNCHANGED <<phase, interrupted, attention, masked>>
    BY <1>12 DEF Fault, Host, flags
  <2> QED
    BY <1>1, <2>1, Waits
<1> QED
  BY <1>2, <1>3, <1>5, <1>7, <1>8, <1>9, <1>10, <1>11, <1>12 DEF Next

LEMMA Types ==
  ASSUME TypeOK, Stacked, Next
  PROVE  TypeOK' /\ Stacked'
<1>1. Placed' /\ Stacked'
  BY Stacks
<1>2. Sequenced' /\ Counted' /\ Flagged'
  BY Sequences, Counts, Flags
<1> QED
  BY <1>1, <1>2, Typed DEF TypeOK, Placed, Sequenced, Counted, Flagged

-----------------------------------------------------------------------------
(***************************************************************************)
(* What the host's steps do to the line.                                   *)
(***************************************************************************)
LEMMA ReadsLine ==
  ASSUME TypeOK, Readable, NEW n \in Batch,
         inbuf' = Buffered(n), tx' = tx, UNCHANGED <<monitor, started>>,
         NEW m \in 0 .. Len(Unread(n)),
         rx' = Unread(n) \/ rx' = From(Unread(n), m + 1),
         out' = out \/ out' = << >>
  PROVE  Kept
<1>1. /\ Inflow \in Seq(Items) /\ Outflow \in Seq(Frames)
      /\ out \in Seq(Frames) /\ tx \in Seq(Frames)
  BY Flows
<1>2. /\ Inflow # << >> /\ Buffered(n) \in Seq(Items) /\ Unread(n) \in Seq(Items)
      /\ Buffered(n) \o Unread(n) = Tail(Inflow)
  BY Reads
<1>3. /\ Tail(Inflow) \in Seq(Items) /\ Thinned(Tail(Inflow), Inflow)
  BY <1>1, <1>2, ThinTail
<1>4. rx' \in Seq(Items) /\ Thinned(rx', Unread(n))
  <2>1. m + 1 \in 1 .. Len(Unread(n)) + 1
    BY <1>2, LenProperties
  <2>2. /\ From(Unread(n), m + 1) \in Seq(Items)
        /\ Thinned(From(Unread(n), m + 1), Unread(n))
        /\ Thinned(Unread(n), Unread(n))
    BY <1>2, <2>1, Later, ThinLater, ThinSame
  <2> QED
    BY <1>2, <2>2
<1>5. Inflow' \in Seq(Items) /\ Thinned(Inflow', Tail(Inflow))
  <2>1. Thinned(Buffered(n), Buffered(n))
    BY <1>2, ThinSame
  <2>2. Buffered(n) \o rx' \in Seq(Items)
    BY <1>2, <1>4, ConcatProperties
  <2>3. Thinned(Buffered(n) \o rx', Buffered(n) \o Unread(n))
    BY <1>2, <1>4, <2>1, ThinBoth
  <2>4. Inflow' = Buffered(n) \o rx'
    BY DEF Inflow
  <2> QED
    BY <1>2, <2>2, <2>3, <2>4
<1>6. Thinned(Inflow', Inflow)
  BY <1>1, <1>3, <1>5, ThinAgain
<1>7. Outflow' \in Seq(Frames) /\ Thinned(Outflow', Outflow)
  <2>1. out' \in Seq(Frames) /\ Thinned(out', out) /\ Thinned(tx, tx)
    BY <1>1, EmptySeq, ThinSame, ThinNothing
  <2>2. tx \o out' \in Seq(Frames) /\ Thinned(tx \o out', tx \o out)
    BY <1>1, <2>1, ThinBoth, ConcatProperties
  <2>3. Outflow' = tx \o out' /\ Outflow = tx \o out
    BY DEF Outflow
  <2> QED
    BY <2>2, <2>3
<1> QED
  BY <1>1, <1>5, <1>6, <1>7, ThinKeeps

\* One item less, and nothing else.
LEMMA ReadsOne ==
  ASSUME TypeOK, Readable, NEW n \in Batch,
         inbuf' = Buffered(n), rx' = Unread(n), UNCHANGED <<tx, target>>
  PROVE  /\ Inflow \in Seq(Items) /\ Inflow # << >> /\ c = Inflow[1] /\ c \in Items
         /\ 1 \in 1 .. Len(Inflow) /\ Len(Inflow) \in Nat
         /\ Inflow' = Tail(Inflow) /\ Tail(Inflow) \in Seq(Items)
         /\ Len(Tail(Inflow)) = Len(Inflow) - 1
         /\ \A i \in 1 .. Len(Tail(Inflow)) :
              i + 1 \in 1 .. Len(Inflow) /\ Tail(Inflow)[i] = Inflow[i + 1]
         /\ out' = out => Outflow' = Outflow /\ Kept
         /\ UNCHANGED <<monitor, started>>
<1>1. /\ Inflow # << >> /\ c = Inflow[1] /\ c \in Items
      /\ Unread(n) \in Seq(Items)
      /\ Buffered(n) \o Unread(n) = Tail(Inflow) /\ Inflow \in Seq(Items)
  BY Flows, Reads
<1>2. Len(Inflow) \in Nat \ {0}
  BY <1>1, EmptySeq
<1>3. /\ Tail(Inflow) \in Seq(Items) /\ Len(Tail(Inflow)) = Len(Inflow) - 1
      /\ \A i \in 1 .. Len(Tail(Inflow)) : Tail(Inflow)[i] = Inflow[i + 1]
  BY <1>1, HeadTailProperties
<1>4. \A i \in 1 .. Len(Tail(Inflow)) : i + 1 \in 1 .. Len(Inflow)
  BY <1>2, <1>3
<1>5. Inflow' = Tail(Inflow)
  BY <1>1 DEF Inflow
<1>6. UNCHANGED <<monitor, started>>
  BY DEF target
<1>7. out' = out => Outflow' = Outflow /\ Kept
  <2> SUFFICES ASSUME out' = out PROVE Outflow' = Outflow /\ Kept
    OBVIOUS
  <2>1. 0 \in 0 .. Len(Unread(n))
    BY <1>1, LenProperties
  <2>2. rx' = Unread(n) \/ rx' = From(Unread(n), 0 + 1)
    OBVIOUS
  <2>3. Kept
    BY <1>6, <2>1, <2>2, ReadsLine
  <2> QED
    BY <2>3 DEF Outflow
<1>8. 1 \in 1 .. Len(Inflow) /\ Len(Inflow) \in Nat
  BY <1>2
<1>9. \A i \in 1 .. Len(Tail(Inflow)) :
        i + 1 \in 1 .. Len(Inflow) /\ Tail(Inflow)[i] = Inflow[i + 1]
  BY <1>3, <1>4
<1> QED
  BY <1>1, <1>3, <1>5, <1>6, <1>7, <1>8, <1>9

\* What is the last has been read: the line is quiet.
LEMMA ReadsLast ==
  ASSUME Inflow \in Seq(Items), Inflow # << >>, NEW T,
         Lasting(Inflow, Outflow, monitor, T), Inflow[1].t \in T
  PROVE  Outflow = << >> /\ monitor = "loop" /\ Tail(Inflow) = << >>
<1>1. Len(Inflow) \in Nat /\ Len(Inflow) # 0
  BY Length
<1>2. 1 \in 1 .. Len(Inflow)
  BY <1>1
<1>3. 1 = Len(Inflow) /\ Outflow = << >> /\ monitor = "loop"
  BY <1>2 DEF Lasting
<1>4. Tail(Inflow) \in Seq(Items) /\ Len(Tail(Inflow)) = 0
  BY <1>3, HeadTailProperties
<1>5. Tail(Inflow) = << >>
  BY <1>4, Length
<1> QED
  BY <1>3, <1>5

\* flush_tty_line.
LEMMA Flushes ==
  ASSUME TypeOK, NEW m \in 0 .. Len(rx),
         inbuf' = inbuf, rx' = From(rx, m + 1), out' = << >>
  PROVE  /\ Inflow \in Seq(Items) /\ Inflow' \in Seq(Items)
         /\ Thinned(Inflow', Inflow)
         /\ Outflow \in Seq(Frames) /\ tx \in Seq(Frames) /\ Thinned(tx, Outflow)
         /\ Outflow' = tx' \o << >>
         /\ tx' = tx /\ UNCHANGED <<monitor, started>> => Kept
<1>1. /\ Inflow \in Seq(Items) /\ inbuf \in Seq(Items) /\ rx \in Seq(Items)
      /\ Outflow \in Seq(Frames) /\ tx \in Seq(Frames) /\ out \in Seq(Frames)
  BY Flows
<1>2. Inflow' \in Seq(Items) /\ Thinned(Inflow', Inflow)
  <2>1. From(rx, m + 1) \in Seq(Items) /\ Thinned(From(rx, m + 1), rx)
    BY FlushTypes
  <2>2. Thinned(inbuf, inbuf)
    BY <1>1, ThinSame
  <2>3. /\ inbuf \o From(rx, m + 1) \in Seq(Items)
        /\ Thinned(inbuf \o From(rx, m + 1), inbuf \o rx)
    BY <1>1, <2>1, <2>2, ThinBoth, ConcatProperties
  <2> QED
    BY <2>3 DEF Inflow
<1>3. Thinned(tx, Outflow) /\ tx \o << >> = tx
  <2>1. Thinned(tx, tx) /\ Thinned(<< >>, out) /\ << >> \in Seq(Frames)
    BY <1>1, EmptySeq, ThinSame, ThinNothing
  <2>2. tx \o << >> = tx
    BY <1>1, ConcatEmptySeq
  <2>3. Thinned(tx \o << >>, tx \o out)
    BY <1>1, <2>1, ThinBoth
  <2> QED
    BY <2>2, <2>3 DEF Outflow
<1>4. Outflow' = tx' \o << >>
  BY DEF Outflow
<1>5. ASSUME tx' = tx, UNCHANGED <<monitor, started>> PROVE Kept
  <2>1. Outflow' = tx
    BY <1>3, <1>4, <1>5
  <2> QED
    BY <1>1, <1>2, <1>3, <1>5, <2>1, ThinKeeps
<1> QED
  BY <1>1, <1>2, <1>3, <1>4, <1>5

\* A frame more.
LEMMA FrameAdded ==
  ASSUME NEW f \in Seq(Frames), NEW e \in Frames
  PROVE  /\ Append(f, e) \in Seq(Frames) /\ Len(f) \in Nat
         /\ Len(Append(f, e)) = Len(f) + 1
         /\ \A i \in 1 .. Len(Append(f, e)) :
              \/ i \in 1 .. Len(f) /\ i # Len(Append(f, e)) /\ Append(f, e)[i] = f[i]
              \/ i = Len(Append(f, e)) /\ Append(f, e)[i] = e
<1>1. Len(f) \in Nat
  BY LenProperties
<1>2. /\ Append(f, e) \in Seq(Frames) /\ Len(Append(f, e)) = Len(f) + 1
      /\ \A i \in 1 .. Len(f) : Append(f, e)[i] = f[i]
      /\ Append(f, e)[Len(f) + 1] = e
  BY AppendProperties
<1>3. \A i \in 1 .. Len(f) + 1 :
        (i \in 1 .. Len(f) /\ i # Len(f) + 1) \/ i = Len(f) + 1
  BY <1>1
<1> QED
  BY <1>1, <1>2, <1>3

LEMMA Requests ==
  ASSUME TypeOK, NEW e \in Frames, out' = Append(out, e), tx' = tx
  PROVE  Outflow' = Append(Outflow, e)
<1>1. out \in Seq(Frames) /\ tx \in Seq(Frames) /\ Outflow \in Seq(Frames)
      /\ <<e>> \in Seq(Frames)
  BY Flows
<1>2. Append(out, e) = out \o <<e>> /\ Append(Outflow, e) = Outflow \o <<e>>
  BY <1>1, AppendIsConcat
<1>3. (tx \o out) \o <<e>> = tx \o (out \o <<e>>)
  BY <1>1, ConcatAssociative
<1> QED
  BY <1>2, <1>3 DEF Outflow

-----------------------------------------------------------------------------
(***************************************************************************)
(* What belongs to no command.                                             *)
(***************************************************************************)
LEMMA AnonymousAdded ==
  ASSUME NEW s, NEW f \in Seq(Frames), NEW e \in Frames,
         e.t = "C_SYNC" => e.id = 0, Anonymous(s, f)
  PROVE  Anonymous(s, Append(f, e))
BY FrameAdded DEF Anonymous

LEMMA StaysAnonymous ==
  ASSUME TypeOK, Anonymous(Inflow, Outflow), Next
  PROVE  Anonymous(Inflow, Outflow)'
<1>1. Outflow \in Seq(Frames) /\ Inflow \in Seq(Items) /\ out \in Seq(Frames)
      /\ tx \in Seq(Frames)
  BY Flows
<1>2. ASSUME Kept PROVE Anonymous(Inflow, Outflow)'
  BY <1>2 DEF Kept
<1>3. ASSUME Inflow' = Inflow, Outflow' = Outflow
      PROVE  Anonymous(Inflow, Outflow)'
  BY <1>3
<1>4. CASE Command
  <2>1. ASSUME NEW t \in {"C_UPLOAD", "C_DOWNLOAD", "C_GO"}, NEW wait,
               send_request(t, wait)
        PROVE  Anonymous(Inflow, Outflow)'
    <3>1. /\ out' = Append(out, Frame(t, asked')) /\ tx' = tx
          /\ inbuf' = inbuf /\ rx' = rx /\ asked' = asked + 1
          /\ asked < MaxRequests
      BY <2>1 DEF send_request
    <3>2. Frame(t, asked') \in Frames /\ Frame(t, asked').t # "C_SYNC"
      BY <3>1, LinkAssumption DEF TypeOK, Frame, Frames
    <3>3. Outflow' = Append(Outflow, Frame(t, asked')) /\ Inflow' = Inflow
      BY <3>1, <3>2, Requests DEF Inflow
    <3> QED
      BY <1>1, <3>2, <3>3, AnonymousAdded
  <2>2. CASE interrupt_command
    BY <1>3, <2>2 DEF interrupt_command, line, Inflow, Outflow
  <2>3. CASE flush_command
    <3>1. PICK m \in 0 .. Len(rx) : rx' = From(rx, m + 1)
      BY <2>3 DEF flush_command
    <3>2. inbuf' = inbuf /\ out' = << >> /\ tx' = tx /\ UNCHANGED <<monitor, started>>
      BY <2>3 DEF flush_command, target
    <3> QED
      BY <1>2, <3>1, <3>2, Flushes
  <2>4. CASE reset_remote
    <3>1. Inflow' = << >> \o << >> /\ Outflow' = << >> \o << >>
      BY <2>4 DEF reset_remote, Inflow, Outflow
    <3>2. Inflow' = << >> /\ Outflow' = << >>
      BY <3>1
    <3> QED
      BY <3>2 DEF Anonymous
  <2> QED
    BY <1>4, <2>1, <2>2, <2>3, <2>4
       DEF Command, forced_read_remote, write_remote, go_remote
<1>5. CASE flush_output_buffer
  <2>1. tx' = tx \o out /\ out' = << >> /\ inbuf' = inbuf /\ rx' = rx
    BY <1>5 DEF flush_output_buffer
  <2>2. (tx \o out) \o << >> = tx \o out
    BY <1>1, ConcatProperties, ConcatEmptySeq
  <2> QED
    BY <1>3, <2>1, <2>2 DEF Inflow, Outflow
<1>6. CASE KeepWaiting \/ QuitWait \/ ExceptionTimeout
  BY <1>3, <1>6 DEF KeepWaiting, QuitWait, ExceptionTimeout, line, Inflow, Outflow
<1>7. CASE SyncTimeout
  BY <1>3, <1>7 DEF SyncTimeout, send_interrupt_signal, Inflow, Outflow
<1>8. ASSUME NEW n \in Batch, Read(n) PROVE Anonymous(Inflow, Outflow)'
  <2>1. Readable /\ inbuf' = Buffered(n) /\ rx' = Unread(n) /\ UNCHANGED <<tx, target>>
    BY <1>8 DEF Read, FindToken, SkipSync, MissToken, GetWord, verify_checksum,
         TakeException, TakeInterrupt, ExceptionError, SkipChar, AtToken,
         AtException, read_char
  <2>2. out' = out \/ out' = Append(out, Frame("C_UPLOAD", 0))
    BY <1>8 DEF Read, FindToken, SkipSync, MissToken, GetWord, verify_checksum,
         TakeException, TakeInterrupt, ExceptionError, SkipChar, read_char
  <2>3. CASE out' = out
    BY <1>2, <2>1, <2>3, ReadsOne
  <2>4. CASE out' = Append(out, Frame("C_UPLOAD", 0))
    <3>1. Frame("C_UPLOAD", 0) \in Frames /\ Frame("C_UPLOAD", 0).t # "C_SYNC"
      BY LinkAssumption DEF Frame, Frames
    <3>2. Outflow' = Append(Outflow, Frame("C_UPLOAD", 0))
      BY <2>1, <2>4, <3>1, Requests
    <3>3. Inflow' = Tail(Inflow) /\ Tail(Inflow) \in Seq(Items)
          /\ Thinned(Tail(Inflow), Inflow)
      BY <1>1, <2>1, ReadsOne, ThinTail
    <3>4. Anonymous(Tail(Inflow), Outflow)
      <4>1. Thinned(Outflow, Outflow)
        BY <1>1, ThinSame
      <4> QED
        BY <1>1, <3>3, <4>1, ThinNested
    <3> QED
      BY <1>1, <3>1, <3>2, <3>3, <3>4, AnonymousAdded
  <2> QED
    BY <2>2, <2>3, <2>4
<1>9. ASSUME NEW n \in Batch, NEW m \in 0 .. Len(Unread(n)),
             TokenError(n, m) \/ SyncWithout(n, m)
      PROVE  Anonymous(Inflow, Outflow)'
  <2>1. /\ Readable /\ inbuf' = Buffered(n) /\ tx' = tx
        /\ rx' = Unread(n) \/ rx' = From(Unread(n), m + 1)
        /\ out' = out \/ out' = << >>
        /\ UNCHANGED <<monitor, started>>
    BY <1>9 DEF TokenError, SyncWithout, AtToken, read_and_flush, read_char,
         send_interrupt_signal, target
  <2> QED
    BY <1>2, <2>1, ReadsLine
<1>10. ASSUME NEW m \in 0 .. Len(rx), Sync(m) PROVE Anonymous(Inflow, Outflow)'
  <2> DEFINE e == Frame("C_SYNC", 0)
  <2>1. /\ inbuf' = inbuf /\ rx' = From(rx, m + 1) /\ out' = << >>
        /\ tx' = Append(tx, e)
    BY <1>10 DEF Sync
  <2>2. e \in Frames /\ e.id = 0
    BY LinkAssumption DEF Frame, Frames
  <2> HIDE DEF e
  <2>3. /\ Inflow' \in Seq(Items) /\ Thinned(Inflow', Inflow) /\ Thinned(tx, Outflow)
        /\ Outflow' = tx' \o << >>
    BY <2>1, Flushes
  <2>4. Anonymous(Inflow', tx)
    BY <1>1, <2>3, ThinNested
  <2>5. Append(tx, e) \o << >> = Append(tx, e)
    BY <1>1, <2>2, AppendProperties, ConcatEmptySeq
  <2> QED
    BY <1>1, <2>1, <2>2, <2>3, <2>4, <2>5, AnonymousAdded
<1>11. ASSUME NEW m \in 0 .. Len(rx), Nmi(m) PROVE Anonymous(Inflow, Outflow)'
  <2>1. /\ inbuf' = inbuf /\ rx' = From(rx, m + 1) /\ out' = << >> /\ tx' = tx
        /\ UNCHANGED <<monitor, started>>
    BY <1>11 DEF Nmi, send_interrupt_signal
  <2> QED
    BY <1>2, <2>1, Flushes
<1>12. CASE Target
  BY <1>2, <1>12, TargetKeeps
<1>13. CASE Fault
  BY <1>2, <1>13, FaultKeeps
<1> QED
  BY <1>4, <1>5, <1>6, <1>7, <1>8, <1>9, <1>10, <1>11, <1>12, <1>13 DEF Next

-----------------------------------------------------------------------------
(***************************************************************************)
(* The situation: control-C.                                               *)
(***************************************************************************)
\* No C_SYNC is on its way.
Unsynced(s, f) ==
  None(s, {"C_SYNC"}) /\ \A i \in 1 .. Len(f) : f[i].t # "C_SYNC"

LEMMA WiresNested ==
  ASSUME NEW s \in Seq(Items), NEW f \in Seq(Frames), NEW m, NEW st, NEW r
  PROVE  /\ ReadWire(s, f, m, r) \/ WriteWire(s, f, m, r) \/ QuietWire(s, f, m) =>
              NoGo(s, f, m) /\ Unsynced(s, f)
         /\ GoWire(s, f, m, st, r) => MayGo(s, f, m) /\ Unsynced(s, f)
         /\ QuietWire(s, f, m) => MayGo(s, f, m)
<1>1. ReadWire(s, f, m, r) => NoGo(s, f, m) /\ Unsynced(s, f)
  BY DEF ReadWire, Answering, Only, None, Asking, NoGo, Unsynced, Replied,
         Debris, Exceptions
<1>2. WriteWire(s, f, m, r) => NoGo(s, f, m) /\ Unsynced(s, f)
  BY DEF WriteWire, Answering, Only, None, Asking, NoGo, Unsynced,
         Debris, Exceptions
<1>3. QuietWire(s, f, m) => NoGo(s, f, m) /\ Unsynced(s, f) /\ MayGo(s, f, m)
  <2> SUFFICES ASSUME s = << >>, f = << >>, m = "loop"
               PROVE  NoGo(s, f, m) /\ Unsynced(s, f) /\ MayGo(s, f, m)
    BY DEF QuietWire
  <2>1. Len(s) = 0 /\ Len(f) = 0
    BY Length
  <2> QED
    BY <2>1 DEF NoGo, Unsynced, MayGo, None, Halted
<1>4. GoWire(s, f, m, st, r) => MayGo(s, f, m) /\ Unsynced(s, f)
  <2> SUFFICES ASSUME GoWire(s, f, m, st, r) PROVE MayGo(s, f, m) /\ Unsynced(s, f)
    OBVIOUS
  <2>1. /\ Only(s, Stops \cup {"C_ACK"} \cup Debris) /\ Lasting(s, f, m, Stops)
        /\ m # "booting" /\ Asking(f, "C_GO", r) /\ Started(s, f, m, st, r)
        /\ f # << >> => s = << >> /\ m = "loop"
    BY DEF GoWire
  <2>2. Unsynced(s, f)
    BY <2>1 DEF Only, Asking, Unsynced, None, Stops, Debris
  <2>3. \A i \in 1 .. Len(f) : f # << >>
    BY Length
  <2>4. s = << >> => None(s, Exceptions)
    BY Length DEF None
  <2>5. \A i \in 1 .. Len(f) :
          /\ f[i].t \in {"C_GO", "C_SYNC"}
          /\ f[i].t = "C_GO" => i = 1 /\ m # "running" /\ None(s, Exceptions)
    BY <2>1, <2>3, <2>4 DEF Asking
  <2>6. \A i \in 1 .. Len(s) : s[i].t \in Exceptions => i = Len(s)
    BY <2>1 DEF Only, Lasting, Stops, Debris, Exceptions
  <2>7. \A i, j \in 1 .. Len(s) : i < j => i # Len(s)
    BY Length
  <2> QED
    BY <2>1, <2>2, <2>5, <2>6, <2>7 DEF MayGo, Started
<1> QED
  BY <1>1, <1>2, <1>3, <1>4

\* What is interrupted, before anything is flushed or sent.
MayFollow(goack) ==
  IF goack THEN MayGo(Inflow, Outflow, monitor) ELSE NoGo(Inflow, Outflow, monitor)

LEMMA Interrupts ==
  ASSUME TypeOK, Stacked, Situation, Quittable, ~attention,
         Len(interrupted) < MaxNested, interrupted' = Interrupted,
         masked' = masked, phase' = "sync" \/ (phase' = "nmi" /\ attention')
  PROVE  /\ Linked' /\ ~ignore_errors
         /\ ~target_running => /\ Base' # "running" /\ MayFollow(Base' = "goack")
                               /\ Base' = "prompt" => answer = asked
                               /\ phase = "sync" \/ Unsynced(Inflow, Outflow)
                               /\ phase = "sync" /\ ~trying_to_sync => Quiet
         /\ target_running => /\ Base' = "running" /\ Len(interrupted') = 1
                              /\ RunWire(Inflow, Outflow, monitor, started, asked)
<1>1. /\ Inflow \in Seq(Items) /\ Outflow \in Seq(Frames)
      /\ interrupted \in Seq([phase : Phases, running : BOOLEAN])
      /\ Len(interrupted) \in Nat
  BY Flows, LenProperties
<1>2. Placed /\ target_running \in BOOLEAN
  BY DEF TypeOK, Placed
<1>3. /\ Len(interrupted') = Len(interrupted) + 1
      /\ interrupted'[1].phase = phase /\ interrupted'[1].running = target_running
      /\ \A i \in 1 .. Len(interrupted) : interrupted'[i + 1] = interrupted[i]
  BY <1>2, IsInterrupted DEF Quittable
\* The first control-C.
<1>4. ASSUME interrupted = << >>, phase = "running" <=> target_running
      PROVE  Base' = phase /\ Len(interrupted') = 1 /\ Linked'
  <2>1. Len(interrupted) = 0
    BY <1>4
  <2>2. Len(interrupted') = 1
    BY <1>3, <2>1
  <2>3. Base' = phase
    BY <1>3, <2>2 DEF Base
  <2>4. \A i \in 1 .. Len(interrupted') : i = 1
    BY <2>2
  <2> QED
    BY <1>3, <1>4, <2>2, <2>3, <2>4 DEF Linked
<1>5. phase \in Phases /\ phase # "astray"
  BY DEF TypeOK, Quittable
<1>6. phase \notin {"reset", "nmi"} /\ ~Examining
  BY DEF Stacked
<1>7. CASE phase = "prompt"
  <2>1. Quiet /\ Calm /\ answer = asked /\ interrupted = << >>
    BY <1>2, <1>7 DEF Situation, AtPrompt, Placed
  <2>2. NoGo(Inflow, Outflow, monitor) /\ Unsynced(Inflow, Outflow)
    BY <1>1, <2>1, WiresNested DEF Quiet
  <2> QED
    BY <1>4, <1>7, <2>1, <2>2 DEF Calm, MayFollow
<1>8. CASE phase \in Reading \cup {"ack"}
  <2>1. interrupted = << >>
    BY <1>6, <1>8 DEF Stacked, Examining, Reading
  <2>2. Calm /\ (ReadWire(Inflow, Outflow, monitor, asked)
                   \/ WriteWire(Inflow, Outflow, monitor, asked))
    BY <1>8, <2>1 DEF Situation, AtRead, AtWrite
  <2>3. NoGo(Inflow, Outflow, monitor) /\ Unsynced(Inflow, Outflow)
    BY <1>1, <2>2, WiresNested
  <2> QED
    BY <1>4, <1>8, <2>1, <2>2, <2>3 DEF Calm, MayFollow, Reading
<1>9. CASE phase = "goack"
  <2>1. interrupted = << >> /\ Calm /\ GoWire(Inflow, Outflow, monitor, started, asked)
    BY <1>9 DEF Stacked, Situation, AtGo
  <2>2. MayGo(Inflow, Outflow, monitor) /\ Unsynced(Inflow, Outflow)
    BY <1>1, <2>1, WiresNested
  <2> QED
    BY <1>4, <1>9, <2>1, <2>2 DEF Calm, MayFollow
<1>10. CASE phase = "running"
  BY <1>4, <1>10 DEF Stacked, Situation, AtRunning
<1>11. CASE phase = "sync"
  <2>1. /\ Calm /\ Linked /\ Base # "running" /\ Nested
        /\ Base = "prompt" => answer = asked
        /\ ~trying_to_sync => Quiet
    BY <1>11 DEF Situation, AtSync
  <2>2. interrupted # << >>
    BY <1>11 DEF Stacked
  <2>3. Len(interrupted) \in 1 .. Len(interrupted)
    BY <1>1, <2>2, Length
  <2>4. Base' = Base
    BY <1>3, <2>3 DEF Base
  <2>5. ASSUME NEW i \in 1 .. Len(interrupted')
        PROVE  interrupted'[i].running <=> interrupted'[i].phase = "running"
    <3>1. CASE i = 1
      BY <1>3, <1>11, <2>1, <3>1 DEF Calm
    <3>2. CASE i # 1
      <4>1. i - 1 \in 1 .. Len(interrupted) /\ (i - 1) + 1 = i
        BY <1>1, <1>3, <3>2
      <4>2. interrupted'[i] = interrupted[i - 1]
        BY <1>3, <4>1
      <4> QED
        BY <2>1, <4>1, <4>2 DEF Linked
    <3> QED
      BY <3>1, <3>2
  <2>6. Linked'
    BY <2>5 DEF Linked
  <2> QED
    BY <1>11, <2>1, <2>4, <2>6 DEF Calm, Nested, MayFollow
<1> QED
  BY <1>5, <1>6, <1>7, <1>8, <1>9, <1>10, <1>11 DEF Phases, Reading

\* C_SYNC follows whatever is on its way.
LEMMA SyncAdded ==
  ASSUME NEW s \in Seq(Items), NEW f \in Seq(Frames), NEW m, NEW e \in Frames,
         e.t = "C_SYNC"
  PROVE  /\ NoGo(s, f, m) => NoGo(s, Append(f, e), m)
         /\ MayGo(s, f, m) => MayGo(s, Append(f, e), m)
         /\ Unsynced(s, f) => SyncWire(s, Append(f, e), m)
<1>1. NoGo(s, f, m) => NoGo(s, Append(f, e), m)
  BY FrameAdded DEF NoGo
<1>2. MayGo(s, f, m) => MayGo(s, Append(f, e), m)
  BY FrameAdded DEF MayGo
<1>3. Unsynced(s, f) => SyncWire(s, Append(f, e), m)
  <2> SUFFICES ASSUME Unsynced(s, f) PROVE SyncWire(s, Append(f, e), m)
    OBVIOUS
  <2>1. Lasting(s, Append(f, e), m, {"C_SYNC"})
    BY DEF Unsynced, None, Lasting
  <2>2. \A i \in 1 .. Len(Append(f, e)) :
          Append(f, e)[i].t = "C_SYNC" => i = Len(Append(f, e))
    BY FrameAdded DEF Unsynced
  <2> QED
    BY <2>1, <2>2 DEF SyncWire
<1> QED
  BY <1>1, <1>2, <1>3

LEMMA ThinUnsynced ==
  ASSUME NEW s \in Seq(Items), NEW s2 \in Seq(Items), Thinned(s2, s),
         NEW f \in Seq(Frames), NEW f2 \in Seq(Frames), Thinned(f2, f),
         Unsynced(s, f)
  PROVE  Unsynced(s2, f2)
<1>1. PICK g \in [1 .. Len(f2) -> 1 .. Len(f)] :
           \A i \in 1 .. Len(f2) : Same(f2[i], f[g[i]])
  BY ThinFrames
<1>2. "noise" \notin {"C_SYNC"} /\ None(s, {"C_SYNC"})
  BY DEF Unsynced
<1>3. None(s2, {"C_SYNC"})
  BY <1>2, ThinParts
<1> QED
  BY <1>1, <1>3 DEF Unsynced, Same

LEMMA Syncs ==
  ASSUME TypeOK, Stacked, Situation, NEW m \in 0 .. Len(rx), Sync(m)
  PROVE  Situation'
<1> DEFINE e == Frame("C_SYNC", 0)
           s2 == Inflow'
<1>1. /\ Quittable /\ ~attention /\ ~trying_to_sync /\ ~target_running
      /\ Len(interrupted) < MaxNested /\ interrupted' = Interrupted
      /\ phase' = "sync" /\ trying_to_sync' = TRUE /\ masked' = masked
      /\ UNCHANGED <<ignore_errors, target_running, attention, answer, asked>>
      /\ inbuf' = inbuf /\ rx' = From(rx, m + 1) /\ out' = << >>
      /\ tx' = Append(tx, e) /\ UNCHANGED <<monitor, started>>
  BY DEF Sync, history, target
<1>2. /\ Linked' /\ ~ignore_errors
      /\ Base' # "running" /\ MayFollow(Base' = "goack")
      /\ Base' = "prompt" => answer = asked
      /\ phase = "sync" \/ Unsynced(Inflow, Outflow)
      /\ phase = "sync" => Quiet
  BY <1>1, Interrupts
<1>3. e \in Frames /\ e.t = "C_SYNC"
  BY LinkAssumption DEF Frame, Frames
<1> HIDE DEF e
<1>4. /\ Inflow \in Seq(Items) /\ s2 \in Seq(Items) /\ Thinned(s2, Inflow)
      /\ Outflow \in Seq(Frames) /\ tx \in Seq(Frames) /\ Thinned(tx, Outflow)
      /\ Outflow' = tx' \o << >>
  BY <1>1, Flushes
<1>5. Outflow' = Append(tx, e)
  BY <1>1, <1>3, <1>4, AppendProperties, ConcatEmptySeq
<1>6. Unsynced(Inflow, Outflow)
  BY <1>2, <1>4, WiresNested DEF Quiet
<1>7. Unsynced(s2, tx)
  BY <1>4, <1>6, ThinUnsynced
<1> HIDE DEF s2
<1>8. SyncWire(s2, Append(tx, e), monitor)
  BY <1>3, <1>4, <1>7, SyncAdded
<1>9. CASE Base' = "goack"
  <2>1. MayGo(s2, tx, monitor)
    BY <1>2, <1>4, <1>9, ThinNested DEF MayFollow
  <2>2. MayGo(s2, Append(tx, e), monitor)
    BY <1>3, <1>4, <2>1, SyncAdded
  <2>3. Nested' /\ SyncWire(Inflow, Outflow, monitor)'
    BY <1>1, <1>5, <1>8, <1>9, <2>2 DEF Nested, s2
  <2> QED
    BY <1>1, <1>2, <2>3 DEF Situation, AtSync, Calm, Reading
<1>10. CASE Base' # "goack"
  <2>1. NoGo(s2, tx, monitor)
    BY <1>2, <1>4, <1>10, ThinNested DEF MayFollow
  <2>2. NoGo(s2, Append(tx, e), monitor)
    BY <1>3, <1>4, <2>1, SyncAdded
  <2>3. Nested' /\ SyncWire(Inflow, Outflow, monitor)'
    BY <1>1, <1>5, <1>8, <1>10, <2>2 DEF Nested, s2
  <2> QED
    BY <1>1, <1>2, <2>3 DEF Situation, AtSync, Calm, Reading
<1> QED
  BY <1>9, <1>10

LEMMA Nmis ==
  ASSUME TypeOK, Stacked, Situation, NEW m \in 0 .. Len(rx), Nmi(m)
  PROVE  Situation'
<1>1. /\ Quittable /\ ~attention
      /\ Len(interrupted) < MaxNested /\ interrupted' = Interrupted
      /\ phase' = "nmi" /\ attention' = TRUE /\ ignore_errors' = TRUE
      /\ masked' = masked
      /\ UNCHANGED <<target_running, answer, asked>>
      /\ inbuf' = inbuf /\ rx' = From(rx, m + 1) /\ out' = << >>
      /\ tx' = tx /\ UNCHANGED <<monitor, started>>
  BY DEF Nmi, send_interrupt_signal, history
<1>2. Kept
  BY <1>1, Flushes
<1>3. Linked'
  BY <1>1, Interrupts
<1>4. CASE target_running
  <2>1. /\ Base' = "running" /\ Len(interrupted') = 1
        /\ RunWire(Inflow, Outflow, monitor, started, asked)
    BY <1>1, <1>4, Interrupts
  <2>2. RunWire(Inflow, Outflow, monitor, started, asked)'
    BY <1>1, <1>2, <2>1 DEF Kept
  <2> QED
    BY <1>1, <1>3, <1>4, <2>1, <2>2 DEF Situation, AtInterrupt, Reading
<1>5. CASE ~target_running
  <2>1. Base' # "running" /\ MayFollow(Base' = "goack")
    BY <1>1, <1>5, Interrupts
  <2>2. Nested'
    BY <1>2, <2>1 DEF Kept, MayFollow, Nested
  <2> QED
    BY <1>1, <1>3, <1>5, <2>1, <2>2 DEF Situation, AtInterrupt, Reading
<1> QED
  BY <1>4, <1>5

-----------------------------------------------------------------------------
(***************************************************************************)
(* The situation: what the host reads.                                     *)
(***************************************************************************)
\* Wherever the host waits, it may find that all is quiet.
LEMMA QuietWires ==
  ASSUME NEW s \in Seq(Items), NEW f \in Seq(Frames), NEW m, NEW st, NEW r,
         QuietWire(s, f, m)
  PROVE  /\ ReadWire(s, f, m, r) /\ WriteWire(s, f, m, r) /\ GoWire(s, f, m, st, r)
         /\ SyncWire(s, f, m) /\ NoGo(s, f, m) /\ MayGo(s, f, m)
<1>1. s = << >> /\ f = << >> /\ m = "loop" /\ Len(s) = 0 /\ Len(f) = 0
  BY Length DEF QuietWire
<1>2. \A T : Only(s, T) /\ None(s, T) /\ Own(s, T, r) /\ Lasting(s, f, m, T)
  BY <1>1 DEF Only, None, Own, Lasting
<1>3. \A t : Asking(f, t, r)
  BY <1>1 DEF Asking
<1>4. ReadWire(s, f, m, r) /\ WriteWire(s, f, m, r)
  BY <1>1, <1>2, <1>3 DEF ReadWire, WriteWire, Answering, Halted
<1>5. GoWire(s, f, m, st, r)
  BY <1>1, <1>2, <1>3 DEF GoWire, Started
<1>6. SyncWire(s, f, m)
  BY <1>1, <1>2 DEF SyncWire
<1>7. NoGo(s, f, m) /\ MayGo(s, f, m)
  BY WiresNested
<1> QED
  BY <1>4, <1>5, <1>6, <1>7

\* The host goes back to what a control-C has interrupted.
LEMMA Returns ==
  ASSUME TypeOK, Stacked, interrupted # << >>, masked' = FALSE,
         phase' = Head(interrupted).phase, interrupted' = Tail(interrupted),
         Linked, Base # "running", Base = "prompt" => answer = asked,
         Calm', Quiet', UNCHANGED <<asked, answer>>,
         Inflow' \in Seq(Items), Outflow' \in Seq(Frames)
  PROVE  Situation'
<1>1. Placed
  BY DEF TypeOK, Placed
<1>2. /\ Len(interrupted) \in Nat \ {0}
      /\ Head(interrupted) = interrupted[1]
      /\ Len(interrupted') = Len(interrupted) - 1
      /\ \A i \in 1 .. Len(interrupted') : interrupted'[i] = interrupted[i + 1]
      /\ Len(interrupted) = 1 => phase' \in Bases /\ interrupted' = << >>
      /\ Len(interrupted) > 1 => phase' = "sync" /\ interrupted' # << >>
  BY <1>1, Resumes
<1>3. /\ ReadWire(Inflow', Outflow', monitor', asked')
      /\ WriteWire(Inflow', Outflow', monitor', asked')
      /\ GoWire(Inflow', Outflow', monitor', started', asked')
      /\ SyncWire(Inflow', Outflow', monitor')
      /\ NoGo(Inflow', Outflow', monitor') /\ MayGo(Inflow', Outflow', monitor')
      /\ Inflow' = << >> /\ Outflow' = << >>
  <2>1. QuietWire(Inflow', Outflow', monitor')
    BY DEF Quiet
  <2> QED
    BY <2>1, QuietWires DEF QuietWire
<1>4. CASE Len(interrupted) = 1
  <2>1. phase' = Base /\ phase' \in Bases /\ interrupted' = << >>
    BY <1>2, <1>4 DEF Base
  <2>2. phase' \in Reading \cup {"prompt", "ack", "goack"}
    BY <2>1 DEF Bases
  <2>3. phase' = "prompt" => AtPrompt'
    BY <2>1 DEF AtPrompt
  <2>4. AtRead' /\ AtWrite' /\ AtGo'
    BY <1>3 DEF AtRead, AtWrite, AtGo
  <2> QED
    BY <2>1, <2>2, <2>3, <2>4 DEF Situation, Reading
<1>5. CASE Len(interrupted) > 1
  <2>1. phase' = "sync" /\ interrupted' # << >>
    BY <1>2, <1>5
  <2>2. Len(interrupted') \in 1 .. Len(interrupted')
        /\ Len(interrupted') + 1 = Len(interrupted)
    BY <1>2, <1>5
  <2>3. Base' = Base
    BY <1>2, <2>2 DEF Base
  <2>4. ASSUME NEW i \in 1 .. Len(interrupted')
        PROVE  interrupted'[i].running <=> interrupted'[i].phase = "running"
    <3>1. i + 1 \in 1 .. Len(interrupted) /\ interrupted'[i] = interrupted[i + 1]
      BY <1>2, <2>2
    <3> QED
      BY <3>1 DEF Linked
  <2>5. Linked'
    BY <2>4 DEF Linked
  <2>6. AtSync'
    BY <1>3, <2>3, <2>5 DEF AtSync, Nested
  <2> QED
    BY <2>1, <2>6 DEF Situation, Reading
<1>6. Len(interrupted) = 1 \/ Len(interrupted) > 1
  <2>1. \A n \in Nat \ {0} : n = 1 \/ n > 1
    OBVIOUS
  <2> QED
    BY <1>2, <2>1
<1> QED
  BY <1>4, <1>5, <1>6

\* What has spoilt the checksum stays in it.
LEMMA SpoiltStays ==
  ASSUME TypeOK, Readable, NEW n \in Batch, NEW p, seen' = Summed(p)
  PROVE  Spoilt => Spoilt'
<1>1. seen \in Seq(Items) /\ c \in Items /\ Len(seen) \in Nat
  BY Flows, Reads, LenProperties
<1>2. CASE seen' = seen
  BY <1>2 DEF Spoilt
<1>3. CASE seen' = Append(seen, c) /\ ~(Len(seen) > 3)
  <2>1. /\ Len(seen') = Len(seen) + 1
        /\ \A i \in 1 .. Len(seen) : seen'[i] = seen[i]
    BY <1>1, <1>3, AppendProperties
  <2> SUFFICES ASSUME Spoilt PROVE Spoilt'
    OBVIOUS
  <2>2. PICK i \in 1 .. Len(seen) :
          seen[i].t \notin {"C_DATASTART", "word", "C_DATAEND"}
    BY <1>3 DEF Spoilt
  <2>3. i \in 1 .. Len(seen')
    BY <1>1, <2>1
  <2> QED
    BY <2>1, <2>2, <2>3 DEF Spoilt
<1> QED
  BY <1>2, <1>3 DEF Summed

LEMMA Finds ==
  ASSUME TypeOK, Stacked, Situation, NEW n \in Batch, FindToken(n), ~broken'
  PROVE  Situation'
<1>1. Readable /\ read_char(n) /\ c.t = Token[phase]
      /\ phase \in {"reply", "dataend", "ack", "goack", "sync"}
  BY DEF FindToken, AtToken, Token
<1>2. /\ Inflow \in Seq(Items) /\ Inflow # << >> /\ c = Inflow[1]
      /\ 1 \in 1 .. Len(Inflow) /\ Inflow' = Tail(Inflow) /\ Tail(Inflow) \in Seq(Items)
      /\ Outflow' = Outflow /\ Outflow \in Seq(Frames) /\ Kept
      /\ UNCHANGED <<monitor, started>>
      /\ \A i \in 1 .. Len(Tail(Inflow)) :
           i + 1 \in 1 .. Len(Inflow) /\ Tail(Inflow)[i] = Inflow[i + 1]
  BY <1>1, ReadsOne, Flows DEF read_char
<1>3. CASE phase \in {"reply", "dataend"}
  <2>1. /\ phase' = IF phase = "reply" THEN "data" ELSE "sum"
        /\ UNCHANGED <<interrupted, flags, asked, answer>>
        /\ seen' = Summed(phase)
    BY <1>3 DEF FindToken, Proceed, history
  <2>2. phase \in Reading /\ phase' \in Reading
    BY <1>3, <2>1 DEF Reading
  <2>3. Calm => Calm'
    BY <2>1 DEF Calm, flags
  <2>4. CASE interrupted = << >>
    <3>1. AtRead
      BY <2>2, <2>4 DEF Situation
    <3>2. ReadWire(Inflow, Outflow, monitor, asked)'
      BY <1>2, <2>1, <3>1 DEF AtRead, Kept
    <3>3. Spoilt => Spoilt'
      BY <1>1, <2>1, SpoiltStays
    <3>4. phase' = "sum" => answer' = asked' \/ Spoilt'
      <4>1. Inflow # << >>
        BY <1>2
      <4> QED
        BY <1>3, <2>1, <3>1, <3>3, <4>1 DEF AtRead
    <3>5. AtRead'
      BY <2>1, <2>3, <3>1, <3>2, <3>4 DEF AtRead
    <3> QED
      BY <2>1, <2>2, <2>4, <3>5 DEF Situation, Reading
  <2>5. CASE interrupted # << >>
    <3>1. AtExamine
      BY <2>2, <2>5 DEF Situation
    <3>2. AtExamine'
      BY <1>2, <2>1, <3>1 DEF AtExamine, Kept, Linked, Base, flags
    <3> QED
      BY <2>1, <2>2, <2>5, <3>2 DEF Situation, Reading
  <2> QED
    BY <2>4, <2>5
<1>4. CASE phase = "ack"
  <2>1. /\ phase' = "prompt" /\ answer' = c.id /\ UNCHANGED <<asked, flags>>
    BY <1>4 DEF FindToken, Completed, ToPrompt
  <2>2. Calm /\ WriteWire(Inflow, Outflow, monitor, asked) /\ c.t = "C_ACK"
    BY <1>1, <1>4 DEF Situation, AtWrite, Token
  <2>3. c.id = asked
    BY <1>2, <2>2 DEF WriteWire, Answering, Own
  <2>4. Outflow = << >> /\ monitor = "loop" /\ Tail(Inflow) = << >>
    BY <1>2, <2>2, ReadsLast DEF WriteWire, Answering
  <2>5. AtPrompt'
    BY <1>2, <2>1, <2>2, <2>3, <2>4 DEF AtPrompt, Quiet, QuietWire, Calm, flags
  <2> QED
    BY <2>1, <2>5 DEF Situation, Reading
<1>5. CASE phase = "goack"
  <2>1. /\ target_running' = TRUE /\ phase' = "running"
        /\ UNCHANGED <<ignore_errors, attention, asked>>
    BY <1>5 DEF FindToken
  <2>2. Calm /\ GoWire(Inflow, Outflow, monitor, started, asked) /\ c.t = "C_ACK"
    BY <1>1, <1>5 DEF Situation, AtGo, Token
  <2>3. ~None(Inflow, {"C_ACK"})
    BY <1>2, <2>2 DEF None
  <2>4. /\ Outflow = << >> /\ monitor \in {"running", "loop"}
        /\ None(Inflow, {"error"})
        /\ Only(Inflow, Stops \cup {"C_ACK"} \cup Debris)
    BY <2>2, <2>3 DEF GoWire
  <2>5. GoWire(Tail(Inflow), Outflow, monitor, started, asked)
    BY <1>2, <2>1, <2>2 DEF Kept
  <2>6. Only(Tail(Inflow), Stops \cup {"C_ACK", "noise"})
    BY <1>2, <2>4 DEF Only, None, Debris
  <2>7. Own(Tail(Inflow), Stops, asked)
    BY <2>5 DEF GoWire, Own
  <2>8. RunWire(Tail(Inflow), Outflow, monitor, started, asked)
    BY <2>4, <2>5, <2>6, <2>7 DEF GoWire, RunWire
  <2>9. AtRunning'
    BY <1>2, <2>1, <2>2, <2>8 DEF AtRunning, Calm
  <2> QED
    BY <2>1, <2>9 DEF Situation, Reading
<1>6. CASE phase = "sync"
  <2>1. /\ phase' = Head(interrupted).phase /\ interrupted' = Tail(interrupted)
        /\ UNCHANGED <<masked, ignore_errors, target_running, attention,
                       asked, answer>>
    BY <1>6 DEF FindToken, history
  <2>2. ~masked /\ interrupted # << >> /\ masked \in BOOLEAN
    BY <1>6 DEF Stacked, TypeOK
  <2>3. masked' = FALSE
    BY <2>1, <2>2
  <2>4. /\ Calm /\ Linked /\ Base # "running"
        /\ Base = "prompt" => answer = asked
        /\ SyncWire(Inflow, Outflow, monitor) /\ c.t = "C_SYNC"
    BY <1>1, <1>6 DEF Situation, AtSync, Token
  <2>5. Outflow = << >> /\ monitor = "loop" /\ Tail(Inflow) = << >>
    BY <1>2, <2>4, ReadsLast DEF SyncWire
  <2>6. Quiet' /\ Calm'
    BY <1>2, <2>1, <2>4, <2>5 DEF Quiet, QuietWire, Calm
  <2> QED
    BY <1>2, <2>1, <2>2, <2>3, <2>4, <2>6, Returns
<1> QED
  BY <1>1, <1>3, <1>4, <1>5, <1>6

\* A command that gives up without a message: only go_remote.
LEMMA Misses ==
  ASSUME TypeOK, Stacked, Situation, NEW n \in Batch, MissToken(n), ~broken'
  PROVE  Situation'
<1>1. /\ Readable /\ read_char(n) /\ Without /\ UNCHANGED flags
      /\ phase \in {"reply", "dataend", "ack", "goack"}
      /\ CASE phase = "reply" /\ ~Examining -> Completed(0)
           [] phase = "goack" -> Completed(c.id)
           [] OTHER -> rerr
  BY DEF MissToken, AtToken, Token
<1>2. /\ Inflow \in Seq(Items) /\ Inflow # << >> /\ c = Inflow[1]
      /\ 1 \in 1 .. Len(Inflow) /\ Inflow' = Tail(Inflow)
      /\ Outflow' = Outflow /\ UNCHANGED <<monitor, started>>
  BY <1>1, ReadsOne DEF read_char
<1>3. ~rerr
  BY DEF rerr
<1>4. CASE phase = "reply" /\ ~Examining
  <2>1. interrupted = << >>
    BY <1>4 DEF Examining
  <2>2. Calm /\ ReadWire(Inflow, Outflow, monitor, asked)
    BY <1>4, <2>1 DEF Situation, AtRead, Reading
  <2>3. c.t \in Replied \cup Debris
    BY <1>2, <2>2 DEF ReadWire, Answering, Only
  <2> QED
    BY <1>1, <2>2, <2>3
       DEF Without, Calm, Stray, Words, Errors, Exceptions, Replied, Debris
<1>5. CASE phase = "goack"
  <2>1. /\ phase' = "prompt" /\ answer' = c.id /\ UNCHANGED <<asked, flags>>
    BY <1>1, <1>5 DEF Completed, ToPrompt
  <2>2. Calm /\ GoWire(Inflow, Outflow, monitor, started, asked)
    BY <1>5 DEF Situation, AtGo
  <2>3. c.t \in Stops \cup {"C_ACK"} \cup Debris
    BY <1>2, <2>2 DEF GoWire, Only
  <2>4. c.t \in Stops
    BY <1>1, <2>2, <2>3
       DEF Without, Calm, Stray, Words, Errors, Exceptions, Stops, Debris
  <2>5. c.id = asked
    BY <1>2, <2>2, <2>4 DEF GoWire, Own
  <2>6. Outflow = << >> /\ monitor = "loop" /\ Tail(Inflow) = << >>
    BY <1>2, <2>2, <2>4, ReadsLast DEF GoWire
  <2>7. AtPrompt'
    BY <1>2, <2>1, <2>2, <2>5, <2>6 DEF AtPrompt, Quiet, QuietWire, Calm, flags
  <2> QED
    BY <2>1, <2>7 DEF Situation, Reading
<1>6. CASE ~(phase = "reply" /\ ~Examining) /\ phase # "goack"
  BY <1>1, <1>3, <1>6
<1> QED
  BY <1>4, <1>5, <1>6

LEMMA GetsWord ==
  ASSUME TypeOK, Stacked, Situation, NEW n \in Batch, GetWord(n), ~broken'
  PROVE  Situation'
<1>1. /\ phase = "data" /\ Readable /\ read_char(n) /\ UNCHANGED flags
      /\ c.t \in Words \/ (c.t \in Errors /\ target_running)
      /\ phase' = "dataend" /\ seen' = Summed(phase)
      /\ answer' = CASE ~Examining -> c.id
                     [] Examining /\ c.id = 0 -> answer
                     [] OTHER -> 0
      /\ UNCHANGED <<interrupted, asked>>
  BY DEF GetWord, rerr
<1>2. /\ Inflow # << >> /\ c = Inflow[1] /\ c \in Items
      /\ 1 \in 1 .. Len(Inflow) /\ Kept
  BY <1>1, ReadsOne DEF read_char
<1>3. CASE interrupted = << >>
  <2>1. AtRead /\ ~Examining
    BY <1>1, <1>3 DEF Situation, Reading, Examining
  <2>2. Calm /\ ReadWire(Inflow, Outflow, monitor, asked)
    BY <2>1 DEF AtRead
  <2>3. c.t \in Words
    BY <1>1, <2>2 DEF Calm
  <2>4. c.t = "noise" \/ c.id = asked
    <3>1. c.t \in Replied => c.id = asked
      BY <1>2, <2>2 DEF ReadWire, Answering, Own
    <3> QED
      BY <2>3, <3>1 DEF Words, Replied
  <2>5. c.t = "noise" => Spoilt'
    <3>1. seen \in Seq(Items) /\ Len(seen) \in Nat
      BY Flows, LenProperties
    <3>2. CASE Len(seen) > 3
      BY <1>1, <3>2 DEF Summed, Spoilt
    <3>3. CASE ~(Len(seen) > 3)
      <4>1. seen' = Append(seen, c)
        BY <1>1, <3>3 DEF Summed
      <4>2. Len(seen') = Len(seen) + 1 /\ seen'[Len(seen) + 1] = c
        BY <1>2, <3>1, <4>1, AppendProperties
      <4>3. Len(seen) + 1 \in 1 .. Len(seen')
        BY <3>1, <4>2
      <4> QED
        BY <4>2, <4>3 DEF Spoilt
    <3> QED
      BY <3>2, <3>3
  <2>6. answer' = c.id
    BY <1>1, <2>1
  <2>7. answer' = asked' \/ Spoilt'
    BY <1>1, <2>4, <2>5, <2>6
  <2>8. ReadWire(Inflow, Outflow, monitor, asked)'
    BY <1>1, <1>2, <2>2 DEF Kept
  <2>9. AtRead'
    BY <1>1, <2>2, <2>7, <2>8 DEF AtRead, Calm, flags
  <2> QED
    BY <1>1, <1>3, <2>9 DEF Situation, Reading
<1>4. CASE interrupted # << >>
  <2>1. AtExamine /\ Examining
    BY <1>1, <1>4 DEF Situation, Reading, Examining
  <2>2. c.id = 0
    BY <1>2, <2>1 DEF AtExamine, ExamineWire
  <2>3. answer' = answer
    BY <1>1, <2>1, <2>2
  <2>4. AtExamine'
    BY <1>1, <1>2, <2>1, <2>3 DEF AtExamine, Kept, Linked, Base, flags
  <2> QED
    BY <1>1, <1>4, <2>4 DEF Situation, Reading
<1> QED
  BY <1>3, <1>4

LEMMA Verifies ==
  ASSUME TypeOK, Stacked, Situation, NEW n \in Batch, verify_checksum(n), ~broken'
  PROVE  Situation'
<1>1. /\ phase = "sum" /\ Readable /\ read_char(n) /\ ChecksumAgrees
      /\ \/ Examining /\ Return
         \/ ~Examining /\ Completed(answer) /\ UNCHANGED flags
  BY DEF verify_checksum, rerr
<1>2. /\ Inflow \in Seq(Items) /\ Inflow # << >> /\ c = Inflow[1]
      /\ 1 \in 1 .. Len(Inflow) /\ Inflow' = Tail(Inflow)
      /\ Tail(Inflow) \in Seq(Items)
      /\ Outflow' = Outflow /\ Outflow \in Seq(Frames)
      /\ UNCHANGED <<monitor, started>>
  BY <1>1, ReadsOne, Flows DEF read_char
<1>3. c.t = "checksum"
  BY <1>1 DEF ChecksumAgrees
<1>4. CASE ~Examining
  <2>1. interrupted = << >>
    BY <1>1, <1>4 DEF Examining
  <2>2. AtRead
    BY <1>1, <2>1 DEF Situation, Reading
  <2>3. /\ phase' = "prompt" /\ UNCHANGED <<answer, asked, flags>>
    BY <1>1, <1>4 DEF Completed, ToPrompt
  <2>4. ~Spoilt
    <3> DEFINE R == Reply(c.id)
    <3>1. seen = SubSeq(R, 1, 3)
      BY <1>1 DEF ChecksumAgrees
    <3>2. /\ R \in Seq({R[1], R[2], R[3], R[4]}) /\ Len(R) = 4
          /\ R[1].t = "C_DATASTART" /\ R[2].t = "word" /\ R[3].t = "C_DATAEND"
      BY DEF Reply, Item
    <3> HIDE DEF R
    <3>4. /\ Len(SubSeq(R, 1, 3)) = 3
          /\ \A i \in 1 .. 3 : SubSeq(R, 1, 3)[i] = R[i]
      BY <3>2, SubSeqProperties
    <3>5. /\ Len(seen) = 3 /\ seen[1].t = "C_DATASTART" /\ seen[2].t = "word"
          /\ seen[3].t = "C_DATAEND"
      BY <3>1, <3>2, <3>4
    <3>3. \A i \in 1 .. 3 : i = 1 \/ i = 2 \/ i = 3
      OBVIOUS
    <3> QED
      BY <3>5, <3>3 DEF Spoilt
  <2>5. answer = asked
    BY <1>1, <1>2, <2>2, <2>4 DEF AtRead
  <2>6. Outflow = << >> /\ monitor = "loop" /\ Tail(Inflow) = << >>
    BY <1>2, <1>3, <2>2, ReadsLast DEF AtRead, ReadWire, Answering
  <2>7. AtPrompt'
    BY <1>2, <2>2, <2>3, <2>5, <2>6
       DEF AtPrompt, AtRead, Quiet, QuietWire, Calm, flags
  <2> QED
    BY <2>3, <2>7 DEF Situation, Reading
<1>5. CASE Examining
  <2>1. interrupted # << >>
    BY <1>5 DEF Examining
  <2>2. AtExamine
    BY <1>1, <2>1 DEF Situation, Reading
  <2>3. Outflow = << >> /\ monitor = "loop" /\ Tail(Inflow) = << >>
    BY <1>2, <1>3, <2>2, ReadsLast DEF AtExamine, ExamineWire
  <2>4. /\ ignore_errors' = FALSE /\ attention' = FALSE
        /\ UNCHANGED target_running
        /\ IF ~Head(interrupted).running
             THEN /\ phase' = Head(interrupted).phase
                  /\ interrupted' = Tail(interrupted)
                  /\ masked' = FALSE /\ UNCHANGED <<seen, history>>
             ELSE IF InGoRemote THEN Completed(answer)
             ELSE phase' = "astray" /\ UNCHANGED <<interrupted, masked, seen, history>>
    BY <1>1, <1>5 DEF Return
  <2>5. Quiet' /\ Calm'
    BY <1>2, <2>2, <2>3, <2>4 DEF Quiet, QuietWire, Calm, AtExamine
  <2>6. /\ interrupted \in Seq([phase : Phases, running : BOOLEAN])
        /\ Len(interrupted) \in Nat \ {0} /\ Head(interrupted) = interrupted[1]
    BY <2>1, Flows, EmptySeq, HeadTailProperties
  <2>7. /\ 1 \in 1 .. Len(interrupted)
        /\ Head(interrupted).running <=> Head(interrupted).phase = "running"
    <3>1. 1 \in 1 .. Len(interrupted)
      BY <2>6
    <3> QED
      BY <2>2, <2>6, <3>1 DEF AtExamine, Linked
  <2>8. CASE Head(interrupted).running
    <3>1. Head(interrupted).phase = "running"
      BY <2>7, <2>8
    <3>2. Completed(answer)
      BY <2>4, <2>8, <3>1 DEF InGoRemote
    <3>3. Base = "running"
      <4>1. interrupted[1].phase \in
              IF 1 = Len(interrupted) THEN Bases ELSE {"sync"}
        BY <2>7 DEF Stacked
      <4>2. 1 = Len(interrupted)
        BY <2>6, <3>1, <4>1
      <4> QED
        BY <2>6, <3>1, <4>2 DEF Base
    <3>4. answer = asked
      BY <2>2, <3>3 DEF AtExamine
    <3>5. phase' = "prompt" /\ UNCHANGED asked /\ answer' = answer
      BY <3>2 DEF Completed, ToPrompt
    <3>6. AtPrompt'
      BY <2>5, <3>4, <3>5 DEF AtPrompt
    <3> QED
      BY <3>5, <3>6 DEF Situation, Reading
  <2>9. CASE ~Head(interrupted).running
    <3>1. /\ phase' = Head(interrupted).phase
          /\ interrupted' = Tail(interrupted)
          /\ masked' = FALSE /\ UNCHANGED <<asked, answer>>
      BY <2>4, <2>9 DEF history
    <3>2. Linked /\ Base \in {"goack", "running"}
      BY <2>2 DEF AtExamine
    <3>3. Base # "running"
      <4> SUFFICES ASSUME Base = "running" PROVE FALSE
        OBVIOUS
      <4>1. Len(interrupted) = 1
        BY <2>2 DEF AtExamine
      <4> QED
        BY <2>6, <2>7, <2>9, <4>1 DEF Base
    <3> QED
      BY <1>2, <2>1, <2>5, <3>1, <3>2, <3>3, Returns
  <2> QED
    BY <2>8, <2>9
<1> QED
  BY <1>4, <1>5


\* An exception ends a wait, or an error does, with a message.
LEMMA TakesException ==
  ASSUME TypeOK, Stacked, Situation, NEW n \in Batch, TakeException(n), ~broken'
  PROVE  Situation'
<1>1. /\ Readable /\ read_char(n) /\ c.t \in Exceptions
      /\ target_running' = FALSE /\ UNCHANGED <<ignore_errors, trying_to_sync>>
      /\ phase \in {"running", "nmi", "reset"}
      /\ \/ /\ c.t = Expected[phase] /\ phase = "running"
            /\ Completed(c.id) /\ UNCHANGED attention
         \/ /\ c.t = Expected[phase] /\ phase = "reset"
            /\ ToPrompt /\ attention' = FALSE
            /\ broken' = FALSE /\ answer' = asked /\ UNCHANGED asked
  BY DEF TakeException, AtException, rerr, Expected
<1>2. /\ Inflow \in Seq(Items) /\ Inflow # << >> /\ c = Inflow[1]
      /\ 1 \in 1 .. Len(Inflow) /\ Inflow' = Tail(Inflow)
      /\ Outflow' = Outflow /\ UNCHANGED <<monitor, started>>
  BY <1>1, ReadsOne, Flows DEF read_char
<1>3. CASE phase = "running"
  <2>1. /\ c.t = "TR_BPT" /\ phase' = "prompt" /\ answer' = c.id
        /\ UNCHANGED <<asked, attention>>
    BY <1>1, <1>3 DEF Completed, ToPrompt, Expected
  <2>2. AtRunning /\ c.t \in Stops
    BY <1>3, <2>1 DEF Situation, Stops
  <2>3. c.id = asked
    BY <1>2, <2>2 DEF AtRunning, RunWire, Own
  <2>4. Outflow = << >> /\ monitor = "loop" /\ Tail(Inflow) = << >>
    BY <1>2, <2>2, ReadsLast DEF AtRunning, RunWire
  <2>5. AtPrompt'
    BY <1>1, <1>2, <2>1, <2>2, <2>3, <2>4
       DEF AtPrompt, AtRunning, Quiet, QuietWire, Calm
  <2> QED
    BY <2>1, <2>5 DEF Situation, Reading
<1>4. CASE phase = "reset"
  <2>1. /\ phase' = "prompt" /\ answer' = asked /\ attention' = FALSE
        /\ UNCHANGED asked
    BY <1>1, <1>4 DEF ToPrompt
  <2>2. AtReset
    BY <1>4 DEF Situation
  <2>3. Outflow = << >> /\ monitor = "loop" /\ Tail(Inflow) = << >>
    BY <1>1, <1>2, <2>2, ReadsLast DEF AtReset, ResetWire
  <2>4. AtPrompt'
    BY <1>1, <1>2, <2>1, <2>2, <2>3
       DEF AtPrompt, AtReset, Quiet, QuietWire, Calm
  <2> QED
    BY <2>1, <2>4 DEF Situation, Reading
<1> QED
  BY <1>1, <1>3, <1>4

LEMMA ExceptionErrors ==
  ASSUME TypeOK, Situation, NEW n \in Batch, ExceptionError(n), ~broken'
  PROVE  FALSE
<1>1. /\ Readable /\ read_char(n) /\ c.t \in Errors /\ phase = "running"
  BY DEF ExceptionError, AtException, rerr
<1>2. c = Inflow[1] /\ 1 \in 1 .. Len(Inflow)
  BY <1>1, ReadsOne DEF read_char
<1>3. Only(Inflow, Stops \cup {"C_ACK", "noise"})
  BY <1>1 DEF Situation, AtRunning, RunWire
<1> QED
  BY <1>1, <1>2, <1>3 DEF Only, Stops, Errors

\* What is passed over changes nothing.
LEMMA Skips ==
  ASSUME TypeOK, Situation, NEW n \in Batch, SkipSync(n) \/ SkipChar(n)
  PROVE  Situation'
<1>1. /\ Readable /\ read_char(n)
      /\ UNCHANGED <<phase, interrupted, flags, asked, answer>>
      /\ seen' = Summed(phase) \/ seen' = seen
  BY DEF SkipSync, SkipChar, AtToken, AtException, history
<1>2. Kept
  BY <1>1, ReadsOne DEF read_char
<1>3. Spoilt => Spoilt'
  <2>1. CASE seen' = Summed(phase)
    BY <1>1, <2>1, SpoiltStays
  <2>2. CASE seen' = seen
    BY <2>2 DEF Spoilt
  <2> QED
    BY <1>1, <2>1, <2>2
<1> QED
  BY <1>1, <1>2, <1>3, Stays

\* The interrupt worked: the registers are asked for.
LEMMA ExaminesNested ==
  ASSUME NEW s \in Seq(Items), NEW f \in Seq(Frames), NEW m,
         s # << >>, s[1].t \in Exceptions, Anonymous(s, f),
         MayGo(s, f, m) \/ (f = << >> /\ Tail(s) = << >> /\ m = "loop"),
         NEW e \in Frames, e.t = "C_UPLOAD", e.id = 0
  PROVE  ExamineWire(Tail(s), Append(f, e), m)
<1>1. /\ Len(s) \in Nat /\ Len(s) > 0 /\ Len(Tail(s)) = Len(s) - 1
      /\ \A i \in 1 .. Len(Tail(s)) :
           i + 1 \in 1 .. Len(s) /\ 1 < i + 1 /\ Tail(s)[i] = s[i + 1]
  <2>1. Len(s) \in Nat /\ Len(s) # 0
    BY Length
  <2>2. Tail(s) = From(s, 2) /\ Len(Tail(s)) = Len(s) - 1
    BY ThinTail
  <2>3. 2 \in 1 .. Len(s) + 1
    BY <2>1
  <2>4. \A i \in 1 .. Len(From(s, 2)) : From(s, 2)[i] = s[i + 2 - 1]
    BY <2>3, Later
  <2> QED
    BY <2>1, <2>2, <2>4
<1>2. 1 \in 1 .. Len(s)
  BY <1>1
<1>3. ~None(s, Exceptions)
  BY <1>2 DEF None
<1>4. /\ Len(f) \in Nat /\ Len(Append(f, e)) = Len(f) + 1
      /\ \A i \in 1 .. Len(Append(f, e)) :
           \/ i \in 1 .. Len(f) /\ i # Len(Append(f, e)) /\ Append(f, e)[i] = f[i]
           \/ i = Len(Append(f, e)) /\ Append(f, e)[i] = e
  BY FrameAdded
<1>5. Halted(m)
  BY <1>3 DEF MayGo, Halted
<1>6. ASSUME NEW i \in 1 .. Len(Tail(s))
      PROVE  Tail(s)[i].t \in Debris \cup {"C_SYNC"} /\ Tail(s)[i].id = 0
  <2>1. Tail(s) # << >>
    <3>1. Tail(s) \in Seq(Items)
      BY ThinTail
    <3>2. Tail(s) = << >> => Len(Tail(s)) = 0
      BY <3>1, Length
    <3> QED
      BY <1>1, <1>6, <3>2
  <2>2. MayGo(s, f, m)
    BY <2>1
  <2>3. s[i + 1].t \in Debris \cup {"C_SYNC"}
    BY <1>1, <1>2, <2>2 DEF MayGo
  <2>4. s[i + 1].id = 0
    BY <1>1, <2>3 DEF Anonymous
  <2> QED
    BY <1>1, <2>3, <2>4
<1>7. ASSUME NEW i \in 1 .. Len(f)
      PROVE  f[i].t = "C_SYNC" /\ f[i].id = 0
  <2>1. f # << >>
    <3> SUFFICES ASSUME f = << >> PROVE FALSE
      OBVIOUS
    <3> QED
      BY <1>7
  <2>2. MayGo(s, f, m)
    BY <2>1
  <2>3. f[i].t = "C_SYNC"
    BY <1>3, <2>2 DEF MayGo
  <2> QED
    BY <2>3 DEF Anonymous
<1>8. None(Tail(s), Exceptions) /\ \A i \in 1 .. Len(Tail(s)) : Tail(s)[i].id = 0
  BY <1>6 DEF None, Debris, Exceptions
<1>9. Lasting(Tail(s), Append(f, e), m, {"checksum"})
  BY <1>6 DEF Lasting, Debris
<1>10. \A i \in 1 .. Len(Append(f, e)) :
         /\ Append(f, e)[i].t \in {"C_SYNC", "C_UPLOAD"}
         /\ Append(f, e)[i].id = 0
         /\ Append(f, e)[i].t = "C_UPLOAD" => i = Len(Append(f, e))
  BY <1>4, <1>7
<1> QED
  BY <1>5, <1>8, <1>9, <1>10 DEF ExamineWire

LEMMA TakesInterrupt ==
  ASSUME TypeOK, Stacked, Situation, Anonymous(Inflow, Outflow),
         NEW n \in Batch, TakeInterrupt(n)
  PROVE  Situation'
<1>1. /\ phase = "nmi" /\ Readable /\ c.t = "TR_INT"
      /\ inbuf' = Buffered(n) /\ rx' = Unread(n)
      /\ target_running' = FALSE /\ phase' = "reply"
      /\ out' = Append(out, Frame("C_UPLOAD", 0)) /\ tx' = tx
      /\ answer' = IF InGoRemote THEN c.id ELSE answer
      /\ UNCHANGED <<interrupted, ignore_errors, target, asked>>
  BY DEF TakeInterrupt
<1>2. /\ Inflow \in Seq(Items) /\ Inflow # << >> /\ c = Inflow[1]
      /\ 1 \in 1 .. Len(Inflow) /\ Inflow' = Tail(Inflow)
      /\ Outflow \in Seq(Frames) /\ monitor' = monitor
  BY <1>1, ReadsOne, Flows
<1>3. /\ Frame("C_UPLOAD", 0) \in Frames
      /\ Frame("C_UPLOAD", 0).t = "C_UPLOAD" /\ Frame("C_UPLOAD", 0).id = 0
  BY LinkAssumption DEF Frame, Frames
<1>4. Outflow' = Append(Outflow, Frame("C_UPLOAD", 0))
  BY <1>1, <1>3, Requests
<1>5. AtInterrupt /\ interrupted # << >>
  BY <1>1 DEF Situation, Stacked
<1>6. c.t \in Exceptions /\ c.t \in Stops
  BY <1>1 DEF Exceptions, Stops
<1>7. CASE Base = "running"
  <2>1. Len(interrupted) = 1 /\ RunWire(Inflow, Outflow, monitor, started, asked)
    BY <1>5, <1>7 DEF AtInterrupt
  <2>2. Outflow = << >> /\ monitor = "loop" /\ Tail(Inflow) = << >>
    BY <1>2, <1>6, <2>1, ReadsLast DEF RunWire
  <2>3. c.id = asked
    BY <1>2, <1>6, <2>1 DEF RunWire, Own
  <2>4. InGoRemote
    BY <1>5, <1>7, <2>1, Flows, EmptySeq, HeadTailProperties DEF InGoRemote, Base
  <2>5. ExamineWire(Tail(Inflow), Append(Outflow, Frame("C_UPLOAD", 0)), monitor)
    BY <1>2, <1>3, <1>6, <2>2, ExaminesNested
  <2>6. answer' = asked'
    BY <1>1, <2>3, <2>4
  <2>7. AtExamine'
    BY <1>1, <1>2, <1>4, <1>5, <1>7, <2>1, <2>5, <2>6
       DEF AtExamine, AtInterrupt, Linked, Base
  <2> QED
    BY <1>1, <1>5, <2>7 DEF Situation, Reading
<1>8. CASE Base # "running"
  <2>1. Base = "goack" /\ MayGo(Inflow, Outflow, monitor)
    BY <1>2, <1>5, <1>6, <1>8 DEF AtInterrupt, Nested, NoGo, None
  <2>2. ExamineWire(Tail(Inflow), Append(Outflow, Frame("C_UPLOAD", 0)), monitor)
    BY <1>2, <1>3, <1>6, <2>1, ExaminesNested
  <2>3. AtExamine'
    BY <1>1, <1>2, <1>4, <1>5, <2>1, <2>2 DEF AtExamine, AtInterrupt, Linked, Base
  <2> QED
    BY <1>1, <1>5, <2>3 DEF Situation, Reading
<1> QED
  BY <1>7, <1>8

-----------------------------------------------------------------------------
(***************************************************************************)
(* The situation: commands, what the host does between, and all steps.     *)
(***************************************************************************)
\* The host touches nothing of the line but its own output, or nothing at all.
LEMMA SameLine ==
  ASSUME TypeOK, inbuf' = inbuf, rx' = rx, UNCHANGED <<monitor, started>>,
         (out' = out /\ tx' = tx) \/ (tx' = tx \o out /\ out' = << >>)
  PROVE  Kept
<1>1. /\ Inflow \in Seq(Items) /\ Outflow \in Seq(Frames)
      /\ out \in Seq(Frames) /\ tx \in Seq(Frames)
  BY Flows
<1>2. (tx \o out) \o << >> = tx \o out
  BY <1>1, ConcatProperties, ConcatEmptySeq
<1>3. Inflow' = Inflow /\ Outflow' = Outflow
  BY <1>2 DEF Inflow, Outflow
<1>4. Thinned(Inflow, Inflow) /\ Thinned(Outflow, Outflow)
  BY <1>1, ThinSame
<1> QED
  BY <1>1, <1>3, <1>4, ThinKeeps

\* The first frame of a command finds the line empty.
LEMMA Asks ==
  ASSUME TypeOK, Stacked, Situation, NEW t \in {"C_UPLOAD", "C_DOWNLOAD", "C_GO"},
         NEW wait, send_request(t, wait),
         wait = CASE t = "C_UPLOAD" -> "reply" [] t = "C_DOWNLOAD" -> "ack"
                  [] t = "C_GO" -> "goack"
  PROVE  Situation'
<1> DEFINE e == Frame(t, asked')
<1>1. /\ phase = "prompt" /\ asked < MaxRequests /\ asked' = asked + 1
      /\ out' = Append(out, e) /\ tx' = tx /\ inbuf' = inbuf /\ rx' = rx
      /\ phase' = wait /\ UNCHANGED <<interrupted, flags, target>>
  BY DEF send_request
<1>2. interrupted' = << >> /\ interrupted = << >>
  BY <1>1 DEF TypeOK
<1>3. /\ Inflow = << >> /\ Outflow = << >> /\ monitor = "loop" /\ Calm
  BY <1>1 DEF Situation, AtPrompt, Quiet, QuietWire
<1>4. e \in Frames /\ e.t = t /\ e.id = asked'
  BY <1>1, LinkAssumption DEF TypeOK, Frame, Frames
<1>5. Outflow' = Append(Outflow, e) /\ Inflow' = Inflow
  BY <1>1, <1>4, Requests DEF Inflow
<1>6. Inflow' = << >> /\ monitor' = "loop" /\ Calm'
  BY <1>1, <1>3, <1>5 DEF Calm, flags, target
<1>7. Asking(Outflow', t, asked')
  <2>1. Outflow \in Seq(Frames)
    BY Flows
  <2> HIDE DEF e
  <2>2. \A i \in 1 .. Len(Append(Outflow, e)) :
          i = Len(Append(Outflow, e)) /\ Append(Outflow, e)[i] = e
    <3>1. \A i : i \notin 1 .. Len(Outflow)
      BY <1>3
    <3> QED
      BY <1>4, <2>1, <3>1, FrameAdded
  <2>3. Len(Append(Outflow, e)) = 1
    BY <1>3, <1>4, <2>1, FrameAdded
  <2> QED
    BY <1>4, <1>5, <2>2, <2>3 DEF Asking
<1>8. \A T : /\ Only(Inflow', T) /\ None(Inflow', T)
             /\ Own(Inflow', T, asked')
             /\ Lasting(Inflow', Outflow', monitor', T)
  BY <1>6 DEF Only, None, Own, Lasting
<1>9. Halted(monitor') /\ monitor' # "running"
  BY <1>6 DEF Halted
<1> HIDE DEF e
<1>10. CASE t = "C_UPLOAD"
  <2>1. phase' = "reply"
    BY <1>1, <1>10
  <2>2. AtRead'
    BY <1>6, <1>7, <1>8, <1>9, <1>10, <2>1 DEF AtRead, ReadWire, Answering
  <2> QED
    BY <1>2, <2>1, <2>2 DEF Situation, Reading
<1>11. CASE t = "C_DOWNLOAD"
  <2>1. phase' = "ack"
    BY <1>1, <1>11
  <2>2. AtWrite'
    BY <1>6, <1>7, <1>8, <1>9, <1>11 DEF AtWrite, WriteWire, Answering
  <2> QED
    BY <2>1, <2>2 DEF Situation, Reading
<1>12. CASE t = "C_GO"
  <2>1. phase' = "goack"
    BY <1>1, <1>12
  <2>2. Started(Inflow', Outflow', monitor', started', asked')
    BY <1>9 DEF Started
  <2>3. GoWire(Inflow', Outflow', monitor', started', asked')
    BY <1>6, <1>7, <1>8, <1>9, <1>12, <2>2 DEF GoWire
  <2>4. AtGo'
    BY <1>6, <2>3 DEF AtGo
  <2> QED
    BY <2>1, <2>4 DEF Situation, Reading
<1> QED
  BY <1>10, <1>11, <1>12

LEMMA Resets ==
  ASSUME reset_remote
  PROVE  Situation'
<1>1. Inflow' = << >> \o << >> /\ Outflow' = << >> \o << >>
  BY DEF reset_remote, Inflow, Outflow
<1>2. Inflow' = << >> /\ Outflow' = << >>
  BY <1>1
<1>3. /\ phase' = "reset" /\ monitor' = "booting"
      /\ target_running' = FALSE /\ ignore_errors' = FALSE
  BY DEF reset_remote
<1>4. ResetWire(Inflow', Outflow', monitor')
  BY <1>2, <1>3 DEF ResetWire, Lasting
<1> QED
  BY <1>3, <1>4 DEF Situation, AtReset, Reading

\* No C_SYNC came: the target is interrupted instead.
LEMMA Unanswered ==
  ASSUME TypeOK, Situation, Kept, phase = "sync", send_interrupt_signal,
         interrupted' = interrupted
  PROVE  Situation'
<1>1. /\ phase' = "nmi" /\ ignore_errors' = TRUE /\ target_running' = target_running
  BY DEF send_interrupt_signal
<1>2. /\ ~target_running /\ Linked /\ Base # "running" /\ Nested
  BY DEF Situation, AtSync, Calm
<1>3. Linked' /\ Base' = Base
  BY <1>2 DEF Linked, Base
<1>4. Nested'
  BY <1>2, <1>3 DEF Nested, Kept
<1>5. AtInterrupt'
  BY <1>1, <1>2, <1>3, <1>4 DEF AtInterrupt
<1> QED
  BY <1>1, <1>5 DEF Situation, Reading

\* Only init makes up for an error.
LEMMA StaysBroken ==
  ASSUME TypeOK, Stacked, Next, ~reset_remote, phase # "reset"
  PROVE  phase' # "reset" /\ (broken => broken')
<1>1. ASSUME rerr \/ \E r : Completed(r)
      PROVE  phase' # "reset" /\ (broken => broken')
  BY <1>1 DEF rerr, Completed, ToPrompt
<1>2. ASSUME UNCHANGED <<phase, broken>>
      PROVE  phase' # "reset" /\ (broken => broken')
  BY <1>2
<1>3. CASE Command
  BY <1>3 DEF Command, forced_read_remote, write_remote, go_remote, send_request,
       interrupt_command, flush_command, history
<1>4. CASE flush_output_buffer \/ KeepWaiting \/ Fault
  BY <1>2, <1>4 DEF flush_output_buffer, KeepWaiting, Fault, Host, history
<1>5. CASE Target
  BY <1>2, <1>5, TargetSays DEF Host, history
<1>6. CASE QuitWait \/ ExceptionTimeout
  BY <1>1, <1>6 DEF QuitWait, ExceptionTimeout
<1>7. ASSUME send_interrupt_signal
      PROVE  phase' # "reset" /\ (broken => broken')
  BY <1>7 DEF send_interrupt_signal, history
<1>8. CASE SyncTimeout
  BY <1>7, <1>8 DEF SyncTimeout
<1>9. ASSUME NEW m, Sync(m) \/ Nmi(m)
      PROVE  phase' # "reset" /\ (broken => broken')
  BY <1>7, <1>9 DEF Sync, Nmi, history
<1>10. ASSUME NEW n, NEW m, TokenError(n, m) \/ SyncWithout(n, m)
       PROVE  phase' # "reset" /\ (broken => broken')
  BY <1>1, <1>7, <1>10 DEF TokenError, SyncWithout
<1>11. ASSUME interrupted # << >> PROVE Head(interrupted).phase # "reset"
  <2>1. /\ Len(interrupted) \in Nat \ {0} /\ Head(interrupted) = interrupted[1]
    BY <1>11, Flows, EmptySeq, HeadTailProperties
  <2>2. 1 \in 1 .. Len(interrupted)
    BY <2>1
  <2>3. interrupted[1].phase \in
          IF 1 = Len(interrupted) THEN Bases ELSE {"sync"}
    BY <2>2 DEF Stacked
  <2> QED
    BY <2>1, <2>3 DEF Bases, Reading
<1>12. ASSUME NEW n \in Batch, Read(n)
       PROVE  phase' # "reset" /\ (broken => broken')
  <2>1. CASE FindToken(n)
    <3>1. phase \in {"reply", "dataend", "ack", "goack", "sync"}
      BY <2>1 DEF FindToken, AtToken, Token
    <3>2. CASE phase \in {"reply", "dataend"}
      BY <2>1, <3>2 DEF FindToken, Proceed, history
    <3>3. CASE phase = "ack"
      BY <1>1, <2>1, <3>3 DEF FindToken
    <3>4. CASE phase = "goack"
      BY <2>1, <3>4 DEF FindToken
    <3>5. CASE phase = "sync"
      <4>1. phase' = Head(interrupted).phase /\ broken' = broken
        BY <2>1, <3>5 DEF FindToken, history
      <4>2. interrupted # << >>
        BY <3>5 DEF Stacked
      <4> QED
        BY <1>11, <4>1, <4>2
    <3> QED
      BY <3>1, <3>2, <3>3, <3>4, <3>5
  <2>2. CASE SkipSync(n) \/ SkipChar(n)
    BY <1>2, <2>2 DEF SkipSync, SkipChar, history
  <2>3. CASE MissToken(n)
    <3>1. Completed(0) \/ Completed(c.id) \/ rerr
      BY <2>3 DEF MissToken
    <3> QED
      BY <1>1, <3>1
  <2>4. CASE GetWord(n)
    BY <1>1, <2>4 DEF GetWord
  <2>5. CASE verify_checksum(n)
    <3>1. rerr \/ Completed(answer) \/ (Examining /\ Return)
      BY <2>5 DEF verify_checksum
    <3>2. CASE Examining /\ Return
      <4>1. \/ phase' = Head(interrupted).phase /\ broken' = broken
            \/ Completed(answer)
            \/ phase' = "astray" /\ broken' = broken
        BY <3>2 DEF Return, history
      <4> QED
        BY <1>1, <1>11, <3>2, <4>1 DEF Examining
    <3> QED
      BY <1>1, <3>1, <3>2
  <2>6. CASE TakeException(n)
    <3>1. rerr \/ Completed(c.id)
      BY <2>6 DEF TakeException
    <3> QED
      BY <1>1, <3>1
  <2>7. CASE TakeInterrupt(n)
    BY <2>7 DEF TakeInterrupt
  <2>8. CASE ExceptionError(n)
    <3>1. rerr \/ Completed(answer)
      BY <2>8 DEF ExceptionError
    <3> QED
      BY <1>1, <3>1
  <2> QED
    BY <1>12, <2>1, <2>2, <2>3, <2>4, <2>5, <2>6, <2>7, <2>8 DEF Read
<1> QED
  BY <1>3, <1>4, <1>5, <1>6, <1>8, <1>9, <1>10, <1>12 DEF Next

LEMMA Situates ==
  ASSUME IInv, Next, Good'
  PROVE  Situation'
<1>1. CASE reset_remote
  BY <1>1, Resets
<1> SUFFICES ASSUME ~reset_remote PROVE Situation'
  BY <1>1
<1>2. /\ TypeOK /\ Stacked /\ Anonymous(Inflow, Outflow)
      /\ phase # "reset" => phase' # "reset" /\ (broken => broken')
  BY StaysBroken DEF IInv
<1>3. Situation /\ (phase # "reset" => ~broken')
  BY <1>2 DEF IInv, Good
<1>4. ASSUME phase' # "reset" PROVE ~broken'
  BY <1>4 DEF Good
\* An error message is the end of the situation.
<1>5. ~rerr
  BY <1>4 DEF rerr, ToPrompt
<1>6. ASSUME Kept, UNCHANGED <<phase, interrupted, seen, flags, asked, answer>>
      PROVE  Situation'
  <2>1. Spoilt => Spoilt'
    BY <1>6 DEF Spoilt
  <2> QED
    BY <1>3, <1>6, <2>1, Stays
<1>7. CASE Command
  <2>1. CASE forced_read_remote \/ write_remote \/ go_remote
    BY <1>2, <1>3, <2>1, Asks DEF forced_read_remote, write_remote, go_remote
  <2>2. CASE interrupt_command
    <3>1. Kept
      BY <1>2, <2>2, SameLine DEF interrupt_command, line
    <3> QED
      BY <1>6, <2>2, <3>1 DEF interrupt_command, history
  <2>3. CASE flush_command
    <3>1. PICK m \in 0 .. Len(rx) : rx' = From(rx, m + 1)
      BY <2>3 DEF flush_command
    <3>2. Kept
      BY <1>2, <2>3, <3>1, Flushes DEF flush_command, target
    <3> QED
      BY <1>6, <2>3, <3>2 DEF flush_command, history
  <2> QED
    BY <1>7, <2>1, <2>2, <2>3 DEF Command
<1>8. CASE flush_output_buffer \/ KeepWaiting
  <2>1. Kept
    BY <1>2, <1>8, SameLine DEF flush_output_buffer, KeepWaiting, line, target
  <2> QED
    BY <1>6, <1>8, <2>1 DEF flush_output_buffer, KeepWaiting, history
<1>9. ASSUME NEW n \in Batch, Read(n) PROVE Situation'
  <2>1. CASE FindToken(n)
    <3>1. phase # "reset"
      BY <2>1 DEF FindToken, AtToken, Token
    <3> QED
      BY <1>2, <1>3, <1>9, <2>1, <3>1, Finds
  <2>2. CASE SkipSync(n) \/ SkipChar(n)
    BY <1>2, <1>3, <1>9, <2>2, Skips
  <2>3. CASE MissToken(n)
    <3>1. phase # "reset"
      BY <2>3 DEF MissToken, AtToken, Token
    <3> QED
      BY <1>2, <1>3, <1>9, <2>3, <3>1, Misses
  <2>4. CASE GetWord(n)
    <3>1. phase # "reset"
      BY <2>4 DEF GetWord
    <3> QED
      BY <1>2, <1>3, <1>9, <2>4, <3>1, GetsWord
  <2>5. CASE verify_checksum(n)
    <3>1. phase # "reset"
      BY <2>5 DEF verify_checksum
    <3> QED
      BY <1>2, <1>3, <1>9, <2>5, <3>1, Verifies
  <2>6. CASE TakeException(n)
    <3>1. ~broken'
      BY <1>4, <2>6 DEF TakeException, Completed, ToPrompt, rerr
    <3> QED
      BY <1>2, <1>3, <1>9, <2>6, <3>1, TakesException
  <2>7. CASE TakeInterrupt(n)
    BY <1>2, <1>3, <1>9, <2>7, TakesInterrupt
  <2>8. CASE ExceptionError(n)
    <3>1. ~broken'
      BY <1>4, <2>8 DEF ExceptionError, Completed, ToPrompt, rerr
    <3> QED
      BY <1>2, <1>3, <1>9, <2>8, <3>1, ExceptionErrors
  <2> QED
    BY <1>9, <2>1, <2>2, <2>3, <2>4, <2>5, <2>6, <2>7, <2>8 DEF Read
<1>10. ASSUME NEW n \in Batch, NEW m \in 0 .. Len(Unread(n)),
              TokenError(n, m) \/ SyncWithout(n, m)
       PROVE  Situation'
  <2>1. SyncWithout(n, m)
    BY <1>5, <1>10 DEF TokenError
  <2>2. /\ phase = "sync" /\ Readable /\ send_interrupt_signal
        /\ inbuf' = Buffered(n) /\ rx' = From(Unread(n), m + 1) /\ out' = << >>
        /\ tx' = tx /\ UNCHANGED <<monitor, started, interrupted>>
    BY <2>1 DEF SyncWithout, send_interrupt_signal
  <2>3. Kept
    BY <1>2, <1>10, <2>2, ReadsLine
  <2> QED
    BY <1>2, <1>3, <2>2, <2>3, Unanswered
<1>11. ASSUME NEW m \in 0 .. Len(rx), Sync(m) \/ Nmi(m) PROVE Situation'
  BY <1>2, <1>3, <1>11, Syncs, Nmis
<1>12. CASE SyncTimeout
  <2>1. /\ phase = "sync" /\ send_interrupt_signal /\ interrupted' = interrupted
        /\ inbuf' = inbuf /\ rx' = rx /\ out' = out /\ tx' = tx
        /\ UNCHANGED <<monitor, started>>
    BY <1>12 DEF SyncTimeout, send_interrupt_signal
  <2>2. Kept
    BY <1>2, <2>1, SameLine
  <2> QED
    BY <1>2, <1>3, <2>1, <2>2, Unanswered
<1>13. ~QuitWait /\ ~ExceptionTimeout
  BY <1>5 DEF QuitWait, ExceptionTimeout
<1>14. CASE Target
  <2>1. Kept /\ UNCHANGED Host
    BY <1>2, <1>14, TargetKeeps, TargetSays
  <2> QED
    BY <1>6, <2>1 DEF Host, history
<1>15. CASE Fault
  <2>1. Kept /\ UNCHANGED Host
    BY <1>2, <1>15, FaultKeeps DEF Fault
  <2> QED
    BY <1>6, <2>1 DEF Host, history
<1> QED
  BY <1>7, <1>8, <1>9, <1>10, <1>11, <1>12, <1>13, <1>14, <1>15 DEF Next, Command

LEMMA Starts ==
  Init => IInv
<1> SUFFICES ASSUME Init PROVE IInv
  OBVIOUS
<1>1. /\ << >> \in Seq(Items) /\ << >> \in Seq(Frames)
      /\ << >> \in Seq([phase : Phases, running : BOOLEAN])
      /\ Len(<< >>) = 0 /\ << >> \o << >> = << >>
      /\ MaxRequests \in Nat /\ MaxFaults \in Nat /\ MaxNested \in Nat
  BY EmptySeq, LinkAssumption
<1>2. Placed
  BY <1>1 DEF Init, Placed, Phases
<1>3. Sequenced
  BY <1>1 DEF Init, Sequenced
<1>4. Counted
  BY <1>1 DEF Init, Counted
<1>5. Flagged
  BY DEF Init, Flagged
<1>6. TypeOK
  BY <1>2, <1>3, <1>4, <1>5, Typed
<1>7. Stacked
  BY <1>1 DEF Init, Stacked, Examining
<1>8. Inflow = << >> /\ Outflow = << >>
  BY <1>1 DEF Init, Inflow, Outflow
<1>9. Anonymous(Inflow, Outflow)
  BY <1>1, <1>8 DEF Anonymous
<1>10. AtPrompt
  BY <1>8 DEF Init, AtPrompt, Quiet, QuietWire, Calm
<1>11. Situation
  BY <1>10 DEF Init, Situation, Reading
<1> QED
  BY <1>6, <1>7, <1>9, <1>11 DEF IInv

\* The inductive invariant: the host, wherever it waits, knows what may still
\* come and what the target does, as long as no error message has intervened.
THEOREM Inductive ==
  Spec => []IInv
<1>1. IInv /\ [Next]_vars => IInv'
  <2> SUFFICES ASSUME IInv, [Next]_vars PROVE IInv'
    OBVIOUS
  <2>1. CASE Next
    <3>1. TypeOK /\ Stacked /\ Anonymous(Inflow, Outflow)
      BY DEF IInv
    <3>2. TypeOK' /\ Stacked'
      BY <2>1, <3>1, Types
    <3>3. Anonymous(Inflow, Outflow)'
      BY <2>1, <3>1, StaysAnonymous
    <3>4. Good' => Situation'
      BY <2>1, Situates
    <3> QED
      BY <3>2, <3>3, <3>4 DEF IInv
  <2>2. CASE UNCHANGED vars
    <3> USE DEF vars, flags, line, target, history
    <3>1. TypeOK' /\ Stacked'
      BY <2>2 DEF IInv, TypeOK, Stacked, Examining
    <3>2. UNCHANGED <<Inflow, Outflow, Calm, Quiet, Spoilt, Base, Linked, Good>>
      BY <2>2 DEF Inflow, Outflow, Calm, Quiet, Spoilt, Base, Linked, Good
    <3>3. Anonymous(Inflow, Outflow)'
      BY <3>2 DEF IInv
    <3>4. Kept
      BY <2>2, <3>2 DEF Kept
    <3>5. Situation => Situation'
      BY <2>2, <3>2, <3>4, Stays
    <3> QED
      BY <3>1, <3>2, <3>3, <3>5 DEF IInv
  <2> QED
    BY <2>1, <2>2
<1> QED
  BY <1>1, Starts, PTL DEF Spec

\* The types of the host's globals, of the line and of the target hold.
THEOREM TypeCorrect ==
  Spec => []TypeOK
<1>1. IInv => TypeOK
  BY DEF IInv
<1> QED
  BY <1>1, Inductive, PTL

\* A command that ends without an error message has had its own reply.
THEOREM AnswersTrusted ==
  Spec => []Trusted
<1>1. IInv => Trusted
  BY DEF IInv, Good, Situation, AtPrompt, Trusted
<1> QED
  BY <1>1, Inductive, PTL

\* And then nothing is on its way, and the monitor listens.
THEOREM PromptIsQuiet ==
  Spec => []QuietPrompt
<1>1. IInv => QuietPrompt
  <2> SUFFICES ASSUME IInv, phase = "prompt", ~broken
               PROVE  /\ out \o tx = << >> /\ inbuf \o rx = << >>
                      /\ monitor = "loop"
                      /\ ~target_running /\ ~ignore_errors /\ ~attention
    BY DEF QuietPrompt
  <2>1. TypeOK /\ AtPrompt
    BY DEF IInv, Good, Situation
  <2>2. /\ Inflow = << >> /\ Outflow = << >> /\ monitor = "loop" /\ Calm
    BY <2>1 DEF AtPrompt, Quiet, QuietWire
  <2>3. tx = << >> /\ out = << >>
    BY <2>1, <2>2, Flows, ConcatEmptySeq DEF Outflow
  <2>4. << >> \o << >> = << >>
    OBVIOUS
  <2> QED
    BY <2>2, <2>3, <2>4 DEF Inflow, Calm
<1> QED
  BY <1>1, Inductive, PTL
=============================================================================
