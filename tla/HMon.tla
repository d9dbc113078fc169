------------------------------- MODULE HMon -------------------------------
(***************************************************************************)
(* The 88000 debug monitor (hmon/mon.c, hmon/monlow.s) as several CPUs run *)
(* it at once.  Every CPU that takes an exception saves its registers and  *)
(* enters debug_monitor_entry_point(); the one whose xmem finds the host   *)
(* communication mutex free talks to g88 over the serial line, the others  *)
(* wait in wait_quietly() until go_cmd() clears their dm_in_mon word or    *)
(* until nobody clears an abort interrupt.  The kernel's console I/O       *)
(* (mon_dbread, mon_dbwrite) competes for the same mutex.                  *)
(*                                                                         *)
(* One step is one access to memory that another CPU can see: the mutex,   *)
(* a dm_in_mon word, or the abort flip-flop.  What the conversation with   *)
(* the host says (memory reads, writes, searches) leaves this state alone; *)
(* MemCache models what those commands do.                                 *)
(***************************************************************************)
EXTENDS Naturals

CONSTANT NCPU       \* number of processors, regs0 .. regs3 in the code

ASSUME NCPUAssumption == NCPU \in Nat \ {0}

CPUS == 0 .. NCPU - 1

\* Exception codes a CPU stores in dm_exception_code (montraps.h).  BPT also
\* stands for TR_TRC: both save the state and enter the monitor.
Codes == {"RESET", "INT", "BPT", "DACC"}

\* Where a CPU is:
\*   user     executing the debugged program (dm_in_mon is not IN_MON_MAGIC)
\*   dbspin   in mon_dbread/mon_dbwrite, spinning on the mutex
\*   dbio     in mon_dbread/mon_dbwrite, holding the mutex
\*   entry    at debug_mon_entry
\*   acquire  in debug_monitor_entry_point, about to xmem the mutex
\*   talk     has the mutex, about to call talk_to_host
\*   loop     in the main loop, reading commands from the host
\*   goclear  in go_cmd, the mutex released, clearing dm_in_mon words
\*   quiet    about to call wait_quietly
\*   test     evaluating the while condition of wait_quietly
\*   watch    in the body of wait_quietly, watching the abort flip-flop
\*   takeover in wait_quietly, the abort cleared, about to xmem the mutex
PCs == {"user", "dbspin", "dbio", "entry", "acquire", "talk", "loop",
        "goclear", "quiet", "test", "watch", "takeover"}

\* The places where a CPU owns the host communication line.
Conversing == {"talk", "loop", "dbio"}

\* xrestart() resets the machine once dm_restart_count has passed this.
RestartLimit == 10

VARIABLES
  pc,        \* where each CPU is
  mutex,     \* 0, or the whoami value of the last CPU that xmem'ed it
  in_mon,    \* dm_in_mon[c] = IN_MON_MAGIC
  code,      \* dm_exception_code
  image,     \* whose context c's register save area holds
  restarts,  \* dm_restart_count
  gobuf,     \* go_cmd's buf: the CPUs that the host let go
  goidx,     \* go_cmd's progress through regs0 .. regs3
  abort,     \* the abort interrupt flip-flop (INT_STATUS_ADDR)
  report     \* the command that last opened a conversation with the host

monvars == <<pc, mutex, in_mon, code, image, restarts, gobuf, goidx, abort,
          report>>

\* Mutant: a whoami that is taken for a CPU mask with one bit too many.
whoami_shifted(c) == c + 2

\* The value that c's whoami register puts in the mutex; never zero.
whoami(c) == c + 1

Reports == {"NONE", "C_EXCEPTION", "C_DATAERROR"}

\* _start zeroes the mutex and the variable areas and forks every CPU.
MonInit ==
  /\ pc       = [c \in CPUS |-> "entry"]
  /\ mutex    = 0
  /\ in_mon   = [c \in CPUS |-> FALSE]
  /\ code     = [c \in CPUS |-> "RESET"]
  /\ image    = [c \in CPUS |-> "user"]
  /\ restarts = [c \in CPUS |-> 0]
  /\ gobuf    = [c \in CPUS |-> {}]
  /\ goidx    = [c \in CPUS |-> 0]
  /\ abort    = FALSE
  /\ report   = "NONE"

Goto(c, l) == pc' = [pc EXCEPT ![c] = l]

-----------------------------------------------------------------------------
(* Exceptions and the monitor's entry.                                     *)

\* The register save area after exception k in context who ("user" or
\* "monitor"): _interrupt_ex and _data_acc_ex keep it if dm_in_mon says that
\* the CPU is in the monitor, _breakpoint_ex always saves the registers.
SavedImage(c, k, who) ==
  IF k \in {"INT", "DACC"} /\ in_mon[c] THEN image
                                       ELSE [image EXCEPT ![c] = who]

\* Breakpoint, single-step, data access or abort interrupt in the debugged
\* program, then debug_mon_entry.
Exception(c, k) ==
  /\ pc[c] = "user"
  /\ k = "INT" => abort
  /\ code'  = [code EXCEPT ![c] = k]
  /\ image' = SavedImage(c, k, "user")
  /\ Goto(c, "entry")
  /\ UNCHANGED <<mutex, in_mon, restarts, gobuf, goidx, abort, report>>

\* debug_mon_entry: clear an abort that may be pending, call
\* debug_monitor_entry_point.
DebugMonEntry(c) ==
  /\ pc[c] = "entry"
  /\ abort' = FALSE
  /\ Goto(c, "acquire")
  /\ UNCHANGED <<mutex, in_mon, code, image, restarts, gobuf, goidx, report>>

\* Mutant: treat the mutex as ours when it holds our own whoami.
GotMutex_reentrant(c) == mutex = 0 \/ mutex = whoami(c)

\* acquire_host_comm_mutex(): exchange our whoami with the mutex.  It was
\* ours for the taking exactly when the old value was zero.
GotMutex(c) == mutex = 0

acquire_host_comm_mutex(c, won, lost) ==
  /\ mutex' = whoami(c)
  /\ Goto(c, IF GotMutex(c) THEN won ELSE lost)

release_host_comm_mutex(c) == mutex' = 0

Acquire(c) ==
  /\ pc[c] = "acquire"
  /\ acquire_host_comm_mutex(c, "talk", "quiet")
  /\ UNCHANGED <<in_mon, code, image, restarts, gobuf, goidx, abort, report>>

\* talk_to_host(): a data error in the monitor itself is answered with
\* C_DATAERROR, anything else opens with C_EXCEPTION <cpu> <code>.
talk_to_host(c) ==
  /\ pc[c] = "talk"
  /\ IF in_mon[c] /\ code[c] = "DACC"
       THEN /\ report' = "C_DATAERROR"
            /\ UNCHANGED in_mon
       ELSE /\ report' = "C_EXCEPTION"
            /\ in_mon' = [in_mon EXCEPT ![c] = TRUE]
  /\ Goto(c, "loop")
  /\ UNCHANGED <<mutex, code, image, restarts, gobuf, goidx, abort>>

-----------------------------------------------------------------------------
(* wait_quietly().                                                         *)

SetInMon(c) ==
  /\ pc[c] = "quiet"
  /\ in_mon' = [in_mon EXCEPT ![c] = TRUE]
  /\ Goto(c, "test")
  /\ UNCHANGED <<mutex, code, image, restarts, gobuf, goidx, abort, report>>

\* Mutant: announce that we are in the monitor on every turn of the loop.
TestInMon_announces(c) ==
  /\ pc[c] = "test"
  /\ in_mon' = [in_mon EXCEPT ![c] = TRUE]
  /\ Goto(c, "watch")
  /\ UNCHANGED <<mutex, code, image, restarts, gobuf, goidx, abort, report>>

\* while (p->dm_in_mon == IN_MON_MAGIC); leaving the loop resumes the
\* debugged program.
TestInMon(c) ==
  /\ pc[c] = "test"
  /\ Goto(c, IF in_mon[c] THEN "watch" ELSE "user")
  /\ UNCHANGED <<mutex, in_mon, code, image, restarts, gobuf, goidx, abort,
                 report>>

\* No abort is pending, or somebody cleared it in time.
NoAbort(c) ==
  /\ pc[c] = "watch"
  /\ ~abort
  /\ Goto(c, "test")
  /\ UNCHANGED <<mutex, in_mon, code, image, restarts, gobuf, goidx, abort,
                 report>>

\* Mutant: clear the abort and go on waiting.
ClearAbort_only(c) ==
  /\ pc[c] = "watch"
  /\ abort
  /\ abort' = FALSE
  /\ Goto(c, "test")
  /\ UNCHANGED <<mutex, in_mon, code, image, restarts, gobuf, goidx, report>>

\* The abort was still pending after 100000 looks: clear it.
ClearAbort(c) ==
  /\ pc[c] = "watch"
  /\ abort
  /\ abort' = FALSE
  /\ Goto(c, "takeover")
  /\ UNCHANGED <<mutex, in_mon, code, image, restarts, gobuf, goidx, report>>

\* Try to take over the conversation, as if by an interrupt of our own.
TakeOver(c) ==
  /\ pc[c] = "takeover"
  /\ acquire_host_comm_mutex(c, "talk", "test")
  /\ code' = IF GotMutex(c) THEN [code EXCEPT ![c] = "INT"] ELSE code
  /\ UNCHANGED <<in_mon, image, restarts, gobuf, goidx, abort, report>>

-----------------------------------------------------------------------------
(* Commands of the host that reach this state.                             *)

\* go_cmd() up to and including release_host_comm_mutex(0).
GoAck(c, S) ==
  /\ pc[c] = "loop"
  /\ gobuf' = [gobuf EXCEPT ![c] = S]
  /\ UNCHANGED goidx
  /\ release_host_comm_mutex(c)
  /\ Goto(c, "goclear")
  /\ UNCHANGED <<in_mon, code, image, restarts, abort, report>>

\* if (buf[i]) regs<i>.dm_in_mon = 0;
GoClear(c) ==
  /\ pc[c] = "goclear"
  /\ goidx[c] < NCPU
  /\ in_mon' = IF goidx[c] \in gobuf[c]
                 THEN [in_mon EXCEPT ![goidx[c]] = FALSE] ELSE in_mon
  /\ goidx' = [goidx EXCEPT ![c] = @ + 1]
  /\ UNCHANGED <<pc, mutex, code, image, restarts, gobuf, abort, report>>

\* Mutant: the CPU that executes go_cmd always goes.
GoReturn_always(c) ==
  /\ pc[c] = "goclear"
  /\ goidx[c] = NCPU
  /\ gobuf' = [gobuf EXCEPT ![c] = {}]
  /\ goidx' = [goidx EXCEPT ![c] = 0]
  /\ Goto(c, "user")
  /\ UNCHANGED <<mutex, in_mon, code, image, restarts, abort, report>>

\* Back in the main loop: return if our own word is zero, else wait_quietly.
\* go_cmd's locals are gone.
GoReturn(c) ==
  /\ pc[c] = "goclear"
  /\ goidx[c] = NCPU
  /\ gobuf' = [gobuf EXCEPT ![c] = {}]
  /\ goidx' = [goidx EXCEPT ![c] = 0]
  /\ Goto(c, IF in_mon[c] THEN "quiet" ELSE "user")
  /\ UNCHANGED <<mutex, in_mon, code, image, restarts, abort, report>>

\* The host asked for memory that is not there: _data_acc_ex re-enters the
\* monitor.
DataAccEx(c) ==
  /\ pc[c] = "loop"
  /\ code'  = [code EXCEPT ![c] = "DACC"]
  /\ image' = SavedImage(c, "DACC", "monitor")
  /\ Goto(c, "entry")
  /\ UNCHANGED <<mutex, in_mon, restarts, gobuf, goidx, abort, report>>

\* handle_duart_error and xrestart write GLBRES_ADDR: everything starts anew.
MachineReset ==
  /\ pc'       = [c \in CPUS |-> "entry"]
  /\ mutex'    = 0
  /\ in_mon'   = [c \in CPUS |-> FALSE]
  /\ code'     = [c \in CPUS |-> "RESET"]
  /\ image'    = [c \in CPUS |-> "user"]
  /\ restarts' = [c \in CPUS |-> 0]
  /\ gobuf'    = [c \in CPUS |-> {}]
  /\ goidx'    = [c \in CPUS |-> 0]
  /\ abort'    = FALSE
  /\ report'   = "NONE"

\* A framing, checksum or compression error while c converses: xrestart().
xrestart(c) ==
  /\ pc[c] \in {"loop", "dbio"}
  /\ IF restarts[c] > RestartLimit
       THEN MachineReset
       ELSE /\ restarts' = [restarts EXCEPT ![c] = @ + 1]
            /\ code' = [code EXCEPT ![c] = "RESET"]
            /\ Goto(c, "entry")
            /\ UNCHANGED <<mutex, in_mon, image, gobuf, goidx, abort, report>>

\* The UART's error does not clear: handle_duart_error resets the machine.
DuartReset(c) ==
  /\ pc[c] \in {"loop", "dbio"}
  /\ MachineReset

-----------------------------------------------------------------------------
(* Console I/O of the program being debugged.                              *)

DbCall(c) ==
  /\ pc[c] = "user"
  /\ Goto(c, "dbspin")
  /\ UNCHANGED <<mutex, in_mon, code, image, restarts, gobuf, goidx, abort,
                 report>>

\* while (!acquire_host_comm_mutex());
DbAcquire(c) ==
  /\ pc[c] = "dbspin"
  /\ acquire_host_comm_mutex(c, "dbio", "dbspin")
  /\ UNCHANGED <<in_mon, code, image, restarts, gobuf, goidx, abort, report>>

\* release_host_comm_mutex(1) and return to the kernel.
DbDone(c) ==
  /\ pc[c] = "dbio"
  /\ release_host_comm_mutex(c)
  /\ Goto(c, "user")
  /\ UNCHANGED <<in_mon, code, image, restarts, gobuf, goidx, abort, report>>

\* The kernel's buffer is not mapped: SAVE_STATE(TR_DACC), mutex and all.
DbDataAccEx(c) ==
  /\ pc[c] = "dbio"
  /\ code'  = [code EXCEPT ![c] = "DACC"]
  /\ image' = SavedImage(c, "DACC", "user")
  /\ Goto(c, "entry")
  /\ UNCHANGED <<mutex, in_mon, restarts, gobuf, goidx, abort, report>>

-----------------------------------------------------------------------------

\* The host (or the abort button) sets the flip-flop.
Abort ==
  /\ ~abort
  /\ abort' = TRUE
  /\ UNCHANGED <<pc, mutex, in_mon, code, image, restarts, gobuf, goidx,
                 report>>

\* Steps a CPU takes by itself, without the program or the host.
Monitor(c) ==
  \/ DebugMonEntry(c) \/ Acquire(c)  \/ talk_to_host(c)
  \/ SetInMon(c)      \/ TestInMon(c) \/ NoAbort(c) \/ ClearAbort(c)
  \/ TakeOver(c)      \/ GoClear(c)   \/ GoReturn(c)

\* What the program does to enter the monitor.
Program(c) ==
  \/ \E k \in {"INT", "BPT", "DACC"} : Exception(c, k)
  \/ DbCall(c) \/ DbAcquire(c) \/ DbDone(c) \/ DbDataAccEx(c)

\* What the host, the line and the memory it asks for do to a conversation.
Conversation(c) ==
  \/ \E S \in SUBSET CPUS : GoAck(c, S)
  \/ DataAccEx(c) \/ xrestart(c) \/ DuartReset(c)

MonNext ==
  \/ \E c \in CPUS : Monitor(c) \/ Program(c) \/ Conversation(c)
  \/ Abort

MonSpec == MonInit /\ [][MonNext]_monvars

\* A processor in the monitor keeps executing instructions.
Fairness == \A c \in CPUS : WF_monvars(Monitor(c))

MonFairSpec == MonSpec /\ Fairness

-----------------------------------------------------------------------------

MonTypeOK ==
  /\ pc       \in [CPUS -> PCs]
  /\ mutex    \in 0 .. NCPU
  /\ in_mon   \in [CPUS -> BOOLEAN]
  /\ code     \in [CPUS -> Codes]
  /\ image    \in [CPUS -> {"user", "monitor"}]
  /\ restarts \in [CPUS -> 0 .. RestartLimit + 1]
  /\ gobuf    \in [CPUS -> SUBSET CPUS]
  /\ goidx    \in [CPUS -> 0 .. NCPU]
  /\ abort    \in BOOLEAN
  /\ report   \in Reports

\* The serial line has one speaker: whatever the order in which CPUs enter
\* the monitor, take over after an abort, let others go or do console I/O,
\* no two of them are between acquire_host_comm_mutex and its release.  The
\* mutex word cannot tell who owns it (every failed xmem overwrites it), so
\* this rests on nobody but the owner storing a zero.
MutualExclusion ==
  \A c, d \in CPUS : pc[c] \in Conversing /\ pc[d] \in Conversing => c = d

\* in_monitor() on the host trusts dm_in_mon: g88 edits the saved registers
\* of a CPU whose word is IN_MON_MAGIC.  No such CPU is executing the program
\* (its registers would be live), whoever clears the word and whenever.
InMonIsInMonitor ==
  \A c \in CPUS : in_mon[c] => pc[c] \notin {"user", "dbspin", "dbio"}

\* A quiet CPU that go_cmd lets go does run again, unless it takes over the
\* conversation after an abort or the machine is reset: the clearing of its
\* word is never missed.
ReleasedRuns ==
  \A c \in CPUS : (pc[c] \in {"test", "watch"} /\ ~in_mon[c])
                    ~> pc[c] \in {"user", "takeover", "entry"}

\* wait_quietly watches for an abort that nobody clears (mon.c:725-742).  While
\* the mutex is free a quiet CPU sees to it that somebody answers, whoever
\* clears the flip-flop and enters or leaves the monitor meanwhile, unless the
\* CPU is let go itself.
AbortHeard ==
  \A c \in CPUS : (abort /\ mutex = 0 /\ pc[c] \in {"test", "watch"} /\ in_mon[c])
                    ~> (~in_mon[c] \/ \E d \in CPUS : pc[d] \in Conversing)

-----------------------------------------------------------------------------
(* What the monitor's comments promise and its code does not keep.         *)

\* xrestart counts errors to "reset the machine if it has happened more than
\* 10 times" (mon.c:165), and of an abort that nobody clears wait_quietly says
\* "If everybody else is dead, we might as well respond" (mon.c:728).  So when
\* everybody is quiet behind an error, an abort is answered or the machine has
\* been reset.  But xrestart keeps the mutex that it then waits for.
Recovers ==
  (abort /\ \E d \in CPUS : restarts[d] > 0)
    /\ (\A c \in CPUS : pc[c] \in {"test", "watch"} /\ in_mon[c])
    ~> (\A c \in CPUS : restarts[c] = 0) \/ \E c \in CPUS : pc[c] \in Conversing

\* "If the dacc happened while we were in the monitor, then don't save the
\* registers" (monlow.s:896): a save area holds the debugged program's
\* registers, never the monitor's own.  _data_acc_ex learns where it happened
\* from dm_in_mon, which the go_cmd of another CPU may have cleared.
SavedIsProgram == \A c \in CPUS : image[c] = "user"

\* in_monitor() (remote.c:613) is "true if the processor is currently in the
\* target debug monitor": a CPU that reads the host's commands is.  go_cmd
\* clears the words after it has let another CPU take the conversation over.
TalkerIsInMonitor == \A c \in CPUS : pc[c] = "loop" => in_mon[c]

\* A data access exception in the monitor "drop[s] into the main monitor
\* loop" (monlow.s:896): the CPU converses again, or the machine is reset.  It
\* still owns the mutex that it waits for at debug_mon_entry.
FaultAnswered ==
  \A c \in CPUS : (pc[c] = "entry" /\ in_mon[c] /\ code[c] = "DACC")
                    ~> (pc[c] = "loop" \/ code[c] = "RESET")

=============================================================================
