# g88 in TLA+

g88 is a cross debugger for the Motorola 88000: a descendant of GDB that talks
over a serial line to a small monitor on the target machine, or drives a
simulator linked into the debugger. These modules model the parts of it whose
correctness depends on the order in which things happen: several processors in
the monitor at once, a debugger that caches the memory of a machine it stops
and starts, single-stepping a pipelined processor that cannot single-step,
breakpoints that live in the text of the program that is being debugged, a
serial conversation that noise, time-outs and control-C may break off anywhere;
and, of the simulator, the caches of address translations, the delay slots and
exceptions of its threaded code, the turns that simulated processors take in one
set of registers under a signal handler, and the interrupt logic of the board.

Paths below are those of the repository, without the leading `src/`.

## 1. Inventory

| Component | State it keeps | Operations | Hard behaviour | What makes it correct |
|---|---|---|---|---|
| Debug monitor on the target: `hmon/mon.c`, `hmon/monlow.s` | the host communication mutex, per CPU `dm_in_mon`, `dm_exception_code`, the register save area, `dm_restart_count`; the abort flip-flop | exception entry, `talk_to_host`, `wait_quietly`, `go_cmd`, `xrestart`, `mon_dbread`, `mon_dbwrite`; the host's memory and register commands | up to four CPUs in any interleaving; take-over after an abort; faults and line errors in the middle of a conversation | one CPU speaks on the line; `dm_in_mon` tells the truth; a CPU that is let go runs; a CPU that faults in the monitor can be reached again |
| Target memory as the host sees it: `remmem.c`, `m88k-dep.c` | `mem_cache`, `target_running` | `read_inferior_memory`, `write_inferior_memory`, `remote_zeromem`, `remote_copymem`, invalidation at go and stop | writes of any alignment; transactions that fail part-way; two address spaces over the same bytes | the cache agrees with memory whenever the user can look; bytes that are not written are not changed; failure is reported |
| Run control of one processor: `remrun.c`, `infrun.c` | `delayed_p`, `delayed_ip`, the shadow registers SXIP, SNIP, SFIP | `ss_remote`, `go_remote`, `check_for_delay_slot_after_*`, `kludge_pc`, `proceed` | a delayed branch pending across commands, in two places | what the user sees is the program's own run |
| Breakpoints: `breakpoint.c`, `infrun.c` | `breakpoint_chain`, `breakpoints_inserted`, `trap_expected`, the step-resume breakpoint, the program's text | `break`, `delete`, `enable`, `disable`, `finish`; `insert_breakpoints`, `remove_breakpoints`; `wait_for_inferior`, `normal_stop` | duplicates at one address; conditions that are false; a write that fails half-way; a long jump to the prompt from anywhere | the program's text is clean at the prompt, armed while it runs, and never changed by a shadow that does not belong |
| Host protocol: `remote.c`, `remcmd.c`, `compress.h` | the compressed stream's `partial` word, checksums, `ignore_errors`, selected CPU, time-outs | `send_command`, `wait_for_token`, `wait_for_exception`, `reset_remote`, `interrupt_remote`, `handle_target_rerr` | noise, lost bytes, time-outs, an exception that overtakes a reply, interrupts by the user | both ends agree on what has been said, or both start anew |
| CMMU of the simulator: `sim/cmmu.c`, `sim/misc.c` | per CPU and side: area descriptors, BATC; in memory: segment and page tables; one for all CPUs: load and store TLBs, the ring of decoded code pages | `l_to_p`, `l_mem_op`, `l_to_d`, probes, `cmmu_operation`, selection of a CPU | caches of caches: which write flushes which copy, of whose CPU | a translation in use is one that the tables have given since the last flush; a load goes where a store goes |
| Simulator core: `sim/execute.c`, `sim/simdecode.c` | registers, shadow registers, `r_delayed_p`, `delayed_ip`, `sim_interrupt_flag`, marks in decoded instructions | one threaded-code routine per instruction, exception entry, `rte`, `interrupt_label`; `ss`, breakpoints and catches from the debugger | delay slots across pages, missing code pages, interrupts behind branches, single steps into all of that | the same instructions as the processor; a step is one step; control-C stops it |
| Processors and clock: `sim/simgdb.c`, `sim/io.c`, `sim/misc.c` | `processors`, the selected one, the interval timer, the signal queue, `mp_slice` | `sim_resume`, `sim_select_processor`, `simsighandler`, `callhandlers`, `HoldOscillator`, `ReleaseOscillator`, `pselect`, `penable`, `init` | a signal between any two steps; two records of whether it may be handled now | each processor has its own registers; each gets its turn; the clock stands at the prompt |
| Interrupt logic: `sim/mvme188.c`, `sim/duart.c` | `ien`, `ist`; the CIO's sources and its pointer state; typeahead, ISR, IMR | register reads and writes, ticks, characters from the terminal, `check_for_interrupt` | three records of one fact; a full or emptied buffer; sources in service | lines tell the truth; an enabled interrupt is noticed |
| Other devices: `sim/disk.c`, `sim/console.c`, `sim/gettime.c`, `sim/ce.c` | | transfers within the store that starts them | no interrupts; `ce.c` is not linked | |
| Pass-through console: `motomode.c` | terminal modes | cold start scripts | prompts of another program | |
| Inferior commands: `infcmd.c`, `inflow.c`, `core.c` | | arguments of `run`, `step`, `jump`, ... | | |
| Command loop, windows: `main.c`, `ui.c`, ... | | | | |
| Symbol tables: `symtab.c`, `dbxread.c`, `coffread.c` | symbol tables | reading object files | none that is concurrent | |
| Expressions, values: `expread.y`, `eval.c`, `valops.c`, ... | | | | |
| Frames, disassembly: `blockframe.c`, `m88k-pinsn.c`, `decode.c` | | | | |
| Vendored code: `readline/`, `regex.c`, `obstack.c`, `malloc.c` | | | | |

How they interact. A command of the user (`infcmd.c`) calls `proceed`, which
inserts breakpoints through `write_inferior_memory` and resumes the target with
`ss_remote` or `go_remote`. Those empty the memory cache and send C_GO, which a
CPU's `go_cmd` answers by releasing the mutex and clearing `dm_in_mon` words.
The host then waits in `wait_for_exception` until a CPU has the mutex and sends
C_EXCEPTION; `remote_wait` turns that into a signal for `wait_for_inferior`,
which decides whether to stop and report or to go on. Anything that fails calls
`rerr`, a long jump to the prompt that skips `normal_stop`.

With the simulator the same commands end in `sim_resume`, which runs `sim()` for the
selected processor. `sim()` looks at `sim_interrupt_flag` behind branches only; the
bits are set by the debugger's control-C and single step, by the signal handler
(a tick, or input at a terminal), by the end of a turn, and by
`check_for_interrupt` when the board's status and enable registers say so. Loads,
stores and fetches go through `l_mem_op` and `l_to_d`, which ask the CMMUs of the
selected CPU on a miss; stores to their registers flush those copies.

## 2. Modules

| Module | What it is |
|---|---|
| `HMon` | the monitor on `NCPU` processors |
| `MemCache` | `read_inferior_memory` and `write_inferior_memory` over the line cache |
| `MemCacheProofs` | its properties for every memory, word and line size |
| `Pipeline` | abstract: one 88100 runs a program |
| `Step` | `remrun.c` and `proceed` on that processor; shown to implement `Pipeline` |
| `StepProofs` | that refinement and its invariants for every program |
| `Breakpoints` | the breakpoint table and the program's text |
| `BreakpointsProofs` | its properties for every set of addresses and every number of breakpoints |
| `Link` | the host protocol against the monitor, over a line that fails |
| `RemoteProofs` | the two ends of that line: `HMon`'s properties for every number of processors, `Link`'s for every number of commands, faults and control-Cs |
| `Cmmu` | the CMMUs and the translations that the simulator keeps so as not to ask them |
| `CmmuProofs` | its invariants for every machine, table and program |
| `Processor` | abstract: an 88100 with exceptions, shadow registers and `rte` |
| `SimCore` | `sim()` and the debugger's commands around it; shown to implement `Processor` |
| `SimCoreProofs` | that refinement for every program |
| `MultiSim` | processors that take turns, and the clock |
| `MultiSimProofs` | its invariants for every number of processors |
| `Board` | interrupt registers, CIO and DUART, and how the processor learns of them |
| `BoardProofs` | its invariants for every number of processors, set of sources and buffer |
| `MCMemCache`, `MCStep`, `MCBreakpoints`, `MCLink`, `MCCmmu`, `MCSimCore`, `MCBoard` | values, bounds and symmetry for the runs |

### HMon

One step is one access to memory that another CPU can see. `pc[c]` is the place
in the monitor: `entry` is `debug_mon_entry`, `acquire` the `xmem` in
`debug_monitor_entry_point`, `talk` and `loop` the conversation, `goclear` the
loop of `go_cmd` after it has released the mutex, `quiet`, `test`, `watch` and
`takeover` the steps of `wait_quietly`, `dbspin` and `dbio` the kernel's console
calls. `mutex` holds what the last `xmem` left there, which need not be the
owner's name. `image[c]` says whose context the save area of `c` holds, because
`_data_acc_ex` and `_interrupt_ex` decide by `dm_in_mon` whether to save. What
the host reads and writes leaves this state alone; that it may fault, or that
the line may break, is `DataAccEx`, `xrestart` and `DuartReset`.

### MemCache

One step is one command with every transaction that it makes: the debugger has
one thread and the target is stopped. An address is a byte; a word and a line
are `WordSize` and `LineSize` of them. `cache[m][a]` is what `mem_cache` holds
for `a` in mode `m`. `done` and `stored` say how far a write got: the target has
acknowledged `done` words, and the next one, if there is one, was lost before or
after the target stored it. `junk` is what `alloca` left on the stack. A program
that runs stores anything anywhere (`TargetStore`).

### Pipeline and Step

`Pipeline` has the next instruction `nip`, the one fetched behind it `fip`, a bit
that conditional branches and traps test, and two registers to jump through;
`moved` marks a pc that the user has just changed. `Step` has the three shadow
registers, the host's own record `delayed_p`, `delayed_ip`, and the phase of the
command. `Promise` is `Pipeline` with `nip <- snip` and, for `fip`, `HostFip` (what
a step would make of `delayed_p`) while the target is stopped and SFIP once it is
about to run. `Hazards` names five circumstances in which the code loses a
delayed branch; a circumstance that is not in the set does not occur. `{}` gives
the behaviours for which the promise is kept; with any member in it `Pipelined`
fails. Section 3 says which property each of them breaks.

### Breakpoints

An address stands for the instruction that belongs there, so `text[a] = a` is
clean and `text[a] = Trap` is a breakpoint. `chain` is `breakpoint_chain`;
`momentary` stands for the number -3 that `finish` uses. `phase` is the program
counter of the host: `insert` is `proceed` in front of `insert_breakpoints`,
`stopped`, `range` and `reinsert` are `preliminary_trap_handler` with
`handle_breakpoint`, `handle_stepping`, and the end of the loop in
`wait_for_inferior`, `stop` is `normal_stop`. What the program does is open: it
may go from any instruction to any other, a breakpoint's condition may be true
or false, a stop may be inside the line that is stepped, behind it, or in a call.
Every pass over the table may fail at any breakpoint that it touches (`k`), with
the write done or not (`stored`), and then unwinds, with
`clear_momentary_breakpoints` on the way to the prompt.

### Link

Towards the target one command with its operands is a frame (`out` is
`output_buffer`, `tx` what is on the line); towards the host a token with its
operands, and a word of data, are an item each (`inbuf`, `rx`), because there the
host may stop reading between any two. Each carries the number of the command
that it belongs to, which the code does not have: `asked` and `answer` compare
what was asked with what was taken for the answer. `phase` is where the host waits:

| `phase` | Code |
|---|---|
| `reply`, `data`, `dataend`, `sum` | `forced_read_remote`: C_DATASTART, the words, C_DATAEND, the checksum |
| the same, while `interrupted` is not empty | the registers that `interrupt_remote` reads (`Examining`, request 0) |
| `ack` | `write_remote`, for C_ACK |
| `goack`, `running` | `go_remote`: for C_ACK, and in `wait_for_exception` |
| `sync`, `nmi` | `interrupt_remote`: for C_SYNC, and for the exception |
| `reset` | `reset_remote`, for TR_RESET |
| `astray` | after a long jump into a frame that is gone |

`interrupted` is the stack of `remote_request_quit`s that run, each with what it
interrupted and its `target_was_running`; `masked` is `splhi`; `attention` is
`resetting_remote` or `nmiing_remote`, which the code treats alike. `seen` is what
went into `checksum`: a sum that agrees is one over the same items, which a
damaged item never gives. `flush_tty_line` may come before some of what is on its
way has arrived, so every use of it takes a prefix of `rx`. A frame that is
damaged is an unknown command, an error that ends in `xrestart` (`deaf`: see
`hmon_recovers`), or a command that waits for more characters (`hungry`). The time-outs
are those of the SYSV build; without it the same waits end by control-C only.
`reset_remote` stands for the reset signal and for `motomode.c`'s cold-start script,
which is external here; `init` is supposed to be typed when what was on the line
has arrived.

### Cmmu

Pages are numbers; the offset in a page plays no part. `l_to_p` follows the code:
the control memory's hardwired BATCs, then the ports of the BATC in their order,
then segment and page descriptor, setting `used` and `modified` on the way. `ltlb`,
`stlb` and `deccache` belong to whoever is selected. A variable that the code does
not have, `since`, is the set of answers that the tables have given for a page
since the program (or the debugger) last did what flushes it. The properties
compare the copies with that set: a program that changes a descriptor and does not
flush is entitled to the old answer or to the new one, as on the real 88200, and to
no third.

### Processor and SimCore

`Processor` has the architecture's own state: the two addresses of the pipeline, a bit
for interrupts, the three shadow registers, a mode, and one exception or instruction
per step. `SimCore` has `r_delayed_p`, `delayed_ip`, the labels of `sim()` (`phase`), the
flags, the marks that `insert_ss_breakpoint` leaves in decoded instructions, and the
debugger's breakpoints and catches. The classes of instruction are those that
`sim()` treats differently in control: `op`, `mem` (may fault), `trap`, the branches
with and without a slot, conditional or not (`bcnd`'s outcome is open), a jump
through a register, the stores to the PSR that mask and unmask interrupts, the
handlers' stores to SNIP and SFIP that retry or drop an instruction, and `rte`.
`P == INSTANCE Processor WITH ...` maps the pending branch to the second address of the
pipeline. `slipped` is set at the first step at which the two part on purpose, and the
refinement is claimed up to there: an exception with a branch to its own page
pending (`sim_slot_fault`), E_INT raised while a branch is pending, and a branch in a
delay slot.

### MultiSim

The registers of a processor are one value, `<<owner, parity>>`: enough to see whose
they are and whether the last instruction is lost. `regs` is the working set,
`processors` the ones put away. `phase` cuts `sim()` and `sim_resume` at the places where
a tick makes a difference: `entry`, `run`, `chkint`, `return`, `hold`, `resumed`, `prompt`,
and `exited` where g88 gives up with "Case error". `mode` is how `sim_resume` was
called: `step`, `one`, `each` (turns by instructions) or `slice` (turns by ticks).
`Tick` is the SIGVTALRM handler, with its test of `sim_in_execution`. `kept` marks a
clock that was started where `sim()` does not hold it again. The two timers act on it
differently: a command to a CIO counter (`cio_write_command_reg`) starts it and
never stops it, a store to the trivial timer (`trivial_timer_operation`) holds and
releases it, or, by the user's hand, leaves it as it is. The pc is a global that
no switch saves or restores: the variable `ip` is the processor whose instruction or
user has set it last. `done[p]` is what the instructions of `p` have left; a processor
in `lost` is one that an init has not reached, of which nothing is said until it is
selected and starts from its slot (`Adopt`).

### Board

`ist` and `ien` are sets of lines, the CIO's command registers are the sets `ip`, `ie` and
`ius` of sources, the DUART's typeahead a count with its front and rear index.
`flag` is the INT_DEVICE bit. Each store to a register is an action with the calls to
`set_ist`, `clear_ist`, `check_for_cio_interrupt` and `check_for_interrupt` that the code
makes behind it; `UncheckedBy` names the places that make none (`rte`, `setswi`, the
switch to another processor), and `unchecked` remembers them. The signal handler of the
terminal is `check_tty_line`, with the read error that hides what it had stored
(`unseen`).

## 3. Runs

| Run | What it checks | Result |
|---|---|---|
| `hmon` | two CPUs, every interleaving: at most one speaker, no program runs while it is marked as in the monitor, a released CPU runs, an abort that nobody clears is answered as long as the mutex is free | holds |
| `hmon_recovers` | behind an error, when all are quiet, somebody answers an abort or the machine is reset (`hmon/mon.c:165`, `hmon/mon.c:726`) | violated |
| `memory` | the bytes behind the data of a write are the target's own, in every word but the first; only failed writes make the supervisor lines lie, and only writes the user lines | holds |
| `step` | outside the circumstances of `Hazards`: run control implements `Pipeline`; SFIP agrees with `delayed_p` when the target starts; `delayed_p` is set in a slot only, and at every stop in one | holds |
| `breakpoints` | clean text at the prompt, one first breakpoint per address, armed while running, and the only thing that damages the text | holds |
| `breakpoint_once` | of the enabled breakpoints at an address one is inserted (`breakpoint.c:668`) | violated |
| `link` | a command that ends without a message has had its own answer; nothing is left over for the next one, and the monitor listens; an interrupt jumps into a frame that is gone only behind a failed command | holds |
| `cmmu` | two CPUs, one table, remapping, flushes, loads, stores, fetches, selection, reset: every copied translation is one given since the last flush, and loads and stores agree | holds |
| `simcore` | a program with handlers under steps, continues, breakpoints, catches, interrupts, control-Cs and missing pages: it is a run of `Processor`; a step is one step; control-C stops it | holds |
| `sim_slot_fault` | a fault in a delay slot leaves the branch's target in SNIP (`sim/execute.c:1816`) | violated |
| `multisim` | two processors, each way of taking turns, ticks anywhere: own registers as far as they are switched, no clock at the prompt, every processor runs, control-C stops them | holds |
| `board` | a timer, a port and a terminal, two processors with their masks: the DUART's and the CIO's lines tell the truth, an enabled interrupt is noticed wherever the code checks | holds |

What the violations show.

* `breakpoint_once`: `breakpoint_stop_status` disables the first of two breakpoints
  at one address without calling `check_duplicates`; the other one is enabled,
  marked as a duplicate, and not inserted by the next continue.
* `hmon_recovers`: a line error in a conversation calls `xrestart`, which goes to
  `debug_mon_entry` with the mutex still taken. The CPU then tries to take a mutex
  that it owns, and waits, and so does every other that enters. From then on nobody
  converses: no further error is counted, so the count stays at one and the
  machine is never reset, and a quiet CPU that sees an abort which nobody clears
  tries to take the mutex, fails, and looks again.
* `sim_slot_fault`: `TAKE_DELAYED_BRANCH` sets `delayed_ip` from `P->dest` for every branch,
  but `decode()` leaves `dest` alone when the target is on the branch's own page and
  `s2` points to it. The slot's instruction itself goes to the right place, through
  `s2`; an exception in the slot does not: SNIP is loaded from `delayed_ip`, and `rte`
  returns to the branch. A fault that a handler is to repair (a page to fetch) runs
  the branch and its slot twice.

### Promised, and not kept

Comments of the repository promise more than the properties of the runs. Where the model
has the behaviour that breaks such a promise, the module that has it states the
promise. No run checks these definitions; each is false, and TLC shows it
when the definition takes the place of the properties in the module's
configuration, with what the last column adds.

| Promise | Module | In the code | Changed |
|---|---|---|---|
| `SavedIsProgram` | `HMon` | `hmon/monlow.s:896`: a fault in the monitor does not save its registers | |
| `TalkerIsInMonitor` | `HMon` | `remote.c:613`: the CPU that converses is in the monitor | |
| `FaultAnswered` | `HMon` | `hmon/monlow.s:896`: a CPU that faults in the monitor converses again | |
| `NamedBytesOnly` | `MemCache` | `m88k-dep.c:234`: a write changes no byte that no command names | |
| `DelayedInSlot` | `Step` | `remrun.c:255`: `delayed_p` is set in a slot only | `Hazards = {"stale"}` |
| `GoKeepsBranch` | `Step` | `remrun.c:524`: a trap that is not taken advances the pc | `Hazards = {"trap"}` |
| `GoKeepsBranch` | `Step` | `remrun.c:621`: go_remote keeps the branch that is pending | `Hazards = {"deleted"}` |
| `SlotSeen` | `Step` | `remrun.c:549`: a stop in a slot sets `delayed_p` | `Hazards = {"fault"}` |
| `Pipelined` | `Step` | `remrun.c:514`: a stepped call goes where the processor would | `Hazards = {"link"}`, a program with `jsr.n r1` |
| `CallEndIsArmed` | `Breakpoints` | `infrun.c:1058`: the program stops behind a call that is stepped over | |
| `ShadowIsOriginal` | `Breakpoints` | `infrun.c:195`: the shadow of the special breakpoint is what belongs there | |
| `InitRemovesAll` | `Breakpoints` | `remcmd.c:579`: an init leaves no breakpoint in the program | without `Wound` |
| `phase # "astray"` | `Link` | `remote.c:1259`: an interrupt that succeeds unwinds to `go_remote` | |
| `IgnoresOnlyInterrupting` | `Link` | `remote.c:48`: `ignore_errors` is set while the target is interrupted only | |
| `OwnIp` | `MultiSim` | `sim/simgdb.c:545`, `remcmd.c:828`: a processor goes on where it was | |
| `InitClearsAll` | `MultiSim` | `sim/simgdb.c:680`: an init initializes every processor | |
| `NoCaseError` | `MultiSim` | `sim/simgdb.c:674`: `sim()` returns what `sim_resume` knows | |
| `FrontEndStopsTurns` | `MultiSim` | `sim/simgdb.c:594`: control-C ends turns by instructions | |
| `NoticedAtOnce` | `Board` | `sim/mvme188.c:14`: every change that may enable an interrupt is noticed | |
| `ReadInIsReady` | `Board` | `sim/duart.c:275`: a character that has been read in is announced | |

* The monitor. `go_cmd` releases the mutex first and clears the `dm_in_mon` words after it: a CPU
  that takes the line in between converses with its own word clear, and if it faults
  then, `_data_acc_ex` saves the monitor's registers over the program's. With the
  word set the fault leads to `debug_mon_entry`, as a restart does.
* `NamedBytesOnly`: `write_inferior_memory` asks whether `addr` was aligned when it has rounded
  `addr` down, so the first word, and with it the only one of a short write, is never
  fetched; the bytes of it that are not written are sent as `alloca` left them.
* Run control: nothing
  that is compiled clears `delayed_p` when the user leaves a slot with continue; the
  SFIP that is written for a trap that is not taken is `delayed_ip + 4`; `go_remote` relies on
  a step off the breakpoint that `normal_stop` may have deleted; the long jump of a fault
  passes `check_for_delay_slot_after_breakpoint`; and a stepped `jsr.n r1` writes r1 first.
* `CallEndIsArmed`: the duplicate that `breakpoint_once` leaves behind keeps the special
  breakpoint away as well: `breakpoint_here_p` finds it enabled, so the end of the call
  has no trap at all, and the program runs past it.
* `ShadowIsOriginal`: `handle_stepping` sets the address of the special breakpoint while
  breakpoints are out; a stop before they are put back writes an old shadow over it.
* `InitRemovesAll`: a breakpoint whose store was done and not acknowledged is in the text
  without being marked as inserted; `init` takes out what is marked.
* The jump: a program runs; the user types control-C, and the exception does
  not come in time (or control-C is typed again while it is waited for); g88
  returns to the prompt with `target_running` set. The next control-C, at the
  prompt, interrupts the target, this time with success, and
  `remote_request_quit` jumps to `controlc_env`, whose `setjmp` was called by a
  `go_remote` that has been unwound. `JumpsIntoGoRemote`, which the run checks, is
  that nothing else leads there.
* `IgnoresOnlyInterrupting`: `ignore_errors` is cleared behind the wait for the exception and not on
  the way out by `rerr`; a read that meets a stray token then returns zero, silently.
* Processors and clock: `ip` is a
  global that `read_regs` and `set_regs` leave alone, although the end of `dl` stores
  the entry point once for each processor; `do_sim_reset` does not call
  `multiprocessor_initialization`; a pending INT_MPSWITCH is a "case error" for a
  `sim_resume` with one enabled processor; and in turns by instructions the single
  step's flag is always looked at in front of a control-C.
* The board: `rte`, `setswi` and a switch of processors do not call
  `check_for_interrupt`; and `check_tty_line` returns from a read error before it tells
  the program of what it has read.

### Properties that are weaker than one would like, and why

* `OnlyFailedWritesMislead`, `OnlyWritesMisleadUsers`: the cache is not coherent.
  `write_thru_mem_cache` runs before the transaction, and only on the lines of the
  mode that is written. The properties say that nothing else breaks it.
* `OnlyPhantomsDamage`: `normal_stop` and `init` take out the step-resume breakpoint
  whether or not it was put in, and then write an old shadow over the program. The
  property says that nothing else changes what lies beneath the breakpoints.
* `OneFirst` leaves room for an address where no enabled breakpoint is first, and
  only beside a disabled one: that is what `breakpoint_once` is about. `Armed` excepts
  the end of a call at such an address (`Orphaned`): see `CallEndIsArmed`.
* `CleanPrompt`, `Armed` and `OnlyPhantomsDamage` end where `rerr` unwinds a command;
  what `init` then leaves is the subject of `InitRemovesAll`.
* `TailKept` says nothing of the first word, and so nothing of a write that fits in
  one: of that word nothing is fetched (`NamedBytesOnly`).
* `Recovers` is violated; what does hold of a take-over is `AbortHeard`: while the mutex is free,
  a quiet CPU sees to it that somebody answers an abort.
* `GoKeepsBranch`, `DelayedTrue` (that is `DelayedInSlot` and `SlotSeen`) and `Pipelined` are promises outside the
  circumstances in `Hazards`; the run `step` has none of them.
* `OwnRegisters` speaks of the registers that are switched: not of `ip` (`OwnIp`), and
  not of a processor that an init has passed over, until its next turn (`InitClearsAll`).
* `Trusted` and `QuietPrompt` say nothing between an error message (or a control-C
  that gives up) and the next `init` that succeeds: stale replies, `ignore_errors`
  and `target_running` may then be left over, and a read may return zero as if it
  had worked. What they claim is that a message comes first, and that `init` makes
  up for all of it. `trying_to_sync`, which `init_globals` cannot reach, may survive
  even that; it only makes the next control-C skip its C_SYNC. What `ignore_errors`
  was meant to be is `IgnoresOnlyInterrupting`.
* `Implements` of `SimCore` ends at the first slip, see above.
* `ClockStands` excepts `kept`: a timer that is started by a stepped instruction, by one
  that runs after an exception left by a stopped step, or by the user's hand, ticks on.
* `EveryCpuRuns` excepts a turn that starts with an exception (it runs without the
  clock and does not end), and the end of g88: an INT_MPSWITCH that is left over when
  the simulator stops makes `sim_resume` give up once `pdisable` has left one processor
  (`NoCaseError`).
* `FrontEndStops` excepts turns by instructions: the single step's flag is looked at
  first, every time, so a control-C is never seen (`FrontEndStopsTurns`).
* `DuartTrue` says nothing of characters that a read error has hidden (`ReadInIsReady`); and port B's
  receiver stays enabled, because `reset_recv` indexes `enables` by 8 (out of bounds).
* `CioReady` leaves the line up while a source is in service, as the code does.
* `Noticed` excepts what `UncheckedBy` marks (`NoticedAtOnce`). The converse does not hold: an interrupt
  that `sim()` takes at its entry leaves the flag (`sim/execute.c:327`), and `init` does not
  clear it, so a spurious interrupt may follow.

## 4. Bounds

* `HMon`: two CPUs. Every race in the code is between a CPU that owns or releases the mutex and one that is
  about to take it; a third adds no new kind of step, and the safety properties
  are proved for any number. No counter needs a bound: the code resets
  the machine when `restarts` passes its limit, and the first restart keeps the mutex.
* `MemCache`: eight addresses, words of two bytes, lines of two words, two byte
  values, so that there are a line that exists and a line that faults, words that
  begin and end inside a range, and ranges (`MCRanges`): a byte inside a word, a whole
  word, two bytes across words, three bytes into the line that is absent; none of
  them names the first byte. In `MCUserMap` the two
  spaces show the same bytes at the same addresses. `BigEndianHost` is TRUE: the
  hosts that the Makefile was written for (-DBYTES_BIG_ENDIAN); FALSE is that of
  Makefile.linux, where a word is written to a cached line in the wrong
  byte order (`remmem.c:598`).
* `Step`: one program of fourteen instructions with every class `ss_remote` tells
  apart (`MCProgram`), breakpoints at a slot, at a call that has a slot, and
  at a trap in a slot. The
  proofs are for every program without a branch in a delay slot, whose meaning the
  processor does not define.
* `Breakpoints`: two addresses and two breakpoints (`MaxBreakpoints`), which may be at
  one address or at two; the step-resume breakpoint comes on top. Two of a kind
  are enough for a first and a duplicate, a pass that fails between them, and a
  momentary breakpoint beside a user's. The addresses are symmetric: nothing
  orders them. The constraint `Wound` stops the exploration where a command has
  been unwound by `rerr`; every property but `TypeOK` and `OneFirst` is a promise
  about what happens before that. `breakpoint_once` uses neither.
* `Link`: two commands, one fault of the line, two control-Cs that are being
  handled at once. Two commands give a stale reply and the command that may take
  it; a third gives another stale reply of the same kind. A reset, a control-C at the
  wait for its exception, and a time-out may be repeated without bound.
  The constraint `ShortLine` allows two frames and five items on the way, which is
  more than one whole reply; `OnTrack` ends a behaviour where the stack is lost,
  a state that `JumpsIntoGoRemote` still sees.
* `Cmmu`: two symmetric CPUs, four pages of which one is control memory, blocks and
  segments of two pages, one port, one table, one decoded code page in each mode, two
  changes of mappings (`MaxEdits`). A stale copy takes one change, and a change that
  hides it a second. The ring is not overwritten in this instance: a second code page
  is more than the run has time for, and that `CodePromised` survives the overwriting is
  shown by the proof alone, which is for every ring and every set of pages.
  The program uses one data page in both modes and one code page in user mode
  (`Touched`), which is enough for a block or a segment that changes under a copy.
* `SimCore`: a program of seventeen words on pages of four (`MCProg`): branches with a
  slot within a page, across pages and through a register, with loads and traps in
  their slots, pages that are taken out under the program and under the handler
  of E_ERR, and handlers that retry, drop, or fault themselves; three kinds of caught
  exceptions, one breakpoint, two single steps, which meet every phase of `sim()`.
* `MultiSim`: two processors, slices of 0 and 2, one start of the clock by a store
  and one init (`MaxUses`). With a slice of 2 a turn has a tick that does not end it and one that
  does; 0 stands for `$simtick = 0` too. A third processor adds longer rotations only;
  the safety properties are proved for any number.
* `Board`: two processors, one software interrupt, a timer and a port of the CIO, one
  port of the DUART, a typeahead of two, an interrupt mask that has everything or
  nothing. The constraint `MCBound` lets the DUART only transmit while the CIO is out of
  reset: the two meet in `ist` alone, and the proofs do without it.

## 5. Fairness

`ReleasedRuns` assumes `WF_vars(Monitor(c))` for every CPU: a processor that is in the monitor keeps
executing instructions, as processors do. Nothing is assumed of the host, the
serial line, the debugged program, or the winner of a race for the mutex: these
are not fair, and a spinning `mon_dbread` may wait for ever.

`Stops` assumes `WF_vars(Simulator)`: `sim()` goes on, being a loop of g88's only
thread. The user, the devices and the outcome of branches are not fair. It is a
property of programs whose handlers reach a branch, as the one of the run does: a
handler of E_ERR that faults itself would loop without ever passing CHKINT.

`EveryCpuRuns` and `FrontEndStops` assume that the simulator's steps go on, that the
simulated program comes to a branch again and again (`WF_vars(Branch)`: there is no
other place where flags are looked at), and that the clock ticks while it runs
(`WF_vars(Tick)`). The last is an interval timer; it also supposes that the ticks
are far enough apart that `interrupt_label` finds no signal pending between some two of
them.

`AbortHeard` and the violated `Recovers` assume what `ReleasedRuns` does: that processors in the
monitor go on. `Recovers` fails in spite of it: its counterexample ends in a loop in
which every CPU goes on looking at the flip-flop and failing to take the mutex.

Deadlock is checked in every run but `step` (CHECK_DEADLOCK FALSE), where the trap at address 8 may be
taken: the program then leaves the addresses that are modelled, and the model stops.

## 6. Proofs

`RemoteProofs`, of `HMon`, from `NCPU \in Nat \ {0}` alone. The inductive invariant `MonInv` adds to
the checked properties `OwnerKeepsMutex`: nobody converses while the mutex is
zero. The converse fails (`hmon_recovers`). Mutual exclusion follows because
a CPU gets in only where the mutex is zero, and only a CPU that converses stores
a zero. Theorems: `MonTypeCorrect`, `OneSpeaker`, `InMonTrusted`.

`RemoteProofs`, of `Link`, from `LinkAssumption` (the three bounds are naturals). `Trusted` and
`QuietPrompt` speak of the prompt only; `IInv` says at every place where the host waits what may
still come towards it (`Inflow`: the input buffer and the line), what may still
go towards the target (`Outflow`), and what the target does. Those are the wires: `ReadWire`,
`WriteWire`, `GoWire` and `RunWire` (items of the command asked and debris only,
the last of them only once nothing goes out and the monitor listens), `ResetWire`, `SyncWire`,
`ExamineWire`, and `NoGo` or `MayGo` beneath nested control-Cs (the target
runs, or has stopped, only if the command that was interrupted first, `Base`, was
C_GO). `Situation` gives each phase its wire and the host's flags; it
holds as long as no error message has intervened (`Good`), or behind a reset. `Stacked` says
what can be interrupted by what, `Anonymous` that what belongs to no command carries no
number. The argument has three parts. What the line does: `Thinned` (items are lost or turn into noise,
the order stays) is transitive and survives concatenation, and every wire survives
it, so no fault, flush or read of the host needs more than that. What the target does: each of
its answers keeps every wire (`TargetKeeps`). What the host does: one lemma for each way to read, to
send and to give up. A damaged reply is the hard case: `AtRead` keeps
`Spoilt`, that the checksum cannot agree, beside `answer = asked`. `IInv` was checked with TLC on the run's
instance first. Theorems: `TypeCorrect`, `AnswersTrusted`, `PromptIsQuiet`.
They need no bound, so `MaxNested`, `MaxFaults` and `MaxRequests` may be any.
Both halves are in one module because each names its operators apart (`MonInit`,
`MonNext`, `MonSpec` are the monitor's).

`StepProofs`, from `StepAssumption` (the program is well-formed), and each theorem under
the circumstances that it can stand. Two invariants do it. `SlotInv`: `SlotKnown` (while
the target does not run, `delayed_p` is set in a slot or for a branch to the next
instruction) and `PendingInSlot` (SFIP strays from SNIP in a slot only). `IInv`:
`RecordsAgree` (SFIP agrees with `delayed_p` wherever `go_remote` may be next; the two may
disagree in one place only, stopped at a breakpoint in a delay slot, where
`kludge_pc` has overwritten SFIP). Theorems:

| Theorem | Says | Under |
|---|---|---|
| `TypeCorrect` | `TypeOK` | any `Hazards` |
| `SlotTruth` | `DelayedInSlot` | none of `"stale"`, `"trap"`, `"fault"` |
| `GoSafe` | `GoKeepsBranch` | none but `"link"` |
| `SlotsSeen`, `DelayedBelieved` | `SlotSeen`, and with `DelayedInSlot` `DelayedTrue` | none but `"link"` |
| `Implements` | every step of `Step` is a step of `Pipeline` or a stutter | none |

So a program without the five circumstances is run as the bare processor runs it. With
one of them the code may lose a branch (section 3).

`CmmuProofs`, from `CmmuAssumption` and
`BatcInRange`. The five properties are inductive together. The lemmas follow
`l_to_p`: what it answers is recorded in `since` by the same step, a flush that empties
an entry of `since` empties the copies, and the descriptors it writes differ in `used`
and `modified` only. Theorems: `TypeCorrect`, `LoadsTrue`, `StoresTrue`, `StoresReadBack`,
`CodeTrue`.

`SimCoreProofs`, from `SimAssumption` (a branch with a slot to its own page is not the
page's last word, which `decode()` relies on too, and there is more than one address). `IInv` adds to `TypeOK`: `Known` (where
`sim()` is says whether an exception is being raised), `Masked` (with shadowing frozen
interrupts are masked; E_INT is raised unmasked, E_ERR frozen), `Kept` (at the prompt
the two records of the pending branch agree), and `Straight` (an exception that has
been raised has a branch to its own page pending, or E_INT any branch, only behind a
slip). Theorems: `TypeCorrect`; `Refines`: every step is a step of `Processor` or a
stutter; and `StepsOnce` (`NoneIsOneStep`), from an invariant of its own, `Stepping`: it
says where a single step is. Before its instruction (`Poised`) the next word is marked,
or its page is absent, `INT_SINGLESTEP` is up, and there is no mark at `ip`; behind it `sim()` is at
the mark or at CHKINT; an exception ends it. What handlers do with pages while the step
is under way cannot matter, because the step ends when the handler is entered.

`MultiSimProofs`, from `MultiAssumption`. `IInv` adds `Sliced` (while the
processors run in slices there is a tick to wait for) and `Held` (a clock that
somebody will hold runs inside `sim()` only, with `single_step_command` off). `Turns`
lists what any step does to the registers, of which `OwnRegisters` follows; `StartsKeep`,
`CioKeeps` and `TrivialKeeps` are the two timers' effects on the clock. Nothing is claimed of
`ip`. Theorems: `TypeCorrect`, `RegistersKept`, `ClockHeld`.

`BoardProofs`, from `BoardAssumption`. `IInv` is the types with `Between` (the rear index is
the front plus the count), `Announced` (a port that has characters and may receive
says so, and the ISR with it), the DUART's line, `CioReady` and `Noticed`. Theorems: `TypeCorrect`, `DuartAgrees`,
`CioAgrees`, `InterruptNoticed`; none of them needs `MCBound`.

`BreakpointsProofs`, from `BreakpointsAssumption` (the names of addresses and
contents differ). `CleanPrompt`, `Armed` and `OnlyPhantomsDamage` are not inductive: they
say what the text is at some places, and need to know of every place how text, table
and flags agree. `IInv` is `TypeOK`, `Marked` (`OneFirst` for any chain, without cardinalities),
and, until rerr ends a command, `Orderly`: `Out` (with `breakpoints_inserted` clear the text is the
program and no breakpoint claims to be in it), `In` (with it set, every enabled first
breakpoint is in, once, with a shadow that is not a trap; each trap in the text is a
breakpoint's or the special one's), `Apart` (the step-resume breakpoint never shares an
address with an enabled one of the table while a command runs, and is kept out only
where there is one), and `Phased` (which of these
holds in which phase). There is one lemma for each action; each proves the
invariant for the next state and, since the same case analysis gives it,
what the step does to the text beneath the breakpoints. The passes over the table are proved
for any length and for any breakpoint at which they fail: `InsertedIs`, `RemovedIs`,
`ClearedIs`, `DeletedIs`, and `Checked` for `check_duplicates`. Theorems: `Inductive`,
`TypeCorrect`, `OneIsFirst`, `PromptIsClean`, `RunsArmed`, `ShadowsReturn`.

`MemCacheProofs`, from `MemAssumption` (lines are whole words, the memory is whole
lines, a range ends in memory). `IInv` is `TypeOK` with `EmptyWhileRunning` (nothing is
cached while the program runs), which is why the program's own stores cannot make the
cache lie. The lemmas are on `Filled`, `WriteThru`, `Stored` and `Prefilled`: what a fill takes in agrees
with memory, and what is written through to a line that is cached is what the target
stores, if it stores it. Theorems: `TypeCorrect`; `FailedWritesMislead`, under the hypothesis
`BigEndianHost` (on a little-endian host the property is false: `remmem.c:598`);
`WritesMisleadUsers` and `TailIsKept` on any host and for every range: behind the data
of a write, the words after the first are prefilled from the target.

Induction. The provers cannot instantiate a theorem that takes a predicate as
a parameter, but the least element of a set of naturals can be had without one, from
the library's `WFMin` on the order of the naturals. `Least` in `BreakpointsProofs` (the first
breakpoint at an address that is enabled, the first that fails) and `PortOrder` in
`CmmuProofs` (the first port that hits) are proved so. `MovedFrom` in `MemCache` says in closed form which
byte an overlapping move leaves at an address; that the monitor's byte-by-byte loop
does the same is checked, for every pair of blocks of the instance, by an assumption in
`MCMemCache`.

Only model-checked, besides the runs that are violated: the liveness properties `ReleasedRuns`, `AbortHeard`, `Stops`, `EveryCpuRuns` and
`FrontEndStops` (liveness under fairness is out of the proof system's reach).

## 7. What is not modelled

Of the modelled parts: the simulator's branches of `remrun.c` and `remmem.c`;
stepping in user mode, which `ss_remote` refuses; a C_ACK that is lost in
`ss_remote`; conditions, ignore counts and command lists of breakpoints, beyond
their outcome; `dwrite_remote`, which is not compiled; calls of program functions
from the debugger. Of the protocol: the packing of the stream into words (`get_byte`,
`compress.h`), the kernel's console calls (C_DBREAD, C_DBWRITE), the block commands
of the down-loader, `attach`, pass-through mode, and the wait of `ss_remote`. The
several registers that an interrupt reads are one request. The instruction set is reduced to the classes that
`ss_remote` tells apart. What holds in `Breakpoints` after a command has been unwound by `rerr` is stated for
`init` only (`InitRemovesAll`, which fails).

Of the simulator. `Cmmu`: fault codes, status and domain registers, the cache's data and
tag registers and its flush commands, double-word stores to the BATC, CMMUs with more
than one per side, the contents of decoded instructions, the board's bus addresses.
`SimCore`: what instructions compute, user mode, the scoreboard, the exception bits of
SNIP and SFIP, tracing, `$membrk`, stores to other control registers, and the user's
writes to the pc (`sim/simgdb.c:116` leaves `delayed_p` as it was). `MultiSim`:
`sim_exception`, which is not switched with the registers either (`sim/simgdb.c:548`), the
end of `dl`, which sets the pc for each processor in turn (`remcmd.c:829`; `setreg_sim`
is what one of its stores does), interrupts of devices, `showswitch`. `Board`: local
loop and FIFO-full mode, baud rates and terminal set-up, `clrint` and `istate` (which the
code leaves unimplemented), INT_RESET, the counts of the CIO's timers, restoring a saved
simulator. The masks of processors that are not selected are open behind an init.

Not modelled at all, or not yet: the components of the inventory without a
module. The symbol tables, the expression language, frames and disassembly are
sequential functions of large inputs; the command loop and the windows are
input and output; `motomode.c` is driven by the prompts of another program; the
arithmetic of the simulated processor is out of reach of a model checker; the
vendored libraries are other people's.

## 8. Plan

Done: `HMon`, `MemCache`, `Pipeline` and `Step`, `Breakpoints`, `Link`, `Cmmu`,
`Processor` and `SimCore`, `MultiSim`, `Board`, and the proofs above.

Next, in this order:

1. `Link`: C_DBREAD and C_DBWRITE with the kernel's calls, the word codec and the
   `partial` word that errors leave behind, and what is true between an error
   message and the next `init`.
2. `Breakpoints` behind an unwound command: what `init` and `load` restore
   (`remcmd.c:579`), and what `breakpoints_inserted` promises.
3. Compositions: run control with the monitor on two CPUs (whose lines are cached
   while another runs, the order of SIGINT and SIGTRAP in `remote_wait`); `SimCore`
   with `Board` (an interrupt from the register to the handler and back by `rte`).
