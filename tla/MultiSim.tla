------------------------------ MODULE MultiSim ------------------------------
(***************************************************************************)
(* The simulated processors take turns in one set of working registers     *)
(* (sim/simgdb.c), at the ticks of a clock whose signal handler runs       *)
(* between any two steps of the simulator (sim/io.c, sim/misc.c).          *)
(*                                                                         *)
(* sim() is seen here from its entry and its exits: phase is "entry",      *)
(* "run" between instructions, "chkint" at interrupt_label, "return" at    *)
(* return_with_exception, "hold" in front of HoldOscillator, "resumed"     *)
(* back in sim_resume; "prompt", and "exited" when g88 has given up.       *)
(*                                                                         *)
(* The contents of registers are <<p, n>>: what processor p has made of    *)
(* them; an instruction changes them.  The pc of the working registers,    *)
(* ip, and sim_exception are not among the registers that are switched: ip *)
(* is given by the processor whose instruction, or whose user, set it.     *)
(***************************************************************************)
EXTENDS Naturals

CONSTANTS
  MAX_PROCESSORS,
  Slices,     \* values of $simslice; 0 also stands for $simtick = 0
  MaxUses     \* bound: starts of the clock by a store, and init commands

CPU  == 0 .. MAX_PROCESSORS - 1
Zero == <<0, 0>>
Contents == {Zero} \cup (CPU \X {1, 2})

ASSUME MultiAssumption ==
  MAX_PROCESSORS \in Nat \ {0} /\ Slices \subseteq Nat /\ MaxUses \in Nat

Flag  == {"INT_SINGLESTEP", "INT_SIGNAL", "INT_FRONT_END", "INT_MPSWITCH"}
Cause == {"NONE", "BREAKPOINT", "INTERRUPT", "CAUGHT_EXCEPTION", "MPSWITCH"}

VARIABLES
  phase,
  selected, enabled,   \* selected_processor, cpu_enabled
  regs, processors,    \* the working registers, and each processor's slot
  ip,        \* the processor that has set the global ip
  mode,      \* how sim_resume runs: "step", "one", "each", "slice"; "none"
  slice, mp_slice,   \* $simslice and mp_slice of a run in slices, else 0
  waiting,
  flags,     \* sim_interrupt_flag
  cause,
  pending,   \* sim_exception is set: a caught exception has not been taken
  ssc,       \* single_step_command
  osc,       \* the interval timer runs
  timer_on,
  cnt,       \* sigtab[SIGVTALRM].cnt
  ticked,    \* a tick has come since CHKINT last found no signal
  uses,
  done,      \* history: what each processor has made of its registers
  lost,      \* history: processors not selected since an init
  kept       \* history: the clock was started with nobody to hold it

turn   == <<selected, regs, ip, processors, done, lost>>
clock  == <<mp_slice, waiting, osc, timer_on, cnt, ticked, uses, kept>>
vars   == <<phase, enabled, mode, slice, flags, cause, pending, ssc, turn,
            clock>>

ss == mode \in {"step", "each"}

(***************************************************************************)
(* Processor switching                                                     *)
(***************************************************************************)
\* After an init a processor starts from whatever its slot holds.
Adopt(p) ==
  /\ done' = IF p \in lost THEN [done EXCEPT ![p] = processors'[p]] ELSE done
  /\ lost' = lost \ {p}

sim_select_processor_keeps_slot(p) ==
  /\ selected' = p /\ processors' = processors /\ regs' = processors'[p]
  /\ Adopt(p) /\ UNCHANGED ip

\* read_regs, and set_regs; neither copies ip.
sim_select_processor(p) ==
  /\ processors' = [processors EXCEPT ![selected] = regs]
  /\ selected' = p
  /\ regs' = processors'[p]
  /\ Adopt(p) /\ UNCHANGED ip

select_next_processor_stays == sim_select_processor(selected)

Distance(p) == (p + MAX_PROCESSORS - selected - 1) % MAX_PROCESSORS

select_next_processor ==
  \E p \in enabled :
    /\ \A q \in enabled : Distance(p) <= Distance(q)
    /\ sim_select_processor(p)

Worked(r) == IF r = Zero THEN <<selected, 1>> ELSE <<r[1], 3 - r[2]>>

\* The selected processor executes an instruction or takes an exception.
Works ==
  /\ regs' = Worked(regs) /\ ip' = selected
  /\ done' = [done EXCEPT ![selected] = Worked(@)]
  /\ UNCHANGED <<selected, processors, lost>>

(***************************************************************************)
(* The clock                                                               *)
(***************************************************************************)
Oscillator_runs_down(n, set) ==
  IF waiting /\ n > 0
    THEN /\ mp_slice' = mp_slice - 1
         /\ flags' = IF mp_slice = 1 THEN set \cup {"INT_MPSWITCH"} ELSE set
    ELSE flags' = set /\ UNCHANGED mp_slice

\* Oscillator, called n times: multiprocessor_switch.  set is the rest of
\* the flags.
Oscillator(n, set) ==
  IF waiting /\ n > 0
    THEN IF mp_slice = 1 THEN mp_slice' = slice
                              /\ flags' = set \cup {"INT_MPSWITCH"}
                         ELSE mp_slice' = mp_slice - 1 /\ flags' = set
    ELSE flags' = set /\ UNCHANGED mp_slice

callhandlers(set) == Oscillator(cnt, set) /\ cnt' = 0

\* The timer is on, or a switch is waited for: the clock starts anew, and
\* simsignal forgets a tick that has not been handled.  free: nobody will
\* hold the clock when sim() ends.
ReleaseOscillator(on, free) ==
  IF on \/ waiting THEN osc' = TRUE /\ cnt' = 0 /\ kept' = free
                   ELSE UNCHANGED <<osc, cnt, kept>>

HoldOscillator_when_run_ends ==
  IF ssc \/ cause = "CAUGHT_EXCEPTION" THEN UNCHANGED <<osc, kept>>
                                       ELSE osc' = FALSE /\ kept' = FALSE

\* The end of sim(): the clock is held unless it has not been released.
HoldOscillator ==
  IF ssc THEN UNCHANGED <<osc, kept>> ELSE osc' = FALSE /\ kept' = FALSE

\* simsighandler.  In sim() the tick is recorded, outside Oscillator is
\* called at once; sim_in_execution changes in "hold".  Ticks are so far
\* apart that CHKINT finds no signal in between.
Tick ==
  /\ osc /\ ~ticked /\ ticked' = TRUE
  /\ \/ /\ phase \in {"run", "chkint", "return", "hold"}
        /\ cnt' = 1 /\ flags' = flags \cup {"INT_SIGNAL"}
        /\ UNCHANGED mp_slice
     \/ /\ phase \in {"hold", "resumed", "entry"}
        /\ Oscillator(1, flags) /\ UNCHANGED cnt
  /\ UNCHANGED <<phase, enabled, mode, slice, cause, pending, ssc, turn, waiting,
                 osc, timer_on, uses, kept>>

\* A start of the clock by a store.
Starts ==
  /\ uses < MaxUses /\ uses' = uses + 1
  /\ ReleaseOscillator(TRUE, ssc \/ phase = "prompt")

\* The CIO's timer command: it starts the clock if the timer was off, and
\* lets the clock run on if it goes off.
cio_write_command_reg(on) ==
  /\ timer_on' = on
  /\ IF on /\ ~timer_on THEN Starts ELSE UNCHANGED <<osc, cnt, kept, uses>>

\* The trivial timer, which has the CIO timer's variable: any access by the
\* program stops the clock and releases it.
trivial_timer_operation(on) ==
  /\ timer_on' = on
  /\ IF on \/ waiting THEN Starts
                     ELSE /\ osc' = FALSE /\ kept' = FALSE
                          /\ UNCHANGED <<cnt, uses>>

(***************************************************************************)
(* sim()                                                                   *)
(***************************************************************************)
\* The entry: with a single step breakpoint, and the clock unless it is a
\* single step.
Enter ==
  /\ phase = "entry" /\ ~pending /\ phase' = "run"
  /\ cause' = "NONE" /\ ssc' = ss
  /\ flags' = IF ss THEN flags \cup {"INT_SINGLESTEP"} ELSE flags
  /\ IF ss THEN UNCHANGED <<osc, cnt, kept>>
           ELSE ReleaseOscillator(timer_on, FALSE)
  /\ UNCHANGED <<enabled, mode, slice, pending, turn, mp_slice, waiting,
                 timer_on, ticked, uses>>

\* The entry with an exception left by the last stop, or on a page that is
\* not mapped: the exception comes before the clock and the step
\* breakpoint are seen to.
EnterException ==
  /\ phase = "entry" /\ pending' = FALSE
  /\ cause' = "NONE" /\ phase' = IF ss THEN "return" ELSE "run"
  /\ Works
  /\ UNCHANGED <<enabled, mode, slice, flags, ssc, clock>>

\* An instruction that is not a branch, or an exception that is not caught.
Ordinary ==
  /\ phase = "run" /\ phase' = IF ss THEN "return" ELSE "run"
  /\ flags' = IF ss THEN flags \ {"INT_SINGLESTEP"} ELSE flags
  /\ Works
  /\ UNCHANGED <<enabled, mode, slice, cause, pending, ssc, clock>>

\* A store to the CIO's or an access to the trivial timer's register.
StoreTimer ==
  /\ phase = "run" /\ phase' = IF ss THEN "return" ELSE "run"
  /\ flags' = IF ss THEN flags \ {"INT_SINGLESTEP"} ELSE flags
  /\ Works
  /\ \E on \in BOOLEAN :
       cio_write_command_reg(on) \/ trivial_timer_operation(on)
  /\ UNCHANGED <<enabled, mode, slice, cause, pending, ssc, mp_slice, waiting, ticked>>

\* A branch: CHKINT.
Branch ==
  /\ phase = "run"
  /\ phase' = IF flags = {} THEN "run" ELSE "chkint"
  /\ ticked' = (ticked /\ "INT_SIGNAL" \in flags)
  /\ Works
  /\ UNCHANGED <<enabled, mode, slice, flags, cause, pending, ssc, mp_slice,
                 waiting, osc, timer_on, cnt, uses, kept>>

\* A breakpoint; a hosed processor stops in the same way.
Breakpoint ==
  /\ phase = "run" /\ phase' = "return" /\ cause' = "BREAKPOINT"
  /\ flags' = IF ss THEN flags \ {"INT_SINGLESTEP"} ELSE flags
  /\ UNCHANGED <<enabled, mode, slice, pending, ssc, turn, clock>>

\* An exception that the user has caught; the flags are left alone.
Catch ==
  /\ \/ phase = "run"
     \/ phase = "entry"
  /\ phase' = "return" /\ cause' = "CAUGHT_EXCEPTION" /\ pending' = TRUE
  /\ UNCHANGED <<enabled, mode, slice, flags, ssc, turn, clock>>

\* interrupt_label: the first flag of this order.
SingleStep ==
  /\ phase = "chkint" /\ "INT_SINGLESTEP" \in flags
  /\ flags' = flags \ {"INT_SINGLESTEP"}
  /\ phase' = IF ss THEN "return" ELSE "run"
  /\ UNCHANGED <<enabled, mode, slice, cause, pending, ssc, turn, clock>>

Signal_forgets_others ==
  /\ phase = "chkint" /\ flags \cap {"INT_SINGLESTEP", "INT_SIGNAL"} = {"INT_SIGNAL"}
  /\ callhandlers({})
  /\ phase' = IF flags' = {} THEN "run" ELSE "chkint"
  /\ UNCHANGED <<enabled, mode, slice, cause, pending, ssc, turn, waiting, osc,
                 timer_on, ticked, uses, kept>>

Signal ==
  /\ phase = "chkint" /\ flags \cap {"INT_SINGLESTEP", "INT_SIGNAL"} = {"INT_SIGNAL"}
  /\ callhandlers(flags \ {"INT_SIGNAL"})
  /\ phase' = IF flags' = {} THEN "run" ELSE "chkint"
  /\ UNCHANGED <<enabled, mode, slice, cause, pending, ssc, turn, waiting, osc,
                 timer_on, ticked, uses, kept>>

FrontEnd ==
  /\ phase = "chkint" /\ flags \cap {"INT_SINGLESTEP", "INT_SIGNAL"} = {}
  /\ "INT_FRONT_END" \in flags /\ flags' = flags \ {"INT_FRONT_END"}
  /\ phase' = "return" /\ cause' = "INTERRUPT"
  /\ UNCHANGED <<enabled, mode, slice, pending, ssc, turn, clock>>

MpSwitch ==
  /\ phase = "chkint" /\ flags = {"INT_MPSWITCH"} /\ flags' = {}
  /\ phase' = "return" /\ cause' = "MPSWITCH"
  /\ UNCHANGED <<enabled, mode, slice, pending, ssc, turn, clock>>

\* return_with_exception.
Return ==
  /\ phase = "return" /\ phase' = "hold"
  /\ callhandlers(flags)
  /\ UNCHANGED <<enabled, mode, slice, cause, pending, ssc, turn, waiting, osc,
                 timer_on, ticked, uses, kept>>

Hold ==
  /\ phase = "hold" /\ phase' = "resumed"
  /\ HoldOscillator
  /\ UNCHANGED <<enabled, mode, slice, flags, cause, pending, ssc, turn,
                 mp_slice, waiting, timer_on, cnt, ticked, uses>>

(***************************************************************************)
(* sim_resume                                                              *)
(***************************************************************************)
\* A step, or a continue with $simslice = s.
sim_resume(step, s) ==
  /\ phase = "prompt" /\ selected \in enabled
  /\ mode' = IF step THEN "step"
             ELSE IF enabled = {selected} THEN "one"
             ELSE IF s = 0 THEN "each" ELSE "slice"
  /\ flags' = flags \ {"INT_FRONT_END"} /\ phase' = "entry"
  /\ waiting' = (mode' = "slice")
  /\ slice' = (IF mode' = "slice" THEN s ELSE 0) /\ mp_slice' = slice'
  /\ UNCHANGED <<enabled, cause, pending, ssc, turn, osc, timer_on, cnt, ticked,
                 uses, kept>>

\* sim_resume when the selected processor is not enabled.
sim_resume_refused ==
  /\ phase = "prompt" /\ selected \notin enabled
  /\ flags' = flags \ {"INT_FRONT_END"}
  /\ UNCHANGED <<phase, enabled, mode, slice, cause, pending, ssc, turn, clock>>

Switch ==
  /\ phase = "resumed"
  /\ \/ mode = "each" /\ cause = "NONE"
     \/ mode = "slice" /\ cause = "MPSWITCH"
  /\ select_next_processor /\ phase' = "entry"
  /\ UNCHANGED <<enabled, mode, slice, flags, cause, pending, ssc, clock>>

\* sim_resume returns, or does not know the cause and calls err().
Stop ==
  /\ phase = "resumed"
  /\ mode = "each" => cause # "NONE"
  /\ mode = "slice" => cause # "MPSWITCH"
  /\ waiting' = FALSE /\ mode' = "none" /\ cause' = "NONE"
  /\ slice' = 0 /\ mp_slice' = 0 /\ ticked' = FALSE
  /\ phase' = IF cause = "MPSWITCH" THEN "exited" ELSE "prompt"
  /\ UNCHANGED <<enabled, flags, pending, ssc, turn, osc, timer_on, cnt, uses,
                 kept>>

(***************************************************************************)
(* The user                                                                *)
(***************************************************************************)
pselect(p) ==
  /\ phase = "prompt" /\ sim_select_processor(p)
  /\ UNCHANGED <<phase, enabled, mode, slice, flags, cause, pending, ssc, clock>>

\* penable and pdisable.
penable(set) ==
  /\ phase = "prompt" /\ enabled' = set
  /\ UNCHANGED <<phase, mode, slice, flags, cause, pending, ssc, turn, clock>>

\* do_sim_reset clears the working registers and gives them to processor 0.
\* Nothing becomes of the slots, of ip and of the processors enabled.
init ==
  /\ phase = "prompt" /\ uses < MaxUses /\ uses' = uses + 1
  /\ regs' = Zero /\ selected' = 0 /\ pending' = FALSE /\ timer_on' = FALSE
  /\ done' = [done EXCEPT ![0] = Zero]
  /\ lost' = CPU \ {0}
  /\ UNCHANGED <<phase, enabled, mode, slice, flags, cause, ssc, processors, ip,
                 mp_slice, waiting, osc, cnt, ticked, kept>>

\* The user writes a timer's register.  The trivial timer's operation is
\* called with override, which leaves the clock alone.
PokeTimer ==
  /\ phase = "prompt"
  /\ \E on \in BOOLEAN :
       \/ cio_write_command_reg(on)
       \/ timer_on' = on /\ UNCHANGED <<osc, cnt, kept, uses>>
  /\ UNCHANGED <<phase, enabled, mode, slice, flags, cause, pending, ssc, turn,
                 mp_slice, waiting, ticked>>

\* The user sets the pc.
setreg_sim ==
  /\ phase = "prompt" /\ ip' = selected
  /\ UNCHANGED <<phase, enabled, mode, slice, flags, cause, pending, ssc,
                 selected, regs, processors, done, lost, clock>>

\* The user types control-C while the program runs.
sim_interrupt ==
  /\ phase \notin {"prompt", "exited"} /\ "INT_FRONT_END" \notin flags
  /\ flags' = flags \cup {"INT_FRONT_END"}
  /\ UNCHANGED <<phase, enabled, mode, slice, cause, pending, ssc, turn, clock>>

Exited == phase = "exited" /\ UNCHANGED vars

\* sim_init and gdb_sim_init; processor 0 is enabled.
Init ==
  /\ phase = "prompt" /\ selected = 0 /\ enabled = {0}
  /\ regs = Zero /\ processors = [p \in CPU |-> Zero] /\ ip = 0
  /\ mode = "none" /\ slice = 0 /\ mp_slice = 0 /\ waiting = FALSE
  /\ flags = {} /\ cause = "NONE" /\ pending = FALSE
  /\ ssc = FALSE /\ osc = FALSE /\ timer_on = FALSE /\ cnt = 0
  /\ ticked = FALSE /\ uses = 0 /\ kept = FALSE
  /\ done = [p \in CPU |-> Zero] /\ lost = {}

Simulator ==
  \/ Enter \/ EnterException \/ Ordinary \/ StoreTimer \/ Branch
  \/ Breakpoint \/ Catch \/ SingleStep \/ Signal \/ FrontEnd \/ MpSwitch
  \/ Return \/ Hold \/ Switch \/ Stop

User ==
  \/ \E step \in BOOLEAN, s \in Slices : sim_resume(step, s)
  \/ sim_resume_refused
  \/ \E p \in CPU : pselect(p)
  \/ \E set \in SUBSET CPU : penable(set)
  \/ init \/ setreg_sim \/ PokeTimer \/ sim_interrupt

Next == Simulator \/ Tick \/ User \/ Exited

Spec == Init /\ [][Next]_vars

\* sim() goes on, the program branches again and again, and the clock
\* ticks while it is on.  Nothing is assumed of the user.
FairSpec == Spec /\ WF_vars(Simulator) /\ WF_vars(Branch) /\ WF_vars(Tick)

(***************************************************************************)
(* Properties                                                              *)
(***************************************************************************)
\* The types of the simulator's variables.
TypeOK ==
  /\ phase \in {"prompt", "entry", "run", "chkint", "return", "hold",
                "resumed", "exited"}
  /\ selected \in CPU /\ ip \in CPU /\ enabled \subseteq CPU
  /\ regs \in Contents /\ processors \in [CPU -> Contents]
  /\ mode \in {"none", "step", "one", "each", "slice"} /\ slice \in Nat
  /\ mp_slice \in Nat /\ waiting \in BOOLEAN
  /\ flags \subseteq Flag /\ cause \in Cause /\ pending \in BOOLEAN
  /\ ssc \in BOOLEAN /\ osc \in BOOLEAN /\ timer_on \in BOOLEAN
  /\ cnt \in 0 .. 1 /\ ticked \in BOOLEAN /\ uses \in 0 .. MaxUses
  /\ done \in [CPU -> Contents] /\ lost \subseteq CPU /\ kept \in BOOLEAN

\* Whatever switches, ticks, stops and pselect commands come between, each
\* processor has the registers that its own instructions have left, of
\* those that read_regs and set_regs switch: in the working registers while
\* it is selected and in its slot otherwise.  After an init nothing is said
\* of a processor until it is selected (simgdb.c:29-59, 508-557).
OwnRegisters ==
  \A p \in CPU \ lost :
    done[p] = IF p = selected THEN regs ELSE processors[p]

\* What the comment of sim_select_processor says, of ip: a processor goes
\* on where it has stopped, or where the user has sent it; the code lets it
\* go on where another one has stopped (simgdb.c:508-557).
OwnIp == phase = "entry" /\ done[selected] # Zero => ip = selected

\* What the comment of multiprocessor_initialization says: an init gives
\* every processor the cleared registers.  The code calls it once, when g88
\* starts (simgdb.c:680-712).
InitClearsAll == [][init => processors' = [p \in CPU |-> Zero]]_vars

\* What the default case of sim_resume calls an error: a return code that
\* a stop cannot have.  A switch that is pending when the program stops is
\* one, if only one processor is enabled from then on (simgdb.c:619-675).
NoCaseError == phase # "exited"

\* At the prompt the clock stands, unless it was started where
\* single_step_command keeps sim() from holding it: by an instruction
\* that was stepped, or that ran after an exception left by a stopped step,
\* or by the user's hand (execute.c:313-324, 1959-1964).
ClockStands == phase = "prompt" /\ osc => kept

\* Every processor that is enabled gets its turn again and again, until the
\* simulator stops; in slices only as long as the clock is released: a
\* processor whose turn starts with an exception runs without it and keeps
\* its turn (simgdb.c:625-644, execute.c:301-324).
EveryCpuRuns ==
  \A p \in CPU :
    phase = "run" /\ mode \in {"each", "slice"} /\ p \in enabled
      ~> \/ phase \in {"prompt", "exited"}
         \/ phase = "entry" /\ selected = p
         \/ phase = "run" /\ mode = "slice" /\ ~osc

\* A control-C brings the prompt back, whatever signals and switches are
\* pending with it, unless the processors take turns by instructions: there
\* the single step's flag always comes first (execute.c:1864-1913).
FrontEndStops ==
  phase # "prompt" /\ "INT_FRONT_END" \in flags /\ mode # "each"
    ~> phase \in {"prompt", "exited"}

\* What the comment of sim_resume says of every run, of turns by
\* instructions: a front-end interrupt ends them (simgdb.c:594-597).
FrontEndStopsTurns ==
  "INT_FRONT_END" \in flags /\ mode = "each" ~> phase \in {"prompt", "exited"}
=============================================================================
