--------------------------- MODULE MultiSimProofs ---------------------------
(***************************************************************************)
(* For every number of processors and every $simslice: the types hold,     *)
(* each processor keeps those of its registers that are switched, and the  *)
(* clock stands at the prompt unless it was started where nobody holds it. *)
(***************************************************************************)
EXTENDS MultiSim, TLAPS

(***************************************************************************)
(* The inductive invariant.  While the processors run in slices there is a *)
(* tick to wait for.  A clock that somebody will hold runs only inside     *)
(* sim(), and with single_step_command off.                                *)
(***************************************************************************)
Sliced == waiting => mp_slice # 0 /\ slice # 0

Held ==
  osc /\ ~kept => ~ssc /\ phase \in {"run", "chkint", "return", "hold"}

TypeTurn ==
  /\ selected \in CPU /\ ip \in CPU /\ regs \in Contents
  /\ processors \in [CPU -> Contents]
  /\ done \in [CPU -> Contents] /\ lost \subseteq CPU

TypeClock ==
  /\ slice \in Nat /\ mp_slice \in Nat /\ waiting \in BOOLEAN
  /\ osc \in BOOLEAN /\ timer_on \in BOOLEAN /\ kept \in BOOLEAN
  /\ cnt \in 0 .. 1 /\ ticked \in BOOLEAN /\ uses \in 0 .. MaxUses
  /\ flags \subseteq Flag /\ ssc \in BOOLEAN

TypeRun ==
  /\ phase \in {"prompt", "entry", "run", "chkint", "return", "hold",
                "resumed", "exited"}
  /\ mode \in {"none", "step", "one", "each", "slice"}
  /\ cause \in Cause /\ pending \in BOOLEAN /\ enabled \subseteq CPU

LEMMA TypeParts == TypeOK <=> TypeTurn /\ TypeClock /\ TypeRun
BY DEF TypeOK, TypeTurn, TypeClock, TypeRun

IInv == TypeOK /\ Sliced /\ OwnRegisters /\ Held

-----------------------------------------------------------------------------
LEMMA Constants == MAX_PROCESSORS \in Nat \ {0} /\ Slices \subseteq Nat
                   /\ MaxUses \in Nat /\ 0 \in CPU /\ Zero \in Contents
BY MultiAssumption DEF MultiAssumption, CPU, Contents

\* Instructions keep contents contents.
LEMMA WorkedType ==
  ASSUME selected \in CPU, NEW r \in Contents
  PROVE  Worked(r) \in Contents
<1>1. CASE r = Zero
  BY <1>1 DEF Worked, Contents
<1>2. CASE r # Zero
  <2>1. r \in CPU \X {1, 2}
    BY <1>2 DEF Contents
  <2>2. r[1] \in CPU /\ r[2] \in {1, 2} /\ Worked(r) = <<r[1], 3 - r[2]>>
    BY <2>1, <1>2 DEF Worked
  <2>3. 3 - r[2] \in {1, 2}
    BY <2>2
  <2> QED BY <2>2, <2>3 DEF Contents
<1> QED BY <1>1, <1>2

\* What the steps do to the registers: all of the steps that touch them.
Turns ==
  \/ UNCHANGED turn
  \/ Works
  \/ \E p \in CPU : sim_select_processor(p)
  \/ /\ regs' = Zero /\ selected' = 0 /\ UNCHANGED <<processors, ip>>
     /\ done' = [done EXCEPT ![0] = Zero]
     /\ lost' = CPU \ {0}
  \/ ip' = selected /\ UNCHANGED <<selected, regs, processors, done, lost>>

LEMMA TurnsKeep ==
  ASSUME TypeTurn, OwnRegisters, Turns
  PROVE  TypeTurn' /\ OwnRegisters'
<1> USE Constants
<1>1. CASE UNCHANGED turn
  BY <1>1 DEF turn, TypeTurn, OwnRegisters
<1>2. CASE Works
  <2>1. Worked(regs) \in Contents /\ Worked(done[selected]) \in Contents
    BY WorkedType DEF TypeTurn
  <2>2. TypeTurn'
    BY <1>2, <2>1 DEF Works, TypeTurn
  <2>3. ASSUME NEW p \in CPU \ lost'
        PROVE  done'[p] = IF p = selected' THEN regs' ELSE processors'[p]
    <3>1. done[p] = IF p = selected THEN regs ELSE processors[p]
      BY <2>3, <1>2 DEF Works, OwnRegisters
    <3> QED BY <3>1, <1>2 DEF Works, TypeTurn
  <2> QED BY <2>2, <2>3 DEF OwnRegisters
<1>3. ASSUME NEW p \in CPU, sim_select_processor(p)
      PROVE  TypeTurn' /\ OwnRegisters'
  <2>1. processors' \in [CPU -> Contents] /\ regs' = processors'[p]
        /\ selected' = p /\ lost' = lost \ {p} /\ UNCHANGED ip
    BY <1>3 DEF sim_select_processor, Adopt, TypeTurn
  <2>2. done' = IF p \in lost THEN [done EXCEPT ![p] = processors'[p]] ELSE done
    BY <1>3 DEF sim_select_processor, Adopt
  <2>3. TypeTurn'
    BY <2>1, <2>2 DEF TypeTurn
  <2>4. ASSUME NEW q \in CPU \ lost'
        PROVE  done'[q] = IF q = selected' THEN regs' ELSE processors'[q]
    <3>1. CASE q \in lost
      <4>1. q = p /\ done'[q] = processors'[q]
        BY <3>1, <2>1, <2>2, <2>4 DEF TypeTurn
      <4> QED BY <4>1, <2>1
    <3>2. CASE q \notin lost
      <4>1. done'[q] = done[q]
        BY <3>2, <2>2 DEF TypeTurn
      <4>2. done[q] = IF q = selected THEN regs ELSE processors[q]
        BY <3>2, <2>4 DEF OwnRegisters
      <4>3. processors'[q] = IF q = selected THEN regs ELSE processors[q]
        BY <1>3, <2>4 DEF sim_select_processor, TypeTurn
      <4> QED BY <2>1, <4>1, <4>2, <4>3
    <3> QED BY <3>1, <3>2
  <2> QED BY <2>3, <2>4 DEF OwnRegisters
<1>4. ASSUME regs' = Zero, selected' = 0, UNCHANGED <<processors, ip>>,
             done' = [done EXCEPT ![0] = Zero],
             lost' = CPU \ {0}
      PROVE  TypeTurn' /\ OwnRegisters'
  <2>1. TypeTurn'
    BY <1>4 DEF TypeTurn
  <2>2. ASSUME NEW q \in CPU \ lost'
        PROVE  done'[q] = IF q = selected' THEN regs' ELSE processors'[q]
    <3>1. q = 0
      BY <2>2, <1>4
    <3> QED BY <3>1, <1>4 DEF TypeTurn
  <2> QED BY <2>1, <2>2 DEF OwnRegisters
<1>5. CASE ip' = selected /\ UNCHANGED <<selected, regs, processors, done, lost>>
  BY <1>5 DEF TypeTurn, OwnRegisters
<1> QED BY <1>1, <1>2, <1>3, <1>4, <1>5 DEF Turns

-----------------------------------------------------------------------------
\* The steps that touch the clock.
LEMMA OscillatorType ==
  ASSUME NEW n \in 0 .. 1, NEW set \in SUBSET Flag, TypeClock, Sliced,
         Oscillator(n, set), UNCHANGED <<waiting, slice>>
  PROVE  mp_slice' \in Nat /\ flags' \subseteq Flag /\ Sliced'
<1>1. CASE waiting /\ n > 0 /\ mp_slice = 1
  BY <1>1 DEF Oscillator, TypeClock, Sliced, Flag
<1>2. CASE waiting /\ n > 0 /\ mp_slice # 1
  <2>1. mp_slice' = mp_slice - 1 /\ flags' = set
    BY <1>2 DEF Oscillator
  <2>2. mp_slice \in Nat /\ mp_slice # 0 /\ mp_slice # 1
    BY <1>2 DEF TypeClock, Sliced
  <2>3. mp_slice - 1 \in Nat /\ mp_slice - 1 # 0
    BY <2>2
  <2> QED BY <2>1, <2>3 DEF Sliced
<1>3. CASE ~(waiting /\ n > 0)
  BY <1>3 DEF Oscillator, TypeClock, Sliced
<1> QED BY <1>1, <1>2, <1>3

\* What a step owes the invariant beyond Turns.
Rest == TypeClock /\ TypeRun /\ Sliced /\ Held

\* A clock that runs from now on is held by the end of sim(), or kept.
Clocked ==
  /\ osc' \in BOOLEAN /\ kept' \in BOOLEAN /\ cnt' \in 0 .. 1
  /\ uses' \in 0 .. MaxUses
  /\ \/ UNCHANGED <<osc, kept>>
     \/ osc' = FALSE
     \/ kept'
     \/ ~ssc /\ phase # "prompt"

LEMMA StartsKeep ==
  ASSUME TypeClock, Starts
  PROVE  Clocked
<1>1. uses' \in 0 .. MaxUses
  BY Constants DEF Starts, TypeClock
<1>2. osc' = TRUE /\ cnt' = 0 /\ kept' = (ssc \/ phase = "prompt")
  BY Zenon DEF Starts, ReleaseOscillator
<1>3. kept' \in BOOLEAN /\ (kept' \/ (~ssc /\ phase # "prompt"))
  BY <1>2, Zenon
<1>4. osc' \in BOOLEAN /\ cnt' \in 0 .. 1
  BY <1>2
<1> QED BY <1>1, <1>2, <1>3, <1>4, Zenon DEF Clocked

LEMMA CioKeeps ==
  ASSUME TypeClock, NEW on \in BOOLEAN, cio_write_command_reg(on)
  PROVE  Clocked /\ timer_on' \in BOOLEAN
<1>1. CASE on /\ ~timer_on
  BY <1>1, StartsKeep DEF cio_write_command_reg
<1>2. CASE ~(on /\ ~timer_on)
  BY <1>2 DEF cio_write_command_reg, TypeClock, Clocked
<1> QED BY <1>1, <1>2

LEMMA TrivialKeeps ==
  ASSUME TypeClock, NEW on \in BOOLEAN, trivial_timer_operation(on)
  PROVE  Clocked /\ timer_on' \in BOOLEAN
<1>1. CASE on \/ waiting
  BY <1>1, StartsKeep DEF trivial_timer_operation
<1>2. CASE ~(on \/ waiting)
  BY <1>2 DEF trivial_timer_operation, TypeClock, Clocked
<1> QED BY <1>1, <1>2

LEMMA TickKeeps ==
  ASSUME IInv, Tick
  PROVE  Turns /\ Rest'
<1> USE DEF IInv
<1>1. TypeClock /\ TypeRun /\ flags \in SUBSET Flag
  BY TypeParts DEF TypeClock
<1>2. Turns /\ Held' /\ TypeRun'
  BY <1>1 DEF Tick, Turns, Held, TypeRun
<1>3. CASE cnt' = 1 /\ flags' = flags \cup {"INT_SIGNAL"} /\ UNCHANGED mp_slice
  BY <1>1, <1>2, <1>3 DEF Tick, TypeClock, Sliced, Rest, Flag
<1>4. CASE Oscillator(1, flags) /\ UNCHANGED cnt
  <2>1. mp_slice' \in Nat /\ flags' \subseteq Flag /\ Sliced'
    BY <1>1, <1>4, OscillatorType DEF Tick
  <2> QED BY <1>1, <1>2, <1>4, <2>1 DEF Tick, TypeClock, Rest
<1> QED BY <1>3, <1>4 DEF Tick

LEMMA SimulatorKeeps ==
  ASSUME IInv, Simulator
  PROVE  Turns /\ Rest'
<1> USE DEF IInv, Rest, Turns
<1>1. TypeTurn /\ TypeClock /\ TypeRun
  BY TypeParts
<1>2. flags \in SUBSET Flag /\ "INT_SINGLESTEP" \in Flag /\ ss \in BOOLEAN
  BY <1>1 DEF TypeClock, Flag, ss
<1>3. CASE Enter
  <2>1. /\ TypeRun' /\ Turns /\ Sliced'
        /\ flags' \subseteq Flag /\ ssc' \in BOOLEAN
    BY <1>1, <1>2, <1>3 DEF Enter, TypeRun, TypeClock, Sliced, Cause
  <2>2. CASE ~ss /\ (timer_on \/ waiting)
    <3>1. osc' = TRUE /\ cnt' = 0 /\ kept' = FALSE /\ ~ssc' /\ phase' = "run"
      BY <2>2, <1>1, <1>3 DEF Enter, ReleaseOscillator, TypeClock
    <3>2. Held'
      BY <3>1 DEF Held
    <3>3. osc' \in BOOLEAN /\ kept' \in BOOLEAN
      BY <3>1, Zenon
    <3>4. cnt' \in 0 .. 1 /\ UNCHANGED <<slice, mp_slice, waiting, timer_on, ticked, uses>>
      BY <3>1, <1>3 DEF Enter
    <3>5. TypeClock'
      BY <2>1, <3>3, <3>4, <1>1 DEF TypeClock
    <3> QED BY <2>1, <3>2, <3>5
  <2>3. CASE ~(~ss /\ (timer_on \/ waiting))
    <3>1. UNCHANGED <<osc, cnt, kept>>
      BY <2>3, <1>3 DEF Enter, ReleaseOscillator
    <3>2. Held'
      BY <3>1, <1>3 DEF Enter, Held
    <3>3. TypeClock'
      BY <2>1, <3>1, <1>1, <1>3 DEF Enter, TypeClock
    <3> QED BY <2>1, <3>2, <3>3
  <2> QED BY <2>2, <2>3
<1>4. CASE EnterException
  BY <1>1, <1>4 DEF EnterException, clock, TypeRun, TypeClock, Sliced, Held,
                    Cause
<1>5. CASE Ordinary
  BY <1>1, <1>2, <1>5 DEF Ordinary, clock, TypeRun, TypeClock, Sliced, Held
<1>6. CASE StoreTimer
  <2>1. phase = "run" /\ Clocked /\ timer_on' \in BOOLEAN
    BY <1>1, <1>6, CioKeeps, TrivialKeeps DEF StoreTimer
  <2>2. /\ flags' \subseteq Flag /\ phase' \in {"run", "return"} /\ Works
        /\ UNCHANGED <<enabled, mode, slice, cause, pending, ssc, mp_slice,
                       waiting, ticked>>
    BY <1>1, <1>2, <1>6 DEF StoreTimer, TypeClock
  <2>3. Held'
    <3>1. CASE UNCHANGED <<osc, kept>>
      BY <3>1, <2>1, <2>2 DEF Held
    <3>2. CASE osc' = FALSE
      BY <3>2 DEF Held
    <3>3. CASE kept'
      BY <3>3 DEF Held
    <3>4. CASE ~ssc /\ phase # "prompt"
      BY <3>4, <2>1, <2>2 DEF Held
    <3> QED BY <2>1, <3>1, <3>2, <3>3, <3>4 DEF Clocked
  <2>4. TypeClock'
    BY <1>1, <2>1, <2>2 DEF Clocked, TypeClock
  <2>5. TypeRun' /\ Sliced'
    BY <1>1, <2>2 DEF TypeRun, Sliced
  <2> QED BY <2>2, <2>3, <2>4, <2>5
<1>7. CASE Branch
  BY <1>1, <1>7 DEF Branch, TypeRun, TypeClock, Sliced, Held
<1>8. CASE Breakpoint
  BY <1>1, <1>2, <1>8 DEF Breakpoint, clock, TypeRun, TypeClock, Sliced, Held,
                          Cause
<1>9. CASE Catch
  BY <1>1, <1>9 DEF Catch, clock, TypeRun, TypeClock, Sliced, Held, Cause
<1>10. CASE SingleStep
  BY <1>1, <1>10 DEF SingleStep, clock, TypeRun, TypeClock, Sliced, Held
<1>11. CASE Signal
  <2>1. /\ mp_slice' \in Nat /\ flags' \subseteq Flag /\ Sliced'
    <3>1. cnt \in 0 .. 1 /\ flags \ {"INT_SIGNAL"} \in SUBSET Flag
      BY <1>1, <1>2 DEF TypeClock
    <3> QED BY <1>1, <1>11, <3>1, OscillatorType DEF Signal, callhandlers
  <2> QED BY <1>1, <1>11, <2>1
          DEF Signal, callhandlers, TypeRun, TypeClock, Held
<1>12. CASE FrontEnd
  BY <1>1, <1>12 DEF FrontEnd, clock, TypeRun, TypeClock, Sliced, Held, Cause
<1>13. CASE MpSwitch
  BY <1>1, <1>13 DEF MpSwitch, clock, TypeRun, TypeClock, Sliced, Held, Cause
<1>14. CASE Return
  <2>1. mp_slice' \in Nat /\ flags' \subseteq Flag /\ Sliced'
    <3>1. cnt \in 0 .. 1
      BY <1>1 DEF TypeClock
    <3> QED BY <1>1, <1>2, <1>14, <3>1, OscillatorType DEF Return, callhandlers
  <2> QED BY <1>1, <1>14, <2>1
          DEF Return, callhandlers, TypeRun, TypeClock, Held
<1>15. CASE Hold
  BY <1>1, <1>15 DEF Hold, HoldOscillator, TypeRun, TypeClock, Sliced, Held
<1>16. CASE Switch
  <2>1. \E p \in CPU : sim_select_processor(p)
    BY <1>1, <1>16 DEF Switch, select_next_processor, TypeRun
  <2>2. Rest'
    BY <1>1, <1>16 DEF Switch, clock, TypeRun, TypeClock, Sliced, Held
  <2> QED BY <2>1, <2>2
<1>17. CASE Stop
  BY <1>1, <1>17 DEF Stop, TypeRun, TypeClock, Sliced, Held, Cause
<1> QED BY <1>3, <1>4, <1>5, <1>6, <1>7, <1>8, <1>9, <1>10, <1>11, <1>12, <1>13,
           <1>14, <1>15, <1>16, <1>17 DEF Simulator

LEMMA UserKeeps ==
  ASSUME IInv, User
  PROVE  Turns /\ Rest'
<1> USE DEF IInv, Rest, Turns
<1>1. TypeTurn /\ TypeClock /\ TypeRun
  BY TypeParts
<1>2. ASSUME NEW step \in BOOLEAN, NEW s \in Slices, sim_resume(step, s)
      PROVE  Turns /\ Rest'
  <2>1. s \in Nat
    BY Constants
  <2>2. mode' \in {"step", "one", "each", "slice"} /\ (mode' = "slice" => s # 0)
    BY <1>2 DEF sim_resume
  <2> QED BY <1>1, <1>2, <2>1, <2>2
          DEF sim_resume, TypeRun, TypeClock, Sliced, Held
<1>3. CASE sim_resume_refused
  BY <1>1, <1>3 DEF sim_resume_refused, clock, TypeRun, TypeClock, Sliced, Held
<1>4. ASSUME NEW p \in CPU, pselect(p)
      PROVE  Turns /\ Rest'
  BY <1>1, <1>4 DEF pselect, clock, TypeRun, TypeClock, Sliced, Held
<1>5. ASSUME NEW set \in SUBSET CPU, penable(set)
      PROVE  Turns /\ Rest'
  BY <1>1, <1>5 DEF penable, clock, TypeRun, TypeClock, Sliced, Held
<1>6. CASE init
  <2>1. Turns
    BY <1>6 DEF init
  <2>2. uses' \in 0 .. MaxUses
    BY <1>1, <1>6, Constants DEF init, TypeClock
  <2>3. Rest'
    BY <1>1, <1>6, <2>2 DEF init, TypeRun, TypeClock, Sliced, Held
  <2> QED BY <2>1, <2>3
<1>7. CASE PokeTimer
  <2>1. phase = "prompt" /\ Clocked /\ timer_on' \in BOOLEAN
    <3>1. PICK on \in BOOLEAN :
            \/ cio_write_command_reg(on)
            \/ timer_on' = on /\ UNCHANGED <<osc, cnt, kept, uses>>
      BY <1>7 DEF PokeTimer
    <3>2. CASE cio_write_command_reg(on)
      BY <3>2, <1>1, <1>7, CioKeeps DEF PokeTimer
    <3>3. CASE timer_on' = on /\ UNCHANGED <<osc, cnt, kept, uses>>
      BY <3>3, <1>1, <1>7 DEF PokeTimer, Clocked, TypeClock
    <3> QED BY <3>1, <3>2, <3>3
  <2>2. UNCHANGED <<phase, enabled, mode, slice, flags, cause, pending, ssc, turn,
                    mp_slice, waiting, ticked>>
    BY <1>7 DEF PokeTimer
  <2>3. Held'
    <3>1. CASE UNCHANGED <<osc, kept>>
      BY <3>1, <2>1, <2>2 DEF Held
    <3>2. CASE osc' = FALSE
      BY <3>2 DEF Held
    <3>3. CASE kept'
      BY <3>3 DEF Held
    <3>4. CASE ~ssc /\ phase # "prompt"
      BY <3>4, <2>1, <2>2 DEF Held
    <3> QED BY <2>1, <3>1, <3>2, <3>3, <3>4 DEF Clocked
  <2>4. TypeClock'
    BY <1>1, <2>1, <2>2 DEF Clocked, TypeClock
  <2>5. TypeRun' /\ Sliced' /\ Turns
    BY <1>1, <2>2 DEF TypeRun, Sliced
  <2> QED BY <2>3, <2>4, <2>5
<1>8. CASE sim_interrupt
  BY <1>1, <1>8 DEF sim_interrupt, clock, TypeRun, TypeClock, Sliced, Held, Flag
<1>9. CASE setreg_sim
  BY <1>1, <1>9 DEF setreg_sim, clock, TypeRun, TypeClock, Sliced, Held
<1> QED BY <1>2, <1>3, <1>4, <1>5, <1>6, <1>7, <1>8, <1>9 DEF User

LEMMA InitHolds == Init => IInv
<1> SUFFICES ASSUME Init
             PROVE  IInv
  OBVIOUS
<1>1. TypeTurn
  BY Constants DEF Init, TypeTurn
<1>2. TypeClock
  <2>1. slice \in Nat /\ mp_slice \in Nat /\ cnt \in 0 .. 1 /\ uses \in 0 .. MaxUses
    BY Constants DEF Init
  <2>2. flags \subseteq Flag
    BY DEF Init
  <2> QED BY <2>1, <2>2 DEF Init, TypeClock
<1>3. TypeRun
  BY Constants DEF Init, TypeRun, Cause
<1>4. Sliced /\ OwnRegisters /\ Held
  BY Constants DEF Init, Sliced, OwnRegisters, Held
<1> QED BY <1>1, <1>2, <1>3, <1>4, TypeParts DEF IInv

LEMMA Inductive == IInv /\ [Next]_vars => IInv'
<1> SUFFICES ASSUME IInv, [Next]_vars
             PROVE  IInv'
  OBVIOUS
<1>1. CASE Simulator \/ Tick \/ User
  <2>1. Turns /\ Rest'
    BY <1>1, SimulatorKeeps, TickKeeps, UserKeeps
  <2>2. TypeTurn' /\ OwnRegisters'
    BY <2>1, TurnsKeep, TypeParts DEF IInv
  <2>3. TypeOK'
    BY <2>1, <2>2 DEF Rest, TypeOK, TypeTurn, TypeClock, TypeRun
  <2> QED BY <2>1, <2>2, <2>3 DEF IInv, Rest
<1>2. CASE UNCHANGED vars
  BY <1>2 DEF vars, turn, clock, IInv, TypeOK, Sliced, OwnRegisters, Held
<1> QED BY <1>1, <1>2 DEF Next, Exited

LEMMA Invariant == Spec => []IInv
<1>1. Init => IInv
  BY InitHolds
<1>2. IInv /\ [Next]_vars => IInv'
  BY Inductive
<1> QED BY <1>1, <1>2, PTL DEF Spec

-----------------------------------------------------------------------------
\* The simulator's variables keep their types; in particular mp_slice never
\* runs past zero, wherever the ticks come (multiprocessor_switch).
THEOREM TypeCorrect == Spec => []TypeOK
<1>1. IInv => TypeOK
  BY DEF IInv
<1> QED BY <1>1, Invariant, PTL

\* Of the registers that read_regs and set_regs switch, each processor keeps
\* its own through every switch, tick, stop and pselect; after an init, from
\* the time that it is selected again.  The pc is not one of them: what the
\* code does to ip is stated by OwnIp, which does not hold
\* (sim_select_processor).
THEOREM RegistersKept == Spec => []OwnRegisters
<1>1. IInv => OwnRegisters
  BY DEF IInv
<1> QED BY <1>1, Invariant, PTL

\* The clock runs at the prompt only when it was started where
\* single_step_command keeps sim() from holding it (HoldOscillator).
THEOREM ClockHeld == Spec => []ClockStands
<1>1. IInv => ClockStands
  BY DEF IInv, Held, ClockStands
<1> QED BY <1>1, Invariant, PTL
=============================================================================
