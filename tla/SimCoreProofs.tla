--------------------------- MODULE SimCoreProofs ---------------------------
(***************************************************************************)
(* For every program, layout of pages, set of breakpoints and of caught    *)
(* exceptions: the types hold, and the simulator implements the processor  *)
(* until its pipeline slips.                                               *)
(***************************************************************************)
EXTENDS SimCore, TLAPS

(***************************************************************************)
(* The inductive invariant.  An exception is known exactly while it is     *)
(* being raised or pending at the prompt; an interrupt is raised only      *)
(* where it is not masked, and an error only with shadowing frozen, where  *)
(* interrupts are; the two records of a pending branch agree at the        *)
(* prompt; and an exception that has been raised leaves a branch to the    *)
(* branch's own page, or any branch when it is an interrupt, only when the *)
(* pipeline has slipped.                                                   *)
(***************************************************************************)
Known ==
  /\ phase \in {"entry", "dispatch", "chkint", "return_pt"} => ex = "E_NONE"
  /\ phase \in {"gen_exception", "without_check"} => ex # "E_NONE"

Masked ==
  /\ frozen => masked
  /\ ex = "E_INT" => ~masked
  /\ ex = "E_ERR" => frozen

Kept == phase = "prompt" => delayed_p = r_delayed

Raised == phase = "without_check" \/ (phase = "prompt" /\ ex # "E_NONE")

Straight ==
  Raised => \/ slipped
            \/ r_delayed \notin Addr /\ (ex = "E_INT" => r_delayed = NoBranch)

IInv == TypeOK /\ Known /\ Masked /\ Kept /\ Straight

-----------------------------------------------------------------------------
\* Addresses.
LEMMA SuccType == \A a \in Addr : Succ(a) \in Addr /\ Pred(a) \in Addr
BY SimAssumption DEF SimAssumption, Addr, Succ, Pred

LEMMA SuccPred == \A a \in Addr : Succ(Pred(a)) = a
BY SimAssumption DEF SimAssumption, Addr, Succ, Pred

LEMMA Names ==
  /\ NoBranch \notin Addr /\ OffPage \notin Addr /\ NoBranch # OffPage
  /\ Top + 1 \notin Addr /\ 0 \in Addr
  /\ \A a \in Addr : Prog[a] \in Class /\ Dest[a] \in Addr
  /\ \A e \in Exception : Vector[e] \in Addr
  /\ Start \in Addr /\ MaxSteps \in Nat /\ PagedOut \subseteq Page
BY SimAssumption DEF SimAssumption, Addr

LEMMA Menus ==
  /\ \A B \in BreakMenu : B \subseteq Addr
  /\ \A C \in CatchMenu : C \subseteq Exception
BY SimAssumption DEF SimAssumption

\* Where Arrive gets to.
LEMMA Arrived ==
  ASSUME NEW a, NEW looked, NEW ph, Arrive(a, looked, ph)
  PROVE  /\ ip' = a
         /\ \/ phase' = "gen_exception" /\ ex' = "E_CACC"
            \/ phase' = ph /\ ex' = ex
BY DEF Arrive

\* Behind an instruction that does not branch sim() is where the pending
\* branch goes, or at the next word.
LEMMA Dispatched ==
  ASSUME TypeOK, DispatchNext
  PROVE  /\ r_delayed' = NoBranch /\ delayed_p' = delayed_p
         /\ delayed_ip' = delayed_ip /\ ip' \in Addr
         /\ ip' = IF r_delayed = NoBranch THEN Succ(ip)
                  ELSE IF r_delayed = OffPage THEN delayed_ip ELSE r_delayed
         /\ \/ phase' = "gen_exception" /\ ex' = "E_CACC"
            \/ phase' \in {"dispatch", "chkint"} /\ ex' = ex
<1>1. CASE r_delayed = NoBranch
  <2>1. Arrive(Succ(ip), ~SamePage(ip, Succ(ip)), "dispatch")
    BY <1>1 DEF DispatchNext, IncDIp
  <2> QED
    BY <1>1, <2>1, Arrived, SuccType, Names DEF DispatchNext, TypeOK
<1>2. CASE r_delayed # NoBranch /\ r_delayed = OffPage
  <2>1. Arrive(delayed_ip, TRUE, "chkint")
    BY <1>2 DEF DispatchNext, delayed_br
  <2>2. r_delayed' = NoBranch /\ UNCHANGED <<delayed_p, delayed_ip>>
    BY <1>2 DEF DispatchNext, delayed_br
  <2>3. r_delayed \in Target /\ delayed_ip \in Addr
    BY DEF TypeOK
  <2> QED
    BY <1>2, <2>1, <2>2, <2>3, Arrived, Names DEF Target
<1>3. CASE r_delayed # NoBranch /\ r_delayed # OffPage
  <2>1. Arrive(r_delayed, FALSE, "chkint")
    BY <1>3 DEF DispatchNext, delayed_br
  <2>2. r_delayed' = NoBranch /\ UNCHANGED <<delayed_p, delayed_ip>>
    BY <1>3 DEF DispatchNext, delayed_br
  <2>3. r_delayed \in Target /\ delayed_ip \in Addr
    BY DEF TypeOK
  <2> QED
    BY <1>3, <2>1, <2>2, <2>3, Arrived, Names DEF Target
<1> QED
  BY <1>1, <1>2, <1>3

-----------------------------------------------------------------------------
\* The invariant, an action at a time.

LEMMA InitInv == Init => IInv
<1> SUFFICES ASSUME Init PROVE IInv
  OBVIOUS
<1>1. 0 \in Addr /\ Start \in Addr /\ 0 \in 0 .. 2 /\ 0 \in 0 .. MaxSteps
  BY Names
<1>2. TypeOK
  BY <1>1 DEF Init, TypeOK, Target, Cause
<1>3. Known /\ Masked /\ Kept /\ Straight
  BY DEF Init, Known, Masked, Kept, Straight, Raised
<1> QED
  BY <1>2, <1>3 DEF IInv

\* The instructions that end in DISPATCH_NEXT.
LEMMA OrdinaryInv ==
  ASSUME IInv, Ordinary \/ StorePsr \/ Acknowledge \/ StoreShadow
  PROVE  IInv'
<1>1. TypeOK /\ DispatchNext
  BY DEF IInv, Ordinary, StorePsr, Acknowledge, StoreShadow
<1>2. phase = "dispatch" /\ ex = "E_NONE"
  BY DEF IInv, Known, Ordinary, StorePsr, Acknowledge, StoreShadow, Runs
<1>3. /\ UNCHANGED <<ss, ssbp, user, took, slipped, cause>>
      /\ did' = IF did = 2 THEN 2 ELSE did + 1
  BY DEF Ordinary, StorePsr, Acknowledge, StoreShadow, Runs
<1>4. /\ frozen' \in BOOLEAN /\ masked' \in BOOLEAN /\ (frozen' => masked')
      /\ tfrozen' \in BOOLEAN /\ tmasked' \in BOOLEAN
      /\ sxip' \in Addr /\ snip' \in Addr \cup {Top + 1} /\ sfip' \in Addr
      /\ flags' \subseteq Flag /\ line' \in BOOLEAN /\ absent' \subseteq Page
  <2> USE DEF IInv, TypeOK, Masked
  <2>1. CASE Ordinary
    BY <2>1 DEF Ordinary, psr, shadow, machine
  <2>2. CASE StorePsr
    BY <2>2 DEF StorePsr, shadow, machine, Flagged, Flag
  <2>3. CASE Acknowledge
    BY <2>3 DEF Acknowledge, psr, shadow
  <2>4. CASE StoreShadow
    BY <2>4, Names DEF StoreShadow, psr
  <2> QED
    BY <2>1, <2>2, <2>3, <2>4
<1>5. TypeOK'
  BY <1>1, <1>2, <1>3, <1>4, Dispatched, Names
     DEF TypeOK, user, Target, Exception
<1>6. (Known /\ Masked /\ Kept /\ Straight)'
  BY <1>1, <1>2, <1>4, Dispatched, Names
     DEF Known, Masked, Kept, Straight, Raised
<1> QED
  BY <1>5, <1>6 DEF IInv

LEMMA RaiseInv == ASSUME IInv, DataFault \/ Trap PROVE IInv'
<1>1. /\ phase = "dispatch" /\ phase' = "gen_exception"
      /\ ex' \in {"E_DACC", "E_TRAP"}
      /\ UNCHANGED <<ss, ssbp, user, took, ip, pipe, psr, shadow, flags, machine,
                     slipped, cause>>
      /\ did' = IF did = 2 THEN 2 ELSE did + 1
  BY DEF DataFault, Trap, Raise, Runs
<1>2. TypeOK'
  BY <1>1 DEF IInv, TypeOK, user, pipe, psr, shadow, machine, Exception
<1>3. (Known /\ Masked /\ Kept /\ Straight)'
  BY <1>1 DEF IInv, Known, Masked, Kept, Straight, Raised, psr
<1> QED
  BY <1>2, <1>3 DEF IInv

LEMMA BranchInv == ASSUME IInv, TakeBranch \/ TakeDelayedBranch PROVE IInv'
<1>1. /\ phase = "dispatch" /\ ex = "E_NONE"
      /\ UNCHANGED <<ss, ssbp, user, took, delayed_p, psr, shadow, flags, machine,
                     cause>>
      /\ did' = IF did = 2 THEN 2 ELSE did + 1
      /\ slipped' \in BOOLEAN
  BY DEF IInv, Known, TypeOK, TakeBranch, TakeDelayedBranch, Runs, Slips, pipe
<1>2. /\ ip' \in Addr
      /\ \/ phase' = "gen_exception" /\ ex' = "E_CACC"
         \/ phase' \in {"chkint", "dispatch"} /\ ex' = ex
      /\ r_delayed' \in Target /\ delayed_ip' \in Addr
  <2>1. CASE TakeBranch
    BY <2>1, Arrived, Names DEF TakeBranch, pipe, IInv, TypeOK
  <2>2. CASE TakeDelayedBranch
    BY <2>2, Arrived, Names, SuccType
       DEF TakeDelayedBranch, IncDIp, IInv, TypeOK, Target
  <2> QED
    BY <2>1, <2>2
<1>3. TypeOK'
  BY <1>1, <1>2 DEF IInv, TypeOK, user, psr, shadow, machine, Exception
<1>4. (Known /\ Masked /\ Kept /\ Straight)'
  BY <1>1, <1>2 DEF IInv, Known, Masked, Kept, Straight, Raised, psr
<1> QED
  BY <1>3, <1>4 DEF IInv

LEMMA RteInv == ASSUME IInv, Rte PROVE IInv'
<1>1. /\ phase = "dispatch" /\ ex = "E_NONE" /\ frozen /\ ~tfrozen
      /\ UNCHANGED <<ss, ssbp, user, took, delayed_p, shadow, flags, machine,
                     slipped, cause>>
      /\ did' = IF did = 2 THEN 2 ELSE did + 1
      /\ frozen' = FALSE /\ masked' = tmasked
  BY DEF IInv, Known, TypeOK, Rte, Runs, machine
<1>2. /\ ip' \in Addr
      /\ \/ phase' = "gen_exception" /\ ex' = "E_CACC"
         \/ phase' \in {"chkint", "return_pt"} /\ ex' = ex
  <2>1. Arrive(IF snip \in Addr THEN snip ELSE sfip, TRUE,
               IF ss THEN "return_pt" ELSE "chkint")
    BY DEF Rte
  <2>2. snip \in Addr \cup {Top + 1} /\ sfip \in Addr /\ ss \in BOOLEAN
    BY DEF IInv, TypeOK
  <2> QED
    BY <2>1, <2>2, Arrived
<1>3. r_delayed' \in Target /\ delayed_ip' \in Addr
  BY DEF Rte, Refetch, IInv, TypeOK, Target
<1>4. TypeOK'
  <2>1. /\ frozen' \in BOOLEAN /\ masked' \in BOOLEAN
        /\ phase' \in {"gen_exception", "chkint", "return_pt"}
        /\ ex' \in {"E_CACC", "E_NONE"} /\ did' \in 0 .. 2
    <3>1. frozen' = FALSE /\ masked' = tmasked /\ tmasked \in BOOLEAN
      BY <1>1 DEF IInv, TypeOK
    <3>2. frozen' \in BOOLEAN /\ masked' \in BOOLEAN
      BY ONLY <3>1, Zenon
    <3>3. did' \in 0 .. 2
      BY <1>1 DEF IInv, TypeOK
    <3> QED
      BY <1>1, <1>2, <3>2, <3>3
  <2> QED
    BY <1>1, <1>2, <1>3, <2>1 DEF IInv, TypeOK, user, shadow, machine, Exception
<1>5. (Known /\ Masked /\ Kept /\ Straight)'
  BY <1>1, <1>2 DEF IInv, Known, Masked, Kept, Straight, Raised
<1> QED
  BY <1>4, <1>5 DEF IInv

LEMMA ExceptionInv == ASSUME IInv, gen_exception PROVE IInv'
<1>1. ip' \in Addr /\ Succ(ip') \in Addr
  BY SuccType DEF gen_exception, IInv, TypeOK
<1>2. TypeOK'
  <2>1. /\ delayed_p' \in Target /\ slipped' \in BOOLEAN /\ cause' \in Cause
        /\ snip' \in Addr /\ sfip' \in Addr /\ ex' = ex
        /\ phase' \in {"prompt", "without_check"}
    BY <1>1 DEF IInv, TypeOK, gen_exception, Caught, Cause, Target
  <2> QED
    BY <1>1, <2>1 DEF IInv, TypeOK, gen_exception, user, psr, machine
<1>3. (Known /\ Masked /\ Kept)'
  BY DEF IInv, Known, Masked, Kept, gen_exception, Caught, psr
<1>4. Straight'
  BY DEF IInv, TypeOK, Straight, Raised, gen_exception, Caught
<1> QED
  BY <1>2, <1>3, <1>4 DEF IInv

LEMMA CaughtErrorInv == ASSUME IInv, CaughtError PROVE IInv'
<1>1. TypeOK'
  BY DEF IInv, TypeOK, CaughtError, Caught, user, psr, shadow, machine, history,
         Cause, Exception
<1>2. (Known /\ Masked /\ Kept)'
  BY DEF IInv, Known, Masked, Kept, CaughtError, Caught, psr
<1>3. Straight'
  BY DEF IInv, Straight, Raised, CaughtError, Caught, history
<1> QED
  BY <1>1, <1>2, <1>3 DEF IInv

LEMMA EnterInv == ASSUME IInv, Enter PROVE IInv'
<1>1. /\ ip' \in Addr /\ snip' \in Addr /\ Succ(snip') \in Addr
      /\ phase' \in {"return_pt", "dispatch"}
      /\ cause' \in {cause, "HOSED"}
  BY SuccType, Names DEF Enter, IInv, TypeOK, Known, Exception
<1>2. TypeOK'
  BY <1>1 DEF IInv, TypeOK, Enter, user, machine, Cause, Target
<1>3. (Known /\ Masked /\ Kept /\ Straight)'
  BY <1>1 DEF Known, Masked, Kept, Straight, Raised, Enter
<1> QED
  BY <1>2, <1>3 DEF IInv

\* What leaves the pipeline alone, within sim().
LEMMA WithinInv ==
  ASSUME IInv, \/ NoInterrupt \/ ss_breakpoint \/ FrontEnd \/ HitBreakpoint
               \/ RteHosed \/ Device \/ FirstDispatch
  PROVE  IInv'
<1>1. /\ UNCHANGED <<ip, ss, pipe, psr, shadow, user, machine>>
      /\ phase \in {"entry", "dispatch", "chkint"} /\ ex = "E_NONE"
      /\ \/ phase' \in {"dispatch", "chkint", "return_pt"} /\ ex' = ex
         \/ phase' = "gen_exception" /\ ex' = "E_INT" /\ ~masked
  BY DEF IInv, TypeOK, Known, NoInterrupt, ss_breakpoint, FrontEnd, HitBreakpoint,
         RteHosed, Device, FirstDispatch, Runs
<1>2. /\ flags' \subseteq Flag /\ ssbp' \subseteq Addr /\ cause' \in Cause
      /\ did' \in 0 .. 2 /\ UNCHANGED <<took, slipped>>
  BY DEF IInv, TypeOK, NoInterrupt, ss_breakpoint, FrontEnd, HitBreakpoint,
         RteHosed, Device, FirstDispatch, Runs, history, Cause
<1>3. TypeOK'
  BY <1>1, <1>2 DEF IInv, TypeOK, pipe, psr, shadow, user, machine, Exception
<1>4. (Known /\ Masked /\ Kept /\ Straight)'
  BY <1>1, <1>2 DEF IInv, Known, Masked, Kept, Straight, Raised, psr, pipe
<1> QED
  BY <1>3, <1>4 DEF IInv

LEMMA ReturnInv == ASSUME IInv, return_pt PROVE IInv'
<1>1. TypeOK'
  BY SuccType DEF IInv, TypeOK, return_pt, user, psr, machine, history
<1>2. (Known /\ Masked /\ Kept /\ Straight)'
  BY DEF IInv, Known, Masked, Kept, Straight, Raised, return_pt, psr
<1> QED
  BY <1>1, <1>2 DEF IInv

LEMMA ResumeInv ==
  ASSUME IInv, NEW step \in BOOLEAN, NEW B \in BreakMenu, sim_resume(step, B)
  PROVE  IInv'
<1>1. /\ ip' = ip /\ r_delayed' = r_delayed
      /\ \/ phase' = "without_check" /\ ex # "E_NONE" /\ ex' = ex
         \/ phase' = "gen_exception" /\ ex' = "E_CACC"
         \/ phase' = "entry" /\ ex = "E_NONE" /\ ex' = ex
  BY Arrived DEF sim_resume, IInv, Kept
<1>2. /\ flags' \subseteq Flag /\ ssbp' \subseteq Addr
  BY SuccType DEF sim_resume, IInv, TypeOK, insert_ss_breakpoint, Flagged, Flag
<1>3. TypeOK'
  <2>1. bpts' \subseteq Addr /\ steps' \in 0 .. MaxSteps
    BY Menus, Names DEF IInv, TypeOK, sim_resume
  <2> QED
    <3>1. /\ phase' \in {"without_check", "gen_exception", "entry"}
          /\ ex' \in Exception \cup {"E_NONE"}
      BY <1>1 DEF IInv, TypeOK, Exception
    <3>2. /\ ss' = step /\ cause' = "NONE" /\ did' = 0 /\ took' = FALSE
          /\ UNCHANGED <<delayed_p, delayed_ip, psr, shadow, caught, line,
                         slipped, absent>>
      BY DEF sim_resume
    <3>3. ss' \in BOOLEAN /\ took' \in BOOLEAN
      BY <3>2, Zenon
    <3>4. TypeOK
      BY DEF IInv
    <3> HIDE DEF IInv
    <3> QED
      BY <1>1, <1>2, <2>1, <3>1, <3>2, <3>3, <3>4 DEF TypeOK, psr, shadow, Cause
<1>4. (Known /\ Masked /\ Kept)'
  BY <1>1 DEF IInv, Known, Masked, Kept, sim_resume, psr
<1>5. Straight'
  BY <1>1 DEF IInv, Straight, Raised, sim_resume
<1> QED
  BY <1>3, <1>4, <1>5 DEF IInv

LEMMA OutsideInv ==
  ASSUME IInv, sim_interrupt \/ Request \/ \E C \in CatchMenu : ecatch(C)
  PROVE  IInv'
<1>1. /\ UNCHANGED <<phase, ip, ss, cause, pipe, psr, shadow, ex, ssbp, bpts, steps,
                     absent, history>>
      /\ flags' \subseteq Flag /\ caught' \subseteq Exception /\ line' \in BOOLEAN
  BY Menus DEF IInv, TypeOK, sim_interrupt, Request, ecatch, user, machine, Flag
<1>2. TypeOK'
  BY <1>1 DEF IInv, TypeOK, pipe, psr, shadow, history
<1>3. (Known /\ Masked /\ Kept /\ Straight)'
  BY <1>1 DEF IInv, Known, Masked, Kept, Straight, Raised, psr, pipe, history
<1> QED
  BY <1>2, <1>3 DEF IInv

LEMMA NextInv == IInv /\ [Next]_vars => IInv'
<1> SUFFICES ASSUME IInv, [Next]_vars PROVE IInv'
  OBVIOUS
<1>1. CASE Execute
  BY <1>1, OrdinaryInv, RaiseInv, BranchInv, RteInv, WithinInv DEF Execute
<1>2. CASE Simulator /\ ~Execute
  BY <1>2, ExceptionInv, CaughtErrorInv, EnterInv, WithinInv, ReturnInv
     DEF Simulator
<1>3. CASE \E step \in BOOLEAN, B \in BreakMenu : sim_resume(step, B)
  BY <1>3, ResumeInv
<1>4. CASE sim_interrupt \/ Request \/ \E C \in CatchMenu : ecatch(C)
  BY <1>4, OutsideInv
<1>5. CASE UNCHANGED vars
  BY <1>5 DEF vars, pipe, psr, shadow, user, machine, history, IInv, TypeOK, Known,
              Masked, Kept, Straight, Raised
<1> QED
  BY <1>1, <1>2, <1>3, <1>4, <1>5 DEF Next

LEMMA Inductive == Spec => []IInv
BY InitInv, NextInv, PTL DEF Spec

\* sim()'s variables keep their types for every program, whatever the user
\* and the devices do.
THEOREM TypeCorrect == Spec => []TypeOK
<1>1. IInv => TypeOK
  BY DEF IInv
<1> QED
  BY <1>1, Inductive, PTL

-----------------------------------------------------------------------------
(***************************************************************************)
(* A single step.  Before its instruction the next word is marked, unless  *)
(* that word's page is absent, and INT_SINGLESTEP is up; behind it sim()   *)
(* is at the mark, or at CHKINT.  The invariant says where a step is from  *)
(* sim_resume to return_pt; what the program's handlers do with pages in   *)
(* between comes too late to matter, since a step ends at its exception.   *)
(***************************************************************************)
Poised ==
  /\ did = 0 /\ ip \notin ssbp /\ "INT_SINGLESTEP" \in flags
  /\ PageOf(ip) \notin absent
  /\ PageOf(Succ(ip)) \notin absent => Succ(ip) \in ssbp

Underway ==
  /\ phase = "entry" => Poised
  /\ phase = "dispatch" => Poised \/ (did = 1 /\ ip \in ssbp)
  /\ phase = "chkint" => did = 1 /\ "INT_SINGLESTEP" \in flags
  /\ phase \in {"gen_exception", "without_check"} => did <= 1

Ended == cause = "NONE" => ss /\ did <= 1 /\ (did = 1 \/ took)

Stepping ==
  /\ ss => Underway
  /\ phase \in {"return_pt", "prompt"} => Ended

LEMMA SuccMoves == \A a \in Addr : Succ(a) # a
BY SimAssumption DEF SimAssumption, Addr, Succ

\* Where an instruction gets to that is not a branch.
LEMMA NextWord ==
  ASSUME IInv, Poised, DispatchNext, phase = "dispatch"
  PROVE  \/ phase' = "dispatch" /\ ip' \in ssbp
         \/ phase' \in {"chkint", "gen_exception"}
<1>1. CASE r_delayed = NoBranch
  <2>1. Arrive(Succ(ip), ~SamePage(ip, Succ(ip)), "dispatch")
    BY <1>1 DEF DispatchNext, IncDIp
  <2> QED
    BY <2>1 DEF Arrive, SamePage, Poised
<1>2. CASE r_delayed # NoBranch
  BY <1>2, Arrived DEF DispatchNext, delayed_br
<1> QED
  BY <1>1, <1>2

\* The instruction of a single step has not been executed yet.
LEMMA Fresh ==
  ASSUME IInv, Stepping, ss, NEW classes, Runs(classes)
  PROVE  Poised /\ did' = 1 /\ ss' = ss /\ UNCHANGED <<ssbp, took>>
<1>1. Poised
  BY DEF Runs, Stepping, Underway
<1> QED
  BY <1>1 DEF Runs, Poised

\* An instruction is executed: in a step it is the only one.
LEMMA ExecuteSteps == ASSUME IInv, Stepping, Execute PROVE Stepping'
<1>1. /\ phase = "dispatch" /\ UNCHANGED <<ss, ssbp, took>>
      /\ phase' # "prompt"
      /\ phase' = "return_pt" => cause' = "HOSED" \/ ss
  <2>1. CASE Ordinary \/ StorePsr \/ Acknowledge \/ StoreShadow
    BY <2>1, Dispatched
       DEF IInv, Ordinary, StorePsr, Acknowledge, StoreShadow, Runs
  <2>2. CASE DataFault \/ Trap
    BY <2>2 DEF DataFault, Trap, Raise, Runs
  <2>3. CASE TakeBranch \/ TakeDelayedBranch
    BY <2>3, Arrived DEF TakeBranch, TakeDelayedBranch, IncDIp, Runs
  <2>4. CASE Rte
    <3>1. Arrive(IF snip \in Addr THEN snip ELSE sfip, TRUE,
                 IF ss THEN "return_pt" ELSE "chkint") /\ Runs({"rte"})
      BY <2>4 DEF Rte
    <3> QED
      BY <3>1 DEF Arrive, Runs
  <2>5. CASE RteHosed
    BY <2>5 DEF RteHosed, Runs
  <2> QED
    BY <2>1, <2>2, <2>3, <2>4, <2>5 DEF Execute
<1>2. ss => did' = 1
  BY Fresh DEF Execute, Ordinary, DataFault, Trap, TakeBranch, TakeDelayedBranch,
               StorePsr, Acknowledge, StoreShadow, Rte, RteHosed
<1>3. (phase \in {"return_pt", "prompt"} => Ended)'
  BY <1>1, <1>2 DEF Ended
<1>4. ASSUME ss PROVE Underway'
  <2>1. Poised /\ did' = 1
    BY <1>2, <1>4, Fresh
       DEF Execute, Ordinary, DataFault, Trap, TakeBranch, TakeDelayedBranch,
           StorePsr, Acknowledge, StoreShadow, Rte, RteHosed
  <2>2. /\ "INT_SINGLESTEP" \in flags'
        /\ phase' # "entry" /\ (phase' = "dispatch" => ip' \in ssbp')
    <3>1. CASE Ordinary \/ StorePsr \/ Acknowledge \/ StoreShadow
      <4>1. DispatchNext /\ flags \subseteq flags'
        BY <3>1 DEF Ordinary, StorePsr, Acknowledge, StoreShadow, Flagged
      <4> QED
        BY <1>1, <2>1, <4>1, NextWord DEF Poised
    <3>2. CASE DataFault \/ Trap
      BY <2>1, <3>2 DEF DataFault, Trap, Raise, Poised
    <3>3. CASE TakeBranch
      BY <2>1, <3>3, Arrived DEF TakeBranch, Poised
    <3>4. CASE TakeDelayedBranch
      <4>1. Arrive(Succ(ip), ~SamePage(ip, Succ(ip)), "dispatch")
            /\ UNCHANGED flags
        BY <3>4 DEF TakeDelayedBranch, IncDIp
      <4> QED
        BY <1>1, <2>1, <4>1 DEF Arrive, SamePage, Poised
    <3>5. CASE Rte
      <4>1. Arrive(IF snip \in Addr THEN snip ELSE sfip, TRUE, "return_pt")
            /\ UNCHANGED flags
        BY <1>4, <3>5 DEF Rte
      <4> QED
        BY <2>1, <4>1 DEF Arrive, Poised
    <3>6. CASE RteHosed
      BY <2>1, <3>6 DEF RteHosed, Poised
    <3> QED
      BY <3>1, <3>2, <3>3, <3>4, <3>5, <3>6 DEF Execute
  <2> QED
    BY <2>1, <2>2 DEF Underway
<1> QED
  BY <1>1, <1>3, <1>4 DEF Stepping

\* An exception that ends the step is the only thing behind its instruction.
LEMMA ExceptionSteps ==
  ASSUME IInv, Stepping, gen_exception \/ CaughtError \/ Enter
  PROVE  Stepping'
<1>1. CASE gen_exception \/ CaughtError
  BY <1>1 DEF gen_exception, CaughtError, Caught, history, Stepping, Underway, Ended
<1>2. CASE Enter
  BY <1>2 DEF Enter, Stepping, Underway, Ended
<1> QED
  BY <1>1, <1>2

\* CHKINT and the marks.
LEMMA CheckSteps ==
  ASSUME IInv, Stepping,
         \/ NoInterrupt \/ ss_breakpoint \/ FrontEnd \/ Device
         \/ HitBreakpoint \/ FirstDispatch
  PROVE  Stepping'
<1>1. /\ phase \in {"entry", "dispatch", "chkint"}
      /\ UNCHANGED <<ss, did, took, ip, absent>>
  BY DEF NoInterrupt, ss_breakpoint, FrontEnd, Device, HitBreakpoint,
         FirstDispatch, history, machine
<1>2. CASE NoInterrupt \/ Device
  <2>1. phase = "chkint" /\ "INT_SINGLESTEP" \notin flags
        /\ phase' \in {"chkint", "dispatch", "gen_exception"}
    BY <1>2 DEF NoInterrupt, Device
  <2> QED
    BY <1>1, <2>1 DEF Stepping, Underway
<1>3. CASE ss_breakpoint
  <2>1. ss => did = 1
    BY <1>3 DEF ss_breakpoint, Stepping, Underway, Poised
  <2>2. phase' = IF ss THEN "return_pt" ELSE "dispatch"
    BY <1>3 DEF ss_breakpoint
  <2> QED
    BY <1>1, <2>1, <2>2 DEF Stepping, Underway, Ended
<1>4. CASE FrontEnd \/ HitBreakpoint
  BY <1>1, <1>4 DEF FrontEnd, HitBreakpoint, Stepping, Underway, Ended
<1>5. CASE FirstDispatch
  BY <1>1, <1>5 DEF FirstDispatch, Stepping, Underway, Ended, Poised
<1> QED
  BY <1>2, <1>3, <1>4, <1>5

\* A command begins and ends.
LEMMA CommandSteps ==
  ASSUME IInv, Stepping,
         return_pt \/ \E step \in BOOLEAN, B \in BreakMenu : sim_resume(step, B)
  PROVE  Stepping'
<1>1. CASE return_pt
  BY <1>1 DEF return_pt, history, Stepping, Underway, Ended
<1>2. ASSUME NEW step \in BOOLEAN, NEW B \in BreakMenu, sim_resume(step, B)
      PROVE  Stepping'
  <2>1. /\ did' = 0 /\ ss' = step /\ UNCHANGED absent
        /\ phase' \in {"without_check", "gen_exception", "entry"}
    BY <1>2, Arrived DEF sim_resume
  <2>2. ASSUME step, phase' = "entry" PROVE Poised'
    <3>1. ex = "E_NONE"
      BY <1>2, <2>2 DEF sim_resume
    <3>2. PageOf(ip) \notin absent
      BY <1>2, <2>2, <3>1 DEF sim_resume, Arrive
    <3>3. insert_ss_breakpoint(ip) /\ ip' = ip
      BY <1>2, <2>2, <3>1, <3>2, Arrived DEF sim_resume
    <3>4. Succ(ip) # ip
      BY SuccMoves DEF IInv, TypeOK
    <3> QED
      BY <2>1, <3>2, <3>3, <3>4 DEF insert_ss_breakpoint, Poised
  <2> QED
    BY <2>1, <2>2 DEF Stepping, Underway
<1> QED
  BY <1>1, <1>2

\* What happens beside sim() while it runs.
LEMMA OutsideSteps ==
  ASSUME IInv, Stepping,
         sim_interrupt \/ Request \/ (\E C \in CatchMenu : ecatch(C))
           \/ UNCHANGED vars
  PROVE  Stepping'
<1>1. /\ UNCHANGED <<phase, ip, ss, cause, ssbp, absent, did, took>>
      /\ flags \subseteq flags'
  BY DEF sim_interrupt, Request, ecatch, vars, machine, history
<1> QED
  BY <1>1 DEF Stepping, Underway, Ended, Poised

LEMMA NextSteps == IInv /\ Stepping /\ [Next]_vars => Stepping'
BY ExecuteSteps, ExceptionSteps, CheckSteps, CommandSteps, OutsideSteps
   DEF Next, Simulator

LEMMA InitSteps == Init => Stepping
BY DEF Init, Stepping, Ended

\* A step that reports nothing else has executed one instruction or taken
\* one exception, or both, for every program: across page ends, marks that
\* earlier steps have left, delayed branches and what handlers do with
\* pages (execute.c, insert_ss_breakpoint and ss_breakpoint).
THEOREM StepsOnce == Spec => []NoneIsOneStep
<1>1. Stepping => NoneIsOneStep
  BY DEF Stepping, Ended, NoneIsOneStep
<1> QED
  BY <1>1, Inductive, InitSteps, NextSteps, PTL DEF Spec

-----------------------------------------------------------------------------
(***************************************************************************)
(* The refinement: each step of the simulator is a step of the processor,  *)
(* leaves the processor as it is, or slips.                                *)
(***************************************************************************)
LEMMA SameNames ==
  /\ P!Addr = Addr /\ \A a : P!Succ(a) = Succ(a)
  /\ P!Exception = Exception
  /\ P!Maybe = Maybe /\ P!Delayed = Delayed
BY DEF P!Addr, Addr, P!Succ, Succ, P!Exception, Exception, P!Maybe, Maybe,
       P!Delayed, Delayed

\* Where sim() executes, nothing has been set back.
LEMMA Ahead == phase \notin {"without_check", "prompt"} => Nip = ip
BY DEF Nip, SetBack

LEMMA AheadNext == phase' \notin {"without_check", "prompt"} => Nip' = ip'
BY DEF Nip, SetBack

LEMMA Fetched == r_delayed = NoBranch => Fip = Succ(Nip)
BY DEF Fip

LEMMA FetchedNext == r_delayed' = NoBranch => Fip' = Succ(Nip')
BY DEF Fip

LEMMA Slipping == IInv /\ [Next]_vars => (slipped => slipped')
BY DEF Next, Simulator, Execute, vars, history, IInv, TypeOK, Ordinary, DataFault,
       Trap, Raise, TakeBranch, TakeDelayedBranch, Slips, StorePsr, Acknowledge,
       StoreShadow, Rte, RteHosed, gen_exception, CaughtError, Enter, NoInterrupt,
       ss_breakpoint, FrontEnd, Device, HitBreakpoint, FirstDispatch, return_pt,
       sim_resume, ecatch, sim_interrupt, Request

\* Behind DISPATCH_NEXT the processor has advanced.
LEMMA Advanced ==
  ASSUME IInv, IInv', DispatchNext, phase = "dispatch"
  PROVE  Nip = ip /\ P!Advance
<1>1. Nip = ip
  BY Ahead
<1>2. ip' = Fip
  BY <1>1, Dispatched DEF IInv, Fip
<1>3. Nip' = ip' /\ Fip' = Succ(ip')
  BY Dispatched, AheadNext, FetchedNext DEF IInv, Known
<1> QED
  BY <1>1, <1>2, <1>3, SameNames DEF P!Advance, P!Moves

\* The shadow registers, as the processor sees them.
LEMMA SameShadow ==
  /\ UNCHANGED <<psr, shadow>> => UNCHANGED <<P!psr, P!shadow>>
  /\ ~frozen' => P!Blank
BY DEF psr, shadow, P!psr, P!shadow, P!Blank

LEMMA OrdinaryStep ==
  ASSUME IInv, IInv', Ordinary, ~slipped' PROVE P!Next
<1>1. Nip = ip /\ P!Advance
  BY Advanced DEF Ordinary, Runs
<1>2. P!Ordinary
  BY <1>1, SameShadow, SameNames DEF Ordinary, Runs, P!Ordinary
<1>3. UNCHANGED ~slipped
  BY DEF Ordinary
<1> QED
  BY <1>2, <1>3 DEF P!Next

LEMMA PsrStep == ASSUME IInv, IInv', StorePsr, ~slipped' PROVE P!Next
<1>1. Nip = ip /\ P!Advance
  BY Advanced DEF StorePsr, Runs
<1>2. UNCHANGED ~slipped
  BY DEF StorePsr
<1>3. CASE Prog[ip] = "disable"
  <2>1. masked' = TRUE /\ UNCHANGED <<frozen, shadow>>
    BY <1>3 DEF StorePsr
  <2>2. UNCHANGED P!shadow
    BY <2>1 DEF shadow, P!shadow
  <2>3. P!Disable
    BY <1>1, <1>3, <2>1, <2>2 DEF P!Disable
  <2> QED
    BY <1>2, <2>3 DEF P!Next
<1>4. CASE Prog[ip] = "enable"
  <2>1. masked' = FALSE /\ frozen' = FALSE
    BY <1>4 DEF StorePsr
  <2>2. P!Enable
    BY <1>1, <1>4, <2>1, SameShadow DEF P!Enable
  <2> QED
    BY <1>2, <2>2 DEF P!Next
<1> QED
  BY <1>3, <1>4 DEF StorePsr, Runs

LEMMA AcknowledgeStep ==
  ASSUME IInv, IInv', Acknowledge, ~slipped' PROVE P!Next
<1>1. Nip = ip /\ P!Advance
  BY Advanced DEF Acknowledge, Runs
<1>2. P!Ordinary
  BY <1>1, SameShadow DEF Acknowledge, Runs, P!Ordinary
<1>3. UNCHANGED ~slipped
  BY DEF Acknowledge
<1> QED
  BY <1>2, <1>3 DEF P!Next

LEMMA ShadowStep == ASSUME IInv, IInv', StoreShadow, ~slipped' PROVE P!Next
<1>1. Nip = ip /\ P!Advance
  BY Advanced DEF StoreShadow, Runs
<1>2. UNCHANGED ~slipped
  BY DEF StoreShadow
<1>3. CASE frozen
  <2>1. /\ frozen' /\ UNCHANGED <<tfrozen, tmasked, sxip, psr>>
        /\ \/ Prog[ip] = "retry" /\ snip' = sxip
           \/ Prog[ip] = "drop" /\ snip' = Top + 1
        /\ sfip' = IF snip \in Addr THEN snip ELSE sfip
    BY <1>3 DEF StoreShadow, Runs, psr
  <2>2. P!Rewrite
    BY <1>1, <1>3, <2>1, SameNames DEF P!Rewrite, P!psr, psr
  <2> QED
    BY <1>2, <2>2 DEF P!Next
<1>4. CASE ~frozen
  <2>1. ~frozen' /\ UNCHANGED psr
    BY <1>4 DEF StoreShadow, psr
  <2>2. UNCHANGED <<P!psr, P!shadow>>
    BY <1>4, <2>1 DEF psr, P!psr, P!shadow
  <2>3. P!Unshadowed
    BY <1>1, <1>4, <2>2 DEF P!Unshadowed, StoreShadow, Runs
  <2> QED
    BY <1>2, <2>3 DEF P!Next
<1> QED
  BY <1>3, <1>4

LEMMA BranchStep == ASSUME IInv, IInv', TakeBranch, ~slipped' PROVE P!Next
<1>1. Nip = ip /\ r_delayed = NoBranch /\ r_delayed' = NoBranch
  BY Ahead DEF IInv, TypeOK, TakeBranch, Runs, Slips, pipe
<1>2. ip' = Dest[ip] /\ phase' \in {"gen_exception", "chkint"}
  BY Arrived DEF TakeBranch
<1>3. Nip' = Dest[ip] /\ Fip' = Succ(Dest[ip]) /\ Fip = Succ(ip)
  BY <1>1, <1>2, AheadNext, Fetched, FetchedNext
<1>4. P!Branch
  BY <1>1, <1>3, SameShadow, SameNames
     DEF P!Branch, P!Branches, P!Moves, TakeBranch, Runs
<1>5. UNCHANGED ~slipped
  BY DEF TakeBranch, Slips, IInv, TypeOK
<1> QED
  BY <1>4, <1>5 DEF P!Next

LEMMA DelayedBranchStep ==
  ASSUME IInv, IInv', TakeDelayedBranch, ~slipped' PROVE P!Next
<1>1. Nip = ip /\ r_delayed = NoBranch
  BY Ahead DEF IInv, TypeOK, TakeDelayedBranch, Runs, Slips
<1>2. ip' = Succ(ip) /\ phase' \in {"gen_exception", "dispatch"}
  BY Arrived DEF TakeDelayedBranch, IncDIp
<1>3. Fip' = Dest[ip]
  <2>1. \/ r_delayed' = Dest[ip]
        \/ r_delayed' = OffPage /\ delayed_ip' = Dest[ip]
    BY DEF TakeDelayedBranch
  <2>2. Dest[ip] \in Addr
    BY Names DEF IInv, TypeOK
  <2> QED
    BY <2>1, <2>2, Names DEF Fip
<1>4. Nip' = Succ(ip) /\ Fip = Succ(ip)
  BY <1>1, <1>2, AheadNext, Fetched
<1>5. P!DelayedBranch
  BY <1>1, <1>3, <1>4, SameShadow, SameNames
     DEF P!DelayedBranch, P!Moves, TakeDelayedBranch, Runs
<1>6. UNCHANGED ~slipped
  BY DEF TakeDelayedBranch, Slips, IInv, TypeOK
<1> QED
  BY <1>5, <1>6 DEF P!Next

LEMMA RteStep == ASSUME IInv, IInv', Rte, ~slipped' PROVE P!Next
<1>1. Nip = ip /\ frozen /\ ~tfrozen /\ Prog[ip] = "rte"
  BY Ahead DEF Rte, Runs
<1>2. ip' = (IF snip \in Addr THEN snip ELSE sfip)
      /\ phase' \notin {"without_check", "prompt"}
  <2>1. Arrive(IF snip \in Addr THEN snip ELSE sfip, TRUE,
               IF ss THEN "return_pt" ELSE "chkint")
    BY DEF Rte
  <2>2. ss \in BOOLEAN
    BY DEF IInv, TypeOK
  <2>3. ip' = (IF snip \in Addr THEN snip ELSE sfip)
    BY <2>1 DEF Arrive
  <2>4. phase' \notin {"without_check", "prompt"}
    BY <2>1, <2>2 DEF Arrive
  <2> QED
    BY <2>3, <2>4
<1>3. Nip' = ip'
  BY <1>2, AheadNext
<1>4. frozen' = FALSE /\ masked' = tmasked
  BY <1>1 DEF Rte, IInv, TypeOK
<1>5. Fip' = IF snip \in Addr THEN sfip ELSE Succ(sfip)
  <2>1. CASE snip \in Addr /\ sfip # Succ(snip)
    BY <2>1, Names DEF Rte, Refetch, Fip
  <2>2. CASE ~(snip \in Addr /\ sfip # Succ(snip))
    BY <2>2, <1>2, <1>3, FetchedNext DEF Rte, Refetch
  <2> QED
    BY <2>1, <2>2
<1>6. P!Moves(IF snip \in Addr THEN snip ELSE sfip,
              IF snip \in Addr THEN sfip ELSE Succ(sfip))
  BY <1>2, <1>3, <1>5 DEF P!Moves
<1>7. P!Rte
  <2>1. masked' = (frozen /\ tmasked) /\ ~(frozen /\ tfrozen)
    <3>1. tmasked \in BOOLEAN
      BY DEF IInv, TypeOK
    <3> QED
      BY <3>1, <1>1, <1>4, Zenon
  <2>2. P!Blank
    BY <1>4, SameShadow
  <2>3. IF snip \in Addr THEN P!Moves(snip, sfip)
                         ELSE P!Moves(sfip, Succ(sfip))
    BY <1>6
  <2> QED
    BY <1>1, <1>4, <2>1, <2>2, <2>3, SameNames DEF P!Rte
<1>8. UNCHANGED ~slipped
  BY DEF Rte
<1> QED
  BY <1>7, <1>8 DEF P!Next

\* An exception is raised, and perhaps caught: the shadow registers are
\* lost when they are frozen.
LEMMA ExceptionStep ==
  ASSUME IInv, IInv', gen_exception, ~slipped' PROVE P!Next \/ UNCHANGED P!vars
<1>1. Nip = ip
  BY Ahead DEF gen_exception
<1>2. /\ ex' = ex /\ phase' \in {"without_check", "prompt"}
      /\ UNCHANGED <<r_delayed, delayed_ip, psr, tfrozen, tmasked, sxip>>
      /\ UNCHANGED slipped
      /\ ip' = IF ex = "E_INT" THEN Pred(ip) ELSE ip
  BY DEF gen_exception, Caught, IInv, TypeOK
<1>3. Nip' = ip
  BY <1>2, SuccPred DEF Nip, SetBack, IInv, TypeOK
<1>4. Fip' = Fip
  BY <1>1, <1>2, <1>3 DEF Fip
<1>5. snip' \in Addr /\ sfip' \in Addr
  BY SuccType DEF gen_exception, IInv, TypeOK
<1>6. CASE frozen
  <2>1. P!Lose
    BY <1>1, <1>2, <1>3, <1>4, <1>5, <1>6, SameNames DEF P!Lose, psr, P!psr
  <2> QED
    BY <1>2, <2>1 DEF P!Next
<1>7. CASE ~frozen
  BY <1>1, <1>2, <1>3, <1>4, <1>7 DEF P!vars, P!psr, P!shadow, psr
<1> QED
  BY <1>6, <1>7

\* The handler is entered: the shadow registers say what was fetched.
LEMMA EnterStep == ASSUME IInv, IInv', Enter, ~slipped' PROVE P!Next
<1> DEFINE e == IF frozen THEN "E_ERR" ELSE ex
<1>1. /\ ~slipped /\ UNCHANGED slipped /\ phase = "without_check"
      /\ ip' = Vector[e] /\ phase' \in {"return_pt", "dispatch"}
      /\ r_delayed' = NoBranch
      /\ sxip' = ip /\ sfip' = Succ(snip')
      /\ snip' = IF r_delayed # NoBranch THEN delayed_ip ELSE Succ(ip)
      /\ frozen' = TRUE /\ masked' = TRUE
      /\ tfrozen' = frozen /\ tmasked' = masked
  BY DEF Enter, IInv, TypeOK
<1>2. e \in Exception
  BY <1>1 DEF IInv, Known, TypeOK, Exception
<1>3. P!Moves(Vector[e], Succ(Vector[e]))
  BY <1>1, AheadNext, FetchedNext DEF P!Moves
<1>4. r_delayed \notin Addr /\ (ex = "E_INT" => r_delayed = NoBranch)
  BY <1>1 DEF IInv, Straight, Raised
<1>5. snip' = IF r_delayed = OffPage THEN delayed_ip ELSE Succ(ip)
  BY <1>1, <1>4, Names DEF IInv, TypeOK, Target
<1>6. P!Fault(e) \/ P!Interrupt(e)
  <2>1. CASE e = "E_INT"
    <3>1. ex = "E_INT" /\ ~frozen /\ ~masked /\ r_delayed = NoBranch
      BY <1>4, <2>1 DEF IInv, Masked
    <3>2. Nip = Succ(ip) /\ Fip = Succ(Nip) /\ ip \in Addr
      BY <1>1, <3>1, Fetched DEF Nip, SetBack, IInv, TypeOK
    <3>3. snip' = Nip /\ sfip' = Fip
      BY <1>1, <3>1, <3>2
    <3>4. P!Interrupt(e)
      BY <1>1, <2>1, <3>1, <3>2, <3>3, SameNames DEF P!Interrupt
    <3> QED
      BY <3>4
  <2>2. CASE e # "E_INT"
    <3>1. ex # "E_INT" \/ frozen
      BY <2>2
    <3>2. ex # "E_INT"
      BY <3>1 DEF IInv, Masked
    <3>3. Nip = ip
      BY <3>2 DEF Nip, SetBack
    <3>4. snip' = Fip
      BY <1>4, <1>5, <3>3, Names DEF Fip, IInv, TypeOK, Target
    <3>5. e = "E_ERR" <=> frozen
      BY DEF IInv, Masked
    <3>6. P!Fault(e)
      BY <1>1, <2>2, <3>3, <3>4, <3>5, SameNames DEF P!Fault
    <3> QED
      BY <3>6
  <2> QED
    BY <2>1, <2>2
<1> HIDE DEF e
<1>7. P!Take(e)
  <2>1. (frozen /\ tfrozen)' = frozen /\ (frozen /\ tmasked)' = masked
    <3>1. frozen \in BOOLEAN /\ masked \in BOOLEAN
      BY DEF IInv, TypeOK
    <3> QED
      BY <3>1, <1>1, Zenon
  <2> QED
    BY <1>1, <1>3, <1>6, <2>1, SameNames DEF P!Take
<1> QED
  BY <1>1, <1>2, <1>7, SameNames DEF P!Next

\* What leaves the processor alone.
LEMMA Stutters ==
  ASSUME IInv, IInv',
         \/ DataFault \/ Trap \/ RteHosed \/ CaughtError
         \/ NoInterrupt \/ ss_breakpoint \/ FrontEnd \/ Device
         \/ HitBreakpoint \/ FirstDispatch \/ sim_interrupt \/ Request
         \/ \E C \in CatchMenu : ecatch(C)
         \/ UNCHANGED vars
  PROVE  UNCHANGED P!vars
<1>1. UNCHANGED <<ip, r_delayed, delayed_ip, psr, shadow, slipped>>
  BY DEF DataFault, Trap, Raise, RteHosed, CaughtError, Caught, NoInterrupt,
         ss_breakpoint, FrontEnd, Device, HitBreakpoint, FirstDispatch, sim_interrupt,
         Request, ecatch, vars, pipe, history
<1>2. SetBack' <=> SetBack
  BY DEF SetBack, IInv, Known, Masked, DataFault, Trap, Raise, RteHosed,
         CaughtError, Caught, NoInterrupt, ss_breakpoint, FrontEnd, Device,
         HitBreakpoint, FirstDispatch, sim_interrupt, Request, ecatch, vars, Runs
<1>3. Nip' = Nip /\ Fip' = Fip
  BY <1>1, <1>2 DEF Nip, Fip
<1> QED
  BY <1>1, <1>3 DEF P!vars, P!psr, P!shadow, psr, shadow

LEMMA ReturnStutters == ASSUME IInv, IInv', return_pt PROVE UNCHANGED P!vars
<1>1. UNCHANGED <<ip, r_delayed, delayed_ip, psr, sxip, slipped, ex>>
      /\ phase = "return_pt" /\ ex = "E_NONE"
  BY DEF return_pt, IInv, Known, history
<1>2. frozen => UNCHANGED <<snip, sfip, tfrozen, tmasked>>
  BY DEF return_pt
<1>3. Nip' = Nip /\ Fip' = Fip
  BY <1>1 DEF Nip, Fip, SetBack
<1> QED
  BY <1>1, <1>2, <1>3 DEF P!vars, P!psr, P!shadow, psr

LEMMA ResumeStutters ==
  ASSUME IInv, IInv', NEW step \in BOOLEAN, NEW B \in BreakMenu,
         sim_resume(step, B)
  PROVE  UNCHANGED P!vars
<1>1. /\ UNCHANGED <<ip, r_delayed, delayed_ip, psr, shadow, slipped>>
      /\ phase = "prompt"
      /\ \/ phase' = "without_check" /\ ex' = ex
         \/ ex = "E_NONE" /\ ex' \in {"E_NONE", "E_CACC"}
  BY Arrived DEF sim_resume, IInv, Kept
<1>2. Nip' = Nip /\ Fip' = Fip
  BY <1>1 DEF Nip, Fip, SetBack
<1> QED
  BY <1>1, <1>2 DEF P!vars, P!psr, P!shadow, psr, shadow

LEMMA NextStep == IInv /\ IInv' /\ [Next]_vars => [P!Next]_(P!vars)
<1> SUFFICES ASSUME IInv, IInv', [Next]_vars
             PROVE  P!Next \/ UNCHANGED P!vars
  OBVIOUS
<1>1. CASE slipped'
  <2>1. (~slipped)' = FALSE
    BY <1>1
  <2> QED
    BY <2>1 DEF P!Next
<1>2. CASE ~slipped' /\ Execute
  BY <1>2, OrdinaryStep, PsrStep, AcknowledgeStep, ShadowStep, BranchStep,
     DelayedBranchStep, RteStep, Stutters
     DEF Execute
<1>3. CASE ~slipped' /\ Simulator /\ ~Execute
  BY <1>3, ExceptionStep, EnterStep, Stutters, ReturnStutters DEF Simulator
<1>4. CASE ~slipped' /\ \E step \in BOOLEAN, B \in BreakMenu : sim_resume(step, B)
  BY <1>4, ResumeStutters
<1>5. CASE sim_interrupt \/ Request \/ (\E C \in CatchMenu : ecatch(C))
           \/ UNCHANGED vars
  BY <1>5, Stutters
<1> QED
  BY <1>1, <1>2, <1>3, <1>4, <1>5 DEF Next

LEMMA InitStep == Init => P!Init
BY Names, SuccType, SameNames
   DEF Init, P!Init, Nip, Fip, SetBack

\* What sim() executes is what the processor executes, for every program,
\* until it slips (execute.c, sim()).
THEOREM Refines == Spec => Implements
<1>1. Spec => P!Init /\ [][P!Next]_(P!vars)
  BY Inductive, InitStep, NextStep, PTL DEF Spec
<1> QED
  BY <1>1 DEF Implements, P!Spec
=============================================================================
