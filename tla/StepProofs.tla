----------------------------- MODULE StepProofs -----------------------------
(***************************************************************************)
(* What is true for every program, every set of breakpoints and every      *)
(* order of the user's commands, and which of the circumstances of Hazards *)
(* each fact cannot stand.  The types stand all five.  delayed_p can be    *)
(* believed unless it is "stale", a "trap" is stepped over or the program  *)
(* "fault"s; the debugger loses no delayed branch if there is none of them *)
(* and no breakpoint is "deleted" in a slot; and Step implements Pipeline  *)
(* if there is none at all.  TLC has a counterexample to each fact with    *)
(* each circumstance that its theorem leaves out.                          *)
(***************************************************************************)
EXTENDS Step, TLAPS

(***************************************************************************)
(* The inductive invariants.  SFIP strays from SNIP, and delayed_p is set, *)
(* only in a delay slot.  The two records of a delayed branch, SFIP and    *)
(* delayed_p with delayed_ip, may differ only at a breakpoint in a delay   *)
(* slot, where kludge_pc has overwritten SFIP and a step must come next.   *)
(* While the target runs delayed_p means nothing.                          *)
(***************************************************************************)
SlotKnown ==
  phase # "running" /\ delayed_p => delayed_ip = Succ(snip) \/ InSlot

PendingInSlot == sfip = Succ(snip) \/ InSlot

SlotInv == TypeOK /\ SlotKnown /\ PendingInSlot

RecordsAgree ==
  /\ phase \in {"go", "jump"} => sfip = HostFip
  /\ phase \in {"stopped", "oneproc"} =>
       \/ sfip = HostFip
       \/ delayed_p /\ snip \in breakpoints /\ sfip = Succ(snip)
  /\ phase = "oneproc" => snip \in breakpoints
  /\ phase = "jump" => ~delayed_p

IInv == TypeOK /\ RecordsAgree

\* What the assumptions say, in Step's own names.
LEMMA ProgramType ==
  /\ N \in Nat \ {0}
  /\ Addr = 0 .. N - 1
  /\ \A a \in Addr :
       /\ Program[a].op \in {"BR", "BB", "BSR", "JMP", "JSR", "NON_CONTROL", "TB"}
       /\ Program[a].n \in BOOLEAN
       /\ Program[a].flip \in BOOLEAN
       /\ Program[a].when \in BOOLEAN
       /\ Program[a].to \in Addr
       /\ Program[a].reg \in Hardware!Regs
       /\ Program[a].n => Program[a].op \in Hardware!Control
       /\ Program[a].n => Program[Succ(a)].op \notin Hardware!Control
       /\ Program[a].flip => Program[a].op = "NON_CONTROL"
BY StepAssumption DEF StepAssumption, Hardware!ProgramAssumption,
   Hardware!Instruction, Hardware!Ops, Hardware!Control, Hardware!Succ,
   Addr, Hardware!Addr, Succ

LEMMA SuccType == \A a \in Addr : Succ(a) \in Addr
BY ProgramType DEF Succ

LEMMA SameSucc == \A a : Hardware!Succ(a) = Succ(a) /\ Promise!Succ(a) = Succ(a)
BY DEF Hardware!Succ, Promise!Succ, Succ

-----------------------------------------------------------------------------
\* The types, an action at a time.

LEMMA InitInv == Init => SlotInv /\ IInv
<1> SUFFICES ASSUME Init PROVE SlotInv /\ IInv
  OBVIOUS
<1>1. 0 \in Addr
  BY ProgramType
<1>2. TypeOK
  BY <1>1, SuccType DEF Init, TypeOK, Phases
<1>3. SlotKnown /\ RecordsAgree /\ PendingInSlot
  BY DEF Init, SlotKnown, RecordsAgree, PendingInSlot, HostFip
<1> QED
  BY <1>2, <1>3 DEF IInv, SlotInv

LEMMA StepType ==
  ASSUME TypeOK, ss_remote
  PROVE  TypeOK'
<1> DEFINE i == Program[snip]
<1> USE DEF delayed
<1>1. /\ phase' \in Phases
      /\ UNCHANGED breakpoints
  BY DEF ss_remote, Phases
<1>2. /\ snip \in Addr /\ Succ(snip) \in Addr /\ Succ(Succ(snip)) \in Addr
      /\ delayed_ip \in Addr /\ Succ(delayed_ip) \in Addr
  BY SuccType DEF TypeOK
<1>3. i.to \in Addr /\ i.flip \in BOOLEAN /\ i.reg \in Hardware!Regs
  BY <1>2, ProgramType
<1>4. CASE step_non_control(i)
  <2>1. {sxip', snip', sfip', delayed_ip'} \subseteq Addr
    BY <1>2, <1>4, SuccType DEF step_non_control, ShadowIPs
  <2>2. bit' \in BOOLEAN
    BY <1>4, <1>3, Zenon DEF step_non_control, TypeOK
  <2> QED
    BY <2>1, <2>2, <1>1, <1>4 DEF step_non_control, TypeOK
<1>5. CASE simulate_branch(i)
  <2>1. Destination(i, regs) \in Addr
    BY <1>3 DEF Destination, TypeOK
  <2>2. {sxip', snip', sfip', delayed_ip'} \subseteq Addr
    BY <1>2, <1>5, <2>1, SuccType DEF simulate_branch, ShadowIPs
  <2>3. regs' \in [Hardware!Regs -> Addr]
    BY <1>2, <1>5 DEF simulate_branch, Linked, TypeOK
  <2> QED
    BY <2>2, <2>3, <1>1, <1>5 DEF simulate_branch, TypeOK
<1>6. CASE simulate_delayed_branch(i)
  <2>1. regs' \in [Hardware!Regs -> Addr]
    BY <1>2, <1>6 DEF simulate_delayed_branch, Linked, TypeOK
  <2>2. \A r : r \in [Hardware!Regs -> Addr] => Destination(i, r) \in Addr
    BY <1>3 DEF Destination
  <2>3. {sxip', snip', sfip', delayed_ip'} \subseteq Addr
    BY <1>2, <1>6, <2>1, <2>2 DEF simulate_delayed_branch, ShadowIPs, TypeOK
  <2>4. delayed_p' \in BOOLEAN
    BY <1>6 DEF simulate_delayed_branch, Taken
  <2> QED
    BY <2>1, <2>3, <2>4, <1>1, <1>6 DEF simulate_delayed_branch, TypeOK
<1>7. CASE skip_trap_not_taken(i)
  BY <1>1, <1>2, <1>7 DEF skip_trap_not_taken, ShadowIPs, TypeOK
<1> QED
  BY <1>4, <1>5, <1>6, <1>7 DEF ss_remote

\* What an instruction of the running target does, in Step's names.
LEMMA RunStep ==
  ASSUME TypeOK, Running
  PROVE  /\ TypeOK' /\ phase' = "running"
         /\ sfip' = Succ(snip') \/ InSlot'
<1> DEFINE i == Program[snip]
           t == Hardware!Target(i)
<1>1. /\ snip \in Addr /\ sfip \in Addr /\ Succ(sfip) \in Addr
      /\ phase = "running" /\ phase' = "running"
      /\ sxip' = snip /\ UNCHANGED <<delayed, breakpoints>>
  BY SuccType DEF Running, TypeOK
<1>2. i.to \in Addr /\ i.flip \in BOOLEAN /\ i.reg \in Hardware!Regs
  BY <1>1, ProgramType
<1>3. t \in Addr /\ Succ(t) \in Addr
  BY <1>2, SuccType DEF Hardware!Target, TypeOK
<1>4. /\ i.op \in Hardware!Control => sfip = Succ(snip)
      /\ snip' = IF Hardware!Jumps(i) /\ ~i.n THEN t ELSE sfip
      /\ sfip' = IF ~Hardware!Jumps(i) THEN Succ(sfip)
                 ELSE IF i.n THEN t ELSE Succ(t)
      /\ bit' = (bit # i.flip)
      /\ regs' = IF i.op \in {"BSR", "JSR"}
                   THEN [regs EXCEPT !["r1"] = IF i.n THEN Succ(sfip) ELSE sfip]
                   ELSE regs
  BY SameSucc DEF Running, Hardware!Execute
<1>5. TypeOK'
  <2>1. bit' \in BOOLEAN
    BY <1>2, <1>4, Zenon DEF TypeOK
  <2>2. snip' \in Addr /\ sfip' \in Addr
    BY <1>1, <1>3, <1>4
  <2>3. regs' \in [Hardware!Regs -> Addr]
    BY <1>1, <1>4 DEF TypeOK
  <2> QED
    BY <1>1, <2>1, <2>2, <2>3 DEF TypeOK, delayed
<1>6. sfip' = Succ(snip') \/ InSlot'
  <2>1. CASE Hardware!Jumps(i) /\ i.n
    <3>1. snip' = Succ(snip)
      BY <1>4, <2>1 DEF Hardware!Jumps
    <3> QED
      BY <1>1, <2>1, <3>1 DEF InSlot
  <2>2. CASE ~(Hardware!Jumps(i) /\ i.n)
    BY <1>4, <2>2
  <2> QED
    BY <2>1, <2>2
<1> QED
  BY <1>1, <1>5, <1>6

\* The steps of the debugger and of the user other than ss_remote.
Others ==
  \/ ss_remote_refuses \/ proceed \/ go_remote
  \/ \E a \in Addr : proceed_at(a)
  \/ HitBreakpoint \/ Interrupt \/ Fault
  \/ \E a \in Breakable : SetBreakpoint(a) \/ DeleteBreakpoint(a)
  \/ UNCHANGED vars

LEMMA NextSteps == [Next]_vars => ss_remote \/ Running \/ Others
BY DEF Next, Others

LEMMA OtherType ==
  ASSUME TypeOK, Others
  PROVE  TypeOK'
<1> USE DEF TypeOK, Phases, target, delayed
<1>1. CASE ss_remote_refuses \/ proceed \/ go_remote \/ Fault
  BY <1>1 DEF ss_remote_refuses, proceed, go_remote, Fault
<1>2. ASSUME NEW a \in Addr, proceed_at(a) PROVE TypeOK'
  BY <1>2, SuccType DEF proceed_at
<1>3. CASE HitBreakpoint
  BY <1>3, SuccType DEF HitBreakpoint, ShadowIPs
<1>4. CASE Interrupt
  BY <1>4 DEF Interrupt
<1>5. ASSUME NEW a \in Breakable, SetBreakpoint(a) \/ DeleteBreakpoint(a)
      PROVE  TypeOK'
  BY <1>5 DEF SetBreakpoint, DeleteBreakpoint
<1>6. CASE UNCHANGED vars
  BY <1>6 DEF vars
<1> QED
  BY <1>1, <1>2, <1>3, <1>4, <1>5, <1>6 DEF Others

LEMMA NextType ==
  ASSUME TypeOK, [Next]_vars
  PROVE  TypeOK'
BY NextSteps, StepType, RunStep, OtherType

\* The types hold in every state, in all five circumstances (the
\* declarations of remrun.c).
THEOREM TypeCorrect == Spec => []TypeOK
<1>1. Init => TypeOK
  BY InitInv DEF IInv
<1>2. TypeOK /\ [Next]_vars => TypeOK'
  BY NextType
<1> QED
  BY <1>1, <1>2, PTL DEF Spec

-----------------------------------------------------------------------------
\* Delay slots.

LEMMA SlotStep ==
  ASSUME SlotInv, "trap" \notin Hazards, ss_remote
  PROVE  SlotKnown' /\ PendingInSlot'
<1> DEFINE i == Program[snip]
<1> USE DEF delayed
<1>1. snip \in Addr /\ delayed_p \in BOOLEAN
  BY DEF SlotInv, TypeOK
<1>2. CASE step_non_control(i)
  BY <1>2 DEF step_non_control, ShadowIPs, SlotKnown, PendingInSlot
<1>3. CASE simulate_branch(i)
  BY <1>3 DEF simulate_branch, ShadowIPs, SlotKnown, PendingInSlot
<1>4. CASE simulate_delayed_branch(i)
  <2>1. InSlot'
    BY <1>1, <1>4 DEF simulate_delayed_branch, ShadowIPs, InSlot
  <2> QED
    BY <2>1 DEF SlotKnown, PendingInSlot
<1>5. CASE skip_trap_not_taken(i)
  BY <1>5 DEF skip_trap_not_taken, ShadowIPs, SlotKnown, PendingInSlot
<1> QED
  BY <1>2, <1>3, <1>4, <1>5 DEF ss_remote

LEMMA SlotOthers ==
  ASSUME SlotInv, Hazards \cap {"stale", "fault"} = {}, Others
  PROVE  SlotKnown' /\ PendingInSlot'
<1> USE DEF SlotInv, target, delayed, SlotKnown, PendingInSlot
<1>1. CASE ss_remote_refuses \/ proceed \/ go_remote
  BY <1>1 DEF ss_remote_refuses, proceed, go_remote, InSlot
<1>2. ASSUME NEW a \in Addr, proceed_at(a) PROVE SlotKnown' /\ PendingInSlot'
  BY <1>2 DEF proceed_at
<1>3. CASE HitBreakpoint
  BY <1>3 DEF HitBreakpoint, ShadowIPs, InSlot
<1>4. CASE Interrupt
  BY <1>4 DEF Interrupt, InSlot
<1>5. ASSUME NEW a \in Breakable, SetBreakpoint(a) \/ DeleteBreakpoint(a)
      PROVE  SlotKnown' /\ PendingInSlot'
  BY <1>5 DEF SetBreakpoint, DeleteBreakpoint, InSlot
<1>6. CASE Fault
  BY <1>6 DEF Fault, InSlot
<1>7. CASE UNCHANGED vars
  BY <1>7 DEF vars, InSlot
<1> QED
  BY <1>1, <1>2, <1>3, <1>4, <1>5, <1>6, <1>7 DEF Others

\* While the user looks at the target, a delayed_p that is set is set at a
\* delayed branch's end: unless he may leave a slot without a step, step
\* over a trap that is not taken, or the program faults in a slot
\* (check_for_delay_slot_after_interrupt, which never clears it).
THEOREM SlotTruth ==
  Hazards \cap {"stale", "trap", "fault"} = {} => (Spec => []DelayedInSlot)
<1> SUFFICES ASSUME Hazards \cap {"stale", "trap", "fault"} = {}
             PROVE  Spec => []DelayedInSlot
  OBVIOUS
<1>1. SlotInv /\ [Next]_vars => SlotInv'
  <2> SUFFICES ASSUME SlotInv, [Next]_vars
               PROVE  SlotInv'
    OBVIOUS
  <2>1. TypeOK /\ TypeOK'
    BY NextType DEF SlotInv
  <2>2. CASE ss_remote
    BY <2>1, <2>2, SlotStep DEF SlotInv
  <2>3. CASE Running
    BY <2>1, <2>3, RunStep DEF SlotInv, SlotKnown, PendingInSlot
  <2>4. CASE Others
    BY <2>1, <2>4, SlotOthers DEF SlotInv
  <2> QED
    BY <2>2, <2>3, <2>4, NextSteps
<1>2. SlotInv => DelayedInSlot
  BY DEF SlotInv, SlotKnown, DelayedInSlot
<1>3. Init => SlotInv
  BY InitInv
<1> QED
  BY <1>1, <1>2, <1>3, PTL DEF Spec

-----------------------------------------------------------------------------
\* The two records of a delayed branch.

\* What a step leaves behind: it repairs whatever kludge_pc had done.
LEMMA StepAgrees ==
  ASSUME IInv, "trap" \notin Hazards, ss_remote
  PROVE  RecordsAgree' /\ sfip' = HostFip'
<1> DEFINE i == Program[snip]
<1> USE DEF delayed
<1>1. phase' \in {"stopped", "go"} /\ delayed_p \in BOOLEAN
  BY DEF ss_remote, IInv, TypeOK
<1>. SUFFICES sfip' = HostFip'
  BY <1>1 DEF RecordsAgree
<1>2. CASE step_non_control(i)
  BY <1>2 DEF step_non_control, ShadowIPs, HostFip
<1>3. CASE simulate_branch(i)
  BY <1>1, <1>3 DEF simulate_branch, ShadowIPs, HostFip
<1>4. CASE simulate_delayed_branch(i)
  BY <1>4 DEF simulate_delayed_branch, ShadowIPs, HostFip
<1>5. CASE skip_trap_not_taken(i)
  BY <1>1, <1>5 DEF skip_trap_not_taken, ShadowIPs, HostFip
<1> QED
  BY <1>2, <1>3, <1>4, <1>5 DEF ss_remote

LEMMA OtherAgrees ==
  ASSUME IInv, Hazards \cap {"stale", "deleted", "fault"} = {}, Others
  PROVE  RecordsAgree'
<1> USE DEF IInv, TypeOK, RecordsAgree, HostFip, target, delayed
<1>1. CASE ss_remote_refuses
  BY <1>1 DEF ss_remote_refuses
<1>2. CASE proceed
  BY <1>2 DEF proceed
<1>3. CASE go_remote
  BY <1>3 DEF go_remote
<1>4. ASSUME NEW a \in Addr, proceed_at(a) PROVE RecordsAgree'
  BY <1>4 DEF proceed_at
<1>5. CASE HitBreakpoint
  BY <1>5 DEF HitBreakpoint, ShadowIPs
<1>6. CASE Interrupt
  BY <1>6 DEF Interrupt
<1>7. ASSUME NEW a \in Breakable, SetBreakpoint(a) PROVE RecordsAgree'
  BY <1>7 DEF SetBreakpoint
<1>8. ASSUME NEW a \in Breakable, DeleteBreakpoint(a) PROVE RecordsAgree'
  BY <1>8 DEF DeleteBreakpoint
<1>9. CASE Fault
  BY <1>9 DEF Fault
<1>10. CASE UNCHANGED vars
  BY <1>10 DEF vars
<1> QED
  BY <1>1, <1>2, <1>3, <1>4, <1>5, <1>6, <1>7, <1>8, <1>9, <1>10 DEF Others

LEMMA NextInv ==
  ASSUME IInv, Hazards \subseteq {"link"}, [Next]_vars
  PROVE  IInv'
<1>1. TypeOK'
  BY NextType DEF IInv
<1>2. Hazards \cap {"stale", "trap", "deleted", "fault"} = {}
  OBVIOUS
<1>3. CASE ss_remote
  BY <1>1, <1>2, <1>3, StepAgrees DEF IInv
<1>4. CASE Running
  BY <1>1, <1>4, RunStep DEF IInv, RecordsAgree
<1>5. CASE Others
  BY <1>1, <1>2, <1>5, OtherAgrees DEF IInv
<1> QED
  BY <1>3, <1>4, <1>5, NextSteps

\* What go_remote starts the target with is what a step would do next, if
\* delayed_p is never stale, no trap is stepped over, no breakpoint is
\* deleted in a slot and the program does not fault in one; each of the
\* four loses the branch (go_remote, skip_trap_not_taken).
THEOREM GoSafe == Hazards \subseteq {"link"} => (Spec => []GoKeepsBranch)
<1> SUFFICES ASSUME Hazards \subseteq {"link"} PROVE Spec => []GoKeepsBranch
  OBVIOUS
<1>1. IInv /\ [Next]_vars => IInv'
  BY NextInv
<1>2. IInv => GoKeepsBranch
  BY DEF IInv, RecordsAgree, GoKeepsBranch
<1> QED
  BY InitInv, <1>1, <1>2, PTL DEF Spec

\* In the same circumstances a stop in a delay slot, with the branch still
\* to come, is never overlooked (check_for_delay_slot_after_interrupt).
THEOREM SlotsSeen == Hazards \subseteq {"link"} => (Spec => []SlotSeen)
<1> SUFFICES ASSUME Hazards \subseteq {"link"} PROVE Spec => []SlotSeen
  OBVIOUS
<1>1. IInv /\ [Next]_vars => IInv'
  BY NextInv
<1>2. IInv => SlotSeen
  BY DEF IInv, RecordsAgree, SlotSeen, HostFip
<1> QED
  BY InitInv, <1>1, <1>2, PTL DEF Spec

\* So the commands can go by delayed_p, both ways, in those circumstances.
THEOREM DelayedBelieved == Hazards \subseteq {"link"} => (Spec => []DelayedTrue)
<1> SUFFICES ASSUME Hazards \subseteq {"link"} PROVE Spec => []DelayedTrue
  OBVIOUS
<1>1. Hazards \cap {"stale", "trap", "fault"} = {}
  OBVIOUS
<1>2. Spec => []DelayedInSlot
  BY <1>1, SlotTruth
<1>3. Spec => []SlotSeen
  BY SlotsSeen
<1>4. DelayedInSlot /\ SlotSeen => DelayedTrue
  BY DEF DelayedTrue
<1> QED
  BY <1>2, <1>3, <1>4, PTL

-----------------------------------------------------------------------------
(***************************************************************************)
(* Step implements Pipeline.  A step, and an instruction of the running    *)
(* target, are each one instruction of the abstract processor; proceed_at  *)
(* is MovePC; everything else the debugger does leaves the processor where *)
(* it was, the stop at a breakpoint included.                              *)
(***************************************************************************)
PromiseFip == IF phase \in {"stopped", "oneproc"} THEN HostFip ELSE sfip

LEMMA InitMaps == Init => Promise!Init
BY SameSucc DEF Init, Promise!Init, HostFip, Hardware!Regs, Promise!Regs,
   Addr, Hardware!Addr, Promise!Addr

\* One step, an instruction class at a time.
LEMMA StepMaps ==
  ASSUME IInv, Hazards = {}, ss_remote
  PROVE  Promise!Next
<1> DEFINE i == Program[snip]
<1> USE SameSucc DEF delayed
<1>1. phase \in {"stopped", "oneproc"} /\ sfip' = HostFip'
  BY StepAgrees DEF ss_remote
<1>2. PromiseFip = HostFip /\ PromiseFip' = HostFip'
  BY <1>1 DEF PromiseFip
<1>3. phase # "jump" /\ phase' # "jump"
  BY DEF ss_remote
<1>4. snip \in Addr /\ regs \in [Hardware!Regs -> Addr] /\ delayed_p \in BOOLEAN
  BY DEF IInv, TypeOK
<1>5. i.n \in BOOLEAN /\ i.reg \in Hardware!Regs /\ i.when \in BOOLEAN
      /\ (i.n => i.op \in Hardware!Control)
      /\ i.flip \in BOOLEAN /\ (i.flip => i.op = "NON_CONTROL")
      /\ bit \in BOOLEAN
  BY <1>4, ProgramType DEF IInv, TypeOK
<1> DEFINE t == Promise!Target(i)
           Executed ==
             /\ i.op = "TB" => bit # i.when
             /\ i.op \in Promise!Control => HostFip = Succ(snip)
             /\ snip' = IF Promise!Jumps(i) /\ ~i.n THEN t ELSE HostFip
             /\ HostFip' = IF ~Promise!Jumps(i) THEN Succ(HostFip)
                           ELSE IF i.n THEN t ELSE Succ(t)
             /\ bit' = (bit # i.flip)
             /\ regs' = IF i.op \in {"BSR", "JSR"}
                          THEN [regs EXCEPT !["r1"] = IF i.n THEN Succ(HostFip)
                                                            ELSE HostFip]
                          ELSE regs
<1>6. SUFFICES Executed
  BY <1>2, <1>3 DEF Promise!Next, Promise!Execute, PromiseFip
<1>7. CASE step_non_control(i)
  BY <1>7, <1>1 DEF step_non_control, ShadowIPs, HostFip, Promise!Jumps,
     Promise!Control
<1>8. CASE simulate_branch(i)
  <2>1. HostFip = Succ(snip) /\ HostFip' = Succ(snip') /\ UNCHANGED bit
    BY <1>8, <1>1 DEF simulate_branch, ShadowIPs, HostFip
  <2>2. snip' = IF Taken(i) THEN Destination(i, regs) ELSE Succ(snip)
    BY <1>8 DEF simulate_branch, ShadowIPs
  <2>3. /\ Taken(i) <=> Promise!Jumps(i)
        /\ Destination(i, regs) = t
        /\ i.op \in Promise!Control /\ ~i.n
    BY <1>8 DEF simulate_branch, Hardware!Control, Promise!Control, Taken,
       Promise!Jumps, Destination, Promise!Target
  <2>4. regs' = Linked(i, Succ(snip)) /\ i.op # "TB"
    BY <1>8 DEF simulate_branch, Hardware!Control
  <2>5. bit' = (bit # i.flip)
    <3>1. i.flip = FALSE
      BY <1>5, <1>8 DEF simulate_branch, Hardware!Control
    <3> QED
      BY <3>1, <2>1, <1>5, Zenon
  <2> QED
    BY <2>1, <2>2, <2>3, <2>4, <2>5 DEF Linked
<1>9. CASE simulate_delayed_branch(i)
  <2>1. /\ HostFip = Succ(snip) /\ UNCHANGED bit /\ i.n
        /\ i.op \in Promise!Control /\ i.op # "TB"
    BY <1>9 DEF simulate_delayed_branch, HostFip, Hardware!Control,
       Promise!Control
  <2>2. regs' = Linked(i, Succ(Succ(snip)))
    BY <1>9 DEF simulate_delayed_branch
  <2>3. Destination(i, IF i.op = "JSR" THEN regs' ELSE regs) = t
    <3>1. i.op = "JSR" => i.reg # "r1"
      BY <1>9 DEF simulate_delayed_branch
    <3>2. i.op = "JSR" => regs'[i.reg] = regs[i.reg]
      BY <3>1, <2>2, <1>4, <1>5 DEF Linked
    <3> QED
      BY <3>2 DEF Destination, Promise!Target
  <2>4. /\ Taken(i) <=> Promise!Jumps(i)
        /\ snip' = Succ(snip)
        /\ sfip' = IF Taken(i) THEN t ELSE Succ(Succ(snip))
    BY <1>9, <2>1, <2>3 DEF simulate_delayed_branch, ShadowIPs, Taken,
       Promise!Jumps
  <2>5. bit' = (bit # i.flip)
    <3>1. i.flip = FALSE
      BY <1>5, <2>1 DEF Promise!Control
    <3> QED
      BY <3>1, <2>1, <1>5, Zenon
  <2> QED
    BY <2>1, <2>2, <2>4, <2>5, <1>1 DEF Linked
<1>10. CASE skip_trap_not_taken(i)
  <2>1. /\ HostFip = Succ(snip) /\ UNCHANGED <<bit, regs>>
        /\ i.op = "TB" /\ i.when # bit /\ snip' = Succ(snip)
        /\ sfip' = Succ(Succ(snip))
    BY <1>10, <1>4 DEF skip_trap_not_taken, ShadowIPs, HostFip
  <2>2. ~Promise!Jumps(i) /\ i.op \notin Promise!Control
    BY <2>1 DEF Promise!Jumps, Promise!Control
  <2>3. bit' = (bit # i.flip) /\ bit # i.when
    <3>1. i.flip = FALSE
      BY <1>5, <2>1
    <3> QED
      BY <3>1, <2>1, <1>5, Zenon
  <2> QED
    BY <2>1, <2>2, <2>3, <1>1
<1> QED
  BY <1>7, <1>8, <1>9, <1>10 DEF ss_remote

LEMMA RunMaps ==
  ASSUME IInv, Running
  PROVE  Promise!Next
BY SameSucc DEF Running, Promise!Next, Promise!Execute, Hardware!Execute,
   Promise!Jumps, Hardware!Jumps, Promise!Target, Hardware!Target,
   Promise!Control, Hardware!Control

LEMMA OtherMaps ==
  ASSUME IInv, Hazards = {}, Others
  PROVE  Promise!Next \/ UNCHANGED Promise!vars
<1> USE DEF target, delayed, Promise!vars
<1>1. CASE ss_remote_refuses
  BY <1>1 DEF ss_remote_refuses, HostFip
<1>2. CASE proceed
  <2>1. snip \notin breakpoints => sfip = HostFip
    BY <1>2 DEF proceed, IInv, RecordsAgree
  <2> QED
    BY <1>2, <2>1 DEF proceed, HostFip
<1>3. CASE go_remote
  BY <1>3 DEF go_remote, Promise!Next, Promise!Restart
<1>4. ASSUME NEW a \in Addr, proceed_at(a) PROVE Promise!Next
  BY <1>4, SameSucc DEF proceed_at, Promise!Next, Promise!MovePC,
     Addr, Hardware!Addr, Promise!Addr
<1>5. CASE HitBreakpoint
  BY <1>5 DEF HitBreakpoint, ShadowIPs, HostFip
<1>6. CASE Interrupt
  BY <1>6 DEF Interrupt, HostFip, IInv, TypeOK
<1>7. ASSUME NEW a \in Breakable, SetBreakpoint(a)
      PROVE  UNCHANGED Promise!vars
  BY <1>7 DEF SetBreakpoint, HostFip
<1>8. ASSUME NEW a \in Breakable, DeleteBreakpoint(a)
      PROVE  UNCHANGED Promise!vars
  BY <1>8 DEF DeleteBreakpoint, HostFip
<1>9. CASE Fault
  BY <1>9 DEF Fault, HostFip, IInv, TypeOK
<1>10. CASE UNCHANGED vars
  BY <1>10 DEF vars, HostFip
<1> QED
  BY <1>1, <1>2, <1>3, <1>4, <1>5, <1>6, <1>7, <1>8, <1>9, <1>10 DEF Others

\* Where none of the five circumstances occurs, the user's program runs as
\* on a bare 88100 (ss_remote, go_remote); each of them breaks this.
THEOREM Implements == Hazards = {} => (Spec => Pipelined)
<1> SUFFICES ASSUME Hazards = {} PROVE Spec => Promise!Spec
  BY DEF Pipelined
<1>1. IInv /\ [Next]_vars => IInv'
  BY NextInv
<1>2. IInv /\ [Next]_vars => [Promise!Next]_Promise!vars
  BY StepMaps, RunMaps, OtherMaps, NextSteps
<1> QED
  BY InitInv, InitMaps, <1>1, <1>2, PTL DEF Spec, Promise!Spec
=============================================================================
