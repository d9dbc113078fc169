-------------------------------- MODULE Step --------------------------------
(***************************************************************************)
(* Running and single-stepping one processor: remrun.c, with the part of   *)
(* infrun.c (proceed, normal_stop) that decides when a breakpoint is in    *)
(* the program.  The 88100 cannot step, so the debugger simulates control  *)
(* instructions itself and runs every other one with the ROM's trap in     *)
(* place of the instruction behind it.  A stop leaves the processor in the *)
(* middle of its pipeline, so the debugger must carry a pending delayed    *)
(* branch from one command to the next: in the shadow register SFIP when   *)
(* it runs the target, in delayed_p and delayed_ip when it steps.          *)
(*                                                                         *)
(* Hazards names the circumstances in which the code loses that branch;    *)
(* the ones it does not hold do not occur in a behaviour:                  *)
(*   "stale"    delayed_p is set, and the user leaves the delay slot with  *)
(*              continue or jump instead of a step, which does not clear   *)
(*              it, and then interrupts the target;                        *)
(*   "trap"     a step over a tb0 or tb1 that does not trap;               *)
(*   "link"     a step of jsr.n r1;                                        *)
(*   "deleted"  the user deletes the breakpoint he is stopped at, in a     *)
(*              delay slot;                                                *)
(*   "fault"    the program takes another exception in a delay slot, or    *)
(*              with delayed_p set.                                        *)
(***************************************************************************)
EXTENDS Naturals

CONSTANTS
  N, Program,   \* the program, as in Pipeline
  Breakable,    \* the addresses at which the user puts breakpoints
  Hazards

VARIABLES
  sxip, snip, sfip,       \* the shadow registers: executed, next, fetched
  delayed_p, delayed_ip,  \* the host's own record of a delayed branch
  bit, regs,              \* the tested bit and the registers jumps use
  breakpoints,            \* the user's breakpoints
  phase                   \* where proceed() and remote_wait() are

target == <<sxip, snip, sfip, bit, regs>>
delayed == <<delayed_p, delayed_ip>>
vars == <<target, delayed, breakpoints, phase>>

\* The processor while it runs.
Hardware == INSTANCE Pipeline WITH nip <- snip, fip <- sfip, moved <- FALSE

Addr == Hardware!Addr

\* "oneproc": stepping off a breakpoint, breakpoints out of the program;
\* "go": breakpoints in the program, go_remote about to be called; "jump":
\* the same, with the pcs the user asked for.
Phases == {"stopped", "oneproc", "go", "jump", "running"}

StepAssumption ==
  /\ Hardware!ProgramAssumption
  /\ Breakable \subseteq Addr
  /\ Hazards \subseteq {"stale", "trap", "link", "deleted", "fault"}

ASSUME StepAssumption

Succ_unwrapped(a) == a + 1

Succ(a) == (a + 1) % N

Init ==
  /\ sxip = 0 /\ snip = 0 /\ sfip = Succ(0)
  /\ delayed_p = FALSE /\ delayed_ip = 0
  /\ bit \in BOOLEAN
  /\ regs \in [Hardware!Regs -> Addr] /\ regs["r1"] = 0
  /\ breakpoints = {}
  /\ phase = "stopped"

-----------------------------------------------------------------------------
\* ss_remote: one instruction, at snip.

ShadowIPs(executed, next, fetched) ==
  sxip' = executed /\ snip' = next /\ sfip' = fetched

Taken(i) == i.op = "BB" => i.when = bit

\* Where a control instruction goes, given the registers it reads.
Destination(i, r) == IF i.op \in {"JMP", "JSR"} THEN r[i.reg] ELSE i.to

Linked(i, a) ==
  IF i.op \in {"BSR", "JSR"} THEN [regs EXCEPT !["r1"] = a] ELSE regs

\* The target executes the instruction; the host then repairs the pcs.
step_non_control_forgets(i) ==
  /\ i.op = "NON_CONTROL"
  /\ LET new_ip == IF delayed_p THEN delayed_ip ELSE Succ(snip)
     IN  ShadowIPs(snip, new_ip, Succ(new_ip))
  /\ bit' = (bit # i.flip)
  /\ UNCHANGED <<regs, delayed>>

step_non_control(i) ==
  /\ i.op = "NON_CONTROL"
  /\ LET new_ip == IF delayed_p THEN delayed_ip ELSE Succ(snip)
     IN  ShadowIPs(snip, new_ip, Succ(new_ip))
  /\ delayed_p' = FALSE
  /\ bit' = (bit # i.flip)
  /\ UNCHANGED <<regs, delayed_ip>>

simulate_branch(i) ==
  /\ i.op \in Hardware!Control /\ ~i.n /\ ~delayed_p
  /\ LET new_ip == IF Taken(i) THEN Destination(i, regs) ELSE Succ(snip)
     IN  ShadowIPs(snip, new_ip, Succ(new_ip))
  /\ regs' = Linked(i, Succ(snip))
  /\ UNCHANGED <<bit, delayed>>

simulate_delayed_branch_adjacent(i) ==
  /\ i.op \in Hardware!Control /\ i.n /\ ~delayed_p
  /\ regs' = Linked(i, Succ(Succ(snip)))
  /\ delayed_p' = Taken(i)
  /\ delayed_ip' = IF Taken(i) THEN Destination(i, regs) ELSE delayed_ip
  /\ ShadowIPs(snip, Succ(snip), Succ(Succ(snip)))
  /\ UNCHANGED bit

\* A jsr.n reads its destination after it has written the return address.
simulate_delayed_branch(i) ==
  LET dest == Destination(i, IF i.op = "JSR" THEN regs' ELSE regs)
  IN  /\ i.op \in Hardware!Control /\ i.n /\ ~delayed_p
      /\ i.op = "JSR" /\ i.reg = "r1" => "link" \in Hazards
      /\ regs' = Linked(i, Succ(Succ(snip)))
      /\ delayed_p' = Taken(i)
      /\ delayed_ip' = IF Taken(i) THEN dest ELSE delayed_ip
      /\ ShadowIPs(snip, Succ(snip), IF Taken(i) THEN dest
                                                 ELSE Succ(Succ(snip)))
      /\ UNCHANGED bit

\* The pcs take no account of delayed_p, and SFIP is made from delayed_ip.
skip_trap_not_taken(i) ==
  /\ i.op = "TB" /\ i.when # bit
  /\ "trap" \in Hazards \/ (~delayed_p /\ delayed_ip = Succ(snip))
  /\ ShadowIPs(snip, Succ(snip), Succ(delayed_ip))
  /\ UNCHANGED <<bit, regs, delayed>>

\* A single step, the user's own or the one that leaves a breakpoint.
ss_remote ==
  LET i == Program[snip]
  IN  /\ phase \in {"stopped", "oneproc"}
      /\ \/ step_non_control(i)
         \/ simulate_branch(i)
         \/ simulate_delayed_branch(i)
         \/ skip_trap_not_taken(i)
      /\ phase' = IF phase = "oneproc" THEN "go" ELSE "stopped"
      /\ UNCHANGED breakpoints

\* rerr: a branch in a delay slot and a trap that would trap are not
\* stepped, and a continue that had to step over one is given up.
ss_remote_refuses ==
  LET i == Program[snip]
  IN  /\ phase = "oneproc" /\ phase' = "stopped"
      /\ \/ i.op = "TB" /\ i.when = bit
         \/ i.op \in Hardware!Control /\ delayed_p
      /\ UNCHANGED <<target, delayed, breakpoints>>

-----------------------------------------------------------------------------
\* proceed and go_remote: the target runs until it stops.

\* Continue: a breakpoint at the pc is stepped over before any is inserted.
proceed ==
  /\ phase = "stopped"
  /\ phase' = IF snip \in breakpoints THEN "oneproc" ELSE "go"
  /\ UNCHANGED <<target, delayed, breakpoints>>

\* The jump command: proceed with an address.
proceed_at(a) ==
  /\ phase = "stopped"
  /\ delayed_p => "stale" \in Hazards
  /\ snip' = a /\ sfip' = Succ(a)
  /\ phase' = "jump"
  /\ UNCHANGED <<sxip, bit, regs, delayed, breakpoints>>

go_remote ==
  /\ phase \in {"go", "jump"}
  /\ phase' = "running"
  /\ UNCHANGED <<target, delayed, breakpoints>>

Running ==
  /\ phase = "running" /\ snip \notin breakpoints
  /\ Hardware!Execute
  /\ sxip' = snip
  /\ UNCHANGED <<delayed, breakpoints, phase>>

\* check_for_delay_slot_after_breakpoint, then kludge_pc: the trap that is
\* the breakpoint has moved the pipeline on by one, and it is moved back.
HitBreakpoint_slotless ==
  /\ phase = "running" /\ snip \in breakpoints
  /\ delayed_p' = FALSE
  /\ ShadowIPs(snip, snip, Succ(snip))
  /\ phase' = "stopped"
  /\ UNCHANGED <<bit, regs, delayed_ip, breakpoints>>

HitBreakpoint ==
  /\ phase = "running" /\ snip \in breakpoints
  /\ delayed_p' = (sfip # Succ(snip))
  /\ delayed_ip' = IF sfip # Succ(snip) THEN sfip ELSE delayed_ip
  /\ ShadowIPs(snip, snip, Succ(snip))
  /\ phase' = "stopped"
  /\ UNCHANGED <<bit, regs, breakpoints>>

\* check_for_delay_slot_after_interrupt: delayed_p is set, never cleared.
Interrupt ==
  /\ phase = "running"
  /\ delayed_p /\ sfip = Succ(snip) => "stale" \in Hazards
  /\ delayed_p' = (delayed_p \/ sfip # Succ(snip))
  /\ delayed_ip' = IF sfip # Succ(snip) THEN sfip ELSE delayed_ip
  /\ phase' = "stopped"
  /\ UNCHANGED <<target, breakpoints>>

\* Any other exception: wait_for_exception unwinds go_remote with rerr, and
\* nobody looks for a delay slot.
Fault ==
  /\ phase = "running"
  /\ delayed_p \/ sfip # Succ(snip) => "fault" \in Hazards
  /\ phase' = "stopped"
  /\ UNCHANGED <<target, delayed, breakpoints>>

-----------------------------------------------------------------------------
\* The user's breakpoints, changed while the target is stopped.

SetBreakpoint(a) ==
  /\ phase = "stopped"
  /\ breakpoints' = breakpoints \cup {a}
  /\ UNCHANGED <<target, delayed, phase>>

DeleteBreakpoint(a) ==
  /\ phase = "stopped"
  /\ delayed_p /\ a = snip => "deleted" \in Hazards
  /\ breakpoints' = breakpoints \ {a}
  /\ UNCHANGED <<target, delayed, phase>>

Next ==
  \/ ss_remote
  \/ ss_remote_refuses
  \/ proceed
  \/ \E a \in Addr : proceed_at(a)
  \/ go_remote
  \/ Running
  \/ HitBreakpoint
  \/ Interrupt
  \/ Fault
  \/ \E a \in Breakable : SetBreakpoint(a) \/ DeleteBreakpoint(a)

Spec == Init /\ [][Next]_vars

-----------------------------------------------------------------------------
\* Where the host believes the instruction behind snip comes from: what a
\* step would make of it.  Once the target runs, SFIP alone says so.
HostFip == IF delayed_p THEN delayed_ip ELSE Succ(snip)

InSlot == \E a \in Addr : Program[a].n /\ snip = Succ(a)

Promise == INSTANCE Pipeline
  WITH nip <- snip,
       fip <- IF phase \in {"stopped", "oneproc"} THEN HostFip ELSE sfip,
       moved <- phase = "jump"

\* The variables have the types their declarations give them.
TypeOK ==
  /\ {sxip, snip, sfip, delayed_ip} \subseteq Addr
  /\ delayed_p \in BOOLEAN /\ bit \in BOOLEAN
  /\ regs \in [Hardware!Regs -> Addr]
  /\ breakpoints \subseteq Breakable
  /\ phase \in Phases

\* Where none of the named circumstances occurs, what the user sees of any
\* mixture of steps, continues, jumps, breakpoints and interrupts is the
\* program's own run; each of the five breaks it (ss_remote, go_remote,
\* check_for_delay_slot_after_* and kludge_pc).
Pipelined == Promise!Spec

\* What go_remote starts the target with is what a step would have done
\* next: SFIP and the pair delayed_p, delayed_ip agree there.  It is what
\* the comment of go_remote says that it sees to, and what a tb0 that does
\* not trap must leave behind (remrun.c:520-532, 615-635).
GoKeepsBranch == phase = "go" => sfip = HostFip

\* While the user looks at the target, a delayed_p that is set can be
\* believed: it is set only at the instruction behind a .n branch, or where
\* a taken branch to the next instruction makes no difference
\* (remrun.c:252-265).
DelayedInSlot ==
  phase = "stopped" /\ delayed_p =>
    \/ delayed_ip = Succ(snip)
    \/ InSlot

\* The other direction: a target that has stopped in a delay slot, with the
\* branch still to come, has delayed_p set, and delayed_ip to its target,
\* whatever has stopped it (remrun.c:548-604).
SlotSeen ==
  phase = "stopped" /\ sfip # Succ(snip) => delayed_p /\ delayed_ip = sfip

\* So whatever the next command is, it can go by delayed_p, whichever way it is
\* (ss_remote, remrun.c:252-265; proceed).
DelayedTrue == DelayedInSlot /\ SlotSeen
=============================================================================
