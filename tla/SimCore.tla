------------------------------ MODULE SimCore ------------------------------
(***************************************************************************)
(* The execution function of the simulator, sim() in sim/execute.c, with   *)
(* what the debugger does around it.                                       *)
(*                                                                         *)
(* A taken branch with a delay slot leaves a record of itself in           *)
(* r_delayed_p and is completed by the slot's instruction.  The record's   *)
(* target is the decoded instruction s2 when it is on the branch's page    *)
(* (here its address) and delayed_ip when it is not (OffPage).  Flags in   *)
(* sim_interrupt_flag are looked at behind branches only.                  *)
(*                                                                         *)
(* phase is the label that sim() is at: "dispatch" in front of an          *)
(* instruction, "chkint" at CHKINT, "gen_exception", "without_check",      *)
(* "return_pt", and "prompt" while it does not run.  An address stands     *)
(* for an instruction.  History: did and took count what a command         *)
(* has executed; slipped is set where the simulator's pipeline and the     *)
(* processor's part.                                                       *)
(***************************************************************************)
EXTENDS Naturals

CONSTANTS
  Top,        \* addresses are 0 .. Top
  Prog,       \* Prog[a]: the class of the instruction at a
  Dest,       \* Dest[a]: where a branch at a goes
  Vector,     \* Vector[e]: the handler of exception e
  PageWords,  \* instructions on a page
  Start,      \* where the user starts the program
  PagedOut,   \* pages of code that the program's handlers take in and out
  CatchMenu,  \* the sets of exceptions that the user has caught
  BreakMenu,  \* the sets of breakpoints that he uses
  MaxSteps,   \* bound: single steps
  NoBranch,   \* no branch is pending
  OffPage     \* the pending branch is in delayed_ip

Addr == 0 .. Top

Succ_unwrapped(a) == a + 1

Succ(a) == IF a = Top THEN 0 ELSE a + 1

Pred(a)   == IF a = 0 THEN Top ELSE a - 1
PageOf(a) == a \div PageWords
Page      == {PageOf(a) : a \in Addr}

Exception == {"E_DACC", "E_CACC", "E_TRAP", "E_INT", "E_ERR"}
Flag      == {"INT_SINGLESTEP", "INT_FRONT_END", "INT_DEVICE"}
Cause     == {"NONE", "BREAKPOINT", "INTERRUPT", "CAUGHT_EXCEPTION", "HOSED"}
Class     == {"op", "mem", "ack", "trap", "br", "bcnd", "br_n", "bcnd_n",
              "jmp_n", "disable", "enable", "retry", "drop", "rte"}
Maybe     == {"bcnd", "bcnd_n"}
Delayed   == {"br_n", "bcnd_n", "jmp_n"}

\* A branch to its own page is not the last word of the page when it has
\* a delay slot.
ASSUME SimAssumption ==
  /\ Top \in Nat \ {0} /\ PageWords \in Nat \ {0} /\ MaxSteps \in Nat
  /\ Prog \in [Addr -> Class] /\ Dest \in [Addr -> Addr]
  /\ Vector \in [Exception -> Addr] /\ Start \in Addr
  /\ PagedOut \subseteq Page
  /\ CatchMenu \subseteq SUBSET Exception /\ BreakMenu \subseteq SUBSET Addr
  /\ NoBranch \notin Addr /\ OffPage \notin Addr /\ NoBranch # OffPage
  /\ \A a \in Addr :
        Prog[a] \in {"br_n", "bcnd_n"} /\ PageOf(Dest[a]) = PageOf(a)
          => PageOf(Succ(a)) = PageOf(a)

VARIABLES
  phase,
  ip,                \* IP while sim() runs, the global ip otherwise
  ss,                \* its argument: a single step
  cause,             \* what it returns
  r_delayed,         \* r_delayed_p
  delayed_p,         \* the global that keeps it between calls
  delayed_ip,        \* the target, as an exception or OffPage finds it
  frozen, masked,    \* PSR: shadow registers frozen, interrupts masked
  tfrozen, tmasked,  \* TPSR
  sxip, snip, sfip,  \* shadow registers; snip = Top + 1 is not valid
  ex,                \* the exception that is raised, or sim_exception
  flags,             \* sim_interrupt_flag
  ssbp,              \* where insert_ss_breakpoint has left its mark
  bpts,              \* breakpoints in the program's text
  caught,            \* sim_catch_exception
  line,              \* a device asks for an enabled interrupt
  absent,            \* pages of code that have no translation now
  did, took,         \* history: instructions and exceptions of the command
  slipped,           \* history
  steps              \* single steps so far, for MaxSteps

pipe    == <<r_delayed, delayed_p, delayed_ip>>
psr     == <<frozen, masked>>
shadow  == <<tfrozen, tmasked, sxip, snip, sfip>>
user    == <<bpts, caught, steps>>
machine == <<line, absent>>
history == <<did, took, slipped>>
vars    == <<phase, ip, ss, cause, pipe, psr, shadow, ex, flags, ssbp,
             user, machine, history>>

(***************************************************************************)
(* Getting from one instruction to the next.                               *)
(***************************************************************************)
SamePage(a, b) == PageOf(a) = PageOf(b)

\* p is set to the decoded instruction at a, by l_to_d if it is on another
\* page (looked), which may have no translation: cacc.
Arrive(a, looked, ph) ==
  /\ ip' = a
  /\ IF looked /\ PageOf(a) \in absent
       THEN phase' = "gen_exception" /\ ex' = "E_CACC"
       ELSE phase' = ph /\ UNCHANGED ex

\* INC_D_IP, with end_of_page.
IncDIp == Arrive(Succ(ip), ~SamePage(ip, Succ(ip)), "dispatch")

delayed_br_unchecked ==
  /\ r_delayed' = NoBranch
  /\ IF r_delayed = OffPage THEN Arrive(delayed_ip, TRUE, "dispatch")
                            ELSE Arrive(r_delayed, FALSE, "dispatch")

delayed_br ==
  /\ r_delayed' = NoBranch
  /\ IF r_delayed = OffPage THEN Arrive(delayed_ip, TRUE, "chkint")
                            ELSE Arrive(r_delayed, FALSE, "chkint")

DispatchNext ==
  /\ IF r_delayed = NoBranch THEN IncDIp /\ UNCHANGED r_delayed ELSE delayed_br
  /\ UNCHANGED <<delayed_p, delayed_ip>>

\* The instruction at ip is executed: neither a single step's mark nor a
\* breakpoint is there.
Runs(classes) ==
  /\ phase = "dispatch" /\ ip \notin ssbp \cup bpts /\ Prog[ip] \in classes
  /\ did' = IF did = 2 THEN 2 ELSE did + 1
  /\ UNCHANGED <<ss, ssbp, user, took>>

\* A branch in a delay slot: the processor does not say what it does.
Slips == slipped' = (slipped \/ r_delayed # NoBranch)

Raise(e) ==
  /\ phase' = "gen_exception" /\ ex' = e
  /\ UNCHANGED <<ip, pipe, psr, shadow, flags, machine, slipped, cause>>

\* An instruction that leaves the PSR and the shadow registers alone.
Ordinary ==
  /\ Runs({"op", "mem", "trap"} \cup Maybe)
  /\ DispatchNext
  /\ UNCHANGED <<psr, shadow, flags, machine, slipped, cause>>

\* A load or store that faults: l_mem_op.
DataFault == Runs({"mem"}) /\ Raise("E_DACC")

\* A trap instruction that traps.
Trap == Runs({"trap"}) /\ Raise("E_TRAP")

\* TAKE_BRANCH, and jmp and jsr.
TakeBranch ==
  /\ Runs({"br", "bcnd"})
  /\ Arrive(Dest[ip], ~SamePage(ip, Dest[ip]), "chkint")
  /\ UNCHANGED <<pipe, psr, shadow, flags, machine, cause>> /\ Slips

\* TAKE_DELAYED_BRANCH, and jmp.n and jsr.n.  decode() does not set dest
\* of a branch to its own page, so that delayed_ip is IP.
TakeDelayedBranch ==
  /\ Runs(Delayed)
  /\ LET near == Prog[ip] # "jmp_n" /\ SamePage(ip, Dest[ip]) IN
       /\ r_delayed' = IF near THEN Dest[ip] ELSE OffPage
       /\ delayed_ip' = IF near THEN ip ELSE Dest[ip]
  /\ IncDIp
  /\ UNCHANGED <<delayed_p, psr, shadow, flags, machine, cause>> /\ Slips

\* stcr to the PSR, with check_for_interrupt.
Flagged == IF line THEN flags \cup {"INT_DEVICE"} ELSE flags

StorePsr ==
  /\ Runs({"disable", "enable"})
  /\ IF Prog[ip] = "disable" THEN masked' = TRUE /\ UNCHANGED frozen
                             ELSE masked' = FALSE /\ frozen' = FALSE
  /\ flags' = Flagged
  /\ DispatchNext
  /\ UNCHANGED <<shadow, machine, slipped, cause>>

\* The handler quiets the device.
Acknowledge ==
  /\ Runs({"ack"})
  /\ line' = FALSE /\ UNCHANGED absent
  /\ DispatchNext
  /\ UNCHANGED <<psr, shadow, flags, slipped, cause>>

\* What a fault handler does with the shadow registers: have the
\* instruction executed again, having taken in the page it was on; or have
\* it left out, with the pipeline empty.  With shadowing on it lasts as
\* long as what return_pt and load_shadow_regs leave there.
StoreShadow ==
  /\ Runs({"retry", "drop"})
  /\ IF Prog[ip] = "retry" THEN snip' = sxip /\ absent' = {}
                           ELSE snip' = Top + 1 /\ absent' = PagedOut
  /\ sfip' = IF snip \in Addr THEN snip ELSE sfip
  /\ DispatchNext
  /\ UNCHANGED <<psr, tfrozen, tmasked, sxip, flags, line, slipped, cause>>

\* rte with shadowing on, or into frozen shadow registers.
RteHosed ==
  /\ Runs({"rte"}) /\ (~frozen \/ tfrozen)
  /\ cause' = "HOSED" /\ phase' = "return_pt"
  /\ UNCHANGED <<ip, pipe, psr, shadow, ex, flags, machine, slipped>>

\* The branch that rte leaves pending when SFIP does not follow SNIP.
Refetch_forgotten == r_delayed' = NoBranch /\ UNCHANGED delayed_ip

Refetch ==
  IF snip \in Addr /\ sfip # Succ(snip)
    THEN r_delayed' = OffPage /\ delayed_ip' = sfip
    ELSE r_delayed' = NoBranch /\ UNCHANGED delayed_ip

Rte ==
  /\ Runs({"rte"}) /\ frozen /\ ~tfrozen
  /\ frozen' = tfrozen /\ masked' = tmasked
  /\ Refetch
  /\ UNCHANGED absent
  /\ Arrive(IF snip \in Addr THEN snip ELSE sfip, TRUE,
            IF ss THEN "return_pt" ELSE "chkint")
  /\ UNCHANGED <<delayed_p, shadow, flags, line, slipped, cause>>

(***************************************************************************)
(* Exceptions                                                              *)
(***************************************************************************)
\* return_with_exception: the user has the exception caught.
Caught(e) ==
  /\ ex' = e /\ cause' = "CAUGHT_EXCEPTION"
  /\ phase' = "prompt" /\ delayed_p' = r_delayed

\* gen_exception.  The interrupt is raised in front of the instruction at
\* IP, and ip is set back by one for it.
gen_exception ==
  /\ phase = "gen_exception"
  /\ ip' = IF ex = "E_INT" THEN Pred(ip) ELSE ip
  /\ snip' = ip'
  /\ sfip' = IF delayed_p # NoBranch THEN delayed_ip ELSE Succ(ip')
  /\ slipped' = (slipped \/ r_delayed \in Addr
                   \/ (ex = "E_INT" /\ r_delayed # NoBranch))
  /\ IF ex \in caught
       THEN Caught(ex)
       ELSE phase' = "without_check" /\ delayed_p' = NoBranch
              /\ UNCHANGED <<ex, cause>>
  /\ UNCHANGED <<ss, r_delayed, delayed_ip, psr, tfrozen, tmasked, sxip, flags,
                 ssbp, user, machine, did, took>>

\* gen_exception_without_check with shadowing frozen, and E_ERR caught.
CaughtError ==
  /\ phase = "without_check" /\ frozen /\ "E_ERR" \in caught
  /\ Caught("E_ERR")
  /\ UNCHANGED <<ip, ss, r_delayed, delayed_ip, psr, shadow, flags, ssbp, user,
                 machine, history>>

\* The shadow registers are loaded and the handler is entered.
Enter ==
  /\ phase = "without_check" /\ ~(frozen /\ "E_ERR" \in caught)
  /\ LET e == IF frozen THEN "E_ERR" ELSE ex IN
       /\ ip' = Vector[e]
       /\ IF PageOf(ip') \in absent
            THEN cause' = "HOSED" /\ phase' = "return_pt"
            ELSE /\ UNCHANGED cause
                 /\ phase' = IF ss THEN "return_pt" ELSE "dispatch"
  /\ sxip' = ip
  /\ snip' = IF r_delayed # NoBranch THEN delayed_ip ELSE Succ(ip)
  /\ sfip' = Succ(snip') /\ r_delayed' = NoBranch
  /\ tfrozen' = frozen /\ tmasked' = masked
  /\ frozen' = TRUE /\ masked' = TRUE
  /\ ex' = "E_NONE" /\ took' = TRUE
  /\ UNCHANGED <<ss, delayed_p, delayed_ip, flags, ssbp, user, machine, did,
                 slipped>>

(***************************************************************************)
(* CHKINT and interrupt_label: the first of the flags in this order.       *)
(***************************************************************************)
NoInterrupt ==
  /\ phase = "chkint" /\ flags = {}
  /\ phase' = "dispatch"
  /\ UNCHANGED <<ip, ss, cause, pipe, psr, shadow, ex, flags, ssbp, user,
                 machine, history>>

\* ss_breakpoint, from the flag or from the mark at ip.  In a continue
\* it goes on.
ss_breakpoint ==
  /\ \/ phase = "chkint" /\ "INT_SINGLESTEP" \in flags
        /\ flags' = flags \ {"INT_SINGLESTEP"}
     \/ phase = "dispatch" /\ ip \in ssbp /\ UNCHANGED flags
  /\ ssbp' = ssbp \ {ip}
  /\ phase' = IF ss THEN "return_pt" ELSE "dispatch"
  /\ UNCHANGED <<ip, ss, cause, pipe, psr, shadow, ex, user, machine, history>>

FrontEnd ==
  /\ phase = "chkint" /\ "INT_SINGLESTEP" \notin flags
  /\ "INT_FRONT_END" \in flags /\ flags' = flags \ {"INT_FRONT_END"}
  /\ cause' = "INTERRUPT" /\ phase' = "return_pt"
  /\ UNCHANGED <<ip, ss, pipe, psr, shadow, ex, ssbp, user, machine, history>>

Device ==
  /\ phase = "chkint" /\ flags = {"INT_DEVICE"} /\ flags' = {}
  /\ IF masked THEN UNCHANGED <<phase, ex>>
               ELSE phase' = "gen_exception" /\ ex' = "E_INT"
  /\ UNCHANGED <<ip, ss, cause, pipe, psr, shadow, ssbp, user, machine, history>>

HitBreakpoint ==
  /\ phase = "dispatch" /\ ip \in bpts \ ssbp
  /\ cause' = "BREAKPOINT" /\ phase' = "return_pt"
  /\ UNCHANGED <<ip, ss, pipe, psr, shadow, ex, flags, ssbp, user, machine,
                 history>>

\* return_pt: with shadowing on, the shadow registers show the pipeline.
return_pt ==
  /\ phase = "return_pt" /\ phase' = "prompt"
  /\ IF frozen
       THEN UNCHANGED <<snip, sfip, tfrozen, tmasked>>
       ELSE /\ snip' = ip /\ tfrozen' = frozen /\ tmasked' = masked
            /\ sfip' = IF delayed_p # NoBranch THEN delayed_ip ELSE Succ(ip)
  /\ flags' = IF ss THEN flags \ {"INT_SINGLESTEP"} ELSE flags
  /\ delayed_p' = r_delayed
  /\ UNCHANGED <<ip, ss, cause, r_delayed, delayed_ip, psr, sxip, ex, ssbp,
                 user, machine, history>>

(***************************************************************************)
(* The debugger, the user and the devices.                                 *)
(***************************************************************************)
insert_ss_breakpoint_marks_only(at) ==
  /\ ssbp' = (IF PageOf(Succ(at)) \in absent THEN ssbp
                                            ELSE ssbp \cup {Succ(at)}) \ {at}
  /\ flags' = Flagged \ {"INT_FRONT_END"}

insert_ss_breakpoint(at) ==
  /\ ssbp' = (IF PageOf(Succ(at)) \in absent THEN ssbp
                                            ELSE ssbp \cup {Succ(at)}) \ {at}
  /\ flags' = (Flagged \ {"INT_FRONT_END"}) \cup {"INT_SINGLESTEP"}

\* sim_resume and the start of sim(): a step or a continue, with the
\* breakpoints B in the text.
sim_resume(step, B) ==
  /\ phase = "prompt"
  /\ step => steps < MaxSteps
  /\ steps' = IF step THEN steps + 1 ELSE steps
  /\ ss' = step /\ bpts' = B /\ cause' = "NONE"
  /\ r_delayed' = delayed_p
  /\ did' = 0 /\ took' = FALSE
  /\ UNCHANGED absent
  /\ IF ex # "E_NONE"
       THEN /\ phase' = "without_check"
            /\ flags' = Flagged \ {"INT_FRONT_END"}
            /\ UNCHANGED <<ip, ex, ssbp>>
       ELSE IF step /\ PageOf(ip) \notin absent
       THEN /\ insert_ss_breakpoint(ip)
            /\ Arrive(ip, TRUE, "entry")
       ELSE /\ flags' = Flagged \ {"INT_FRONT_END"} /\ UNCHANGED ssbp
            /\ Arrive(ip, TRUE, "entry")
  /\ UNCHANGED <<delayed_p, delayed_ip, psr, shadow, caught, line, slipped>>

\* An interrupt that is pending when sim() is entered comes first.
FirstDispatch ==
  /\ phase = "entry"
  /\ IF "INT_DEVICE" \in flags /\ ~masked
       THEN phase' = "gen_exception" /\ ex' = "E_INT"
       ELSE phase' = "dispatch" /\ UNCHANGED ex
  /\ UNCHANGED <<ip, ss, cause, pipe, psr, shadow, flags, ssbp, user, machine,
                 history>>

\* The ecatch and noecatch commands.
ecatch(C) ==
  /\ phase = "prompt" /\ C # caught
  /\ caught' = C
  /\ UNCHANGED <<phase, ip, ss, cause, pipe, psr, shadow, ex, flags, ssbp,
                 bpts, steps, machine, history>>

\* The user types control-C while the program runs.
sim_interrupt ==
  /\ phase # "prompt" /\ "INT_FRONT_END" \notin flags
  /\ flags' = flags \cup {"INT_FRONT_END"}
  /\ UNCHANGED <<phase, ip, ss, cause, pipe, psr, shadow, ex, ssbp, user,
                 machine, history>>

\* A device's handler, called at CHKINT or on the way to the prompt, asks
\* for an interrupt.
Request ==
  /\ phase \in {"chkint", "prompt"} /\ ~line
  /\ line' = TRUE /\ flags' = flags \cup {"INT_DEVICE"}
  /\ UNCHANGED <<phase, ip, ss, cause, pipe, psr, shadow, ex, ssbp, user,
                 absent, history>>

Init ==
  /\ phase = "prompt" /\ ip = Start /\ ss = FALSE /\ cause = "INTERRUPT"
  /\ r_delayed = NoBranch /\ delayed_p = NoBranch /\ delayed_ip = 0
  /\ frozen = TRUE /\ masked = TRUE /\ tfrozen = TRUE /\ tmasked = TRUE
  /\ sxip = 0 /\ snip = 0 /\ sfip = 0
  /\ ex = "E_NONE" /\ flags = {} /\ ssbp = {} /\ bpts = {} /\ caught = {}
  /\ line = FALSE /\ absent = {}
  /\ did = 0 /\ took = FALSE /\ slipped = FALSE /\ steps = 0

\* One instruction.
Execute ==
  \/ Ordinary \/ DataFault \/ Trap \/ TakeBranch \/ TakeDelayedBranch
  \/ StorePsr \/ Acknowledge \/ StoreShadow \/ Rte \/ RteHosed

Simulator ==
  \/ Execute
  \/ gen_exception \/ CaughtError \/ Enter
  \/ NoInterrupt \/ ss_breakpoint \/ FrontEnd \/ Device
  \/ HitBreakpoint \/ FirstDispatch \/ return_pt

Next ==
  \/ Simulator
  \/ \E step \in BOOLEAN, B \in BreakMenu : sim_resume(step, B)
  \/ \E C \in CatchMenu : ecatch(C)
  \/ sim_interrupt \/ Request

Spec == Init /\ [][Next]_vars

\* sim() keeps running; nothing is assumed of the user and the devices.
FairSpec == Spec /\ WF_vars(Simulator)

(***************************************************************************)
(* Properties                                                              *)
(***************************************************************************)
Target == Addr \cup {NoBranch, OffPage}

\* The types of sim()'s variables, of the registers and of the flags.
TypeOK ==
  /\ phase \in {"prompt", "entry", "dispatch", "chkint", "gen_exception",
                "without_check", "return_pt"}
  /\ ip \in Addr /\ ss \in BOOLEAN /\ cause \in Cause
  /\ r_delayed \in Target /\ delayed_p \in Target /\ delayed_ip \in Addr
  /\ frozen \in BOOLEAN /\ masked \in BOOLEAN
  /\ tfrozen \in BOOLEAN /\ tmasked \in BOOLEAN
  /\ sxip \in Addr /\ snip \in Addr \cup {Top + 1} /\ sfip \in Addr
  /\ ex \in Exception \cup {"E_NONE"} /\ flags \subseteq Flag
  /\ ssbp \subseteq Addr /\ bpts \subseteq Addr /\ caught \subseteq Exception
  /\ line \in BOOLEAN /\ absent \subseteq Page
  /\ did \in 0 .. 2 /\ took \in BOOLEAN /\ slipped \in BOOLEAN
  /\ steps \in 0 .. MaxSteps

\* The interrupt that has been raised, and for which ip has been set back.
SetBack == ex = "E_INT" /\ phase \in {"without_check", "prompt"}

Nip == IF SetBack THEN Succ(ip) ELSE ip
Fip == IF r_delayed = NoBranch THEN Succ(Nip)
       ELSE IF r_delayed = OffPage THEN delayed_ip ELSE r_delayed

P == INSTANCE Processor WITH
       nip <- Nip, fip <- Fip, frozen <- frozen, masked <- masked,
       tfrozen <- frozen /\ tfrozen, tmasked <- frozen /\ tmasked,
       sxip <- IF frozen THEN sxip ELSE 0,
       snip <- IF frozen THEN snip ELSE 0,
       sfip <- IF frozen THEN sfip ELSE 0,
       defined <- ~slipped

\* What sim() executes, through steps, continues, breakpoints, caught
\* exceptions, page ends and interrupts in any order, is what an 88100
\* executes, until it slips (execute.c, the whole of sim()).
Implements == P!Spec

\* sim() returns NONE from a single step only, and then it has executed one
\* instruction or taken an exception, or one instruction and its exception;
\* never two instructions, and never nothing.  The marks that earlier steps
\* have left, and a flag that a caught exception has left, do not show
\* (insert_ss_breakpoint, ss_breakpoint).
NoneIsOneStep ==
  phase = "prompt" /\ cause = "NONE" => ss /\ did <= 1 /\ (did = 1 \/ took)

\* A control-C brings the prompt back, whatever the program does with
\* branches and exceptions (CHKINT behind branches only).
Stops == "INT_FRONT_END" \in flags /\ phase # "prompt" ~> phase = "prompt"

\* execute.c:1816: "If we faulted on the instruction following a delayed
\* branch instruction, the SNIP will not follow the SXIP, but will instead
\* point to the branch target."  A step that enters a handler behind a
\* delayed branch leaves the target in SNIP.
SlotFaultSnip ==
  [][took' /\ ~took /\ r_delayed # NoBranch /\ ex # "E_INT" => snip' = Fip]_vars
=============================================================================
