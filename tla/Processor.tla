----------------------------- MODULE Processor -----------------------------
(***************************************************************************)
(* What sim/execute.c simulates: an 88100 that executes a program with     *)
(* delayed branches, takes exceptions, and returns from them through its   *)
(* shadow registers.                                                       *)
(*                                                                         *)
(* The instruction at nip is executed next and the one at fip behind it;   *)
(* fip is not nip + 4 in the delay slot of a taken branch.  An exception   *)
(* loads the shadow registers and freezes them; rte resumes from there.    *)
(* While they are not frozen they are 0 here.                              *)
(***************************************************************************)
EXTENDS Naturals

CONSTANTS
  Top,      \* addresses are 0 .. Top, one for each instruction
  Prog,     \* Prog[a]: the class of the instruction at a
  Dest,     \* Dest[a]: where a branch at a goes
  Vector    \* Vector[e]: where exception e goes

Addr    == 0 .. Top
Succ(a) == IF a = Top THEN 0 ELSE a + 1

Exception == {"E_DACC", "E_CACC", "E_TRAP", "E_INT", "E_ERR"}

Branches == {"br", "bcnd"}              \* without a delay slot
Delayed  == {"br_n", "bcnd_n", "jmp_n"} \* with one
Maybe    == {"bcnd", "bcnd_n"}          \* that may not be taken

VARIABLES
  nip, fip,         \* the next instruction and the one fetched behind it
  frozen, masked,   \* PSR: shadow registers frozen, interrupts masked
  tfrozen, tmasked, \* the same bits of TPSR
  sxip, snip, sfip, \* the shadow registers; snip = Top + 1 is not valid
  defined           \* what happens is defined

psr    == <<frozen, masked>>
shadow == <<tfrozen, tmasked, sxip, snip, sfip>>
vars   == <<nip, fip, psr, shadow, defined>>

Moves(n, f) == nip' = n /\ fip' = f

\* Behind an instruction that does not branch.
Advance == Moves(fip, Succ(fip))

Ordinary ==
  /\ Prog[nip] \in {"op", "mem", "ack", "trap"} \cup Maybe
  /\ Advance
  /\ UNCHANGED <<psr, shadow>>

Branch ==
  /\ Prog[nip] \in Branches /\ fip = Succ(nip)
  /\ Moves(Dest[nip], Succ(Dest[nip]))
  /\ UNCHANGED <<psr, shadow>>

DelayedBranch ==
  /\ Prog[nip] \in Delayed /\ fip = Succ(nip)
  /\ Moves(fip, Dest[nip])
  /\ UNCHANGED <<psr, shadow>>

Disable ==
  /\ Prog[nip] = "disable" /\ Advance
  /\ masked' = TRUE /\ UNCHANGED <<frozen, shadow>>

Blank ==
  /\ tfrozen' = FALSE /\ tmasked' = FALSE
  /\ sxip' = 0 /\ snip' = 0 /\ sfip' = 0

\* A store to the PSR that turns on interrupts and shadowing.
Enable ==
  /\ Prog[nip] = "enable" /\ Advance
  /\ frozen' = FALSE /\ masked' = FALSE /\ Blank

\* What a handler makes of the shadow registers: execute the instruction
\* again, or go on behind it with the pipeline empty.
Rewrite ==
  /\ frozen /\ Advance
  /\ \/ Prog[nip] = "retry" /\ snip' = sxip
     \/ Prog[nip] = "drop" /\ snip' = Top + 1
  /\ sfip' = IF snip \in Addr THEN snip ELSE sfip
  /\ UNCHANGED <<psr, tfrozen, tmasked, sxip>>

\* The same with shadowing on changes nothing that lasts.
Unshadowed ==
  /\ Prog[nip] \in {"retry", "drop"} /\ ~frozen /\ Advance
  /\ UNCHANGED <<psr, shadow>>

Rte ==
  /\ Prog[nip] = "rte" /\ frozen /\ ~tfrozen
  /\ IF snip \in Addr THEN Moves(snip, sfip) ELSE Moves(sfip, Succ(sfip))
  /\ frozen' = FALSE /\ masked' = tmasked /\ Blank

\* An exception of the instruction at nip, behind which comes fip.
Fault(e) ==
  /\ e # "E_INT" /\ (e = "E_ERR" <=> frozen)
  /\ sxip' = nip /\ snip' = fip /\ sfip' = Succ(fip)

\* An interrupt in front of it.
Interrupt(e) ==
  /\ e = "E_INT" /\ ~masked /\ ~frozen
  /\ sxip' \in Addr /\ snip' = nip /\ sfip' = fip

Take(e) ==
  /\ Fault(e) \/ Interrupt(e)
  /\ Moves(Vector[e], Succ(Vector[e]))
  /\ frozen' = TRUE /\ masked' = TRUE
  /\ tfrozen' = frozen /\ tmasked' = masked

\* A fault while the shadow registers are frozen spoils them.
Lose ==
  /\ frozen
  /\ snip' \in Addr /\ sfip' \in Addr
  /\ UNCHANGED <<nip, fip, psr, tfrozen, tmasked, sxip>>

Init ==
  /\ nip \in Addr /\ fip = Succ(nip)
  /\ frozen = TRUE /\ masked = TRUE /\ tfrozen = TRUE /\ tmasked = TRUE
  /\ sxip = 0 /\ snip = 0 /\ sfip = 0
  /\ defined = TRUE

Next ==
  \/ defined' = FALSE
  \/ /\ UNCHANGED defined
     /\ \/ Ordinary \/ Branch \/ DelayedBranch \/ Disable \/ Enable
        \/ Rewrite \/ Unshadowed \/ Rte \/ Lose
        \/ \E e \in Exception : Take(e)

Spec == Init /\ [][Next]_vars
=============================================================================
