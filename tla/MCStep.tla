------------------------------- MODULE MCStep -------------------------------
(***************************************************************************)
(* A program of fourteen instructions with every class ss_remote tells     *)
(* apart: branches with and without a delay slot, conditional ones both    *)
(* ways, calls and the jump through r1 that returns from them.             *)
(***************************************************************************)
EXTENDS Step

Inst(op, n, to, reg, when, flip) ==
  [op |-> op, n |-> n, to |-> to, reg |-> reg, when |-> when, flip |-> flip]

Plain == Inst("NON_CONTROL", FALSE, 0, "r1", FALSE, FALSE)
Flip == Inst("NON_CONTROL", FALSE, 0, "r1", FALSE, TRUE)
Branch(op, n, to) == Inst(op, n, to, "r1", TRUE, FALSE)
Through(op, n, reg) == Inst(op, n, 0, reg, FALSE, FALSE)
TB == Inst("TB", FALSE, 0, "r1", TRUE, FALSE)

MCCode ==
  << Flip,                       \*  0
     Branch("BB", TRUE, 4),      \*  1
     Flip,                       \*  2  in the slot
     Branch("BSR", TRUE, 7),     \*  3
     Plain,                      \*  4  in the slot, and a target
     Branch("BB", FALSE, 0),     \*  5
     Branch("BR", TRUE, 10),     \*  6
     Flip,                       \*  7  in the slot, and a target
     TB,                         \*  8
     Through("JMP", FALSE, "r1"),\*  9
     Branch("BSR", FALSE, 7),    \* 10
     Through("JSR", TRUE, "r2"), \* 11
     TB,                         \* 12  in the slot
     Branch("BR", FALSE, 1) >>   \* 13

MCProgram == [a \in 0 .. 13 |-> MCCode[a + 1]]
=============================================================================
