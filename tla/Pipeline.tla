------------------------------ MODULE Pipeline ------------------------------
(***************************************************************************)
(* The promise made to the user of the debugger: one 88100 processor runs  *)
(* the program, whatever mixture of steps, breakpoints and continues he    *)
(* uses.  The processor is not under src/: this is what remrun.c and the   *)
(* monitor take it to do.  nip is the next instruction to execute, fip the *)
(* one fetched behind it: they differ from nip and nip + 1 word exactly in *)
(* the delay slot of a taken branch.                                       *)
(***************************************************************************)
EXTENDS Naturals

CONSTANTS
  N,        \* instructions in the program
  Program   \* Program[a] is the instruction at word address a

Addr == 0 .. N - 1
Regs == {"r1", "r2"}
Control == {"BR", "BB", "BSR", "JMP", "JSR"}
Ops == Control \cup {"NON_CONTROL", "TB"}

(***************************************************************************)
(* op    the class of the instruction;                                     *)
(* n     the .n form: the instruction behind it executes before the jump;  *)
(* to    where a BR, BB or BSR goes; reg: the register a JMP or JSR reads; *)
(* when  the value of the tested bit for which BB branches or TB traps;    *)
(* flip  whether a NON_CONTROL instruction changes the tested bit.         *)
(***************************************************************************)
Instruction == [op : Ops, n : BOOLEAN, to : Addr, reg : Regs,
                when : BOOLEAN, flip : BOOLEAN]

\* Addresses wrap, as the 32 bits of the machine's do.
Succ(a) == (a + 1) % N

\* A program with a branch in a delay slot has no defined meaning.  Step
\* assumes this of its own program.
ProgramAssumption ==
  /\ N \in Nat \ {0}
  /\ Program \in [Addr -> Instruction]
  /\ \A a \in Addr :
       /\ Program[a].n =>
            Program[a].op \in Control /\ Program[Succ(a)].op \notin Control
       /\ Program[a].flip => Program[a].op = "NON_CONTROL"

VARIABLES nip, fip, bit, regs,
  moved  \* the user has just moved the program counter
vars == <<nip, fip, bit, regs, moved>>

Init ==
  /\ nip = 0
  /\ fip = Succ(0)
  /\ bit \in BOOLEAN
  /\ regs \in [Regs -> Addr]
  /\ regs["r1"] = 0
  /\ moved = FALSE

Jumps(i) == i.op \in Control /\ (i.op = "BB" => bit = i.when)

Target(i) == IF i.op \in {"JMP", "JSR"} THEN regs[i.reg] ELSE i.to

Execute ==
  LET i == Program[nip]
      t == Target(i)
  IN  /\ i.op = "TB" => bit # i.when
      /\ i.op \in Control => fip = Succ(nip)
      /\ nip' = IF Jumps(i) /\ ~i.n THEN t ELSE fip
      /\ fip' = IF ~Jumps(i) THEN Succ(fip) ELSE IF i.n THEN t ELSE Succ(t)
      /\ bit' = (bit # i.flip)
      /\ regs' = IF i.op \in {"BSR", "JSR"}
                   THEN [regs EXCEPT !["r1"] = IF i.n THEN Succ(fip) ELSE fip]
                   ELSE regs

\* The jump command of the debugger: the user moves the program counter.
MovePC(a) ==
  /\ nip' = a
  /\ fip' = Succ(a)
  /\ moved' = TRUE
  /\ UNCHANGED <<bit, regs>>

Restart ==
  /\ moved /\ moved' = FALSE
  /\ UNCHANGED <<nip, fip, bit, regs>>

Next ==
  \/ ~moved /\ Execute /\ UNCHANGED moved
  \/ Restart
  \/ \E a \in Addr : MovePC(a)

Spec == Init /\ [][Next]_vars

TypeOK ==
  /\ nip \in Addr
  /\ fip \in Addr
  /\ bit \in BOOLEAN
  /\ regs \in [Regs -> Addr]
  /\ moved \in BOOLEAN
=============================================================================
