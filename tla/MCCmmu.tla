------------------------------- MODULE MCCmmu -------------------------------
(* Two CPUs over four pages, in two segments of one two-page block each;   *)
(* page 3 is control memory.  Table t starts with page 0 write-protected,  *)
(* page 1 open and the others for the supervisor; the program changes its  *)
(* mappings a few times.                                                   *)
EXTENDS Cmmu, TLC

MCSymmetry == Permutations(CPU)

MCDesc(v, so, wp, f) ==
  [valid |-> v, supervisor_only |-> so, writeprotect |-> wp,
   used |-> FALSE, modified |-> FALSE, frame |-> f]

MCSeg(so, wp) == [valid |-> TRUE, supervisor_only |-> so, writeprotect |-> wp]

MCBatc == {NoBatc,
           [valid |-> TRUE, supervisor |-> "M_USER", writeprotect |-> TRUE,
            l_base |-> 0, p_base |-> 0]}

MCSegMenu  == {MCSeg(FALSE, TRUE)}
MCPageMenu == {MCDesc(TRUE, FALSE, FALSE, 2)}

MCInitSegd == [t \in Table |-> [g \in Seg |-> MCSeg(FALSE, FALSE)]]
MCInitPd ==
  [t \in Table |-> [p \in Page |->
     CASE p = 0 -> MCDesc(TRUE, FALSE, TRUE, 1)
       [] p = 1 -> MCDesc(TRUE, FALSE, FALSE, 0)
       [] OTHER -> MCDesc(TRUE, TRUE, FALSE, 2)]]

MCInitArea ==
  [c \in CPU |-> [s \in Side |-> [m \in Mode |->
     IF m = "M_USER" THEN CHOOSE u \in Table : TRUE ELSE Off]]]

MCTouched == {<<"data", "M_USER", 1>>, <<"data", "M_SUPERVISOR", 1>>,
              <<"code", "M_USER", 1>>}
=============================================================================
