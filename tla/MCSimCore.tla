----------------------------- MODULE MCSimCore -----------------------------
(* Pages of four instructions.  0 to 7 is a loop: a conditional delayed    *)
(* branch on its page with a load in its slot, a branch off the page, a    *)
(* jump with its slot and target on the next page, and a branch back with  *)
(* a trap in its slot.  Faults try the instruction again (8), traps go on  *)
(* behind it (10), interrupts quiet the device, after a load that may      *)
(* fault itself (12), and errors try to return (16).                       *)
EXTENDS SimCore, TLC

MCClass ==
  0 :> "bcnd_n" @@ 1 :> "mem" @@ 2 :> "bcnd" @@ 3 :> "jmp_n"
    @@ 4 :> "mem" @@ 5 :> "enable" @@ 6 :> "br_n" @@ 7 :> "trap"
    @@ 8 :> "retry" @@ 9 :> "rte" @@ 10 :> "drop" @@ 11 :> "rte"
    @@ 12 :> "mem" @@ 13 :> "ack" @@ 14 :> "disable" @@ 15 :> "rte" @@ 16 :> "rte"

MCProg == [a \in Addr |-> MCClass[a]]

MCDest == [a \in Addr |->
  CASE a = 0 -> 2 [] a = 2 -> 5 [] a = 3 -> 6 [] a = 6 -> 0 [] OTHER -> a]

MCVector == [e \in Exception |->
  CASE e \in {"E_DACC", "E_CACC"} -> 8 [] e = "E_TRAP" -> 10
    [] e = "E_INT" -> 12 [] e = "E_ERR" -> 16]

MCPagedOut  == {1, 4}
MCCatchMenu == {{}, {"E_INT", "E_DACC", "E_ERR"}}
MCBreakMenu == {{}, {4}}
=============================================================================
