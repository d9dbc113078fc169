---------------------------- MODULE MCBreakpoints ----------------------------
(* Addresses are interchangeable: nothing orders them.                     *)
EXTENDS Breakpoints, TLC

Symmetry == Permutations(Addr)

\* Stop exploring where a command has been unwound.
Wound == ~unwound
=============================================================================
