SPECIFICATION Spec
CONSTANTS
  N = 14
  Program <- MCProgram
  Breakable = {2, 10, 12}
  Hazards = {}
INVARIANTS TypeOK GoKeepsBranch DelayedTrue
PROPERTY Pipelined
\* A program that takes its trap leaves the addresses modelled.
CHECK_DEADLOCK FALSE
