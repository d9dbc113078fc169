SPECIFICATION Spec
CONSTANTS
  Addr = {a1, a2}
  Trap = Trap
  Zero = Zero
  NoAddr = NoAddr
  MaxBreakpoints = 2
SYMMETRY Symmetry
\* What follows an unwound command is not explored.
CONSTRAINT Wound
INVARIANTS TypeOK CleanPrompt OneFirst Armed
PROPERTY OnlyPhantomsDamage
