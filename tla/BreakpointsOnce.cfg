SPECIFICATION Spec
CONSTANTS
  Addr = {a1, a2}
  Trap = Trap
  Zero = Zero
  NoAddr = NoAddr
  MaxBreakpoints = 2
INVARIANT EnabledIsInserted
