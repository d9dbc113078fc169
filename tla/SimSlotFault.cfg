CONSTANTS
  Top = 16
  Prog <- MCProg
  Dest <- MCDest
  Vector <- MCVector
  PageWords = 4
  Start = 0
  PagedOut <- MCPagedOut
  CatchMenu <- MCCatchMenu
  BreakMenu <- MCBreakMenu
  MaxSteps = 2
  NoBranch = NoBranch
  OffPage = OffPage
SPECIFICATION Spec

PROPERTY SlotFaultSnip
