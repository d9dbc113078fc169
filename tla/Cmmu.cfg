CONSTANTS
  CPU = {c0, c1}
  PageMax = 3
  BlockSize = 2
  SegSize = 2
  Control = {3}
  Memory = {0, 1, 2}
  Port = {1}
  DECMAX = 1
  Table = {t}
  Broken = {}
  BatcMenu <- MCBatc
  SegMenu <- MCSegMenu
  PageMenu <- MCPageMenu
  InitSegd <- MCInitSegd
  InitPd <- MCInitPd
  InitArea <- MCInitArea
  Touched <- MCTouched
  MaxEdits = 2
  NoFrame = NoFrame
  Off = Off
SPECIFICATION Spec
SYMMETRY MCSymmetry
INVARIANTS TypeOK LoadsPromised StoresPromised ReadBack CodePromised
