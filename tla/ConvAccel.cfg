\* Three passes over a tile of two channels in, two out, two samples, two taps.
SPECIFICATION Spec
CONSTANTS
  TILE_CIN = 2
  TILE_COUT = 2
  TILE_T = 2
  KERNEL_K = 2
  INPUT_BASE = 0
  WEIGHT_BASE = 6
  OUTPUT_BASE = 14
  NumWords = 18
  PASSES = 3
  Zero = Zero
  CpuWord <- MCCpuWord
  PowerUp <- MCPowerUp
  ExtRequest <- MCExtRequest
INVARIANTS
  CpuTypeOK
  WaitSeesOwnRun
  ReadsFullSum
  NeverStalled
PROPERTIES
  ControlStable
