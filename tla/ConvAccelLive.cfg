\* Two passes over a tile of two channels in, one out, two samples, two taps.
SPECIFICATION FairSpec
CONSTANTS
  TILE_CIN = 2
  TILE_COUT = 1
  TILE_T = 2
  KERNEL_K = 2
  INPUT_BASE = 0
  WEIGHT_BASE = 6
  OUTPUT_BASE = 10
  NumWords = 12
  PASSES = 2
  Zero = Zero
  CpuWord <- MCCpuWord
  PowerUp <- MCPowerUp
  ExtRequest <- MCExtRequest
PROPERTIES
  TilesComplete
