\* Two channels in, two out, two samples, two taps; any environment.
SPECIFICATION MCSpec
CONSTANTS
  TILE_CIN = 2
  TILE_COUT = 2
  TILE_T = 2
  KERNEL_K = 2
  INPUT_BASE = 0
  WEIGHT_BASE = 6
  OUTPUT_BASE = 14
  NumWords = 18
  MaxRuns = 2
  Zero = Zero
  CpuWord <- MCCpuWord
  PowerUp <- MCPowerUp
  ExtRequest <- MCExtRequest
INVARIANTS
  TypeOK
  PipelineInv
  OperandsReady
  AccumPartial
PROPERTIES
  RunShrinks
  TileSpec
