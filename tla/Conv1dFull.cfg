\* The geometry of the chip (conv1d.sv lines 38-49), two runs in all modes.
SPECIFICATION MCSpec
CONSTANTS
  TILE_CIN = 4
  TILE_COUT = 2
  TILE_T = 12
  KERNEL_K = 5
  INPUT_BASE = 0
  WEIGHT_BASE = 64
  OUTPUT_BASE = 104
  NumWords = 128
  MaxRuns = 2
  Zero = Zero
  CpuWord <- MCCpuWord
  PowerUp <- MCPowerUp
  ExtRequest <- MCExtRequest
INVARIANTS
  DocumentedLatency
  RunResult
\* After the last run the engine rests in IDLE.
CHECK_DEADLOCK FALSE
