\* A wrong output does not change the verdict.
SPECIFICATION TbSpec
CONSTANTS
  TILE_CIN = 2
  TILE_COUT = 2
  TILE_T = 2
  KERNEL_K = 2
  INPUT_BASE = 0
  WEIGHT_BASE = 6
  OUTPUT_BASE = 14
  NumWords = 18
  Zero = Zero
  Garbage = Garbage
  WATCHDOG_TIMEOUT = 5
  None = None
  MaxLen = 4
  MaxCin = 3
  MaxCout = 3
  Shapes <- MCShapes
\* The testbench ends.
CHECK_DEADLOCK FALSE
INVARIANTS
  MismatchReported
