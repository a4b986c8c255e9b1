\* Tiles of 2 x 2 x 3 with 2 taps; every problem of up to 8 samples (three
\* time tiles), 5 input channels (three passes) and 5 output channels.
SPECIFICATION Spec
CONSTANTS
  TILE_CIN = 2
  TILE_COUT = 2
  TILE_T = 3
  KERNEL_K = 2
  INPUT_BASE = 0
  WEIGHT_BASE = 8
  OUTPUT_BASE = 16
  NumWords = 22
  Zero = Zero
  Garbage = Garbage
  MaxLen = 8
  MaxCin = 5
  MaxCout = 5
  Shapes <- MCShapes
INVARIANTS
  TilesCorrect
  SameAsSoftware
PROPERTIES
  AssignedOnce
  Returns
\* The call returns.
CHECK_DEADLOCK FALSE
