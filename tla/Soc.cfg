\* Five targets and a counter of two bits and the overflow bit; two rows of two
\* words of two bytes; a counter of two bits.
SPECIFICATION MCSpec
CONSTANTS
  Target = {t0, t1, t2, t3, t4}
  Reset0 = t0
  Room = 4
  None = None
  Rows = 2
  Byte = {lo, hi}
  Value = {u, v}
  Modulus = 4
  Unknown = Unknown
INVARIANTS
  SingleTarget
  CountExact
  CntCorrect
  MemoriesAgree
PROPERTIES
  Granted
  ReadsBack
  WaitReturns
