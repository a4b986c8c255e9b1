\* Which failures a later update survives; no commits, no stray patches.
SPECIFICATION LiveSpec
CONSTANTS
  Url = {"home"}
  Rev = {1, 2}
  File = {"f", "g"}
  Tree <- MCLiveTree
  Patch = {1, 2}
  PatchFile <- MCPatchFile
  Exported = {1}
  Args <- MCLiveArgs
  Branch = Branch
  NoLock = NoLock
  Truncated = Truncated
  NoLog = NoLog
  MaxMoves = 1
  MaxFailures = 2
PROPERTIES
  Recovers
