SPECIFICATION Spec
CONSTANTS
  Url = {"home", "fork"}
  Rev = {1, 2}
  File = {"f", "g"}
  Tree <- MCTree
  Patch = {1, 2}
  PatchFile <- MCPatchFile
  Exported = {1}
  Args <- MCArgs
  Branch = Branch
  NoLock = NoLock
  Truncated = Truncated
  NoLog = NoLog
  MaxMoves = 1
  MaxFailures = 1
INVARIANTS
  FinishedAgrees
  HeadReproducible
PROPERTIES
  PatchesCommittedWhole
  CommitLogComplete
  LockedRevisionFetched
