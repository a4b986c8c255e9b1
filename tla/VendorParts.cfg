\* Three parts of the script, each by itself; every one of them ends.
SPECIFICATION MCSpec
CONSTANTS
  Data <- MCData
  Bad = Bad
  Overrides <- MCOverrides
  Upstream <- MCUpstream
  Excluded <- MCExcluded
  Mappings <- MCMappings
  Dir = Dir
  Lines <- MCLines
  Urls <- MCUrls
  Repo = Repo
  None = None
  Broken = Broken
CHECK_DEADLOCK FALSE
INVARIANTS
  DescCorrect
  ImportCorrect
  LogCorrect
