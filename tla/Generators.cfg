\* Each script ends when it has written its files or has raised.
SPECIFICATION MCSpec
CONSTANTS
  Arguments <- MCArguments
  Wrap = 64
  NoFile = NoFile
  Cell <- MCCell
  Top = "top"
  Via <- MCVia
  AllowEmpty <- MCAllowEmpty
  Placements <- MCPlacements
  Streams <- MCStreams
  StatusSpan = 2
  MaxFiles = 3
  Nothing = Nothing
  Name = {"a", "b"}
  DType <- MCDType
  Sizes = {0, 3}
  SourceFiles <- MCSourceFiles
  MaxItems = 2
  Arrays <- MCArrays
  Half = 8
  Open = Open
  Close = Close
  Sep = Sep
  Unreadable = Unreadable
  None = None
CHECK_DEADLOCK FALSE
INVARIANTS
  GoldenCorrect
  TextCorrect
  StreamCorrect
PROPERTIES
  GenCorrect
