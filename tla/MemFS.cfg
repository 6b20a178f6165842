SPECIFICATION MCSpec
CONSTANTS
  Names = {"a", "b"}
  Spellings <- TwoLevels
  Bytes = {0, 1}
  Chunks <- OneChunk
  Renames <- AllRenames
  MaxNodes = 5
  MaxDepth = 3
  MaxLen = 1
  MaxHandles = 0
PROPERTIES  RenameIsMove AppendsKeepData
CHECK_DEADLOCK FALSE
