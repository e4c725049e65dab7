CONSTANTS
  MaxLine = 6
  MaxPath = 3
  Chars <- MCChars
  Lines <- MCLines
  Paths <- MCPaths
  FileSets <- MCFileSets
CHECK_DEADLOCK FALSE
SPECIFICATION MCSpec
INVARIANTS
  WordsAsTyped
  Understood
  FirstInPath
  NullWhenNoCommand
  EachWordFreedOnce
