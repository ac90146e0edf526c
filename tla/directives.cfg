CONSTANTS
  Lines <- SourceLines
  Dirs <- MCDirs
  Here = "."
  Files <- MCFiles
  Contents <- MCContents
  MaxLines = 5
  MaxNesting = 5
SPECIFICATION Spec
INVARIANTS OutputIsLiveText ErrorsAreReal IncludesFindTheirFile
CHECK_DEADLOCK FALSE
