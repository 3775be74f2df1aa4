\* Regular files of 0..13 bytes, no failures.
CONSTANTS
  Files <- MCFiles
  IO_PAGE_SIZE = 4
  MinFree = 1
  Grow = 4
  SizeMod = 256
  OpenMayFail = FALSE
  AllocMayFail = FALSE
  ReadErrors = "none"
  ArgcMax = 2
SPECIFICATION Spec
PROPERTY LoadsWholeFile
CHECK_DEADLOCK FALSE
