\* One read() fails (EINTR, EIO) during the load of a file of 0..13 bytes.
CONSTANTS
  Files <- MCFiles
  IO_PAGE_SIZE = 4
  MinFree = 1
  Grow = 4
  SizeMod = 256
  OpenMayFail = FALSE
  AllocMayFail = FALSE
  ReadErrors = "transient"
  ArgcMax = 2
SPECIFICATION Spec
INVARIANT SizeWithinCap
CHECK_DEADLOCK FALSE
