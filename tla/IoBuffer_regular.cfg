\* Regular files read without read errors; open and realloc may fail.
\* The files are the 0..13 byte files (over two pages) and every text of up
\* to 6 bytes, which conf_if_load then reads line by line.  Sizes are
\* scaled 8, 2, 8 here so that a text fits in the first read.
CONSTANTS
  Files <- MCRegularFiles
  IO_PAGE_SIZE = 8
  MinFree = 2
  Grow = 8
  SizeMod = 256
  OpenMayFail = TRUE
  AllocMayFail = TRUE
  ReadErrors = "none"
  ArgcMax = 2
SPECIFICATION Spec
INVARIANT SizeWithinCap LinesAsWritten
PROPERTY Terminates
CHECK_DEADLOCK FALSE
