\* Every table over VIDs 0..10 encoded into a 12-byte buffer: a table
\* whose text does not fit is refused after some runs were written.
CONSTANTS
  MaxVid <- MCMaxVid
  MstVals = {0, 1}
  Mstid = 1
  MaxLen = 12
SPECIFICATION Spec
INVARIANT WithinBuffer
CHECK_DEADLOCK FALSE
