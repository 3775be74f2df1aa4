\* A file of 17 `mstid` lines: the 17th entry lies past the 128 bytes
\* conf_opt_br_mstid allocated.
CONSTANTS
  Invalid = Invalid
  NotSet = NotSet
  MaxLines = 17
  Options <- MCOverflowOptions
  MstiIds <- MCOverflowIds
  MstidTooBig = 5000
  ScalarInputs = {7, 300}
  PrioInputs = {0}
  RevInputs = {70000}
  NameLenInputs = {40}
  MaxVid = 2
  VidArgs <- MCVidArgs
  MaxVidsArgs = 1
  MaxMstis = 1
  LineAllocMayFail = TRUE
  MstidAllocMayFail = FALSE
  StaleSlotPrios = {}
SPECIFICATION Spec
INVARIANT MstidsFitAllocation
CHECK_DEADLOCK FALSE
