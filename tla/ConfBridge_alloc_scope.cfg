\* cbr->mstids cannot grow: the failed `mstid` line leaves the previous
\* section open.
CONSTANTS
  Invalid = Invalid
  NotSet = NotSet
  MaxLines = 3
  Options <- MCScopeOptions
  MstiIds <- MCTwoIds
  MstidTooBig = 5000
  ScalarInputs = {7, 300}
  PrioInputs = {4097}
  RevInputs = {70000}
  NameLenInputs = {40}
  MaxVid = 2
  VidArgs <- MCVidArgs
  MaxVidsArgs = 1
  MaxMstis = 1
  LineAllocMayFail = TRUE
  MstidAllocMayFail = TRUE
  StaleSlotPrios = {}
SPECIFICATION Spec
INVARIANT ScopedPriority
CHECK_DEADLOCK FALSE
