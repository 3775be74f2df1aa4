\* Scoping of `mstid` sections: the line buffer may fail, cbr->mstids is
\* always allocated and a new entry starts with prio_set false.
CONSTANTS
  Invalid = Invalid
  NotSet = NotSet
  MaxLines = 6
  Options <- MCAllOptions
  MstiIds <- MCTwoIds
  MstidTooBig = 5000
  ScalarInputs = {7, 300}
  PrioInputs = {0, 4097}
  RevInputs = {70000}
  NameLenInputs = {40}
  MaxVid = 2
  VidArgs <- MCVidArgs
  MaxVidsArgs = 1
  MaxMstis = 1
  LineAllocMayFail = TRUE
  MstidAllocMayFail = FALSE
  StaleSlotPrios = {}
SPECIFICATION Spec
INVARIANT TypeOK
INVARIANT ScopedPriority
INVARIANT SetPointsAsWritten
CHECK_DEADLOCK FALSE
