SPECIFICATION Spec
CONSTANTS
  Invalid = Invalid
  NotSet = NotSet
  MaxLines = 6
  Options <- MCOptions
  BrTrees <- MCBrTrees
  MstiIds <- MCMstiIds
  MstidTooBig = 5000
  PrioInputs <- MCPrioInputs
  CostInputs <- MCCostInputs
  LineAllocMayFail = TRUE
  AddMayFail = FALSE
INVARIANTS
  TypeOK
  PortScopedConfig
  CistPortAsWritten
CHECK_DEADLOCK FALSE
