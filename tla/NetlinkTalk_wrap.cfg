\* rtnl->seq one below the wrap; every receive succeeds.
CONSTANTS
  SeqMod <- MCSeqMod
  SizeMod <- MCSizeMod
  InitSeqs <- MCWrapSeqs
  MaxCalls = 2
  DumpParts = 1
  QueueCap = 2
  SendMayFail = FALSE
  RecvMayFail = FALSE
  VlanStates = {"blocking", "forwarding"}
  Vids = {1, 2, 3}
SPECIFICATION Spec
PROPERTY CallReturns
CHECK_DEADLOCK FALSE
