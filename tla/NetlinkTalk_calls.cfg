\* Four talks and dumps on rth_state with sendmsg and malloc allowed to
\* fail, dumps of two parts, rtnl->seq started where it does not wrap.
CONSTANTS
  SeqMod <- MCSeqMod
  SizeMod <- MCSizeMod
  InitSeqs <- MCNoWrapSeqs
  MaxCalls = 4
  DumpParts = 2
  QueueCap = 2
  SendMayFail = TRUE
  RecvMayFail = TRUE
  VlanStates = {"blocking", "forwarding"}
  Vids = {1, 2, 3}
SPECIFICATION Spec
INVARIANT AnswerRecent VlanTableFresh
PROPERTY CallReturns
CHECK_DEADLOCK FALSE
