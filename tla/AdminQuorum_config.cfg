CONSTANTS
  c1 = c1
  c2 = c2
  c3 = c3
  Err = Err
  Corrupt = Corrupt
  Pending = Pending
  Panic = Panic
  PeerCounts <- MCPeerCounts
  Configs <- MCConfigs
  UptimeVals <- MCUptimeValsOne
SPECIFICATION Spec
SYMMETRY ConfigSymmetry
\* getPeerConfig returns once all replies are in.
CHECK_DEADLOCK FALSE
INVARIANTS
  TypeOK
  ConfigChoiceIsMajority
