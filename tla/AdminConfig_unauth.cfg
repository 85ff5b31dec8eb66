\* The CommitConfig handler does not authenticate: a caller renames a
\* temporary file onto config.json that no admin round decided to commit,
\* here the file of a round still writing, before its writes ended (a
\* round given up after a failed write leaves such files too).
CONSTANTS
  n1 = n1
  n2 = n2
  f1 = f1
  f2 = f2
  c0 = c0
  cNew = cNew
  Partial = Partial
  None = None
  Nodes <- MCNodes
  Names <- MCNames
  Configs <- MCConfigs
  Init0 <- c0
SPECIFICATION Spec
INVARIANT ConfigOnlyFromCommittedRounds
