SPECIFICATION Spec
CONSTANTS
  Disks <- MCDisks
  DataBlocks = 2
  BlockSizes <- MCBlockSizes
  MaxSize = 12
\* HealFile returns: its final states have no successor.
CHECK_DEADLOCK FALSE
INVARIANT TypeOK
INVARIANT HealedShardsComplete
INVARIANT ReadLenMatchesLayout
INVARIANT HealOutcome
