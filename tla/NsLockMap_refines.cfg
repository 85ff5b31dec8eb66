\* Local namespace locking without ForceUnlock: the map entry of a name
\* lives exactly while operations use it, its ref counts them, and the map
\* refines the reader-writer lock contract of NsLock (spec.md 4.2).
CONSTANTS
  o1 = o1
  o2 = o2
  o3 = o3
  r1 = r1
  r2 = r2
  h1 = h1
  h2 = h2
  h3 = h3
  Hosts <- MCHosts
  MaxEndpoints = 4
  Ops <- MCOps
  Res <- MCRes
  MaxForce = 0
  RefModulus <- MCRefModulus
SPECIFICATION MCSpecNoForce
SYMMETRY OpsSymmetry
INVARIANT EntryLifecycle
INVARIANT DsyncNodesMatchReference
PROPERTY AbstractSpec
