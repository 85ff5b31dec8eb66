\* Local namespace locking with up to two administrative ForceUnlocks: the
\* unlocks and timeouts of operations that entered before a force still
\* leave no map entry behind once nobody uses the resource.
CONSTANTS
  o1 = o1
  o2 = o2
  o3 = o3
  r1 = r1
  r2 = r2
  Ops <- MCOps
  Res <- MCResOne
  MaxForce = 2
  RefModulus <- MCRefModulus
SPECIFICATION Spec
SYMMETRY OpsSymmetry
INVARIANT NoEntryWhenIdle
