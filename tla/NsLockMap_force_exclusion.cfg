\* After one ForceUnlock, an operation that entered before it releases or
\* times out by NAME (unlock at line 217, the timeout path at line 191): it
\* decrements the post-force entry and deletes it at zero, so a later
\* operation builds a third mutex and two writers that started after the
\* ForceUnlock hold the resource together.
CONSTANTS
  o1 = o1
  o2 = o2
  o3 = o3
  r1 = r1
  r2 = r2
  Ops <- MCOps
  Res <- MCResOne
  MaxForce = 1
  RefModulus <- MCRefModulus
SPECIFICATION Spec
SYMMETRY OpsSymmetry
INVARIANT FreshOpsExclusion
