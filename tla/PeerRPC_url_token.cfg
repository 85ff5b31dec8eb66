CONSTANTS
  Admin = Admin
  Peers = {p1}
  Buckets = {b1}
  Policies = {P1}
  RuleSets = {{r1}}
  Users = {u1}
  NoPolicy = NoPolicy
  a1 = a1
  a2 = a2
  k1 = k1
  k2 = k2
  AccessKeys = {a1, a2}
  SecretKeys = {k1, k2}
  InitCred <- MCInitCred
  RotateTo <- MCRotateTo
  MaxLogins = 1
  AttackerKey = AttackerKey
  Evil = Evil
  Exposed = TRUE
  Txn = Txn
  MaxOps = 3
  MaxAttacks = 1
  MaxQueue = 2
  MaxCrashes = 1
  MaxClock = 2
SPECIFICATION Spec
INVARIANTS
  NoForgedRPCApplied
CHECK_DEADLOCK FALSE
