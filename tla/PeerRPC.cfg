CONSTANTS
  Admin = Admin
  Peers = {p1}
  Buckets = {b1}
  Policies = {P1}
  RuleSets = {{r1}}
  Users = {u1}
  NoPolicy = NoPolicy
  a1 = a1
  a2 = a2
  k1 = k1
  k2 = k2
  AccessKeys = {a1, a2}
  SecretKeys = {k1, k2}
  InitCred <- MCInitCred
  RotateTo <- MCRotateOnce
  MaxLogins = 1
  AttackerKey = AttackerKey
  Evil = Evil
  Exposed = FALSE
  Txn = Txn
  MaxOps = 3
  MaxAttacks = 1
  MaxQueue = 2
  MaxCrashes = 1
  MaxClock = 2
SPECIFICATION Spec
INVARIANT WebAuthAgrees
CHECK_DEADLOCK FALSE
