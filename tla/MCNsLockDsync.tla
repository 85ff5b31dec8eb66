----------------------------- MODULE MCNsLockDsync -----------------------------
(* The lock map of MCNsLockMap on a server started with any endpoint list *)
(* of up to four endpoints on three hosts, whose lock clients newDsyncNodes *)
(* builds at start-up; the endpoint list does not change afterwards.       *)
EXTENDS MCNsLockMap, DsyncNodes

CONSTANTS h1, h2, h3

MCHosts == {h1, h2, h3}

MCSpecNoForce ==
  /\ Init /\ DsyncInit
  /\ [][LockNext /\ UNCHANGED dsyncVars]_<<vars, dsyncVars>>
  /\ Fairness
=============================================================================
