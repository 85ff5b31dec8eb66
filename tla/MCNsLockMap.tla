----------------------------- MODULE MCNsLockMap -----------------------------
(* Model-checking instance of NsLockMap: three operations, so that a      *)
(* holder, a waiter and a newcomer can interleave on one resource, and a  *)
(* second resource to show that entries of distinct names are independent.*)
EXTENDS NsLockMap, TLC

CONSTANTS o1, o2, o3, r1, r2

MCOps == {o1, o2, o3}
MCRes == {r1, r2}
MCResOne == {r1}

\* 2^16 wraps like a 64-bit uint within any behaviour of these bounds.
MCRefModulus == 65536

OpsSymmetry == Permutations(MCOps)

=============================================================================
