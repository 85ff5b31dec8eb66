---------------------------- MODULE MCFSMultipart ----------------------------
(* Model-checking instance of FSMultipart: two request goroutines, one or   *)
(* two upload ids, parts 1..2 with two possible contents each.             *)
EXTENDS FSMultipart, TLC

CONSTANTS w1, w2, u1, u2

MCWorkers == {w1, w2}
MCUploadsOne == {u1}
MCUploadsTwo == {u1, u2}
\* Both contents are of the minimum size, so every claim passes the size
\* checks and the interesting part is the append and commit.
MCPartSize == [e \in ETags |-> 5]
WorkersSymmetry == Permutations(MCWorkers)
=============================================================================
