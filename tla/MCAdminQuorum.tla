---------------------------- MODULE MCAdminQuorum ----------------------------
EXTENDS AdminQuorum, TLC

CONSTANTS c1, c2, c3

\* Distributed XL has at least two nodes; four covers even and odd counts
\* and a two-two tie.
MCPeerCounts == {2, 3, 4}
MCConfigs == {c1, c2, c3}
MCUptimeVals == {1, 2, 3}
\* The config reduction does not read the uptimes.
MCUptimeValsOne == {1}
\* Configs are only compared for equality (ConfigDiff == "").
ConfigSymmetry == Permutations(MCConfigs)
=============================================================================
