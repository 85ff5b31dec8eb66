---------------------------- MODULE MCAdminConfig ----------------------------
EXTENDS AdminConfig

CONSTANTS n1, n2, f1, f2, c0, cNew

MCNodes == {n1, n2}
MCNames == {f1, f2}
MCConfigs == {cNew}
=============================================================================
