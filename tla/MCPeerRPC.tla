------------------------------ MODULE MCPeerRPC ------------------------------
EXTENDS PeerRPC

CONSTANTS a1, a2, k1, k2

\* A credential with a new secret, and one with a new access key only.
MCInitCred == [ak |-> a1, sk |-> k1]
MCRotateTo == {[ak |-> a1, sk |-> k2], [ak |-> a2, sk |-> k1]}

\* One rotation to a new access key under the same secret: old tokens keep
\* a valid signature but name the wrong subject.
MCRotateOnce == {[ak |-> a2, sk |-> k1]}
=============================================================================
