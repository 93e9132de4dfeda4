---------------------------- MODULE MCLineBuffer ----------------------------
\* Model-checking parameters of LineBuffer.
EXTENDS LineBuffer_proofs

NoFaults   == {}
LateOnly   == {"late"}
AllFaults  == {"io", "short", "timeout", "late"}
=============================================================================
