----------------------------- MODULE MCSession -----------------------------
EXTENDS SessionInvariant

CONSTANTS n0, n1, n2, n3, c0

MCNode == {n0, n1, n2, n3}
MCClient == {c0}

=============================================================================
