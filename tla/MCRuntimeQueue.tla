--------------------------- MODULE MCRuntimeQueue ---------------------------
EXTENDS RuntimeQueue, TLC

CONSTANTS p, q, d

\* the two pipeline requests are alike
Pipelines == Permutations({p, q})
=============================================================================
