--------------------------- MODULE MCAppLifecycle ---------------------------
\* TLC instances of AppLifecycle.
EXTENDS AppLifecycle, TLC

CONSTANTS r1, r2, b1, i1, i2, g1, rec

AllOps == {"create", "deploy", "stop", "restart", "delete", "update", "scale", "rollback"}

Symmetry == Permutations(Reqs) \cup Permutations(Images) \cup Permutations(Gits)

=============================================================================
