-------------------------- MODULE MCOrganizations --------------------------
\* TLC instances of Organizations.
EXTENDS Organizations, TLC

CONSTANTS r1, r2, ann, bob, cat, main, side

Symmetry == Permutations(Calls) \union Permutations(Users \ {Founder})

=============================================================================
