---------------------------- MODULE MCSessions ----------------------------
\* TLC instances of Sessions.
EXTENDS Sessions, TLC

CONSTANTS r1, r2, old, new

MaxExpired == 1     \* bound: the tokens, oldest first, that expire

MCNext == Next /\ expired' <= MaxExpired

MCSpec == Init /\ [][MCNext]_vars

\* Requests are interchangeable, and so are passwords.
Symmetry == Permutations(Requests) \union Permutations(Passwords)

=============================================================================
