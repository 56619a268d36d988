----------------------------- MODULE MCMetering -----------------------------
\* TLC instances of Metering.
EXTENDS Metering

CONSTANTS o1, r1, r2

\* Before and after a change of plan: other prices, and no more storage.
MCCosts == {[compute |-> 1, storage |-> 1], [compute |-> 2, storage |-> 0]}

=============================================================================
