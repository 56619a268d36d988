--------------------------- MODULE MCSubscription ---------------------------
\* TLC instances of Subscription.
EXTENDS Subscription

CONSTANTS h1, h2, basic

=============================================================================
