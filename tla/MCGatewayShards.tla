--------------------------- MODULE MCGatewayShards ---------------------------
\* TLC instances of GatewayShards.
EXTENDS GatewayShards

CONSTANTS a, b, w1, p1, p2

=============================================================================
