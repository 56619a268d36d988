--------------------------- MODULE MCUsageReport ---------------------------
\* TLC instances of UsageReport.
EXTENDS UsageReport

CONSTANT r1

=============================================================================
