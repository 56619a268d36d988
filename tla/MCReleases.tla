----------------------------- MODULE MCReleases -----------------------------
(* Small instances of Releases: three racing deploys and two reconciler    *)
(* ticks.                                                                  *)
EXTENDS Releases

CONSTANTS w1, w2, w3, t1, t2

=============================================================================
