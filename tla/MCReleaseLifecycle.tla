------------------------ MODULE MCReleaseLifecycle ------------------------
EXTENDS ReleaseLifecycle

CONSTANTS h1, h2, p1, p2, k1, k2

=============================================================================
