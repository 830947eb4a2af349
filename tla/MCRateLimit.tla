---------------------------- MODULE MCRateLimit ----------------------------
EXTENDS RateLimit
CONSTANTS c1, c2
=============================================================================
