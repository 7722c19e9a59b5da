----------------------------- MODULE MCRegion -----------------------------
EXTENDS Region
CONSTANTS ct, worm
=============================================================================
