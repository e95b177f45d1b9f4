--------------------------- MODULE MCVerifiedFills ---------------------------
EXTENDS VerifiedFills
=============================================================================
