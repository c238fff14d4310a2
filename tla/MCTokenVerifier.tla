--------------------------- MODULE MCTokenVerifier ---------------------------
EXTENDS TokenVerifier
CONSTANTS r1, r2
TwoRequests == {r1, r2}
===============================================================================
