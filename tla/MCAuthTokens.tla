---------------------------- MODULE MCAuthTokens ----------------------------
EXTENDS AuthTokens

CONSTANTS u1, r1, r2, r3, r4, r5
=============================================================================
