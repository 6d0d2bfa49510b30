--------------------------------- MODULE MCPool ---------------------------------
EXTENDS Pool

CONSTANTS w1, w2, r1, r2

=============================================================================
