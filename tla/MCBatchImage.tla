------------------------------ MODULE MCBatchImage ------------------------------
EXTENDS BatchImage

CONSTANTS w1, w2
=============================================================================
