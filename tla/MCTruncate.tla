----------------------------- MODULE MCTruncate -----------------------------
EXTENDS Truncate

MCOptSizes == {2, 5}
=============================================================================
