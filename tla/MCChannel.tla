------------------------------ MODULE MCChannel ------------------------------
EXTENDS Channel
\* Around zero, a pair within the tolerance and around the edge of a bin, their negative,
\* and one that rounding takes beyond the largest weight.
MixedLoads == {-7, 0, 3, 7, 8, 19}
=============================================================================
