----------------------------- MODULE MCSerialIO -----------------------------
EXTENDS SerialIO, TLC
CONSTANTS c1, c2, iw, id
ClientSymmetry == Permutations(Client)
=============================================================================
