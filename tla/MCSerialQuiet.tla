---------------------------- MODULE MCSerialQuiet ----------------------------
EXTENDS SerialQuiet
CONSTANTS c1, c2, iw, id
=============================================================================
