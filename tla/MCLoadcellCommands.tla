-------------------------- MODULE MCLoadcellCommands --------------------------
EXTENDS LoadcellCommands
CONSTANTS c1, c2, iw, lz, id
=============================================================================
