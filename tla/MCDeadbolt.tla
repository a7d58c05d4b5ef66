------------------------------ MODULE MCDeadbolt ------------------------------
EXTENDS Deadbolt
CONSTANTS c1, c2, tracker1
=============================================================================
