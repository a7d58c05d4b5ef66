-------------------------------- MODULE MCSse --------------------------------
EXTENDS Sse
CONSTANT s1
=============================================================================
