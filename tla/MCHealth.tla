------------------------------- MODULE MCHealth -------------------------------
EXTENDS Health
CONSTANTS c1, tracker1
=============================================================================
