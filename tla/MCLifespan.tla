------------------------------ MODULE MCLifespan ------------------------------
EXTENDS Lifespan
CONSTANTS c1, c2, recorder1, tracker1
=============================================================================
