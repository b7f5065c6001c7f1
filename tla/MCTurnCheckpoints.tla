--------------------------- MODULE MCTurnCheckpoints ---------------------------
EXTENDS TurnCheckpoints

MCOneTurn == 1 .. 1
MCTwoTurns == 1 .. 2
=============================================================================
