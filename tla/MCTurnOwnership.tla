---- MODULE MCTurnOwnership ----
EXTENDS TurnOwnership
====
