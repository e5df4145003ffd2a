-------------------------- MODULE CopilotClientMC --------------------------
EXTENDS CopilotClient

\* Turns are interchangeable when all of them can be cancelled.
TurnSymmetry == Permutations(Turn)
=============================================================================
