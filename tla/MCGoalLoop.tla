----------------------------- MODULE MCGoalLoop -----------------------------
EXTENDS GoalLoop, TLC

CONSTANTS r1, r2, r3

=============================================================================
