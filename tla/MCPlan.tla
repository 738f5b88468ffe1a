------------------------------- MODULE MCPlan -------------------------------
\* Instances of Plan for TLC.
EXTENDS Plan, TLC

MCSymmetry == Permutations(Threads)
=============================================================================
