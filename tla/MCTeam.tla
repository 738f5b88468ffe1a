------------------------------- MODULE MCTeam -------------------------------
\* Instances of Team for TLC.
EXTENDS Team, TLC

MCSymmetry == Permutations(Users) \cup Permutations(Orgs) \cup Permutations(Handlers)
=============================================================================
