------------------------- MODULE MCIncidentConsole -------------------------
\* Instances of IncidentConsole for TLC.
EXTENDS IncidentConsole, TLC

\* The tasks of one page are interchangeable.
Symmetry == Permutations(Tasks)
=============================================================================
