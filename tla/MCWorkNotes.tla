---------------------------- MODULE MCWorkNotes ----------------------------
\* Instances of WorkNotes for TLC.
EXTENDS WorkNotes, TLC

\* Incident 1 is seeded with one note; incident 2 may be created.
MCSeededNotes == [i \in {1} |-> {2}]

\* The workers are interchangeable: nothing in WorkNotes orders them.
Symmetry == Permutations(Threads)
=============================================================================
