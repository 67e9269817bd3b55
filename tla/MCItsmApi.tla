----------------------------- MODULE MCItsmApi -----------------------------
\* Instances of ItsmApi for TLC.
EXTENDS ItsmApi, TLC

CONSTANTS t1, t2, state, summary

\* The workers of the threadpool are interchangeable.
Symmetry == Permutations(Threads)
=============================================================================
