---------------------------- MODULE MCTicketApi ----------------------------
\* Instances of TicketApi for TLC.
EXTENDS TicketApi, TLC

\* The workers are interchangeable: nothing in TicketApi orders them.
Symmetry == Permutations(Threads)
=============================================================================
