----------------------------- MODULE MCListings -----------------------------
\* Instances of Listings for TLC.
EXTENDS Listings, TLC

\* Pages before the first, and sizes that ask for nothing or for everything.
MCPages == {-1, 0, 1, 2}
MCSizes == {-1, 0, 1, 2, 201}

Symmetry == Permutations(Clients)
=============================================================================
