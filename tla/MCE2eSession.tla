---------------------------- MODULE MCE2eSession ----------------------------
\* Instances of E2eSession for TLC: no breaches, fewer than a page, one page and
\* more, and more than the fixture scans.
EXTENDS E2eSession

MCBreaches == {SubSeq(<<1, 2, 3, 4>>, 1, n) : n \in 0..4}
=============================================================================
