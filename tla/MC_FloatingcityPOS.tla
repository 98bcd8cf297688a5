--------------------------- MODULE MC_FloatingcityPOS ---------------------------
EXTENDS FloatingcityPOS

CONSTANTS n1, n2, n3

MCNodes == {n1, n2, n3}
MCScores == 0..2

=============================================================================
