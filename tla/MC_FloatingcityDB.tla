---------------------------- MODULE MC_FloatingcityDB ----------------------------
EXTENDS FloatingcityDB

CONSTANTS d0, d1, d2

MCDirs == {d0, d1, d2}

=============================================================================
