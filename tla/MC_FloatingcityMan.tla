------------------------- MODULE MC_FloatingcityMan -------------------------
(* Two collateral inputs with distinct keys, one asking peer, and the      *)
(* protocol's windows scaled to one unit each while keeping their order:   *)
(* MIN_DSEE < MIN_DSEEP < 1h < EXPIRATION < REMOVAL.                       *)
EXTENDS FloatingcityMan

CONSTANTS v1, v2, k1, k2, k3, k4, kLocal

MCCollateralKey == [v \in Vins |-> IF v = v1 THEN k1 ELSE k2]
MCHotKey == [v \in Vins |-> IF v = v1 THEN k3 ELSE k4]
MCCountValues == {-1, 0}
MCHonestSkew == -1
MCForgedSkew == 2
\* yay and nay
MCVoteValues == {1, -1}
\* a fresh broadcast only, relayed with lastUpdated 0
MCFreshCount == {-1}
MCNoLastUpdated == -100
=============================================================================
