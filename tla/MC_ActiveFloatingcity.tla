------------------------ MODULE MC_ActiveFloatingcity ------------------------
(* The local node's input v1 with its keys; v2, when in Vins, is a remote    *)
(* node with its own keys.                                                   *)
EXTENDS ActiveFloatingcity

CONSTANTS v1, v2, k1, k2, k3, k4

MCCollateralKey == [v \in Vins |-> IF v = v1 THEN k1 ELSE k2]
MCHotKey == [v \in Vins |-> IF v = v1 THEN k3 ELSE k4]
MCCountValues == {-1, 0}
MCHonestSkew == -1
\* a fresh broadcast only, relayed with lastUpdated 0
MCFreshCount == {-1}
MCNoLastUpdated == -100
MCAliasInput == [a \in Aliases |-> v1]
====
