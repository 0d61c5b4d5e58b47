----------------------------- MODULE MCV3Bridge -----------------------------
(* The register bridge with two register groups and three requests. *)
EXTENDS V3Bridge

CONSTANTS g1, g2

MCGrp == {g1, g2}
=============================================================================
